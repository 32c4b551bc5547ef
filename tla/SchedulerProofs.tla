----------------------------- MODULE SchedulerProofs -----------------------------
(* Proofs about Scheduler for every array length and every set of functions.    *)
EXTENDS Scheduler, TLAPS

IInv == TypeOK /\ PassInv

LEMMA InitIInv == Init => IInv
<1> SUFFICES ASSUME Init PROVE IInv
  OBVIOUS
<1>1. NoTask \in Task
  BY DEF NoTask, Task
<1>2. TypeOK
  <2>1. tasks \in [Slots -> Task]
    BY <1>1 DEF Init
  <2>2. num_of_tasks \in 0..NumTasks /\ i \in 0..num_of_tasks /\ pc = "caller"
    BY SchedulerAssumption DEF Init
  <2> QED BY <2>1, <2>2 DEF Init, TypeOK
<1>3. PassInv
  BY DEF Init, PassInv
<1> QED BY <1>2, <1>3 DEF IInv

(* User code only writes slots, and takes each one it writes out of steady.     *)
LEMMA WritePreserves ==
    ASSUME IInv, UserCode, NEW touched \in SUBSET Slots, Write(touched),
           tasks' \in [Slots -> Task], status' \in BOOLEAN,
           \A s \in Slots \ touched : tasks'[s] = tasks[s]
    PROVE  IInv'
<1> USE SchedulerAssumption DEF IInv, TypeOK, Write, run
<1>1. TypeOK'
  OBVIOUS
<1>2. \A s \in steady' : s \in steady /\ s \notin touched /\ s \in Slots
  OBVIOUS
<1>3. \A s \in steady' : Runnable(s)' <=> Runnable(s)
  BY <1>2 DEF Runnable
<1>4. PassInv'
  BY <1>2, <1>3 DEF PassInv, Visited
<1> QED BY <1>1, <1>4

LEMMA StepIInv == IInv /\ [Next]_vars => IInv'
<1> SUFFICES ASSUME IInv, [Next]_vars PROVE IInv'
  OBVIOUS
<1> USE SchedulerAssumption
<1>1. ASSUME NEW n \in 0..NumTasks, SchedulerInit(n) PROVE IInv'
  <2>1. NoTask \in Task /\ 0..(n - 1) \subseteq Slots
    BY DEF NoTask, Task, Slots
  <2>2. tasks' \in [Slots -> Task] /\ \A s \in Slots \ 0..(n - 1) : tasks'[s] = tasks[s]
    BY <1>1, <2>1 DEF SchedulerInit, IInv, TypeOK, Slots
  <2> QED BY <1>1, <2>1, <2>2, WritePreserves DEF SchedulerInit, IInv, TypeOK
<1>2. ASSUME NEW n \in 0..NumTasks, NEW t \in Task, AddTask(n, t) PROVE IInv'
  <2>1. CASE status' = FALSE /\ UNCHANGED <<tasks, run, steady>>
    BY <2>1 DEF IInv, TypeOK, PassInv, Visited, Runnable, run
  <2>2. ASSUME NEW s \in FreeAmong(n), tasks' = [tasks EXCEPT ![s] = t], Write({s}), status' = TRUE
        PROVE  IInv'
    <3>1. s \in Slots
      BY DEF FreeAmong, Slots
    <3>2. tasks' \in [Slots -> Task] /\ \A r \in Slots \ {s} : tasks'[r] = tasks[r]
      BY <2>2, <3>1 DEF IInv, TypeOK
    <3> QED BY <1>2, <2>2, <3>1, <3>2, WritePreserves DEF AddTask
  <2> QED BY <1>2, <2>1, <2>2 DEF AddTask
<1>3. ASSUME NEW s \in Slots, FreeTask(s) PROVE IInv'
  <2>1. [tasks[s] EXCEPT !.function = NULL] \in Task
    BY DEF IInv, TypeOK, Task
  <2>2. tasks' = [tasks EXCEPT ![s] = [tasks[s] EXCEPT !.function = NULL]]
    BY <1>3 DEF FreeTask
  <2>3. tasks' \in [Slots -> Task] /\ \A r \in Slots \ {s} : tasks'[r] = tasks[r]
    BY <2>1, <2>2 DEF IInv, TypeOK
  <2> QED BY <1>3, <2>3, WritePreserves DEF FreeTask, IInv, TypeOK
<1>4. ASSUME NEW s \in Slots, NEW a \in BOOLEAN, SetActive(s, a) PROVE IInv'
  <2>1. [tasks[s] EXCEPT !.active = a] \in Task
    BY DEF IInv, TypeOK, Task
  <2>2. tasks' = [tasks EXCEPT ![s] = [tasks[s] EXCEPT !.active = a]]
    BY <1>4 DEF SetActive
  <2>3. tasks' \in [Slots -> Task] /\ \A r \in Slots \ {s} : tasks'[r] = tasks[r]
    BY <2>1, <2>2 DEF IInv, TypeOK
  <2> QED BY <1>4, <2>3, WritePreserves DEF SetActive, IInv, TypeOK
<1> USE DEF IInv, TypeOK, PassInv, Visited
<1>5. ASSUME NEW n \in 0..NumTasks, Run(n) PROVE IInv'
  <2>1. Visited' = {} /\ \A s \in steady' : s \in Slots /\ s < n /\ Runnable(s)'
    BY <1>5 DEF Run, Runnable, Slots
  <2> QED BY <1>5, <2>1 DEF Run
<1>6. CASE SkipTask
  BY <1>6 DEF SkipTask, Runnable
<1>7. CASE CallTask
  BY <1>7 DEF CallTask, Runnable, Slots
<1>8. CASE TaskReturns
  BY <1>8 DEF TaskReturns, Runnable
<1>9. CASE RunReturns
  <2>1. Visited = 0..(num_of_tasks - 1) /\ steady \subseteq ran
    BY <1>9 DEF RunReturns, Slots
  <2>2. Visited' = 0..(num_of_tasks - 1)
    BY <1>9 DEF RunReturns
  <2> QED BY <1>9, <2>1, <2>2 DEF RunReturns
<1>10. CASE UNCHANGED vars
  BY <1>10 DEF vars, Runnable
<1> QED BY <1>1, <1>2, <1>3, <1>4, <1>5, <1>6, <1>7, <1>8, <1>9, <1>10 DEF Next, Loop

(* The walk through the array stays inside it, whatever tasks do to it.         *)
THEOREM TypeCorrect == Spec => []TypeOK
<1>1. IInv => TypeOK
  BY DEF IInv
<1> QED BY InitIInv, StepIInv, <1>1, PTL DEF Spec

(* A pass calls every task that is runnable from its beginning to its end.      *)
THEOREM NoTaskIsSkipped == Spec => []PassInv
<1>1. IInv => PassInv
  BY DEF IInv
<1> QED BY InitIInv, StepIInv, <1>1, PTL DEF Spec

(* No call and no task makes a registered task disappear under another one.     *)
THEOREM NoTaskIsOverwritten == Spec => NoOverwrite
<1>1. IInv /\ [Next]_vars => [KeepsFunctions]_vars
  <2> SUFFICES ASSUME IInv, Next PROVE KeepsFunctions
    OBVIOUS
  <2> USE SchedulerAssumption DEF IInv, TypeOK, KeepsFunctions
  <2>1. ASSUME NEW n \in 0..NumTasks, SchedulerInit(n) PROVE KeepsFunctions
    BY <2>1 DEF SchedulerInit, NoTask
  <2>2. ASSUME NEW n \in 0..NumTasks, NEW t \in Task, AddTask(n, t) PROVE KeepsFunctions
    BY <2>2 DEF AddTask, FreeAmong, Slots
  <2>3. ASSUME NEW s \in Slots, FreeTask(s) PROVE KeepsFunctions
    BY <2>3 DEF FreeTask, Task
  <2>4. ASSUME NEW s \in Slots, NEW a \in BOOLEAN, SetActive(s, a) PROVE KeepsFunctions
    BY <2>4 DEF SetActive, Task
  <2>5. CASE tasks' = tasks
    BY <2>5
  <2> QED BY <2>1, <2>2, <2>3, <2>4, <2>5
      DEF Next, Run, Loop, SkipTask, CallTask, TaskReturns, RunReturns
<1> QED BY InitIInv, StepIInv, <1>1, PTL DEF Spec, NoOverwrite

------------------------------------------------------------------------------
(* What a pass still has before it: a slot is skipped in one step, or its function is   *)
(* called in one and has returned in another.                                          *)
PassStepsLeft ==
    CASE pc = "caller" -> 0
      [] pc = "loop" -> 2 * (num_of_tasks - i) + 1
      [] pc = "task" -> 2 * (num_of_tasks - i)

LEMMA PassCount ==
    ASSUME TypeOK
    PROVE  /\ i \in Nat /\ num_of_tasks \in Nat /\ i <= num_of_tasks
           /\ PassStepsLeft \in 0..(2 * num_of_tasks + 1)
  <1>1. i \in Nat /\ num_of_tasks \in Nat /\ i <= num_of_tasks /\ pc \in {"caller", "loop", "task"}
    BY SchedulerAssumption DEF TypeOK
  <1> QED
    BY <1>1 DEF PassStepsLeft

LEMMA PassCountsDown ==
    ASSUME TypeOK, Next, pc # "caller"
    PROVE  PassStepsLeft' < PassStepsLeft \/ (pc = "task" /\ UNCHANGED run)
  <1>1. i \in Nat /\ num_of_tasks \in Nat /\ i <= num_of_tasks
    BY PassCount
  <1>2. CASE \E m \in 0..NumTasks : SchedulerInit(m)
    BY <1>2 DEF SchedulerInit, UserCode, Write
  <1>3. CASE \E m \in 0..NumTasks, t \in Task : AddTask(m, t)
    BY <1>3 DEF AddTask, UserCode, Write
  <1>4. CASE \E s \in Slots : FreeTask(s) \/ (\E a \in BOOLEAN : SetActive(s, a))
    BY <1>4 DEF FreeTask, SetActive, UserCode, Write
  <1>5. CASE SkipTask
    BY <1>1, <1>5 DEF SkipTask, PassStepsLeft
  <1>6. CASE CallTask
    BY <1>1, <1>6 DEF CallTask, PassStepsLeft
  <1>7. CASE RunReturns
    BY <1>1, <1>7 DEF RunReturns, PassStepsLeft
  <1>8. CASE TaskReturns
    BY <1>1, <1>8 DEF TaskReturns, PassStepsLeft
  <1> QED
    BY <1>2, <1>3, <1>4, <1>5, <1>6, <1>7, <1>8 DEF Next, Loop, Run

(* A pass over n slots is over after at most 2 * n + 1 steps of Scheduler_run and of    *)
(* functions returning to it; what the functions do to the array in between, adding     *)
(* tasks included, makes it no longer.                                                 *)
THEOREM PassesAreShort ==
    Spec => /\ [](PassStepsLeft \in 0..(2 * num_of_tasks + 1))
            /\ [][pc # "caller" => \/ PassStepsLeft' < PassStepsLeft
                                   \/ pc = "task" /\ UNCHANGED run]_vars
  <1>1. TypeOK => PassStepsLeft \in 0..(2 * num_of_tasks + 1)
    BY PassCount
  <1>2. TypeOK /\ [Next]_vars => [pc # "caller" => \/ PassStepsLeft' < PassStepsLeft
                                                   \/ pc = "task" /\ UNCHANGED run]_vars
    BY PassCountsDown
  <1> QED
    BY <1>1, <1>2, TypeCorrect, PTL DEF Spec

(* In one pass the function of a slot is called at most once, even if a task that has   *)
(* been called is freed and another one takes its slot.                                *)
THEOREM CalledOnce == Spec => [][CallTask => i \notin ran]_vars
  <1>1. IInv => (CallTask => i \notin ran)
    <2> SUFFICES ASSUME IInv, CallTask PROVE i \notin ran
      OBVIOUS
    <2>1. i \in Nat /\ ran \subseteq 0..(i - 1)
      BY PassCount DEF IInv, PassInv, Visited, CallTask
    <2> QED
      BY <2>1
  <1>2. IInv /\ [Next]_vars => [CallTask => i \notin ran]_vars
    BY <1>1
  <1> QED
    BY <1>2, InitIInv, StepIInv, PTL DEF Spec

==============================================================================
