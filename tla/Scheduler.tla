-------------------------------- MODULE Scheduler --------------------------------
(* src/Src/scheduler.c: a cooperative scheduler over a caller-owned array of    *)
(* tasks. Scheduler_run calls each task's function from inside its loop, so the *)
(* code of a task may add, free, activate or deactivate tasks of the very array *)
(* the loop is walking through; the loop reads each slot only when it gets to it. *)
EXTENDS Integers

CONSTANTS Function,   \* the functions callers register
          NULL,
          NumTasks    \* length of the caller's array

ASSUME SchedulerAssumption == NULL \notin Function /\ NumTasks \in Nat \ {0}

VARIABLES tasks,          \* the array of SchedulerTask_t
          pc,             \* "caller", or inside Scheduler_run: "loop" or "task"
          i, num_of_tasks,  \* its loop counter and argument
          status,         \* what Scheduler_addTask last returned
          ran,            \* history: slots whose function this pass has called
          steady          \* history: slots runnable when this pass began and not
                          \* written to since

vars == <<tasks, pc, i, num_of_tasks, status, ran, steady>>
run  == <<pc, i, num_of_tasks, ran>>

Slots == 0..(NumTasks - 1)
NoTask == [function |-> NULL, active |-> FALSE]
Runnable(s) == tasks[s].function # NULL /\ tasks[s].active

(* Wrong on purpose: a task that is not active is taken for an empty slot.       *)
InactiveAmong(n) == {s \in 0..(n - 1) : ~tasks[s].active}

FreeAmong(n) == {s \in 0..(n - 1) : tasks[s].function = NULL}

(* The array after Scheduler_init; nothing may be run before that.              *)
Init == /\ tasks = [s \in Slots |-> NoTask]
        /\ pc = "caller" /\ i = 0 /\ num_of_tasks = 0
        /\ status = FALSE
        /\ ran = {} /\ steady = {}

(* Code outside scheduler.c is running: the caller's, or a task's function.     *)
UserCode == pc \in {"caller", "task"}

Write(touched) == steady' = steady \ touched /\ UNCHANGED run

(* Scheduler_init of the first n slots.                                         *)
SchedulerInit(n) ==
    /\ UserCode
    /\ tasks' = [s \in Slots |-> IF s < n THEN NoTask ELSE tasks[s]]
    /\ Write(0..(n - 1))
    /\ UNCHANGED status

(* Scheduler_addTask: the first free slot takes the task. A NULL function is    *)
(* stored like any other and leaves the slot free.                              *)
AddTask(max_num_tasks, new_task) ==
    /\ UserCode
    /\ \/ \E s \in FreeAmong(max_num_tasks) :
             /\ \A other \in FreeAmong(max_num_tasks) : s <= other
             /\ tasks' = [tasks EXCEPT ![s] = new_task]
             /\ Write({s})
             /\ status' = TRUE
       \/ /\ FreeAmong(max_num_tasks) = {}
          /\ status' = FALSE
          /\ UNCHANGED <<tasks, run, steady>>

(* Users write the public members of a slot themselves.                         *)
FreeTask(s) ==
    /\ UserCode
    /\ tasks' = [tasks EXCEPT ![s].function = NULL]
    /\ Write({s})
    /\ UNCHANGED status

SetActive(s, active) ==
    /\ UserCode
    /\ tasks' = [tasks EXCEPT ![s].active = active]
    /\ Write({s})
    /\ UNCHANGED status

(* Wrong on purpose: the loop counter of the last pass is taken over.            *)
RunFromLastIndex(n) ==
    /\ pc = "caller"
    /\ pc' = "loop" /\ num_of_tasks' = n
    /\ ran' = {} /\ steady' = {s \in 0..(n - 1) : Runnable(s)}
    /\ UNCHANGED <<tasks, i, status>>

(* Scheduler_run: entry, one iteration that skips or calls, and exit.           *)
Run(n) ==
    /\ pc = "caller"
    /\ pc' = "loop" /\ i' = 0 /\ num_of_tasks' = n
    /\ ran' = {} /\ steady' = {s \in 0..(n - 1) : Runnable(s)}
    /\ UNCHANGED <<tasks, status>>

(* Wrong on purpose: the first slot with nothing to run ends the pass.           *)
SkipAllTheRest ==
    /\ pc = "loop" /\ i < num_of_tasks /\ ~Runnable(i)
    /\ i' = num_of_tasks
    /\ UNCHANGED <<tasks, pc, num_of_tasks, status, ran, steady>>

SkipTask ==
    /\ pc = "loop" /\ i < num_of_tasks /\ ~Runnable(i)
    /\ i' = i + 1
    /\ UNCHANGED <<tasks, pc, num_of_tasks, status, ran, steady>>

CallTask ==
    /\ pc = "loop" /\ i < num_of_tasks /\ Runnable(i)
    /\ pc' = "task" /\ ran' = ran \cup {i}
    /\ UNCHANGED <<tasks, i, num_of_tasks, status, steady>>

(* Wrong on purpose: a task that is still runnable is called once more.          *)
TaskReturnsToItself ==
    /\ pc = "task"
    /\ pc' = "loop" /\ i' = IF Runnable(i) THEN i ELSE i + 1
    /\ UNCHANGED <<tasks, num_of_tasks, status, ran, steady>>

(* Wrong on purpose: the slot behind a task that freed itself is passed over.    *)
TaskReturnsPastNext ==
    /\ pc = "task"
    /\ pc' = "loop"
    /\ i' = IF ~Runnable(i) /\ i + 2 <= num_of_tasks THEN i + 2 ELSE i + 1
    /\ UNCHANGED <<tasks, num_of_tasks, status, ran, steady>>

TaskReturns ==
    /\ pc = "task"
    /\ pc' = "loop" /\ i' = i + 1
    /\ UNCHANGED <<tasks, num_of_tasks, status, ran, steady>>

RunReturns ==
    /\ pc = "loop" /\ i = num_of_tasks
    /\ pc' = "caller"
    /\ UNCHANGED <<tasks, i, num_of_tasks, status, ran, steady>>

Loop == SkipTask \/ CallTask \/ RunReturns

Task == [function : Function \cup {NULL}, active : BOOLEAN]

Next == \/ \E n \in 0..NumTasks : SchedulerInit(n) \/ Run(n)
        \/ \E n \in 0..NumTasks, t \in Task : AddTask(n, t)
        \/ \E s \in Slots : FreeTask(s) \/ (\E a \in BOOLEAN : SetActive(s, a))
        \/ Loop \/ TaskReturns

(* The loop itself is plain C; a task's function is assumed to return (a        *)
(* cooperative scheduler has no other way to get control back), and the main    *)
(* loop of the application to call Scheduler_run on the whole array again.      *)
Fairness == WF_vars(Loop) /\ WF_vars(TaskReturns) /\ SF_vars(Run(NumTasks))

Spec == Init /\ [][Next]_vars /\ Fairness

------------------------------------------------------------------------------
(* TypeOK: the loop never looks beyond the slots it was told of.                *)
TypeOK == /\ tasks \in [Slots -> Task]
          /\ pc \in {"caller", "loop", "task"}
          /\ num_of_tasks \in 0..NumTasks
          /\ i \in 0..num_of_tasks
          /\ pc = "task" => i < num_of_tasks
          /\ status \in BOOLEAN
          /\ ran \subseteq Slots /\ steady \subseteq Slots

(* PassInv: a pass has called only slots it has already come by, and among them  *)
(* every one that stayed runnable; what a task's function did to the array on   *)
(* the way makes no other task be skipped or called a second time. When         *)
(* Scheduler_run has returned, every task that was runnable all through the     *)
(* pass has been called.                                                        *)
Visited == IF pc = "task" THEN 0..i ELSE 0..(i - 1)
PassInv ==
    /\ ran \subseteq Visited
    /\ pc # "caller" => /\ \A s \in steady : Runnable(s) /\ s < num_of_tasks
                        /\ steady \cap Visited \subseteq ran
    /\ pc = "caller" => steady \subseteq ran

(* NoOverwrite: a registered function gives way only to NULL, that is, to its    *)
(* being freed; adding a task, from a caller or from a running task, never      *)
(* throws another one out, active or not.                                       *)
KeepsFunctions == \A s \in Slots : tasks[s].function # NULL => tasks'[s].function \in {tasks[s].function, NULL}
NoOverwrite == [][KeepsFunctions]_vars

(* NoStarvation: a task that stays registered and active is called again and    *)
(* again, whatever the others do to the array.                                  *)
NoStarvation == \A s \in Slots : <>[]Runnable(s) => []<>(pc = "task" /\ i = s)

(* PassEnds: every pass comes to its end, even when each task adds another one. *)
PassEnds == pc # "caller" ~> pc = "caller"
=============================================================================
