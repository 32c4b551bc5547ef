# TLA+ models of IMUtility

IMUtility is a C library of small utilities for embedded systems: containers over
memory the caller owns, sorts, a cooperative scheduler, checksums, and text
encodings. It allocates nothing, starts no thread and has no global state; every
module is a set of functions over a structure or a buffer of the caller. What makes
it hard to test is therefore not threads but

- long sequences of legal calls (ring indices that wrap around, reinitialisation over
  stale memory, messages handed over in pieces),
- limits (full and empty containers, evictions, 32-bit wrap-around, reads behind an array),
- callbacks that run in the middle of a loop (task functions, `compareFun`),
- loops that must end whatever a callback does.

The models take these one function at a time from `src/`, and where a loop matters,
one iteration at a time.

## Inventory

| component | state | operations | properties that make it correct | module |
|---|---|---|---|---|
| Queue (`Src/queue.c`) | `capacity, front, rear, size`, caller's buffer | init, full, empty, enqueue, dequeue, front, rear | is a bounded FIFO; indices in range; live slots never overwritten | `Queue` |
| PriorityQueue (`Src/priority_queue.c`) | `capacity, size`, two parallel arrays | init, empty, enqueue (with eviction), dequeue | FIFO among equals; evicts the oldest worst entry only for a better one; arrays stay aligned; calls return | `PriorityQueue` |
| Map (`Src/map.c`) | `max_map_size, current_size`, two parallel arrays | init, insert, getValue | is a bounded partial function; no key twice; stale entries never found | `Map` |
| Scheduler (`Src/scheduler.c`) | array of `{function, active}` | init, addTask, run | a pass calls every task that stays runnable; adding never overwrites; no starvation; passes end | `Scheduler` |
| Sorts (`Src/sort/`) | the caller's array; loop counters | `*_sort`, `Heapify`, `Utils_swapElements` | permutation; sorted for a strict weak order; terminates for any comparator; bubble sort stable | `BubbleSort`, `SelectionSort`, `HeapSort` |
| CRC (`Src/crc/`) | the register, and the value the caller carries from call to call | `CrcN` functions (45), `CrcNBase`, `CrcNBase_tableCalculator` | result = remainder of dividing the whole message by the polynomial of the code's table, however it is cut | `Crc`, `CrcVariants` |
| BitManipulation (`Src/bit_manipulation.c`) | none | reflect, bitSet, setBit, clearBit, toggleBit | reflection loses no bit; a changed bit is the only one changed; bits beyond the word are refused | `CrcWords`, `Wire` |
| Utils (`Src/utils.c`) | none | swap, string to integer, power of ten, (de)serialisation | what is written is read back and nothing beside it changes; numerals are read or refused, never wrapped | `SortArray`, `StringToUint32`, `Wire` |
| Json (`Src/json.c`) | a string growing in a bounded buffer | start, add, end, findByKey | a text begun with `Json_startString` is what the accepted calls asked for; a refused pair leaves at most one comma; a search answers from this text | `Json` |
| Base64 (`Src/base64.c`) | none | encode, decode | the text is that of RFC 4648; data of three bytes or more come back; no character beyond the limit | `Base64` |

Interactions: the sorts call `Utils_swapElements` and the caller's `compareFun`; the
CRC functions call `CrcNBase`, which calls `BitManipulation_reflect`; the scheduler
calls task functions, which call the scheduler back (`Scheduler_addTask`) or write its
array. The other components do not call each other. Tests (`Tests/`), build files, CI
and analyser configuration are not modelled; `PROJECT.json` lists every part and its
status, and under `hazards` each place where the code could go wrong without a unit
test noticing.

## Modules

Each component has a module with its state, `Init`, one action per function (or per
loop iteration), the properties and, where it helps, an abstract module that says what
the component promises:

    BoundedFifo        <-  Queue                    QueueProofs
    PriorityStore      <-  PriorityQueue            PriorityQueueProofs
    BoundedDictionary  <-  Map                      MapProofs
                           Scheduler                SchedulerProofs
    SortArray <- NestedLoops <- BubbleSort, SelectionSort
              <- HeapSort
    BubbleSort, SelectionSort,
    HeapSort               <-  Sorts                SortProofs
    CrcWords           <-  CrcStream <- Crc         CrcProofs
                           CrcVariants
    Json, StringToUint32,
    Base64, Wire       <-  TextFunctions            TextProofs
                                                    Recursion (shared lemmas)

(`A <- B` : B instantiates or extends A.) The `MC*` modules give the constants values
for TLC, and hold the few properties that quote a comment of the repository.
Definitions whose comment begins with *Wrong on purpose* are not used by any
specification: each is a variant of an operation with a plausible bug, and putting it
in the place of the operation makes TLC report one named property (`mutants` in
`PROJECT.json`). They are the evidence that the properties can fail.

### How state and actions correspond to the code

**Queue.** The variables are the members of `Queue_t`, the caller's memory (`buffer`,
with slots for the largest capacity; `Init` lets it hold anything) and what the caller
sees (`out`, `status`). `element_size` is abstracted: an element is a value, a slot
holds one. Each action is a whole call with its NULL and limit checks. `QueueInit` is
possible at any time, with a larger or smaller capacity, and does not clear the buffer.
`BoundedFifo` has one sequence and no indices; `Contents` maps the ring to it. That each
step is *some* abstract step would let one call pass for another, or refuse without
cause; `FifoSpec` therefore also names the abstract step for each call, here and in the
next two modules. That the queue is first-in first-out is what the code does and the tests
expect; the comments of `queue.h` (lines 80 and 90) insert "at the end of the queue" and
remove "from the end of the queue", which would be a stack (see the findings below).

**PriorityQueue.** The two searches and the shift are loops over the live arrays, so
they run one iteration per step with the C locals (`index`, `best`, `i`) as variables;
`pc` says which loop runs. The caller sees nothing of a call before it returns: the
refinement mapping (`Visible`) shows the state before the call until then, so each call
is one atomic step of `PriorityStore`.

**Map.** As Queue; `GetIndex` is the first live entry with an equal key.

**Scheduler.** `Scheduler_run` is modelled slot by slot. While a task's function runs
(`pc = "task"`) it may do what any application code may do to the array: initialise,
add, free (`function = NULL_PTR`), switch `active`. The history variables `ran` and
`steady` record what the pass has called and what was runnable all along.

**Sorts.** An element is named by the index it had at the start, so the array is a
permutation and no element values are needed; `greater` is what `compareFun` answers
and may be *any* relation, because the sorts must stay in bounds and terminate even
for a comparator that breaks its contract; sortedness is claimed for strict weak
orders. `HeapSort` also records the indices handed to `compareFun`. `Sorts` puts the
three side by side (`sort` says which one has been called).

**CRC.** A word is the set of its one bits, XOR the symmetric difference, a shift
drops the bits that leave the word; the 8-, 16- and 32-bit copies of the engine are one
definition with a width. `CrcVariants` has a record for each of the 45 functions. The
caller hands over chunks, from zero bytes up, starting anew (`last_crc_ptr = NULL_PTR`)
or continuing from the last value; the byte loop runs one byte per step. `CrcStream`
has no registers, tables or chunks: its result is the remainder of long division of
the message polynomial. The generators are those the tables of the code are made of, and
for which the tests know the results; the headers of four functions name others (see the
findings below).

**Json.** `json.c` knows no tokens, it looks at single characters; so the state is the
memory: the caller's buffer, what older texts left in it, and the one byte behind it
(`FOREIGN` until something is written there). The byte *before* the buffer, which
`Json_addData` reads when the text is empty, may be anything. Each action is a whole
call. `calls` remembers what made the text, `asked` the arguments of the last search. Where the
byte before the buffer has brought a comma in, `calls` says so (`stray`); that comma was
asked for by nobody, and `Contribution` gives it none of the text.
`Contribution` says what each call has left in the text, `FindsWhatWasAdded` what a
search for a key's text answers; both speak of keys and values, not of memory.

**StringToUint32.** One character per step. `UINT32_MAX` and the number of its digits
are constants; in the run they are 4095 and 4, and the relation between them and the
powers of ten that the overflow check rests on is an assumption of the module. Calls are independent:
`NumberTaken` forgets everything.

**Base64.** One group of four characters per step, on character codes. `size_t` has a
small range (`SIZE`), so that `EncodedLength` wraps. `result` is everything written,
the terminator included, and `read` how far into data or text the call has read. `Piece` cuts a stream of bits into pieces of any width:
`EncodesBits` and `DecodesBits` compare the shifts and masks of the code with it.

**Wire.** A caller who lays out words and blobs in one buffer, with every
`Utils_Serialize*` function (the number of bytes and their order are parameters), and
changes single bits of a word in place with the functions of `bit_manipulation.c`.
Bytes and words are sets of one bits. `fields` remembers what has been written and not
overwritten.

These four share no state; `TextFunctions` puts them side by side (`part` says which one
takes steps), because interleaving them would only multiply states.

Abstraction to know about: the literal tables of the 45 files are represented by their
polynomials. (The entries were compared with what the table calculator computes, by a
script, when the module was written; no run repeats that.)

## Runs

Every run is `tlc -config <cfg> <module>`. None uses symmetry or a state constraint.

| run | what it asks | bounds, and why they suffice |
|---|---|---|
| `queue` | FIFO refinement call by call, ring shape, live slots | capacity up to 3, 3 elements: every combination of front, rear, size; wrap-around; shrinking and growing over stale memory |
| `priority_queue` | refinement of `PriorityStore` call by call, the invariants of the search and shift loops, calls return | capacity 3, 3 priorities (better, equal, worse than a stored one), 2 elements |
| `map` | refinement of `BoundedDictionary` call by call, unique keys | 3 entries, 4 keys: a full map that lacks a key; 2 values |
| `scheduler` | pass invariants, no overwrite, no starvation, passes end | 3 slots: a task in the middle acts before and behind itself, and can starve another; 2 functions: one put over another shows |
| `sorts` | of each sort: permutation, loop invariant, sorted, terminates; bubble sort: stable | *every* comparator relation up to 4 elements, every ranking with ties up to 5 (heap sort 6: three levels) |
| `crc` | refinement of `CrcStream`, lookup = division, agreement with the test suite | all 45 functions, with the generators of their tables; messages up to 3 bytes, and `message5` of the tests, cut in every way. Each byte is one step of the same kind, so longer messages add nothing |
| `text` | Json: a text begun with `Json_startString` is what was added, searches answer from it; StringToUint32: numerals; Base64: bits of text and data; Wire: fields read back | Json: 4 calls per text, 2 texts in one buffer, buffers that hold no text, one pair exactly, one pair and its end, two pairs; a key that is the end of another, a value that contains one. Numbers: all strings of up to 5 characters. Base64: data and texts of up to 6 bytes, every limit up to 9. Wire: 3 writes in 5 bytes, so that fields touch, overlap and cover each other |

Deadlock is checked in all runs but the two of the sorts, which end.

### Where the code does not do what the repository says

Five runs expect a violation. Each checks a sentence of the repository that the code
does not keep:

- `heap_sort_bounds`: `Heapify` calls `compareFun` with children that do not exist
  before it compares their indices with `n` (`Src/sort/heap_sort.c:51`), against
  `Inc/misra_c_2012_doc.h:76`. The answers are discarded, so sorting is not affected.
- `json_bounds`: in a buffer filled to its last byte, the comma that `Json_addData`
  writes before it checks the size of the pair takes the place of the terminator, and
  the terminator goes behind the buffer (`Src/json.c:63`), against
  `Inc/misra_c_2012_doc.h:76`.
- `json_find`: `Json_findByKey` looks only at the first occurrence of the key's text; a
  key whose text ends an earlier key or value is answered with another string, or is
  not found (`Src/json.c:121`), against `Inc/json.h:92`. `FindsWhatWasAdded` says
  exactly what is answered instead.
- `json_empty`: `Json_addData` on an empty string looks at the byte before the buffer; if
  that is a quote, the text begins with a comma (`Src/json.c:61`). `Tests/test_json.c:32`
  makes this call and line 33 expects the pair and nothing else, which holds by the luck of
  what lies before the buffer; `Inc/misra_c_2012_doc.h:76` speaks of guards. A text begun
  with `Json_startString` is never empty: `TextSaysWhatWasAdded` is about these texts.
- `base64`: three promises, of which TLC reports the first it finds broken; each of them
  fails when it is checked alone.
  - `WithinTheResult` (the one reported): the terminator of `Base64_encode` is not counted
    against `max_result_length` and goes behind a result that the characters fill, also when
    the call fails (`Src/base64.c:102`), against `Inc/base64.h:14` and
    `Inc/misra_c_2012_doc.h:76`; `Tests/test_base64.c:54` and 55 make such a call.
  - `DecodeInvertsEncode`: `Base64_decode` refuses the text that `Base64_encode` makes of one
    or two bytes, because no whole group is left when the padded one is set aside
    (`Src/base64.c:140`), against `Src/base64.c:5`, "Base64 encoding/decoding (RFC1341)", and
    the text "amM=" of `Tests/test_base64.c:48`.
  - `ReadsOnlyTheText`: of a text one character longer than whole groups, `Base64_decode`
    reads the character behind it, and a bit of that gets into the last byte
    (`Src/base64.c:157`), against `Inc/misra_c_2012_doc.h:76`.

  The properties of `text` do not excuse these: `EncodesBits` asks for a terminator only
  where there is room for it, `DecodesBits` for data of three bytes or more to come back,
  and of the byte made from behind the text for nothing. `Base64TypeOK` says that the code
  goes no further than these single places.

Two comments say something else than what passing runs show the code to do, and the tests
to expect:

- `Inc/queue.h:80` and 90 insert at and remove from "the end of the queue", which is last-in
  first-out; `FifoSpec` (run `queue`) shows that the oldest element is removed.
- Four headers name a generator that is not the one of the function's table, by which
  `ChecksumSpec` (run `crc`) shows the function to divide:

  | function | table | header |
  |---|---|---|
  | `Crc32_d` | `0xA833982B` | `0x4C11DB7` (`crc32_d.h:41`) |
  | `Crc32_posix` | `0x04C11DB7` | `0xA833982B` (`crc32_posix.h:41`) |
  | `Crc32_q` | `0x814141AB` | `0xAF` and `0x4C11DB7` (`crc32_q.h:41` and 44) |
  | `Crc32_xfer` | `0x000000AF` | `0x4C11DB7` (`crc32_xfer.h:41`) |

Two more things the models show and no run is spent on: an empty array makes
`number_of_elements - 1U` wrap in `Src/sort/selection_sort.c:46` (the loop still ends,
after 2^32 - 1 rounds: `SelectionTerminates`, with words of three bits in the place of 32), and
adding a task without a function returns true but occupies no slot
(`Src/scheduler.c:50`).

### Fairness

- Sorts: `WF(Next)` of the sort that has been called; they are plain loops of C code.
- PriorityQueue: `WF(Step)`, the continuation of a call that has begun. Nothing
  obliges a caller to call.
- Scheduler: `WF(Loop)` for the C loop. `WF(TaskReturns)`: a task's function returns;
  in a cooperative scheduler nothing works otherwise. `SF(Run(NumTasks))`: the main
  loop of the application calls `Scheduler_run` on the whole array again and again; strong
  because in between it may do other things, passes over part of the array among them.
- The other specifications are safety only.

## What is proved

The theorems hold for all values of the constants, under the named assumptions of the
modules (capacities are positive naturals, `NULL` is no element, and the like). TLC
evaluates these assumptions in the runs.

- **`QueueProofs`**: `TypeCorrect`, `RingShapeHolds`, `LiveSlotsAreKept`, `QueueIsFifo`. The
  inductive invariant is `TypeOK /\ RingShape`: without `RingShape` the slot an enqueue
  writes (from `rear`) could not be shown to be the one behind the newest element (from
  `front` and `size`). The refinement is one lemma per call; its core is how `Wrap`
  moves by one and that distinct positions lie in distinct slots.
- **`MapProofs`**: `TypeCorrect`, `KeysStayUnique`, `MapIsDictionary`. Inductive
  invariant `TypeOK /\ KeysUnique`; uniqueness is what makes "the first entry found" the value of the key, and the number of entries the number of keys.
- **`SchedulerProofs`**: `TypeCorrect`, `NoTaskIsSkipped`, `NoTaskIsOverwritten`. What a
  caller may rely on speaks of the end of a pass only; `PassInv` says how far a pass under way
  has come, which makes it inductive. From the same invariant: `CalledOnce` (no slot is
  called twice in a pass, though its task may be freed and the slot taken again) and
  `PassesAreShort` (a pass over n slots is over after 2n + 1 steps of the loop and returns
  to it; nothing a task does to the array makes the number grow).
- **`SortProofs`**, for every length and every comparator, sortedness for every strict
  weak order. The properties of the run `sorts` are one theorem each, from an invariant
  per sort (`SortsInvariance`); the theorems about the single sorts, which the rest builds
  on, say the same. `BubbleTypeCorrect`, `BubbleStability`, `BubbleLoopInvariant`,
  `BubbleSortedness`: `OnlyForCause` is inductive because only neighbours are swapped.
  `SelectionTypeCorrect`, `SelectionLoopInvariant`, `SelectionSortedness`: the same way;
  `TypeOK` holds for an empty array too, whose loop bound is the largest word.
  `HeapTypeCorrect`, `HeapInvariant`, `HeapSortedness`: while an element sinks, its
  children are no greater than its parent, which is what lets the larger of them take its
  place; and the root that is taken out is the greatest of the heap, because a least place
  with a greater element would have a parent before it with a greater element too.
  - *One result.* `BubbleResult`: a permutation is determined by which element comes before
    which, so sortedness and `OnlyForCause` together leave exactly one array, the stable
    sorted one. `SelectionResult` and `HeapResult`: the other two sorts are not stable, but
    when no two elements are equal they have the same one.
  - *How long.* For each sort a natural number that every step decreases, for any
    comparator, so that the sort ends: `BubbleEnds` (n(n + 1)/2 + 1 steps at most),
    `SelectionEnds` (exactly n(n + 3)/2 - 1 steps, and the 2^32 - 1 rounds of an empty
    array), `HeapEnds` ((n/2 + n)(log n + 2) + 2 at most; a sinking element doubles its
    index with each level). `Inc/sort/selection_sort.h:42` documents O(n2).
  - *How far.* `HeapReach`: the indices `heap_sort_bounds` objects to go up to 2n and no
    further.
- **`PriorityQueueProofs`**: `TypeCorrect`, `CallsKeepTheEntries`,
  `QueueIsPriorityStore`. `TypeOK /\ CallInv` is inductive once the search knows that its
  index is not beyond its counter. The refinement needs one thing more: while the gap is
  closed, the entry being removed is still the one the search was right about
  (`ShiftAim`). Then every loop step is a stutter for the caller, and the step that
  returns is the one `PriorityStore` names for the call. `CallsAreShort`: a call returns
  after at most 2 * capacity + 2 steps.
- **`CrcProofs`**: `TypeCorrect`, `LookupDivides` and `ImplementsStream`, for every width
  of at least 8, every polynomial (the one the table is made of), every message, and `BurstsAreDetected`. `LookupDivides`: the division step is
  linear over XOR; the register with the new byte in its top splits into the byte that is
  looked up and the rest; eight steps on the one are the table entry by definition, eight
  steps on the other a shift, because no one reaches the top. `ImplementsStream`: after
  each byte the register is the remainder of the bytes so far, an induction over the
  steps of long division in `CrcStream`; the value a caller carries from one call to the
  next, reflected and inverted or not, is the same register again. `BurstsAreDetected`
  says what this is good for: the value a call returns is not the value of any message of
  the same length that differs from the one handed over by a burst, that is, in the
  polynomial only within *width* neighbouring exponents. Two divisions side by side
  subtract the same multiples from the difference (`ReducedLinear`); the first subtraction
  adds a term below the whole burst, since every generator has the term 1
  (`GeneratorAssumption`), and each later one a term below all there are (`BurstStays`), so
  the difference never vanishes. Differences within width/8 neighbouring bytes are bursts in
  the functions that reflect as well as in those that do not (`NeighboursAreABurst`).
- **`TextProofs`**, about `TextFunctions`: `TypeCorrect` for the four parts, and for each its
  invariant, which is inductive together with the type. `TypeCorrect` also says how far out
  of their memory the functions get: the text of the JSON buffer ends in it or, after a comma
  in its last place, on the byte behind; `Base64_encode` writes nothing behind the limit but
  its terminator; and nothing is read behind data or text but one character behind a text
  of 4k + 1 characters (`ReadInv`).
  - *Wire*, `WrittenIsReadBack`: for buffers of any length and any words, blobs, orders and
    bit numbers. Bytes just serialised deserialise to the low bits of the word; a write
    leaves the bytes of fields it does not touch alone; four bytes hold exactly a word, so
    a bit changed in the word read is changed in the field.
  - *StringToUint32*, `NumeralIsRead`: for any `UINT32_MAX` and strings of any length. After
    i digits the integer is the numeral so far times the power of ten still to come
    (`ConvInv`); so a digit is refused exactly when the whole numeral would be too large.
  - *Base64*, `BitsAreEncoded` and `BitsAreDecoded`: for data and texts of any length that
    `size_t` can hold, with what the two properties leave out (the terminator where there is
    no room for it, the texts of one and two bytes, the byte made from behind a text). Bytes and six-bit numbers cut the same row of bits; a group of
    three bytes and one of four numbers are the same 24 bits, and the last group with its
    padding the 8 or 16 there are. The length computed in `size_t` does not wrap for data
    there is room for.
  - *Json*, `TextIsWhatWasAdded` and `SearchFinds`: for any buffer, keys, values and number
    of calls; the first for texts begun with `Json_startString`, which are never empty
    (`BegunInv`), so that the byte before the buffer is never looked at. Each call appends its contribution to the text; a pair behind a pair first gets a comma,
    and the one character the code looks at to find out is a quote exactly behind a pair.
    The terminator is at worst on the byte behind the buffer, after such a comma. For the
    search: the keys and values stand in the text between quotes, in their order, and no
    letter or quote stands anywhere else (`CallsLaid`, an induction over the calls); so an
    occurrence of a key's letters lies in one of them, and the next quote but one behind it
    belongs to the next. `ValueIsFound` is the part of the promise of `json.h` that the
    code keeps: the value added with a key is found and copied, if it fits, whenever no
    string added before the key contains its text.
- **`Recursion`**: the models' recursive functions (`2^n`, the powers of ten, sums of bits,
  division, texts put together) are given by equations; `RecursionExists` and
  `RecursionDefined` say that there are functions with such equations on an initial part of
  the naturals, `LeastNatural`, `InductionUpTo` and `StaysIn` are the inductions about them,
  stated for sets and functions because the induction theorems of the library take an
  operator as a parameter. `HalvingsAre` and `HalvingsGrow` say how often a number can be
  halved, which bounds the depth of a heap.

Only model-checked: the liveness properties as such, `BubbleTerminates`,
`SelectionTerminates`, `HeapTerminates`, `CallsReturn`, `PassEnds` and `NoStarvation`. Fairness, and whether a step is possible, are beyond the
prover. The step counts above prove the other half of all but the last: while the code is
in a loop it cannot take more steps than the count, so it ends unless it stops in the
middle. `AgreesWithTests`, which compares with the literals of the test suite, is
model-checked too.

## Not modelled

- `index * element_size` and the `uint32_t` copies of `size_t` lengths as 32-bit
  arithmetic, buffers that overlap, and negative sizes handed to the `int32_t` parameters
  of `Map_init` and the sorts.
- A task function that calls `Scheduler_run` itself: recursion, which MISRA C rule 17.2
  rules out.
- Continuing a CRC from the value of a final call, which the headers rule out.
- Tests, build files, CI and analyser configuration; types and MISRA notes have no
  behaviour.

Every component with behaviour is modelled.

## Plan

1. *Done*: containers, `Scheduler`, sorts, CRC.
2. *Done*: `Json`, `Base64`, `StringToUint32`, `Wire` with the bit functions.
3. *Done*: proofs for all containers, the scheduler, the three sorts, the CRC functions
   with their refinement, serialisation, the text functions. Every invariant and every
   action property that the passing runs check is a theorem, but for the comparison with
   the literals of the tests.
4. *Done*: theorems beyond the runs: what the sorts leave open and how many steps every
   loop can take, what the checksums detect, which searches in a JSON text are answered
   as promised.
