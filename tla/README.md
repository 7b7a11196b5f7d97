# Verification of the ECSE-427 system programs

The repository holds three C programs and a design document: a user-level thread library
(`Simple User-Level Threads`, "SUT"), a remote procedure call service (`Simple Remote Procedure
Call Service`, "RPC") and a memory allocator (`Simple Memory Allocator`, "SMA"). This directory
holds their TLA+ models, the TLC runs that check them on small instances and the TLAPS proofs of
what holds for every size. Lines below are those of the files under `src/`.

    tlc -config SUT_safety.cfg MCSUT      one run (the runs are listed in PROJECT.json)
    tlapm SUTProofs.tla                   the proofs of one module

## 1. Inventory

| Component | Source | State | Operations |
|---|---|---|---|
| SUT library | `sut.c`, `sut.h` | ready queue, wait queue, `to_ithread`, `from_ithread` (one mutex), the two shutdown flags, `sockfd`, `host`/`port`, the ucontext template | `sut_create`, `_yield`, `_open`, `_read`, `_write`, `_close`, `_exit`, `_shutdown`; the loops of C-EXEC and I-EXEC |
| SUT task memory | `sut.c` | ucontexts and stacks, who frees them; `read_from_io` | `makecontext`, the frees of `sut_exit` and `cthread` |
| Queue | `queue.h` | a singly linked tail queue | insert at tail, pop and peek at head |
| RPC server | `backend.c` | `child_num`, `*quit_flag` (shared memory), listening socket, children; a child's line and answer buffers | accept, fork, collect, stop; a child's receive, parse, compute, answer, leave |
| RPC client | `frontend.c` | its line and reply buffers, its socket | prompt, send, receive, leave |
| RPC socket helpers | `a1_lib.c` | none | accept, connect, send, recv |
| SMA | `sma.c`, `sma.h` | the heap's headers and feet, the free list, policy, `lastAllocated`, statistics | `sma_malloc`, `_free`, `_realloc`, `_mallopt`, `_mallinfo` |
| SMA test driver | `a3_test.c` | none | calls the allocator |
| File system design | two PDF files | none | no code |

**How they interact.** The three programs share nothing. Inside SUT, main, C-EXEC and I-EXEC are
kernel threads; tasks run on C-EXEC and talk to I-EXEC through the queues only. Inside RPC, the
parent forks a child per connection, learns of it only by its exit code, and tells it to stop by
a flag in shared memory; server and client exchange lines over a socket. SMA is sequential.

**What is hard.**

* *SUT.* A request does not say whom to wake, and an answer does not say whose it is: I-EXEC
  requeues whatever heads the wait queue, a reader takes whatever heads `from_ithread`. A task is
  queued before its context is saved. The destination of an open is passed in two globals outside
  the lock. Both executors decide to leave on things read at different
  times. Correct is: no task is lost, doubled or woken for another; a reader gets its own data;
  no unfilled context is resumed; nobody is left behind when the executors leave; every task ends.
* *RPC.* The number of children is kept from exit codes seen without blocking, forks and accepts
  may fail, children may be killed, clients may vanish. Replies do not name the call they answer,
  and the stream they arrive on has no boundaries: a reply longer than the frontend's buffer, or an
  empty one, would put everything after it out of step. Numbers pass through `float` and `int`.
  Correct is: the parent never leaves before a child; once told to stop, it does, if its users let
  it; while all replies are short enough a frontend never takes one for another's; it waits for ever
  only if no process is there to serve it; a sum or product is exact when it fits, a quotient as near
  as its format allows.
* *SMA.* Every step trusts words that an earlier one wrote. Correct is: tags and list describe the
  same blocks, what is handed out overlaps nothing, free neighbours are merged, and the heap is
  grown only when it has to be.

## 2. Modules

| Module | Content |
|---|---|
| `SUT` | the thread library: one action per step outside or per critical section inside the lock |
| `SUTProperties` | its type invariant, safety, liveness, and what its comments say wrongly |
| `SUTInvariant` | the inductive invariant `IInv` and the mapping to `TaskService` |
| `TaskService` | abstract: one task runs, ready tasks run first come first served, I/O resumes its own task |
| `RPC`, `RPCProperties`, `RPCInvariant` | the same for server and clients; inductive invariant `RInv`; mapping to `RPCService` |
| `RPCService` | abstract: sessions open only while the server is up; it stops because a client asked; it is down only when no session is open |
| `TaskMemory` | every step of `SUT` with what it allocates, uses and frees |
| `Procedures` | what a child makes of a line: parsing, conversions, the five procedures, the answer and its length |
| `Exchange` | one frontend and its child, down to the bytes of the answers; uses `Procedures` |
| `SMA`, `SMAProperties` | the allocator down to headers, feet and links; mapping to `AllocService` |
| `AllocService` | abstract: what is handed out is apart from everything held |
| `SMAStatistics` | every step of `SMA` with the two totals that `sma_mallinfo` prints |
| `Queues`, `QueueLemmas` | membership and distinctness of queues, and their lemmas |
| `SUTLemmas`, `SUTProofs`, `TaskMemoryProofs`, `RPCProofs`, `SMALemmas`, `SMAProofs`, `ExchangeProofs` | proofs |
| `MCSUT`, `MCRPC`, `MCSMA`, `MCTaskMemory`, `MCExchange` | instances for TLC |

An operator named `Bug_...` is a plausible defect of the definition
after it. Nothing uses it; `PROJECT.json` ("mutants") pairs each with the property that rejects it.

### SUT and the code

`cPc`, `iPc` and `mainPc` say where the three threads are. A critical section of `c_lock` contains
no blocking call and is one step; a read of a flag outside the lock is a step of its own
(`CReadFlag`, `IReadFlags`), as is the time between queueing a task and saving its context
(`TaskYield`, `TaskRead`, `TaskOpenPush`, then `TaskSwapOut`). `sut_open` writes the globals `host` and
`port` before it takes the lock: `TaskOpen` begins the `strcpy`, which leaves a mix of two names
(`Torn`) until `TaskCopied` ends it, `TaskPort` stores the port and `TaskOpenPush` is the critical section.
I-EXEC reads them in two steps as well, `IReadHost` and `IReadPort`, and connects to what it
has read, `target`, in `IConnect`. A destination is named by the call of `sut_open` it was given to;
connecting to a mix may fail even if the network does not. Contexts are one bit, `saved`: filled or
not. Requests and answers carry a ghost, the task they are for; no guard reads it. The network
may refuse a connection or close it (`NetworkMayFail`). `fault` records how the process died: a
switch to an unfilled context, a NULL taken from an empty queue, SIGPIPE. After a fault nothing moves.

`LateCreate` says whether main creates its first task only after C-EXEC called `getcontext`.
`sut_init` does not wait for that; the run `sut_earlycreate` shows what follows, and the other runs
assume it did not happen.

### TaskMemory and the code

`TaskMemory` extends `SUT`: each of its actions is an action of `SUT` conjoined with what the same
lines do to the memory (`Memory(uses, frees, news)`), so that the schedules are those of `SUT`.
`memory` is the set of allocated blocks; `damage` says whether a step has used or freed what was
not allocated. A task fills a new ucontext at every yield, open and read (`sut.c:173, 193, 208`):
`Context(t, n)` is the n-th. `sut_exit` frees `uc_stack.ss_sp` of the one it was last resumed from
(182). In the first there is the task's stack: `sut_create` gives `ss_size` the size of a pointer (157),
`makecontext` lays its frame over the block's header, and `free` aborts (`damage = "clobbered"`). In every
other the field is not set by anybody: it holds what the memory held before, a NULL, which is
harmless, or a word of some block freed earlier, by the library or by a task, and then what `free` does
is undefined (`damage = "wild"`). Both end the model. Tasks run on memory
below their stack block all the time; what that overwrites is not modelled.

### RPC and the code

A child is named after its client; `Nobody` is the client of a child forked after a failed
`accept`. Lines are what the control flow tells apart: a procedure call, an unknown word whose answer
fills or exceeds the frontend's 50 bytes (`long`), exit, quit, and the two
with words after them (`exit+`, `quit+`), which end the child (it looks at the first word,
`backend.c:69-71`) but not the frontend (it compares the line, `frontend.c:26`). `PReturn` and
`PNoReturn` are the iterations of the loop over `waitpid(..., WNOHANG)` (`backend.c:78-89`); a
child killed by a signal is collected without being counted. `KCheck` and `KDecide` are the two
reads of the flag (64 and 71). The parent never closes a connection, and children inherit them,
so a client whose child is gone waits until the last process of the server is (`Lost`).

`CReply` is one `recv` of at most 50 bytes from a stream: it takes one or several whole replies
(`TakesWhole`), or the buffer is full before the end of one, whose rest stays in the stream and is
what the next `recv` begins with (`TakesPart`). A child likewise takes one or several lines and
executes the first. A long answer has overrun `back_message`; `free` may abort the child (`KAborts`).
`longSent` is a history variable: has a client been sent a long answer? The server may start with one
descriptor less to give away, which is what `Nobody` in `conns` stands for.

An end of input is `CEndOfInput`: `fgets` leaves the cleared buffer, nothing is sent, and the
frontend waits for a reply (`frontend.c:31-35`).

### Exchange, Procedures and the code

`Exchange` follows the lines of one frontend through its child. `up` holds the lines in transit
(`recv` returns all of them, `strtok` keeps the first), `down` the answers with the bytes of each that
are left. `CShow` is the frontend's `recv` of at most `BufSize` bytes; what it prints, `shown`, is a
sequence of pieces of answers. If they fill the buffer there is no closing zero, and what lies behind
it may be printed as well (`Beyond`). An answer of 50 bytes or more has overrun the memory it was made
in, and `free` may abort the child (`KAborts`). A blank line leaves the tail of an earlier word in the
child's buffer, where `strtok` finds it, if the stack has not been overwritten since (`Found`).
`longs` is a ghost: has an answer exceeded the buffer? After that, displays are out of step.

`Procedures` has no state: `FindCommand` maps a word and its parameters to the answer, through the
conversions of the code: `atof` and the assignment to a float round to `Mantissa` significant bits,
float to int drops the fraction and gives the smallest int for what does not fit, sums and products
wrap. `DivideFloats` is the quotient as it is printed: the nearest float (`Large`, `Above` and `Below`
find its last place), then the nearest number of six decimals, ties to even, counted in millionths
(`Units`); with 24 bits it gives 33.333332 for 100 / 3, as C does. `Size` is the number of bytes sent.
The numbers are scaled down: three bits of mantissa, ints of six and longs of 14 bits, factorials up
to 7; `MCExchange` says which case each value is there for. The proofs are for any widths that are
related as 24, 32 and 64 bits and the limit 20 are (`NumbersAssumption`, `LimitAssumption`).

### SMA and the code

The unit is 16 bytes, the size of the two links. A block is named by the unit of its payload; the unit
before it holds the foot of the block before and its own header. `header`, `foot` and `link` are
functions whose domains are the words in use: a step that read a word which has become somebody's data
would stop TLC. Each C function is an operator from heap to heap, and the public calls are the
actions. `Nodes` walks the list by its links, as the code's loops do. `live` is a ghost: what the
program holds and asked for. `fault` says what the process died of: `ReallocInPlace` is the branch of
`sma_realloc` that crashes (section 4, below the table), `NoMemory` a failing `sbrk`, whose
`(void*)-1` the code uses as an address (`sma.c:281-289`). `PastLeak` says whether the model goes on
once `Cut` has failed to give a block back.

`SMAStatistics` extends `SMA` like `TaskMemory` extends `SUT`: `Added`, `Unlisted`, `Split` and
`Extended` follow the same branches and return what they add to the two totals.

## 3. Runs that pass

| Run | Instance | Checks |
|---|---|---|
| `sut_safety` | 3 tasks, 2 calls each, failing network, symmetric tasks; 1.7 M states | `TypeOK`, `EachTaskInOnePlace`, `NoSwitchToUnsaved`, `NoNullDereference`, `WakesTheRequester`, `ConnectsToNoOlder`, `ReadsOwnData`, `NoTaskLeftBehind`, `NobodyWaitsAtIExit`, `IInv` |
| `sut_liveness` | 2 tasks, 2 calls each, failing network; 145 thousand | `EveryTaskFinishes`, `ShutdownReturns`, `ImplementsTaskService` |
| `task_memory` | 2 tasks, 3 calls each, failing network, symmetric tasks; 5.3 M | `NoMisuse`, `NothingForgotten`, `ResultKept`, `ContextKept` |
| `rpc_safety` | 2 clients, 2 calls each, long answers, descriptors for 1 or 2, failing forks, interrupted users, inputs that end, symmetric clients; 7.8 M | `TypeOK`, `ChildrenCounted`, `ParentExitsLast`, `RepliesInTurn`, `LeavesForCause`, `RInv` |
| `rpc_liveness` | 2 clients, 1 call each, descriptors for 1 or 2, failing forks, interrupted and idle users, inputs that end; 233 thousand | `ServerStops`, `EveryCallAnswered`, `QuitNoticedAtNextClient`, `ImplementsRPCService` |
| `rpc_exchange` | 3 lines out of about a hundred, one frontend and one child, a flag raised at any time; 948 thousand | `TypeOK`, `AnswersTheLine`, `ResultsExact`, `EveryLineShown`, `NobodyLeftBehind` |
| `sma_safety` | sizes 1, 3, 6; break up to 17 units, both policies; 250 thousand | `TypeOK`, `BoundaryTags`, `FreeListExact`, `Coalesced`, `TopBounded`, `Accounted`, `GrowsOnlyIfNeeded`, `ImplementsAllocService` |

**What the less obvious ones say.** `ConnectsToNoOlder`: I-EXEC may connect to the host of one
`sut_open` and the port of another, or to a half-written host, but neither part is older than the call
it serves, and if no other task has entered `sut_open` since, both are that call's. `NothingForgotten`
compares the allocated nodes, requests, texts and data with what the queues and the threads can still
reach, so it rejects leaks and early frees of these alike; it does not cover ucontexts, one of which
is lost at each yield, open and read. `NoMisuse` leaves out the `ss_sp` that `sut_exit` frees.
`ResultKept` is about the single buffer `read_from_io`: it is safe because only the running task fills
it (I-EXEC receives into memory of its own) and tasks are not preempted; it says nothing of a task
that uses the result after it left the processor. `LeavesForCause`: a child that leaves a client who
is still there was asked to by the first word of its line and said so, or was killed by an answer that
overran its memory, or the flag is up. `RepliesInTurn` promises nothing to a client after an answer of
a bufferful or more, and everything to the others. `AnswersTheLine`: what is displayed begins with the
whole answer to the line just typed, and nothing follows unless that answer fills the buffer, until an
answer has exceeded the buffer. `ResultsExact`: if the parameters fit a float, a displayed sum or
product is exact if it fits an int, a factorial is exact, a quotient is off by half a last place of
the float and half a sixth decimal at most, and exact without a remainder, and otherwise it is the
error that applies. `ServerStops`: with the flag up the server ends, unless from some time on one and
the same user neither types nor goes away. `EveryCallAnswered`: a frontend that waits is answered
unless it is `Deserted` (its fork failed, no descriptor was left, its child has ended), and in any
case leaves its `recv` once the server has ended. `GrowsOnlyIfNeeded`: the break moves, or `sbrk` is
asked and fails, only if no listed block fits.

**Bounds, and why they are enough.**

* `Tasks`: two tasks can swap answers, a third can stand between them in each queue. `MaxOps = 2`
  lets a task block, resume and block again, so that queues hold entries of different rounds;
  `task_memory` allows a third call, so that what one round left behind meets the next but one.
* Two clients of RPC, with `FdLimit = 2` and one descriptor less in half of the initial states: both
  are served at once, or one is and the other finds no descriptor, which also forks the child without
  a client. Two, or with it three, children may return in any order between two connections.
  `MaxCalls` bounds the calls before a user leaves (two in `rpc_safety`, so that the rest of a long
  answer meets the next call); a user may always type exit or quit. One client-less child is followed,
  and its fork does not fail: more of them would behave alike. `Backlog` is 2.
* `Typed` in `rpc_safety` has `exit+` but not `exit`: for the server they are the same, and `exit+`
  leaves the frontend at the prompt with its child gone, the harder case. In `rpc_liveness` there are
  no long answers, after which `EveryCallAnswered` would be about an answer to some earlier line; and
  no `exit`, which ends its child as `quit` does.
* `MaxLines = 3` in `rpc_exchange`: a long answer, the line that shows its rest, and one more; or a
  word, a blank line that revives it, and one more. The parameters are the limits: the largest number
  with a factorial, one that rounds, one that overflows as a product, one that fits no int, halves,
  negatives, zero, text; quotients with no, one and many further digits, and of `2^Mantissa` or more.
  Unknown words of 22 letters, whose answer just fits the buffers, of 23, which fills them, and of 24.
  The number of lines matters only once answers have been too long: with five of them three can be in
  transit, and the proofs are for any number. The run does not check for deadlock: a frontend whose
  child has ended, because it typed `exit 1`, waits until the parent ends, which this module leaves
  out.
* SMA: `Excess : MaxTop` is 4 : 5, as 100 KiB : 128 KiB is; `MinSplit` is 2 units, the real 32
  bytes. With sizes 1, 3 and 6 a hole may fit exactly, leave what can and what cannot be split
  off, or be too small; the heap holds up to eight blocks, so a block can be freed with free
  neighbours on both sides, and the top block cut while others are free. `MaxBreak` is the break up
  to which the system grants memory: `sbrk` fails beyond it.
* Symmetry is used in the three big safety runs only, never with a temporal property.

**Fairness.** `FairSpec` of SUT: weak fairness of C-EXEC (with the task it runs), of I-EXEC and of
main's joins: kernel threads that can run are scheduled, and none of their steps waits for a condition
another thread could make true and false again for ever. Main need not create tasks or shut down;
tasks make at most `MaxOps` calls, and fairness of C-EXEC makes the running one end. `FairSpec` of
RPC: weak fairness of the parent, of each child, and of each frontend in `recv` once it can return; no
user has to connect, type or leave. `FairSpec` of Exchange: weak fairness of the child and of the
frontend's `recv`; no user has to type. SMA and TaskMemory have none.

Exceptions in the properties: `ServerStops` leaves out users who are idle for ever or whose input has
ended, `EveryCallAnswered` frontends that are deserted, `NobodyLeftBehind` and `AnswersTheLine`
exchanges in which an answer was too long, `RepliesInTurn` clients who were sent one, and
`EveryLineShown` children that have ended.

The liveness properties of SUT except two outcomes the code has: the process died, or I-EXEC calls
`recv` for ever on a descriptor that is not connected (`RecvSpins`). The network is not one: a
connected peer eventually sends or closes.

## 4. Runs that find a disagreement

| Run | The code's text | What the run shows |
|---|---|---|
| `sut_dropped` | "send message to destination" (`sut.c:100`) | I-EXEC finds its queue empty, a task posts a write and ends, C-EXEC leaves, I-EXEC reads the flags and leaves: the write is never sent |
| `sut_earlycreate` | "get a template ucontext for future new task" (55) | a task made before C-EXEC ran `getcontext` is switched to with an unfilled context |
| `task_stack` | "free stack" (182) | a task yields once and calls `sut_exit`: the ucontext it was resumed from does not hold its stack, which is never freed |
| `sma_overlap` | "if this is the only free memory, reset free list" (`sma.c:629`) | the list is cleared before the new break is computed from it; the block stays, tagged free; a later malloc takes another block for it and returns one that overlaps a live block |
| `sma_statistics` | "Total Allocated memory in Bytes" (46) | the first `sma_malloc` lowers the total by the excess it never counted, and it wraps |

Running `sma.c` shows the last two as well: after `malloc 64K, 1K, 130K` and `free` of the last and the
first, `malloc 100K` overlaps the second; after the first `malloc` `sma_mallinfo` prints a total of
18446744073709450256 bytes.

**Seen in the models, without a run of their own.**

* `sut.c:106, 169`: a read on a dead socket makes `recv` fail for ever and `sut_shutdown` never
  returns ("wait for I-EXEC to complete"); the liveness properties except it as `RecvSpins`.
* `sut.c:188-189, 261-262`: a second `sut_open` may overwrite `host` and `port` before the first is
  served or while it is: I-EXEC then connects to the newer destination, to the host of one with the
  port of the other, or to a half-written host. `ConnectsToNoOlder` says how wrong the destination may
  be.
* `sut.c:157`: a task that calls `sut_exit` without ever having blocked aborts the process (`damage =
  "clobbered"`); one that has blocked frees whatever its ucontext's memory held before (`damage =
  "wild"`).
* `sut.c:173, 193, 208`: the ucontext of every yield, open and read is lost when the next is made;
  only the last is freed.
* `sut.c:158`: a task whose function returns frees nothing, neither ucontext nor stack.
* `backend.c:64, 71`: the flag goes up between a child's two reads; it sends the normal reply and
  leaves, and its client is not told. `LeavesForCause` allows it.
* `backend.c:69-71` against `frontend.c:26`: after `exit 1` the child ends, the frontend prompts,
  sends, and waits until the whole server ends.
* `backend.c:102`: a quit is noticed only after one more client connected. `backend.c:81`: a killed child
  leaves `child_num` too high, against the comment at 42; `ServerStops` shows that this does no harm.
* `backend.c:131`: a blank line after an unknown word such as `xquit` is taken for `quit`, without its
  first letter.
* `backend.c:57, 102`: a client whose fork failed, or who connects when the parent has no descriptor
  left, waits as long as the server runs (`Deserted`).
* `backend.c:223`: an unknown command of 24 letters makes an answer of 51 bytes. The frontend shows
  the last byte in place of the next answer, every later answer one line late, and the last never. One
  of 23 letters makes an answer of 50 bytes, which fills `server_msg` and is printed without a closing
  zero (`frontend.c:35-37`). Both have overrun `back_message`.
* `backend.c:144`: `add 16777217 0` gives 16777216, as parameters are floats. `backend.c:159-161,
  197`: `divide 100 3` shows 33.333332 and `divide 16777216 3` shows 5592405.500000.
* `sma.c:204`: growing in place passes `remove_block_freeList` an address that is 4 bytes too low:
  `malloc 1024; realloc 2048` ends in SIGSEGV. The model ends there.

## 5. What is proved

TLAPS proves, for every set of tasks or finite set of clients and every value of the bounds:

* **SUT** (`SUTProofs`): `Typing`, `Invariance` (`Spec => []IInv`), and from it `TasksInOnePlace`,
  `RightTaskWoken`, `NoOlderDestination`, `OwnDataRead`, `NothingMissing`, `AllTasksFinished`,
  `NobodyAbandoned`, and, if `LateCreate`, `ContextsFilled`.
* **SUT implements TaskService** (`SUTProofs`): `LibraryServesTasks`, if `LateCreate`.
* **TaskMemory** (`TaskMemoryProofs`): `MemoryUsedWell`, `NothingLost`, `ReadDataKept`, `LiveContextsKept`.
* **RPC** (`RPCProofs`): `Typing`, `Invariance` (`Spec => []RInv`), `NoChildUncounted`, `ServerLeavesLast`,
  `RepliesMatch`, `NobodyCutOff`, and `ServesAsPromised`: the server implements `RPCService`.
* **Exchange** (`ExchangeProofs`): `Types`, `RightAnswerShown`, `ExactResults`, for every set of
  lines, every buffer and every width of the numbers.
* **SMA** (`SMAProofs`): `HeapInvariant`, and from it `TagsAreTrue`, `ListIsExact`, `FreeIsCoalesced`,
  `TopIsBounded`, `HeldIsUsed`, for both values of `PastLeak`; of the model that ends where a block is
  lost, `TypedInvariant`, `Typing`, `BreakGrowsForCause`, and `AllocatesAsPromised`: it implements
  `AllocService`.

Every safety invariant and action property that a passing run checks is stated by one of these theorems.

**The argument for SUT.** `WakesTheRequester` says nothing of a request further down the queue, so it
is not inductive. `IInv` says of the whole queues that they are *paired*: the blocking requests of
`to_ithread` and the tasks of the wait queue are the same tasks in the same order, with the one I-EXEC
is serving in front (`WaitersPaired`); the tasks of the ready queue that are inside `sut_read` and the
answers of `from_ithread` likewise (`AnswersPaired`). `Paired` is stated once, for any two queues, and
`SUTLemmas` proves what appending, popping and skipping do to it. A task is on one queue at most,
which needs `EachTaskInOnePlace`; which requests are reads, which needs `ReadingAgrees`; and that
whatever is queued was saved or is just leaving, `SavedUnlessLeaving`. `ShutdownOrder` ties the flags
to where the threads are. All of this holds while the process is alive; that the process does not die
of a missing waiter or answer is part of `IInv`, as otherwise the invariant would be lost where it
matters. `StoredIsNewest` and `ReadIsNotOlder` are its parts about the destination. Each of the two
globals holds that of the newest `sut_open` which I-EXEC has not finished, except between the steps of
a task that is storing another; what I-EXEC has read of them is of the call it serves, or of one that
has stored since, whose request is queued behind it or about to be. Assumptions: `NoTask \notin
Tasks`, `MaxOps \in Nat`, two Booleans.

**The refinement.** A task's phase is read off the queues and the places of the threads (`Phase`).
Each action that moves a task is one step of the service: creation `Spawn`, `CPopTask` `Dispatch`, `TaskYield`
`Yield`, `TaskOpenPush` and `TaskRead` `Ask`, `IConnect` and `IRecv` `Serve`, `IWake` and `IDeliver`
`Resume`, `TaskReadBack` `Collect`, `TaskExit` `Finish`; the others stutter (`QuietStutters`). Each case
shows the moved task's phases before and after and that nobody else's changes (`PhaseMoves`). The
invariant is needed where the abstract guard says more than the code's: `Resume` and `Serve` are of the
task that asked (`ServedWaits`), and no task has two answers, which follows from `AnswersPaired`
(`WhoseAnswers`). Without `LateCreate` the theorem is false: C-EXEC may lose the process in `CPopTask`.

**The argument for TaskMemory.** Every step of `TaskMemory` is one of `SUT` (`MemoryRefines`), so
`IInv` holds. What is fresh was read by the task that still runs (`FreshInv`), since `IInv` says that
the head of `from_ithread` is its own. For `ContextInv` the steps are sorted by what they free: nodes,
requests, data and the host are no ucontexts (`OtherKinds`), and `sut_exit` frees that of a task that
has ended. `NothingForgotten` alone is not inductive, because a node or a request is named by what it
holds: an action that frees the popped node would free one still queued if two had one name. `MInv`
adds what tells them apart: for each kind of block, those allocated are what the queues and the hands
of the threads hold (`BlocksInv`); requests are numbered, and a task has one answer at most
(`StaysInv`); and what a thread has popped is on no queue (`HandsInv`). Each action then takes from
one side of the equation what it takes from the other (one lemma `...Upheld` per action), and
`NoMisuse` follows, since what it uses and frees is allocated before and what it allocates is not.

**The argument for RPC.** `ChildrenCounted`, an inequality over a cardinality, is inductive with the
type invariant: each step changes the number of uncollected children by at most one, and `childNum`
goes down only with it. `ParentExitsLast` follows as `childNum` is 0 at the end (`StopOrder`).
`RepliesInTurn` needs to know where a call is between its two ends: on its way, with the child, or
answered by the only reply in the stream, and nowhere twice (`OneCall`). Of a client that was sent a
long answer it says nothing, which is inductive because `longSent` stays up; of every other it gives
that `recv` finds one whole reply (`RecvTakes`). It needs that a client gets one child, once
(`ComesOnce`). The refinement maps a session to the child's state and its status (`EndedHasStatus`)
and the server to the flag and the parent's place. Assumptions: `Clients` finite, `Nobody \notin
Clients`, the bounds natural numbers.

**The argument for Exchange.** While no answer was too long the two programs are in step (`InStep`):
the last line is with nobody but its author, or on its way, or with the child, or answered by the only
answer in transit, which then fits the buffer, is taken whole (`WholeTaken`) and printed with nothing
behind it unless it fills the buffer (`PrintedOne`). `ExactResults` needs no such order: every piece
of an answer carries the line it belongs to (`Replies`), and stays honest when `recv` splits it
(`TakenLeft`), even past a long answer. The rest is arithmetic (`AnswerExact`): a float keeps whole
numbers of `Mantissa` bits (`FloatExact`), wrapping keeps what fits (`Wrapped`), and the loop of
`factorial()` wraps nowhere up to `Limit` (`FactorialExact`). A quotient is rounded twice
(`DividesNearly`): each time it moves by half a unit at most (`Rounds`), the second time in millionths
whatever the scale of the first (`TwoRoundings`), and that scale is large enough for the first half
unit to be a part in `2^Mantissa` of the quotient (`BelowIs`). The induction these need is proved for
sets (`Induction`, from the library's `WFMin`), as is the existence of functions defined by recursion
(`Recursion`). Assumptions: those on the widths and the lines, and `PowersAssumption`, which says
`2^(n + 1) = 2 * 2^n` as far as it is used (up to `2 * Mantissa + LongWidth`): the provers know
nothing of powers, and TLC evaluates it.

**The argument for SMA.** The safety properties are one invariant: the list operations find their way
by headers and feet, and these are written by way of the list. `Strung` says of a heap that the blocks
tile the memory up to the break with a foot behind each, that the list runs through a set `F` of them
in the order of their addresses with links that agree both ways, and that those not in `F` are what
the program holds; `Laid` adds that no two free blocks touch and that the top one is bounded. Inside a
call some block is on neither side (the parameter `R`) or has no header yet (`Holed`); the lemmas
follow a call through its steps: linking a block in, taking one out, resizing, joining, splitting,
cutting the top. A call ends in a heap that is `Settled`: laid out, or fresh from losing its only free
block in `Cut` (`Spoiled`; the run `sma_overlap` shows what follows). The lemmas named `...Keeps` show
that what is lost stays lost, so that `HeapInv`, which says nothing once a block is lost, is inductive
even if the program goes on. The refinement shows that the fitting block, or the new one at the break,
lies apart from all that is held (`AllocatedApart`). Assumptions: `Sizes` is a set of positive
naturals, and `0 < MinSplit < Excess <= MaxTop`, as in the code.

**Only model-checked.** Everything under fairness, as liveness and `ENABLED` are out of the prover's reach:
`EveryTaskFinishes`, `ShutdownReturns`, `ServerStops`, `EveryCallAnswered`, `QuitNoticedAtNextClient`,
`EveryLineShown`, `NobodyLeftBehind`.

## 6. What is not modelled

* *SUT*: contents of messages; failures of `malloc` and `pthread_create`; what tasks overwrite by
  running below their stack block (`sut.c:154-157`); `usleep`.
* *Queue*: `queue_insert_head` is never called; `queue_error` ends the process.
* *RPC*: infinities and NaN among the parameters; what an answer beyond the 50 bytes of `back_message`
  overwrites (`backend.c:223`), which is undefined, except that the child may be aborted when it frees
  it; words so long that the answer is twice the buffer; the sign of a quotient that is zero; a `recv`
  that returns part of a line; how long a sleep lasts; what text a child finds in its buffer when
  `recv` fails, except that it is no exit or quit; the arguments of `main`, `bind` and `listen`, whose
  failure ends the program before it starts; that each failed `accept` forks a child without a client
  for ever; in `Exchange`, lines that arrive after others that were sent before them have been
  received (in `RPC` they may).
* *SMA*: calls with NULL, with pointers not held or with sizes up to 0; requests that are not multiples of 16
  bytes (a payload under 16 bytes has no room for the links); moves of the break by others; contents
  of blocks; the process after `sma_realloc` has grown a block in place; the list that
  `sma_mallinfo` prints. `sma_safety` stops where a block is lost or the program dies: past that
  point `sma_overlap` shows the structure is broken.
* `a3_test.c` and the PDF files: a driver and documents.

## 7. Plan

Done: every component with code is modelled and checked, three of them with an abstract service and
a refinement, and every safety and action property of a passing run is proved.

1. `SMAStatistics`: the total of the free sizes, unlike that of the allocated ones, is exact modulo
   `Word`; state it, check it, and prove it from `HeapInv`.
2. The safety halves of the liveness properties: that a zombie that has quit is still in the way of the
   parent's loop while the flag is down (`QuitNoticedAtNextClient`), and that an executor which has not
   left has something it can do (`ShutdownReturns`).
3. The allocator past `ReallocInPlace`, if the headers that `sma.c:204` reads can be named.
