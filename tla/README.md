# TLA+ models of st3

st3 is a Rust library with two layers: bounded lock-free work-stealing queues
(`lifo`, `fifo`) and, built on them, a work-stealing pool (`fanout`). This
directory models both, model-checks them with TLC on small instances and proves
part of what is checked with TLAPS, for every value of the constants.

To repeat a check: `tlc -config LifoContract.cfg MCLifoQueue`; to repeat a
proof: `tlapm LifoQueue_proofs.tla`. `PROJECT.json` maps every definition to the
lines it models and lists runs, mutants, hazards, findings and theorems. Line
numbers below are those of the files under `src/` of the crate.

## Inventory

| part | state | operations | talks to |
|---|---|---|---|
| LIFO queue, `lifo.rs` | `push_count`, the packed word `pop_count_and_head`, `head`, the ring | owner: `push`, `extend`, `pop`, `drain`; anybody: `steal`, `steal_and_pop`; the drop | its thieves, through the three atomics |
| FIFO queue, `fifo.rs` | the packed `heads` (worker head, stealer head), `tail`, the ring | the same | its thieves, through the two atomics |
| counters and rings, `lib.rs` | short counters that wrap around, two of them packed in a word | `pack`, `unpack`, `allocate_buffer` | both queues |
| bulk transfer, `transfer.rs` | two rings, or one twice | `transfer_items`, `transfer_items_scalar` | called by every steal |
| `AtomicHost`, `fanout/atomic_host.rs` | a park word per worker | `park`, `unpark` | the platform's futex; the pool |
| `Host`, a trait in `fanout/mod.rs` | a permit per worker | `park`, `unpark`, `now_ns` | implemented by `AtomicHost`, used by the pool |
| pool, `fanout/mod.rs` | injector, per worker a slot, an inbox, a private queue and a deque; the bitmap of sleepers, `searching`, `running` | `submit*`, `submit_local`, `run`, `shut_down` | queues, injector, host, the jobs themselves |
| `Tuning` | ten numbers and switches | builders, presets | read by every step of the pool |
| injector, `fanout/injector.rs` | linked blocks of slots with state bits, a head and a tail ticket | `push`, `pop`, `is_empty`, `len`, the drop | pool, inboxes |
| `Job`, `fanout/job.rs` | a pointer and a function | run once, perhaps panicking, or drop once | pool |
| `StdHost`, `config.rs`, `loom_exports.rs`, `cache_padded.rs` | none of their own | | |

What is hard in this code, and what makes each part correct:

* *Queues.* Nothing is locked. Owner and thieves read several counters one after
  the other, each of which may have moved, wrapped around or come back; a slot is
  plain memory, protected only by who may believe it is his. Correct means: every
  item goes to exactly one caller, slots are never read empty or written full,
  never touched by two at once; "empty" is true when it is said; one steal at a
  time; a leaked `Drain` costs capacity and nothing else.
* *Transfer.* Two rings wrap at different places. Correct means: what the chunks
  do is what the per-element loop does.
* *Parker.* Park, unpark and the late `wake_one` race on one word. Correct means:
  no wake is lost, and a worker that takes a permit sees what was published
  before it.
* *Injector.* Pushes and pops take tickets first and touch their slots later; a
  block is installed in several stores and freed by whoever turns out to be its
  last reader. Correct means: a linearizable FIFO queue, whose "empty" and whose
  length are true of one moment; no block freed under a reader, twice or never; no
  call that hangs.
* *Handshake.* A worker announces its sleep and looks; a publisher publishes and
  looks. On memory that delays stores both looks can miss unless fences stand in
  the right places. Correct means: they never both miss.
* *Pool.* No timeout and no poll anywhere: one lost or misdirected wake is a
  hang. Correct means: no job is lost or run twice, no worker sleeps on work only
  it can run, the pool never falls asleep on work, every job runs, shutdown
  reaches everybody, a restart finds what was left, and what is left at a panic or
  at the pool's drop is released once.

## Modules

| module | models | rests on |
|---|---|---|
| `Ring` | short counters, slot positions, reads and writes of a ring | |
| `StealDeques` | abstract: what a set of work-stealing queues promises | |
| `LifoQueue` | `lifo.rs` | `Ring` |
| `FifoQueue` | `fifo.rs` | `Ring` |
| `LifoRefinement`, `FifoRefinement` | the mappings under which the two implement `StealDeques` | |
| `Transfer` | `transfer.rs`, step by step | `Ring` |
| `HostContract` | abstract: the trait `Host` | |
| `AtomicHost` | `atomic_host.rs`, and that it implements `HostContract` | |
| `MpmcQueue` | abstract: a linearizable FIFO queue | |
| `Injector` | `injector.rs` | |
| `InjectorRefinement` | the mapping under which it implements `MpmcQueue` | |
| `Pool` | `fanout/mod.rs`, `job.rs` | deques, injector and host by contract |
| `WakeOrder` | the handshake of `fanout/mod.rs` on memory with store buffers | host by contract |
| `RingTheorems`, `LifoQueue_proofs`, `FifoQueue_proofs`, `AtomicHost_proofs`, `WakeOrder_proofs`, `Injector_proofs`, `Transfer_proofs`, `Pool_proofs` | proofs | |
| `MC*` | instances for TLC | |

**Granularity.** In the queues, the injector and the pool one action is one access to shared
memory, with the local computation up to the next. The value of `pc` is the
place in the code. Owners and thieves are threads; every thread owns a queue
(the `Worker` handle) and holds stealers of those in `Stealers`.

**Counters.** A counter of the code is a natural number in the model that never
wraps; but every observation of one (a comparison, a subtraction, an index) goes
through `Short`, its value modulo `Modulus`, exactly where the code truncates
(`WrappingSub`, `Slot`, `SameWord`). So the invariants can speak of true
positions while the operations see only what the code sees. The compare-exchange
compares short values, so it can be fooled by a thread delayed for a whole cycle
of the counters. The crate's README accepts that risk for 32-bit counters;
`Recent` states it as the assumption that a publication does not complete such a
cycle while a thief holds a word that old. `Modulus` is the only place where the
width appears.

**Correspondence for the LIFO queue.** `Push`/`Extend` → `Write` → `Publish`;
`Pop` → (`PopCasOk` → `PopRead`) or `PopCasFail` and again; `Steal` or
`DrainCall` → `LoadWord` → `LoadHead` → `LoadPush` → `BookOk` or `BookFail` and
again; then `Copy` → `PublishDest` → `Commit`, or for a drain `DrainNext` ...
`DrainCommit`, or `DrainLeak`. `Drop` is the last handle going. The FIFO queue is
the same with a compare-exchange loop (`LoadCommit`, `CommitOk`, `CommitFail`) at
the end of a steal. What `count_fn` answers is any number.

**Correspondence for the injector.** An index is the code's: position times two,
the lowest bit of `head` is `HAS_NEXT`. `push` is `LoadTail` → `LoadTailBlock` →
(`InstallFirst` → `PublishFirst`) → `TakeTailTicket` (or `LoseTailTicket` and
again) → with the last slot `InstallNext` → `SkipBoundary` → `LinkNext` → then
`WriteValue` → `MarkWritten`. `pop` is `LoadHead` → `LoadHeadBlock` → `LookAtTail`
unless `HAS_NEXT` → `TakeHeadTicket` (or `LoseHeadTicket`) → with the last slot
`WaitNext` → `PeekNext` → `MoveHeadBlock` → `MoveHead` → then `ReadValue` →
`MarkRead` or `Destroy`/`MarkDestroy`. A block is an address that is never used
again, so that a freed one is recognised; a spin is a guard (`WaitNext`,
`WaitWrite`) or a way back to the loads. Positions have 63 bits and do not wrap in
the life of a program. A push takes effect with its ticket: the ghost `order` is
the sequence of pushed values by ticket, and in the refinement the queue is its
part from `head` on. Also what the code promises less of is visible: while a pop
moves `head` over a boundary, `is_empty` may say that an empty queue is not. That
costs a worker one more round.

**The pool's pieces by contract.** A deque is a sequence with the steps of
`StealDeques` that concern it: `StealFrom` takes the older half, `Land` makes it
appear in the thief's deque, `Release` gives the victim its slots back; until
then they count against its capacity (`Room`). The injector and an inbox are
FIFO sequences whose operations are single steps. A slot is one atomic. Parking
is `HostContract`, spurious returns included.

**Choices in `Pool`** where the code leaves something open or the model is
coarser: `claim_sleeper` may claim any sleeper (the code takes the lowest bit of
a load that may be old); the Relaxed load in `promote` may answer anything; the
order of a sweep is arbitrary (a random start in the code); the room a steal
finds in the thief's deque is that of the booking step; `wake_specific` is one
step up to the unpark; `Leave` moves what is private to the injector in one step
(no worker gets there with private jobs, as `Emptied` in `Pool_proofs` shows).
Jobs are values; what a job does to the pool is `Wakes`: it hands one job (perhaps
itself) to its own worker. Each behaviour fixes one `setup`: a tuning, a
deque capacity and a workload; the `backlog` was submitted before any worker ran.
A job in `Panicking` unwinds through `run` (`Unwind`): the private queue is dropped
with its jobs and the deque is not put back, so nobody can run that worker again,
as the documentation of `Job::from_raw` warns; thieves still reach the deque.
`DropPool` may come whenever nobody is in a call: all jobs left are released.

**Memory.** The models are sequentially consistent, with two exceptions.
`AtomicHost` follows which publications the worker's acquire operations are bound
to see. `WakeOrder` is the part of the pool where order alone decides, with the
memory written out: a store waits in its thread's buffer until `Flush`, in order,
because every store concerned is a release. What empties the buffer is a SeqCst
fence, and then it depends on `target`: on `x86` every read-modify-write does, a
SeqCst load does not; on `arm` (AArch64, with `ldapr` for acquire loads) a SeqCst
load does, an acquire load does not, and a read-modify-write waits for the stores
before it but its own may wait, SeqCst or not. So the `fetch_or` that announces
the sleep is not a barrier by itself on `arm`: what orders it before the acquire
looks at slot and deques is that the SeqCst looks at injector and inbox come first
(`Looks`). A queue is its tail, which only grows, and the number of jobs taken
from it. `deque` stands for every deque, or stealable inbox, of a peer. Left out:
the fallback of `wake` on its hint, which can only add a permit; `shut_down`, which
unparks everybody without a look. Not covered: POWER, and what the language's own
memory model allows beyond these targets; the crate's loom tests are the tool for
that.

## Runs

| run | instance | shows |
|---|---|---|
| `LifoContract` | an owner and two thieves, capacities 2, 1, 2 | all safety properties of the LIFO queue and the refinement of `StealDeques`, while the owner pushes, extends, pops, drains, leaks and steals from itself and one thief's loot is stolen again or dropped |
| `LifoDrainLeak` (violation) | two threads, drop after a leak | finding 1 |
| `FifoContract` | two threads stealing from each other and from themselves, capacities 2 and 1 | the same for the FIFO queue; drops after leaks included |
| `Transfer` | rings of 4 and 8 slots, all positions up to 18, all counts | chunks are in bounds, disjoint, and equal to the scalar loop |
| `AtomicHost` | three unparkers, six unparks, two spurious wakeups | no lost wake, permits carry publications, `HostContract` with its liveness |
| `Injector` | three threads, blocks of three slots, four workloads: a race for the first block and for the last slot, three readers in a block that is destroyed, `is_empty` and `len` while head and tail are on boundaries, two full blocks ahead of the head | the refinement of `MpmcQueue`; no block freed under a reader or leaked; "empty" and `len` true of one moment; `HAS_NEXT` only with blocks ahead; every call returns |
| `WakeOrder` | one worker, two publishers with one or two publications each, all combinations, both targets | no wake is missed |
| `PoolSafety` | two workers, up to two clients, six workloads: private and shared work, batches without local wakes, stealable inboxes with deques of one slot, a job that spills, a batch of six of which a thief takes two, a panic with jobs in the private queue | conservation of jobs, no sleep on private work, no sleep on any work; the drop of the pool at any quiet moment |
| `PoolLive` | two workers, each run up to twice; a hinted submit that wakes another job, a stealable inbox, a spill without a wake, a self-waking task, shutdowns | conservation of jobs also where workers are run again; every job runs; every worker leaves at shutdown; the second run finishes the work |
| `PoolShutdown` | three workloads: shutdown after jobs were handed to a worker and displaced while it may have one to run, racing with a submission, while a job is shared | what is in reach of a worker that still has a job to finish is run, once nothing more is submitted |
| `PoolStarved` (violation) | one worker, two self-waking tasks, one shared job | finding 2 |
| `PoolBlocked` (violation) | stealable inbox, a job that does not return | finding 3 |

`PROJECT.json` gives for every property of a passing run a mutant: a plausible
bug under which TLC finds that property violated in that very run.

**Bounds, and why they are enough to be interesting.** Counters are taken modulo
4 and start just before they wrap (`NearWrap`), twice the largest capacity as the
code requires of its widths at the least; three items, and steals
that move them on, take the counters over the wrap point (`MaxCreated`,
`MaxAdvance`). Capacities 1 and 2
make full, half-full and empty queues one step apart; the thief's smaller queue
makes it the limit of a steal. Two workers are the smallest pool in which
stealing, the limit on searchers and misdirected wakes exist; all numbers of the
tunings are at their smallest, 1 for limits and batches and 0 or 1 rounds before
a park, so that every limit is reached. `MaxRuns` bounds restarts. The batch of six
with deques of four is there for the thief with a surplus. `LAP` is 4 in the
injector (32 in the code): blocks of three slots are the smallest with a first, a
middle and a last one, as the destruction distinguishes them; six values fill two
blocks and three readers meet in one. Scripts bound the calls there and in
`WakeOrder`, where two publications are enough to displace a job and to find the
worker between two sleeps.

**Fairness.** Queues and `WakeOrder`: none, their properties are safety. `Injector`:
a thread inside a call goes on (weak fairness), and a weak compare-exchange that
again and again could succeed succeeds at last (strong fairness of the two ticket
steps; the calls of the others are finite, so nobody is overtaken for ever). `AtomicHost`: a thread
inside `park` or `unpark` goes on; nobody has to call either. `Pool`: each worker
and each client, taken as one thread, is scheduled again and again (weak fairness
on its next step, whatever it is); the host owes a parked worker a return only
once it has a permit, never a spurious one. Deadlock checking is off: queues and
pools may rest when the clients are done, and a pool that sleeps on work is what
`NoWorkAsleep` and `EveryJobRuns` exclude.

`EveryJobRuns` and `WorkInReachIsRun` are liveness. The first says that again and again all jobs submitted so far have run, those
that wake themselves for ever or block excepted. Both are stated under
`StealingSettles`. Two idle workers can steal one
job from each other for ever: each finds it, returns to the top of its loop, and
the other steals it from the deque before it is popped. Only an adverse scheduler
keeps that up, and the code has nothing against it, so the assumption is named
instead of hidden in a stronger fairness.

`NoWorkAsleep` has one exception. With `share_displaced` alone a job that is
displaced while the inbox is not empty goes to the injector and wakes nobody but
the owner, by design. If the owner has not been started, the others may sleep on
that job, as they do on what is in the owner's inbox. And it says nothing once a
worker has died in a panic, which is neither asleep nor stopped: a job spilled while
its owner dies may be slept on. `PoolSafety` runs each worker once; that jobs survive
restarts is checked in `PoolLive` and proved in `JobsAreConserved`.

`shut_down` promises little, by design: what lands after a worker's last look is
left, and `RestartFindsTheRest` shows that it is not lost. `WorkInReachIsRun`
says what remains of a promise: a worker leaves only after a look at everything
it can take. Its premise that no client is submitting (`SubmissionsAreOver`) is
needed. A client that displaces a job from a slot holds it until it puts it into the
inbox; if another client shuts the pool down meanwhile, that may be after the
owner's last look, although the job itself was submitted long before.

The comments of the code do not always describe it. Where they differ, the model
follows the code: the documentation of `Pool::new` (`mod.rs:590-594`) still has a
formula for the batch and runs excess jobs in place; a batch is `injector_batch`, and
what the deque has no room for stays in the private queue.

## Findings

1. `LifoDrainLeak`: the LIFO queue's drop starts from `head`, which a live or
   leaked `Drain` has not moved; after a leak it drops items the `Drain` had
   handed out. The FIFO queue starts from the worker head and is not affected.
2. `PoolStarved`: two self-waking tasks alternate through slot, inbox and private
   queue, all served before the deque, so shared work can starve in spite of
   `lifo_run_limit`.
3. `PoolBlocked`: a worker can steal a displaced job back into its deque and then
   block in its slot's job while the peer, which looked in between, sleeps.

`PROJECT.json` quotes the lines that say otherwise.

## Proofs

`RingTheorems`: modulo arithmetic is injective on less than a cycle; from it, that
`WrappingSub` is the true difference and `Slot` is injective wherever the true
distance fits. Positions less than a capacity apart have different slots
(`SlotsApart`), and the lemmas on `MovedOut`, `Written` and `Copied` say which slots
such a step occupies and vacates and which items it takes (`WriteOccupies`,
`MovedOutItems`, `CopyMoves`).

`LifoQueue_proofs`, from `CapacityAssumption` (the modulus is a multiple of every
capacity, at least twice it) and `ClientAssumption`, for any number of threads, any
capacities, any width: `TypesAreKept`, `PositionsStayOrdered`, `OneThiefAtATime`,
`EmptyAnswersAreTrue`, `PopGivesUpOnlyOnEmpty`, `LeakedDrainStaysBusy`. They rest
on one inductive invariant, `PositionInv`. The properties alone are not inductive:
that a booking cannot overtake the tail depends on what a thief saw some steps
ago. So the invariant says what every thread's locals still mean: an owner's tail
is current, because only it moves it, and the room it computed can only have grown
(`KnowsTail`); what a popping owner saw is at most as old as its call (`PopSaw`);
what a thief saw was true at some moment and is less than a cycle old
(`ThiefSaw`, where `Recent` enters); a booking holds exactly what lies between the
heads (`Holds`, `DrainHolds`), alone (`Alone`), and the heads differ only then
(`NoOrphan`). One lemma per operation (`OwnLenExact`, `RoomExact`, `PopCasExact`,
`LoadHeadExact`, `ItemCountExact`, `BookExact`, `BookFailExact`) turns the wrapped
arithmetic into true arithmetic under that invariant; then one step per action.
`ItemTypes` adds the contents of the slots.

On top of it, `SlotContractKept` and `ItemsExactlyOnce`. A position is live
(`LiveAt`) when its item can still be popped, is claimed by a pop, written but not
published, or booked and not yet moved out. `SlotInv` says that the occupied slots
of a queue are exactly the slots of its live positions (`SlotsLive`), and that nobody
works on a dropped queue (`GoneIsQuiet`). The live positions lie in one window of a
capacity, so two of them never share a slot: the contract follows, and a step
need only be asked which positions it makes live or dead. `StoreInv` (no item twice
in a slot, or in a slot and still with its caller) is inductive with it, `OutInv`
(what was handed out is the rest) only while no queue with a leaked Drain is
dropped. `ItemsExactlyOnce` therefore assumes `[]LeakedKept`, and the run
`LifoDrainLeak` shows the loss without it; `NoLeakNoLoss` discharges it for clients
that leak nothing. The slot contract needs no such hypothesis.

`LifoImplementsDeques`: the LIFO queue implements `StealDeques`, on top of
`PositionInv` and `SlotInv`. What the contract calls a deque, a hand or the rest of
a Drain is in the mapping a run of ring positions, and all of them are live
(`SeenIsLive`). So a step that writes no slot of a live position changes none of
them unless it moves their ends (`DequeStays`, `HandStays`, `DrainedStays`), and
the writes of push, extend and transfer go to vacant slots (`WriteRefines`,
`CopyRefines`): the contract does not see them. It sees the store of push_count, which
appends (`PublishRefines`), the two compare-exchanges (`PopCasRefines`,
`BookRefines`: the booked items are the oldest, in order, and as many as the
destination has room for), the items as they arrive (`PopReadRefines`,
`PublishDestRefines`, `DrainNextRefines`), the ends of a booking (`CommitRefines`,
`DrainCommitRefines`) and the drop (`DropRefines`); everything else is a stutter
(`QuietRefines`, `LooksRefine`). As with `ItemsExactlyOnce`, the hypothesis is
`[]LeakedKept`, and `NoLeakImplements` discharges it for clients that leak nothing.

`FifoQueue_proofs`, from the same assumptions: `TypesAreKept`, `PositionsStayOrdered`,
`OneThiefAtATime`, `EmptyAnswersAreTrue`, `SlotContractKept`, `ItemsExactlyOnce`. The
argument is the same with two differences. A compare-exchange covers both heads, so
`PopSaw` and `ThiefSaw` speak of both, and `PopCasExact`, `BookExact` and
`CommitExact` say that equal wrapped words mean equal positions. And a pop may
win while a steal copies: the position it has claimed can be left behind by both
heads before it is read. `PopReads` says that it is nobody else's (outside every
booking and Drain) and that the owner, who pushes nothing meanwhile, keeps it within
a capacity of the tail, so the window starts at the claimed position (`Floor`).
`Queue::drop` starts at the worker head, behind everything a Drain has booked, so
`ItemsExactlyOnce` holds here whether Drains are leaked or not.

`FifoImplementsDeques`: the FIFO queue implements `StealDeques`, by the same steps,
and for the same reason without a hypothesis about leaks. What is different is the
claimed position of a pop: it may lie behind both heads, so the window in which
positions have distinct slots starts at `Floor` (`SeenInWindow`, `LiveDistinct`);
and the booking, which here is no difference of two heads but the count of the one
thief, or the rest of the one Drain, that holds it (`BookedIs`, `BookedAfter`).

`WakeOrder_proofs`, for any number of publishers and any workloads:
`NoWakeIsMissed`. `NoMissedWake` speaks of the moment when all is quiet; the
inductive invariant `IInv` says for every moment on the way what keeps it true.
The worker's buffer is empty behind its first SeqCst look (`WorkerBuffer`); a
publisher that has looked at the bit has nothing of its work in the buffer
(`PublisherBuffers`); from the announcement on the bit is up, or rising until the
first SeqCst look, or somebody has it and brings a permit (`BitKept`); and what
the worker has looked at stays without jobs until somebody publishes, and then
that one finds the bit (`QuietBehind`). One lemma per kind of step.

`AtomicHost_proofs`, for any number of unparkers: `NoWakeIsLost`,
`PermitsCarryWork`, and `KeepsHostContract`, the safety part of the refinement.

`Injector_proofs`, from `LapAssumption` and `ScriptsAssumption`, for blocks of any
size, any number of threads and any workloads: `HeadStaysBehind`,
`EmptyAnswersAreTrue`, `LenAnswersAreTrue`, `TypeCorrect`. The inductive invariant
`TicketInv` ties addresses to laps: blocks are installed in the order of their
laps, so the block of a ticket is its lap plus one, the tail's block is the last
one (`TailBlock`), and the head's block, once stored, is the head's lap's unless the
head is on a boundary (`HeadBlock`); a link leads to the next address and exists
only if the tail has reached that lap (`Links`). Tickets are exclusive
(`OneTicketEach`). What a thread read earlier is still good for something: an index
that has not moved is still the index its block and its answer about the tail were
read for (`PushSaw`, `PopSaw`), who has a last slot is alone on the boundary
(`WriterHolds`, `ReaderHolds`), and the head `len` or `is_empty` read is behind every
later tail (`AskerSaw`). The lemmas at the start do the arithmetic of positions,
laps and bits once; then one lemma per action.

The second half of the module: `NoBlockIsFreedEarly`, that is `NoBlockFreedUnderReader`.
`BlockInv` adds to `TicketInv` what the bits of a slot tell (`SlotBits`): WRITE and
READ are set only behind the tail and the head, READ only after WRITE, DESTROY only
after the last slot's value has been read (`Begun`). A slot with DESTROY and without
READ is the hand-over: all slots before it have been read, so a block has at most
one, and while it has one nobody destroys it; otherwise at most one thread does
(`Holding`). When the destroyer arrives behind the last slot but one, all of them
have been read, hence written, so nobody else holds the block.

Then `NothingIsLeaked` and `TheInjectorIsAQueue`. That a block is gone
when all is quiet is not inductive; what is, is that whatever is left to do has
somebody who will do it (`DutyInv`). An index on a boundary has the thread that
installs or skips (`Installing`, `Moving`); a published tail block without a head
block has the thread that stores it; a block without a link, the one that links it; a
ticket whose slot lacks WRITE or READ, its writer or reader; and a block
behind the head that is not freed, somebody who destroys it or will go on with it after
his slot (`Freeing`): the reader of the last slot or the one the destruction was handed to.
When no thread is in a call nobody can have a duty, so there is none: every block up to
the head is freed and every slot ahead of it is written (`AtRest`). `ValueInv`
says that values lie in the blocks in the order of their tickets (`ValuesInOrder`), and
`ChainFacts` that the drop's walk along the links meets the blocks between the laps of
head and tail and no other. Together they give what the drop frees and releases
(`LeakInv`).

The refinement maps the queue to what was pushed and not yet given a ticket, and a
call to what it holds (`Op`, `Held`). A push takes effect when its
compare-exchange moves the tail, a pop when it moves the head, before its value need
be written; an unsuccessful pop when it looks at the tail. The lemmas ending in
`Refine` show, under `LeakInv`, that each of the other actions is a stutter
(`Stutters`) and that these, the return of a value and the drop are steps of `MpmcQueue`.

`Pool_proofs`, from `SetupsAssumption`, for any finite number of workers, any
clients, jobs, tunings and workloads, shutdowns and restarts included:
`TypesAreKept`, `PrivateWorkIsNotSleptOn`, `ThePoolDoesNotSleepOnWork` and
`JobsAreConserved`. None of the first three properties is inductive: that a sleeper's wake was not lost rests on what it
had looked at before it parked, and on what every thread that published since then
is about to do. The invariant `IInv` has a part for each.

* *Where a thread is.* A wake-up interrupts other steps and returns to them;
  `At(p)` is the step without the detour. `Steps` says which steps there are and
  what a thread has in its hands at each.
* *Counters.* `searching` is the number of the workers that hunt (`Hunters`,
  `SearchersCounted`); what a thief holds, what lies in its hands and what its deque
  holds fit the deque together (`RoomKept`).
* *What a sleeper leaves behind.* Private queue and deque are seen empty on the way
  to sleep and nobody else fills them (`Emptied`).
* *The bit.* It is up only between announcement and return, and from the
  announcement on it is up or somebody has taken it and brings a permit (`BitKept`).
* *The looks.* Behind the look at its inbox, or slot, a job there means that a wake
  is on the way (`PrivateWorkSeen`). Once all workers run, a job in the injector
  means that one of them has yet to look at it or is being woken, or that a client
  is about to take a bit (`InjectorWatched`); with no bit to take, everybody who has
  looked is being woken already, by `BitKept`. The exception for spilled jobs is
  `SpillSeen`: the inbox that made the job spill still holds one as long as its
  owner does not run.
* *Shutdown.* A worker that parks after the flag is cleared has a permit or is in
  the round of unparks of some `shut_down` (`ShutdownSeen`).

The proof goes part by part: first that every step is one thread's and leaves the
others where they are (`WakeMoves`, `ClientMoves`, `WorkerMoves`), and where it leads
(`WakeLeads` and the lemmas whose name ends in `Flow`), then one lemma per part,
collected in `NextIsSound`.

`JobsAreConserved` proves `JobsConserved`: a submitted job that has not run is in
exactly one place until it is released, and it is not both run and released. It rests
on the part of `SetupsAssumption` that gives each job one origin (`Origins`: the
backlog, one call, or one other job that wakes it). The code justifies it: `Job` is
neither `Clone` nor `Copy`, and every way into the pool takes it by value. `Conserved`
says that the places where jobs can be (`Places`: injector, inboxes, deques, private
queues, slots, and the hands of thieves and of every thread) each hold a job at most
once, are disjoint, and hold together the open jobs. Three facts support it. A thread
carries a job only at the steps that put one down (`HandsKnown`), so taking the next
never overwrites one. A worker that has left `run`, normally or by unwinding, has an
empty private queue (`PutAway`), so that the drop of the pool finds everything. What a
client has yet to call is the rest of its script (`ScriptKnown`), so a new call
submits a new job. `Regroup` is the common shape of all steps: two places change, the
rest stay; the lemmas whose name ends in `Conserves` fit each action to it.

`Transfer_proofs`, from `CapacityAssumption` and `ChunkAssumption`, for rings of any
size, any positions and any `SMALL_CHUNK`: `ChunksStayInBounds`, `ChunksStayDisjoint`,
`BulkCopyIsScalar`. A chunk has the wrap point of each ring before it or behind it
(`ChunkShape`), so within it the slots of both rings follow each other (`ChunkSlots`),
and bounds are immediate. In a ring that steals from itself the items and their new
places are less than a capacity apart (`Room`, the precondition of the call), so an item
and a place never share a slot, the first slot behind the run of either included
(`NeverMeet`); that case is what an empty chunk needs. The third property is not
inductive; `CopyInv` says for every step how many items, in order, have arrived and
that the others wait unharmed (`FirstMoved`), `MoveCopies` that a move of an
item or of a chunk advances this count, and `ScalarFollows` that all items arrived is
what `transfer_items_scalar` leaves.

Only model-checked: `RestartFindsTheRest` of the pool, which is meant for
workloads in which nothing is submitted after `shut_down` and no job panics or wakes
itself, and so is no theorem about every workload; the order of the workers' looks
against memory that delays stores is `WakeOrder`'s, and not repeated in `Pool`; and all
liveness, which is out of the prover's reach.

## Not modelled

* `StdHost`: delegates to `AtomicHost`; configuration, padding and loom doubles: no
  behaviour of their own beyond the counter width.
* Iterators given to `extend` and `count_fn` closures of a steal that call the
  same worker again. The counters loaded before are then out of date; the
  documentation neither allows nor forbids it.
* The pool's statistics (`completed`, `idle_backoffs`), `has_idle_workers` and
  `Debug`, which only report; `runner`, which only checks its argument; the
  backoff's delay.
* Memory models other than the two of `WakeOrder`; the orderings inside the queues
  and the injector, which the crate's loom tests exercise.

## Plan

Done: ring, LIFO and FIFO queue with their safety proofs and the proofs that they
implement `StealDeques`, transfer with its proof, parker, injector with its tickets,
blocks and refinement proved, pool with panics and drop, the handshake on weak memory
with its proof, the pool's wakes, and the conservation of its jobs.

Nothing of the plan is left; what stays with TLC is named above.
