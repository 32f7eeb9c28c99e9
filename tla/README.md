# A specification of the 3PC demo

`src/` is a C++ program that runs one three-phase commit over MPI: rank 0 is the
coordinator, every other rank a cohort member, and an operator may "kill" any of
them by typing its number. This directory holds TLA+ modules of its behaviour,
TLC configurations that check them on small instances, and proofs that TLAPS
checks for all values of the constants.

    tlc -workers 2 -config ThreePCSafety.cfg MCThreePC.tla
    tlapm ThreePCProof.tla

## 1. The system

### Components

| component | state | operations | what makes it correct |
|---|---|---|---|
| `Coordinator` (processes/Coordinator.h) | `state`, and the sets `responders`, `packets` local to `receiveFromAll` | `run`, `receiveFromAll`, `checkPackets`, `sleep` | commits only what every member voted for and acknowledged; always decides |
| `CohortMember` (processes/CohortMember.h) | `state` | `run` | agrees with everybody else, whoever is killed, and never blocks |
| `AbstractCrashableProcess` | the atomics `crashSignalReceived`, `terminate`; the crash thread | `receiveCrashSignal`, `crashIfSignalled`, the destructor's `join` | loses no signal; lets the program end |
| the input thread (`Coordinator::processCrashInput`) | `processToKill`, the state of `std::cin` | read a number, act on it | kills the process named and no other |
| `MpiOptimizedCommunicator`, on top of `MpiSimpleCommunicator` | `currentLamportTime`, `communicationMutex` | `send`, `receive`, `updateTimestamp`, `encode`, `getPacket` | the clocks are Lamport clocks although two or three threads use one of them; no thread blocks |
| `MpiSimpleCommunicator` | the same | `send` and `receive` of its own (a header and a body), which the program does not use; the constructor and `getCurrentLamportTime`, which it does | the header and the body of a packet stay together |
| `Packet`, `RawPacket` | their fields | `encode`, `getPacket`, `toPacket`, the MPI type of a `RawPacket`, equality and hash | a packet arrives as it was sent; equal packets hash alike |
| `Logger` | `mutex`, the thread names, a counter | `log`, `registerThread` | does not lock up with the communicator; its lines sort in the order they were written, and into a causal one |
| `Define.h`, `Random` | - | the times of sleeps and rounds | the two sides' sleeps leave a margin |
| `Utils.h` | - | `hashCombine`; three helpers nobody calls | see `Packet` |
| `StringConcat.h`, `ConsoleColor.h`, `MultiprocessDebugHelper` | - | formatting, a debugger hook | not modelled: no property can tell |

### How they interact

`main` builds the communicator, then the `Coordinator` or the `CohortMember`; its
constructor starts the crash thread (and the coordinator's the input thread, which
is detached). The main thread alternates between a sleep, a look at the crash flag
(`crashIfSignalled`) and one case of the `switch` of `run()`. The coordinator
broadcasts `CAN_COMMIT`, gathers votes, broadcasts `PREPARE_COMMIT` or `DO_ABORT`,
gathers acknowledgements, broadcasts `DO_COMMIT` or `DO_ABORT`. A member answers,
or decides by itself when `ROUND_TIME` goes by: `A` from `Q` and `W`, `C` from `P`.

The input thread turns a number into the coordinator's own flag or into a `CRASH`
packet, with a tag of its own, for the crash thread of a member. All threads of a
process share one communicator and one `Logger`, each with its mutex.

### What is hard

* Time decides agreement. There is no termination protocol: a prepared member
  commits when it hears nothing, a coordinator aborts when it hears nothing. They
  agree only because of how the sleeps in `Define.h` relate. No comment says so.
* A kill takes effect only at a checkpoint, which may lie before or after a
  broadcast; the others learn of it by a timeout, if at all.
* Replies cross broadcasts: a veto on its way meets a `CAN_COMMIT` on its way.
* Threads of a process share a clock, read it outside the lock, and take two
  mutexes one inside the other.
* The receives are timed by the system clock, which an administrator or NTP may set.
* The input thread does not check its input, and outlives what it points to.

`PROJECT.json` lists these hazards one by one, each with its line in the source and
the properties that would catch it.

## 2. The modules

| module | models | composed with |
|---|---|---|
| `ThreePC` | both `run()`s, `receiveFromAll`, the flags; no time: any timed receive may time out at any moment | |
| `AtomicCommit` | what a commit protocol promises (abstract) | implemented by `TimedThreePC` |
| `TimedThreePC` | the sleeps, the round time, late sleeps, slow packets, processes that start apart | extends `ThreePC`; every timed step is one of its steps |
| `CrashControl` | the input thread, the crash threads, `CRASH` packets, the destructors | extends `ThreePC`, and implements it |
| `LogicalClock` | what a communicator promises of its clocks (abstract) | implemented by `OptimizedCommunicator` and `SimpleCommunicator` |
| `OptimizedCommunicator` | `send`, `receive`, `updateTimestamp`, `Logger::log`, two mutexes | |
| `SimpleCommunicator` | `MpiSimpleCommunicator`'s own `send` and receives: two MPI messages per packet, timeouts between them | implements `LogicalClock` |
| `PacketFormat` | the bytes of a packet in both formats, its equality and its hash | |
| `Logger` | `registerThread`, `log` step by step, the text of a line | |
| `ThreePCProof`, `TimedThreePCProof`, `CrashControlProof`, `OptimizedCommunicatorProof`, `SimpleCommunicatorProof`, `LoggerProof`, `PacketFormatProof` | proofs | extend the module they are about |
| `SequenceLemmas` | lemmas: least elements, recursion on the naturals, sequences with an element more or less | extended by the proofs about channels and formats |
| `MCThreePC`, `MCTimedThreePC`, `MCCrashControl`, `MCOptimizedCommunicator`, `MCSimpleCommunicator`, `MCPacketFormat`, `MCLogger` | values for the constants, the symmetry sets | |

Definitions named as mutants in a comment are no part of any specification. Each is
a plausible slip in the definition next to it, and shows that the property it is
paired with in `PROJECT.json` would notice.

### ThreePC

| variable | in the code |
|---|---|
| `state[p]` | `AbstractProcess::state` |
| `pc[p]` | where `run()` is: asleep before `crashIfSignalled`, in the `switch`, or out of it (`terminate`) |
| `crashSignalReceived[p]` | the atomic of that name |
| `sent`, `received[m]` | MPI's queue from the coordinator to `m`: all it is sent are broadcasts, so what is on its way to `m` is the part of one log that `m` has not received |
| `replies[m]`, `taken[m]` | MPI's queue from `m` to the coordinator, the same way |
| `responders`, `packets` | the locals of `receiveFromAll`, empty outside of it |

| action | in the code |
|---|---|
| `Signal(p)` | a crash thread, or the input thread, sets the flag |
| `Wake(p)` | the sleep is over; `crashIfSignalled`; the loop condition |
| `Finish(p)` | the cases `A` and `C` |
| `CoordinatorBegin` | the coordinator's case `Q` |
| `CoordinatorReceive(m)`, `CoordinatorTimeout` | one turn of the loop of `receiveFromAll`; the last one includes what `run()` does with the outcome (`CloseRound`) |
| `MemberReceive(m)`, `MemberTimeout(m)` | the cases `Q`, `W`, `P` of a member, with an unexpected packet leaving it where it is (`MemberNext`) |

A case of the `switch` is one step of the model: it touches nothing another process
sees but the packets it sends, and it sends at most one broadcast or one reply, last.
A broadcast is one `MPI_Send` after another, and a process dies only at a checkpoint
after the broadcast, never in the middle of it: `crashIfSignalled` is the only place
where a signal is obeyed. A member that receives its copy earlier than another is
told from one that receives it at once by `received` alone.

### TimedThreePC

`now` advances by `Tick`, which waits while some process is `Urgent`: its sleep is
over, its receive must return, or it is in a case that does not wait. `due[p]` is the
end of `p`'s sleep or of its receive. Four constants bound the environment, and
nothing in the code does: a sleep or timeout ends at most `LATENESS` late, a packet
takes at most `DELAY`, the processes start at most `SKEW` apart, and the system clock,
which times the receives (`system_clock::now()`) but not the sleeps, is set forward or
back by at most `CLOCK_STEP` while one of them waits. `ASSUME TimeAssumption` asks for
`DELAY < MIN_SLEEP_TIME_COORDINATOR`, so that a broadcast is there before the next one
is made, and for `CLOCK_STEP <= ROUND_TIME`. The receive loops probe before they look
at the clock, so a timed receive times out only when no packet is there.

`ROUND_TIME` is the time for the whole of `receiveFromAll`, as in the code, where each
receive gets what is left of it.

### CrashControl

The lines the operator may type are `Line`: numbers, a word, a number that does not
fit an `int`, the end of the file. `ValueRead` is what `std::cin >>` leaves in the
variable: 0 for a word, `INT_MAX` for the large number (any number that names nobody
stands for it), nothing at all when the sentry of the stream already fails, in which
case the variable has any value (`Garbage`, which has the numbers of all processes and
two of nobody). The failbit stays. `MAX_READS` bounds the turns of the input thread,
which in the code has no end, and spins once a read has failed. `typed` is a history that only
properties read: how often each line was typed. `Join` is the destructor; `Finalized` the state in which every process has come to `MPI_Finalize`.

### OptimizedCommunicator

Each step of a thread is what it does between two points where another thread could
be seen: taking the lock with the increment, each `MPI_Send`, the return with the
unlock; the probe, the receive, the block of `updateTimestamp`, its last unlocked
line; the two halves of `Logger::log`. The receive without a timeout, which nobody
calls, differs in that it waits at the probe. The unlocked read of the clock may return the
value this thread wrote or any later one. Which thread sends and receives with which
tag is a constant: `ASSUME ThreadAssumption` says, as the code does, that two threads
of one process never receive with the same tag. `MAX_SENDS` bounds the sends. `log` is
a history nothing reads; `KEEP_LOG` says whether to keep it, which only `clock_log` does.

`inTransitBar` maps to `LogicalClock`: a broadcast is sent when the clock is advanced,
so what the sender still has to hand to MPI is in transit already, and so is what a
receiver has taken from MPI but not merged into its clock. `LogicalClock` lets a
`faulty` process lose packets, and anything happen to a clock that has `wrapped` around its
width; no process of this module is either. (Its clock has 64 bits, and what is merged into
it are timestamps that were sent.)

### SimpleCommunicator

The class `MpiOptimizedCommunicator` overrides, and the program therefore never uses:
a header and, when there is a text, a body, two MPI messages of one tag. `Frames` is
the loop over the recipients. `HeaderTimeout` is a timeout in which the message arrives
between the last `MPI_Test` and `MPI_Cancel`, and is lost; `BodyTimeout` one between
header and body. `Faults` says which of them happen; the harmless timeout changes
nothing. A thread may receive with `AnyTag`, as the two overloads without a tag do;
`Matching` is what MPI then chooses from.

A receive that takes one kind of message for the other is `astray`, and does not know it.
Its header is made of the bytes of a text, or of memory that nobody has written
(`HeadersIn`): it may announce a text or not, and its time is any of `Unwritten`. The
receive waits for that text, gives up on it or takes what comes, merges the time into the
clock of its process, and returns a packet. Only where MPI would abort the program, the
message being longer than the room made for it, does the model go on and the code does not.
A clock that may be given any time has a width, `ULONG_MAX`, and `wrapped` are the processes
whose clock has gone from there to 0. A packet's `id` and `text` are the sends its two
messages came from; the code has no such thing, and nothing but properties reads them.

In the mapping to `LogicalClock` a process is faulty once a timeout of its own has
gone wrong. The abstract clock of a faulty process may `Skip` forward, and so may that of
any process once some clock has wrapped around; a clock that has wrapped (`Wrap`) shows
anything, and the packets of its process no longer count.

### PacketFormat

One packet, another one, and what memory holds where nobody has written. The module
has no steps: its properties are about functions, and the runs enumerate their
arguments as initial states. A number is its bytes, the lowest first; `RawPacket` has
the padding the compiler puts before the length, and `Transferred` gives the recipient
only the bytes that `mpiRawPacketType` names, the others keeping what they held.
What `hashCombine` computes is a constant: the property is about which values it is given.
`MCPacketFormat` lets it tell all of them apart. `Rest(n)[k]` is what is left of a number without its
`k` lowest bytes, so that a number fits its field when nothing is left of it.

### Logger

`log()` in three steps, all under `Logger::mutex`: lock, read the clock, write the line
with the counter. The clock is somebody else's and advances between any two steps
(how it does so is the business of `OptimizedCommunicator`). A line is kept as its two
numbers; `Text` is how it begins, digit by digit (`toString` is `std::to_string`,
`Padded` the zeros in front), and `SortsBefore` the order `sort` puts it in.

## 3. The runs

| run | bounds | checks |
|---|---|---|
| `three_pc_safety` | 3 members, all 4 killable | `TypeOK`, `NoUnexpectedPacket`, `PreparedNeedsEveryVote`, `CoordinatorCommitIsSafe`, `EarlyAbortIsSafe`, `ProtocolIsBuffered`, `IndInv` |
| `three_pc_liveness` | 2 members, all killable | `NonBlocking` |
| `timed_margin` | 2 members, all killable, a round of 8, sleeps of 6 to 7 and of 2, `DELAY` 1, `CLOCK_STEP` 1, `SKEW` 4 | `TimedTypeOK`, `Agreement`, `TimedIndInv`, `AcksInTime`, `AccurateTimeouts`, `ImplementsAtomicCommit` |
| `timed_fault_free` | 2 members, nobody killed, the times of `Define.h`, `SKEW` 10 | `EverybodyCommits` |
| `crash_safety` | 2 members, two numbers typed | `ControlTypeOK`, `NoKillIsLost`, `SendsAreBuffered`, `ImplementsThreePC` |
| `crash_liveness` | 1 member, any two lines typed | `ProgramExits` |
| `crash_stray_input` | 1 member, a number or a word | `OnlyTheNamedCrash`, violated |
| `clock` | 2 processes, 4 threads, 4 sends | `TypeOK`, `PacketsAreStamped`, `ProbedIsThere`, `IndInv`, `TimestampsDiffer`, `ImplementsLogicalClock`, `CallsReturn` |
| `simple_timeouts` | 3 processes, 4 threads, 2 tags, 3 sends to one or two recipients, a receive for any tag, all faults, a clock of 4 bits and `Unwritten` times 0, 14 and 15 | `TypeOK`, `AstrayOnlyAfterTimeout`, `MessagesAreWhole`, `IndInv`, `TimestampsDiffer`, `ImplementsLogicalClock` |
| `packet_format` | 270 packets and their pairs: bytes of one bit, the least and greatest numbers of each field and one between, texts of up to 3 bytes | `OptimizedRoundTrip`, `SimpleRoundTrip`, `EqualPacketsHashAlike` |
| `logger` | 3 threads of 2 lines each, a clock up to 5, 3 binary digits | `TypeOK`, `IndInv`, `SortedLinesKeepOrder` |
| `clock_log` | as `clock` | `SortedLogIsCausal`, violated |

What they show:

* **Without time** (`ThreePC`): the coordinator's commit is safe at any speed. When it
  commits, every member has voted, has acknowledged, and cannot abort any more. What
  does *not* hold at any speed is agreement: the coordinator may abort in `P`, for
  want of an acknowledgement, while a member in `P` times out into `C`. That is the
  business of the times. `ProtocolIsBuffered` says how many packets of the protocol are
  on their way at once: two to each member, one from it. The operator's `CRASH` packets,
  which take the same way, are counted in `CrashControl`.
* **With time** (`TimedThreePC`) the protocol implements `AtomicCommit`, whoever is
  killed between any two steps, when the times keep `SafeMargin`,
  `MAX_SLEEP_TIME_COORDINATOR + 2 * LATENESS + 2 * CLOCK_STEP + DELAY < MIN_SLEEP_TIME`:
  a coordinator that has waited as long as it can has its outcome at every member before
  any of them can time out. `timed_margin` has the least margin that is enough:
  with a `MIN_SLEEP_TIME` one less, TLC finds a member that commits while the coordinator
  aborts.
  `Define.h` leaves one second for lateness, delay and a clock that is set: with a clock
  set by more than half a second in the wrong receives, two processes may disagree. The
  same run shows `AccurateTimeouts`: a member that has voted times out only because the
  coordinator was killed in the very state it waits in, and the coordinator lacks an
  acknowledgement only because a member was killed. That is why the missing termination
  protocol is not missed. It takes a second margin, `AckMargin`, of which `Define.h` has
  seven seconds.
* **Without a kill** the transaction commits everywhere even when the processes start
  ten seconds apart. Beyond that a member that starts late finds its round over, which
  README.md of the program does not say.
* **The threads** (`CrashControl`) do to the protocol only what `Signal` does, provided
  that numbers are typed, and no kill is lost before its process has left `run()`.
  `SendsAreBuffered` says how much MPI must buffer so that an `MPI_Send`, which keeps the
  communicator's mutex, never waits for a recipient that sleeps or has left: two packets
  of the protocol to each member, one `CRASH` more for each time its number is typed
  (once its crash thread has ended nobody receives them), and one packet from it. No fixed
  number is enough, for the operator may go on typing. A word on standard input kills the coordinator: the
  finding of `crash_stray_input`.
* **The clocks** (`OptimizedCommunicator`) behave as if send and receive were atomic,
  the unlocked read included: a packet returned is stamped later than it was sent. But
  a *log line* is not stamped with the message's timestamp but with the clock at the time
  of logging, and sorting the log, as README.md of the program tells the reader to, can put
  a receipt before its sending: the finding of `clock_log`. There the input thread has sent
  a `CRASH` and not logged it when the member's crash thread logs its receipt and the
  coordinator's main thread, receiving a packet, moves the clock past that. (A single
  advance of the clock between a sending and its line only makes the two lines tie.)
* **The class not used** (`SimpleCommunicator`): `send` under the lock, and the body
  received from the sender of the header, keep header and body together although
  threads and processes share a tag, and although a receive for any tag may look for
  the body under another tag than the header's. A timeout between the two does not: the body is
  left behind and is the next header. The thread that timed out then returns packets that
  were never sent, and merges what it took for their timestamps into the clock that the
  other threads of its process use, from where it spreads to every process with the next
  packets. What holds all the same: no other thread returns a packet that is not whole
  (`MessagesAreWhole`), only a process with such a timeout loses packets, no clock goes
  back and every receipt is later than its sending, until a clock wraps around at
  `ULONG_MAX`, which a bogus time may bring about at once; of the timestamps of a process
  whose clock has wrapped nothing is promised. That is a reason to prefer
  `MpiOptimizedCommunicator`, which probes first and sends one message.
* **The formats** (`PacketFormat`): the C++ types, the MPI types and the offsets, which
  `MpiSimpleCommunicator.h` says "always have to match", do.
* **The log of one process** (`Logger`) sorts in the order it was written, as long as
  the two numbers have no more than `LOGGER_NUMBER_DIGITS` digits: the mutex covers the
  reading of the clock, the counter and the writing. (What does not sort well is the
  log of two processes: `clock_log`.)

Why the bounds are enough. The protocol has no loop over rounds: every process takes
fewer than ten steps, so no behaviour of a cohort is cut off. Two members are enough
for two of them to disagree, three for one to be killed, one to be late and one to
proceed; members differ only in their names, so symmetry is sound for the safety runs,
and it is not used for liveness. Every safety property of these runs is also proved,
for any values of the constants (section 4); the bounds matter to liveness only. In
`timed_margin` a lateness of a sleep is the same as a longer sleep and that of a receive
the same as a clock that was set, so that `LATENESS` is 0 there; a skew of 4 lets a
member start after the CAN_COMMIT, vote late and be asleep when PREPARE_COMMIT comes.
The times of `timed_fault_free` are those of `Define.h`, in seconds rather than
milliseconds: every condition in the code compares sums of whole seconds. In
`crash_safety` two numbers are typed, so that two kills, or the same one twice, fall
between any steps. In `simple_timeouts` two threads of one process, with a tag each, and
one of another send to recipients with and without a timeout; one of the recipients sends as
well, so that what it took for a timestamp reaches another process. A clock of 16 values
and three bogus times, the least and the two greatest, are enough for a clock to skip
forward, to wrap around by a merge or by a send, and to be merged after it has wrapped. In the clock runs each
process has two threads that use its clock, one of them twice. In `packet_format` a
field of 3 or 4 bits has, like one of 8 or 64, a lowest and a highest byte, and every
field has a width of its own; the length is aligned, and there is padding before it. In
`logger` both numbers grow from one digit to three.

### Fairness

* `ThreePC!Spec`: weak fairness of each main thread's step. No receive blocks for ever
  and no sleep is endless. A packet's arrival is *not* assumed, since the timeout alone is
  enough; the operator owes nothing.
* `TimedThreePC!TimedSpec`: time passes (`Tick`), and each process takes the step it
  can take. Signals are not fair.
* `CrashControl!ControlSpec`: main and crash threads run. The input thread is not
  assumed to, for it may wait for input for ever.
* `OptimizedCommunicator!Spec`: a thread inside `send`, `receive` or `log` goes on when
  the locks it needs are free, weakly: each lock is held only for a bounded time and
  the sends are bounded. An idle thread need not begin anything.

## 4. What is proved

For every finite cohort, every set of killable processes and every value of the other
constants:

* `ThreePCProof!Invariance`: `SafetySpec => []IndInv`, from which `TypeOK`,
  `NoUnexpectedPacket`, `PreparedNeedsEveryVote`, `CoordinatorCommitIsSafe`,
  `EarlyAbortIsSafe` and `ProtocolIsBuffered` (`BufferBound`) follow, each a theorem of its
  own.
* `TimedThreePCProof!TimedImplementsUntimed`: the clock only restricts. So everything
  above holds with time, for all times; `TimedCommitSafety` is one instance.
* From `SafeMargin`, `TimedThreePCProof!TimedInvariance` (`TimedIndInv`), and with it
  `TimedTypeCorrect`, `TimedAgreement` and `TimedImplementsAtomicCommit`.
* From `SafeMargin` and `AckMargin`, `TimedThreePCProof!AcksInvariance` and
  `TimeoutsAreAccurate`. The times of `Define.h` meet both margins for every lateness,
  delay and clock step with `2 * LATENESS + 2 * CLOCK_STEP + DELAY` below one second.
* `CrashControlProof!ControlImplementsThreePC`: the threads implement `ThreePC` as long
  as the lines typed are numbers of killable processes (`Line \subseteq Killable`, the
  assumption without which the finding above contradicts it); `ControlTypeCorrect` and
  `BufferBoundWithKills` (`SendsAreBuffered`: `BufferBound`, and each `CRASH` packet answers
  to one number typed), from the same assumption; and `KillsAreKept` (`NoKillIsLost`): no
  kill is lost, whatever is typed.
* `OptimizedCommunicatorProof!Invariance` (`IndInv`), with `TypeCorrect`,
  `StampsAreRight` and `ProbesAreKept`: any number of processes, threads and tags, as
  long as two threads of one process do not receive with the same tag.
* From the same assumption, `OptimizedCommunicatorProof!StampsDiffer` (`TimestampsDiffer`)
  and `OptimizedImplementsLogicalClock`.
* `SimpleCommunicatorProof!Invariance` (`IndInv`), with `TypeCorrect`, `AstrayOwnTimeout`
  (`AstrayOnlyAfterTimeout`) and `PacketsAreWhole` (`MessagesAreWhole`), then `PacketsDiffer`
  (`TimestampsDiffer`) and `SimpleImplementsLogicalClock`: any number of processes, threads
  and tags, receives for any tag among them, and whichever faults the timeouts have.
* `LoggerProof!Invariance` (`IndInv`), with `TypeCorrect` and `SortKeepsOrder`
  (`SortedLinesKeepOrder`): any threads, lines and clock, any base from 2 on and any
  number of digits.
* `PacketFormatProof!OptimizedFormat`, `SimpleFormat` and `EqualHashAlike`: fields and bytes
  of any size, so those of the code as well, any packets that fit in them, and any content
  of the padding and of the recipient's memory.

The assumptions are those of the modules: the cohort is finite and the coordinator is
no member of it (`CohortAssumption`), the processes are the numbers from 0 and the
marks for what is no number are none (`RankAssumption`, needed by `CrashControl` only),
two threads of a process receive with different tags (`ThreadAssumption` and
`SimpleAssumption`), times are naturals (`TimeAssumption` of `TimedThreePC`), the clock of `SimpleCommunicator`
has some width that what is taken for a time fits in (its `TimeAssumption`), numbers have a base of two or
more (`LoggerAssumption`), and what a packet holds fits in its fields (`FormatAssumption`).

**The inductive invariant.** None of the properties is inductive: that every member has
voted when one is in `P` depends on what the coordinator checked before it broadcast
`PREPARE_COMMIT`, and that on which replies it had gathered. `IndInv` therefore ties
each process's `state` to its whole history:

* `BroadcastHistory`: the coordinator's state determines `sent`, up to the round in
  which it gave up;
* `MemberHistory(m)`: a member's state determines how much it has received and what it
  has replied, with four ways into `A`;
* `GatherHistory`: in each round the coordinator takes exactly one reply of each
  member, and `packets` holds the replies of the `responders`, so nothing is left over
  from the vote when it counts the acknowledgements;
* `RoundsUnanimous`: `PREPARE_COMMIT` only after all votes, `DO_COMMIT` only after all
  acknowledgements.

The proof has one lemma per kind of step. Steps of members share `MemberEffect` (a
reply is appended, and what the coordinator has taken stays as it was); the end of a
round, for whatever reason, is `CloseRoundStep`. `AllRespondedIsAll` is about the
comparison of sizes in `receiveFromAll`: a set of members has the size of everybody
else only if it is everybody else.

**The timed invariant.** `Agreement` depends on two processes that do not talk to each
other giving up in the right order. `TimedIndInv` adds to `IndInv` what makes it so:
`CoordinatorInTime` bounds from above, counting from the latest broadcast (`sentAt`), the
moment at which the coordinator ends its round; `MemberPatient` bounds from below the
moment at which a member that has heard that broadcast can time out, and says that one
that has not will still hear it. `SafeMargin` puts the first before the second.
`NobodyAhead` is what follows of the states, and `LeftInTime` says that who has left
without a decision was killed. Each kind of step has a lemma; the interesting ones are
a member's timeout, where the two bounds meet, and `Tick`, which can only pass a bound if
somebody urgent has been passed over. `AcksInTime` does the same for the acknowledgements:
`PromptAck` bounds when a member that is not killed sends its own, relative to `sentAt`,
and the coordinator's earliest timeout lies after that plus `DELAY`.

**The communicator's invariant.** `ThreadHistory` says, for every place a thread can be
in, which mutex it holds and what it has in hand. The places are exclusive because at
most one thread is the holder a mutex names. `PacketsAreStamped` needs for `send` that
nobody else advances the clock while the sender holds the mutex, and for `receive` that
clocks only grow. A process never sends to itself, which tells a packet in hand that was
sent from one that was received.

That it implements `LogicalClock` takes a second invariant. What is in transit there is a
set, from which a receipt takes one packet: were two packets equal, the first receipt
would take both. A packet is in one of three places, in the hands of a thread that
has yet to send it (`YetToSend`), on the network (`OnNetwork`), or with a thread that
has received it and not advanced the clock (`JustReceived`), and `TimestampsDiffer` tells
the packets of each place from those of all three. A new one differs from all because
no packet is ahead of its sender's clock and no two threads of a process hold its mutex.
The steps `BeginSend` and `UpdateClock` are the `Send` and `Receive` of `LogicalClock`; the
others move a packet from one place to the next, or none at all.

**The other communicator's invariant.** A packet is two MPI messages here, and other sends
and timeouts come between them. What stays true is about neighbours in a channel, as one
receiver sees it: the body of a packet with a text comes next after its header among the
messages of that tag, or is still with its sender (`HeaderIsFollowed`, `SendsInTurn`); and
before a body is its header, unless the thread that receives with that tag is waiting for
just this body, or has left it behind by a timeout of its own (`BodyIsLed`, `BodyDueIsLed`,
`GetsItsBody`). So the thread that gets the first message of its tag gets a header when it
looks for one and the body of its header when it looks for that, or it is one of those
that `timedOut` names. Each kind of step does one of three things to a channel: it appends a
message, it takes the first that matches a tag, or it leaves the channel alone. For the
first two there is a lemma on each part of the invariant. `LogicalClock` then follows as
for the first communicator: a header stands for its packet, `TimestampsDiffer` keeps the
packets apart, and what a faulty timeout loses is the loss of a `faulty` process. An astray
receive holds no packet of the abstract clock: whatever it merges makes the clock go
forward, a `Skip` of a process that is faulty, or wrap around. All of `TimestampsDiffer` is
about processes whose clock has not wrapped; a packet that is received from one that has is
such a `Skip`, too.

**The log's invariant.** `log()` numbers and times its lines in separate steps, so the
order of the lines has to be that of three things at once: a line has the number of its
place (`LinesAreNumbered`), no line has a later time than the next (`TimesAreSorted`), and a
thread that has read the clock has a time that may follow all of them (`ReadIsCurrent`), which
only the mutex keeps true until it writes. That numbers in order are texts in order
(`PaddedOrder`) is an induction over the digits: of two numbers the one with the smaller
quotient by the base comes first at some earlier digit, and if the quotients are the same,
so are the texts without the last digit, which decides.

**The formats.** `Number` reads from the highest byte down, and what it has read after `k` of
`size` bytes is `Rest(n)[size - k]`; so it ends with the number itself. The rest is where the
fields lie: they do not overlap, with padding or without.

These functions are recursive, and induction over the naturals is not to be had from the
library's theorems, which take the formula as a parameter. `SequenceLemmas` gets it from
another side: a set of naturals has a least element (`Least`, from the well-foundedness of
their order), so the set of counterexamples has none; and a first value and a step define
a function (`PrimitiveRecursion`, by its finite beginnings, any two of which agree), which
unfolds the recursive definitions.

**Only model-checked.** Liveness under fairness: `NonBlocking`, `EverybodyCommits`,
`ProgramExits` and `CallsReturn`, which the prover cannot do. Every other property of a
passing run, invariant or refinement, is proved. The two findings are counterexamples,
which are TLC's business.

## 5. What is not modelled, and why

* `MPI_Send` is taken to return once the packet is buffered. If it blocked until
  received, a process would hold its mutex meanwhile. `ProtocolIsBuffered` and, with the
  `CRASH` packets, `SendsAreBuffered` bound what this asks of MPI.
* The time that passes between two receives of one round. The loop of `receiveFromAll` gives
  each receive what is left of `ROUND_TIME`, which may be nothing or less, and the receive
  then polls once: a round may last longer than `ROUND_TIME` as long as packets are there.
  In `TimedThreePC` such steps take no time; what they take in the code is not said there.
* An MPI without `MPI_THREAD_MULTIPLE`: the constructor warns of it and goes on, but
  what it does with concurrent calls is not defined.
* The input thread after its `Coordinator` has been destroyed: undefined behaviour,
  whose outcomes no property of the protocol could survive. `CrashControl` stops the
  thread with the program.
* A real crash. The program only simulates one, at a checkpoint; `mpirun` would abort
  the whole job if a process died.
* `StringConcat.h` and `ConsoleColor.h` (a third-party header): formatting and colours of
  the log. The same goes for the wall clock, the thread names and the message in a line
  of the log. With their 800 lines they are most of what the modules do not cover.
* `MultiprocessDebugHelper`, and `contains`, `printContainer`, `execAndCaptureStdOut` of
  `Utils.h`, the hash and equality of `RawPacket`, and `operator<` of both packets: nobody
  calls them.
* The generator behind `Random`: `randomBetween` may draw any number of its range.

## 6. Plan

Done: every component that has behaviour of its own, the proofs listed above.

Left: `CrashControl` with `Logger` and communicator in place of its channel.
