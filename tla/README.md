# Verification of the gemsim simulator's coordination code

The repository is a half-full-system AMD GPU simulator: unmodified host ROCm
software talks over local sockets to gem5 processes that execute the kernels.
Several such instances form a group with its own collective library
(`plugins/collectives/gemsim_ccl`), started and stopped by Python supervisors.
gem5 itself is present as patches, and the C runtime under the collective
library (`sagr_*` functions) is an empty submodule. The logic of this repository
that several processes share is therefore in Python, and that is what is
modelled here: the all-reduce and its process group, the live registry, the
supervisor of the instances, the journal of the checkpoint transactions, and the
AgentENV service control.

Paths below are relative to the repository's root; `engine.py`, `native.py`,
`device.py`, `torch_process_group.py` and `bootstrap.py` are under
`plugins/collectives/gemsim_ccl/src/gemsim_ccl/`.

## Inventory

| Component | State | Operations | Hard parts |
|---|---|---|---|
| All-reduce engine and live group (`engine.py`, `native.py`, broker loop in `scripts/run_gemsim_ccl_live_allreduce.py`) | per rank: EngineState, active sequence and step, workspace, finished segments, carrier credits; between ranks: peer sockets, control channels; broker: first error and whom it was relayed to | all_reduce, abort, close, destroy; failure path: relay ABORT records, report, release; broker: progress, abort, relay | ranks run asynchronously over nonblocking sockets; full sockets; failure of one rank at any point of another's step; several reports of one failure; early close |
| Ring plan and numeric oracle (`plan_allreduce_segments` in `engine.py`; `chunk_range`, `independent_plan`, `ring_oracle` in `tools/gemsim_ccl_live_allreduce_acceptance.py`) | none; the oracle keeps workspaces | plan, execute in lock step | uneven and empty chunks, phase change, order of floating-point additions |
| Device sum (`device.py`) | launch count | sum_in_place | may raise in the middle of a step |
| CCL design model (`tools/gemsim_ccl_live_allreduce.py`) | slot tables with generations, state of each transfer | acquire, accept, release, discard; gates | replayed or stale slots, acknowledgement before the sum |
| torch process group (`torch_process_group.py`, `bootstrap.py`) | barrier sequence, closed flag, claimed groups | allreduce of several tensors, barrier over the store, shutdown, abort, claim | commit of several tensors, barrier with a dead rank, double claim |
| Live registry (`scripts/gemsim_live_registry.py`) | registry file, lease file with lock, generation | publish, close, read_live_snapshot | torn pairs, publisher crash, stale READY |
| Instance supervisor (`scripts/run_gemsim_instances.py`) | per instance process, runtimes; published group state | start, poll, refresh, abort, terminate | exits between two samples, debounce, cleanup after partial start |
| Checkpoint transaction journal (`scripts/transaction.py`) | journal phase, declared and recorded children, git HEADs, retired journals | begin, declare, record, prepare-root, finalize, status | crash between any two durable steps, check and use |
| AgentENV service control (`tools/agentenv_service.py`) | process record, control lock, server process | start, stop, status | PID reuse, racing start and stop, reboot, a killed start |
| AgentENV manager (`tools/agentenv_manager.py`) | answers of an external server | start_pair, collect, stop | all state is in the server |
| gem5 host bridge and GPU fixes (`patches/gem5`) | queues, connections, memory, signals | submit, disconnect, dispatch | code outside the repository |
| Lane ownership, single-rank lifecycle, sources, downloads, environment, verification, framework plugins, capsules | files | sequential scripts | - |

Interaction: the runner creates the broker, starts the workers, and polls the
broker; a worker joins through its capability, after which it has one control
channel to the broker and one peer socket to every other rank; the engine calls
the device sum for each received chunk; the process group calls the engine. The
supervisor publishes the group in the live registry, which tools read.

What makes each component correct: the all-reduce returns exactly the ring-order
sum, to all or to no one where that can be decided, never blocks forever and
never continues after a failure; the registry is never believed when torn or
orphaned; the supervisor publishes READY only for a whole group and always ends
OFF with nothing left running; the journal names, after any crash, either an
unfinished transaction or exactly the commit it prepared; a service is signalled
only when it is the recorded process.

## Modules

| Module | Models | Composed with |
|---|---|---|
| `RingPlan` | neighbours, the chunk a rank sends and receives at a step, chunk extents, segments of a call: pure operators | used by the next two |
| `RingOracle`, `MCRingOracle` | `ring_oracle`: all ranks execute the plan in lock step | - |
| `AllReduceEngine`, `MCAllReduce` | every rank's engine, the carriers, sockets and control channels, and the broker | implements `Collective` |
| `Collective` | abstract: what callers of the all-reduce are promised | implemented by `AllReduceEngine`, used by `ProcessGroup` |
| `ProcessGroup`, `MCProcessGroup` | the torch process group: construction, `allreduce` of several tensors, `barrier`, `shutdown`, `abort` | takes the engine by `Collective` |
| `LiveRegistry`, `MCLiveRegistry` | the publisher of the registry and the readers of `read_live_snapshot` | implements `SnapshotRegister` |
| `SnapshotRegister` | abstract: a register read in one step | implemented by `LiveRegistry` |
| `InstanceSupervisor` | `_run_phase` and what it calls, the workers and their daemons | the registry is one published state and its lease |
| `TransactionJournal` | `begin`, `record-child`, `prepare-root`, `finalize`, git, the disk, and the developer | - |
| `AgentEnvService` | `start_service` and `stop_service`, the process record and the control lock, the PIDs of the system | - |
| `AllReduceEngineProofs`, `AllReduceResultProofs`, `RingOracleProofs`, `LiveRegistryProofs`, `InstanceSupervisorProofs`, `TransactionJournalProofs`, `AgentEnvServiceProofs`, `ProcessGroupProofs` | theorems and their proofs | each EXTENDS the module it is about; `AllReduceResultProofs` EXTENDS `AllReduceEngineProofs` |

Operators whose names or comments describe a mistake (`SendConsumedEarly`,
`LooksLostWithWorker`, `WaitThenRemove`, ...) stand before the definition they are a
mistake in. No specification uses them; replacing the definition by one of them
makes TLC report the property they were written for, which shows that the
property can fail.

### The all-reduce: `AllReduceEngine`

A chunk's value is the sequence of ranks whose contributions it holds, in order
of addition, because addition of bfloat16 and float32 values is not associative;
`RingSum` is the one order in which the ring adds. `seq`, `step` and `pc` are
`_active_sequence`, `_active_step_ordinal` and the place in `_execute_segment`.
They keep their values when a segment fails, as the fields do. `work`, `staged`
and `completed` are local values of the call and are dropped when it fails;
`public` is what `all_reduce` returned.

| Action | Code |
|---|---|
| `StartAllReduce`, `RejectCall` | `all_reduce` up to the first segment; validation or planning raises |
| `PrepareData`, `SendData`, `ReceiveData`, `ApplyInbound`, `SendConsumed`, `ReceiveConsumed` | one step of the plan in `_execute_segment`, in its order; the outcome of each carrier call (done, BUSY, failed) decides |
| `FinishSegment`, `Commit` | the carrier must own nothing; the private results are kept, or returned together |
| `FindBusy`, `PollAbort`, `TimeOut` | `_wait_busy`: attempt, then the abort, then the clock. The attempt may have become possible meanwhile and the abort still wins |
| `ObservePeerAbort`, `ObservePeerLoss` | the attempt fails: an ABORT record, or a closed peer |
| `FailLocally` | the device, the observer or any other call raises. Before the call's first descriptor exists nothing is sent to the peers |
| `RelayAbort`, `ReportAndRelease` | `_fail_collective`: one ABORT record per peer in rank order, each given up when the peer is gone or its socket stays full; then the report to the broker and the release of everything |
| `Abort`, `Close`, `FinishClose`, `CloseFails`, `CloseAborted`, `Destroy` | the other public operations |
| `Crash` | the process dies anywhere, also inside its relay |
| `BrokerLatch`, `BrokerObserveLoss`, `BrokerDeadline`, `BrokerRelay` | the runner's loop over `broker.progress()`, its deadline, and the relay until nothing is pending |

External, modelled from how the Python code uses it: a sequenced-packet socket
delivers whole records in order, refuses a record when full, fails towards a
closed peer and lets queued records be read after the close, except that a
connection may be reset when the peer left records unread; the carrier accepts
only the DATA or CONSUMED of the active descriptor and step, counts credits, and
reclaims everything when it aborts; the broker latches the first report, loss or
deadline it processes. Where the native code is not visible the more liberal
behaviour is chosen: `rank_close` may return without waiting for the other ranks;
a closed peer may be blamed on either of the two ranks; a control channel can
always take the one report of its rank.

### Its callers: `ProcessGroup`

`at` is the place of a rank in `__init__`, `allreduce`, `barrier`, `shutdown` or
`abort`; `call` counts its calls. `claimed` is an entry of `_claimed_groups`, which
is never removed. `fd` says what the number of the capability's descriptor
stands for: after it was closed the process may open another file and be given
the same number, and `stray` records that something closed it then. `entered`,
`results` and `gone` are the variables of `Collective`, of which the steps
`Contribute`, `Return` and `Leave` are taken: the engine appears by its contract.
`barrier`, `arrived` and `complete` are `_barrier_sequence` and the two store keys.

`Claim`, `BuildRaises`, `Transfer`, `JoinRaises`, `JoinRank`, `JoinedRaises` and
`Constructed` are the construction, with the closing of the descriptor by whoever
owns it when it raises; `AllReduce` to `CommitTensor` stage, reduce, compare and
copy; `Barrier`, `Arrive`, `SetComplete`, `Released` and `WaitRaises` are `barrier`.
Assumed: all ranks run the same program; a caller stops at its first exception;
the final `copy_` to a caller's tensor does not raise. A wait in a barrier ends by
the store's timeout, which is enabled when a peer failed, or as a fault.

### The live registry: `LiveRegistry`

A document stands for the bytes of the registry file; the lease vouches for one
by its digest and generation. `ReplaceRegistry`, `TruncateLease`, `WriteLease` and
`FinishPublish` are `publish` in its steps that others can see, and `PublishFails`
leaves it after any of them. `Begin`, `ReadRegistry`, `Probe`, `Unlock`, `ReadLease`
and `ReadAgain` are `read_live_snapshot`; `AttemptFails` is part of each of them. The
probe takes a shared lock for a moment, which the model keeps as a state of its
own because another reader's probe may meet it. `window` collects what was
current during an attempt; `undisturbed` says that nothing changed in it. Reading
a whole file is one step: a file is replaced by a rename, and a lease that is
seen half written is one that does not decode, as the truncated one.

### The supervisor: `InstanceSupervisor`

A worker is a child of the supervisor; its daemon is a grandchild in a process
group of its own, and becomes the supervisor's child when the worker is gone
(`PR_SET_CHILD_SUBREAPER`). The supervisor knows a daemon only when a sample
found it below a living worker. `pc` and `pos` are its place in `_run_phase` and the
rank its loop is at: `PollAlive` and `PollExited` are one turn of the loop over the
active runs, `GraceSample` and `Kill` are `_terminate_run` from each of its three
places (`back`), `Refresh`, `Health`, `Abort` and `StopNext` are what follows a pass,
`FinallyRun`, `CleanupUnassigned` and `PublishOff` the finally block, and
`ClosePublisher` the caller's. `Interrupt` is a KeyboardInterrupt at any of them.
Processes do what they like at any time, and exit well or badly.

### The transaction journal: `TransactionJournal`

Every store appears twice, as the programs see it and as it is on disk: branches,
objects, index and HEAD of git, the active and the retired journals, and the
names of their directories. The commands are guarded by their checks (`Begin`,
`RecordChild`, `PrepareRoot`, `Finalize`), then pass the durability barrier
(`HardenObjects`, `SyncReferences`, `SyncFilesystems`, `Recheck`), write the journal
(`MakeDirectory`, `SyncParent`, `ReplaceJournal`, `SyncJournal`) and retire it
(`Retire` to `SyncSource`). A developer commits and stages at any time, also during
a command. `LosePower` leaves each store as on disk or as it was seen.
Assumed: git writes the objects of a commit to disk before the reference to it;
the deletion of a rename is not written back before the insertion; a `syncfs`
covers the filesystem it is called on and nothing else; a dirty worktree is a
HEAD that moved, because both are refused by the same check.

### AgentENV: `AgentEnvService`

`proc` gives each process its identity (PID, start ticks, boot); `record` is
`process.json`, which holds an identity and that of the executable. `Spawn` gives a
free PID to anyone, `Reboot` kills everything and keeps the files, `Rebuild` changes
the executable. The checks before the lock are the guards of `BeginStart` and
`BeginStop`; under the lock `Recheck`, `Launch`, `Verify` and `WriteRecord` are
`start_service`, with `LaunchFails`, `Undo`, `Reap` and the unlink its failure;
`Reread`, `Open`, `Check`, `Send`, `Wait` and `Remove` are `stop_service`. A match and
the pidfd are separate steps, since the PID may go to another process between
them. `Refuse` is an exception that ends a command with nothing undone, in `wait`
the one of a stop that times out. Assumed: one PID is not given twice within one clock tick, and
a start can always signal its own child.

## Runs

| Run | Instance | Checks |
|---|---|---|
| `RingOracle` | worlds 2..8 and 15, 1..11 elements, at most 5 per segment | `OracleSumsEveryRankOnce`: every output element is the sum of each rank once, in the ring order of its chunk. `NoContributionTwice`: no partial sum ever counts a rank twice. `PlannerPeerSymmetry`: what a rank sends is what its successor expects. Fewer elements than ranks, remainders, and one to three segments all occur. |
| `PairFaults` | 2 ranks, a call of two segments and a call of one, 1 credit, sockets of 2 records, any 2 faults, fairness | Types, `EngineConsistent`, `AckMeansAbsorbed`, `NoLifeAfterFailure`, the refinement of `Collective`, `FailureReachesBroker`, and `AllCommit`: no rank waits forever, and if nothing failed every call returned. With two ranks both ring directions share one socket, the worst case for the order of records and for full sockets; a failure can strike between the segments of a call, and a second one while the first unwinds. |
| `Ring3Faults` | 3 ranks, one call of one segment, 1 credit, sockets of 2, any 1 fault, rank 0 the first to leave, deadlock checked | `SuccessorKeepsUp`, `ReduceScatterFailureIsGroupWide`, `CreditConservation`, the refinement. Three ranks are the least with a neighbour that is not both predecessor and successor, with relays to a non-neighbour, and with two steps per phase. The ring looks the same from every rank, so which one leaves first is fixed; segments after the first are `PairFaults`' business. |
| `CallersAndBarriers` | 3 ranks, all-reduce of 2 tensors and barrier, twice, 2 constructions, any 2 faults, fairness | `CommitIsAtomic`: a call that raised has written no tensor. `BarrierSeparates`: nobody is past a barrier before everyone is at it with all earlier all-reduces committed. `CapabilityClosedOnce`: the descriptor is closed by its owner and never when its number belongs to something else. `EveryRankEnds`. The second barrier shows that keys are not shared, the third rank that the last to arrive is not always the same. |
| `RegistryReads` | 2 readers (symmetric), 2 attempts each, 2 publications | `AnswersWereCurrent`, `OnlyVouchedDocuments`, `RefusedOnlyWhenDisturbed`, and the refinement of `SnapshotRegister`. The second publication meets the lease of the first and reuses its generation when the first failed; the second reader meets the probe of the first. |
| `SupervisedPhase` | 2 workers as a group and alone, debounce of 1 sample, a deadline, 1 failing start or publication, 1 interrupt, fairness | `NothingLeftRunning`, `GroupPassesTogether`, `ReadyIsTrusted`, `FailureStaysAlone`, `LossEndsTheGroup`, `FailureEndsTheGroup`. One other rank is enough for a failure to strand someone. The two repeated bounds, faults and interrupts, may meet in one behaviour. |
| `JournalSurvives` | 2 children, 2 commits in each, 3 of the root, 2 checkpoints, 1 kill, 1 power loss, a developer who does anything | `JournalsAreSound`: what a journal on disk names is on disk, and a committed journal binds the commit that follows the one it began from. `BegunNeverLost`: short of a kill, a power loss never takes the only journal. `NamesAgree`: the two names of a journal hold the same bytes. Two children make one of them undeclared, three root commits two transactions. |
| `JournalRetires` | 3 commits in each child, 2 checkpoints, 1 power loss, a careful developer, fairness | `EveryTransactionRetires` |
| `AgentEnvStartStop` | 2 commands, 2 PIDs, 2 processes, 2 boots, 2 builds, 1 killed command, fairness | `OnlyServersSignalled`, `RunningServerIsRecorded`, `RecordKeptWhileRunning`, `LockIsReleased`. Two processes are a server and whoever is given its PID, or two servers; the reboot starts the ticks again, so that PID and start ticks may repeat. |
| `PairSameFailure`, `SupervisorInterrupted`, `JournalKilledInRename` | - | Expected violations, see below. |

The bounds are the constants named in each module: faults, kills, interrupts,
attempts, and the numbers of documents, commits, checkpoints and processes. The
one state constraint is `RankZeroLeavesFirst` of `Ring3Faults`. The credits of the engine matter little because it has at most
one transfer outstanding; 1 is checked, the proofs cover all. `CHECK_DEADLOCK
FALSE` appears where the system may stop: a phase that is done, ranks that all
ended, a developer who does nothing. Liveness of the engine is checked with two
ranks; with three it takes too long for a routine check, and the run only shows
that no state is stuck.

Fairness:

- `AllReduceEngine`: every rank takes steps while it can, and so do the broker's
  latching and its relay to each rank. `_wait_busy` retries in a loop and the
  runner calls `progress()` in a loop. No fault, deadline or timeout is assumed to
  happen: a rank whose peer fails always learns it from the record, the end of
  file or the broker. The runner's final kill of the workers is not needed.
- `ProcessGroup`: every rank goes on, which includes the store's timeout.
- `InstanceSupervisor`: the supervisor goes on; its loop polls and its grace
  periods end. Nothing makes a worker or a daemon do anything.
- `TransactionJournal`: a running command goes on, and the developer carries on
  with the transaction, runs a command again whenever it can run, and makes what
  it asks for. A lock is free again when its holder ends.
- `AgentEnvService`: a command that can go on does, since `poll`, the waits and
  their deadlines return. The server may ignore SIGTERM and outlive the deadline
  of SIGKILL. `LockIsReleased` needs no fairness of the server.
- `LiveRegistry` has only safety: a reader makes a fixed number of attempts.

### Differences between the code and what is said of it

`PairSameFailure`. `PLAN.md:743-744` says "The first error aborts the epoch and all
ranks observe the same failure". Rank 1 fails locally, sends its ABORT record
(which names rank 1) and rank 0 reads it. The carrier raises `CCLStatusError`,
which has no `failed_rank`; `_fail_collective` (`engine.py:1012`) then takes rank
0 itself, so rank 0 reports and logs that rank 0 failed, while rank 1 names rank 1.
The record itself is relayed unchanged. If rank 0's report is the first the broker
processes, the group's first error names the wrong rank.

`SupervisorInterrupted`. `_run_phase` stores the exit status of a worker
(`run_gemsim_instances.py:693`) before `_terminate_run` has stopped the worker's
daemon. An interrupt in that call, which sleeps for up to the grace period, leads
to a finally block that terminates only runs without an exit status, and
`_cleanup_unassigned_children` skips tracked processes: the daemon keeps running.
`PLAN.md:1186-1188` promises "no orphan processes/sockets".

`JournalKilledInRename`. `retire_journal` renames the journal to its retired name
and syncs the new directory before the old one, so that, as its comment says
(`transaction.py:796-798`), a crash can never lose the only name. If the *command*
ends between rename and syncs, finalize cannot run again, and the next `begin`
syncs `txn/` and with it the deletion, although the retired name was never synced;
a power loss then takes both. `BegunNeverLost` is therefore stated for behaviours
without a killed command. A kill inside `begin`, between making a directory and
syncing its parent (`transaction.py:69`), has the same effect on the next one: it
finds the directory and does not sync its name.

A rank may return a result although another fails: in the all-gather phase or when
closing, one rank can be done before its neighbour fails. The engine does not
promise otherwise, the runner discards the outputs of such a run, and
`ReduceScatterFailureIsGroupWide` states the part that does hold.

## Proofs

Every invariant, every action property and both refinements that a passing run
checks are proved for all values of the constants; the runs show them on small
instances and show that they can fail. The constants are restricted only by the
`ASSUME` of each module: bounds are natural numbers, what the system cannot do without
is there at least once (two ranks, one sequence, one credit, one commit), the children
are finitely many, and a call of the all-reduce ends at the last sequence.

`AllReduceEngineProofs` proves for every number of ranks, segments, calls,
credits, socket depth and faults (assumption `EngineAssumption`: at least two
ranks, one sequence, one credit, one record per socket):

- `TypeCorrect`, `ConsistentEngines` - `EngineTypeOK` alone is not inductive: that
  a step stays below the number of steps needs the stage of the engine, that the
  next sequence stays in range needs an active call to be within the sequences,
  and that a report names a rank needs a failed rank to be set while unwinding.
  `EngineConsistent` says these, and `EngineInv`, both together, is inductive:
  one lemma for each group of actions, a case for each action.
- `AcksAreTrue` - uses `StepMoves` (a step leaves the position of a rank, completes
  its step on the matching CONSUMED, or goes on after the last step), hence
  `AbsorbedStays` (what was absorbed stays absorbed), and `StepSocketMoves` (a
  direction of a socket stays, loses its head, or gains one record of its writer,
  a CONSUMED one only from `SendConsumed`).
- `NeighboursKeepUp` - inductive together with `AckMeansAbsorbed`: a rank's position
  advances only on an acknowledgement, and an acknowledgement is true.
- `FailureIsForGood` - an action property, from the same invariant.

`AllReduceResultProofs` continues from there to what callers see, under the same
assumption. `ResultInv` adds to the invariants above

- `NoneFarBehind`: a rank that is `Hops` ring hops after another is at most that many
  steps behind it. `SuccessorKeepsUp` is one hop of this; it takes all of them to say
  anything about ranks that never exchange a record. A step completes only on an
  acknowledgement, so that its successor is where it has to be, and the induction goes
  over the position of one rank, not over the ring.
- `ValuesExpected`: the workspaces, staging buffers and DATA records in sockets hold
  the value a closed form gives for (rank, chunk, steps applied): the rank's own input,
  then the partial sum of the chunk's `Age` there, then the whole sum.
- `ResultsAreSums`: one result for each finished segment, all of them the ring sum.

From it follow `ReturnedSums` (every chunk of every returned segment is the sum of each
rank once, in the chunk's ring order), `FailureIsGroupWide` (a rank that fails in the
reduce-scatter is missing in some chunk of everybody else, so nobody finishes the
segment) and `EnginesImplementCollective`, the refinement of `Collective` as a whole:
entering a sequence maps to `Contribute`, the commit to `Return`, leaving for any reason
to `Leave`, everything else to a stutter. `CreditsConserved` is the account of one rank's
credits: those in use are the one of a record about to be sent, the DATA records on
their way, the transfer its successor holds, and the CONSUMED records coming back. Its proof counts records of one
kind in a queue (`OfKind`) and shows that five steps move one unit each and that no
other step of a pair still in its collectives moves any.

`RingOracleProofs` proves for every set of world sizes, tensor sizes and segment
limits (`OracleAssumption`): `OracleIsRingSum`, `OracleCountsOnce` and `PeersAgree`. It has
three layers:

- arithmetic of the plan: chunks of a segment follow each other from 0 to its length
  and every element is in exactly one (`OneChunkOfElement`), also when there are fewer
  elements than ranks; the segments follow each other from 0 to the size of the tensor
  (`Cutting`); what a rank sends is what its successor receives (`ReceivedIsSent`);
- what a rank holds of a chunk before a step, again in closed form (`Held`), and that
  one step of the plan takes it to the next (`DeliveredIsHeld`);
- `OracleInv`: the workspaces are as held, and the outputs are the sums of the finished
  segments, element by element.

The closed form is the same as the engine's, which is why the oracle's outputs and
the engine's results are the same order of additions.

`LiveRegistryProofs` proves for every number of readers, attempts and publications
(`RegistryAssumption`):

- `RegistryTypeCorrect`, `AnswersCurrent`, `AnswersVouched`, `RefusalsDisturbed` - from
  the inductive invariant `RegistryConsistent`. What an answer needs is known only
  in pieces while the reader is under way, and the parts say them:
  `FilesConsistent` (a lease vouches only for a document that was written, and for
  the registry's own only when `vouched` has it), and of a reader, that its probe
  and its first document were a view of its window, that its lease was vouched
  for, and that an attempt that began undisturbed on a whole pair has seen that
  pair so far.
- `RegistryImplementsSnapshots` - the refinement of `SnapshotRegister` as a whole,
  initial states and steps. Construction, replacement of the registry, close and
  death map to `Change`, the write of the lease to `Vouch`, a begin or a retry to
  `Attempt`, an accepted second read to `Answer`, everything else to a stutter.

`InstanceSupervisorProofs` proves for every number of workers, debounce, faults and
interrupts (`SupervisorAssumption`): `SupervisorTypes`, `NothingIsLeftRunning`,
`GroupsPassTogether`, `ReadyRegistryIsTrusted` and `FailuresStayAlone`. None of these is
inductive. `SupervisorInv` has the types and

- `WorkersStart`, `IdentitiesStand`: a daemon was started by its worker, and an
  identity that was read of one is still the one it announces;
- `TerminationsHaveCause`: each of the three calls of `_terminate_run` is for a worker
  seen to exit, a group that aborts, or a rank without a return code;
- `CodesAreActedOn`, `EndsByItself`: the loop goes on with a failed rank of a group only
  when the reason to abort is noted, hence a phase that ends by itself without one has
  only good codes;
- `RanksAreDealtWith`: a rank with a return code has no worker and no tracked daemon
  left, except the one whose termination is under way, and the finally block deals with
  the ranks in order. The exception is where the interrupt of `SupervisorInterrupted`
  strikes: such a behaviour is outside the claim of `NothingIsLeftRunning`, as it is
  outside the property.

`TransactionJournalProofs` proves for every set of children and every bound on commits,
checkpoints and faults (`JournalAssumption`): `JournalTypes`, `SoundJournals`,
`BegunStays` and `JournalsAgree`. `JournalInv` says, besides the checked properties,

- `CommandHasJournal`: what a running command will write is of the transaction it
  read, in the phase the command is for; once written it is the journal, and after the
  rename the retired name holds it;
- `ValueIsHardened`: what it will write is durable as far as its barrier has come, first
  the objects and then the references, whatever a developer commits meanwhile. This is
  what makes a journal sound at the moment it is replaced;
- `JournalsAreBehind`: the checkpoint of a committed journal is behind the root and its
  index, seen and on disk, and therefore never begun again: two journals of one
  checkpoint are the same journal;
- `JournalNames`, `DirectoriesAreSynced`, `BegunIsDurable`: a directory's name is synced
  before anything is moved there, and in the middle of the rename the name on disk is
  the old one. Short of a killed command, a begun checkpoint is always on disk.

Each part has a lemma over all steps. They rest on two facts about what any step may
do: `JournalsMove` (a journal of the next state is one of this state, seen or on disk, or the
command's value) and `StoresGrow` (what git has on disk is never taken away).

`AgentEnvServiceProofs` proves for any number of commands, PIDs, processes, boots,
builds and killed commands (`ServiceAssumption`): `ServiceTypeCorrect`,
`SignalsAreForServers`, `OneRecordedServer` and `RecordIsKept`. The inductive invariant
`ServiceInv` adds to the checked properties

- `Ordered`: processes are born in order, so the clock of a boot is behind all that
  are not born; hence start ticks and boot identify a process, and a PID a visible
  one;
- `RecordIsServers`: the record is that of a launched server;
- `Knows(c)`: what the holder of the lock may rely on at each place although
  processes come and go, which is where an error would sit: from `open` on the pidfd
  is bound to the recorded process *if that one is still there*, hence after the
  second match it is the recorded one; at `remove` the recorded process is not
  running; a failed launch has reaped what it recorded.

Every step is a birth, an end or a boot (`ProcessSteps`), each of which keeps the order
and a holder's knowledge (`KnowledgeKept`); the record moves at three places only
(`RecordMoves`).

`ProcessGroupProofs` proves for every world size, program, number of tensors,
constructions and faults (`ProcessGroupAssumption`): `CommitsAreAtomic`,
`BarriersSeparate`, `CapabilityIsClosedOnce`, and `GroupKeepsContract`: every step of the
group is a step of `Collective` or leaves it alone, so that the group and the engines
(`EnginesImplementCollective`) meet at one interface. The inductive invariant `GroupInv` ties
what a rank holds to the calls it has made:

- `Sums`: the engine's sequence is the number of tensors of the all-reduces before
  this call, plus those of this call; from `check` on every rank has contributed
  all of this call's, which is the guard of the last `Return`.
- `Numbered`: a barrier's sequence is the number of barriers before it. This is what
  makes the store's keys agree between ranks although each counts for itself.
- `StoreInv`: an arrival counter is at most the number of ranks that entered that
  barrier and arrived (`Counted`), so that a count of all ranks means all ranks. A
  rank that dies before it arrives only enlarges `Counted`.
- `Owns`: a number is closed only by a rank that claimed it, and from the claim to
  `joined` it is the capability.

`Written` lists what any step may write; from it follow the types, that other ranks
keep what is theirs (`OthersUnmoved`) and that sequences only grow (`GoesForward`).
`PlaceChanges` serves all steps that only go elsewhere; the seven others have a lemma
each.

Only model-checked are the liveness properties, which are out of the prover's reach:
`FailureReachesBroker`, `AllCommit`, `EveryRankEnds`, `LossEndsTheGroup`,
`FailureEndsTheGroup`, `EveryTransactionRetires` and `LockIsReleased`. The three expected
violations are counterexamples, which a run gives and a proof cannot.

## Not modelled

- Of the all-reduce: the rendezvous inside the native library (`AllReduceEngine`
  begins when all ranks joined; a join that raises is in `ProcessGroup`), the
  singleton engine, the fork check, abort status codes, a crash of the broker, the
  runner's final kill (a killed rank behaves as `Crash`), evidence files. Chunks of
  length zero skip only the device call.
- The CCL design model (`tools/gemsim_ccl_live_allreduce.py`), an executable design
  document whose slot generations live in the native library now; it is next.
- Of the supervisor: calibration phases, CPU affinity, the check of shared caches,
  and the process audit. Of the journal: `declare-child` and `declare-root`, which
  only fix the declaration before anything is recorded, `status`, and the migration
  of old journals. Of AgentENV: the layout's directories, `last_stop`, short links,
  dry runs, the health probe, and the manager, which records what an external
  server answers over HTTP.
- Single-rank lifecycle, lane ownership, sources, downloads, environment,
  framework plugins, verification scripts, capsules and goldens: sequential
  scripts that read, fetch, compare or hash files. Their state is a file they
  write once, and their hazards are in data and formats, not in an order of steps.
- gem5, whose code is not in the repository: its patches change classes that
  cannot be read here.

The larger part of the repository's lines belongs to the last two groups.

## Plan

Done: the components above, and a proof of every safety property the runs check.

1. `CreditLedger` with slot generations and the transfer gates of the design model:
   replayed, stale and early records; shown to implement the credit count of
   `AllReduceEngine`.
2. The singleton engine, and the supervisor's calibration phases.
3. Proofs: that `AllReduceEngine` and `RingOracle` add in the same order, as one theorem
   about both; action properties of the supervisor and of the journal (a return code
   is never taken back, a phase of the journal never goes backwards).
