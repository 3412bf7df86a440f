------------------------- MODULE InstanceSupervisor -------------------------
(***************************************************************************)
(* The supervisor of a phase of runs (_run_phase in                        *)
(* scripts/run_gemsim_instances.py): it starts one worker per rank, each   *)
(* of which spawns a gem5 daemon in a process group of its own, samples    *)
(* the processes, publishes the state of a group in the live registry, and *)
(* stops everything when it leaves the loop.                               *)
(*                                                                         *)
(* The supervisor sees the processes only through its samples: a daemon it *)
(* has not sampled while the worker lived is adopted, not tracked.         *)
(***************************************************************************)
EXTENDS Naturals

CONSTANTS World,       \* number of workers
          Debounce,    \* samples a READY group may look unhealthy
          Timeouts,    \* --timeout-seconds was given
          FaultBudget, \* bound on failing starts and publications
          Interrupts   \* bound on KeyboardInterrupts

ASSUME SupervisorAssumption ==
  /\ World \in Nat \ {0}
  /\ Timeouts \in BOOLEAN
  /\ Debounce \in Nat /\ FaultBudget \in Nat /\ Interrupts \in Nat

Ranks == 1 .. World
Places == {"start", "announce", "pass", "grace", "refresh", "health", "abort", "stop",
           "sleep", "finally", "cleanup", "off", "close", "done"}

VARIABLES
  \* the processes of each rank
  worker,   \* none, run, or the status it exited with: ok, bad
  daemon,   \* none, run or dead
  log,      \* what the daemon wrote: ready or stale identity, clean exit
  \* the supervisor
  pc, pos,  \* its place in _run_phase and the rank its loop is at
  back,     \* where _terminate_run returns to
  active,   \* ranks not seen to exit
  tracked,  \* processes sampled: subsets of {worker, daemon}
  code,     \* InstanceRun.returncode: none, ok or bad
  seen,     \* identity read from the daemon's log: none, ready or stale
  reason,   \* this pass found a reason to abort the group
  unhealthy,\* consecutive samples in which a READY group's rank looked lost
  aborted,  \* abort_reason is set and in every run's isolation_errors
  timedOut, \* ranks marked timed_out
  \* the registry: what is published, and its lease
  state,    \* absent for independent runs, which have no group_registry
  lease,
  faults, interrupts,
  escaped   \* what an interrupt cut short: finally block, terminate_run

processVars == <<worker, daemon, log>>
controlVars == <<pc, pos, back>>
runVars == <<active, tracked, code, seen, timedOut>>
healthVars == <<reason, unhealthy, aborted>>
registryVars == <<state, lease>>
budgetVars == <<faults, interrupts, escaped>>
vars == <<processVars, controlVars, runVars, healthVars, registryVars, budgetVars>>

\* group_registry is not None: the runs are the ranks of a topology group.
Group == state # "absent"

Init ==
  /\ worker = [r \in Ranks |-> "none"]
  /\ daemon = [r \in Ranks |-> "none"]
  /\ log = [r \in Ranks |-> {}]
  /\ pc = "start" /\ pos = 1 /\ back = "pass"
  /\ active = Ranks
  /\ tracked = [r \in Ranks |-> {}]
  /\ code = [r \in Ranks |-> "none"]
  /\ seen = [r \in Ranks |-> "none"]
  /\ reason = FALSE /\ aborted = FALSE
  /\ unhealthy = [r \in Ranks |-> 0]
  /\ timedOut = {}
  /\ state \in {"none", "absent"} /\ lease = (state = "none")
  /\ faults = 0 /\ interrupts = 0 /\ escaped = {}

-----------------------------------------------------------------------------
(***************************************************************************)
(* The workers and their daemons, external.                                *)
(***************************************************************************)
SpawnDaemon(r) ==
  /\ worker[r] = "run" /\ daemon[r] = "none"
  /\ daemon' = [daemon EXCEPT ![r] = "run"]
  /\ UNCHANGED <<worker, log, controlVars, runVars, healthVars, registryVars, budgetVars>>

WriteReady(r, identity) ==
  /\ daemon[r] = "run" /\ log[r] = {}
  /\ log' = [log EXCEPT ![r] = {identity}]
  /\ UNCHANGED <<worker, daemon, controlVars, runVars, healthVars, registryVars, budgetVars>>

DaemonExits(r, clean) ==
  /\ daemon[r] = "run"
  /\ daemon' = [daemon EXCEPT ![r] = "dead"]
  /\ log' = [log EXCEPT ![r] = @ \cup clean]
  /\ UNCHANGED <<worker, controlVars, runVars, healthVars, registryVars, budgetVars>>

WorkerExits(r, status) ==
  /\ worker[r] = "run"
  /\ worker' = [worker EXCEPT ![r] = status]
  /\ UNCHANGED <<daemon, log, controlVars, runVars, healthVars, registryVars, budgetVars>>

-----------------------------------------------------------------------------
(***************************************************************************)
(* Samples.  _capture_descendants walks down from the worker, so it finds  *)
(* no daemon once the worker is gone: that one is the supervisor's own     *)
(* adopted child by then.                                                  *)
(***************************************************************************)
SampleOrphans(r) == tracked[r] \cup (IF daemon[r] = "run" THEN {"daemon"} ELSE {})
Sample(r) == IF worker[r] = "run" THEN {"worker"} \cup SampleOrphans(r) ELSE tracked[r]

\* refresh_ready_identity, of a runtime that was captured.
Identity(r, captured) ==
  IF "daemon" \in captured /\ log[r] \cap {"ready", "stale"} # {}
  THEN CHOOSE i \in {"ready", "stale"} : i \in log[r]
  ELSE seen[r]

Goto(place, r) == pc' = place /\ pos' = r
Faulty == faults < FaultBudget /\ faults' = faults + 1 /\ UNCHANGED <<interrupts, escaped>>

(***************************************************************************)
(* GroupRegistrySession.publish.  A publication that fails raises and      *)
(* leaves the state as it was.                                             *)
(***************************************************************************)
Publish(new) == state' = (IF Group THEN new ELSE state) /\ UNCHANGED lease
PublishRaises(new) == Group /\ state # new /\ Faulty /\ UNCHANGED registryVars

-----------------------------------------------------------------------------
(***************************************************************************)
(* _run_phase up to its loop.                                              *)
(***************************************************************************)
StartRun ==
  /\ pc = "start"
  /\ worker' = [worker EXCEPT ![pos] = "run"]
  /\ IF pos < World THEN Goto("start", pos + 1) ELSE Goto("announce", 1)
  /\ UNCHANGED <<daemon, log, back, runVars, healthVars, registryVars, budgetVars>>

StartRunRaises ==
  /\ pc = "start" /\ Faulty
  /\ Goto("finally", 1)
  /\ UNCHANGED <<processVars, back, runVars, healthVars, registryVars>>

AnnounceStarting ==
  /\ pc = "announce"
  /\ \/ Publish("STARTING") /\ Goto("pass", 1) /\ UNCHANGED budgetVars
     \/ PublishRaises("STARTING") /\ Goto("finally", 1)
  /\ UNCHANGED <<processVars, back, runVars, healthVars>>

-----------------------------------------------------------------------------
(***************************************************************************)
(* One pass of the loop: every active rank is sampled and polled.          *)
(***************************************************************************)
\* Mutant: the pass runs past the last rank.
NextInPassForever == Goto("pass", pos + 1)

NextInPass == IF pos < World THEN Goto("pass", pos + 1) ELSE Goto("refresh", 1)

PollAlive ==
  /\ pc = "pass"
  /\ pos \in active => worker[pos] = "run"
  /\ tracked' = IF pos \in active THEN [tracked EXCEPT ![pos] = Sample(pos)] ELSE tracked
  /\ NextInPass
  /\ UNCHANGED <<processVars, back, active, code, seen, timedOut, healthVars, registryVars,
                 budgetVars>>

PollExited ==
  /\ pc = "pass"
  /\ pos \in active /\ worker[pos] # "run"
  \* The worker was a zombie at the sample, or it exited between sample and poll.
  /\ \E captured \in {tracked[pos], SampleOrphans(pos)} :
       /\ tracked' = [tracked EXCEPT ![pos] = captured \cup {"worker"}]
       /\ seen' = [seen EXCEPT ![pos] = Identity(pos, captured)]
  /\ code' = [code EXCEPT ![pos] = worker[pos]]
  /\ pc' = "grace" /\ back' = "pass"
  /\ UNCHANGED <<processVars, pos, active, timedOut, healthVars, registryVars, budgetVars>>

(***************************************************************************)
(* _terminate_run: SIGTERM, samples while the grace period lasts, SIGKILL  *)
(* for the worker's group and everything tracked.  The processes may exit  *)
(* at any time and in any way, which is what SIGTERM makes them do.        *)
(***************************************************************************)
GraceSample ==
  /\ pc = "grace"
  /\ Sample(pos) # tracked[pos]
  /\ tracked' = [tracked EXCEPT ![pos] = Sample(pos)]
  /\ UNCHANGED <<processVars, controlVars, active, code, seen, timedOut, healthVars,
                 registryVars, budgetVars>>

\* Mutants of what follows: a failed worker is dropped like any other; a failed
\* worker stops the phase, also of independent runs.
AfterTerminateAlone ==
  \/ /\ back = "pass"
     /\ active' = active \ {pos}
     /\ NextInPass
     /\ UNCHANGED <<code, reason>>
  \/ /\ back \in {"abort", "finally"}
     /\ active' = IF back = "abort" THEN active \ {pos} ELSE active
     /\ code' = [code EXCEPT ![pos] = worker'[pos]]
     /\ Goto(IF back = "abort" THEN "stop" ELSE "finally", pos)
     /\ UNCHANGED reason
AfterTerminateFirst ==
  /\ active' = active \ {pos}
  /\ code' = [code EXCEPT ![pos] = worker'[pos]]
  /\ Goto(IF code[pos] = "bad" \/ back = "finally" THEN "finally" ELSE "sleep", 1)
  /\ UNCHANGED reason

\* What follows _terminate_run at each of its three places.
AfterTerminate ==
  \/ /\ back = "pass"
     /\ active' = active \ {pos}
     /\ reason' = (Group /\ code[pos] = "bad")
     /\ IF reason' THEN Goto("refresh", 1) ELSE NextInPass
     /\ UNCHANGED code
  \/ /\ back = "abort"
     /\ active' = active \ {pos}
     /\ code' = [code EXCEPT ![pos] = worker'[pos]]
     /\ Goto("stop", pos)
     /\ UNCHANGED reason
  \/ /\ back = "finally"
     /\ code' = [code EXCEPT ![pos] = worker'[pos]]
     /\ Goto("finally", pos)
     /\ UNCHANGED <<active, reason>>

Kill ==
  /\ pc = "grace"
  /\ LET captured == tracked[pos] IN
       /\ worker' = [worker EXCEPT ![pos] = IF @ = "run" THEN "bad" ELSE @]
       /\ daemon' = [daemon EXCEPT ![pos] =
                       IF "daemon" \in captured /\ @ = "run" THEN "dead" ELSE @]
       /\ seen' = IF back = "pass" THEN seen
                  ELSE [seen EXCEPT ![pos] = Identity(pos, captured)]
  /\ AfterTerminate
  /\ UNCHANGED <<log, back, tracked, timedOut, unhealthy, aborted, registryVars, budgetVars>>

-----------------------------------------------------------------------------
(***************************************************************************)
(* The group after a pass: READY once every rank's daemon announced the    *)
(* configured identity, and the health of a READY group.                   *)
(***************************************************************************)
Refreshed == [r \in Ranks |-> Identity(r, tracked[r])]
\* Mutant: any announced identity will do.
GroupHasIdentities == state = "STARTING" /\ \A r \in Ranks : Refreshed[r] # "none"

GroupIsReady ==
  /\ state = "STARTING"
  /\ \A r \in Ranks : "daemon" \in tracked[r] /\ Refreshed[r] = "ready"

Refresh ==
  /\ pc = "refresh"
  /\ seen' = IF state = "STARTING" THEN Refreshed ELSE seen
  /\ \/ /\ GroupIsReady
        /\ \/ Publish("READY") /\ Goto("health", 1) /\ UNCHANGED budgetVars
           \/ PublishRaises("READY") /\ Goto("finally", 1)
     \/ /\ ~GroupIsReady
        /\ Goto("health", 1)
        /\ UNCHANGED <<registryVars, budgetVars>>
  /\ UNCHANGED <<processVars, back, active, tracked, code, timedOut, healthVars>>

\* Mutant: a daemon is only missed with its worker.
LooksLostWithWorker(r) == worker[r] # "run" \/ "worker" \notin tracked[r]

LooksLost(r) ==
  \/ worker[r] # "run" \/ "worker" \notin tracked[r]
  \/ "daemon" \notin tracked[r]
  \/ daemon[r] # "run" /\ "clean" \notin log[r]

Health ==
  /\ pc = "health"
  /\ \/ reason /\ UNCHANGED <<reason, unhealthy>>
     \/ /\ ~reason /\ state = "READY"
        /\ unhealthy' = [r \in Ranks |->
              IF r \in active /\ LooksLost(r)
              THEN IF unhealthy[r] < Debounce THEN unhealthy[r] + 1 ELSE Debounce ELSE 0]
        /\ reason' = \E r \in active : LooksLost(r) /\ unhealthy[r] = Debounce
     \/ ~reason /\ state # "READY" /\ UNCHANGED <<reason, unhealthy>>
  /\ Goto(IF Group /\ reason' THEN "abort" ELSE "sleep", 1)
  /\ UNCHANGED <<processVars, back, runVars, aborted, registryVars, budgetVars>>

Abort ==
  /\ pc = "abort"
  /\ \/ /\ Publish("OFF") /\ Goto("stop", 1)
        /\ aborted' = TRUE /\ UNCHANGED budgetVars
     \/ PublishRaises("OFF") /\ Goto("finally", 1) /\ UNCHANGED aborted
  /\ UNCHANGED <<processVars, back, runVars, reason, unhealthy>>

StopNext ==
  /\ pc = "stop"
  /\ \/ /\ active # {}
        /\ \E r \in active : (\A q \in active : r <= q) /\ Goto("grace", r)
        /\ back' = "abort"
     \/ active = {} /\ Goto("finally", 1) /\ UNCHANGED back
  /\ UNCHANGED <<processVars, runVars, healthVars, registryVars, budgetVars>>

Sleep ==
  /\ pc = "sleep"
  /\ Goto(IF active = {} THEN "finally" ELSE "pass", 1)
  /\ UNCHANGED <<processVars, back, runVars, healthVars, registryVars, budgetVars>>

DeadlinePasses ==
  /\ pc = "sleep" /\ Timeouts
  /\ timedOut' = active
  /\ Goto("finally", 1)
  /\ UNCHANGED <<processVars, back, active, tracked, code, seen, healthVars, registryVars,
                 budgetVars>>

-----------------------------------------------------------------------------
(***************************************************************************)
(* The finally block and the caller's close of the publisher.              *)
(***************************************************************************)
FinallyRun ==
  /\ pc = "finally"
  /\ \/ /\ code[pos] = "none" /\ worker[pos] # "none"
        /\ pc' = "grace" /\ back' = "finally" /\ UNCHANGED pos
     \/ /\ code[pos] # "none" \/ worker[pos] = "none"
        /\ IF pos < World THEN Goto("finally", pos + 1) ELSE Goto("cleanup", 1)
        /\ UNCHANGED back
  /\ UNCHANGED <<processVars, runVars, healthVars, registryVars, budgetVars>>

\* _cleanup_unassigned_children: adopted daemons that were never tracked.
Unassigned == {r \in Ranks : worker[r] # "run" /\ "daemon" \notin tracked[r]}

\* Mutant: adopted daemons are left to init.
CleanupNothing ==
  /\ pc = "cleanup" /\ Goto("off", 1)
  /\ UNCHANGED <<processVars, back, runVars, healthVars, registryVars, budgetVars>>

CleanupUnassigned ==
  /\ pc = "cleanup"
  /\ daemon' = [r \in Ranks |->
                  IF r \in Unassigned /\ daemon[r] = "run" THEN "dead" ELSE daemon[r]]
  /\ Goto("off", 1)
  /\ UNCHANGED <<worker, log, back, runVars, healthVars, registryVars, budgetVars>>

PublishOff ==
  /\ pc = "off"
  /\ \/ Publish("OFF") /\ UNCHANGED budgetVars
     \/ PublishRaises("OFF")
  /\ Goto("close", 1)
  /\ UNCHANGED <<processVars, back, runVars, healthVars>>

ClosePublisher ==
  /\ pc = "close"
  /\ lease' = FALSE
  /\ Goto("done", 1)
  /\ UNCHANGED <<processVars, back, runVars, healthVars, state, budgetVars>>

\* Control-C: caught in the loop, not in the finally block.
InFinally == pc \in {"finally", "cleanup", "off"} \/ (pc = "grace" /\ back = "finally")
Interrupt ==
  /\ pc \notin {"close", "done"}
  /\ interrupts < Interrupts
  /\ interrupts' = interrupts + 1
  /\ escaped' = escaped \cup (IF InFinally THEN {"finally"} ELSE {})
                         \cup (IF pc = "grace" THEN {"terminate"} ELSE {})
  /\ Goto(IF InFinally THEN "close" ELSE "finally", 1)
  /\ UNCHANGED <<processVars, back, runVars, healthVars, registryVars, faults>>

-----------------------------------------------------------------------------
Processes ==
  \E r \in Ranks :
     \/ SpawnDaemon(r)
     \/ \E i \in {"ready", "stale"} : WriteReady(r, i)
     \/ \E c \in {{}, {"clean"}} : DaemonExits(r, c)
     \/ \E s \in {"ok", "bad"} : WorkerExits(r, s)

Supervise ==
  \/ StartRun \/ AnnounceStarting \/ PollAlive \/ PollExited \/ GraceSample \/ Kill
  \/ Refresh \/ Health \/ Abort \/ StopNext \/ Sleep
  \/ FinallyRun \/ CleanupUnassigned \/ PublishOff \/ ClosePublisher

Next == Processes \/ Supervise \/ StartRunRaises \/ DeadlinePasses \/ Interrupt

Spec == Init /\ [][Next]_vars
\* The supervisor runs as long as it can; nothing makes a process do anything.
FairSpec == Spec /\ WF_vars(Supervise)

-----------------------------------------------------------------------------
\* Every variable has its type (InstanceRun, RuntimeArtifacts, GroupRegistrySession).
TypeOK ==
  /\ worker \in [Ranks -> {"none", "run", "ok", "bad"}]
  /\ daemon \in [Ranks -> {"none", "run", "dead"}]
  /\ log \in [Ranks -> SUBSET {"ready", "stale", "clean"}]
  /\ pc \in Places /\ pos \in Ranks /\ back \in {"pass", "abort", "finally"}
  /\ active \subseteq Ranks /\ timedOut \subseteq Ranks
  /\ tracked \in [Ranks -> SUBSET {"worker", "daemon"}]
  /\ code \in [Ranks -> {"none", "ok", "bad"}]
  /\ seen \in [Ranks -> {"none", "ready", "stale"}]
  /\ reason \in BOOLEAN /\ aborted \in BOOLEAN
  /\ unhealthy \in [Ranks -> 0 .. Debounce]
  /\ state \in {"none", "absent", "STARTING", "READY", "OFF"} /\ lease \in BOOLEAN
  /\ faults \in 0 .. FaultBudget /\ interrupts \in 0 .. Interrupts
  /\ escaped \subseteq {"finally", "terminate"}

Running(r) == worker[r] = "run" \/ daemon[r] = "run"

(***************************************************************************)
(* However a phase ends, no worker and no daemon it started is left        *)
(* running, also those the samples never saw (the finally block, 727-736,  *)
(* and _cleanup_unassigned_children), unless an interrupt cut short the    *)
(* stopping itself.                                                        *)
(***************************************************************************)
Stopped == \A r \in Ranks : ~Running(r)
NothingLeftRunning == pc = "done" /\ escaped = {} => Stopped

(***************************************************************************)
(* An interrupt that the loop catches leaves nothing running either,       *)
(* wherever it arrived (725-733).                                          *)
(***************************************************************************)
InterruptStopsEverything == pc = "done" /\ "finally" \notin escaped => Stopped

(***************************************************************************)
(* What _validate_run asks of a run: its worker exited 0, the phase was    *)
(* not aborted, and its one daemon was seen and announced its identity.    *)
(***************************************************************************)
Passed(r) == /\ code[r] = "ok" /\ ~aborted
             /\ "daemon" \in tracked[r] /\ seen[r] = "ready"

(***************************************************************************)
(* A group that ends by itself passes or fails as one: no run passes       *)
(* beside a worker that failed (the abort marks every run, 706-711).       *)
(***************************************************************************)
GroupPassesTogether ==
  Group /\ pc = "done" /\ timedOut = {} /\ faults = 0 /\ interrupts = 0
      /\ (\E r \in Ranks : Passed(r))
    => \A r \in Ranks : code[r] = "ok"

(***************************************************************************)
(* The registry never offers a group across a sleep of the supervisor      *)
(* after a failure it has seen, and what it offers announced the           *)
(* configured identity on every rank (refresh, 246-271; abort, 706-718).   *)
(***************************************************************************)
ReadyIsTrusted ==
  state = "READY" =>
    /\ \A r \in Ranks : seen[r] = "ready" /\ "daemon" \in tracked[r]
    /\ pc = "sleep" => \A r \in Ranks : code[r] # "bad"

(***************************************************************************)
(* Independent runs are not stopped for one another: short of a timeout,   *)
(* an interrupt or an error, a run is terminated only after its own exit.  *)
(***************************************************************************)
FailureStaysAlone ==
  ~Group /\ timedOut = {} /\ faults = 0 /\ interrupts = 0 /\ pc = "grace"
    => worker[pos] # "run"

(***************************************************************************)
(* A daemon of a READY group lost without a clean exit takes the group     *)
(* down, or its registry reads OFF because the lease is gone, unless its   *)
(* worker ends by itself (ready_health_error, 273-306).                    *)
(***************************************************************************)
Lost(r) == /\ worker[r] = "run" /\ daemon[r] = "dead" /\ "clean" \notin log[r]
LossEndsTheGroup ==
  \A r \in Ranks : (state = "READY" /\ Lost(r)) ~> (state = "OFF" \/ ~lease \/ worker[r] = "ok")

(***************************************************************************)
(* A worker that fails ends a group, although its peers would wait for it  *)
(* forever (686-718).                                                      *)
(***************************************************************************)
FailureEndsTheGroup == \A r \in Ranks : (Group /\ worker[r] = "bad") ~> (pc = "done")
=============================================================================
