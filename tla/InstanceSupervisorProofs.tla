---------------------- MODULE InstanceSupervisorProofs ----------------------
(***************************************************************************)
(* Proofs about InstanceSupervisor for every number of workers, debounce,  *)
(* and bound on the faults and interrupts.                                 *)
(***************************************************************************)
EXTENDS InstanceSupervisor, TLAPS

USE DEF processVars, controlVars, runVars, healthVars, registryVars, budgetVars

-----------------------------------------------------------------------------
(***************************************************************************)
(* Where the supervisor is: in the loop, in a termination of one of three  *)
(* kinds, or past the loop, which it never enters again.                   *)
(***************************************************************************)
Terminating(from) == pc = "grace" /\ back = from
Ending == pc \in {"finally", "cleanup", "off", "close", "done"} \/ Terminating("finally")
Looping ==
  \/ pc \in {"announce", "pass", "refresh", "health", "sleep"} \/ Terminating("pass")

(***************************************************************************)
(* The workers are started before the loop, and a daemon by its worker.    *)
(***************************************************************************)
WorkersStart ==
  /\ \A r \in Ranks : worker[r] = "none" => daemon[r] = "none"
  /\ pc = "start" => \A r \in Ranks : r < pos => worker[r] # "none"
  /\ Looping => \A r \in Ranks : worker[r] # "none"
  /\ pc \in {"start", "announce"} => active = Ranks /\ \A r \in Ranks : code[r] = "none"

(***************************************************************************)
(* A daemon announces one identity, and what was read of it stays true.    *)
(***************************************************************************)
IdentitiesStand ==
  \A r \in Ranks :
    /\ ~({"ready", "stale"} \subseteq log[r])
    /\ seen[r] # "none" => seen[r] \in log[r]
    /\ state = "READY" => seen[r] = "ready" /\ "daemon" \in tracked[r]

(***************************************************************************)
(* What each termination is for: a worker seen to exit, a group that       *)
(* aborts, or a rank without a return code.                                *)
(***************************************************************************)
TerminationsHaveCause ==
  /\ Terminating("pass") => code[pos] = worker[pos] /\ worker[pos] # "run"
  /\ Terminating("finally") => code[pos] = "none"
  /\ aborted \/ pc \in {"abort", "stop"} \/ Terminating("abort") => Group
  /\ pc = "stop" \/ Terminating("abort") => aborted

(***************************************************************************)
(* The loop has a return code of every rank it dropped; of a group it goes *)
(* on only without a failed one, or with the reason to abort noted.        *)
(***************************************************************************)
CodesAreActedOn ==
  /\ Looping => \A r \in Ranks : r \notin active => code[r] # "none"
  /\ Group /\ Looping =>
       \A r \in Ranks : code[r] = "bad" =>
         \/ pc \in {"refresh", "health"} /\ reason
         \/ Terminating("pass") /\ r = pos

(***************************************************************************)
(* A phase that ends by itself has all return codes, and those of a group  *)
(* are good unless it was aborted.                                         *)
(***************************************************************************)
EndsByItself ==
  /\ timedOut # {} => Ending
  /\ Ending /\ ~aborted /\ timedOut = {} /\ faults = 0 /\ interrupts = 0 =>
       \A r \in Ranks : code[r] # "none" /\ (Group => code[r] # "bad")

(***************************************************************************)
(* A rank with a return code was dealt with, the one whose termination is  *)
(* under way excepted; the finally block deals with the ranks in order.    *)
(***************************************************************************)
Dealt(r) == worker[r] # "run" /\ ("daemon" \in tracked[r] => daemon[r] # "run")
RanksAreDealtWith ==
  escaped = {} =>
    /\ \A r \in Ranks : code[r] # "none" => Dealt(r) \/ (Terminating("pass") /\ r = pos)
    /\ pc = "finally" \/ Terminating("finally") => \A r \in Ranks : r < pos => Dealt(r)
    /\ pc = "cleanup" => \A r \in Ranks : Dealt(r)
    /\ pc \in {"off", "close", "done"} => Stopped

SupervisorInv ==
  /\ TypeOK
  /\ WorkersStart
  /\ IdentitiesStand
  /\ TerminationsHaveCause
  /\ CodesAreActedOn
  /\ EndsByItself
  /\ RanksAreDealtWith

-----------------------------------------------------------------------------
LEMMA FirstRank == 1 \in Ranks /\ Ranks \subseteq Nat /\ World \in Nat
BY SupervisorAssumption DEF Ranks

LEMMA NextRank ==
  ASSUME TypeOK
  PROVE  pos \in Nat /\ (pos < World => pos + 1 \in Ranks)
BY SupervisorAssumption DEF TypeOK, Ranks

\* What the loops of the supervisor read and sample has its type.
LEMMA IdentityTyped ==
  ASSUME TypeOK, NEW r \in Ranks, NEW captured
  PROVE  Identity(r, captured) \in {"none", "ready", "stale"}
<1>1. CASE "daemon" \in captured /\ log[r] \cap {"ready", "stale"} # {}
  <2>1. \E i \in {"ready", "stale"} : i \in log[r]
    BY <1>1
  <2>2. (CHOOSE i \in {"ready", "stale"} : i \in log[r]) \in {"ready", "stale"}
    BY <2>1
  <2> QED BY <1>1, <2>2 DEF Identity
<1>2. CASE ~("daemon" \in captured /\ log[r] \cap {"ready", "stale"} # {})
  BY <1>2 DEF Identity, TypeOK
<1> QED BY <1>1, <1>2

LEMMA SampleTyped ==
  ASSUME TypeOK, NEW r \in Ranks
  PROVE  /\ Sample(r) \subseteq {"worker", "daemon"} /\ tracked[r] \subseteq Sample(r)
         /\ SampleOrphans(r) \subseteq {"worker", "daemon"}
         /\ tracked[r] \subseteq SampleOrphans(r)
         /\ worker[r] # "run" => Sample(r) = tracked[r]
BY DEF Sample, SampleOrphans, TypeOK

(***************************************************************************)
(* Type correctness.                                                       *)
(***************************************************************************)
LEMMA ProcessesTyped == TypeOK /\ Processes => TypeOK'
<1> SUFFICES ASSUME TypeOK, NEW r \in Ranks,
                    \/ SpawnDaemon(r)
                    \/ \E i \in {"ready", "stale"} : WriteReady(r, i)
                    \/ \E c \in {{}, {"clean"}} : DaemonExits(r, c)
                    \/ \E s \in {"ok", "bad"} : WorkerExits(r, s)
             PROVE  TypeOK'
  BY DEF Processes
<1>1. CASE SpawnDaemon(r)
  BY <1>1 DEF TypeOK, SpawnDaemon
<1>2. CASE \E i \in {"ready", "stale"} : WriteReady(r, i)
  BY <1>2 DEF TypeOK, WriteReady
<1>3. CASE \E c \in {{}, {"clean"}} : DaemonExits(r, c)
  BY <1>3 DEF TypeOK, DaemonExits
<1>4. CASE \E s \in {"ok", "bad"} : WorkerExits(r, s)
  BY <1>4 DEF TypeOK, WorkerExits
<1> QED BY <1>1, <1>2, <1>3, <1>4

LEMMA FaultTyped ==
  ASSUME TypeOK, Faulty
  PROVE  faults' \in 0 .. FaultBudget /\ interrupts' = interrupts /\ escaped' = escaped
         /\ faults' # 0
BY SupervisorAssumption DEF TypeOK, Faulty

LEMMA TypeStep == TypeOK /\ [Next]_vars => TypeOK'
<1> SUFFICES ASSUME TypeOK, [Next]_vars PROVE TypeOK'
  OBVIOUS
<1> USE FirstRank, NextRank
<1>1. CASE Processes
  BY <1>1, ProcessesTyped
<1>2. CASE StartRun
  BY <1>2 DEF TypeOK, StartRun, Goto, Places
<1>3. CASE StartRunRaises
  BY <1>3, FaultTyped DEF TypeOK, StartRunRaises, Goto, Places
<1>4. CASE AnnounceStarting \/ Abort \/ PublishOff \/ ClosePublisher
  BY <1>4, FaultTyped
     DEF TypeOK, AnnounceStarting, Abort, PublishOff, ClosePublisher, Publish,
         PublishRaises, Goto, Places
<1>5. CASE PollAlive
  BY <1>5, SampleTyped DEF TypeOK, PollAlive, NextInPass, Goto, Places
<1>6. CASE PollExited
  <2>1. PICK captured \in {tracked[pos], SampleOrphans(pos)} :
           /\ tracked' = [tracked EXCEPT ![pos] = captured \cup {"worker"}]
           /\ seen' = [seen EXCEPT ![pos] = Identity(pos, captured)]
    BY <1>6 DEF PollExited
  <2>2. pos \in Ranks /\ captured \subseteq {"worker", "daemon"}
    BY SampleTyped DEF TypeOK
  <2>3. seen' \in [Ranks -> {"none", "ready", "stale"}]
    BY <2>1, <2>2, IdentityTyped DEF TypeOK
  <2>4. tracked' \in [Ranks -> SUBSET {"worker", "daemon"}]
    BY <2>1, <2>2 DEF TypeOK
  <2>5. code' \in [Ranks -> {"none", "ok", "bad"}]
    BY <1>6 DEF TypeOK, PollExited
  <2> QED BY <1>6, <2>3, <2>4, <2>5 DEF TypeOK, PollExited, Places
<1>7. CASE GraceSample
  BY <1>7, SampleTyped DEF TypeOK, GraceSample
<1>8. CASE Kill
  <2>1. /\ worker' \in [Ranks -> {"none", "run", "ok", "bad"}]
        /\ worker'[pos] \in {"none", "ok", "bad"}
    BY <1>8 DEF TypeOK, Kill
  <2>2. daemon' \in [Ranks -> {"none", "run", "dead"}]
    BY <1>8 DEF TypeOK, Kill
  <2>3. seen' \in [Ranks -> {"none", "ready", "stale"}]
    BY <1>8, IdentityTyped DEF TypeOK, Kill
  <2>4. /\ active' \subseteq Ranks /\ reason' \in BOOLEAN
        /\ pc' \in Places /\ pos' \in Ranks
        /\ code' \in [Ranks -> {"none", "ok", "bad"}]
    BY <1>8, <2>1 DEF TypeOK, Kill, AfterTerminate, NextInPass, Goto, Places
  <2> QED BY <1>8, <2>1, <2>2, <2>3, <2>4 DEF TypeOK, Kill
<1>9. CASE Refresh
  <2>1. Refreshed \in [Ranks -> {"none", "ready", "stale"}]
    BY IdentityTyped DEF Refreshed
  <2> QED BY <1>9, <2>1, FaultTyped
          DEF TypeOK, Refresh, Publish, PublishRaises, Goto, Places
<1>10. CASE Health
  <2>1. unhealthy' \in [Ranks -> 0 .. Debounce]
    <3>1. \A r \in Ranks : unhealthy[r] \in 0 .. Debounce /\ Debounce \in Nat
      BY SupervisorAssumption DEF TypeOK
    <3>2. ASSUME NEW r \in Ranks
          PROVE  (IF r \in active /\ LooksLost(r)
                  THEN IF unhealthy[r] < Debounce THEN unhealthy[r] + 1 ELSE Debounce
                  ELSE 0) \in 0 .. Debounce
      BY <3>1
    <3>3. \/ unhealthy' = unhealthy
          \/ unhealthy' = [r \in Ranks |->
               IF r \in active /\ LooksLost(r)
               THEN IF unhealthy[r] < Debounce THEN unhealthy[r] + 1 ELSE Debounce ELSE 0]
      BY <1>10 DEF Health
    <3>4. unhealthy \in [Ranks -> 0 .. Debounce]
      BY DEF TypeOK
    <3> QED BY <3>2, <3>3, <3>4
  <2>2. reason' \in BOOLEAN
    BY <1>10 DEF TypeOK, Health
  <2> QED BY <1>10, <2>1, <2>2 DEF TypeOK, Health, Goto, Places
<1>11. CASE StopNext \/ Sleep \/ DeadlinePasses \/ FinallyRun
  BY <1>11 DEF TypeOK, StopNext, Sleep, DeadlinePasses, FinallyRun, Goto, Places
<1>12. CASE CleanupUnassigned
  BY <1>12 DEF TypeOK, CleanupUnassigned, Goto, Places
<1>13. CASE Interrupt
  BY <1>13, SupervisorAssumption DEF TypeOK, Interrupt, Goto, Places
<1>14. CASE UNCHANGED vars
  BY <1>14 DEF TypeOK, vars
<1> QED BY <1>1, <1>2, <1>3, <1>4, <1>5, <1>6, <1>7, <1>8, <1>9, <1>10, <1>11, <1>12,
           <1>13, <1>14
        DEF Next, Supervise

-----------------------------------------------------------------------------
(***************************************************************************)
(* The steps that only move the supervisor on, and what they leave alone.  *)
(***************************************************************************)
MovesOn ==
  \/ StartRunRaises \/ AnnounceStarting \/ Refresh \/ Health \/ Abort \/ StopNext \/ Sleep
  \/ DeadlinePasses \/ FinallyRun \/ PublishOff \/ ClosePublisher \/ Interrupt

LEMMA MovesOnKeeps ==
  MovesOn => UNCHANGED <<worker, daemon, log, active, tracked, code>>
BY DEF MovesOn, StartRunRaises, AnnounceStarting, Refresh, Health, Abort, StopNext, Sleep,
       DeadlinePasses, FinallyRun, PublishOff, ClosePublisher, Interrupt

\* Where it may come from and go to.
LEMMA MovesOnTo ==
  ASSUME MovesOn
  PROVE  /\ Looping' => Looping
         /\ pc' \in {"start", "announce"} => FALSE
         /\ Ending => Ending'
         /\ Terminating("pass")' => FALSE
BY DEF MovesOn, StartRunRaises, AnnounceStarting, Refresh, Health, Abort, StopNext, Sleep,
       DeadlinePasses, FinallyRun, PublishOff, ClosePublisher, Interrupt, Goto, Looping,
       Terminating, Ending, InFinally

LEMMA NextIs ==
  ASSUME [Next]_vars
  PROVE  \/ Processes \/ StartRun \/ PollAlive \/ PollExited \/ GraceSample \/ Kill
         \/ CleanupUnassigned \/ MovesOn \/ UNCHANGED vars
BY DEF Next, Supervise, MovesOn

\* What the processes of a rank do by themselves.
LEMMA ProcessesKeep ==
  ASSUME Processes
  PROVE  UNCHANGED <<controlVars, runVars, healthVars, registryVars, budgetVars>>
BY DEF Processes, SpawnDaemon, WriteReady, DaemonExits, WorkerExits

LEMMA ProcessesDo ==
  ASSUME TypeOK, Processes, NEW r \in Ranks
  PROVE  /\ worker'[r] = worker[r] \/ (worker[r] = "run" /\ worker'[r] \in {"ok", "bad"})
         /\ \/ daemon'[r] = daemon[r]
            \/ worker[r] = "run" /\ daemon[r] = "none" /\ daemon'[r] = "run"
            \/ daemon[r] = "run" /\ daemon'[r] = "dead"
         /\ \/ log'[r] \in {log[r], log[r] \cup {"clean"}}
            \/ log[r] = {} /\ \E i \in {"ready", "stale"} : log'[r] = {i}
<1> PICK q \in Ranks : \/ SpawnDaemon(q)
                       \/ \E i \in {"ready", "stale"} : WriteReady(q, i)
                       \/ \E c \in {{}, {"clean"}} : DaemonExits(q, c)
                       \/ \E s \in {"ok", "bad"} : WorkerExits(q, s)
  BY DEF Processes
<1>1. CASE SpawnDaemon(q)
  BY <1>1 DEF TypeOK, SpawnDaemon
<1>2. CASE \E i \in {"ready", "stale"} : WriteReady(q, i)
  BY <1>2 DEF TypeOK, WriteReady
<1>3. CASE \E c \in {{}, {"clean"}} : DaemonExits(q, c)
  BY <1>3 DEF TypeOK, DaemonExits
<1>4. CASE \E s \in {"ok", "bad"} : WorkerExits(q, s)
  BY <1>4 DEF TypeOK, WorkerExits
<1> QED BY <1>1, <1>2, <1>3, <1>4

\* What a termination does to the processes and the return code of its rank.
LEMMA KillDoes ==
  ASSUME TypeOK, Kill, NEW r \in Ranks
  PROVE  /\ worker'[r] = IF r = pos /\ worker[r] = "run" THEN "bad" ELSE worker[r]
         /\ daemon'[r] = IF r = pos /\ "daemon" \in tracked[r] /\ daemon[r] = "run"
                           THEN "dead" ELSE daemon[r]
         /\ code'[r] = IF r = pos /\ back # "pass" THEN worker'[r] ELSE code[r]
BY DEF TypeOK, Kill, AfterTerminate

LEMMA KillGoesTo ==
  ASSUME TypeOK, Kill
  PROVE  /\ pc = "grace" /\ pos \in Ranks
         /\ back = "pass" =>
              /\ active' = active \ {pos} /\ reason' = (Group /\ code[pos] = "bad")
              /\ IF reason' THEN pc' = "refresh" ELSE pc' \in {"pass", "refresh"}
         /\ back = "abort" => pc' = "stop" /\ pos' = pos
         /\ back = "finally" => pc' = "finally" /\ pos' = pos /\ active' = active
         /\ back \in {"pass", "abort", "finally"}
         /\ pc' \in {"pass", "refresh", "stop", "finally"}
BY DEF TypeOK, Kill, AfterTerminate, NextInPass, Goto

-----------------------------------------------------------------------------
(***************************************************************************)
(* The parts of the inductive invariant.                                   *)
(***************************************************************************)
LEMMA StartStep ==
  ASSUME TypeOK, WorkersStart, [Next]_vars
  PROVE  WorkersStart'
<1>1. CASE Processes
  <2> SUFFICES ASSUME NEW r \in Ranks
               PROVE  /\ worker'[r] = "none" => daemon'[r] = "none"
                      /\ worker[r] # "none" => worker'[r] # "none"
    BY <1>1, ProcessesKeep DEF WorkersStart, Looping, Terminating
  <2> QED BY <1>1, ProcessesDo DEF WorkersStart
<1>2. CASE StartRun
  BY <1>2, FirstRank DEF TypeOK, WorkersStart, StartRun, Goto, Looping, Terminating, Ranks
<1>3. CASE PollAlive \/ GraceSample
  BY <1>3 DEF WorkersStart, PollAlive, GraceSample, NextInPass, Goto, Looping, Terminating
<1>4. CASE PollExited
  BY <1>4 DEF WorkersStart, PollExited, Looping, Terminating
<1>5. CASE Kill
  <2>1. \A r \in Ranks : /\ worker'[r] = "none" => daemon'[r] = "none"
                         /\ worker[r] # "none" => worker'[r] # "none"
    BY <1>5, KillDoes DEF WorkersStart
  <2>2. Looping' => Looping
    BY <1>5, KillDoes, KillGoesTo DEF Looping, Terminating
  <2>3. pc' \notin {"start", "announce"}
    BY <1>5, KillGoesTo
  <2> QED BY <2>1, <2>2, <2>3 DEF WorkersStart
<1>6. CASE CleanupUnassigned
  BY <1>6 DEF TypeOK, WorkersStart, CleanupUnassigned, Goto, Looping, Terminating
<1>7. CASE MovesOn
  BY <1>7, MovesOnKeeps, MovesOnTo DEF WorkersStart
<1>8. CASE UNCHANGED vars
  BY <1>8 DEF WorkersStart, vars, Looping, Terminating
<1> QED BY <1>1, <1>2, <1>3, <1>4, <1>5, <1>6, <1>7, <1>8, NextIs

LEMMA CauseStep ==
  ASSUME TypeOK, TerminationsHaveCause, [Next]_vars
  PROVE  TerminationsHaveCause'
<1>1. CASE Processes
  <2>1. \A r \in Ranks : worker[r] # "run" => worker'[r] = worker[r]
    BY <1>1, ProcessesDo
  <2> QED BY <1>1, <2>1, ProcessesKeep DEF TypeOK, TerminationsHaveCause, Terminating, Group
<1>2. CASE StartRun \/ PollAlive \/ GraceSample \/ CleanupUnassigned
  BY <1>2 DEF TerminationsHaveCause, StartRun, PollAlive, GraceSample, CleanupUnassigned,
              NextInPass, Goto, Terminating, Group
<1>3. CASE PollExited
  BY <1>3 DEF TypeOK, TerminationsHaveCause, PollExited, Terminating, Group
<1>4. CASE Kill
  <2>1. state' = state /\ aborted' = aborted
    BY <1>4 DEF Kill
  <2> QED BY <1>4, <2>1, KillDoes, KillGoesTo DEF TerminationsHaveCause, Terminating, Group
<1>5. CASE StartRunRaises \/ Sleep \/ DeadlinePasses \/ StopNext \/ FinallyRun
           \/ ClosePublisher \/ Interrupt \/ Health
  <2>1. UNCHANGED <<worker, code, state, aborted>>
    BY <1>5 DEF StartRunRaises, Sleep, DeadlinePasses, StopNext, FinallyRun,
                ClosePublisher, Interrupt, Health
  <2>2. /\ ~Terminating("pass")'
        /\ Terminating("finally")' => code[pos'] = "none"
        /\ pc' \in {"abort", "stop"} \/ Terminating("abort")' => Group
        /\ pc' = "stop" \/ Terminating("abort")' => aborted
    BY <1>5 DEF TerminationsHaveCause, StartRunRaises, Sleep, DeadlinePasses, StopNext,
                FinallyRun, ClosePublisher, Interrupt, Health, Goto, Terminating
  <2> QED BY <2>1, <2>2 DEF TerminationsHaveCause, Terminating, Group
<1>6. CASE AnnounceStarting \/ Abort \/ PublishOff \/ Refresh
  BY <1>6 DEF TerminationsHaveCause, AnnounceStarting, Abort, PublishOff, Refresh, Publish,
              PublishRaises, Goto, Terminating, Group
<1>7. CASE UNCHANGED vars
  BY <1>7 DEF TerminationsHaveCause, vars, Terminating, Group
<1> QED BY <1>1, <1>2, <1>3, <1>4, <1>5, <1>6, <1>7, NextIs DEF MovesOn

\* An identity that was read once is read again.
LEMMA IdentityStands ==
  ASSUME TypeOK, IdentitiesStand, NEW r \in Ranks, NEW captured
  PROVE  /\ Identity(r, captured) # "none" => Identity(r, captured) \in log[r]
         /\ seen[r] # "none" => Identity(r, captured) = seen[r]
<1>1. seen[r] # "none" => seen[r] \in log[r] /\ seen[r] \in {"ready", "stale"}
  BY DEF TypeOK, IdentitiesStand
<1>2. ~("ready" \in log[r] /\ "stale" \in log[r])
  BY DEF IdentitiesStand
<1>3. CASE "daemon" \in captured /\ log[r] \cap {"ready", "stale"} # {}
  <2> DEFINE i == CHOOSE i \in {"ready", "stale"} : i \in log[r]
  <2>1. \E j \in {"ready", "stale"} : j \in log[r]
    BY <1>3
  <2>2. i \in {"ready", "stale"} /\ i \in log[r]
    BY <2>1
  <2>3. Identity(r, captured) = i
    BY <1>3 DEF Identity
  <2> HIDE DEF i
  <2>4. seen[r] # "none" => i = seen[r]
    BY <1>1, <1>2, <2>2
  <2> QED BY <2>2, <2>3, <2>4
<1>4. CASE ~("daemon" \in captured /\ log[r] \cap {"ready", "stale"} # {})
  BY <1>1, <1>4 DEF Identity
<1> QED BY <1>3, <1>4

\* Samples grow, and the identities read of them stand.
LEMMA SamplesGrow ==
  ASSUME TypeOK, IdentitiesStand, [Next]_vars, ~Processes, NEW r \in Ranks
  PROVE  /\ tracked[r] \subseteq tracked'[r] /\ log'[r] = log[r]
         /\ seen[r] # "none" => seen'[r] = seen[r]
         /\ seen'[r] # "none" => seen'[r] \in log[r]
<1>0. seen[r] # "none" => seen[r] \in log[r]
  BY DEF IdentitiesStand
<1>1. CASE StartRun \/ CleanupUnassigned \/ UNCHANGED vars
  BY <1>0, <1>1 DEF StartRun, CleanupUnassigned, vars
<1>2. CASE PollAlive \/ GraceSample
  BY <1>0, <1>2, SampleTyped DEF TypeOK, PollAlive, GraceSample
<1>3. CASE PollExited
  <2>1. PICK captured \in {tracked[pos], SampleOrphans(pos)} :
           /\ tracked' = [tracked EXCEPT ![pos] = captured \cup {"worker"}]
           /\ seen' = [seen EXCEPT ![pos] = Identity(pos, captured)]
    BY <1>3 DEF PollExited
  <2>2. tracked[r] \subseteq tracked'[r]
    BY <2>1, SampleTyped DEF TypeOK
  <2>3. seen'[r] \in {seen[r], Identity(r, captured)}
    BY <2>1 DEF TypeOK
  <2>4. log' = log
    BY <1>3 DEF PollExited
  <2> QED BY <1>0, <2>2, <2>3, <2>4, IdentityStands
<1>4. CASE Kill
  <2>1. tracked' = tracked /\ log' = log
    BY <1>4 DEF Kill
  <2>2. seen'[r] \in {seen[r], Identity(r, tracked[r])}
    BY <1>4 DEF TypeOK, Kill
  <2> QED BY <1>0, <2>1, <2>2, IdentityStands
<1>5. CASE Refresh
  <2>1. tracked' = tracked /\ log' = log /\ seen'[r] \in {seen[r], Identity(r, tracked[r])}
    BY <1>5 DEF Refresh, Refreshed
  <2> QED BY <1>0, <2>1, IdentityStands
<1>6. CASE MovesOn /\ ~Refresh
  <2>1. tracked' = tracked /\ log' = log /\ seen' = seen
    BY <1>6 DEF MovesOn, StartRunRaises, AnnounceStarting, Health, Abort, StopNext, Sleep,
                DeadlinePasses, FinallyRun, PublishOff, ClosePublisher, Interrupt
  <2> QED BY <1>0, <2>1
<1> QED BY <1>1, <1>2, <1>3, <1>4, <1>5, <1>6, NextIs

LEMMA ReadyPublished ==
  ASSUME TypeOK, [Next]_vars, state' = "READY", state # "READY"
  PROVE  \A r \in Ranks : seen'[r] = "ready" /\ "daemon" \in tracked'[r]
<1>1. Refresh /\ GroupIsReady
  BY NextIs, ProcessesKeep
     DEF StartRun, PollAlive, PollExited, GraceSample, Kill, CleanupUnassigned, vars, MovesOn,
         StartRunRaises, AnnounceStarting, Health, Abort, StopNext, Sleep,
         DeadlinePasses, FinallyRun, PublishOff, ClosePublisher, Interrupt, Refresh,
         Publish, PublishRaises
<1> QED BY <1>1 DEF Refresh, GroupIsReady

LEMMA IdentityStep ==
  ASSUME TypeOK, IdentitiesStand, [Next]_vars
  PROVE  IdentitiesStand'
<1> SUFFICES ASSUME NEW r \in Ranks
             PROVE  /\ ~({"ready", "stale"} \subseteq log'[r])
                    /\ seen'[r] # "none" => seen'[r] \in log'[r]
                    /\ state' = "READY" => seen'[r] = "ready" /\ "daemon" \in tracked'[r]
  BY DEF IdentitiesStand
<1>0. /\ ~({"ready", "stale"} \subseteq log[r])
      /\ seen[r] # "none" => seen[r] \in log[r]
      /\ state = "READY" => seen[r] = "ready" /\ "daemon" \in tracked[r]
  BY DEF IdentitiesStand
<1>1. CASE Processes
  <2>1. seen' = seen /\ tracked' = tracked /\ state' = state
    BY <1>1, ProcessesKeep
  <2>2. \/ log'[r] \in {log[r], log[r] \cup {"clean"}}
        \/ log[r] = {} /\ \E i \in {"ready", "stale"} : log'[r] = {i}
    BY <1>1, ProcessesDo
  <2> QED BY <1>0, <2>1, <2>2
<1>2. CASE ~Processes
  BY <1>0, <1>2, SamplesGrow, ReadyPublished
<1> QED BY <1>1, <1>2

\* The registry's group stays one, and independent runs stay independent.
LEMMA GroupStays ==
  ASSUME [Next]_vars
  PROVE  Group' = Group
BY NextIs, ProcessesKeep
   DEF StartRun, PollAlive, PollExited, GraceSample, Kill, CleanupUnassigned, vars, MovesOn,
       StartRunRaises, AnnounceStarting, Refresh, Health, Abort, StopNext, Sleep,
       DeadlinePasses, FinallyRun, PublishOff, ClosePublisher, Interrupt, Publish,
       PublishRaises, Group

LEMMA ActedStep ==
  ASSUME TypeOK, WorkersStart, TerminationsHaveCause, CodesAreActedOn, [Next]_vars
  PROVE  CodesAreActedOn'
<1>g. Group' = Group
  BY GroupStays
<1>1. CASE Processes \/ UNCHANGED vars
  BY <1>g, <1>1, ProcessesKeep DEF CodesAreActedOn, vars, Looping, Terminating
<1>2. CASE StartRun
  BY <1>2 DEF WorkersStart, CodesAreActedOn, StartRun, Goto, Looping, Terminating
<1>3. CASE PollAlive \/ GraceSample \/ CleanupUnassigned
  BY <1>g, <1>3 DEF CodesAreActedOn, PollAlive, GraceSample, CleanupUnassigned, NextInPass,
                    Goto, Looping, Terminating
<1>4. CASE PollExited
  <2>1. /\ Looping /\ pc = "pass" /\ Terminating("pass")' /\ pos' = pos /\ pos \in Ranks
        /\ active' = active
    BY <1>4 DEF TypeOK, PollExited, Looping, Terminating
  <2>2. \A r \in Ranks : code'[r] = IF r = pos THEN worker[r] ELSE code[r]
    BY <1>4 DEF TypeOK, PollExited
  <2>3. worker[pos] # "none"
    BY <2>1 DEF WorkersStart
  <2> QED BY <1>g, <2>1, <2>2, <2>3 DEF CodesAreActedOn, Looping, Terminating
<1>5. CASE Kill
  <2>1. CASE Looping'
    <3>1. back = "pass" /\ Looping /\ Terminating("pass")
      BY <1>5, <2>1, KillGoesTo DEF Looping, Terminating
    <3>2. code[pos] # "none" /\ pos \in Ranks
      BY <1>5, <3>1, KillGoesTo DEF WorkersStart, TerminationsHaveCause
    <3>3. \A r \in Ranks : code'[r] = code[r]
      BY <1>5, <3>1, KillDoes
    <3>4. active' = active \ {pos}
      BY <1>5, <3>1, KillGoesTo
    <3>5. \A r \in Ranks : r \notin active' => code'[r] # "none"
      BY <3>1, <3>2, <3>3, <3>4 DEF CodesAreActedOn
    <3>6. Group => \A r \in Ranks : code[r] = "bad" => r = pos
      BY <3>1 DEF CodesAreActedOn, Looping, Terminating
    <3>7. Group /\ code[pos] = "bad" => reason' /\ pc' = "refresh"
      BY <1>5, <3>1, KillGoesTo
    <3> QED BY <1>g, <3>3, <3>5, <3>6, <3>7 DEF CodesAreActedOn
  <2>2. CASE ~Looping'
    BY <2>2 DEF CodesAreActedOn
  <2> QED BY <2>1, <2>2
<1>6. CASE Health
  <2>1. UNCHANGED <<code, active>> /\ pc = "health" /\ Looping
    BY <1>6 DEF Health, Looping
  <2>2. Group /\ Looping' => ~reason
    BY <1>6 DEF Health, Goto, Looping, Terminating
  <2>3. Group /\ Looping' => \A r \in Ranks : code[r] # "bad"
    BY <2>1, <2>2 DEF CodesAreActedOn, Terminating
  <2> QED BY <1>g, <2>1, <2>3 DEF CodesAreActedOn
<1>7. CASE Refresh
  <2>1. UNCHANGED <<code, active, reason>> /\ pc = "refresh" /\ Looping
    BY <1>7 DEF Refresh, Looping
  <2>2. Looping' => pc' = "health"
    BY <1>7 DEF Refresh, Goto, Looping, Terminating
  <2> QED BY <1>g, <2>1, <2>2 DEF CodesAreActedOn, Terminating
<1>8. CASE MovesOn /\ ~Health /\ ~Refresh
  <2>1. UNCHANGED <<code, active, reason>> /\ (Looping' => Looping)
    BY <1>8, MovesOnTo
       DEF MovesOn, StartRunRaises, AnnounceStarting, Abort, StopNext, Sleep,
           DeadlinePasses, FinallyRun, PublishOff, ClosePublisher, Interrupt
  <2>2. Looping' => pc \in {"announce", "sleep"}
    BY <1>8 DEF MovesOn, StartRunRaises, AnnounceStarting, Abort, StopNext, Sleep,
                DeadlinePasses, FinallyRun, PublishOff, ClosePublisher, Interrupt, Goto,
                Looping, Terminating
  <2> QED BY <1>g, <2>1, <2>2 DEF CodesAreActedOn, Terminating
<1> QED BY <1>1, <1>2, <1>3, <1>4, <1>5, <1>6, <1>7, <1>8, NextIs

LEMMA EndStep ==
  ASSUME TypeOK, TerminationsHaveCause, CodesAreActedOn, EndsByItself, [Next]_vars
  PROVE  EndsByItself'
<1>g. Group' = Group
  BY GroupStays
<1> DEFINE Calm == ~aborted /\ timedOut = {} /\ faults = 0 /\ interrupts = 0
           AllCodes == \A r \in Ranks : code[r] # "none" /\ (Group => code[r] # "bad")
<1>0. (timedOut # {} => Ending) /\ (Ending /\ Calm => AllCodes)
  BY DEF EndsByItself
<1>q. ASSUME timedOut' # {} => Ending', Ending' /\ Calm' => AllCodes' PROVE EndsByItself'
  BY <1>q DEF EndsByItself
<1>1. CASE Processes \/ UNCHANGED vars
  BY <1>1, ProcessesKeep DEF EndsByItself, vars, Ending, Terminating, Group
<1>2. CASE StartRun \/ PollAlive \/ GraceSample \/ CleanupUnassigned
  <2>1. UNCHANGED <<code, timedOut, aborted, faults, interrupts>>
    BY <1>2 DEF StartRun, PollAlive, GraceSample, CleanupUnassigned
  <2>2. Ending' <=> Ending
    BY <1>2 DEF StartRun, PollAlive, GraceSample, CleanupUnassigned, NextInPass, Goto,
                Ending, Terminating
  <2> QED BY <1>0, <1>g, <1>q, <2>1, <2>2
<1>3. CASE PollExited
  <2>1. ~Ending /\ ~Ending' /\ timedOut' = timedOut
    BY <1>3 DEF PollExited, Ending, Terminating
  <2> QED BY <1>0, <1>q, <2>1
<1>4. CASE Kill
  <2>1. UNCHANGED <<timedOut, aborted, faults, interrupts>> /\ (Ending' <=> Ending)
    BY <1>4, KillGoesTo DEF Kill, Ending, Terminating
  <2>2. Ending => Terminating("finally") /\ code[pos] = "none" /\ pos \in Ranks
    BY <1>4, KillGoesTo DEF Ending, Terminating, TerminationsHaveCause
  <2> QED BY <1>0, <1>q, <2>1, <2>2
<1>5. CASE StartRunRaises \/ Interrupt
  <2>1. (faults' # 0 \/ interrupts' # 0) /\ timedOut' = timedOut
    BY <1>5, FaultTyped, SupervisorAssumption DEF TypeOK, StartRunRaises, Interrupt
  <2>2. Ending => Ending'
    BY <1>5, MovesOnTo DEF MovesOn
  <2> QED BY <1>0, <1>q, <2>1, <2>2
<1>6. CASE Sleep \/ DeadlinePasses
  <2>1. /\ UNCHANGED <<code, aborted, faults, interrupts>>
        /\ ~Ending /\ Looping /\ pc = "sleep"
        /\ timedOut' # {} => timedOut' = active /\ Ending'
        /\ Ending' => active = {} \/ timedOut' = active
    BY <1>0, <1>6 DEF Sleep, DeadlinePasses, Goto, Ending, Looping, Terminating
  <2>2. Ending' /\ timedOut' = {} => active = {}
    BY <2>1
  <2>3. active = {} => AllCodes
    BY <2>1 DEF CodesAreActedOn, Terminating
  <2> QED BY <1>g, <1>q, <2>1, <2>2, <2>3
<1>7. CASE AnnounceStarting \/ Refresh \/ Abort \/ PublishOff
  <2>1. UNCHANGED <<code, timedOut>> /\ (Ending => Ending')
    BY <1>7, MovesOnTo DEF MovesOn, AnnounceStarting, Refresh, Abort, PublishOff
  <2>2. \/ UNCHANGED <<faults, interrupts>> /\ aborted' \in {aborted, TRUE} /\ (Ending' => Ending)
        \/ Faulty /\ aborted' = aborted
    BY <1>7 DEF AnnounceStarting, Refresh, Abort, PublishOff, PublishRaises, Goto, Ending,
                Terminating
  <2>3. Faulty => faults' # 0
    BY FaultTyped
  <2> QED BY <1>0, <1>g, <1>q, <2>1, <2>2, <2>3
<1>8. CASE StopNext
  <2>1. UNCHANGED <<code, timedOut, aborted, faults, interrupts>> /\ aborted /\ ~Ending
    BY <1>8 DEF StopNext, TerminationsHaveCause, Ending, Terminating
  <2> QED BY <1>0, <1>q, <2>1
<1>9. CASE Health \/ FinallyRun \/ ClosePublisher
  <2>1. UNCHANGED <<code, timedOut, aborted, faults, interrupts>>
    BY <1>9 DEF Health, FinallyRun, ClosePublisher
  <2>2. Ending' <=> Ending
    BY <1>9 DEF Health, FinallyRun, ClosePublisher, Goto, Ending, Terminating
  <2> QED BY <1>0, <1>g, <1>q, <2>1, <2>2
<1> QED BY <1>1, <1>2, <1>3, <1>4, <1>5, <1>6, <1>7, <1>8, <1>9, NextIs DEF MovesOn

-----------------------------------------------------------------------------
(***************************************************************************)
(* Nothing of a rank that was dealt with comes back.                       *)
(***************************************************************************)
LEMMA DealtStays ==
  ASSUME TypeOK, NEW r \in Ranks, Dealt(r),
         \/ Processes \/ PollAlive \/ GraceSample \/ Kill
         \/ CleanupUnassigned \/ MovesOn \/ UNCHANGED vars
  PROVE  Dealt(r)'
<1>1. CASE Processes
  BY <1>1, ProcessesDo, ProcessesKeep DEF Dealt
<1>2. CASE PollAlive \/ GraceSample
  BY <1>2, SampleTyped DEF TypeOK, PollAlive, GraceSample, Dealt
<1>3. CASE Kill
  <2>1. tracked' = tracked
    BY <1>3 DEF Kill
  <2> QED BY <1>3, <2>1, KillDoes DEF Dealt
<1>4. CASE CleanupUnassigned
  BY <1>4 DEF CleanupUnassigned, Dealt
<1>5. CASE MovesOn \/ UNCHANGED vars
  BY <1>5, MovesOnKeeps DEF vars, Dealt
<1> QED BY <1>1, <1>2, <1>3, <1>4, <1>5

LEMMA StoppedStays ==
  ASSUME TypeOK, Stopped, Processes \/ MovesOn \/ UNCHANGED vars
  PROVE  Stopped'
<1>1. CASE Processes
  BY <1>1, ProcessesDo DEF Stopped, Running
<1>2. CASE MovesOn \/ UNCHANGED vars
  BY <1>2, MovesOnKeeps DEF vars, Stopped, Running
<1> QED BY <1>1, <1>2

LEMMA DealtStep ==
  ASSUME TypeOK, WorkersStart, TerminationsHaveCause, RanksAreDealtWith, [Next]_vars
  PROVE  RanksAreDealtWith'
<1>e. escaped' = {} => escaped = {}
  BY NextIs, ProcessesKeep
     DEF StartRun, PollAlive, PollExited, GraceSample, Kill, CleanupUnassigned, vars, MovesOn,
         StartRunRaises, AnnounceStarting, Refresh, Health, Abort, StopNext, Sleep,
         DeadlinePasses, FinallyRun, PublishOff, ClosePublisher, Interrupt, Faulty,
         PublishRaises
<1> SUFFICES ASSUME escaped' = {}
             PROVE  /\ \A r \in Ranks : code'[r] # "none" =>
                         Dealt(r)' \/ (Terminating("pass")' /\ r = pos')
                    /\ pc' = "finally" \/ Terminating("finally")' =>
                         \A r \in Ranks : r < pos' => Dealt(r)'
                    /\ pc' = "cleanup" => \A r \in Ranks : Dealt(r)'
                    /\ pc' \in {"off", "close", "done"} => Stopped'
  BY DEF RanksAreDealtWith
<1>0. /\ \A r \in Ranks : code[r] # "none" => Dealt(r) \/ (Terminating("pass") /\ r = pos)
      /\ pc = "finally" \/ Terminating("finally") => \A r \in Ranks : r < pos => Dealt(r)
      /\ pc = "cleanup" => \A r \in Ranks : Dealt(r)
      /\ pc \in {"off", "close", "done"} => Stopped
  BY <1>e DEF RanksAreDealtWith
<1>1. CASE Processes \/ UNCHANGED vars
  <2>1. UNCHANGED <<code, pc, back, pos>>
    BY <1>1, ProcessesKeep DEF vars
  <2>2. /\ \A r \in Ranks : Dealt(r) => Dealt(r)'
        /\ Stopped => Stopped'
    BY <1>1, DealtStays, StoppedStays
  <2> QED BY <1>0, <2>1, <2>2 DEF Terminating
<1>2. CASE StartRun
  <2>1. /\ \A r \in Ranks : code'[r] = "none"
        /\ pc' \in {"start", "announce"}
    BY <1>2 DEF WorkersStart, StartRun, Goto
  <2> QED BY <2>1 DEF Terminating
<1>3. CASE PollAlive \/ GraceSample
  <2>1. \A r \in Ranks : Dealt(r) => Dealt(r)'
    BY <1>3, DealtStays
  <2>2. CASE PollAlive
    <3>1. code' = code /\ pc = "pass" /\ pc' \in {"pass", "refresh"}
      BY <2>2 DEF PollAlive, NextInPass, Goto
    <3> QED BY <1>0, <2>1, <3>1 DEF Terminating
  <2>3. CASE GraceSample
    <3>1. UNCHANGED <<code, pc, back, pos>> /\ pc = "grace"
      BY <2>3 DEF GraceSample
    <3> QED BY <1>0, <2>1, <3>1 DEF Terminating
  <2> QED BY <1>3, <2>2, <2>3
<1>4. CASE PollExited
  <2>1. /\ pc = "pass" /\ pos' = pos /\ Terminating("pass")' /\ pc' = "grace" /\ back' = "pass"
        /\ worker' = worker /\ daemon' = daemon
    BY <1>4 DEF PollExited, Terminating
  <2>2. \A r \in Ranks : r # pos => code'[r] = code[r] /\ tracked'[r] = tracked[r]
    BY <1>4 DEF TypeOK, PollExited
  <2>3. \A r \in Ranks : r # pos /\ code'[r] # "none" => Dealt(r)'
    BY <1>0, <2>1, <2>2 DEF Dealt, Terminating
  <2> QED BY <2>1, <2>3 DEF Terminating
<1>5. CASE Kill
  <2>1. \A r \in Ranks : Dealt(r) => Dealt(r)'
    BY <1>5, DealtStays
  <2>2. \A r \in Ranks : r = pos => Dealt(r)'
    BY <1>5, KillDoes DEF Kill, Dealt
  <2>3. \A r \in Ranks : code'[r] # "none" => Dealt(r)'
    <3> SUFFICES ASSUME NEW r \in Ranks, r # pos, code'[r] # "none" PROVE Dealt(r)'
      BY <2>2
    <3>1. code[r] # "none"
      BY <1>5, KillDoes
    <3> QED BY <1>0, <2>1, <3>1
  <2>4. pc' = "finally" => Terminating("finally") /\ pos' = pos
    BY <1>5, KillGoesTo DEF Terminating
  <2>5. pc' \in {"pass", "refresh", "stop", "finally"}
    BY <1>5, KillGoesTo
  <2> QED BY <1>0, <2>1, <2>3, <2>4, <2>5 DEF Terminating
<1>6. CASE CleanupUnassigned
  <2>1. pc = "cleanup" /\ pc' = "off" /\ UNCHANGED <<worker, tracked>>
    BY <1>6 DEF CleanupUnassigned, Goto
  <2>2. \A r \in Ranks : Dealt(r)
    BY <1>0, <2>1
  <2>3. \A r \in Ranks : Dealt(r)'
    BY <1>6, <2>2, DealtStays
  <2>4. Stopped'
    BY <1>6, <2>1, <2>2 DEF CleanupUnassigned, Unassigned, Stopped, Running, Dealt
  <2> QED BY <2>1, <2>3, <2>4 DEF Terminating
<1>7. CASE MovesOn
  <2>1. /\ \A r \in Ranks : Dealt(r) => Dealt(r)'
        /\ Stopped => Stopped'
        /\ code' = code
    BY <1>7, DealtStays, StoppedStays, MovesOnKeeps
  <2>2. ~Terminating("pass")
    BY <1>7 DEF MovesOn, StartRunRaises, AnnounceStarting, Refresh, Health, Abort, StopNext,
                Sleep, DeadlinePasses, FinallyRun, PublishOff, ClosePublisher, Interrupt,
                Terminating
  <2>3. \A r \in Ranks : code'[r] # "none" => Dealt(r)'
    BY <1>0, <2>1, <2>2
  <2>4. CASE FinallyRun
    <3>1. pc = "finally" /\ pos \in Ranks
      BY <2>4 DEF FinallyRun, TypeOK
    <3>2. code[pos] # "none" \/ worker[pos] = "none" => Dealt(pos)
      BY <1>0, <2>2, <3>1 DEF WorkersStart, Dealt
    <3>3. CASE pc' = "grace"
      <4>1. pos' = pos
        BY <2>4, <3>3 DEF FinallyRun, Goto
      <4> QED BY <1>0, <2>1, <2>3, <3>1, <3>3, <4>1
    <3>4. CASE pc' = "finally" /\ pos' = pos + 1 /\ Dealt(pos)
      <4>1. \A r \in Ranks : r < pos + 1 => r < pos \/ r = pos
        BY <3>1 DEF Ranks
      <4> QED BY <1>0, <2>1, <2>3, <3>1, <3>4, <4>1
    <3>5. CASE pc' = "cleanup" /\ ~(pos < World) /\ Dealt(pos)
      <4>1. \A r \in Ranks : r < pos \/ r = pos
        BY <3>1, <3>5, SupervisorAssumption DEF Ranks
      <4> QED BY <1>0, <2>1, <2>3, <3>1, <3>5, <4>1 DEF Terminating
    <3> QED BY <2>4, <3>2, <3>3, <3>4, <3>5 DEF FinallyRun, Goto
  <2>5. CASE PublishOff \/ ClosePublisher
    <3>1. pc \in {"off", "close"} /\ pc' \in {"close", "done"}
      BY <2>5 DEF PublishOff, ClosePublisher, Goto
    <3> QED BY <1>0, <2>1, <2>3, <3>1 DEF Terminating
  <2>6. CASE MovesOn /\ ~FinallyRun /\ ~PublishOff /\ ~ClosePublisher
    <3>1. /\ pc' = "finally" => pos' = 1
          /\ ~Terminating("finally")'
          /\ pc' \notin {"cleanup", "off", "close", "done"}
      BY <2>6 DEF MovesOn, StartRunRaises, AnnounceStarting, Refresh, Health, Abort, StopNext,
                  Sleep, DeadlinePasses, Interrupt, Goto, Terminating, InFinally
    <3>2. \A r \in Ranks : ~(r < 1)
      BY DEF Ranks
    <3> QED BY <2>3, <3>1, <3>2
  <2> QED BY <1>7, <2>4, <2>5, <2>6
<1> QED BY <1>1, <1>2, <1>3, <1>4, <1>5, <1>6, <1>7, NextIs

-----------------------------------------------------------------------------
LEMMA SupervisorInit == Init => SupervisorInv
<1> SUFFICES ASSUME Init PROVE SupervisorInv
  OBVIOUS
<1>1. TypeOK
  <2>1. unhealthy \in [Ranks -> 0 .. Debounce]
    BY SupervisorAssumption DEF Init
  <2>2. faults \in 0 .. FaultBudget /\ interrupts \in 0 .. Interrupts
    BY SupervisorAssumption DEF Init
  <2> QED BY <2>1, <2>2, FirstRank DEF Init, TypeOK, Places
<1>2. WorkersStart /\ IdentitiesStand
  BY DEF Init, WorkersStart, IdentitiesStand, Looping, Terminating, Ranks
<1>3. TerminationsHaveCause /\ CodesAreActedOn /\ EndsByItself
  BY DEF Init, TerminationsHaveCause, CodesAreActedOn, EndsByItself, Looping, Ending,
         Terminating
<1>4. RanksAreDealtWith
  BY DEF Init, RanksAreDealtWith, Terminating
<1> QED BY <1>1, <1>2, <1>3, <1>4 DEF SupervisorInv

LEMMA SupervisorNext == SupervisorInv /\ [Next]_vars => SupervisorInv'
BY TypeStep, StartStep, IdentityStep, CauseStep, ActedStep, EndStep, DealtStep
   DEF SupervisorInv

LEMMA SupervisorInvariant == Spec => []SupervisorInv
BY SupervisorInit, SupervisorNext, PTL DEF Spec

(***************************************************************************)
(* The supervisor's variables and what it keeps of each run stay in their  *)
(* domains.                                                                *)
(***************************************************************************)
THEOREM SupervisorTypes == Spec => []TypeOK
<1>1. SupervisorInv => TypeOK
  BY DEF SupervisorInv
<1> QED BY <1>1, SupervisorInvariant, PTL

(***************************************************************************)
(* The finally block and _cleanup_unassigned_children together leave no    *)
(* worker and no daemon running, tracked or adopted, however many ranks    *)
(* there are and however the loop was left.                                *)
(***************************************************************************)
THEOREM NothingIsLeftRunning == Spec => []NothingLeftRunning
<1>1. SupervisorInv => NothingLeftRunning
  BY DEF SupervisorInv, RanksAreDealtWith, NothingLeftRunning
<1> QED BY <1>1, SupervisorInvariant, PTL

(***************************************************************************)
(* A topology group whose phase ends by itself passes or fails as one.     *)
(***************************************************************************)
THEOREM GroupsPassTogether == Spec => []GroupPassesTogether
<1>1. SupervisorInv => GroupPassesTogether
  BY DEF SupervisorInv, TypeOK, EndsByItself, GroupPassesTogether, Passed, Ending
<1> QED BY <1>1, SupervisorInvariant, PTL

(***************************************************************************)
(* A READY registry rests on the identities every rank's daemon announced, *)
(* and is not offered across a sleep after a failure the poll has seen.    *)
(***************************************************************************)
THEOREM ReadyRegistryIsTrusted == Spec => []ReadyIsTrusted
<1>1. SupervisorInv => ReadyIsTrusted
  BY DEF SupervisorInv, IdentitiesStand, CodesAreActedOn, ReadyIsTrusted, Group, Looping,
         Terminating
<1> QED BY <1>1, SupervisorInvariant, PTL

(***************************************************************************)
(* _terminate_run of an independent run that ends by itself finds its      *)
(* worker gone: no run is stopped for another's failure.                   *)
(***************************************************************************)
THEOREM FailuresStayAlone == Spec => []FailureStaysAlone
<1>1. SupervisorInv => FailureStaysAlone
  <2> SUFFICES ASSUME SupervisorInv, ~Group, timedOut = {}, faults = 0, interrupts = 0,
                      pc = "grace"
               PROVE  worker[pos] # "run"
    BY DEF FailureStaysAlone
  <2>1. back \in {"pass", "abort", "finally"} /\ pos \in Ranks
    BY DEF SupervisorInv, TypeOK
  <2>2. ~aborted /\ ~Terminating("abort")
    BY DEF SupervisorInv, TerminationsHaveCause
  <2>3. ~Terminating("finally")
    BY <2>1, <2>2 DEF SupervisorInv, TerminationsHaveCause, EndsByItself, Ending
  <2> QED BY <2>1, <2>2, <2>3 DEF SupervisorInv, TerminationsHaveCause, Terminating
<1> QED BY <1>1, SupervisorInvariant, PTL
=============================================================================
