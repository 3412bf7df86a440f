-------------------------- MODULE AllReduceEngine --------------------------
(***************************************************************************)
(* The live all-reduce of gemsim_ccl: World processes, each with one       *)
(* AllReduceEngine, exchange DATA and CONSUMED records over nonblocking    *)
(* sequenced-packet sockets, one per pair of ranks, under a broker that    *)
(* latches the group's first error and relays it to the ranks.             *)
(*                                                                         *)
(* The descriptor sequences 1 .. LastSequence are the segments of the      *)
(* calls all ranks make in the same order; CallEnds are the sequences that *)
(* are the last of a call.  A chunk's value is the sequence of ranks whose *)
(* contributions were added, in the order of addition.                     *)
(***************************************************************************)
EXTENDS RingPlan, FiniteSets

CONSTANTS World,        \* number of ranks
          LastSequence, \* descriptor sequences used by the calls
          CallEnds,     \* sequences that end a call
          Credits,      \* credits_per_peer of a carrier session
          SocketDepth,  \* records one direction of a socket can hold
          FaultKinds,   \* which faults may happen
          FaultBudget   \* bound on the faults of a behaviour

AllFaults == {"reject", "local", "timeout", "abort", "destroy", "crash",
              "close timeout", "broker deadline"}

ASSUME EngineAssumption ==
  /\ World \in Nat \ {0, 1}
  /\ LastSequence \in Nat \ {0}
  /\ CallEnds \subseteq 1 .. LastSequence
  /\ LastSequence \in CallEnds
  /\ Credits \in Nat \ {0}
  /\ SocketDepth \in Nat \ {0}
  /\ FaultKinds \subseteq AllFaults
  /\ FaultBudget \in Nat

Ranks == RanksOf(World)
NoRank == World
Succ(r) == NextRank(World, r)
Pred(r) == PrevRank(World, r)
Steps == StepCount(World)

EngineStates == {"ready", "active", "closing", "aborted", "closed", "crashed"}
Stages == {"idle", "prepare", "send", "receive", "apply", "ack", "await", "finish"}
Waits == {"send", "receive", "ack", "await"}

Values == Seq(Ranks)
Record == [kind : {"DATA", "CONSUMED", "ABORT"}, seq : 1 .. LastSequence + 1,
           step : 0 .. Steps, payload : Values, failed : 0 .. NoRank]
LiveAbort == [reporter : 0 .. NoRank, failed : Ranks]

VARIABLES
  \* the engine of each rank
  st,         \* EngineState, or crashed: its process is gone
  pc,         \* where _execute_segment is; kept when the segment fails
  busy,       \* an attempt of the current _wait_busy returned BUSY
  seq,        \* sequence of the active segment, or of the next one
  step,       \* _active_step_ordinal
  work,       \* workspace: value of each chunk
  staged,     \* staging: value of the received chunk
  completed,  \* results of the finished segments of the active call
  public,     \* results returned to the caller
  held,       \* the engine owns its carrier and live rank, sockets are open
  relayTo,    \* peers _send_abort_record has still to serve
  blame,      \* failed_rank in the carrier's ABORT record
  accuse,     \* failed_rank of the report to the broker
  \* its carrier session
  inflight,   \* sender_inflight: credits in use towards the successor
  slots,      \* receiver_ready + receiver_consumed: payloads it holds
  \* peer sockets and control channels
  sock,       \* sock[a][b]: records sent by a and not yet read by b
  report,     \* reports a rank put on its control channel (at most one)
  departed,   \* ranks that announced a graceful close
  \* the broker
  firstError, \* the latched first error (a set of at most one LiveAbort)
  told,       \* ranks the first error was relayed to
  faults      \* faults so far

segmentVars == <<pc, busy, seq, step>>
valueVars == <<work, staged, completed>>
carrierVars == <<inflight, slots>>
abortVars == <<relayTo, blame, accuse>>
brokerVars == <<firstError, told>>
controlVars == <<report, departed>>
vars == <<st, held, segmentVars, valueVars, public, carrierVars, abortVars,
          sock, controlVars, brokerVars, faults>>

NoWork == [c \in Ranks |-> <<>>]
Input(r) == [c \in Ranks |-> <<r>>]

Init ==
  /\ st = [r \in Ranks |-> "ready"]
  /\ pc = [r \in Ranks |-> "idle"]
  /\ busy = [r \in Ranks |-> FALSE]
  /\ seq = [r \in Ranks |-> 1]
  /\ step = [r \in Ranks |-> 0]
  /\ work = [r \in Ranks |-> NoWork]
  /\ staged = [r \in Ranks |-> <<>>]
  /\ completed = [r \in Ranks |-> <<>>]
  /\ public = [r \in Ranks |-> <<>>]
  /\ held = [r \in Ranks |-> TRUE]
  /\ relayTo = [r \in Ranks |-> {}]
  /\ blame = [r \in Ranks |-> NoRank]
  /\ accuse = [r \in Ranks |-> NoRank]
  /\ inflight = [r \in Ranks |-> 0]
  /\ slots = [r \in Ranks |-> 0]
  /\ sock = [a \in Ranks |-> [b \in Ranks |-> <<>>]]
  /\ report = [r \in Ranks |-> {}]
  /\ departed = {}
  /\ firstError = {}
  /\ told = {}
  /\ faults = 0

-----------------------------------------------------------------------------
(***************************************************************************)
(* Sockets.  A record is queued whole or not at all; a send to a peer that *)
(* closed its end fails, records queued before the close can still be      *)
(* read.                                                                   *)
(***************************************************************************)
Data(r) == [kind |-> "DATA", seq |-> seq[r], step |-> step[r],
            payload |-> work[r][SendChunk(World, r, step[r])], failed |-> NoRank]
Consumed(r) == [kind |-> "CONSUMED", seq |-> seq[r], step |-> step[r],
                payload |-> <<>>, failed |-> NoRank]
AbortRecord(r) == [kind |-> "ABORT", seq |-> seq[r], step |-> 0,
                   payload |-> <<>>, failed |-> blame[r]]

Room(a, b) == held[b] /\ Len(sock[a][b]) < SocketDepth
Queued(a, b, m) == [sock EXCEPT ![a][b] = Append(@, m)]
Read(a, b) == [sock EXCEPT ![a][b] = Tail(@)]
HeadIs(a, b, kind) == sock[a][b] # <<>> /\ Head(sock[a][b]).kind = kind

(***************************************************************************)
(* The peer and direction a wait is about.                                 *)
(***************************************************************************)
WaitPeer(r) == IF pc[r] \in {"send", "await"} THEN Succ(r) ELSE Pred(r)
Sending(r) == pc[r] \in {"send", "ack"}
Blocked(r) ==
  /\ held[WaitPeer(r)]
  /\ IF Sending(r) THEN ~Room(r, WaitPeer(r)) ELSE sock[WaitPeer(r)][r] = <<>>

Active(r) == st[r] = "active"
At(r, stage) == Active(r) /\ pc[r] = stage
Fault(kind) ==
  /\ kind \in FaultKinds
  /\ faults < FaultBudget
  /\ faults' = faults + 1

(***************************************************************************)
(* Progress of _execute_segment to the next stage.                         *)
(***************************************************************************)
Goto(r, stage) ==
  /\ pc' = [pc EXCEPT ![r] = stage]
  /\ busy' = [busy EXCEPT ![r] = FALSE]

(***************************************************************************)
(* _fail_collective up to the relay: the engine is poisoned, the private   *)
(* values are lost, the carrier reclaims its resources and keeps the       *)
(* ABORT record, if a descriptor was active, that goes to the peers.       *)
(***************************************************************************)
Fail(r, peers, blamed, accused) ==
  /\ st' = [st EXCEPT ![r] = "aborted"]
  /\ busy' = [busy EXCEPT ![r] = FALSE]
  /\ work' = [work EXCEPT ![r] = NoWork]
  /\ staged' = [staged EXCEPT ![r] = <<>>]
  /\ completed' = [completed EXCEPT ![r] = <<>>]
  /\ inflight' = [inflight EXCEPT ![r] = 0]
  /\ slots' = [slots EXCEPT ![r] = 0]
  /\ relayTo' = [relayTo EXCEPT ![r] = peers]
  /\ blame' = [blame EXCEPT ![r] = blamed]
  /\ accuse' = [accuse EXCEPT ![r] = accused]
  /\ UNCHANGED <<pc, seq, step, public, held, controlVars, brokerVars>>
FailSegment(r, blamed, accused) == Fail(r, Ranks \ {r}, blamed, accused)

-----------------------------------------------------------------------------
(***************************************************************************)
(* all_reduce: the first segment of the next call starts.                  *)
(***************************************************************************)
StartUnlessActive(r) ==
  /\ ~Active(r)
  /\ seq[r] <= LastSequence
  /\ st' = [st EXCEPT ![r] = "active"]
  /\ Goto(r, "prepare")
  /\ work' = [work EXCEPT ![r] = Input(r)]
  /\ UNCHANGED <<held, seq, step, staged, completed, public, carrierVars,
                 abortVars, sock, controlVars, brokerVars, faults>>
StartAllReduce(r) ==
  /\ st[r] = "ready"
  /\ seq[r] <= LastSequence
  /\ st' = [st EXCEPT ![r] = "active"]
  /\ Goto(r, "prepare")
  /\ work' = [work EXCEPT ![r] = Input(r)]
  /\ UNCHANGED <<held, seq, step, staged, completed, public, carrierVars,
                 abortVars, sock, controlVars, brokerVars, faults>>

(***************************************************************************)
(* all_reduce refuses the call before a descriptor exists: an invalid      *)
(* tensor or an exhausted sequence.  The engine is poisoned all the same.  *)
(***************************************************************************)
RejectCall(r) ==
  /\ st[r] = "ready"
  /\ Fault("reject")
  /\ Fail(r, {}, NoRank, r)
  /\ UNCHANGED sock

(***************************************************************************)
(* The outbound transfer is prepared under a credit.                       *)
(***************************************************************************)
PrepareData(r) ==
  /\ At(r, "prepare")
  /\ IF inflight[r] < Credits
       THEN /\ inflight' = [inflight EXCEPT ![r] = @ + 1]
            /\ Goto(r, "send")
            /\ UNCHANGED <<st, seq, step, valueVars, public, held, slots,
                           abortVars, controlVars, brokerVars>>
       ELSE FailSegment(r, r, r)
  /\ UNCHANGED <<sock, faults>>

SendData(r) ==
  /\ At(r, "send")
  /\ Room(r, Succ(r))
  /\ sock' = Queued(r, Succ(r), Data(r))
  /\ Goto(r, "receive")
  /\ UNCHANGED <<st, held, seq, step, valueVars, public, carrierVars, abortVars,
                 controlVars, brokerVars, faults>>

(***************************************************************************)
(* The carrier accepts the DATA of the active descriptor and step only and *)
(* fails the session on anything else.                                     *)
(***************************************************************************)
ReceiveData(r) ==
  LET m == Head(sock[Pred(r)][r])
  IN  /\ At(r, "receive")
      /\ sock[Pred(r)][r] # <<>>
      /\ m.kind # "ABORT"
      /\ sock' = Read(Pred(r), r)
      /\ IF m.kind = "DATA" /\ m.seq = seq[r] /\ m.step = step[r]
           THEN /\ staged' = [staged EXCEPT ![r] = m.payload]
                /\ slots' = [slots EXCEPT ![r] = @ + 1]
                /\ Goto(r, "apply")
                /\ UNCHANGED <<st, seq, step, work, completed, public, held,
                               inflight, abortVars, controlVars, brokerVars>>
           ELSE FailSegment(r, r, r)
      /\ UNCHANGED faults

(***************************************************************************)
(* consume, then the device sum (reduce-scatter) or the copy (all-gather). *)
(***************************************************************************)
ApplyInbound(r) ==
  LET c == ReceiveChunk(World, r, step[r])
  IN  /\ At(r, "apply")
      /\ work' = [work EXCEPT ![r][c] =
                    IF InReduceScatter(World, step[r]) THEN staged[r] \o @
                                                       ELSE staged[r]]
      /\ staged' = [staged EXCEPT ![r] = <<>>]
      /\ Goto(r, "ack")
      /\ UNCHANGED <<st, held, seq, step, completed, public, carrierVars,
                     abortVars, sock, controlVars, brokerVars, faults>>

SendConsumedEarly(r) ==
  /\ Active(r) /\ pc[r] \in {"apply", "ack"}
  /\ Room(r, Pred(r))
  /\ sock' = Queued(r, Pred(r), Consumed(r))
  /\ slots' = [slots EXCEPT ![r] = @ - 1]
  /\ pc' = [pc EXCEPT ![r] = IF @ = "ack" THEN "await" ELSE @]
  /\ UNCHANGED <<st, held, busy, seq, step, valueVars, public, inflight,
                 abortVars, controlVars, brokerVars, faults>>
SendConsumed(r) ==
  /\ At(r, "ack")
  /\ Room(r, Pred(r))
  /\ sock' = Queued(r, Pred(r), Consumed(r))
  /\ slots' = [slots EXCEPT ![r] = @ - 1]
  /\ Goto(r, "await")
  /\ UNCHANGED <<st, held, seq, step, valueVars, public, inflight, abortVars,
                 controlVars, brokerVars, faults>>

(***************************************************************************)
(* The matching CONSUMED releases the credit and completes the step.       *)
(***************************************************************************)
CompleteStepLeaksCredit(r) ==
  /\ inflight' = inflight
  /\ step' = [step EXCEPT ![r] = @ + 1]
  /\ Goto(r, IF step[r] + 1 = Steps THEN "finish" ELSE "prepare")
CompleteStepOffByOne(r) ==
  /\ inflight' = [inflight EXCEPT ![r] = @ - 1]
  /\ step' = [step EXCEPT ![r] = @ + 1]
  /\ Goto(r, IF step[r] = Steps THEN "finish" ELSE "prepare")
CompleteStep(r) ==
  /\ inflight' = [inflight EXCEPT ![r] = @ - 1]
  /\ step' = [step EXCEPT ![r] = @ + 1]
  /\ Goto(r, IF step[r] + 1 = Steps THEN "finish" ELSE "prepare")
ReceiveConsumed(r) ==
  LET m == Head(sock[Succ(r)][r])
  IN  /\ At(r, "await")
      /\ sock[Succ(r)][r] # <<>>
      /\ m.kind # "ABORT"
      /\ sock' = Read(Succ(r), r)
      /\ IF m.kind = "CONSUMED" /\ m.seq = seq[r] /\ m.step = step[r]
           THEN /\ CompleteStep(r)
                /\ UNCHANGED <<st, seq, valueVars, public, held, slots,
                               abortVars, controlVars, brokerVars>>
           ELSE FailSegment(r, r, r)
      /\ UNCHANGED faults

CarrierClean(r) == inflight[r] = 0 /\ slots[r] = 0

(***************************************************************************)
(* A segment that does not end the call: its workspace is kept privately   *)
(* and the next segment starts from the input.                             *)
(***************************************************************************)
NextSegment(r) ==
  /\ seq' = [seq EXCEPT ![r] = @ + 1]
  /\ step' = [step EXCEPT ![r] = 0]
  /\ work' = [work EXCEPT ![r] = Input(r)]
  /\ Goto(r, "prepare")
  /\ UNCHANGED <<st, staged, held, carrierVars, abortVars, controlVars, brokerVars>>
FinishSegmentPublishes(r) ==
  /\ At(r, "finish")
  /\ seq[r] \notin CallEnds
  /\ public' = [public EXCEPT ![r] = Append(@, work[r])]
  /\ NextSegment(r)
  /\ UNCHANGED <<completed, sock, faults>>
FinishSegment(r) ==
  /\ At(r, "finish")
  /\ seq[r] \notin CallEnds
  /\ IF CarrierClean(r)
       THEN /\ completed' = [completed EXCEPT ![r] = Append(@, work[r])]
            /\ NextSegment(r)
            /\ UNCHANGED public
       ELSE FailSegment(r, r, r)
  /\ UNCHANGED <<sock, faults>>

(***************************************************************************)
(* The last segment of the call: the results of all its segments are       *)
(* returned at once and the engine is READY again.                         *)
(***************************************************************************)
Commit(r) ==
  /\ At(r, "finish")
  /\ seq[r] \in CallEnds
  /\ IF CarrierClean(r)
       THEN /\ public' = [public EXCEPT ![r] = @ \o Append(completed[r], work[r])]
            /\ completed' = [completed EXCEPT ![r] = <<>>]
            /\ work' = [work EXCEPT ![r] = NoWork]
            /\ seq' = [seq EXCEPT ![r] = @ + 1]
            /\ step' = [step EXCEPT ![r] = 0]
            /\ st' = [st EXCEPT ![r] = "ready"]
            /\ Goto(r, "idle")
            /\ UNCHANGED <<staged, held, carrierVars, abortVars, controlVars,
                           brokerVars>>
       ELSE FailSegment(r, r, r)
  /\ UNCHANGED <<sock, faults>>

-----------------------------------------------------------------------------
(***************************************************************************)
(* How a segment fails.                                                    *)
(***************************************************************************)

(***************************************************************************)
(* The device, the observer or a carrier call raises.  Before the call has *)
(* built its first descriptor there is nothing to abort towards the peers. *)
(***************************************************************************)
FailLocally(r) ==
  /\ Active(r)
  /\ Fault("local")
  /\ \/ FailSegment(r, r, r)
     \/ /\ pc[r] = "prepare" /\ step[r] = 0 /\ completed[r] = <<>>
        /\ Fail(r, {}, NoRank, r)
  /\ UNCHANGED sock

(***************************************************************************)
(* An attempt returns BUSY; only then are the abort and the clock looked   *)
(* at, so the attempt may have become possible again in between.           *)
(***************************************************************************)
FindBusy(r) ==
  /\ Active(r)
  /\ pc[r] \in Waits
  /\ ~busy[r]
  /\ Blocked(r)
  /\ busy' = [busy EXCEPT ![r] = TRUE]
  /\ UNCHANGED <<st, held, pc, seq, step, valueVars, public, carrierVars,
                 abortVars, sock, controlVars, brokerVars, faults>>

PollAbort(r) ==
  /\ Active(r)
  /\ pc[r] \in Waits
  /\ busy[r]
  /\ r \in told
  /\ \E e \in firstError : FailSegment(r, e.failed, e.failed)
  /\ UNCHANGED <<sock, faults>>

TimeOut(r) ==
  /\ Active(r)
  /\ pc[r] \in Waits
  /\ busy[r]
  /\ Fault("timeout")
  /\ FailSegment(r, r, r)
  /\ UNCHANGED sock

(***************************************************************************)
(* An ABORT record is read where DATA or CONSUMED was expected.  The       *)
(* record is relayed as it is, but the error the carrier raises carries no *)
(* failed_rank, so the report to the broker accuses the reader itself.     *)
(***************************************************************************)
ObservePeerAbort(r) ==
  /\ Active(r)
  /\ pc[r] \in {"receive", "await"}
  /\ HeadIs(WaitPeer(r), r, "ABORT")
  /\ sock' = Read(WaitPeer(r), r)
  /\ FailSegment(r, Head(sock[WaitPeer(r)][r]).failed, r)
  /\ UNCHANGED faults

(***************************************************************************)
(* The peer closed its end: a send fails, and so does a read once nothing  *)
(* is queued, or earlier when the peer left records of this rank unread    *)
(* (the connection is reset).  The carrier blames one of the two ranks.    *)
(***************************************************************************)
PeerLossRetriedAtOnce(r) ==
  /\ Active(r)
  /\ pc[r] \in Waits
  /\ ~held[WaitPeer(r)]
  /\ UNCHANGED vars
ObservePeerLoss(r) ==
  /\ Active(r)
  /\ pc[r] \in Waits
  /\ ~held[WaitPeer(r)]
  /\ \/ Sending(r)
     \/ sock[WaitPeer(r)][r] = <<>>
     \/ sock[r][WaitPeer(r)] # <<>>
  /\ \E blamed \in {r, WaitPeer(r)} : FailSegment(r, blamed, r)
  /\ UNCHANGED <<sock, faults>>

-----------------------------------------------------------------------------
(***************************************************************************)
(* The rest of _fail_collective: the ABORT record goes to the peers in     *)
(* rank order, then the broker is told, then everything is released.       *)
(***************************************************************************)
Unwinding(r) == st[r] = "aborted" /\ held[r]

(***************************************************************************)
(* A closed peer is skipped; a full socket is retried until the close      *)
(* deadline and then given up.                                             *)
(***************************************************************************)
RelayAbort(r) ==
  /\ Unwinding(r)
  /\ \E peer \in relayTo[r] :
       /\ \A other \in relayTo[r] : peer <= other
       /\ relayTo' = [relayTo EXCEPT ![r] = @ \ {peer}]
       /\ sock' = IF Room(r, peer) THEN Queued(r, peer, AbortRecord(r)) ELSE sock
  /\ UNCHANGED <<st, held, segmentVars, valueVars, public, carrierVars, blame,
                 accuse, controlVars, brokerVars, faults>>

ReleaseAsDeparture(r) ==
  /\ Unwinding(r)
  /\ relayTo[r] = {}
  /\ departed' = departed \cup {r}
  /\ held' = [held EXCEPT ![r] = FALSE]
  /\ blame' = [blame EXCEPT ![r] = NoRank]
  /\ UNCHANGED <<st, segmentVars, valueVars, public, carrierVars, relayTo,
                 accuse, sock, report, brokerVars, faults>>
ReportAndRelease(r) ==
  /\ Unwinding(r)
  /\ relayTo[r] = {}
  /\ report' = [report EXCEPT ![r] = {[reporter |-> r, failed |-> accuse[r]]}]
  /\ held' = [held EXCEPT ![r] = FALSE]
  /\ blame' = [blame EXCEPT ![r] = NoRank]
  /\ UNCHANGED <<st, segmentVars, valueVars, public, carrierVars, relayTo,
                 accuse, sock, departed, brokerVars, faults>>

(***************************************************************************)
(* abort: the caller gives up a READY engine; the peers hear of it from    *)
(* the broker only.                                                        *)
(***************************************************************************)
Abort(r) ==
  /\ st[r] = "ready"
  /\ Fault("abort")
  /\ \E target \in Ranks : Fail(r, {}, NoRank, target)
  /\ UNCHANGED sock

(***************************************************************************)
(* close of a READY engine whose calls are done.  Whether the native close *)
(* waits for the other ranks is not visible: here it may return at once.   *)
(***************************************************************************)
Close(r) ==
  /\ st[r] = "ready"
  /\ seq[r] > LastSequence
  /\ st' = [st EXCEPT ![r] = "closing"]
  /\ departed' = departed \cup {r}
  /\ UNCHANGED <<held, segmentVars, valueVars, public, carrierVars, abortVars,
                 sock, report, brokerVars, faults>>

FinishClose(r) ==
  /\ st[r] = "closing"
  /\ st' = [st EXCEPT ![r] = "closed"]
  /\ held' = [held EXCEPT ![r] = FALSE]
  /\ UNCHANGED <<segmentVars, valueVars, public, carrierVars, abortVars, sock,
                 controlVars, brokerVars, faults>>

(***************************************************************************)
(* The native close fails on a group abort or at its deadline.  It has     *)
(* destroyed the live rank by then, so nothing is reported.                *)
(***************************************************************************)
CloseFails(r) ==
  /\ st[r] = "closing"
  /\ \/ r \in told /\ UNCHANGED faults
     \/ Fault("close timeout")
  /\ st' = [st EXCEPT ![r] = "aborted"]
  /\ held' = [held EXCEPT ![r] = FALSE]
  /\ UNCHANGED <<segmentVars, valueVars, public, carrierVars, abortVars, sock,
                 controlVars, brokerVars>>

CloseAborted(r) ==
  /\ st[r] = "aborted"
  /\ ~held[r]
  /\ st' = [st EXCEPT ![r] = "closed"]
  /\ UNCHANGED <<held, segmentVars, valueVars, public, carrierVars, abortVars,
                 sock, controlVars, brokerVars, faults>>

(***************************************************************************)
(* destroy of a READY engine: released without a word to anyone.           *)
(***************************************************************************)
Destroy(r) ==
  /\ st[r] = "ready"
  /\ Fault("destroy")
  /\ st' = [st EXCEPT ![r] = "closed"]
  /\ held' = [held EXCEPT ![r] = FALSE]
  /\ UNCHANGED <<segmentVars, valueVars, public, carrierVars, abortVars, sock,
                 controlVars, brokerVars>>

(***************************************************************************)
(* The process dies, also in the middle of its relay.                      *)
(***************************************************************************)
Crash(r) ==
  /\ held[r]
  /\ Fault("crash")
  /\ st' = [st EXCEPT ![r] = "crashed"]
  /\ held' = [held EXCEPT ![r] = FALSE]
  /\ busy' = [busy EXCEPT ![r] = FALSE]
  /\ work' = [work EXCEPT ![r] = NoWork]
  /\ staged' = [staged EXCEPT ![r] = <<>>]
  /\ completed' = [completed EXCEPT ![r] = <<>>]
  /\ inflight' = [inflight EXCEPT ![r] = 0]
  /\ slots' = [slots EXCEPT ![r] = 0]
  /\ relayTo' = [relayTo EXCEPT ![r] = {}]
  /\ blame' = [blame EXCEPT ![r] = NoRank]
  /\ UNCHANGED <<pc, seq, step, public, accuse, sock, controlVars, brokerVars>>

-----------------------------------------------------------------------------
(***************************************************************************)
(* The broker: the first report, loss or deadline it processes is latched  *)
(* and relayed; whatever comes later is dropped.                           *)
(***************************************************************************)
BrokerLatch(r) ==
  /\ firstError = {}
  /\ report[r] # {}
  /\ firstError' = report[r]
  /\ UNCHANGED <<st, held, segmentVars, valueVars, public, carrierVars,
                 abortVars, sock, controlVars, told, faults>>

(***************************************************************************)
(* A control channel ended without report or departure.                    *)
(***************************************************************************)
BrokerObserveLoss(r) ==
  /\ firstError = {}
  /\ ~held[r]
  /\ report[r] = {}
  /\ r \notin departed
  /\ firstError' = {[reporter |-> NoRank, failed |-> r]}
  /\ UNCHANGED <<st, held, segmentVars, valueVars, public, carrierVars,
                 abortVars, sock, controlVars, told, faults>>

BrokerDeadline ==
  /\ firstError = {}
  /\ \E r \in Ranks : held[r]
  /\ Fault("broker deadline")
  /\ firstError' = {[reporter |-> NoRank, failed |-> 0]}
  /\ UNCHANGED <<st, held, segmentVars, valueVars, public, carrierVars,
                 abortVars, sock, controlVars, told>>

BrokerRelay(r) ==
  /\ firstError # {}
  /\ held[r]
  /\ r \notin told
  /\ told' = told \cup {r}
  /\ UNCHANGED <<st, held, segmentVars, valueVars, public, carrierVars,
                 abortVars, sock, controlVars, firstError, faults>>

-----------------------------------------------------------------------------
Stopped(r) == st[r] \in {"closed", "crashed"}
Done ==
  /\ \A r \in Ranks : Stopped(r)
  /\ UNCHANGED vars

Transfer(r) ==
  \/ StartAllReduce(r) \/ PrepareData(r) \/ SendData(r) \/ ReceiveData(r)
  \/ ApplyInbound(r) \/ SendConsumed(r) \/ ReceiveConsumed(r)
  \/ FinishSegment(r) \/ Commit(r)
Unwind(r) ==
  \/ FindBusy(r) \/ PollAbort(r) \/ ObservePeerAbort(r) \/ ObservePeerLoss(r)
  \/ RelayAbort(r) \/ ReportAndRelease(r)
Leave(r) == Close(r) \/ FinishClose(r) \/ CloseFails(r) \/ CloseAborted(r)
Misfortune(r) ==
  \/ RejectCall(r) \/ FailLocally(r) \/ TimeOut(r) \/ Abort(r) \/ Destroy(r)
  \/ Crash(r)
Broker ==
  \/ BrokerDeadline
  \/ \E r \in Ranks : BrokerLatch(r) \/ BrokerObserveLoss(r) \/ BrokerRelay(r)

Next ==
  \/ \E r \in Ranks : Transfer(r) \/ Unwind(r) \/ Leave(r) \/ Misfortune(r)
  \/ Broker
  \/ Done

Spec == Init /\ [][Next]_vars

(***************************************************************************)
(* Every engine keeps running while it can, and so does the broker's loop; *)
(* no fault is ever owed.  ReportAndRelease and the others of a rank are   *)
(* one process, so one condition per rank is enough.                       *)
(***************************************************************************)
Fairness ==
  /\ \A r \in Ranks : WF_vars(Transfer(r) \/ Unwind(r) \/ Leave(r))
  /\ \A r \in Ranks : WF_vars(BrokerLatch(r) \/ BrokerObserveLoss(r))
  /\ \A r \in Ranks : WF_vars(BrokerRelay(r))
FairSpec == Spec /\ Fairness

-----------------------------------------------------------------------------
(***************************************************************************)
(* Type invariant of the engines, their carriers, sockets and the broker.  *)
(***************************************************************************)
EngineTypeOK ==
  /\ st \in [Ranks -> EngineStates]
  /\ pc \in [Ranks -> Stages]
  /\ busy \in [Ranks -> BOOLEAN]
  /\ seq \in [Ranks -> 1 .. LastSequence + 1]
  /\ step \in [Ranks -> 0 .. Steps]
  /\ work \in [Ranks -> [Ranks -> Values]]
  /\ staged \in [Ranks -> Values]
  /\ completed \in [Ranks -> Seq([Ranks -> Values])]
  /\ public \in [Ranks -> Seq([Ranks -> Values])]
  /\ held \in [Ranks -> BOOLEAN]
  /\ relayTo \in [Ranks -> SUBSET Ranks]
  /\ blame \in [Ranks -> 0 .. NoRank]
  /\ accuse \in [Ranks -> 0 .. NoRank]
  /\ inflight \in [Ranks -> Int]
  /\ slots \in [Ranks -> Int]
  /\ sock \in [Ranks -> [Ranks -> Seq(Record)]]
  /\ report \in [Ranks -> SUBSET LiveAbort]
  /\ departed \subseteq Ranks
  /\ firstError \subseteq LiveAbort
  /\ told \subseteq Ranks
  /\ faults \in 0 .. FaultBudget

(***************************************************************************)
(* The parts of an engine agree: a sequence and a step of the plan while a *)
(* segment runs or was interrupted, all steps done at its end, none begun  *)
(* between calls, and a failed rank to report while a failure unwinds.     *)
(***************************************************************************)
Consistent(r) ==
  /\ pc[r] = "idle" => step[r] = 0
  /\ pc[r] = "finish" => step[r] = Steps
  /\ pc[r] \notin {"idle", "finish"} => step[r] < Steps
  /\ pc[r] # "idle" => seq[r] <= LastSequence
  /\ st[r] = "active" => pc[r] # "idle"
  /\ st[r] \in {"ready", "closing"} => pc[r] = "idle"
  /\ Unwinding(r) => accuse[r] \in Ranks
EngineConsistent == \A r \in Ranks : Consistent(r)

(***************************************************************************)
(* Order of the steps of all segments.                                     *)
(***************************************************************************)
Before(s1, k1, s2, k2) == s1 < s2 \/ (s1 = s2 /\ k1 < k2)

(***************************************************************************)
(* A result is, in every chunk, the sum of one contribution of each rank,  *)
(* added in the ring order of the chunk, and so the same bits everywhere.  *)
(***************************************************************************)
RingSum == [c \in Ranks |-> [i \in 1 .. World |-> (c + i) % World]]

(***************************************************************************)
(* Rank q has put the chunk it receives at step k of sequence s into its   *)
(* workspace and acknowledged it: it is past the step, or waits in it for  *)
(* the acknowledgement of its own DATA (and may have failed there).        *)
(***************************************************************************)
Absorbed(q, s, k) ==
  \/ Before(s, k, seq[q], step[q])
  \/ s = seq[q] /\ k = step[q] /\ pc[q] = "await"

(***************************************************************************)
(* A CONSUMED record on its way to a rank is true: its sender absorbed the *)
(* chunk ("never acknowledge pending DATA"), also when the device call     *)
(* failed or the sender is gone.                                           *)
(***************************************************************************)
AckMeansAbsorbed ==
  \A r \in Ranks : \A i \in DOMAIN sock[r][Pred(r)] :
    LET m == sock[r][Pred(r)][i]
    IN  m.kind = "CONSUMED" => Absorbed(r, m.seq, m.step)

(***************************************************************************)
(* A rank never runs ahead of its successor: whatever it has sent before   *)
(* its current step, in this segment or an earlier one, the successor has  *)
(* absorbed, whatever fails ("step_complete: outbound and inbound must     *)
(* both be complete").                                                     *)
(***************************************************************************)
SuccessorKeepsUp ==
  \A r \in Ranks : \A s \in 1 .. LastSequence : \A k \in 0 .. Steps - 1 :
    Before(s, k, seq[r], step[r]) => Absorbed(Succ(r), s, k)

(***************************************************************************)
(* A rank that fails in the reduce-scatter of a segment keeps every rank   *)
(* from returning that segment's call: no partial sum is ever published    *)
(* ("failure was not group-wide and commit-atomic").                       *)
(***************************************************************************)
Interrupted(r) == ~Active(r) /\ pc[r] # "idle"
ReduceScatterFailureIsGroupWide ==
  \A r \in Ranks :
    Interrupted(r) /\ InReduceScatter(World, step[r]) =>
      \A q \in Ranks : Len(public[q]) < seq[r]

(***************************************************************************)
(* While two ring neighbours are in collectives, every credit of the       *)
(* sender is accounted for: not yet sent, on the way, held by the          *)
(* receiver, or on the way back.                                           *)
(***************************************************************************)
InSocket(a, b, kind) ==
  Cardinality({i \in DOMAIN sock[a][b] : sock[a][b][i].kind = kind})
CreditConservation ==
  \A r \in Ranks :
    LET n == Succ(r)
    IN  st[r] \in {"ready", "active"} /\ st[n] \in {"ready", "active"} =>
          inflight[r] = (IF pc[r] = "send" THEN 1 ELSE 0)
                          + InSocket(r, n, "DATA") + slots[n]
                          + InSocket(n, r, "CONSUMED")

(***************************************************************************)
(* A failed or left engine is never used again: no new sequence, no new    *)
(* result, no way back to READY ("permanently poisons the engine; no       *)
(* sequence or live epoch is reused").                                     *)
(***************************************************************************)
Finished == {"aborted", "closed", "crashed"}
NoLifeAfterFailure ==
  [][\A r \in Ranks : st[r] \in Finished =>
       /\ st'[r] \in Finished
       /\ public'[r] = public[r]
       /\ seq'[r] = seq[r]]_vars

(***************************************************************************)
(* PLAN.md: "The first error aborts the epoch and all ranks observe the    *)
(* same failure": every rank that failed a collective names the same rank  *)
(* as the failed one.                                                      *)
(***************************************************************************)
RanksObserveSameFailure ==
  \A a, b \in Ranks :
    accuse[a] # NoRank /\ accuse[b] # NoRank => accuse[a] = accuse[b]

(***************************************************************************)
(* The engine implements the abstract collective: a rank has contributed   *)
(* to the sequence it is or was interrupted in, and has left when it can   *)
(* make no further call.                                                   *)
(***************************************************************************)
Abstract == INSTANCE Collective WITH
  Sum     <- RingSum,
  entered <- [r \in Ranks |-> IF pc[r] = "idle" THEN seq[r] - 1 ELSE seq[r]],
  results <- public,
  gone    <- {r \in Ranks : st[r] \notin {"ready", "active"}}
ImplementsCollective == Abstract!Spec

(***************************************************************************)
(* Whatever fails, no rank waits forever: each one closes or has crashed.  *)
(* If nothing failed, every rank has returned every call, however shallow  *)
(* the sockets are and however early the fast ranks close.                 *)
(***************************************************************************)
AllCommit ==
  <>(\A r \in Ranks :
       /\ Stopped(r)
       /\ faults = 0 => Len(public[r]) = LastSequence /\ st[r] = "closed")

(***************************************************************************)
(* A failed collective reaches the broker, if only as a lost process.      *)
(***************************************************************************)
FailureReachesBroker ==
  (\E r \in Ranks : accuse[r] # NoRank) ~> firstError # {}
=============================================================================
