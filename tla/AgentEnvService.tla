-------------------------- MODULE AgentEnvService --------------------------
(***************************************************************************)
(* Start and stop of the AgentENV server (tools/agentenv_service.py): any  *)
(* number of commands, serialised by a lock file, a process record that    *)
(* outlives them, and an operating system that gives a PID to another      *)
(* process, boots again, or runs a server binary that was built again.     *)
(*                                                                         *)
(* The checks before the lock, which only answer or refuse, are the guards *)
(* of BeginStart and BeginStop.  Files of prepare_layout and last_stop are *)
(* left out: nothing here reads them.                                      *)
(***************************************************************************)
EXTENDS Naturals, FiniteSets

CONSTANTS Commands, Pids,
          MaxProcs, Boots, Builds, Kills \* bounds

ASSUME ServiceAssumption ==
  /\ "no one" \notin Commands
  /\ Pids \subseteq Nat \ {0}
  /\ MaxProcs \in Nat /\ Boots \in Nat \ {0} /\ Builds \in Nat \ {0} /\ Kills \in Nat

Procs == 1 .. MaxProcs

VARIABLES
  \* the system
  proc,      \* identity of each process: PID, start ticks, boot
  life,
  boot, clock,
  binary,    \* file identity of the configured server executable
  \* shared files
  record,    \* the process record
  lock,      \* holder of the control lock
  \* the commands
  pc,
  seen,      \* launch_executable
  mine,      \* the process a start launched, its unreaped child
  fd,        \* the process a pidfd is bound to
  sig,       \* the signal a stop is about to send
  \* history
  servers,   \* processes launched by a start
  orphans,   \* servers whose start was killed before it had recorded them
  signalled, \* processes a stop sent a signal to
  kills

systemVars == <<proc, life, boot, clock, binary>>
localVars == <<seen, mine, fd, sig>>
historyVars == <<servers, orphans, signalled, kills>>
vars == <<systemVars, record, lock, pc, localVars, historyVars>>

NoOne == "no one"
Identity(p, s, b) == [pid |-> p, start |-> s, boot |-> b]
Unborn == Identity(0, 0, 0)
Record(id, exe) == [id |-> id, exe |-> exe]
NoRecord == Record(Unborn, 0)

Init ==
  /\ proc = [i \in Procs |-> Unborn] /\ life = [i \in Procs |-> "unborn"]
  /\ boot = 1 /\ clock = 0 /\ binary = 1
  /\ record = NoRecord /\ lock = NoOne
  /\ pc = [c \in Commands |-> "idle"]
  /\ seen = [c \in Commands |-> 0] /\ mine = [c \in Commands |-> 0]
  /\ fd = [c \in Commands |-> 0] /\ sig = [c \in Commands |-> "SIGTERM"]
  /\ servers = {} /\ orphans = {} /\ signalled = {} /\ kills = 0

-----------------------------------------------------------------------------
(***************************************************************************)
(* Processes.  A dead process keeps its PID while its parent, the start    *)
(* that launched it, has not reaped it.                                    *)
(***************************************************************************)
Visible(i) == life[i] \in {"running", "dying", "zombie"}
At(p) == {i \in Procs : Visible(i) /\ proc[i].pid = p}
Dead(i) == life[i] \in {"zombie", "gone"}

Born(i, p) ==
  /\ life[i] = "unborn" /\ \A j \in Procs : life[j] = "unborn" => i <= j
  /\ At(p) = {}
  /\ clock' = clock + 1
  /\ proc' = [proc EXCEPT ![i] = Identity(p, clock + 1, boot)]
  /\ life' = [life EXCEPT ![i] = "running"]

\* Another program starts and is given a free PID.
Spawn ==
  /\ \E i \in Procs, p \in Pids : Born(i, p)
  /\ UNCHANGED <<boot, binary, record, lock, pc, localVars, historyVars>>

Exit(i) ==
  /\ life[i] \in {"running", "dying"}
  /\ life' = [life EXCEPT ![i] = IF \E c \in Commands : mine[c] = i THEN "zombie" ELSE "gone"]
  /\ UNCHANGED <<proc, boot, clock, binary, record, lock, pc, localVars, historyVars>>

\* The server is built again; its file may be the former one.
Rebuild ==
  /\ binary' \in 1 .. Builds
  /\ UNCHANGED <<proc, life, boot, clock, record, lock, pc, localVars, historyVars>>

-----------------------------------------------------------------------------
(***************************************************************************)
(* _record_match compares the recorded executable with the configured one  *)
(* (and raises), then PID, boot and start ticks.                           *)
(***************************************************************************)
ExecutableKnown == record.exe = binary
MatchesIgnoringBoot ==
  \E i \in At(record.id.pid) : proc[i].start = record.id.start
Matches ==
  /\ record.id.boot = boot
  /\ \E i \in At(record.id.pid) : proc[i].start = record.id.start

Goto(c, place) == pc' = [pc EXCEPT ![c] = place]

\* A command ends: its lock and pidfd are closed, a zombie child goes to init.
End(c) ==
  /\ Goto(c, "idle")
  /\ lock' = IF lock = c THEN NoOne ELSE lock
  /\ mine' = [mine EXCEPT ![c] = 0] /\ fd' = [fd EXCEPT ![c] = 0]
  /\ seen' = [seen EXCEPT ![c] = 0] /\ sig' = [sig EXCEPT ![c] = "SIGTERM"]
Abandoned(c, i) == mine[c] = i /\ life[i] = "zombie"
Reparent(c) == life' = [i \in Procs |-> IF Abandoned(c, i) THEN "gone" ELSE life[i]]
EndsWithoutEffect(c) ==
  /\ End(c) /\ Reparent(c)
  /\ UNCHANGED <<proc, boot, clock, binary, record, historyVars>>

LockAtOnce(c) ==
  /\ pc[c] \in {"start", "stop"}
  /\ lock' = c
  /\ Goto(c, IF pc[c] = "start" THEN "recheck" ELSE "reread")
  /\ UNCHANGED <<systemVars, record, localVars, historyVars>>
Lock(c) ==
  /\ pc[c] \in {"start", "stop"}
  /\ lock = NoOne
  /\ lock' = c
  /\ Goto(c, IF pc[c] = "start" THEN "recheck" ELSE "reread")
  /\ UNCHANGED <<systemVars, record, localVars, historyVars>>

\* What raises before anything was done: missing prerequisites, an unreadable
\* process, no pidfd, a failing write.
Refuse(c) ==
  /\ pc[c] \in {"start", "stop", "recheck", "launch", "reread", "open", "check", "send",
                "wait", "remove"}
  /\ EndsWithoutEffect(c)

-----------------------------------------------------------------------------
(***************************************************************************)
(* start_service                                                           *)
(***************************************************************************)
BeginStart(c) ==
  /\ pc[c] = "idle" /\ record = NoRecord
  /\ Goto(c, "start")
  /\ UNCHANGED <<systemVars, record, lock, localVars, historyVars>>

\* Under the lock the record is read again, and the executable looked at.
RecheckTrusted(c) ==
  /\ pc[c] = "recheck"
  /\ seen' = [seen EXCEPT ![c] = binary]
  /\ Goto(c, "launch")
  /\ UNCHANGED <<systemVars, record, lock, mine, fd, sig, historyVars>>
Recheck(c) ==
  /\ pc[c] = "recheck"
  /\ \/ /\ record = NoRecord
        /\ seen' = [seen EXCEPT ![c] = binary]
        /\ Goto(c, "launch")
        /\ UNCHANGED <<systemVars, record, lock, mine, fd, sig, historyVars>>
     \/ record # NoRecord /\ EndsWithoutEffect(c)

Launch(c) ==
  /\ pc[c] = "launch"
  /\ \E i \in Procs, p \in Pids :
       /\ Born(i, p)
       /\ mine' = [mine EXCEPT ![c] = i]
       /\ servers' = servers \cup {i}
  /\ Goto(c, "verify")
  /\ UNCHANGED <<boot, binary, record, lock, seen, fd, sig, orphans, signalled, kills>>

\* The child lives and the executable is still the one it was launched from.
Verify(c) ==
  /\ pc[c] = "verify"
  /\ ~Dead(mine[c]) /\ binary = seen[c]
  /\ Goto(c, "write")
  /\ UNCHANGED <<systemVars, record, lock, localVars, historyVars>>

RecordMine(c) == record' = Record(proc[mine[c]], seen[c])
WriteRecord(c) ==
  /\ pc[c] = "write"
  /\ RecordMine(c)
  /\ End(c) /\ Reparent(c)
  /\ UNCHANGED <<proc, boot, clock, binary, historyVars>>

\* Any exception, an interrupt too; the record may have been replaced by then.
LaunchFails(c) ==
  /\ \/ pc[c] \in {"verify", "write"} /\ UNCHANGED record
     \/ pc[c] = "write" /\ RecordMine(c)
  /\ Goto(c, "undo")
  /\ UNCHANGED <<systemVars, lock, localVars, historyVars>>

\* _terminate_failed_launch: SIGKILL, then wait for the child.
Undo(c) ==
  /\ pc[c] = "undo"
  /\ life' = [life EXCEPT ![mine[c]] = IF Dead(mine[c]) THEN "gone" ELSE "dying"]
  /\ Goto(c, IF Dead(mine[c]) THEN "unlink" ELSE "reap")
  /\ UNCHANGED <<proc, boot, clock, binary, record, lock, localVars, historyVars>>

ReapWithoutDeadline(c) ==
  /\ pc[c] = "reap" /\ Dead(mine[c])
  /\ life' = [life EXCEPT ![mine[c]] = "gone"]
  /\ Goto(c, "unlink")
  /\ UNCHANGED <<proc, boot, clock, binary, record, lock, localVars, historyVars>>
Reap(c) ==
  /\ pc[c] = "reap"
  /\ \/ /\ Dead(mine[c])
        /\ life' = [life EXCEPT ![mine[c]] = "gone"]
        /\ Goto(c, "unlink")
        /\ UNCHANGED <<proc, boot, clock, binary, record, lock, localVars, historyVars>>
     \/ ~Dead(mine[c]) /\ EndsWithoutEffect(c)

-----------------------------------------------------------------------------
(***************************************************************************)
(* stop_service                                                            *)
(***************************************************************************)
BeginStop(c) ==
  /\ pc[c] = "idle" /\ record # NoRecord /\ ExecutableKnown
  /\ Goto(c, "stop")
  /\ UNCHANGED <<systemVars, record, lock, localVars, historyVars>>

\* A record that matches no process leads to its removal without a signal.
Decide(c, place) ==
  /\ ExecutableKnown
  /\ Goto(c, IF Matches THEN place ELSE "remove")
  /\ UNCHANGED <<systemVars, record, lock, localVars, historyVars>>

Reread(c) ==
  /\ pc[c] = "reread"
  /\ \/ record # NoRecord /\ Decide(c, "open")
     \/ record = NoRecord /\ EndsWithoutEffect(c)

\* The pidfd is bound to whichever process has the recorded PID by now.
OpenToSignal(c) ==
  /\ pc[c] = "open"
  /\ \E i \in At(record.id.pid) : fd' = [fd EXCEPT ![c] = i]
  /\ Goto(c, "send")
  /\ UNCHANGED <<systemVars, record, lock, seen, mine, sig, historyVars>>
Open(c) ==
  /\ pc[c] = "open"
  /\ \/ /\ \E i \in At(record.id.pid) : fd' = [fd EXCEPT ![c] = i]
        /\ Goto(c, "check")
     \/ /\ At(record.id.pid) = {}
        /\ Goto(c, "remove")
        /\ UNCHANGED fd
  /\ UNCHANGED <<systemVars, record, lock, seen, mine, sig, historyVars>>

\* _signal_if_owned: the match is repeated, then the signal goes to the pidfd.
Check(c) == pc[c] = "check" /\ Decide(c, "send")

Send(c) ==
  /\ pc[c] = "send"
  /\ \/ /\ life[fd[c]] # "gone"
        /\ signalled' = signalled \cup {fd[c]}
        /\ life' = IF sig[c] = "SIGKILL" /\ life[fd[c]] = "running"
                     THEN [life EXCEPT ![fd[c]] = "dying"] ELSE life
        /\ Goto(c, "wait")
     \/ /\ life[fd[c]] = "gone"
        /\ Goto(c, "remove")
        /\ UNCHANGED <<life, signalled>>
  /\ UNCHANGED <<proc, boot, clock, binary, record, lock, localVars, servers, orphans, kills>>

\* The process exits in time, or SIGKILL follows (kill_after_timeout), or the
\* stop raises and keeps the record (Refuse).
WaitThenRemove(c) ==
  /\ pc[c] = "wait"
  /\ Goto(c, "remove")
  /\ UNCHANGED <<systemVars, record, lock, localVars, historyVars>>
Wait(c) ==
  /\ pc[c] = "wait"
  /\ \/ Dead(fd[c]) /\ Goto(c, "remove") /\ UNCHANGED sig
     \/ /\ ~Dead(fd[c]) /\ sig[c] = "SIGTERM"
        /\ sig' = [sig EXCEPT ![c] = "SIGKILL"]
        /\ Goto(c, "check")
  /\ UNCHANGED <<systemVars, record, lock, seen, mine, fd, historyVars>>

\* _remove_record, and the unlink that ends a failed launch.
Remove(c) ==
  /\ pc[c] \in {"remove", "unlink"}
  /\ record' = NoRecord
  /\ End(c) /\ Reparent(c)
  /\ UNCHANGED <<proc, boot, clock, binary, historyVars>>

-----------------------------------------------------------------------------
\* A command is killed; a process it launched is on its own.
Kill(c) ==
  /\ pc[c] # "idle" /\ kills < Kills
  /\ kills' = kills + 1
  /\ End(c) /\ Reparent(c)
  /\ orphans' = orphans \cup {i \in Procs : mine[c] = i /\ record.id # proc[i]}
  /\ UNCHANGED <<proc, boot, clock, binary, record, servers, signalled>>

Reboot ==
  /\ boot < Boots
  /\ boot' = boot + 1 /\ clock' = 0
  /\ life' = [i \in Procs |-> IF life[i] = "unborn" THEN "unborn" ELSE "gone"]
  /\ lock' = NoOne
  /\ pc' = [c \in Commands |-> "idle"]
  /\ seen' = [c \in Commands |-> 0] /\ mine' = [c \in Commands |-> 0]
  /\ fd' = [c \in Commands |-> 0] /\ sig' = [c \in Commands |-> "SIGTERM"]
  /\ UNCHANGED <<proc, binary, record, historyVars>>

Begin(c) == BeginStart(c) \/ BeginStop(c)
Step(c) ==
  \/ Lock(c) \/ Refuse(c)
  \/ Recheck(c) \/ Launch(c) \/ Verify(c) \/ WriteRecord(c) \/ LaunchFails(c)
  \/ Undo(c) \/ Reap(c)
  \/ Reread(c) \/ Open(c) \/ Check(c) \/ Send(c) \/ Wait(c) \/ Remove(c)

Next ==
  \/ \E c \in Commands : Begin(c) \/ Step(c) \/ Kill(c)
  \/ Spawn \/ (\E i \in Procs : Exit(i)) \/ Rebuild \/ Reboot

Spec == Init /\ [][Next]_vars

\* A command that can go on does: poll, wait and a lock that is free return.
FairSpec == Spec /\ \A c \in Commands : WF_vars(Step(c))

-----------------------------------------------------------------------------
(***************************************************************************)
(* Properties.                                                             *)
(***************************************************************************)
Identities == [pid : Pids \cup {0}, start : 0 .. MaxProcs, boot : 0 .. Boots]
Lives == {"unborn", "running", "dying", "zombie", "gone"}
Waiting == {"idle", "start", "stop"}
Signalling == {"check", "send", "wait"}
Launching == {"verify", "write", "undo", "reap", "unlink"}
Places == Waiting \cup Signalling \cup Launching
            \cup {"recheck", "launch", "reread", "open", "remove"}

\* What a command holds at each place.
Holdings(c) ==
  /\ pc[c] \notin Waiting <=> lock = c
  /\ pc[c] \in Launching <=> mine[c] # 0
  /\ pc[c] \in Signalling => fd[c] # 0

ServiceTypes ==
  /\ proc \in [Procs -> Identities] /\ life \in [Procs -> Lives]
  /\ boot \in 1 .. Boots /\ clock \in 0 .. MaxProcs /\ binary \in 1 .. Builds
  /\ record \in [id : Identities, exe : 0 .. Builds]
  /\ lock \in Commands \cup {NoOne}
  /\ pc \in [Commands -> Places]
  /\ seen \in [Commands -> 0 .. Builds] /\ mine \in [Commands -> 0 .. MaxProcs]
  /\ fd \in [Commands -> 0 .. MaxProcs] /\ sig \in [Commands -> {"SIGTERM", "SIGKILL"}]
  /\ orphans \subseteq servers /\ servers \subseteq Procs /\ signalled \subseteq Procs
  /\ kills \in 0 .. Kills

\* Types, and what a command holds at each place: whoever is past control_lock
\* is its only holder, a launched child is held until the end, a signal needs
\* a pidfd.
ServiceTypeOK == ServiceTypes /\ \A c \in Commands : Holdings(c)

\* A stop signals only servers that a start of this state root launched,
\* however PIDs are reused between its match, its pidfd and its signal.
OnlyServersSignalled == signalled \subseteq servers

\* A running server is the recorded one, or its start is still busy with it,
\* or that start was killed: two starts never run two servers, and a stop
\* finds what a start left behind.
InLaunch(i) == \E c \in Commands : mine[c] = i
RunningServerIsRecorded ==
  /\ \A i \in servers \ orphans :
       life[i] = "running" => record.id = proc[i] \/ InLaunch(i)
  /\ \A i, j \in servers \ orphans :
       life[i] = "running" /\ life[j] = "running" => i = j

\* The record of a running server is never removed nor replaced: a stop that
\* times out, and a start that fails, retain it.
RecordKeptWhileRunning ==
  [][\A i \in Procs : life[i] = "running" /\ record.id = proc[i] =>
       life'[i] # "running" \/ record'.id = proc[i]]_vars

\* No command keeps the control lock for ever, also if the server ignores its
\* signals.
LockIsReleased == \A c \in Commands : lock = c ~> lock # c
=============================================================================
