----------------------- MODULE AgentEnvServiceProofs -----------------------
(***************************************************************************)
(* Theorems about AgentEnvService, for any number of commands, PIDs,       *)
(* processes, boots, builds and killed commands.                           *)
(***************************************************************************)
EXTENDS AgentEnvService, TLAPS

-----------------------------------------------------------------------------
(***************************************************************************)
(* The inductive invariant.                                                *)
(***************************************************************************)
IsBorn(i) == life[i] # "unborn"

\* Processes are born in order, and an identity is never given twice.
Ordered ==
  /\ \A i \in Procs : ~IsBorn(i) =>
       clock < i /\ \A j \in Procs : i <= j => ~IsBorn(j)
  /\ \A i \in Procs : IsBorn(i) =>
       /\ proc[i].pid \in Pids /\ proc[i].boot <= boot
       /\ proc[i].boot = boot => proc[i].start <= clock
       /\ Visible(i) => proc[i].boot = boot
  /\ \A i, j \in Procs : IsBorn(i) /\ IsBorn(j) =>
       /\ proc[i].boot = proc[j].boot /\ proc[i].start = proc[j].start => i = j
       /\ Visible(i) /\ Visible(j) /\ proc[i].pid = proc[j].pid => i = j

\* The record is that of a server.
RecordIsServers ==
  /\ \A s \in servers : IsBorn(s)
  /\ record = NoRecord \/ \E s \in servers : record.id = proc[s]

\* What the holder of the lock knows at each place, although processes come
\* and go.
Knows(c) ==
  /\ pc[c] \in {"launch", "verify", "write"} => record = NoRecord
  /\ pc[c] \in Launching => mine[c] \in servers
  /\ pc[c] \in {"undo", "reap", "unlink"} => record = NoRecord \/ record.id = proc[mine[c]]
  /\ pc[c] \in {"reap", "unlink"} => life[mine[c]] # "running"
  /\ pc[c] \in {"open", "check", "send", "wait", "remove"} => record # NoRecord
  /\ pc[c] \in Signalling =>
       \A i \in Procs : Visible(i) /\ proc[i] = record.id => fd[c] = i
  /\ pc[c] \in {"send", "wait"} => fd[c] \in servers /\ proc[fd[c]] = record.id
  /\ pc[c] = "remove" => \A i \in Procs : proc[i] = record.id => life[i] # "running"

\* The first half of RunningServerIsRecorded, from which the other follows.
RunningIsKnown ==
  \A i \in servers \ orphans : life[i] = "running" => record.id = proc[i] \/ InLaunch(i)

ServiceInv ==
  /\ ServiceTypeOK
  /\ Ordered
  /\ RecordIsServers
  /\ \A c \in Commands : Knows(c)
  /\ OnlyServersSignalled
  /\ RunningIsKnown

-----------------------------------------------------------------------------
(***************************************************************************)
(* Every step is birth, a process that ends, or a boot.                    *)
(***************************************************************************)
Declines ==
  /\ life' \in [Procs -> Lives]
  /\ \A i \in Procs : /\ life'[i] = "unborn" <=> life[i] = "unborn"
                      /\ life'[i] = "running" => life[i] = "running"
                      /\ Visible(i)' => Visible(i)
  /\ UNCHANGED proc
Ends == Declines /\ UNCHANGED <<boot, clock>>
Restarts == Declines /\ boot' = boot + 1 /\ clock' = 0 /\ \A i \in Procs : ~Visible(i)'
Births == UNCHANGED boot /\ \E i \in Procs, p \in Pids : Born(i, p)

Grows ==
  \A i \in Procs : IsBorn(i) =>
    /\ proc'[i] = proc[i] /\ IsBorn(i)'
    /\ life'[i] = "running" => life[i] = "running"
    /\ Visible(i)' => Visible(i)

LEMMA Bounds ==
  /\ MaxProcs \in Nat /\ Boots \in Nat /\ Builds \in Nat /\ Kills \in Nat
  /\ 0 \in 0 .. MaxProcs /\ 0 \in 0 .. Builds
  /\ \A i \in Procs : i \in Nat /\ 0 < i /\ i <= MaxProcs
  /\ NoOne \notin Commands
<1>1. MaxProcs \in Nat /\ Boots \in Nat /\ Builds \in Nat /\ Kills \in Nat
  BY ServiceAssumption
<1>2. NoOne \notin Commands
  BY ServiceAssumption, Zenon DEF NoOne
<1>3. 0 \in 0 .. MaxProcs /\ 0 \in 0 .. Builds
  BY <1>1
<1>4. \A i \in Procs : i \in Nat /\ 0 < i /\ i <= MaxProcs
  BY <1>1 DEF Procs
<1> QED
  BY <1>1, <1>2, <1>3, <1>4

LEMMA Numbers ==
  ASSUME ServiceTypes
  PROVE  /\ boot \in Nat /\ boot <= Boots /\ clock \in Nat
         /\ \A i \in Procs : proc[i].start \in Nat /\ proc[i].boot \in Nat
<1>1. boot \in 1 .. Boots /\ clock \in 0 .. MaxProcs /\ proc \in [Procs -> Identities]
  BY DEF ServiceTypes
<1>2. \A x \in Identities : x.start \in 0 .. MaxProcs /\ x.boot \in 0 .. Boots
  BY DEF Identities
<1> QED
  BY <1>1, <1>2, Bounds

LEMMA BirthsGrow ==
  ASSUME ServiceTypes, Ordered, Births
  PROVE  Grows /\ Ordered' /\ proc' \in [Procs -> Identities] /\ life' \in [Procs -> Lives]
         /\ clock' \in 0 .. MaxProcs
<1>1. PICK i \in Procs, p \in Pids : Born(i, p)
  BY DEF Births
<1>2. /\ life[i] = "unborn" /\ clock < i /\ i \in Nat /\ i <= MaxProcs
      /\ clock \in Nat /\ clock' = clock + 1 /\ boot' = boot
      /\ \A j \in Procs : ~Visible(j) \/ proc[j].pid # p
      /\ \A j \in Procs : i <= j => ~IsBorn(j)
      /\ \A j \in Procs : j < i => IsBorn(j)
  <2>1. MaxProcs \in Nat /\ \A j \in Procs : j \in Nat /\ j <= MaxProcs
    BY Bounds
  <2>2. /\ life[i] = "unborn" /\ clock' = clock + 1
        /\ \A j \in Procs : ~IsBorn(j) => i <= j
        /\ \A j \in Procs : ~Visible(j) \/ proc[j].pid # p
    BY <1>1 DEF Born, At, IsBorn
  <2>3. clock \in Nat /\ boot' = boot
    BY Numbers DEF Births
  <2>4. clock < i /\ \A j \in Procs : i <= j => ~IsBorn(j)
    BY <2>2 DEF Ordered, IsBorn
  <2>5. \A j \in Procs : j < i => IsBorn(j)
    BY <2>1, <2>2
  <2> QED
    BY <2>1, <2>2, <2>3, <2>4, <2>5
<1>3. /\ proc' = [proc EXCEPT ![i] = Identity(p, clock + 1, boot)]
      /\ life' = [life EXCEPT ![i] = "running"]
  BY <1>1 DEF Born
<1>4. /\ \A j \in Procs \ {i} : proc'[j] = proc[j] /\ life'[j] = life[j]
      /\ proc'[i].pid = p /\ proc'[i].start = clock + 1 /\ proc'[i].boot = boot
      /\ life'[i] = "running"
  BY <1>3 DEF ServiceTypes, Identity
<1>5. Grows
  BY <1>2, <1>4 DEF Grows, IsBorn, Visible
<1>6. proc' \in [Procs -> Identities] /\ life' \in [Procs -> Lives] /\ clock' \in 0 .. MaxProcs
  <2>1. clock + 1 \in 0 .. MaxProcs /\ MaxProcs \in Nat
    BY <1>2, Bounds
  <2>2. boot \in 0 .. Boots
    BY Numbers, Bounds
  <2>3. Identity(p, clock + 1, boot) \in Identities
    BY <2>1, <2>2 DEF Identity, Identities
  <2> QED
    BY <1>2, <1>3, <2>1, <2>3 DEF ServiceTypes, Lives
<1>7. Ordered'
  <2>1. \A j \in Procs : ~IsBorn(j)' =>
          clock' < j /\ \A k \in Procs : j <= k => ~IsBorn(k)'
    <3> SUFFICES ASSUME NEW j \in Procs, ~IsBorn(j)'
                 PROVE  clock' < j /\ \A k \in Procs : j <= k => ~IsBorn(k)'
      OBVIOUS
    <3>1. j # i /\ ~IsBorn(j) /\ j \in Nat /\ ~(j < i)
      BY <1>2, <1>4, Bounds DEF IsBorn
    <3>2. i < j
      BY <3>1, <1>2
    <3>3. \A k \in Procs : j <= k => k # i /\ ~IsBorn(k)
      BY <3>1, <3>2, <1>2, Bounds
    <3> QED
      BY <3>2, <3>3, <1>2, <1>4 DEF IsBorn
  <2>2. \A j \in Procs : IsBorn(j)' =>
          /\ proc'[j].pid \in Pids /\ proc'[j].boot <= boot'
          /\ proc'[j].boot = boot' => proc'[j].start <= clock'
          /\ Visible(j)' => proc'[j].boot = boot'
    <3> SUFFICES ASSUME NEW j \in Procs, IsBorn(j)'
                 PROVE  /\ proc'[j].pid \in Pids /\ proc'[j].boot <= boot'
                        /\ proc'[j].boot = boot' => proc'[j].start <= clock'
                        /\ Visible(j)' => proc'[j].boot = boot'
      OBVIOUS
    <3>1. CASE j = i
      BY <3>1, <1>2, <1>4, Numbers DEF Visible
    <3>2. CASE j # i
      <4>1. proc[j].start \in Nat
        BY Numbers
      <4> QED
        BY <3>2, <4>1, <1>2, <1>4 DEF Ordered, IsBorn, Visible
    <3> QED
      BY <3>1, <3>2
  <2>3. \A j \in Procs : j # i /\ IsBorn(j)' =>
          /\ ~(proc'[j].boot = proc'[i].boot /\ proc'[j].start = proc'[i].start)
          /\ ~(Visible(j)' /\ proc'[j].pid = proc'[i].pid)
    <3> SUFFICES ASSUME NEW j \in Procs, j # i, IsBorn(j)'
                 PROVE  /\ ~(proc'[j].boot = proc'[i].boot /\ proc'[j].start = proc'[i].start)
                        /\ ~(Visible(j)' /\ proc'[j].pid = proc'[i].pid)
      OBVIOUS
    <3>1. proc[j].start \in Nat /\ IsBorn(j)
      BY <1>4, Numbers DEF IsBorn
    <3>2. proc[j].boot = boot => proc[j].start <= clock
      BY <3>1 DEF Ordered
    <3>3. proc'[j].boot = boot => proc'[j].start # clock + 1
      <4>1. proc'[j] = proc[j]
        BY <1>4
      <4> QED
        BY <4>1, <3>1, <3>2, Numbers
    <3>4. Visible(j)' => proc'[j].pid # p
      BY <1>2, <1>4 DEF Visible
    <3> QED
      BY <3>3, <3>4, <1>4
  <2>4. \A j, k \in Procs : IsBorn(j)' /\ IsBorn(k)' =>
          /\ proc'[j].boot = proc'[k].boot /\ proc'[j].start = proc'[k].start => j = k
          /\ Visible(j)' /\ Visible(k)' /\ proc'[j].pid = proc'[k].pid => j = k
    <3> SUFFICES ASSUME NEW j \in Procs, NEW k \in Procs, IsBorn(j)', IsBorn(k)'
                 PROVE  /\ proc'[j].boot = proc'[k].boot /\ proc'[j].start = proc'[k].start => j = k
                        /\ Visible(j)' /\ Visible(k)' /\ proc'[j].pid = proc'[k].pid => j = k
      OBVIOUS
    <3>1. CASE j = i \/ k = i
      BY <3>1, <2>3
    <3>2. CASE j # i /\ k # i
      BY <3>2, <1>4 DEF Ordered, IsBorn, Visible
    <3> QED
      BY <3>1, <3>2
  <2> QED
    BY <2>1, <2>2, <2>4 DEF Ordered
<1> QED
  BY <1>5, <1>6, <1>7

LEMMA EndsGrow ==
  ASSUME ServiceTypes, Ordered, Ends
  PROVE  Grows /\ Ordered'
<1>1. Grows
  BY DEF Grows, Ends, Declines, IsBorn
<1>2. Ordered'
  BY DEF Ordered, Ends, Declines, IsBorn
<1> QED
  BY <1>1, <1>2

LEMMA BootsGrow ==
  ASSUME ServiceTypes, Ordered, Restarts
  PROVE  Grows /\ Ordered'
<1>1. Grows
  BY DEF Grows, Restarts, Declines, IsBorn
<1>2. boot \in Nat /\ boot' = boot + 1 /\ clock' = 0 /\ proc' = proc
  BY Numbers DEF Restarts, Declines
<1>3. \A i \in Procs : IsBorn(i)' <=> IsBorn(i)
  BY DEF Restarts, Declines, IsBorn
<1>4. \A i \in Procs : i \in Nat /\ 0 < i /\ proc[i].boot \in Nat
  BY Bounds, Numbers
<1>5. \A i \in Procs : ~IsBorn(i)' => clock' < i /\ \A j \in Procs : i <= j => ~IsBorn(j)'
  BY <1>2, <1>3, <1>4 DEF Ordered
<1>6. \A i \in Procs : IsBorn(i)' =>
        /\ proc'[i].pid \in Pids /\ proc'[i].boot <= boot'
        /\ proc'[i].boot = boot' => proc'[i].start <= clock'
        /\ Visible(i)' => proc'[i].boot = boot'
  <2> SUFFICES ASSUME NEW i \in Procs, IsBorn(i)
               PROVE  /\ proc[i].pid \in Pids /\ proc[i].boot <= boot + 1
                      /\ proc[i].boot # boot + 1
    BY <1>2, <1>3 DEF Restarts
  <2> QED
    BY <1>2, <1>4 DEF Ordered
<1>7. \A i, j \in Procs : IsBorn(i)' /\ IsBorn(j)' =>
        /\ proc'[i].boot = proc'[j].boot /\ proc'[i].start = proc'[j].start => i = j
        /\ Visible(i)' /\ Visible(j)' /\ proc'[i].pid = proc'[j].pid => i = j
  BY <1>2, <1>3 DEF Ordered, Restarts
<1> QED
  BY <1>1, <1>5, <1>6, <1>7 DEF Ordered

LEMMA SameLife ==
  ASSUME ServiceTypes, UNCHANGED <<life, proc, boot, clock>>
  PROVE  Ends
BY DEF ServiceTypes, Ends, Declines, Visible

LEMMA ReparentEnds ==
  ASSUME ServiceTypes, NEW c \in Commands, Reparent(c), UNCHANGED <<proc, boot, clock>>
  PROVE  Ends
BY DEF ServiceTypes, Ends, Declines, Visible, Reparent, Abandoned, Lives

LEMMA ProcessSteps ==
  ASSUME ServiceInv, Next
  PROVE  Births \/ Ends \/ Restarts
<1>1. ServiceTypes /\ RecordIsServers /\ \A c \in Commands : Knows(c)
  BY DEF ServiceInv, ServiceTypeOK
<1>2. CASE Spawn
  BY <1>2 DEF Spawn, Births
<1>3. CASE \E i \in Procs : Exit(i)
  BY <1>1, <1>3 DEF Exit, Ends, Declines, Visible, ServiceTypes, Lives
<1>4. CASE Rebuild
  BY <1>1, <1>4, SameLife DEF Rebuild
<1>5. CASE Reboot
  BY <1>1, <1>5 DEF Reboot, Restarts, Declines, Visible, ServiceTypes, Lives
<1>6. ASSUME NEW c \in Commands, Begin(c) \/ Step(c) \/ Kill(c)
      PROVE  Births \/ Ends
  <2>2. pc[c] \in Launching => mine[c] \in Procs /\ IsBorn(mine[c])
    BY <1>1 DEF Knows, RecordIsServers, ServiceTypes
  <2>3. CASE Begin(c) \/ Lock(c) \/ Verify(c) \/ LaunchFails(c) \/ Open(c) \/ Check(c) \/ Wait(c)
    BY <2>3, <1>1, SameLife DEF Begin, BeginStart, BeginStop, Lock, Verify, LaunchFails, Open,
       Check, Decide, Wait, systemVars
  <2>4. CASE Refuse(c) \/ Recheck(c) \/ Reread(c)
    BY <2>4, <1>1, SameLife, ReparentEnds DEF Refuse, Recheck, Reread, Decide, EndsWithoutEffect,
       systemVars
  <2>5. CASE WriteRecord(c) \/ Remove(c) \/ Kill(c)
    BY <2>5, <1>1, ReparentEnds DEF WriteRecord, Remove, Kill
  <2>6. CASE Launch(c)
    BY <2>6 DEF Launch, Births
  <2>7. CASE Undo(c)
    BY <2>2, <2>7, <1>1 DEF Undo, Ends, Declines, Visible, ServiceTypes, Lives, Dead, IsBorn,
       Launching
  <2>8. CASE Reap(c)
    <3>1. CASE Dead(mine[c])
      BY <2>2, <2>8, <3>1, <1>1 DEF Reap, Ends, Declines, Visible, ServiceTypes, Lives, Dead, IsBorn,
         Launching
    <3>2. CASE ~Dead(mine[c])
      BY <2>8, <3>2, <1>1, ReparentEnds DEF Reap, EndsWithoutEffect
    <3> QED
      BY <3>1, <3>2
  <2>9. CASE Send(c)
    BY <2>9, <1>1 DEF Send, Ends, Declines, Visible, ServiceTypes, Lives
  <2> QED
    BY <1>6, <2>3, <2>4, <2>5, <2>6, <2>7, <2>8, <2>9 DEF Step
<1> QED
  BY <1>2, <1>3, <1>4, <1>5, <1>6 DEF Next

\* What a step does to the processes keeps their order.
LEMMA ProcessesStayOrdered ==
  ASSUME ServiceInv, Next
  PROVE  /\ Grows /\ Ordered'
         /\ proc' \in [Procs -> Identities] /\ life' \in [Procs -> Lives]
         /\ clock' \in 0 .. MaxProcs
<1>1. ServiceTypes /\ Ordered
  BY DEF ServiceInv, ServiceTypeOK
<1>2. CASE Births
  BY <1>1, <1>2, BirthsGrow
<1>3. CASE Ends
  BY <1>1, <1>3, EndsGrow DEF Ends, Declines, ServiceTypes
<1>4. CASE Restarts
  BY <1>1, <1>4, BootsGrow, Bounds DEF Restarts, Declines, ServiceTypes
<1> QED
  BY <1>2, <1>3, <1>4, ProcessSteps

-----------------------------------------------------------------------------
(***************************************************************************)
(* Types, and what is held where.                                          *)
(***************************************************************************)
LocalTypes ==
  /\ lock \in Commands \cup {NoOne} /\ pc \in [Commands -> Places]
  /\ seen \in [Commands -> 0 .. Builds] /\ mine \in [Commands -> 0 .. MaxProcs]
  /\ fd \in [Commands -> 0 .. MaxProcs] /\ sig \in [Commands -> {"SIGTERM", "SIGKILL"}]
  /\ \A c \in Commands : Holdings(c)

LEMMA EndIsLocal ==
  ASSUME LocalTypes, NEW c \in Commands, End(c)
  PROVE  LocalTypes'
<1>1. 0 \in 0 .. Builds /\ 0 \in 0 .. MaxProcs /\ NoOne \notin Commands
  BY Bounds
<1>2. /\ lock' \in Commands \cup {NoOne} /\ pc' \in [Commands -> Places]
      /\ seen' \in [Commands -> 0 .. Builds] /\ mine' \in [Commands -> 0 .. MaxProcs]
      /\ fd' \in [Commands -> 0 .. MaxProcs] /\ sig' \in [Commands -> {"SIGTERM", "SIGKILL"}]
  BY <1>1 DEF LocalTypes, End, Goto, Places, Waiting
<1>3. Holdings(c)'
  BY <1>1 DEF LocalTypes, End, Goto, Holdings, Waiting, Launching, Signalling
<1>4. ASSUME NEW d \in Commands \ {c}
      PROVE  Holdings(d)'
  <2>1. pc'[d] = pc[d] /\ mine'[d] = mine[d] /\ fd'[d] = fd[d]
    BY DEF LocalTypes, End, Goto
  <2>2. lock' = d <=> lock = d
    BY <1>1 DEF LocalTypes, End
  <2> QED
    BY <2>1, <2>2 DEF LocalTypes, Holdings
<1> QED
  BY <1>2, <1>3, <1>4 DEF LocalTypes

LEMMA LocalStays ==
  ASSUME ServiceInv, NEW c \in Commands, Begin(c) \/ Step(c) \/ Kill(c)
  PROVE  LocalTypes'
<1>1. ServiceTypes /\ LocalTypes
  BY DEF ServiceInv, ServiceTypeOK, ServiceTypes, LocalTypes
<1>2. NoOne \notin Commands /\ binary \in 0 .. Builds
  BY <1>1, Bounds DEF ServiceTypes
<1> USE DEF Goto
<1>3. CASE End(c)
  BY <1>1, <1>3, EndIsLocal
<1>4. CASE BeginStart(c) \/ BeginStop(c)
  BY <1>1, <1>2, <1>4 DEF BeginStart, BeginStop, LocalTypes, Holdings, localVars, Places, Waiting,
     Launching, Signalling
<1>5. CASE Lock(c)
  BY <1>1, <1>2, <1>5 DEF Lock, LocalTypes, Holdings, localVars, Places, Waiting, Launching, Signalling
<1>6. CASE Recheck(c) /\ ~End(c)
  BY <1>1, <1>2, <1>6 DEF Recheck, EndsWithoutEffect, LocalTypes, Holdings, Places, Waiting, Launching,
     Signalling
<1>7. CASE Launch(c)
  <2>1. PICK i \in Procs : mine' = [mine EXCEPT ![c] = i]
    BY <1>7 DEF Launch
  <2>2. i # 0 /\ i \in 0 .. MaxProcs
    BY Bounds
  <2> QED
    BY <1>1, <1>7, <2>1, <2>2 DEF Launch, LocalTypes, Holdings, Places, Waiting, Launching, Signalling
<1>8. CASE Verify(c) \/ LaunchFails(c)
  BY <1>1, <1>8 DEF Verify, LaunchFails, LocalTypes, Holdings, localVars, Places, Waiting, Launching,
     Signalling
<1>9. CASE Undo(c) \/ (Reap(c) /\ ~End(c))
  BY <1>1, <1>9 DEF Undo, Reap, EndsWithoutEffect, LocalTypes, Holdings, localVars, Places, Waiting,
     Launching, Signalling
<1>10. CASE (Reread(c) /\ ~End(c)) \/ Check(c)
  <2>1. PICK place \in {"open", "send", "remove"} :
          /\ pc[c] \in {"reread", "check"} /\ pc' = [pc EXCEPT ![c] = place]
          /\ place = "send" => pc[c] = "check"
          /\ UNCHANGED <<lock, localVars>>
    BY <1>10 DEF Reread, Check, Decide, EndsWithoutEffect
  <2> QED
    BY <1>1, <2>1 DEF LocalTypes, Holdings, localVars, Places, Waiting, Launching, Signalling
<1>11. CASE Open(c)
  <2>1. CASE pc' = [pc EXCEPT ![c] = "check"] /\ \E i \in At(record.id.pid) : fd' = [fd EXCEPT ![c] = i]
    <3>1. PICK i \in Procs : fd' = [fd EXCEPT ![c] = i]
      BY <2>1 DEF At
    <3>2. i # 0 /\ i \in 0 .. MaxProcs
      BY Bounds
    <3> QED
      BY <1>1, <1>11, <2>1, <3>1, <3>2 DEF Open, LocalTypes, Holdings, Places, Waiting, Launching,
         Signalling
  <2>2. CASE pc' = [pc EXCEPT ![c] = "remove"] /\ UNCHANGED fd
    BY <1>1, <1>11, <2>2 DEF Open, LocalTypes, Holdings, Places, Waiting, Launching, Signalling
  <2> QED
    BY <1>11, <2>1, <2>2 DEF Open
<1>12. CASE Send(c) \/ Wait(c)
  BY <1>1, <1>12 DEF Send, Wait, LocalTypes, Holdings, localVars, Places, Waiting, Launching, Signalling
<1>13. CASE Refuse(c) \/ WriteRecord(c) \/ Remove(c) \/ Kill(c)
  BY <1>3, <1>13 DEF Refuse, EndsWithoutEffect, WriteRecord, Remove, Kill
<1> QED
  BY <1>3, <1>4, <1>5, <1>6, <1>7, <1>8, <1>9, <1>10, <1>11, <1>12, <1>13 DEF Begin, Step

HistoryTypes ==
  /\ orphans \subseteq servers /\ servers \subseteq Procs /\ signalled \subseteq Procs
  /\ kills \in 0 .. Kills

LEMMA TypesStay ==
  ASSUME ServiceInv, Next
  PROVE  ServiceTypeOK'
<1>1. ServiceTypes /\ LocalTypes /\ RecordIsServers /\ \A c \in Commands : Knows(c)
  BY DEF ServiceInv, ServiceTypeOK, ServiceTypes, LocalTypes
<1>2. boot' \in 1 .. Boots /\ binary' \in 1 .. Builds
  <2>1. boot \in 1 .. Boots /\ binary \in 1 .. Builds /\ boot \in Nat
    BY <1>1, Numbers DEF ServiceTypes
  <2>2. CASE Reboot
    BY <2>1, <2>2, Bounds DEF Reboot
  <2>3. CASE ~Reboot
    BY <2>1, <2>3 DEF Next, Spawn, Exit, Rebuild, Begin, BeginStart, BeginStop, Kill, Step, Lock, Refuse,
       Recheck, Launch, Verify, WriteRecord, LaunchFails, Undo, Reap, Reread, Decide, Open, Check, Send,
       Wait, Remove, EndsWithoutEffect, systemVars
  <2> QED
    BY <2>2, <2>3
<1>3. LocalTypes'
  <2>1. CASE Spawn \/ (\E i \in Procs : Exit(i)) \/ Rebuild
    BY <1>1, <2>1 DEF Spawn, Exit, Rebuild, localVars, LocalTypes, Holdings
  <2>2. CASE Reboot
    <3>1. 0 \in 0 .. Builds /\ 0 \in 0 .. MaxProcs /\ NoOne \notin Commands
      BY Bounds
    <3> QED
      BY <2>2, <3>1 DEF Reboot, LocalTypes, Holdings, Places, Waiting, Launching, Signalling
  <2> QED
    BY <2>1, <2>2, LocalStays DEF Next
<1>4. record' \in [id : Identities, exe : 0 .. Builds]
  <2>1. ASSUME NEW c \in Commands, RecordMine(c), pc[c] \in Launching
        PROVE  record' \in [id : Identities, exe : 0 .. Builds]
    <3>1. mine[c] \in Procs
      BY <1>1, <2>1 DEF Knows, ServiceTypes
    <3> QED
      BY <1>1, <2>1, <3>1 DEF RecordMine, Record, ServiceTypes
  <2>2. NoRecord \in [id : Identities, exe : 0 .. Builds]
    BY Bounds DEF NoRecord, Record, Unborn, Identity, Identities
  <2>3. CASE UNCHANGED record
    BY <1>1, <2>3 DEF ServiceTypes
  <2>4. ASSUME NEW c \in Commands, WriteRecord(c) \/ LaunchFails(c) \/ Remove(c)
        PROVE  record' \in [id : Identities, exe : 0 .. Builds]
    BY <2>1, <2>2, <2>3, <2>4 DEF WriteRecord, LaunchFails, Remove, Launching
  <2> QED
    BY <2>3, <2>4 DEF Next, Spawn, Exit, Rebuild, Reboot, Begin, BeginStart, BeginStop, Kill, Step, Lock,
       Refuse, Recheck, Launch, Verify, Undo, Reap, Reread, Decide, Open, Check, Send, Wait,
       EndsWithoutEffect
<1>5. HistoryTypes'
  <2>1. CASE UNCHANGED <<servers, orphans, signalled, kills>>
    BY <1>1, <2>1 DEF ServiceTypes, HistoryTypes
  <2>2. ASSUME NEW c \in Commands, Launch(c)
        PROVE  HistoryTypes'
    BY <1>1, <2>2 DEF Launch, ServiceTypes, HistoryTypes
  <2>3. ASSUME NEW c \in Commands, Send(c)
        PROVE  HistoryTypes'
    BY <1>1, <2>3 DEF Send, ServiceTypes, HistoryTypes, Knows
  <2>4. ASSUME NEW c \in Commands, Kill(c)
        PROVE  HistoryTypes'
    <3>1. \A i \in Procs : mine[c] = i => i \in servers
      <4>1. 0 \notin Procs
        BY Bounds
      <4> QED
        BY <4>1, <1>1 DEF LocalTypes, Holdings, Knows
    <3>2. kills' \in 0 .. Kills
      BY <1>1, <2>4, Bounds DEF Kill, ServiceTypes
    <3> QED
      BY <1>1, <2>4, <3>1, <3>2 DEF Kill, ServiceTypes, HistoryTypes
  <2> QED
    BY <2>1, <2>2, <2>3, <2>4 DEF Next, Spawn, Exit, Rebuild, Reboot, Begin, BeginStart, BeginStop, Step,
       Lock, Refuse, Recheck, Verify, WriteRecord, LaunchFails, Undo, Reap, Reread, Decide, Open, Check,
       Wait, Remove, EndsWithoutEffect, historyVars
<1> QED
  BY <1>2, <1>3, <1>4, <1>5, ProcessesStayOrdered DEF ServiceTypeOK, ServiceTypes, LocalTypes,
     HistoryTypes

-----------------------------------------------------------------------------
(***************************************************************************)
(* What the holder of the lock knows.                                      *)
(***************************************************************************)
\* Nobody else holds the lock, or is launching, while c is past it.
LEMMA OneHolder ==
  ASSUME ServiceTypeOK, NEW c \in Commands, pc[c] \notin Waiting,
         NEW d \in Commands, d # c
  PROVE  pc[d] \in Waiting /\ mine[d] = 0
BY DEF ServiceTypeOK, Holdings, Waiting, Launching

\* No process has the identity of no record.
LEMMA NobodyUnrecorded ==
  ASSUME Ordered, record = NoRecord, NEW i \in Procs, IsBorn(i)
  PROVE  record.id # proc[i]
<1>1. proc[i].pid \in Pids /\ 0 \notin Pids
  BY ServiceAssumption DEF Ordered
<1>2. record.id.pid = 0
  BY DEF NoRecord, Record, Unborn, Identity
<1> QED
  BY <1>1, <1>2

\* A record that matches nothing is that of no running process.
LEMMA NoMatchNotRunning ==
  ASSUME Ordered, ~Matches, NEW i \in Procs, proc[i] = record.id
  PROVE  life[i] # "running"
BY DEF Ordered, IsBorn, Visible, Matches, At

\* Other processes' births, ends and boots do not falsify it.
LEMMA KnowledgeKept ==
  ASSUME ServiceTypeOK, Ordered', RecordIsServers, Grows,
         NEW c \in Commands, Knows(c),
         UNCHANGED <<pc[c], mine[c], fd[c], record>>, servers \subseteq servers'
  PROVE  Knows(c)'
<1>1. servers \subseteq Procs /\ \A s \in servers : IsBorn(s) /\ proc'[s] = proc[s] /\ IsBorn(s)'
  BY DEF ServiceTypeOK, ServiceTypes, RecordIsServers, Grows
<1>2. ASSUME NEW i \in Procs, proc'[i] = record.id, record # NoRecord, IsBorn(i)'
      PROVE  IsBorn(i) /\ proc[i] = record.id
  <2>1. PICK s \in servers : record.id = proc[s]
    BY <1>2 DEF RecordIsServers
  <2>2. s = i
    BY <1>1, <1>2, <2>1 DEF Ordered
  <2> QED
    BY <1>1, <2>1, <2>2
<1>3. \A i \in Procs : Visible(i)' => IsBorn(i)'
  BY DEF Visible, IsBorn
<1>4. pc[c] \in Launching =>
        /\ mine[c] \in servers' /\ proc'[mine[c]] = proc[mine[c]]
        /\ life'[mine[c]] = "running" => life[mine[c]] = "running"
  BY <1>1 DEF Knows, Grows
<1>5. pc[c] \in Signalling =>
        \A i \in Procs : Visible(i)' /\ proc'[i] = record.id => fd[c] = i
  BY <1>2, <1>3 DEF Knows, Grows, Signalling
<1>6. pc[c] \in {"send", "wait"} => fd[c] \in servers' /\ proc'[fd[c]] = record.id
  BY <1>1 DEF Knows
<1>7. pc[c] = "remove" => \A i \in Procs : proc'[i] = record.id => life'[i] # "running"
  BY <1>2 DEF Knows, Grows, IsBorn
<1>8. /\ pc[c] \in {"launch", "verify", "write"} => record = NoRecord
      /\ pc[c] \in {"undo", "reap", "unlink"} => record = NoRecord \/ record.id = proc'[mine[c]]
      /\ pc[c] \in {"reap", "unlink"} => life'[mine[c]] # "running"
      /\ pc[c] \in {"open", "check", "send", "wait", "remove"} => record # NoRecord
  <2>1. pc[c] \in {"undo", "reap", "unlink"} => pc[c] \in Launching
    BY DEF Launching
  <2>2. pc[c] \in {"reap", "unlink"} => pc[c] \in Launching
    BY DEF Launching
  <2> QED
    BY <1>4, <2>1, <2>2, Zenon DEF Knows
<1>9. pc'[c] = pc[c] /\ mine'[c] = mine[c] /\ fd'[c] = fd[c] /\ record' = record
  OBVIOUS
<1> QED
  BY <1>4, <1>5, <1>6, <1>7, <1>8, <1>9, Zenon DEF Knows

LEMMA OthersKnow ==
  ASSUME ServiceInv, Next, NEW c \in Commands, Begin(c) \/ Step(c) \/ Kill(c),
         NEW d \in Commands, d # c
  PROVE  Knows(d)'
<1>1. ServiceTypeOK /\ RecordIsServers /\ Knows(d) /\ Grows /\ Ordered'
  BY ProcessesStayOrdered DEF ServiceInv
<1>2. UNCHANGED <<pc[d], mine[d], fd[d]>>
  BY <1>1 DEF ServiceTypeOK, ServiceTypes, Begin, BeginStart, BeginStop, Kill, Step, Lock, Refuse,
     Recheck, Launch, Verify, WriteRecord, LaunchFails, Undo, Reap, Reread, Decide, Open, Check, Send,
     Wait, Remove, EndsWithoutEffect, End, Goto, localVars
<1>3. CASE pc[c] \notin Waiting
  BY <1>1, <1>2, <1>3, OneHolder DEF Knows, Waiting, Launching, Signalling
<1>4. CASE pc[c] \in Waiting
  <2>1. UNCHANGED <<record, servers>>
    BY <1>4 DEF Waiting, Begin, BeginStart, BeginStop, Kill, Step, Lock, Refuse, Recheck, Launch, Verify,
       WriteRecord, LaunchFails, Undo, Reap, Reread, Open, Check, Send, Wait, Remove, EndsWithoutEffect,
       historyVars
  <2> QED
    BY <1>1, <1>2, <2>1, KnowledgeKept
<1> QED
  BY <1>3, <1>4

LEMMA HolderKnows ==
  ASSUME ServiceInv, Next, NEW c \in Commands, Begin(c) \/ Step(c) \/ Kill(c)
  PROVE  Knows(c)'
<1>1. /\ ServiceTypeOK /\ ServiceTypes /\ RecordIsServers /\ Knows(c) /\ Grows /\ Ordered /\ Ordered'
      /\ servers \subseteq Procs /\ \A s \in servers : IsBorn(s)
  BY ProcessesStayOrdered DEF ServiceInv, ServiceTypeOK, ServiceTypes, RecordIsServers
<1> DEFINE Silent == {"idle", "start", "stop", "recheck", "reread"}
<1>2. \A place : pc' = [pc EXCEPT ![c] = place] => pc'[c] = place
  BY <1>1 DEF ServiceTypes
<1>3. CASE pc'[c] \in Silent
  BY <1>3 DEF Knows, Launching, Signalling
<1>4. CASE End(c) \/ Begin(c) \/ Lock(c)
  BY <1>2, <1>3, <1>4 DEF End, Begin, BeginStart, BeginStop, Lock, Goto
<1>5. CASE Recheck(c) /\ ~End(c)
  BY <1>2, <1>5 DEF Recheck, EndsWithoutEffect, Goto, Knows, Launching, Signalling
<1>6. CASE Launch(c)
  <2>1. PICK i \in Procs : mine' = [mine EXCEPT ![c] = i] /\ servers' = servers \cup {i}
    BY <1>6 DEF Launch
  <2>2. mine'[c] \in servers'
    BY <1>1, <2>1 DEF ServiceTypes
  <2> QED
    BY <1>1, <1>2, <1>6, <2>2 DEF Launch, Goto, Knows, Launching, Signalling
<1>7. CASE Verify(c)
  BY <1>1, <1>2, <1>7 DEF Verify, Goto, Knows, Launching, Signalling, localVars, historyVars
<1>8. CASE LaunchFails(c)
  <2>1. record' = NoRecord \/ record'.id = proc[mine[c]]
    BY <1>1, <1>8 DEF LaunchFails, Knows, RecordMine, Record
  <2> QED
    BY <1>1, <1>2, <1>8, <2>1 DEF LaunchFails, Goto, Knows, Launching, Signalling, localVars, historyVars,
       systemVars
<1>9. CASE Undo(c) \/ (Reap(c) /\ ~End(c))
  <2>1. mine[c] \in servers /\ mine[c] \in Procs
    BY <1>1, <1>9 DEF Undo, Reap, Knows, Launching
  <2>2. life'[mine[c]] # "running"
    BY <1>1, <1>9, <2>1 DEF Undo, Reap, EndsWithoutEffect, ServiceTypes
  <2>3. pc'[c] \in {"reap", "unlink"} /\ UNCHANGED <<record, proc, servers, mine>>
    BY <1>2, <1>9 DEF Undo, Reap, EndsWithoutEffect, Goto, localVars, historyVars
  <2>4. record = NoRecord \/ record.id = proc[mine[c]]
    BY <1>1, <1>9 DEF Undo, Reap, Knows
  <2> QED
    BY <2>1, <2>2, <2>3, <2>4 DEF Knows, Signalling
<1>10. ASSUME NEW place \in {"open", "send"}, Decide(c, place), record # NoRecord,
              place = "send" => pc[c] = "check"
       PROVE  Knows(c)'
  <2>1. UNCHANGED <<record, proc, life, servers, fd, mine>>
    BY <1>10 DEF Decide, systemVars, localVars, historyVars
  <2>2. CASE ~Matches
    <3>1. pc'[c] = "remove"
      BY <1>2, <1>10, <2>2 DEF Decide, Goto
    <3>2. \A i \in Procs : proc[i] = record.id => life[i] # "running"
      BY <1>1, <2>2, NoMatchNotRunning
    <3> QED
      BY <1>10, <2>1, <3>1, <3>2 DEF Knows, Launching, Signalling
  <2>3. CASE Matches /\ place = "open"
    BY <1>2, <1>10, <2>1, <2>3 DEF Decide, Goto, Knows, Launching, Signalling
  <2>4. CASE Matches /\ place = "send"
    <3>1. PICK s \in servers : record.id = proc[s]
      BY <1>1, <1>10 DEF RecordIsServers
    <3>2. PICK i \in Procs : Visible(i) /\ proc[i].start = record.id.start
      BY <2>4 DEF Matches, At
    <3>3. i = s
      BY <1>1, <2>4, <3>1, <3>2 DEF Ordered, Visible, IsBorn, Matches
    <3>4. \A j \in Procs : Visible(j) /\ proc[j] = record.id => fd[c] = j
      BY <1>1, <1>10, <2>4 DEF Knows, Signalling
    <3>5. pc'[c] = "send" /\ fd[c] = s
      BY <1>2, <1>10, <2>4, <3>1, <3>2, <3>3, <3>4 DEF Decide, Goto
    <3> QED
      BY <1>10, <2>1, <3>1, <3>4, <3>5 DEF Knows, Launching, Visible
  <2> QED
    BY <2>2, <2>3, <2>4
<1>11. CASE (Reread(c) /\ ~End(c)) \/ Check(c)
  BY <1>1, <1>10, <1>11 DEF Reread, EndsWithoutEffect, Check, Knows
<1>12. CASE Open(c)
  <2>1. record # NoRecord /\ UNCHANGED <<record, proc, life, servers, mine>>
    BY <1>1, <1>12 DEF Open, Knows, systemVars, historyVars
  <2>2. CASE At(record.id.pid) = {} /\ pc'[c] = "remove"
    BY <2>1, <2>2 DEF Knows, Launching, Signalling, At, Visible
  <2>3. CASE pc'[c] = "check" /\ \E i \in At(record.id.pid) : fd' = [fd EXCEPT ![c] = i]
    <3>1. PICK i \in Procs : Visible(i) /\ proc[i].pid = record.id.pid /\ fd'[c] = i
      BY <1>1, <2>3 DEF At, ServiceTypes
    <3>2. \A j \in Procs : Visible(j) /\ proc[j] = record.id => j = i
      BY <1>1, <3>1 DEF Ordered, IsBorn, Visible
    <3> QED
      BY <2>1, <2>3, <3>1, <3>2 DEF Knows, Launching, Visible
  <2> QED
    BY <1>2, <1>12, <2>2, <2>3 DEF Open, Goto
<1>13. CASE Send(c) \/ Wait(c)
  <2>1. /\ pc[c] \in {"send", "wait"} /\ fd[c] \in servers /\ proc[fd[c]] = record.id
        /\ record # NoRecord /\ UNCHANGED <<record, proc, servers, mine, fd>>
        /\ \A i \in Procs : Visible(i) /\ proc[i] = record.id => fd[c] = i
    BY <1>1, <1>13 DEF Send, Wait, Knows, Signalling, systemVars, localVars, historyVars
  <2>2. CASE pc'[c] \in {"wait", "check"}
    <3>1. \A i \in Procs : Visible(i)' /\ proc[i] = record.id => fd[c] = i
      <4>1. \A i \in Procs : Visible(i)' => Visible(i)
        BY <1>1, <1>13 DEF Send, Wait, Visible, ServiceTypes, systemVars
      <4> QED
        BY <2>1, <4>1
    <3> QED
      BY <2>1, <2>2, <3>1 DEF Knows, Launching
  <2>3. CASE pc'[c] = "remove"
    <3>1. life[fd[c]] # "running" /\ life' = life
      BY <1>2, <1>13, <2>3 DEF Send, Wait, Goto, Dead, systemVars
    <3>2. \A i \in Procs : proc[i] = record.id => life[i] # "running"
      BY <2>1, <3>1 DEF Visible
    <3> QED
      BY <2>1, <2>3, <3>1, <3>2 DEF Knows, Launching, Signalling
  <2> QED
    BY <1>2, <1>13, <2>2, <2>3 DEF Send, Wait, Goto
<1>14. CASE Refuse(c) \/ WriteRecord(c) \/ Remove(c) \/ Kill(c)
  BY <1>4, <1>14 DEF Refuse, EndsWithoutEffect, WriteRecord, Remove, Kill
<1> QED
  BY <1>4, <1>5, <1>6, <1>7, <1>8, <1>9, <1>11, <1>12, <1>13, <1>14 DEF Step

LEMMA KnowledgeStays ==
  ASSUME ServiceInv, Next
  PROVE  \A c \in Commands : Knows(c)'
<1>1. /\ ServiceTypeOK /\ RecordIsServers /\ Grows /\ Ordered'
      /\ \A c \in Commands : Knows(c)
  BY ProcessesStayOrdered DEF ServiceInv
<1>2. CASE Spawn \/ (\E i \in Procs : Exit(i)) \/ Rebuild
  <2>1. UNCHANGED <<pc, mine, fd, record, servers>>
    BY <1>2 DEF Spawn, Exit, Rebuild, localVars, historyVars
  <2> QED
    BY <1>1, <2>1, KnowledgeKept
<1>3. CASE Reboot
  BY <1>3 DEF Reboot, Knows, Launching, Signalling
<1>4. ASSUME NEW c \in Commands, Begin(c) \/ Step(c) \/ Kill(c), NEW d \in Commands
      PROVE  Knows(d)'
  BY <1>4, OthersKnow, HolderKnows
<1> QED
  BY <1>2, <1>3, <1>4 DEF Next

-----------------------------------------------------------------------------
(***************************************************************************)
(* The record, the running servers and the signals.                        *)
(***************************************************************************)
\* The record changes at three places, and is the launched server's or none.
LEMMA RecordMoves ==
  ASSUME Next
  PROVE  \/ UNCHANGED record
         \/ \E c \in Commands :
              /\ UNCHANGED <<proc, servers, orphans>>
              /\ \/ pc[c] = "write" /\ RecordMine(c) /\ (WriteRecord(c) \/ LaunchFails(c))
                 \/ Remove(c)
BY DEF Next, Spawn, Exit, Rebuild, Reboot, Begin, BeginStart, BeginStop, Kill, Step, Lock, Refuse,
   Recheck, Launch, Verify, WriteRecord, LaunchFails, Undo, Reap, Reread, Decide, Open, Check, Send,
   Wait, Remove, EndsWithoutEffect, historyVars, systemVars

\* A start adds the process it launches, which is born.
LEMMA ServersMove ==
  ASSUME ServiceInv, Next
  PROVE  servers \subseteq servers' /\ orphans \subseteq orphans'
         /\ \A i \in servers' \ servers : IsBorn(i)' /\ InLaunch(i)'
<1>1. CASE UNCHANGED <<servers, orphans>>
  BY <1>1
<1>2. ASSUME NEW c \in Commands, Launch(c)
      PROVE  /\ servers \subseteq servers' /\ orphans' = orphans
             /\ \A i \in servers' \ servers : IsBorn(i)' /\ InLaunch(i)'
  <2>1. PICK i \in Procs, p \in Pids :
          Born(i, p) /\ mine' = [mine EXCEPT ![c] = i] /\ servers' = servers \cup {i}
    BY <1>2 DEF Launch
  <2>2. life'[i] = "running" /\ mine'[c] = i
    BY <2>1 DEF Born, ServiceInv, ServiceTypeOK, ServiceTypes
  <2> QED
    BY <1>2, <2>1, <2>2 DEF Launch, IsBorn, InLaunch
<1>3. ASSUME NEW c \in Commands, Kill(c)
      PROVE  servers' = servers /\ orphans \subseteq orphans'
  BY <1>3 DEF Kill
<1> QED
  BY <1>1, <1>2, <1>3 DEF Next, Spawn, Exit, Rebuild, Reboot, Begin, BeginStart, BeginStop, Step, Lock,
     Refuse, Recheck, Verify, WriteRecord, LaunchFails, Undo, Reap, Reread, Decide, Open, Check, Send,
     Wait, Remove, EndsWithoutEffect, historyVars

LEMMA RecordStaysServers ==
  ASSUME ServiceInv, Next
  PROVE  RecordIsServers'
<1>1. /\ RecordIsServers /\ Grows /\ servers \subseteq Procs /\ \A c \in Commands : Knows(c)
      /\ servers \subseteq servers' /\ \A i \in servers' \ servers : IsBorn(i)'
  BY ProcessesStayOrdered, ServersMove DEF ServiceInv, ServiceTypeOK, ServiceTypes
<1>2. \A s \in servers' : IsBorn(s)'
  BY <1>1 DEF RecordIsServers, Grows
<1>3. CASE UNCHANGED record
  BY <1>1, <1>2, <1>3 DEF RecordIsServers, Grows
<1>4. ASSUME NEW c \in Commands, RecordMine(c), pc[c] = "write", UNCHANGED proc
      PROVE  \E s \in servers' : record'.id = proc'[s]
  <2>1. mine[c] \in servers
    BY <1>1, <1>4 DEF Knows, Launching
  <2> QED
    BY <1>1, <1>4, <2>1 DEF RecordMine, Record
<1>5. ASSUME NEW c \in Commands, Remove(c)
      PROVE  record' = NoRecord
  BY <1>5 DEF Remove
<1> QED
  BY <1>2, <1>3, <1>4, <1>5, RecordMoves DEF RecordIsServers

LEMMA SignalsStay ==
  ASSUME ServiceInv, Next
  PROVE  OnlyServersSignalled'
<1>1. OnlyServersSignalled /\ servers \subseteq servers' /\ \A c \in Commands : Knows(c)
  BY ServersMove DEF ServiceInv
<1>2. CASE UNCHANGED signalled
  BY <1>1, <1>2 DEF OnlyServersSignalled
<1>3. ASSUME NEW c \in Commands, Send(c)
      PROVE  OnlyServersSignalled'
  BY <1>1, <1>3 DEF Send, Knows, OnlyServersSignalled
<1> QED
  BY <1>2, <1>3 DEF Next, Spawn, Exit, Rebuild, Reboot, Begin, BeginStart, BeginStop, Kill, Step, Lock,
     Refuse, Recheck, Launch, Verify, WriteRecord, LaunchFails, Undo, Reap, Reread, Decide, Open, Check,
     Wait, Remove, EndsWithoutEffect, historyVars

\* A process that is launching stays with its start, is recorded, or is known
\* not to run.
LEMMA LaunchMoves ==
  ASSUME ServiceInv, Next, NEW i \in servers \ orphans, InLaunch(i),
         life'[i] = "running", i \notin orphans'
  PROVE  record'.id = proc'[i] \/ InLaunch(i)'
<1>1. /\ ServiceTypeOK /\ ServiceTypes /\ Grows /\ i \in Procs /\ IsBorn(i) /\ proc'[i] = proc[i]
      /\ life[i] = "running" /\ \A c \in Commands : Knows(c)
  BY ProcessesStayOrdered DEF ServiceInv, ServiceTypeOK, ServiceTypes, RecordIsServers, Grows
<1>2. PICK d \in Commands : mine[d] = i
  BY DEF InLaunch
<1>3. pc[d] \in Launching /\ pc[d] \notin {"reap", "unlink"}
  <2>1. i # 0
    BY <1>1, Bounds
  <2> QED
    BY <1>1, <1>2, <2>1 DEF ServiceTypeOK, Holdings, Knows
<1>4. CASE mine'[d] = mine[d]
  BY <1>2, <1>4 DEF InLaunch
<1>5. CASE mine'[d] # mine[d]
  <2>1. ~Reboot
    BY <1>1 DEF Reboot
  <2>2. PICK c \in Commands : Begin(c) \/ Step(c) \/ Kill(c)
    BY <1>5, <2>1 DEF Next, Spawn, Exit, Rebuild, localVars
  <2>3. c = d
    BY <1>1, <1>5, <2>2 DEF ServiceTypes, Begin, BeginStart, BeginStop, Kill, Step, Lock, Refuse,
       Recheck, Launch, Verify, WriteRecord, LaunchFails, Undo, Reap, Reread, Decide, Open, Check, Send,
       Wait, Remove, EndsWithoutEffect, End, localVars
  <2>4. WriteRecord(d) \/ Kill(d)
    BY <1>3, <1>5, <2>2, <2>3 DEF Launching, Begin, BeginStart, BeginStop, Step, Lock, Refuse, Recheck,
       Launch, Verify, LaunchFails, Undo, Reap, Reread, Decide, Open, Check, Send, Wait, Remove, localVars
  <2>5. CASE WriteRecord(d)
    BY <1>1, <1>2, <2>5 DEF WriteRecord, RecordMine, Record
  <2>6. CASE Kill(d)
    BY <1>1, <1>2, <2>6 DEF Kill
  <2> QED
    BY <2>4, <2>5, <2>6
<1> QED
  BY <1>4, <1>5

LEMMA RunningStaysKnown ==
  ASSUME ServiceInv, Next
  PROVE  RunningIsKnown'
<1>1. /\ ServiceTypeOK /\ ServiceTypes /\ Ordered /\ Grows /\ RunningIsKnown
      /\ servers \subseteq Procs /\ (\A s \in servers : IsBorn(s)) /\ \A c \in Commands : Knows(c)
  BY ProcessesStayOrdered DEF ServiceInv, ServiceTypeOK, ServiceTypes, RecordIsServers
<1> SUFFICES ASSUME NEW i \in servers' \ orphans', life'[i] = "running"
             PROVE  record'.id = proc'[i] \/ InLaunch(i)'
  BY DEF RunningIsKnown
<1>2. CASE i \notin servers
  BY <1>2, ServersMove
<1>3. CASE i \in servers
  <2>1. i \in servers \ orphans /\ life[i] = "running" /\ proc'[i] = proc[i] /\ i \in Procs
    BY <1>1, <1>3, ServersMove DEF Grows
  <2>2. CASE InLaunch(i)
    BY <2>1, <2>2, LaunchMoves
  <2>3. CASE record.id = proc[i]
    <3>1. CASE UNCHANGED record
      BY <2>1, <2>3, <3>1
    <3>2. ASSUME NEW c \in Commands, pc[c] = "write"
          PROVE  FALSE
      BY <1>1, <1>3, <2>1, <2>3, <3>2, NobodyUnrecorded DEF Knows
    <3>3. ASSUME NEW c \in Commands, Remove(c)
          PROVE  FALSE
      <4>1. CASE pc[c] = "remove"
        BY <1>1, <2>1, <2>3, <4>1 DEF Knows
      <4>2. CASE pc[c] = "unlink"
        <5>1. record # NoRecord
          BY <1>1, <1>3, <2>1, <2>3, NobodyUnrecorded
        <5>2. mine[c] \in servers /\ proc[mine[c]] = proc[i] /\ life[mine[c]] # "running"
          BY <1>1, <2>3, <4>2, <5>1 DEF Knows, Launching
        <5>3. mine[c] = i
          BY <1>1, <1>3, <2>1, <5>2 DEF Ordered
        <5> QED
          BY <2>1, <5>2, <5>3
      <4> QED
        BY <3>3, <4>1, <4>2 DEF Remove
    <3> QED
      BY <3>1, <3>2, <3>3, RecordMoves
  <2> QED
    BY <1>1, <2>1, <2>2, <2>3 DEF RunningIsKnown
<1> QED
  BY <1>2, <1>3

-----------------------------------------------------------------------------
(***************************************************************************)
(* The invariant.                                                          *)
(***************************************************************************)
LEMMA InvInit == Init => ServiceInv
<1> SUFFICES ASSUME Init PROVE ServiceInv
  OBVIOUS
<1>1. ServiceTypeOK
  <2>1. Unborn \in Identities
    BY Bounds DEF Unborn, Identity, Identities
  <2>2. NoRecord \in [id : Identities, exe : 0 .. Builds]
    BY <2>1, Bounds DEF NoRecord, Record
  <2>3. 1 \in 1 .. Boots /\ 1 \in 1 .. Builds /\ 0 \in 0 .. Kills
    <3>1. Boots # 0 /\ Builds # 0
      BY ServiceAssumption, Zenon
    <3> QED
      BY <3>1, Bounds
  <2>4. ServiceTypes
    BY <2>1, <2>2, <2>3, Bounds DEF Init, ServiceTypes, Lives, Places, Waiting
  <2>5. \A c \in Commands : Holdings(c)
    BY Bounds DEF Init, Holdings, Waiting, Launching, Signalling
  <2> QED
    BY <2>4, <2>5 DEF ServiceTypeOK
<1>2. Ordered
  BY Bounds DEF Init, Ordered, IsBorn
<1>3. RecordIsServers /\ OnlyServersSignalled /\ RunningIsKnown
  BY DEF Init, RecordIsServers, OnlyServersSignalled, RunningIsKnown
<1>4. \A c \in Commands : Knows(c)
  BY DEF Init, Knows, Launching, Signalling
<1> QED
  BY <1>1, <1>2, <1>3, <1>4 DEF ServiceInv

LEMMA InvStep == ServiceInv /\ [Next]_vars => ServiceInv'
<1> SUFFICES ASSUME ServiceInv, [Next]_vars PROVE ServiceInv'
  OBVIOUS
<1>1. CASE Next
  BY <1>1, TypesStay, ProcessesStayOrdered, RecordStaysServers, KnowledgeStays, SignalsStay,
     RunningStaysKnown DEF ServiceInv
<1>2. CASE UNCHANGED vars
  <2> USE <1>2 DEF vars, systemVars, localVars, historyVars
  <2>1. ServiceTypeOK'
    BY DEF ServiceInv, ServiceTypeOK, ServiceTypes, Holdings
  <2>2. Ordered' /\ RecordIsServers'
    BY DEF ServiceInv, Ordered, RecordIsServers, IsBorn, Visible
  <2>3. OnlyServersSignalled' /\ RunningIsKnown'
    BY DEF ServiceInv, OnlyServersSignalled, RunningIsKnown, InLaunch
  <2>4. \A c \in Commands : Knows(c)'
    BY DEF ServiceInv, Knows, Visible
  <2> QED
    BY <2>1, <2>2, <2>3, <2>4 DEF ServiceInv
<1> QED
  BY <1>1, <1>2

LEMMA InvAlways == Spec => []ServiceInv
BY InvInit, InvStep, PTL DEF Spec

(***************************************************************************)
(* Every variable has its type, the control lock has one holder, and a     *)
(* command has what each place needs (control_lock, start_service,         *)
(* stop_service).                                                          *)
(***************************************************************************)
THEOREM ServiceTypeCorrect == Spec => []ServiceTypeOK
<1>1. ServiceInv => ServiceTypeOK
  BY DEF ServiceInv
<1> QED
  BY <1>1, InvAlways, PTL

(***************************************************************************)
(* However PIDs are reused, a stop signals only servers that were launched *)
(* by a start (_signal_if_owned).                                          *)
(***************************************************************************)
THEOREM SignalsAreForServers == Spec => []OnlyServersSignalled
<1>1. ServiceInv => OnlyServersSignalled
  BY DEF ServiceInv
<1> QED
  BY <1>1, InvAlways, PTL

(***************************************************************************)
(* A running server is recorded, or its start is busy with it or was       *)
(* killed, and there are never two (start_service, stop_service).          *)
(***************************************************************************)
THEOREM OneRecordedServer == Spec => []RunningServerIsRecorded
<1>1. ASSUME ServiceInv PROVE RunningServerIsRecorded
  <2>1. /\ ServiceTypeOK /\ Ordered /\ RunningIsKnown /\ \A c \in Commands : Knows(c)
        /\ servers \subseteq Procs /\ \A s \in servers : IsBorn(s)
    BY <1>1 DEF ServiceInv, ServiceTypeOK, ServiceTypes, RecordIsServers
  <2>2. ASSUME NEW i \in servers, NEW c \in Commands, mine[c] = i, life[i] = "running",
               NEW j \in servers, record.id = proc[j]
        PROVE  i = j
    <3>1. pc[c] \in Launching /\ record # NoRecord
      <4>1. i # 0
        BY <2>1, Bounds
      <4> QED
        BY <2>1, <2>2, <4>1, NobodyUnrecorded DEF ServiceTypeOK, Holdings
    <3>2. proc[i] = proc[j]
      BY <2>1, <2>2, <3>1 DEF Knows, Launching
    <3> QED
      BY <2>1, <3>2 DEF Ordered
  <2>3. ASSUME NEW i \in servers, NEW c \in Commands, mine[c] = i,
               NEW j \in servers, NEW d \in Commands, mine[d] = j
        PROVE  i = j
    <3>1. i # 0 /\ j # 0
      BY <2>1, Bounds
    <3>2. pc[c] \notin Waiting /\ pc[d] \notin Waiting
      BY <2>1, <2>3, <3>1 DEF ServiceTypeOK, Holdings, Launching, Waiting
    <3>3. c = d
      BY <2>1, <3>2 DEF ServiceTypeOK, Holdings
    <3> QED
      BY <2>3, <3>3
  <2>4. ASSUME NEW i \in servers \ orphans, NEW j \in servers \ orphans,
               life[i] = "running", life[j] = "running"
        PROVE  i = j
    <3>1. CASE record.id = proc[i] /\ record.id = proc[j]
      BY <2>1, <3>1 DEF Ordered
    <3>2. CASE record.id # proc[i] /\ record.id = proc[j]
      BY <2>1, <2>2, <2>4, <3>2 DEF RunningIsKnown, InLaunch
    <3>3. CASE record.id = proc[i] /\ record.id # proc[j]
      BY <2>1, <2>2, <2>4, <3>3 DEF RunningIsKnown, InLaunch
    <3>4. CASE record.id # proc[i] /\ record.id # proc[j]
      BY <2>1, <2>3, <2>4, <3>4 DEF RunningIsKnown, InLaunch
    <3> QED
      BY <3>1, <3>2, <3>3, <3>4
  <2> QED
    BY <2>1, <2>4 DEF RunningServerIsRecorded, RunningIsKnown
<1> QED
  BY <1>1, InvAlways, PTL

(***************************************************************************)
(* The record of a running server is neither removed nor replaced          *)
(* (_remove_record, _terminate_failed_launch).                             *)
(***************************************************************************)
THEOREM RecordIsKept == Spec => RecordKeptWhileRunning
<1> DEFINE Keeps == \A i \in Procs : life[i] = "running" /\ record.id = proc[i] =>
                      life'[i] # "running" \/ record'.id = proc[i]
<1>1. ASSUME ServiceInv, Next
      PROVE  Keeps
  <2> SUFFICES ASSUME NEW i \in Procs, life[i] = "running", record.id = proc[i]
               PROVE  record'.id = proc[i]
    OBVIOUS
  <2>1. /\ Ordered /\ IsBorn(i) /\ servers \subseteq Procs /\ (\A s \in servers : IsBorn(s))
        /\ \A c \in Commands : Knows(c)
    BY <1>1 DEF ServiceInv, ServiceTypeOK, ServiceTypes, RecordIsServers, IsBorn
  <2>2. record # NoRecord
    BY <2>1, NobodyUnrecorded
  <2>3. ASSUME NEW c \in Commands
        PROVE  pc[c] # "write" /\ ~Remove(c)
    <3>1. pc[c] # "write" /\ pc[c] # "remove"
      BY <2>1, <2>2 DEF Knows
    <3>2. pc[c] # "unlink"
      BY <2>1, <2>2 DEF Knows, Launching, Ordered
    <3> QED
      BY <3>1, <3>2 DEF Remove
  <2> QED
    BY <1>1, <2>3, RecordMoves
<1>2. ServiceInv /\ [Next]_vars => [Keeps]_vars
  BY <1>1
<1> QED
  BY <1>2, InvAlways, PTL DEF Spec, RecordKeptWhileRunning

=============================================================================
