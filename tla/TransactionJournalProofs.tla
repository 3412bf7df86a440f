----------------------- MODULE TransactionJournalProofs -----------------------
(***************************************************************************)
(* Proofs about TransactionJournal for every set of children and every     *)
(* bound on commits, checkpoints and faults.                               *)
(***************************************************************************)
EXTENDS TransactionJournal, TLAPS

USE DEF childVars, rootVars, journalVars, commandVars, historyVars, faultVars

-----------------------------------------------------------------------------
(***************************************************************************)
(* The trees and commits of the root.                                      *)
(***************************************************************************)
Trees == [cp : 0 .. MaxCheckpoints, links : [Children -> 0 .. MaxCommits]]
RootCommits == [parent : 0 .. MaxRoots, tree : Trees]
GitTyped ==
  /\ commits \in Seq(RootCommits)
  /\ index \in Trees /\ indexDisk \in Trees
  /\ rootDisk <= root
  /\ kills \in Nat

(***************************************************************************)
(* The running command: what it will write is of the transaction it read,  *)
(* in the phase the command is for; once it is written it is the journal,  *)
(* and after the retirement's rename the retired name holds it.            *)
(***************************************************************************)
Writing == {"harden", "refs", "barrier", "recheck", "mkdir", "parent", "replace"}
Written == {"sync", "retire", "control", "rename", "duplicate", "unlink"}
Retired == {"destination", "source"}
Phase(command) ==
  IF command = "prepare" THEN "prepared"
  ELSE IF command = "finalize" THEN "committed" ELSE "prepare"
CommandHasJournal ==
  /\ step = "idle" <=> cmd = "none"
  /\ cmd # "none" => value.cp \in Checkpoints /\ value.phase = Phase(cmd)
  /\ cmd = "record" => value.children[who] # None
  /\ cmd = "begin" => step \in {"mkdir", "parent", "replace", "sync"}
  /\ step \in Written \cup Retired => step = "sync" \/ cmd = "finalize"
  /\ step \in Writing => IF cmd = "begin" THEN txn = Nothing ELSE txn.cp = value.cp
  /\ step \in Written => txn = value
  /\ step \in Retired => txn = Nothing
  /\ step \in Retired \cup {"duplicate", "unlink"} => done[value.cp] = value
  /\ step \in {"unlink", "source"} => doneDisk = done
  /\ step \in {"retire", "control", "rename", "duplicate"} => txnDisk = txn
  /\ step = "recheck" /\ cmd = "finalize" => txnDisk = txn

(***************************************************************************)
(* What the command will write is durable as far as its barrier has come.  *)
(***************************************************************************)
Binds(journal) ==
  /\ commits[journal.commit] = [parent |-> journal.previous, tree |-> journal.tree]
  /\ \A c \in journal.declared : journal.tree.links[c] = journal.children[c]
ValueIsHardened ==
  cmd # "none" =>
    /\ \A c \in Children : value.children[c] # None =>
         value.children[c] \in packed[c] \/ (cmd = "record" /\ step = "harden" /\ c = who)
    /\ value.phase # "prepare" => value.tree \in trees \/ step = "harden"
    /\ value.phase = "committed" =>
         /\ value.commit \in 1 .. root /\ Binds(value)
         /\ value.commit \in roots \/ step = "harden"
         /\ rootDisk >= value.commit \/ step \in {"harden", "refs"}

(***************************************************************************)
(* The checkpoint of a committed journal is behind the root and its index, *)
(* as they are seen and as they are on disk: it is never begun again.      *)
(***************************************************************************)
Behind(cp) ==
  /\ RootTree.cp >= cp /\ commits[rootDisk].tree.cp >= cp
  /\ index.cp >= cp /\ indexDisk.cp >= cp
JournalsAreBehind ==
  /\ txn.phase = "committed" => Behind(txn.cp)
  /\ txnDisk.phase = "committed" => Behind(txnDisk.cp)
  /\ \A n \in Checkpoints :
       (done[n] # Nothing => Behind(n)) /\ (doneDisk[n] # Nothing => Behind(n))
  /\ cmd = "finalize" =>
       /\ RootTree.cp >= value.cp /\ index.cp >= value.cp
       /\ commits[rootDisk].tree.cp >= value.cp \/ step \in {"harden", "refs"}
       /\ indexDisk.cp >= value.cp \/ step \in {"harden", "refs", "barrier"}

(***************************************************************************)
(* Only an empty journal has no checkpoint, only committed journals are    *)
(* retired, each under its own name, and whatever of the two names, seen   *)
(* or on disk, is of one checkpoint is the same journal.                   *)
(***************************************************************************)
JournalNames ==
  /\ (txn.cp = 0 => txn = Nothing) /\ (txnDisk.cp = 0 => txnDisk = Nothing)
  /\ \A n \in Checkpoints : \A retired \in {done[n], doneDisk[n]} : retired # Nothing =>
       /\ retired.cp = n /\ retired.phase = "committed"
       /\ \A active \in {txn, txnDisk} : active.cp = n => active = retired
       /\ cmd # "none" /\ value.cp = n => value = retired

(***************************************************************************)
(* The directories' names.  That of committed/ is synced before anything   *)
(* is moved there; that of txn/, short of a killed command, too.           *)
(***************************************************************************)
DirectoriesAreSynced ==
  /\ \A n \in Checkpoints :
       done[n] # Nothing \/ doneDisk[n] # Nothing => doneDir = "synced"
  /\ step = "rename" => doneDir = "synced"
  /\ kills = 0 /\ txnDir # "synced" =>
       /\ txn = Nothing /\ txnDisk = Nothing /\ step \notin {"replace", "sync"}
       /\ IF step = "parent" THEN txnDir = "cached" /\ created ELSE txnDir = "absent"

(***************************************************************************)
(* A begun checkpoint has its journal under a name that is on disk too; in *)
(* the middle of the rename the name on disk is the old one.               *)
(***************************************************************************)
Durable(n) ==
  \/ txn.cp = n /\ txnDisk.cp = n
  \/ done[n].cp = n /\ (doneDisk[n].cp = n \/ (step = "destination" /\ txnDisk.cp = n))
BegunIsDurable == kills = 0 => \A n \in begun : Durable(n)

JournalInv ==
  /\ TypeOK /\ GitTyped
  /\ CommandHasJournal
  /\ JournalsAreSound /\ ValueIsHardened
  /\ JournalsAreBehind
  /\ JournalNames
  /\ DirectoriesAreSynced /\ BegunIsDurable

-----------------------------------------------------------------------------
(***************************************************************************)
(* The initial states.                                                     *)
(***************************************************************************)
LEMMA NothingIsTyped == Nothing \in Journals /\ Nothing.cp = 0 /\ Nothing.phase = "prepare"
BY JournalAssumption DEF Nothing, Journals, Empty, Tree, None

LEMMA RootTreeTyped ==
  ASSUME TypeOK, GitTyped
  PROVE  /\ RootTree \in Trees /\ commits[rootDisk].tree \in Trees
         /\ root \in 1 .. MaxRoots /\ Len(commits) \in Nat
<1>1. commits[root] \in RootCommits /\ commits[rootDisk] \in RootCommits /\ Len(commits) \in Nat
  BY DEF TypeOK, GitTyped
<1>2. root \in 1 .. MaxRoots
  BY <1>1, JournalAssumption DEF TypeOK
<1> QED
  BY <1>1, <1>2 DEF RootTree, RootCommits

LEMMA JournalInit == Init => JournalInv
<1> SUFFICES ASSUME Init PROVE JournalInv
  OBVIOUS
<1> USE JournalAssumption, NothingIsTyped DEF Init
<1>1. index \in Trees
  BY DEF Trees, Tree
<1>2. [parent |-> None, tree |-> index] \in RootCommits
  BY <1>1 DEF RootCommits, None
<1>3. commits \in Seq(RootCommits) /\ Len(commits) = 1 /\ commits[1].tree = index
  BY <1>2
<1>4. TypeOK
  <2>1. [c \in Children |-> 1] \in [Children -> 1 .. MaxCommits]
    OBVIOUS
  <2>2. [c \in Children |-> {1}] \in [Children -> SUBSET (1 .. MaxCommits)]
    OBVIOUS
  <2>3. [n \in Checkpoints |-> Nothing] \in [Checkpoints -> Journals]
    OBVIOUS
  <2>4. /\ root \in 1 .. Len(commits) /\ rootDisk \in 1 .. Len(commits)
        /\ Len(commits) <= MaxRoots /\ roots \subseteq 1 .. Len(commits)
    BY <1>3
  <2> QED
    BY <2>1, <2>2, <2>3, <2>4 DEF TypeOK, Steps
<1>5. GitTyped
  BY <1>1, <1>3 DEF GitTyped
<1>6. CommandHasJournal /\ ValueIsHardened /\ BegunIsDurable
  BY DEF CommandHasJournal, ValueIsHardened, BegunIsDurable, Written, Retired, Writing
<1>7. Sound(Nothing)
  BY DEF Sound, Nothing, Empty
<1>8. JournalsAreSound
  BY <1>7 DEF JournalsAreSound
<1>9. JournalsAreBehind /\ JournalNames /\ DirectoriesAreSynced
  BY DEF JournalsAreBehind, JournalNames, DirectoriesAreSynced
<1> QED
  BY <1>4, <1>5, <1>6, <1>8, <1>9 DEF JournalInv

-----------------------------------------------------------------------------
(***************************************************************************)
(* Every step keeps the types.                                             *)
(***************************************************************************)
LEMMA StagedTreeTyped ==
  ASSUME NEW tree \in Trees, tree.cp < MaxCheckpoints,
         NEW staged \in Trees, NEW c \in Children, NEW commit \in 1 .. MaxCommits
  PROVE  Tree(tree.cp + 1, [staged.links EXCEPT ![c] = commit]) \in Trees
BY JournalAssumption DEF Trees, Tree

LEMMA ChildTypesStep ==
  ASSUME TypeOK, GitTyped, CommandHasJournal, [Next]_vars
  PROVE  /\ head' \in [Children -> 1 .. MaxCommits] /\ refDisk' \in [Children -> 1 .. MaxCommits]
         /\ made' \in [Children -> 1 .. MaxCommits]
         /\ packed' \in [Children -> SUBSET (1 .. MaxCommits)]
<1> USE JournalAssumption DEF TypeOK
<1>1. ASSUME UNCHANGED childVars
      PROVE  /\ head' \in [Children -> 1 .. MaxCommits] /\ refDisk' \in [Children -> 1 .. MaxCommits]
             /\ made' \in [Children -> 1 .. MaxCommits]
             /\ packed' \in [Children -> SUBSET (1 .. MaxCommits)]
  BY <1>1
<1>2. CASE \E c \in Children : CommitChild(c)
  BY <1>2 DEF CommitChild
<1>3. CASE HardenObjects
  <2>1. cmd = "record" => value.children[who] \in 1 .. MaxCommits
    <3>1. value.children[who] \in 0 .. MaxCommits
      BY DEF Journals
    <3>2. cmd = "record" => value.children[who] # 0
      BY DEF CommandHasJournal, None
    <3> QED
      BY <3>1, <3>2
  <2> QED
    BY <1>3, <2>1 DEF HardenObjects
<1>4. CASE SyncReferences
  BY <1>4 DEF SyncReferences
<1>5. CASE SyncFilesystems
  <2> DEFINE synced == IF cmd = "record" THEN {who} ELSE value.declared
  <2>1. /\ refDisk' = [c \in Children |-> IF c \in synced THEN head[c] ELSE refDisk[c]]
        /\ packed' = [c \in Children |-> IF c \in synced THEN packed[c] \cup {head[c]}
                                         ELSE packed[c]]
        /\ UNCHANGED <<head, made>>
    BY <1>5 DEF SyncFilesystems
  <2> QED
    BY <2>1
<1>6. CASE LosePower
  <2>1. PICK kept \in SUBSET Children :
          head' = [c \in Children |-> IF c \in kept THEN head[c] ELSE refDisk[c]]
    BY <1>6 DEF LosePower
  <2>2. head' \in [Children -> 1 .. MaxCommits]
    BY <2>1
  <2> QED
    BY <1>6, <2>2 DEF LosePower
<1>7. CASE CommitRoot \/ (\E c \in Children : Stage(c)) \/ Commands \/ Kill \/ UNCHANGED vars
  BY <1>1, <1>7 DEF CommitRoot, Stage, Commands, Begin, RecordChild, PrepareRoot, Finalize,
     Start, Kill, Gone, Return, vars
<1>8. CASE \/ Recheck \/ MakeDirectory \/ SyncParent \/ ReplaceJournal \/ SyncJournal \/ Retire
           \/ SyncControl \/ Rename \/ SyncDestination \/ Unlink \/ SyncSource
  BY <1>1, <1>8 DEF Recheck, MakeDirectory, SyncParent, ReplaceJournal, SyncJournal, Retire,
     SyncControl, Rename, SyncDestination, Unlink, SyncSource
<1> QED
  BY <1>2, <1>3, <1>4, <1>5, <1>6, <1>7, <1>8 DEF Next, Developer, Running

LEMMA RootTypesStep ==
  ASSUME TypeOK, GitTyped, CommandHasJournal, ValueIsHardened, [Next]_vars
  PROVE  /\ root' \in 1 .. Len(commits') /\ rootDisk' \in 1 .. Len(commits')
         /\ Len(commits') <= MaxRoots /\ roots' \subseteq 1 .. Len(commits')
         /\ GitTyped'
<1> USE JournalAssumption, RootTreeTyped DEF TypeOK, GitTyped
<1> DEFINE Typed == /\ root' \in 1 .. Len(commits') /\ rootDisk' \in 1 .. Len(commits')
                    /\ Len(commits') <= MaxRoots /\ roots' \subseteq 1 .. Len(commits')
                    /\ GitTyped'
<1>1. ASSUME UNCHANGED <<rootVars, kills>> PROVE Typed
  BY <1>1
<1>2. CASE CommitRoot
  <2>1. [parent |-> root, tree |-> index] \in RootCommits
    BY DEF RootCommits
  <2>2. commits' \in Seq(RootCommits) /\ Len(commits') = Len(commits) + 1
    BY <1>2, <2>1 DEF CommitRoot
  <2> QED
    BY <1>2, <2>2 DEF CommitRoot
<1>3. CASE \E c \in Children : Stage(c)
  <2>1. PICK c \in Children : Stage(c)
    BY <1>3
  <2>2. index' \in Trees
    <3>1. RootTree \in Trees /\ RootTree.cp < MaxCheckpoints /\ c \in Children
      BY <2>1 DEF Stage
    <3>2. index \in Trees /\ head[c] \in 1 .. MaxCommits
      BY <3>1
    <3>3. Tree(RootTree.cp + 1, [index.links EXCEPT ![c] = head[c]]) \in Trees
      BY ONLY <3>1, <3>2, StagedTreeTyped
    <3> QED
      BY <2>1, <3>3 DEF Stage
  <2> QED
    BY <2>1, <2>2 DEF Stage
<1>4. CASE HardenObjects
  <2>1. cmd = "finalize" => value.commit \in 1 .. root
    BY <1>4 DEF ValueIsHardened, CommandHasJournal, HardenObjects, At, Phase
  <2>2. /\ UNCHANGED <<commits, root, index, rootDisk, indexDisk, kills>>
        /\ roots' = IF cmd = "finalize" THEN roots \cup {value.commit} ELSE roots
    BY <1>4 DEF HardenObjects
  <2>3. roots' \subseteq 1 .. Len(commits)
    <3>1. 1 .. root \subseteq 1 .. Len(commits)
      BY RootTreeTyped
    <3> QED
      BY <2>1, <2>2, <3>1
  <2> QED
    BY <2>2, <2>3
<1>5. CASE SyncReferences
  BY <1>5 DEF SyncReferences
<1>6. CASE SyncFilesystems
  <2>1. /\ UNCHANGED <<commits, root, index, kills>>
        /\ rootDisk' \in {root, rootDisk} /\ indexDisk' \in {index, indexDisk}
        /\ roots' \subseteq roots \cup {root}
    BY <1>6 DEF SyncFilesystems
  <2> QED
    BY <2>1
<1>7. CASE LosePower
  <2>1. /\ UNCHANGED <<commits, kills>>
        /\ root' \in {root, rootDisk} /\ index' \in {index, indexDisk}
        /\ rootDisk' = root' /\ indexDisk' = index'
        /\ roots' = roots \cup {root'}
    BY <1>7 DEF LosePower
  <2> QED
    BY <2>1
<1>8. CASE Kill
  BY <1>8 DEF Kill
<1>9. CASE (\E c \in Children : CommitChild(c)) \/ Commands \/ UNCHANGED vars
  BY <1>1, <1>9 DEF CommitChild, Commands, Begin, RecordChild, PrepareRoot, Finalize, Start, vars
<1>10. CASE \/ Recheck \/ MakeDirectory \/ SyncParent \/ ReplaceJournal \/ SyncJournal \/ Retire
            \/ SyncControl \/ Rename \/ SyncDestination \/ Unlink \/ SyncSource
  BY <1>1, <1>10 DEF Recheck, MakeDirectory, SyncParent, ReplaceJournal, SyncJournal, Retire,
     SyncControl, Rename, SyncDestination, Unlink, SyncSource
<1> QED
  BY <1>2, <1>3, <1>4, <1>5, <1>6, <1>7, <1>8, <1>9, <1>10 DEF Next, Developer, Running

-----------------------------------------------------------------------------
(***************************************************************************)
(* What a command starts with.                                             *)
(***************************************************************************)
OfBegin(tree, previous, D) ==
  [Nothing EXCEPT !.cp = tree.cp + 1, !.previous = previous, !.declared = D]
OfRecord(journal, c, commit) == [journal EXCEPT !.children[c] = commit]
OfPrepare(journal, tree) == [journal EXCEPT !.phase = "prepared", !.tree = tree]
OfFinalize(journal, commit) == [journal EXCEPT !.phase = "committed", !.commit = commit]

LEMMA BegunJournal ==
  ASSUME NEW tree \in Trees, tree.cp < MaxCheckpoints, NEW previous \in 1 .. MaxRoots,
         NEW D \in SUBSET Children
  PROVE  LET journal == OfBegin(tree, previous, D) IN
         /\ journal \in Journals /\ journal.cp = tree.cp + 1 /\ journal.phase = "prepare"
         /\ journal.cp \in Checkpoints /\ journal.children = Empty
<1>1. tree.cp + 1 \in Checkpoints /\ previous \in 0 .. MaxRoots
  BY JournalAssumption DEF Trees, Checkpoints
<1>2. Nothing \in Journals /\ Nothing.phase = "prepare" /\ Nothing.children = Empty
  BY NothingIsTyped DEF Nothing
<1>3. OfBegin(tree, previous, D) \in Journals
  BY <1>1, <1>2 DEF Journals, OfBegin
<1> QED
  BY <1>1, <1>2, <1>3 DEF OfBegin, Nothing

LEMMA RecordedJournal ==
  ASSUME NEW journal \in Journals, NEW c \in Children, NEW commit \in 1 .. MaxCommits
  PROVE  LET recorded == OfRecord(journal, c, commit) IN
         /\ recorded \in Journals /\ recorded.cp = journal.cp /\ recorded.phase = journal.phase
         /\ recorded.children[c] = commit
         /\ \A d \in Children \ {c} : recorded.children[d] = journal.children[d]
BY JournalAssumption DEF Journals, OfRecord

LEMMA PreparedJournal ==
  ASSUME NEW journal \in Journals, NEW tree \in Trees
  PROVE  LET prepared == OfPrepare(journal, tree) IN
         /\ prepared \in Journals /\ prepared.cp = journal.cp /\ prepared.phase = "prepared"
         /\ prepared.children = journal.children /\ prepared.tree = tree
BY JournalAssumption DEF Journals, Trees, OfPrepare

LEMMA FinalizedJournal ==
  ASSUME NEW journal \in Journals, NEW commit \in 1 .. MaxRoots
  PROVE  LET final == OfFinalize(journal, commit) IN
         /\ final \in Journals /\ final.cp = journal.cp /\ final.phase = "committed"
         /\ final.children = journal.children /\ final.tree = journal.tree
         /\ final.previous = journal.previous /\ final.declared = journal.declared
         /\ final.commit = commit
<1>1. commit \in 0 .. MaxRoots
  BY JournalAssumption
<1>2. OfFinalize(journal, commit) \in Journals
  BY <1>1 DEF Journals, OfFinalize
<1> QED
  BY <1>2 DEF Journals, OfFinalize

LEMMA FinalizedAgain ==
  ASSUME NEW journal \in Journals, journal.phase = "committed"
  PROVE  OfFinalize(journal, journal.commit) = journal
BY DEF Journals, OfFinalize

LEMMA CommandStarts ==
  ASSUME TypeOK, GitTyped, JournalNames, Commands
  PROVE  /\ value' \in Journals /\ who' \in Children
         /\ cmd = "none" /\ cmd' \in {"begin", "record", "prepare", "finalize"}
         /\ step' = IF cmd' = "begin" THEN "mkdir" ELSE "harden"
         /\ value'.phase = Phase(cmd') /\ value'.cp \in Checkpoints
         /\ IF cmd' = "begin" THEN txn = Nothing ELSE txn.cp = value'.cp
         /\ cmd' = "record" => value'.children[who'] # None
         /\ UNCHANGED <<childVars, rootVars, journalVars, created, historyVars, faultVars>>
<1> USE JournalAssumption, RootTreeTyped DEF Phase, Start
<1>1. txn # Nothing => txn.cp \in Checkpoints
  BY DEF TypeOK, JournalNames, Journals
<1>2. txn \in Journals /\ who \in Children
  BY DEF TypeOK
<1>3. CASE \E D \in SUBSET Children \ {{}} : Begin(D)
  <2>1. PICK D \in SUBSET Children : Begin(D)
    BY <1>3
  <2>2. RootTree \in Trees /\ root \in 1 .. MaxRoots /\ RootTree.cp < MaxCheckpoints
    BY <2>1 DEF Begin
  <2>3. value' = OfBegin(RootTree, root, D)
    BY <2>1 DEF Begin, OfBegin
  <2>4. value' \in Journals /\ value'.phase = "prepare" /\ value'.cp \in Checkpoints
    BY <2>1, <2>2, <2>3, BegunJournal
  <2> QED
    BY <1>2, <2>1, <2>4 DEF Begin
<1>4. CASE \E c \in Children : RecordChild(c)
  <2>1. PICK c \in Children : RecordChild(c)
    BY <1>4
  <2>2. value' = OfRecord(txn, c, head[c]) /\ head[c] \in 1 .. MaxCommits
    BY <2>1 DEF RecordChild, TypeOK, OfRecord
  <2>3. value' \in Journals /\ value'.phase = txn.phase /\ value'.cp = txn.cp
        /\ value'.children[c] = head[c]
    BY <1>2, <2>1, <2>2, RecordedJournal
  <2> QED
    BY <1>1, <2>1, <2>2, <2>3 DEF RecordChild, None
<1>5. CASE PrepareRoot
  <2>1. value' = OfPrepare(txn, index) /\ index \in Trees
    BY <1>5 DEF PrepareRoot, GitTyped, OfPrepare
  <2>2. value' \in Journals /\ value'.phase = "prepared" /\ value'.cp = txn.cp
    BY <1>2, <2>1, PreparedJournal
  <2> QED
    BY <1>1, <1>2, <1>5, <2>2 DEF PrepareRoot
<1>6. CASE Finalize
  <2>1. value' = OfFinalize(txn, root) /\ root \in 1 .. MaxRoots
    BY <1>6 DEF Finalize, OfFinalize
  <2>2. value' \in Journals /\ value'.phase = "committed" /\ value'.cp = txn.cp
    BY <1>2, <2>1, FinalizedJournal
  <2> QED
    BY <1>1, <1>2, <1>6, <2>2 DEF Finalize
<1> QED
  BY <1>3, <1>4, <1>5, <1>6 DEF Commands

-----------------------------------------------------------------------------
(***************************************************************************)
(* What a developer, a killed command and a power loss leave alone.        *)
(***************************************************************************)
LEMMA DevelopersKeepJournals ==
  ASSUME Developer
  PROVE  UNCHANGED <<journalVars, commandVars, historyVars, faultVars>>
BY DEF Developer, CommitRoot, CommitChild, Stage

LEMMA PowerIsLost ==
  ASSUME TypeOK, LosePower
  PROVE  /\ txn' \in {txn, txnDisk, Nothing} /\ txnDisk' = txn'
         /\ doneDisk' = done'
         /\ done' \in {done, doneDisk} \/ (doneDir = "cached"
                                           /\ done' = [n \in Checkpoints |-> Nothing])
         /\ txnDir' \in {"absent", "synced"} /\ doneDir' \in {"absent", "synced"}
         /\ cmd' = "none" /\ step' = "idle" /\ value' = Nothing /\ created' = FALSE
         /\ UNCHANGED <<who, begun, settled, kills, commits>>
BY DEF TypeOK, LosePower, LoseJournals, Gone, Return, After, historyVars

-----------------------------------------------------------------------------
(***************************************************************************)
(* Every step keeps the types of the journals and of the command.          *)
(***************************************************************************)
JournalsTyped ==
  /\ txn \in Journals /\ txnDisk \in Journals /\ value \in Journals
  /\ done \in [Checkpoints -> Journals] /\ doneDisk \in [Checkpoints -> Journals]
  /\ txnDir \in {"absent", "cached", "synced"} /\ doneDir \in {"absent", "cached", "synced"}
  /\ cmd \in {"none", "begin", "record", "prepare", "finalize"} /\ step \in Steps
  /\ who \in Children /\ created \in BOOLEAN
  /\ settled \subseteq begun /\ begun \subseteq Checkpoints

LEMMA JournalTypesStep ==
  ASSUME TypeOK, GitTyped, CommandHasJournal, JournalNames, [Next]_vars
  PROVE  JournalsTyped'
<1> USE NothingIsTyped DEF JournalsTyped, At, SameCommand, Return, Gone
<1>0. JournalsTyped
  BY DEF TypeOK
<1>1. CASE Developer \/ UNCHANGED vars
  BY <1>0, <1>1, DevelopersKeepJournals DEF vars
<1>2. CASE Commands
  BY <1>0, <1>2, CommandStarts DEF Steps
<1>3. CASE HardenObjects \/ SyncReferences \/ Recheck
  BY <1>0, <1>3 DEF HardenObjects, SyncReferences, Recheck, Steps
<1>4. CASE SyncFilesystems
  BY <1>0, <1>4 DEF SyncFilesystems, Steps
<1>5. CASE MakeDirectory \/ SyncParent \/ ReplaceJournal
  BY <1>0, <1>5 DEF MakeDirectory, SyncParent, ReplaceJournal, Steps
<1>6. CASE SyncJournal
  <2>1. value.cp \in Checkpoints
    BY <1>6 DEF CommandHasJournal, SyncJournal
  <2> QED
    BY <1>0, <1>6, <2>1 DEF SyncJournal, Steps
<1>7. CASE Retire \/ SyncControl \/ SyncDestination \/ Unlink \/ SyncSource
  BY <1>0, <1>7 DEF Retire, SyncControl, SyncDestination, Unlink, SyncSource, Steps
<1>8. CASE Rename
  BY <1>0, <1>8 DEF Rename, Steps
<1>9. CASE Kill
  BY <1>0, <1>9 DEF Kill, Steps
<1>10. CASE LosePower
  BY <1>0, <1>10, PowerIsLost DEF Steps
<1> QED
  BY <1>1, <1>2, <1>3, <1>4, <1>5, <1>6, <1>7, <1>8, <1>9, <1>10 DEF Next, Running

LEMMA TypeStep ==
  ASSUME TypeOK, GitTyped, CommandHasJournal, ValueIsHardened, JournalNames, [Next]_vars
  PROVE  TypeOK' /\ GitTyped'
BY ChildTypesStep, RootTypesStep, JournalTypesStep DEF TypeOK, JournalsTyped

-----------------------------------------------------------------------------
(***************************************************************************)
(* Every step keeps the command and the journal it writes together.        *)
(***************************************************************************)
LEMMA CommandStep ==
  ASSUME TypeOK, GitTyped, CommandHasJournal, JournalNames, [Next]_vars
  PROVE  CommandHasJournal'
<1> USE NothingIsTyped DEF CommandHasJournal, At, SameCommand, Return, Gone, Writing, Written,
        Retired, Phase
<1>1. CASE Developer \/ UNCHANGED vars
  BY <1>1, DevelopersKeepJournals DEF vars
<1>2. CASE Commands
  <2>1. step' \in {"mkdir", "harden"} /\ (cmd' = "begin" <=> step' = "mkdir") /\ cmd' # "none"
    BY <1>2, CommandStarts
  <2> QED
    BY <1>2, <2>1, CommandStarts
<1>3. CASE HardenObjects \/ SyncReferences
  BY <1>3 DEF HardenObjects, SyncReferences
<1>4. CASE SyncFilesystems
  <2>1. cmd # "record" => txnDisk' = txn
    BY <1>4 DEF SyncFilesystems
  <2> QED
    BY <1>4, <2>1 DEF SyncFilesystems
<1>5. CASE Recheck
  BY <1>5 DEF Recheck
<1>6. CASE MakeDirectory \/ SyncParent
  BY <1>6 DEF MakeDirectory, SyncParent
<1>7. CASE ReplaceJournal
  BY <1>7 DEF ReplaceJournal
<1>8. CASE SyncJournal
  BY <1>8 DEF SyncJournal
<1>9. CASE Retire
  BY <1>9 DEF Retire
<1>10. CASE SyncControl
  BY <1>10 DEF SyncControl
<1>11. CASE Rename
  <2>1. done'[value.cp] = txn
    BY <1>11 DEF Rename, TypeOK
  <2> QED
    BY <1>11, <2>1 DEF Rename
<1>12. CASE SyncDestination \/ Unlink
  BY <1>12 DEF SyncDestination, Unlink
<1>13. CASE SyncSource
  BY <1>13 DEF SyncSource
<1>14. CASE Kill \/ LosePower
  <2>1. cmd' = "none" /\ step' = "idle"
    BY <1>14, PowerIsLost DEF Kill
  <2> QED
    BY <2>1
<1> QED
  BY <1>1, <1>2, <1>3, <1>4, <1>5, <1>6, <1>7, <1>8, <1>9, <1>10, <1>11, <1>12, <1>13, <1>14
     DEF Next, Running

-----------------------------------------------------------------------------
(***************************************************************************)
(* Every step keeps the two names of a journal together.                   *)
(***************************************************************************)
\* A journal that is begun is of a fresh checkpoint; one that is recorded or
\* prepared is not retired; a retired one is finalized as it is.
LEMMA FreshOrSame ==
  ASSUME TypeOK, GitTyped, JournalNames, JournalsAreBehind, Commands,
         NEW n \in Checkpoints, NEW retired \in {done[n], doneDisk[n]}, retired # Nothing,
         value'.cp = n
  PROVE  value' = retired
<1> USE DEF Start
<1>1. txn.cp = n => txn = retired /\ txn.phase = "committed"
  BY DEF JournalNames
<1>2. RootTree.cp >= n
  BY DEF JournalsAreBehind, Behind
<1>3. txn \in Journals /\ RootTree \in Trees /\ root \in 1 .. MaxRoots
  BY RootTreeTyped DEF TypeOK
<1>4. CASE \E D \in SUBSET Children \ {{}} : Begin(D)
  <2>1. PICK D \in SUBSET Children : Begin(D)
    BY <1>4
  <2>2. RootTree.cp < MaxCheckpoints /\ value' = OfBegin(RootTree, root, D)
    BY <2>1 DEF Begin, OfBegin
  <2>3. value'.cp = RootTree.cp + 1
    BY <1>3, <2>1, <2>2, BegunJournal
  <2>4. RootTree.cp \in Nat /\ n = RootTree.cp + 1
    BY <1>3, <2>3 DEF Trees
  <2> QED
    BY <1>2, <2>4
<1>5. CASE \E c \in Children : RecordChild(c)
  <2>1. PICK c \in Children : RecordChild(c)
    BY <1>5
  <2>2. value' = OfRecord(txn, c, head[c]) /\ head[c] \in 1 .. MaxCommits
    BY <2>1 DEF RecordChild, TypeOK, OfRecord
  <2>3. value'.cp = txn.cp
    BY <1>3, <2>1, <2>2, RecordedJournal
  <2> QED
    BY <1>1, <2>1, <2>3 DEF RecordChild
<1>6. CASE PrepareRoot
  <2>1. value' = OfPrepare(txn, index) /\ index \in Trees
    BY <1>6 DEF PrepareRoot, GitTyped, OfPrepare
  <2>2. value'.cp = txn.cp
    BY <1>3, <2>1, PreparedJournal
  <2> QED
    BY <1>1, <1>6, <2>2 DEF PrepareRoot
<1>7. CASE Finalize
  <2>1. value' = OfFinalize(txn, root) /\ (txn.phase = "committed" => txn.commit = root)
    BY <1>7 DEF Finalize, OfFinalize
  <2>2. value'.cp = txn.cp
    BY <1>3, <2>1, FinalizedJournal
  <2>3. txn.phase = "committed" => value' = txn
    BY <1>3, <2>1, FinalizedAgain
  <2> QED
    BY <1>1, <2>2, <2>3
<1> QED
  BY <1>4, <1>5, <1>6, <1>7 DEF Commands

LEMMA NamesStep ==
  ASSUME TypeOK, GitTyped, CommandHasJournal, JournalNames, JournalsAreBehind, [Next]_vars
  PROVE  JournalNames'
<1> USE NothingIsTyped DEF JournalNames, At, SameCommand, Return, Gone
<1>1. CASE Developer \/ UNCHANGED vars
  BY <1>1, DevelopersKeepJournals DEF vars
<1>2. CASE Commands
  <2>1. UNCHANGED journalVars
    BY <1>2, CommandStarts
  <2>2. \A n \in Checkpoints : \A retired \in {done[n], doneDisk[n]} :
          retired # Nothing /\ value'.cp = n => value' = retired
    BY <1>2, FreshOrSame
  <2> QED
    BY <2>1, <2>2
<1>3. CASE HardenObjects \/ SyncReferences
  BY <1>3 DEF HardenObjects, SyncReferences
<1>4. CASE SyncFilesystems
  <2>1. txnDisk' \in {txn, txnDisk} /\ doneDisk' \in {done, doneDisk} /\ UNCHANGED <<txn, done>>
    BY <1>4 DEF SyncFilesystems
  <2> QED
    BY <1>4, <2>1 DEF SyncFilesystems
<1>5. CASE Recheck
  BY <1>5 DEF Recheck
<1>6. CASE MakeDirectory \/ SyncParent \/ SyncControl
  BY <1>6 DEF MakeDirectory, SyncParent, SyncControl
<1>7. CASE ReplaceJournal
  <2>1. cmd # "none" /\ value.cp # 0
    BY <1>7 DEF ReplaceJournal, CommandHasJournal, Checkpoints
  <2> QED
    BY <1>7, <2>1 DEF ReplaceJournal
<1>8. CASE SyncJournal
  BY <1>8 DEF SyncJournal
<1>9. CASE Retire
  BY <1>9 DEF Retire
<1>10. CASE Rename
  <2>1. cmd = "finalize" /\ txn = value /\ txnDisk = txn /\ value.cp \in Checkpoints
        /\ value.phase = "committed"
    BY <1>10 DEF Rename, CommandHasJournal, Written, Phase
  <2>2. \A n \in Checkpoints : done'[n] = (IF n = value.cp THEN value ELSE done[n])
    BY <1>10, <2>1 DEF Rename, TypeOK
  <2>3. txn' = Nothing /\ UNCHANGED <<txnDisk, doneDisk, cmd, value>>
    BY <1>10 DEF Rename
  <2>4. \A n \in Checkpoints : n # 0
    BY DEF Checkpoints
  <2> QED
    BY <2>1, <2>2, <2>3, <2>4
<1>11. CASE SyncDestination \/ Unlink
  BY <1>11 DEF SyncDestination, Unlink, Checkpoints
<1>12. CASE SyncSource
  BY <1>12 DEF SyncSource
<1>13. CASE Kill
  BY <1>13 DEF Kill
<1>14. CASE LosePower
  <2>1. \A n \in Checkpoints : done'[n] \in {done[n], doneDisk[n], Nothing}
    BY <1>14, PowerIsLost
  <2>2. txn' \in {txn, txnDisk, Nothing} /\ txnDisk' = txn' /\ doneDisk' = done' /\ cmd' = "none"
    BY <1>14, PowerIsLost
  <2>3. ASSUME NEW n \in Checkpoints, done'[n] # Nothing
        PROVE  /\ done'[n].cp = n /\ done'[n].phase = "committed"
               /\ txn'.cp = n => txn' = done'[n]
    <3>1. n # 0 /\ done'[n] \in {done[n], doneDisk[n]}
      BY <2>1, <2>3 DEF Checkpoints
    <3> QED
      BY <2>2, <2>3, <3>1
  <2>4. txn'.cp = 0 => txn' = Nothing
    BY <2>2
  <2> QED
    BY <2>2, <2>3, <2>4
<1> QED
  BY <1>1, <1>2, <1>3, <1>4, <1>5, <1>6, <1>7, <1>8, <1>9, <1>10, <1>11, <1>12, <1>13, <1>14
     DEF Next, Running

-----------------------------------------------------------------------------
(***************************************************************************)
(* Every step keeps the directories' names synced where it matters.        *)
(***************************************************************************)
LEMMA DirectoriesStep ==
  ASSUME TypeOK, GitTyped, CommandHasJournal, JournalNames, DirectoriesAreSynced, [Next]_vars
  PROVE  DirectoriesAreSynced'
<1> USE NothingIsTyped DEF DirectoriesAreSynced, At, SameCommand, Return, Gone
<1>1. CASE Developer \/ UNCHANGED vars
  BY <1>1, DevelopersKeepJournals DEF vars
<1>2. CASE Commands
  <2>1. step' \in {"mkdir", "harden"} /\ UNCHANGED <<journalVars, faultVars>>
    BY <1>2, CommandStarts
  <2>2. step = "idle"
    BY <1>2, CommandStarts DEF CommandHasJournal
  <2> QED
    BY <2>1, <2>2
<1>3. CASE HardenObjects \/ SyncReferences
  BY <1>3 DEF HardenObjects, SyncReferences
<1>4. CASE SyncFilesystems
  BY <1>4 DEF SyncFilesystems
<1>5. CASE Recheck
  BY <1>5 DEF Recheck
<1>6. CASE MakeDirectory
  BY <1>6 DEF MakeDirectory, TypeOK
<1>7. CASE SyncParent
  BY <1>7 DEF SyncParent
<1>8. CASE ReplaceJournal
  BY <1>8 DEF ReplaceJournal
<1>9. CASE SyncJournal
  BY <1>9 DEF SyncJournal
<1>10. CASE Retire
  <2>1. step' # "rename" /\ doneDir' \in {"cached", doneDir} /\ (doneDir = "synced" => doneDir' = "synced")
    BY <1>10 DEF Retire
  <2>2. txn.cp # 0
    BY <1>10 DEF Retire, CommandHasJournal, Written, Checkpoints
  <2> QED
    BY <1>10, <2>1, <2>2 DEF Retire
<1>11. CASE SyncControl
  BY <1>11 DEF SyncControl
<1>12. CASE Rename
  <2>1. txn # Nothing
    BY <1>12 DEF Rename, CommandHasJournal, Written, Checkpoints
  <2> QED
    BY <1>12, <2>1 DEF Rename
<1>13. CASE SyncDestination
  BY <1>13 DEF SyncDestination
<1>14. CASE Unlink
  BY <1>14 DEF Unlink
<1>15. CASE SyncSource
  BY <1>15 DEF SyncSource
<1>16. CASE Kill
  <2>1. kills' # 0
    BY <1>16 DEF Kill, GitTyped
  <2> QED
    BY <1>16, <2>1 DEF Kill
<1>17. CASE LosePower
  <2>1. /\ doneDir' = "synced" \/ (doneDir' = "absent" /\ doneDir # "synced")
        /\ txnDir' = "synced" \/ (txnDir' = "absent" /\ txnDir # "synced")
    BY <1>17 DEF LosePower, LoseJournals, After, TypeOK
  <2> QED
    BY <1>17, <2>1, PowerIsLost
<1> QED
  BY <1>1, <1>2, <1>3, <1>4, <1>5, <1>6, <1>7, <1>8, <1>9, <1>10, <1>11, <1>12, <1>13, <1>14,
     <1>15, <1>16, <1>17 DEF Next, Running

-----------------------------------------------------------------------------
(***************************************************************************)
(* Where the journals of the next state come from, and what only grows.    *)
(***************************************************************************)
JournalsMove ==
  /\ txn' \in {txn, txnDisk, Nothing} \/ (step = "replace" /\ cmd # "none" /\ txn' = value)
  /\ txnDisk' \in {txn, txnDisk, Nothing}
  /\ \A n \in Checkpoints :
       /\ done'[n] \in {done[n], doneDisk[n], txn, Nothing}
       /\ doneDisk'[n] \in {done[n], doneDisk[n], Nothing}

LEMMA JournalsMoveStep ==
  ASSUME TypeOK, GitTyped, CommandHasJournal, JournalNames, [Next]_vars
  PROVE  JournalsMove
<1> USE DEF JournalsMove, At
<1>1. CASE Developer \/ UNCHANGED vars
  BY <1>1, DevelopersKeepJournals DEF vars
<1>2. CASE Commands
  BY <1>2, CommandStarts
<1>3. CASE \/ HardenObjects \/ SyncReferences \/ Recheck \/ MakeDirectory \/ SyncParent
           \/ Retire \/ SyncControl \/ Kill
  BY <1>3 DEF HardenObjects, SyncReferences, Recheck, MakeDirectory, SyncParent, Retire,
     SyncControl, Kill
<1>4. CASE SyncFilesystems
  BY <1>4 DEF SyncFilesystems
<1>5. CASE ReplaceJournal
  BY <1>5 DEF ReplaceJournal, CommandHasJournal
<1>6. CASE SyncJournal \/ SyncDestination \/ Unlink \/ SyncSource
  BY <1>6 DEF SyncJournal, SyncDestination, Unlink, SyncSource
<1>7. CASE Rename
  BY <1>7 DEF Rename, TypeOK
<1>8. CASE LosePower
  BY <1>8, PowerIsLost
<1> QED
  BY <1>1, <1>2, <1>3, <1>4, <1>5, <1>6, <1>7, <1>8 DEF Next, Running

StoresGrow ==
  /\ \A c \in Children : packed[c] \subseteq packed'[c]
  /\ trees \subseteq trees' /\ roots \subseteq roots' /\ rootDisk <= rootDisk'
  /\ Len(commits) <= Len(commits') /\ \A i \in 1 .. Len(commits) : commits'[i] = commits[i]

LEMMA StoresGrowStep ==
  ASSUME TypeOK, GitTyped, [Next]_vars
  PROVE  StoresGrow
<1> USE DEF TypeOK, GitTyped, StoresGrow
<1>0. /\ rootDisk \in Nat /\ root \in Nat /\ Len(commits) \in Nat /\ rootDisk <= root
      /\ root <= Len(commits)
  BY RootTreeTyped
<1>1. CASE CommitRoot
  BY <1>0, <1>1 DEF CommitRoot
<1>2. CASE HardenObjects
  <2>1. \A c \in Children : packed[c] \subseteq packed'[c]
    BY <1>2 DEF HardenObjects
  <2> QED
    BY <1>0, <1>2, <2>1 DEF HardenObjects
<1>3. CASE SyncReferences
  BY <1>0, <1>3 DEF SyncReferences
<1>4. CASE SyncFilesystems
  <2>1. \A c \in Children : packed[c] \subseteq packed'[c]
    BY <1>4 DEF SyncFilesystems
  <2>2. trees \subseteq trees' /\ roots \subseteq roots' /\ rootDisk' \in {root, rootDisk}
        /\ commits' = commits
    BY <1>4 DEF SyncFilesystems
  <2> QED
    BY <1>0, <2>1, <2>2
<1>5. CASE LosePower
  <2>1. \A c \in Children : packed[c] \subseteq packed'[c]
    BY <1>5 DEF LosePower
  <2>2. trees \subseteq trees' /\ roots \subseteq roots' /\ rootDisk' \in {root, rootDisk}
        /\ commits' = commits
    BY <1>5 DEF LosePower
  <2> QED
    BY <1>0, <2>1, <2>2
<1>6. ASSUME UNCHANGED <<packed, trees, roots, rootDisk, commits>> PROVE StoresGrow
  BY <1>0, <1>6
<1>7. CASE (\E c \in Children : CommitChild(c) \/ Stage(c)) \/ Commands \/ Kill \/ UNCHANGED vars
  BY <1>6, <1>7 DEF CommitChild, Stage, Commands, Begin, RecordChild, PrepareRoot, Finalize, Start,
     Kill, vars
<1>8. CASE \/ Recheck \/ MakeDirectory \/ SyncParent \/ ReplaceJournal \/ SyncJournal \/ Retire
           \/ SyncControl \/ Rename \/ SyncDestination \/ Unlink \/ SyncSource
  BY <1>6, <1>8 DEF Recheck, MakeDirectory, SyncParent, ReplaceJournal, SyncJournal, Retire,
     SyncControl, Rename, SyncDestination, Unlink, SyncSource
<1> QED
  BY <1>1, <1>2, <1>3, <1>4, <1>5, <1>7, <1>8 DEF Next, Developer, Running

-----------------------------------------------------------------------------
(***************************************************************************)
(* Every step keeps the journals sound: what they name is never taken from *)
(* the disk, and a new one has been through its command's barrier.         *)
(***************************************************************************)
LEMMA SoundStep ==
  ASSUME TypeOK, GitTyped, CommandHasJournal, JournalNames, JournalsAreSound, ValueIsHardened,
         [Next]_vars
  PROVE  JournalsAreSound'
<1>1. StoresGrow /\ JournalsMove
  BY StoresGrowStep, JournalsMoveStep
<1>2. /\ rootDisk \in Nat /\ rootDisk' \in Nat /\ root \in Nat /\ root <= Len(commits)
      /\ Len(commits) \in Nat
  <2>1. TypeOK' /\ GitTyped'
    BY TypeStep
  <2>2. Len(commits') \in Nat /\ rootDisk' \in 1 .. Len(commits')
    BY <2>1 DEF TypeOK, GitTyped
  <2>3. /\ Len(commits) \in Nat /\ rootDisk \in 1 .. Len(commits) /\ root \in 1 .. Len(commits)
    BY DEF TypeOK, GitTyped
  <2> QED
    BY <2>2, <2>3
<1>3. ASSUME NEW journal \in Journals, Sound(journal)
      PROVE  Sound(journal)'
  <2>1. journal.commit \in Nat
    BY JournalAssumption DEF Journals
  <2>2. roots \subseteq 1 .. Len(commits)
    BY DEF TypeOK
  <2>3. \A c \in Children : journal.children[c] # None => journal.children[c] \in packed'[c]
    BY <1>1, <1>3 DEF Sound, StoresGrow
  <2>4. journal.phase # "prepare" => journal.tree \in trees'
    BY <1>1, <1>3 DEF Sound, StoresGrow
  <2>5. ASSUME journal.phase = "committed"
        PROVE  /\ journal.commit \in roots' /\ rootDisk' >= journal.commit
               /\ commits'[journal.commit] = [parent |-> journal.previous, tree |-> journal.tree]
               /\ \A c \in journal.declared : journal.tree.links[c] = journal.children[c]
    <3>1. journal.commit \in roots /\ rootDisk >= journal.commit
      BY <1>3, <2>5 DEF Sound
    <3>2. commits'[journal.commit] = commits[journal.commit] /\ journal.commit \in roots'
      BY <1>1, <2>2, <3>1 DEF StoresGrow
    <3>3. rootDisk' >= journal.commit
      BY <1>1, <1>2, <2>1, <3>1 DEF StoresGrow
    <3> QED
      BY <1>3, <2>5, <3>2, <3>3 DEF Sound
  <2> QED
    BY <2>3, <2>4, <2>5 DEF Sound
<1>4. Sound(Nothing)
  BY DEF Sound, Nothing, Empty
<1>5. step = "replace" /\ cmd # "none" => Sound(value)
  BY <1>2 DEF Sound, ValueIsHardened, Binds
<1>6. /\ txn \in Journals /\ txnDisk \in Journals /\ value \in Journals /\ Nothing \in Journals
      /\ \A n \in Checkpoints : done[n] \in Journals /\ doneDisk[n] \in Journals
  BY NothingIsTyped DEF TypeOK
<1>7. Sound(txn)'
  <2>1. \E journal \in Journals : Sound(journal) /\ txn' = journal
    BY <1>1, <1>4, <1>5, <1>6 DEF JournalsMove, JournalsAreSound
  <2> QED
    BY <1>3, <2>1 DEF Sound
<1>8. Sound(txnDisk)'
  <2>1. \E journal \in Journals : Sound(journal) /\ txnDisk' = journal
    BY <1>1, <1>4, <1>6 DEF JournalsMove, JournalsAreSound
  <2> QED
    BY <1>3, <2>1 DEF Sound
<1>9. ASSUME NEW n \in Checkpoints PROVE Sound(done[n])' /\ Sound(doneDisk[n])'
  <2>1. \E journal \in Journals : Sound(journal) /\ done'[n] = journal
    BY <1>1, <1>4, <1>6 DEF JournalsMove, JournalsAreSound
  <2>2. \E journal \in Journals : Sound(journal) /\ doneDisk'[n] = journal
    BY <1>1, <1>4, <1>6 DEF JournalsMove, JournalsAreSound
  <2>3. Sound(done[n])'
    BY <1>3, <2>1 DEF Sound
  <2>4. Sound(doneDisk[n])'
    BY <1>3, <2>2 DEF Sound
  <2> QED
    BY <2>3, <2>4
<1> QED
  BY <1>7, <1>8, <1>9 DEF JournalsAreSound

-----------------------------------------------------------------------------
(***************************************************************************)
(* What a command will write is of what the transaction's journal holds    *)
(* and of what it sees, and its barrier makes the rest durable.            *)
(***************************************************************************)
LEMMA StartIsHardened ==
  ASSUME TypeOK, GitTyped, CommandHasJournal, JournalNames, JournalsAreSound, Commands
  PROVE  ValueIsHardened'
<1> USE DEF Start
<1>1. txn \in Journals /\ Sound(txn) /\ RootTree \in Trees /\ root \in 1 .. MaxRoots
  BY RootTreeTyped DEF TypeOK, JournalsAreSound
<1>2. UNCHANGED <<childVars, rootVars>> /\ cmd' # "none"
  BY CommandStarts
<1>3. CASE \E D \in SUBSET Children \ {{}} : Begin(D)
  <2>1. PICK D \in SUBSET Children : Begin(D)
    BY <1>3
  <2>2. RootTree.cp < MaxCheckpoints /\ value' = OfBegin(RootTree, root, D)
    BY <2>1 DEF Begin, OfBegin
  <2>3. value'.children = Empty /\ value'.phase = "prepare"
    BY <1>1, <2>1, <2>2, BegunJournal
  <2> QED
    BY <2>3 DEF ValueIsHardened, Empty
<1>4. CASE \E c \in Children : RecordChild(c)
  <2>1. PICK c \in Children : RecordChild(c)
    BY <1>4
  <2>2. value' = OfRecord(txn, c, head[c]) /\ head[c] \in 1 .. MaxCommits
    BY <2>1 DEF RecordChild, TypeOK, OfRecord
  <2>3. /\ value'.phase = txn.phase /\ txn.phase = "prepare"
        /\ \A d \in Children \ {c} : value'.children[d] = txn.children[d]
    BY <1>1, <2>1, <2>2, RecordedJournal DEF RecordChild
  <2>4. cmd' = "record" /\ step' = "harden" /\ who' = c
    BY <2>1 DEF RecordChild
  <2> QED
    BY <1>1, <1>2, <2>3, <2>4 DEF ValueIsHardened, Sound
<1>5. CASE PrepareRoot
  <2>1. value' = OfPrepare(txn, index) /\ index \in Trees
    BY <1>5 DEF PrepareRoot, GitTyped, OfPrepare
  <2>2. value'.phase = "prepared" /\ value'.children = txn.children
    BY <1>1, <2>1, PreparedJournal
  <2>3. step' = "harden"
    BY <1>5 DEF PrepareRoot
  <2> QED
    BY <1>1, <1>2, <2>2, <2>3 DEF ValueIsHardened, Sound
<1>6. CASE Finalize
  <2>1. value' = OfFinalize(txn, root) /\ step' = "harden"
    BY <1>6 DEF Finalize, OfFinalize
  <2>2. /\ value'.children = txn.children /\ value'.tree = txn.tree /\ value'.commit = root
        /\ value'.previous = txn.previous /\ value'.declared = txn.declared
    BY <1>1, <2>1, FinalizedJournal
  <2>3. commits[root] \in RootCommits
    BY DEF TypeOK, GitTyped
  <2>4. commits[root] = [parent |-> txn.previous, tree |-> txn.tree]
    BY <1>6, <2>3 DEF Finalize, RootTree, RootCommits
  <2>5. \A c \in txn.declared : txn.tree.links[c] = txn.children[c]
    BY <1>6 DEF Finalize, RootIsClean, ChildrenAre
  <2>6. root' = root /\ root \in 1 .. root /\ commits' = commits
    BY <1>1, <1>2
  <2>7. Binds(value')
    BY <2>2, <2>4, <2>5 DEF Binds
  <2>8. Binds(value)'
    BY <2>6, <2>7 DEF Binds
  <2> QED
    BY <1>1, <1>2, <2>1, <2>2, <2>6, <2>8 DEF ValueIsHardened, Sound
<1> QED
  BY <1>3, <1>4, <1>5, <1>6 DEF Commands

LEMMA HardenedStep ==
  ASSUME TypeOK, GitTyped, CommandHasJournal, JournalNames, JournalsAreSound, ValueIsHardened,
         [Next]_vars
  PROVE  ValueIsHardened'
<1> USE DEF At, SameCommand, Return, Gone
<1>1. StoresGrow
  BY StoresGrowStep
<1>2. /\ Len(commits) \in Nat /\ root \in 1 .. Len(commits) /\ rootDisk \in Nat
      /\ Len(commits') \in Nat /\ root' \in Nat /\ rootDisk' \in Nat
      /\ rootDisk <= root /\ value \in Journals
  <2>1. TypeOK' /\ GitTyped'
    BY TypeStep
  <2>2. Len(commits') \in Nat /\ rootDisk' \in 1 .. Len(commits') /\ root' \in 1 .. Len(commits')
    BY <2>1 DEF TypeOK, GitTyped
  <2>3. /\ Len(commits) \in Nat /\ rootDisk \in 1 .. Len(commits) /\ root \in 1 .. Len(commits)
        /\ rootDisk <= root /\ value \in Journals
    BY DEF TypeOK, GitTyped
  <2> QED
    BY <2>2, <2>3
<1>3. CASE cmd' = "none"
  BY <1>3 DEF ValueIsHardened
<1>4. CASE Commands
  BY <1>4, StartIsHardened
\* The steps that keep the command and its journal.
<1>5. ASSUME cmd' # "none", UNCHANGED <<cmd, who, value>>, root' >= root,
             step \in {"harden", "refs"} => step' = step \/ HardenObjects \/ SyncReferences,
             step # "harden" => step' # "harden"
      PROVE  ValueIsHardened'
  <2>1. ASSUME NEW c \in Children, value.children[c] # None
        PROVE  value.children[c] \in packed'[c] \/ (cmd = "record" /\ step' = "harden" /\ c = who)
    <3>1. CASE HardenObjects /\ cmd = "record" /\ c = who
      BY <3>1 DEF HardenObjects, TypeOK
    <3>2. value.children[c] \in packed[c] \/ (cmd = "record" /\ step = "harden" /\ c = who)
      BY <1>5, <2>1 DEF ValueIsHardened
    <3>3. value.children[c] \in packed[c] => value.children[c] \in packed'[c]
      BY <1>1 DEF StoresGrow
    <3>4. SyncReferences => step = "refs"
      BY DEF SyncReferences
    <3> QED
      BY <1>5, <3>1, <3>2, <3>3, <3>4
  <2>2. ASSUME value.phase # "prepare"
        PROVE  value.tree \in trees' \/ step' = "harden"
    <3>1. CASE HardenObjects
      <4>1. cmd # "record"
        BY <1>5, <2>2 DEF CommandHasJournal, Phase
      <4> QED
        BY <3>1, <4>1 DEF HardenObjects
    <3>2. value.tree \in trees \/ step = "harden"
      BY <1>5, <2>2 DEF ValueIsHardened
    <3>3. SyncReferences => step = "refs"
      BY DEF SyncReferences
    <3> QED
      BY <1>1, <1>5, <3>1, <3>2, <3>3 DEF StoresGrow
  <2>3. ASSUME value.phase = "committed"
        PROVE  /\ value.commit \in 1 .. root' /\ Binds(value)'
               /\ value.commit \in roots' \/ step' = "harden"
               /\ rootDisk' >= value.commit \/ step' \in {"harden", "refs"}
    <3>1. /\ value.commit \in 1 .. root /\ Binds(value)
          /\ value.commit \in roots \/ step = "harden"
          /\ rootDisk >= value.commit \/ step \in {"harden", "refs"}
      BY <1>5, <2>3 DEF ValueIsHardened
    <3>2. cmd = "finalize"
      BY <1>5, <2>3 DEF CommandHasJournal, Phase
    <3>3. value.commit \in 1 .. root' /\ commits'[value.commit] = commits[value.commit]
      BY <1>1, <1>2, <1>5, <3>1 DEF StoresGrow
    <3>4. Binds(value)'
      BY <1>5, <3>1, <3>3 DEF Binds
    <3>5. value.commit \in roots' \/ step' = "harden"
      <4>1. HardenObjects => value.commit \in roots'
        BY <3>2 DEF HardenObjects
      <4>2. SyncReferences => step = "refs"
        BY DEF SyncReferences
      <4> QED
        BY <1>1, <1>5, <3>1, <4>1, <4>2 DEF StoresGrow
    <3>6. rootDisk' >= value.commit \/ step' \in {"harden", "refs"}
      <4>1. SyncReferences => rootDisk' = root
        BY <3>2 DEF SyncReferences
      <4>2. HardenObjects => step' = "refs"
        BY DEF HardenObjects
      <4>3. rootDisk >= value.commit => rootDisk' >= value.commit
        BY <1>1, <1>2, <3>1 DEF StoresGrow
      <4> QED
        BY <1>2, <1>5, <3>1, <4>1, <4>2, <4>3
    <3> QED
      BY <3>3, <3>4, <3>5, <3>6
  <2> QED
    BY <1>5, <2>1, <2>2, <2>3 DEF ValueIsHardened
<1>6. CASE Developer \/ UNCHANGED vars
  <2>1. UNCHANGED <<cmd, who, value, step>>
    BY <1>6, DevelopersKeepJournals DEF vars
  <2>2. root' >= root
    <3>1. root' = root \/ root' = Len(commits')
      BY <1>6 DEF Developer, CommitRoot, CommitChild, Stage, vars
    <3> QED
      BY <1>1, <1>2, <3>1 DEF StoresGrow
  <2> QED
    BY <1>3, <1>5, <2>1, <2>2
<1>7. CASE HardenObjects \/ SyncReferences
  <2>1. UNCHANGED <<cmd, who, value, root>> /\ step' \in {"refs", "barrier"}
    BY <1>7 DEF HardenObjects, SyncReferences
  <2> QED
    BY <1>2, <1>3, <1>5, <1>7, <2>1
<1>8. CASE \/ SyncFilesystems \/ Recheck \/ MakeDirectory \/ SyncParent \/ ReplaceJournal
           \/ SyncJournal
  <2>1. cmd' = "none" \/ UNCHANGED <<cmd, who, value>>
    BY <1>8 DEF SyncFilesystems, Recheck, MakeDirectory, SyncParent, ReplaceJournal, SyncJournal
  <2>2. step \notin {"harden", "refs"} /\ step' # "harden" /\ root' = root
    BY <1>8 DEF SyncFilesystems, Recheck, MakeDirectory, SyncParent, ReplaceJournal, SyncJournal
  <2> QED
    BY <1>2, <1>3, <1>5, <2>1, <2>2
<1>9. CASE Retire \/ SyncControl \/ Rename \/ SyncDestination \/ Unlink \/ SyncSource
  <2>1. cmd' = "none" \/ UNCHANGED <<cmd, who, value>>
    BY <1>9 DEF Retire, SyncControl, Rename, SyncDestination, Unlink, SyncSource
  <2>2. step \notin {"harden", "refs"} /\ step' # "harden" /\ root' = root
    BY <1>9 DEF Retire, SyncControl, Rename, SyncDestination, Unlink, SyncSource
  <2> QED
    BY <1>2, <1>3, <1>5, <2>1, <2>2
<1>10. CASE Kill \/ LosePower
  BY <1>3, <1>10, PowerIsLost DEF Kill
<1> QED
  BY <1>4, <1>6, <1>7, <1>8, <1>9, <1>10 DEF Next, Running

-----------------------------------------------------------------------------
(***************************************************************************)
(* The checkpoints of the root, its index and both on disk: each is what   *)
(* one of them was, or what a developer stages.                            *)
(***************************************************************************)
DiskTree == commits[rootDisk].tree
RootMoves ==
  /\ RootTree'.cp \in {RootTree.cp, index.cp} \/ (LosePower /\ RootTree'.cp = DiskTree.cp)
  /\ DiskTree'.cp \in {DiskTree.cp, RootTree.cp}
  /\ index'.cp \in {index.cp, RootTree.cp + 1} \/ (LosePower /\ index'.cp = indexDisk.cp)
  /\ indexDisk'.cp \in {indexDisk.cp, index.cp}

LEMMA RootMovesStep ==
  ASSUME TypeOK, GitTyped, [Next]_vars
  PROVE  RootMoves
<1> USE DEF RootMoves, RootTree, DiskTree
<1>0. /\ commits \in Seq(RootCommits) /\ Len(commits) \in Nat
      /\ root \in 1 .. Len(commits) /\ rootDisk \in 1 .. Len(commits)
  BY DEF TypeOK, GitTyped
<1>1. CASE CommitRoot
  <2>1. [parent |-> root, tree |-> index] \in RootCommits
    BY RootTreeTyped DEF RootCommits, GitTyped
  <2>2. /\ commits' = Append(commits, [parent |-> root, tree |-> index])
        /\ root' = Len(commits') /\ UNCHANGED <<index, rootDisk, indexDisk>>
    BY <1>1 DEF CommitRoot
  <2>3. /\ root' = Len(commits) + 1 /\ commits'[Len(commits) + 1].tree = index
        /\ \A i \in 1 .. Len(commits) : commits'[i] = commits[i]
    BY <1>0, <2>1, <2>2
  <2> QED
    BY <1>0, <2>2, <2>3
<1>2. CASE \E c \in Children : Stage(c)
  BY <1>2 DEF Stage, Tree
<1>3. CASE SyncReferences
  BY <1>3 DEF SyncReferences
<1>4. CASE SyncFilesystems
  <2>1. /\ rootDisk' \in {root, rootDisk} /\ indexDisk' \in {index, indexDisk}
        /\ UNCHANGED <<root, index, commits>>
    BY <1>4 DEF SyncFilesystems
  <2> QED
    BY <2>1
<1>5. CASE LosePower
  <2>1. /\ root' \in {root, rootDisk} /\ index' \in {index, indexDisk}
        /\ rootDisk' = root' /\ indexDisk' = index' /\ commits' = commits
    BY <1>5 DEF LosePower
  <2> QED
    BY <1>5, <2>1
<1>6. ASSUME UNCHANGED <<root, index, rootDisk, indexDisk, commits>> PROVE RootMoves
  BY <1>6
<1>7. CASE (\E c \in Children : CommitChild(c)) \/ Commands \/ Kill \/ HardenObjects \/ UNCHANGED vars
  BY <1>6, <1>7 DEF CommitChild, Commands, Begin, RecordChild, PrepareRoot, Finalize, Start,
     Kill, HardenObjects, vars
<1>8. CASE \/ Recheck \/ MakeDirectory \/ SyncParent \/ ReplaceJournal \/ SyncJournal \/ Retire
           \/ SyncControl \/ Rename \/ SyncDestination \/ Unlink \/ SyncSource
  BY <1>6, <1>8 DEF Recheck, MakeDirectory, SyncParent, ReplaceJournal, SyncJournal, Retire,
     SyncControl, Rename, SyncDestination, Unlink, SyncSource
<1> QED
  BY <1>1, <1>2, <1>3, <1>4, <1>5, <1>7, <1>8 DEF Next, Developer, Running

LEMMA BehindStep ==
  ASSUME TypeOK, GitTyped, CommandHasJournal, JournalNames, JournalsAreBehind, JournalNames',
         [Next]_vars
  PROVE  JournalsAreBehind'
<1> USE DEF At, SameCommand, Return, Gone
<1>1. RootMoves /\ JournalsMove
  BY RootMovesStep, JournalsMoveStep
<1>2. RootTree.cp \in Nat /\ DiskTree.cp \in Nat /\ index.cp \in Nat /\ indexDisk.cp \in Nat
  BY RootTreeTyped DEF DiskTree, GitTyped, Trees
<1>3. ASSUME NEW cp \in Nat, Behind(cp)
      PROVE  Behind(cp)'
  <2>1. RootTree.cp >= cp /\ DiskTree.cp >= cp /\ index.cp >= cp /\ indexDisk.cp >= cp
    BY <1>3 DEF Behind, DiskTree
  <2>2. RootTree'.cp >= cp /\ DiskTree'.cp >= cp /\ index'.cp >= cp /\ indexDisk'.cp >= cp
    BY <1>1, <1>2, <2>1 DEF RootMoves
  <2> QED
    BY <2>2 DEF Behind, DiskTree
<1>4. \A journal \in {txn, txnDisk} : journal.phase = "committed" => Behind(journal.cp)
  BY DEF JournalsAreBehind
<1>5. step = "replace" /\ value.phase = "committed" /\ cmd # "none" => Behind(value.cp)
  BY DEF JournalsAreBehind, CommandHasJournal, Phase, Behind
<1>6. \A journal \in Journals : journal.cp \in Nat
  BY DEF Journals, Checkpoints
<1>7. txn'.phase = "committed" => Behind(txn.cp)'
  <2>1. txn'.phase = "committed" => Behind(txn'.cp) /\ txn'.cp \in Nat
    BY <1>1, <1>4, <1>5, <1>6, NothingIsTyped DEF JournalsMove, TypeOK
  <2> QED
    BY <1>3, <2>1 DEF Behind
<1>8. txnDisk'.phase = "committed" => Behind(txnDisk.cp)'
  <2>1. txnDisk'.phase = "committed" => Behind(txnDisk'.cp) /\ txnDisk'.cp \in Nat
    BY <1>1, <1>4, <1>6, NothingIsTyped DEF JournalsMove, TypeOK
  <2> QED
    BY <1>3, <2>1 DEF Behind
<1>9. ASSUME NEW n \in Checkpoints
      PROVE  (done'[n] # Nothing => Behind(n)') /\ (doneDisk'[n] # Nothing => Behind(n)')
  <2>1. n \in Nat
    BY DEF Checkpoints
  <2>2. done[n] # Nothing \/ doneDisk[n] # Nothing => Behind(n)
    BY DEF JournalsAreBehind
  <2>3. done'[n] # Nothing => done'[n].cp = n /\ done'[n].phase = "committed"
    BY DEF JournalNames
  <2>4. done'[n] # Nothing \/ doneDisk'[n] # Nothing => Behind(n)
    BY <1>1, <1>4, <2>2, <2>3 DEF JournalsMove
  <2> QED
    BY <1>3, <2>1, <2>4
<1>10. ASSUME cmd' = "finalize"
       PROVE  /\ RootTree'.cp >= value'.cp /\ index'.cp >= value'.cp
              /\ DiskTree'.cp >= value'.cp \/ step' \in {"harden", "refs"}
              /\ indexDisk'.cp >= value'.cp \/ step' \in {"harden", "refs", "barrier"}
  <2>1. CASE Commands
    <3>1. Finalize
      BY <1>10, <2>1 DEF Commands, Begin, RecordChild, PrepareRoot, Start
    <3>2. value' = OfFinalize(txn, root) /\ step' = "harden" /\ root \in 1 .. MaxRoots
          /\ txn \in Journals
      BY <3>1, RootTreeTyped DEF Finalize, Start, OfFinalize, TypeOK
    <3>3. value'.cp = txn.cp
      BY <3>2, FinalizedJournal
    <3>4. RootTree.cp = txn.cp /\ index = RootTree /\ RootTree' = RootTree /\ index' = index
      BY <3>1 DEF Finalize, RootIsClean, Start, RootTree
    <3> QED
      BY <1>2, <3>2, <3>3, <3>4
  <2>2. CASE ~Commands
    <3>1. UNCHANGED <<cmd, value>> /\ ~LosePower
      <4>1. CASE Developer \/ UNCHANGED vars
        BY <1>10, <4>1, DevelopersKeepJournals, PowerIsLost DEF vars
      <4>2. ~Kill /\ ~LosePower
        BY <1>10, PowerIsLost DEF Kill
      <4>3. CASE \/ HardenObjects \/ SyncReferences \/ SyncFilesystems \/ Recheck
                 \/ MakeDirectory \/ SyncParent \/ ReplaceJournal \/ SyncJournal
        BY <1>10, <4>2, <4>3 DEF HardenObjects, SyncReferences, SyncFilesystems, Recheck,
           MakeDirectory, SyncParent, ReplaceJournal, SyncJournal
      <4>4. CASE Retire \/ SyncControl \/ Rename \/ SyncDestination \/ Unlink \/ SyncSource
        BY <1>10, <4>2, <4>4 DEF Retire, SyncControl, Rename, SyncDestination, Unlink, SyncSource
      <4> QED
        BY <2>2, <4>1, <4>2, <4>3, <4>4 DEF Next, Running
    <3>2. /\ RootTree.cp >= value.cp /\ index.cp >= value.cp
          /\ DiskTree.cp >= value.cp \/ step \in {"harden", "refs"}
          /\ indexDisk.cp >= value.cp \/ step \in {"harden", "refs", "barrier"}
      BY <1>10, <3>1 DEF JournalsAreBehind, DiskTree
    <3>3. value.cp \in Nat
      BY <1>6 DEF TypeOK
    <3>4. RootTree'.cp >= value.cp /\ index'.cp >= value.cp
      BY <1>1, <1>2, <3>1, <3>2, <3>3 DEF RootMoves
    <3>5. /\ DiskTree.cp >= value.cp => DiskTree'.cp >= value.cp
          /\ indexDisk.cp >= value.cp => indexDisk'.cp >= value.cp
      BY <1>1, <1>2, <3>2, <3>3 DEF RootMoves
    <3>6. CASE UNCHANGED step \/ HardenObjects
      BY <3>1, <3>2, <3>4, <3>5, <3>6 DEF HardenObjects
    <3>7. CASE SyncReferences
      <4>1. DiskTree'.cp = RootTree.cp /\ step' = "barrier"
        BY <1>10, <3>1, <3>7 DEF SyncReferences, DiskTree, RootTree
      <4> QED
        BY <3>1, <3>2, <3>4, <4>1
    <3>8. CASE SyncFilesystems
      <4>1. indexDisk' = index /\ DiskTree'.cp = RootTree.cp
        BY <1>10, <3>1, <3>8 DEF SyncFilesystems, DiskTree, RootTree
      <4> QED
        BY <3>1, <3>2, <3>4, <4>1
    <3>9. CASE step \notin {"harden", "refs", "barrier"}
      BY <3>1, <3>2, <3>4, <3>5, <3>9
    <3>10. step' = step \/ step \notin {"harden", "refs", "barrier"} \/ HardenObjects
           \/ SyncReferences \/ SyncFilesystems
      <4>1. CASE Developer \/ UNCHANGED vars
        BY <4>1, DevelopersKeepJournals DEF vars
      <4>2. ~Kill /\ ~LosePower
        BY <1>10, PowerIsLost DEF Kill
      <4> QED
        BY <2>2, <4>1, <4>2 DEF Next, Running, Recheck, MakeDirectory, SyncParent, ReplaceJournal,
           SyncJournal, Retire, SyncControl, Rename, SyncDestination, Unlink, SyncSource
    <3> QED
      BY <3>6, <3>7, <3>8, <3>9, <3>10
  <2> QED
    BY <2>1, <2>2
<1> QED
  BY <1>7, <1>8, <1>9, <1>10 DEF JournalsAreBehind, DiskTree

-----------------------------------------------------------------------------
(***************************************************************************)
(* Every step keeps the journal of a begun checkpoint on disk.             *)
(***************************************************************************)
LEMMA DurableStep ==
  ASSUME TypeOK, GitTyped, CommandHasJournal, JournalNames, DirectoriesAreSynced, BegunIsDurable,
         [Next]_vars
  PROVE  BegunIsDurable'
<1> SUFFICES ASSUME kills' = 0, NEW n \in begun' PROVE Durable(n)'
  BY DEF BegunIsDurable
<1> USE NothingIsTyped DEF Durable, At, SameCommand, Return, Gone
<1>1. n \in Checkpoints /\ n # 0
  <2>1. begun' \subseteq Checkpoints
    BY JournalTypesStep DEF JournalsTyped
  <2> QED
    BY <2>1 DEF Checkpoints
<1>2. n \in begun /\ kills = 0 => Durable(n)
  BY DEF BegunIsDurable
<1>3. CASE Developer \/ UNCHANGED vars
  BY <1>2, <1>3, DevelopersKeepJournals DEF vars
<1>4. CASE Commands
  <2>1. UNCHANGED <<journalVars, historyVars, faultVars>> /\ step = "idle"
    BY <1>4, CommandStarts DEF CommandHasJournal
  <2> QED
    BY <1>2, <2>1
<1>5. CASE \/ HardenObjects \/ SyncReferences \/ Recheck \/ MakeDirectory \/ SyncParent
           \/ SyncControl
  <2>1. UNCHANGED <<txn, done, txnDisk, doneDisk, historyVars, kills>> /\ step # "destination"
    BY <1>5 DEF HardenObjects, SyncReferences, Recheck, MakeDirectory, SyncParent, SyncControl
  <2> QED
    BY <1>2, <2>1
<1>6. CASE SyncFilesystems
  <2>1. /\ UNCHANGED <<txn, done, historyVars, kills>> /\ step # "destination"
        /\ UNCHANGED <<txnDisk, doneDisk>> \/ (txnDisk' = txn /\ doneDisk' = done)
    BY <1>6 DEF SyncFilesystems
  <2> QED
    BY <1>2, <2>1
<1>7. CASE ReplaceJournal
  <2>1. IF cmd = "begin" THEN txn = Nothing ELSE txn.cp = value.cp
    BY <1>7 DEF ReplaceJournal, CommandHasJournal, Writing
  <2> QED
    BY <1>1, <1>2, <1>7, <2>1 DEF ReplaceJournal
<1>8. CASE SyncJournal
  <2>1. txn = value
    BY <1>8 DEF SyncJournal, CommandHasJournal, Written
  <2> QED
    BY <1>2, <1>8, <2>1 DEF SyncJournal
<1>9. CASE Retire
  BY <1>2, <1>9 DEF Retire
<1>10. CASE Rename
  <2>1. txn = value /\ txnDisk = txn /\ value.cp \in Checkpoints
    BY <1>10 DEF Rename, CommandHasJournal, Written
  <2>2. done'[n] = (IF n = value.cp THEN value ELSE done[n])
    BY <1>1, <1>10, <2>1 DEF Rename, TypeOK
  <2>3. n # value.cp => done[n].cp = n /\ doneDisk[n].cp = n
    BY <1>2, <1>10, <2>1 DEF Rename
  <2> QED
    BY <1>10, <2>1, <2>2, <2>3 DEF Rename
<1>11. CASE SyncDestination
  BY <1>2, <1>11 DEF SyncDestination
<1>12. CASE Unlink
  <2>1. txn = value /\ done[value.cp] = value /\ doneDisk = done
    BY <1>12 DEF Unlink, CommandHasJournal, Written
  <2> QED
    BY <1>2, <1>12, <2>1 DEF Unlink
<1>13. CASE SyncSource
  <2>1. txn = Nothing /\ doneDisk = done
    BY <1>13 DEF SyncSource, CommandHasJournal, Retired
  <2> QED
    BY <1>1, <1>2, <1>13, <2>1 DEF SyncSource
<1>14. CASE Kill
  BY <1>14 DEF Kill, GitTyped
<1>15. CASE LosePower
  <2>1. n \in begun /\ kills = 0 /\ Durable(n)
    BY <1>2, <1>15, PowerIsLost
  <2>2. /\ txnDisk' = txn' /\ doneDisk' = done'
        /\ txn' = txn \/ txn' = (IF txnDir = "cached" THEN Nothing ELSE txnDisk)
        /\ Renaming(n) /\ txn' = txn => done'[n] = done[n]
    BY <1>1, <1>15 DEF LosePower, LoseJournals
  <2>3. CASE txn.cp = n /\ txnDisk.cp = n
    <3>1. txnDir # "cached"
      BY <1>1, <2>1, <2>3 DEF DirectoriesAreSynced
    <3> QED
      BY <2>2, <2>3, <3>1
  <2>4. ASSUME done[n].cp = n
        PROVE  done'[n] \in {done[n], doneDisk[n]}
    <3>1. doneDir = "synced"
      BY <1>1, <2>4 DEF DirectoriesAreSynced
    <3> QED
      BY <1>1, <1>15, <3>1, PowerIsLost
  <2>5. CASE done[n].cp = n /\ doneDisk[n].cp = n
    BY <2>2, <2>4, <2>5
  <2>6. CASE done[n].cp = n /\ step = "destination" /\ txnDisk.cp = n
    <3>1. txn = Nothing /\ txnDir # "cached"
      BY <1>1, <2>1, <2>6 DEF CommandHasJournal, Retired, DirectoriesAreSynced
    <3>2. CASE txn' = txn
      <4>1. Renaming(n) \/ doneDisk[n] = done[n]
        BY <1>1, <2>6, <3>1 DEF Renaming
      <4> QED
        BY <2>2, <2>4, <2>6, <3>2, <4>1
    <3>3. CASE txn' = txnDisk
      BY <2>2, <2>6, <3>3
    <3> QED
      BY <2>2, <3>1, <3>2, <3>3
  <2> QED
    BY <2>1, <2>3, <2>5, <2>6
<1> QED
  BY <1>3, <1>4, <1>5, <1>6, <1>7, <1>8, <1>9, <1>10, <1>11, <1>12, <1>13, <1>14, <1>15
     DEF Next, Running

-----------------------------------------------------------------------------
(***************************************************************************)
(* The theorems.                                                           *)
(***************************************************************************)
LEMMA JournalNext == JournalInv /\ [Next]_vars => JournalInv'
<1> SUFFICES ASSUME JournalInv, [Next]_vars PROVE JournalInv'
  OBVIOUS
<1> USE DEF JournalInv
<1>1. TypeOK' /\ GitTyped'
  BY TypeStep
<1>2. CommandHasJournal' /\ JournalNames'
  BY CommandStep, NamesStep
<1>3. JournalsAreSound' /\ ValueIsHardened'
  BY SoundStep, HardenedStep
<1>4. JournalsAreBehind'
  BY <1>2, BehindStep
<1>5. DirectoriesAreSynced' /\ BegunIsDurable'
  BY DirectoriesStep, DurableStep
<1> QED
  BY <1>1, <1>2, <1>3, <1>4, <1>5

THEOREM JournalInvariant == Spec => []JournalInv
<1> QED
  BY JournalInit, JournalNext, PTL DEF Spec

\* Every variable of the transactions has its type, for every number of
\* children, commits, checkpoints and faults (486-502).
THEOREM JournalTypes == Spec => []TypeOK
<1>1. JournalInv => TypeOK
  BY DEF JournalInv
<1> QED
  BY <1>1, JournalInvariant, PTL

\* Whatever a journal names is on disk before the journal can be, and a
\* committed journal binds the commit that follows the one it began from,
\* through every crash (the barriers of 357-483).
THEOREM SoundJournals == Spec => []JournalsAreSound
<1>1. JournalInv => JournalsAreSound
  BY DEF JournalInv
<1> QED
  BY <1>1, JournalInvariant, PTL

\* A power loss at any step never takes the only journal of a checkpoint
\* whose begin returned, as long as no command was killed (777-800).
THEOREM BegunStays == Spec => []BegunNeverLost
<1>1. JournalInv => BegunNeverLost
  BY DEF JournalInv, BegunIsDurable, Durable, BegunNeverLost, Found
<1> QED
  BY <1>1, JournalInvariant, PTL

\* The two names of a journal hold the same bytes whenever both exist, so a
\* finalization can be run again after any interruption (781-790).
THEOREM JournalsAgree == Spec => []NamesAgree
<1>1. JournalInv => NamesAgree
  BY DEF JournalInv, JournalNames, NamesAgree
<1> QED
  BY <1>1, JournalInvariant, PTL
=============================================================================
