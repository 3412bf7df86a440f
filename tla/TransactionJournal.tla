------------------------- MODULE TransactionJournal -------------------------
(***************************************************************************)
(* The checkpoint transactions of scripts/transaction.py: a journal is     *)
(* begun, each participating child repository is recorded, the root index  *)
(* is prepared, a developer commits it, and the transaction is finalized   *)
(* and its journal retired.  The commands run under one lock; developers   *)
(* use git between and during them; the process may be killed and the      *)
(* machine may lose power between any two steps.                           *)
(*                                                                         *)
(* Each store is kept twice, as the programs see it and as it is on disk.  *)
(* A child's HEAD stands for its commit with a clean worktree.             *)
(***************************************************************************)
EXTENDS Naturals, Sequences, FiniteSets, TLC

CONSTANTS Children,
          MaxCommits,     \* bound on the commits made in each child
          MaxRoots,       \* bound on the commits of the root
          MaxCheckpoints, \* bound on the checkpoints
          Kills,          \* bound on killed commands
          PowerLosses,    \* bound on power losses
          Careful         \* the developer does only what the transaction needs

ASSUME JournalAssumption ==
  /\ Children # {} /\ IsFiniteSet(Children)
  /\ MaxCommits \in Nat \ {0} /\ MaxRoots \in Nat \ {0} /\ MaxCheckpoints \in Nat \ {0}
  /\ Kills \in Nat /\ PowerLosses \in Nat /\ Careful \in BOOLEAN

VARIABLES
  \* git
  head, made,    \* each child's HEAD and the number of its commits so far
  commits, root, \* commits of the root, and its HEAD
  index,         \* staged tree of the root: state/current.json and gitlinks
  \* git, on disk
  packed,        \* commits of each child whose objects are synced
  refDisk,       \* each child's branch
  trees, roots,  \* trees and commits of the root whose objects are synced
  rootDisk, indexDisk,
  \* the journals: txn/ and committed/
  txn, done, txnDisk, doneDisk,
  txnDir, doneDir, \* the directories' names in their parent
  \* the running command
  cmd, step, who,
  value,         \* the journal it will write
  created,       \* atomic_json made the directory
  \* history
  begun, settled, \* checkpoints whose begin returned; durably committed ones
  kills, losses

childVars == <<head, made, packed, refDisk>>
rootVars == <<commits, root, index, trees, roots, rootDisk, indexDisk>>
journalVars == <<txn, done, txnDisk, doneDisk, txnDir, doneDir>>
commandVars == <<cmd, step, who, value, created>>
historyVars == <<begun, settled>>
faultVars == <<kills, losses>>
vars == <<childVars, rootVars, journalVars, commandVars, historyVars, faultVars>>

None == 0 \* no commit: the first one of a repository is 1
Checkpoints == 1 .. MaxCheckpoints
Tree(cp, links) == [cp |-> cp, links |-> links]
Empty == [c \in Children |-> None]

\* Nothing tells one child from another.
Symmetry == Permutations(Children)

Nothing == [cp |-> 0, phase |-> "prepare", previous |-> None, declared |-> {},
            children |-> Empty, tree |-> Tree(0, Empty), commit |-> None]

Init ==
  /\ head = [c \in Children |-> 1] /\ made = head
  /\ packed = [c \in Children |-> {1}] /\ refDisk = head
  /\ index = Tree(1, head) /\ indexDisk = index
  /\ commits = <<[parent |-> None, tree |-> index]>>
  /\ root = 1 /\ rootDisk = 1 /\ trees = {index} /\ roots = {1}
  /\ txn = Nothing /\ txnDisk = Nothing /\ txnDir = "absent"
  /\ done = [n \in Checkpoints |-> Nothing] /\ doneDisk = done /\ doneDir = "absent"
  /\ cmd = "none" /\ step = "idle" /\ who \in Children
  /\ value = Nothing /\ created = FALSE
  /\ begun = {} /\ settled = {} /\ kills = 0 /\ losses = 0

-----------------------------------------------------------------------------
(***************************************************************************)
(* What the commands ask of git.                                           *)
(***************************************************************************)
RootTree == commits[root].tree
Staged(c) == index.links[c] # commits[txn.previous].tree.links[c]
HasCommit(c) == head[c] # commits[txn.previous].tree.links[c]
\* git status of the root: index, HEAD and the children's HEADs agree.
RootIsClean == index = RootTree /\ head = RootTree.links
ChildrenAre(journal) == \A c \in journal.declared : head[c] = journal.children[c]

-----------------------------------------------------------------------------
(***************************************************************************)
(* The developer, at any time.                                             *)
(***************************************************************************)
CommitChild(c) ==
  /\ made[c] < MaxCommits
  /\ Careful => txn.phase = "prepare" /\ c \in txn.declared /\ ~HasCommit(c)
  /\ made' = [made EXCEPT ![c] = @ + 1]
  /\ head' = [head EXCEPT ![c] = made'[c]]
  /\ UNCHANGED <<packed, refDisk, rootVars, journalVars, commandVars, historyVars, faultVars>>

Stage(c) ==
  /\ RootTree.cp < MaxCheckpoints
  /\ Careful => txn.phase = "prepare" /\ c \in txn.declared
  /\ index' = Tree(RootTree.cp + 1, [index.links EXCEPT ![c] = head[c]])
  /\ UNCHANGED <<childVars, commits, root, trees, roots, rootDisk, indexDisk, journalVars,
                 commandVars, historyVars, faultVars>>

CommitRoot ==
  /\ Len(commits) < MaxRoots
  /\ index # RootTree
  /\ Careful => txn.phase = "prepared" /\ cmd = "none"
  /\ commits' = Append(commits, [parent |-> root, tree |-> index])
  /\ root' = Len(commits')
  /\ UNCHANGED <<childVars, index, trees, roots, rootDisk, indexDisk, journalVars, commandVars,
                 historyVars, faultVars>>

-----------------------------------------------------------------------------
(***************************************************************************)
(* The checks of each command, up to its durability barrier.               *)
(***************************************************************************)
Start(command, first, journal) ==
  /\ cmd = "none"
  /\ cmd' = command /\ step' = first /\ value' = journal
  /\ UNCHANGED <<childVars, rootVars, journalVars, created, historyVars, faultVars>>

\* Mutant: skips a checkpoint.
BeginSkipping(participants) ==
  /\ txn = Nothing /\ RootTree.cp < MaxCheckpoints /\ RootIsClean
  /\ Start("begin", "mkdir", [Nothing EXCEPT !.cp = RootTree.cp + 2, !.previous = root,
                                            !.declared = participants])
  /\ UNCHANGED who

Begin(participants) ==
  /\ txn = Nothing
  /\ RootTree.cp < MaxCheckpoints
  /\ RootIsClean
  /\ Start("begin", "mkdir",
           [Nothing EXCEPT !.cp = RootTree.cp + 1, !.previous = root,
                           !.declared = participants])
  /\ UNCHANGED who

\* Mutant: the journal records a child before its barrier.
RecordChildAtOnce(c) ==
  /\ txn # Nothing /\ txn.phase = "prepare" /\ c \in txn.declared
  /\ txn.children[c] \in {None, head[c]}
  /\ Start("record", "mkdir", [txn EXCEPT !.children[c] = head[c]])
  /\ who' = c

RecordChild(c) ==
  /\ txn # Nothing /\ txn.phase = "prepare"
  /\ c \in txn.declared
  /\ txn.children[c] \in {None, head[c]}
  /\ Careful => HasCommit(c)
  /\ Start("record", "harden", [txn EXCEPT !.children[c] = head[c]])
  /\ who' = c

PrepareRoot ==
  /\ txn # Nothing /\ txn.phase = "prepare"
  /\ \A c \in txn.declared : txn.children[c] # None
  /\ ChildrenAre(txn)
  /\ \A c \in txn.declared : index.links[c] = txn.children[c]
  /\ {c \in Children : Staged(c)} = txn.declared
  /\ index.links = head
  /\ Start("prepare", "harden", [txn EXCEPT !.phase = "prepared", !.tree = index])
  /\ UNCHANGED who

Finalize ==
  /\ txn # Nothing /\ txn.phase \in {"prepared", "committed"}
  /\ commits[root].parent = txn.previous
  /\ RootTree = txn.tree
  /\ RootTree.cp = txn.cp
  /\ ChildrenAre(txn)
  /\ txn.phase = "committed" => txn.commit = root
  /\ RootIsClean
  /\ Start("finalize", "harden", [txn EXCEPT !.phase = "committed", !.commit = root])
  /\ UNCHANGED who

-----------------------------------------------------------------------------
(***************************************************************************)
(* The durability barrier: objects, then references, then the filesystems, *)
(* then the identities again.                                              *)
(***************************************************************************)
At(place, next) == step = place /\ step' = next
SameCommand == UNCHANGED <<cmd, who, value>>
Return == cmd' = "none" /\ value' = Nothing /\ UNCHANGED who

HardenObjects ==
  /\ At("harden", "refs") /\ SameCommand
  /\ packed' = IF cmd = "record"
               THEN [packed EXCEPT ![who] = @ \cup {value.children[who]}] ELSE packed
  /\ trees' = IF cmd = "record" THEN trees ELSE trees \cup {value.tree}
  /\ roots' = IF cmd = "finalize" THEN roots \cup {value.commit} ELSE roots
  /\ UNCHANGED <<head, made, refDisk, commits, root, index, rootDisk, indexDisk, journalVars,
                 created, historyVars, faultVars>>

SyncReferences ==
  /\ At("refs", "barrier") /\ SameCommand
  /\ refDisk' = IF cmd = "record" THEN [refDisk EXCEPT ![who] = head[who]] ELSE refDisk
  /\ indexDisk' = IF cmd = "prepare" THEN index ELSE indexDisk
  /\ rootDisk' = IF cmd = "finalize" THEN root ELSE rootDisk
  /\ UNCHANGED <<head, made, packed, commits, root, index, trees, roots, journalVars, created,
                 historyVars, faultVars>>

\* syncfs of the child's filesystem, or of the root's and every recorded child's.
SyncFilesystems ==
  /\ At("barrier", "recheck") /\ SameCommand
  /\ LET synced == IF cmd = "record" THEN {who} ELSE value.declared IN
       /\ refDisk' = [c \in Children |-> IF c \in synced THEN head[c] ELSE refDisk[c]]
       /\ packed' = [c \in Children |-> IF c \in synced THEN packed[c] \cup {head[c]}
                                        ELSE packed[c]]
  /\ IF cmd = "record"
     THEN UNCHANGED <<rootDisk, indexDisk, trees, roots, journalVars>>
     ELSE /\ rootDisk' = root /\ indexDisk' = index
          /\ trees' = trees \cup {index, RootTree} /\ roots' = roots \cup {root}
          /\ txnDisk' = txn /\ doneDisk' = done
          /\ txnDir' = "synced"
          /\ doneDir' = IF doneDir = "cached" THEN "synced" ELSE doneDir
          /\ UNCHANGED <<txn, done>>
  /\ UNCHANGED <<head, made, commits, root, index, created, historyVars, faultVars>>

Unmoved ==
  CASE cmd = "record"   -> head[who] = value.children[who]
    [] cmd = "prepare"  -> index = value.tree /\ ChildrenAre(value)
    [] cmd = "finalize" -> root = value.commit /\ RootIsClean /\ ChildrenAre(value)

\* A finalization that found the journal committed does not write it again.
Recheck ==
  /\ step = "recheck"
  /\ \/ Unmoved /\ step' = (IF value = txn /\ cmd = "finalize" THEN "retire" ELSE "mkdir")
        /\ SameCommand
     \/ ~Unmoved /\ step' = "idle" /\ Return
  /\ UNCHANGED <<childVars, rootVars, journalVars, created, historyVars, faultVars>>

-----------------------------------------------------------------------------
(***************************************************************************)
(* atomic_json: the directory and its name are synced when this call made  *)
(* it; the file replaces the old one, then txn/ is synced.                 *)
(***************************************************************************)
MakeDirectory ==
  /\ At("mkdir", "parent") /\ SameCommand
  /\ created' = (txnDir = "absent")
  /\ txnDir' = IF created' THEN "cached" ELSE txnDir
  /\ UNCHANGED <<childVars, rootVars, txn, done, txnDisk, doneDisk, doneDir, historyVars,
                 faultVars>>

SyncParent ==
  /\ At("parent", "replace") /\ SameCommand
  /\ txnDir' = IF created THEN "synced" ELSE txnDir
  /\ created' = FALSE
  /\ UNCHANGED <<childVars, rootVars, txn, done, txnDisk, doneDisk, doneDir, historyVars,
                 faultVars>>

ReplaceJournal ==
  /\ At("replace", "sync") /\ SameCommand
  /\ txn' = value
  /\ UNCHANGED <<childVars, rootVars, done, txnDisk, doneDisk, txnDir, doneDir, created,
                 historyVars, faultVars>>

\* Mutant: txn/ is left to be written back.
SyncJournalLater ==
  /\ step = "sync"
  /\ IF cmd = "finalize" THEN step' = "retire" /\ SameCommand ELSE step' = "idle" /\ Return
  /\ UNCHANGED <<childVars, rootVars, journalVars, created, historyVars, faultVars>>

SyncJournal ==
  /\ step = "sync"
  /\ txnDisk' = txn
  /\ IF cmd = "finalize" THEN step' = "retire" /\ SameCommand ELSE step' = "idle" /\ Return
  /\ begun' = begun \cup {value.cp}
  /\ settled' = IF cmd = "finalize" THEN settled \cup {value.cp} ELSE settled
  /\ UNCHANGED <<childVars, rootVars, txn, done, doneDisk, txnDir, doneDir, created, faultVars>>

-----------------------------------------------------------------------------
(***************************************************************************)
(* retire_journal.  A retired name that a power loss kept beside the       *)
(* active one is kept, and the active one is unlinked, if they are equal.  *)
(***************************************************************************)
\* Mutant: any retired name stands in the way.
RetireOnce ==
  /\ step = "retire"
  /\ doneDir' = IF doneDir = "absent" THEN "cached" ELSE doneDir
  /\ \/ done[value.cp] = Nothing /\ step' = "control" /\ SameCommand
     \/ done[value.cp] # Nothing /\ step' = "idle" /\ Return
  /\ UNCHANGED <<childVars, rootVars, txn, done, txnDisk, doneDisk, txnDir, created,
                 historyVars, faultVars>>

Retire ==
  /\ step = "retire"
  /\ doneDir' = IF doneDir = "absent" THEN "cached" ELSE doneDir
  /\ \/ done[value.cp] = Nothing /\ step' = "control" /\ SameCommand
     \/ done[value.cp] = txn /\ step' = "duplicate" /\ SameCommand
     \/ done[value.cp] \notin {Nothing, txn} /\ step' = "idle" /\ Return
  /\ UNCHANGED <<childVars, rootVars, txn, done, txnDisk, doneDisk, txnDir, created,
                 historyVars, faultVars>>

SyncControl ==
  /\ At("control", "rename") /\ SameCommand
  /\ txnDir' = "synced" /\ doneDir' = "synced"
  /\ UNCHANGED <<childVars, rootVars, txn, done, txnDisk, doneDisk, created, historyVars,
                 faultVars>>

Rename ==
  /\ At("rename", "destination") /\ SameCommand
  /\ done' = [done EXCEPT ![value.cp] = txn]
  /\ txn' = Nothing
  /\ UNCHANGED <<childVars, rootVars, txnDisk, doneDisk, txnDir, doneDir, created, historyVars,
                 faultVars>>

\* Mutant: the deletion is synced before the new name.
SyncSourceFirst ==
  /\ \/ At("destination", "source") \/ At("duplicate", "unlink")
  /\ SameCommand
  /\ txnDisk' = txn
  /\ UNCHANGED <<childVars, rootVars, txn, done, doneDisk, txnDir, doneDir, created,
                 historyVars, faultVars>>

SyncDestination ==
  /\ \/ At("destination", "source") \/ At("duplicate", "unlink")
  /\ SameCommand
  /\ doneDisk' = done
  /\ UNCHANGED <<childVars, rootVars, txn, done, txnDisk, txnDir, doneDir, created,
                 historyVars, faultVars>>

Unlink ==
  /\ At("unlink", "source") /\ SameCommand
  /\ txn' = Nothing
  /\ UNCHANGED <<childVars, rootVars, done, txnDisk, doneDisk, txnDir, doneDir, created,
                 historyVars, faultVars>>

SyncSource ==
  /\ At("source", "idle") /\ Return
  /\ txnDisk' = txn
  /\ UNCHANGED <<childVars, rootVars, txn, done, doneDisk, txnDir, doneDir, created,
                 historyVars, faultVars>>

-----------------------------------------------------------------------------
(***************************************************************************)
(* Faults, external.  A killed command leaves what the system already sees.  *)
(* After a power loss each store is as on disk or, where the system had    *)
(* written it back, as it was seen; what survived is on disk.  Git syncs   *)
(* the objects of a commit before the reference to it.  The two halves of  *)
(* a rename are written back in one piece or the new name first.           *)
(***************************************************************************)
Gone == step' = "idle" /\ created' = FALSE /\ Return

Kill ==
  /\ cmd # "none" /\ kills < Kills
  /\ kills' = kills + 1
  /\ Gone
  /\ UNCHANGED <<childVars, rootVars, journalVars, historyVars, losses>>

Renaming(n) == txnDisk.cp = n /\ txn # txnDisk /\ done[n] # doneDisk[n]

After(directory, kept) ==
  IF directory = "cached" THEN IF kept THEN "synced" ELSE "absent" ELSE directory

LoseJournals ==
  /\ \/ txn' = txn /\ txnDir' = After(txnDir, TRUE)
     \/ /\ txn' = IF txnDir = "cached" THEN Nothing ELSE txnDisk
        /\ txnDir' = After(txnDir, FALSE)
  /\ \/ done' = done /\ doneDir' = After(doneDir, TRUE)
     \/ /\ done' = IF doneDir = "cached" THEN [n \in Checkpoints |-> Nothing] ELSE doneDisk
        /\ doneDir' = After(doneDir, FALSE)
  /\ \A n \in Checkpoints : Renaming(n) /\ txn' = txn => done'[n] = done[n]
  /\ txnDisk' = txn' /\ doneDisk' = done'

LosePower ==
  /\ losses < PowerLosses
  /\ losses' = losses + 1
  /\ \E kept \in SUBSET Children :
       head' = [c \in Children |-> IF c \in kept THEN head[c] ELSE refDisk[c]]
  /\ refDisk' = head'
  /\ packed' = [c \in Children |-> packed[c] \cup {head'[c]}]
  /\ root' \in {root, rootDisk} /\ index' \in {index, indexDisk}
  /\ rootDisk' = root' /\ indexDisk' = index'
  /\ roots' = roots \cup {root'} /\ trees' = trees \cup {commits[root'].tree}
  /\ LoseJournals
  /\ Gone
  /\ UNCHANGED <<made, commits, historyVars, kills>>

-----------------------------------------------------------------------------
Developer == CommitRoot \/ \E c \in Children : CommitChild(c) \/ Stage(c)

Commands ==
  \/ \E D \in SUBSET Children \ {{}} : Begin(D)
  \/ \E c \in Children : RecordChild(c)
  \/ PrepareRoot \/ Finalize

Running ==
  \/ HardenObjects \/ SyncReferences \/ SyncFilesystems \/ Recheck
  \/ MakeDirectory \/ SyncParent \/ ReplaceJournal \/ SyncJournal
  \/ Retire \/ SyncControl \/ Rename \/ SyncDestination \/ Unlink \/ SyncSource

Next == Developer \/ Commands \/ Running \/ Kill \/ LosePower

Spec == Init /\ [][Next]_vars

\* A developer who carries on, and who runs again every command that can run.
FairSpec ==
  /\ Spec /\ WF_vars(Running)
  /\ SF_vars(CommitRoot) /\ SF_vars(PrepareRoot) /\ SF_vars(Finalize)
  /\ \A c \in Children :
       WF_vars(CommitChild(c)) /\ SF_vars(RecordChild(c)) /\ WF_vars(Stage(c))

-----------------------------------------------------------------------------
Journals ==
  [cp : {0} \cup Checkpoints, phase : {"prepare", "prepared", "committed"},
   previous : 0 .. MaxRoots, declared : SUBSET Children,
   children : [Children -> 0 .. MaxCommits],
   tree : [cp : 0 .. MaxCheckpoints, links : [Children -> 0 .. MaxCommits]],
   commit : 0 .. MaxRoots]

Steps == {"idle", "harden", "refs", "barrier", "recheck", "mkdir", "parent", "replace", "sync",
          "retire", "control", "rename", "destination", "duplicate", "unlink", "source"}

\* Every variable has its type (the journal's fields, 486-502).
TypeOK ==
  /\ head \in [Children -> 1 .. MaxCommits] /\ refDisk \in [Children -> 1 .. MaxCommits]
  /\ made \in [Children -> 1 .. MaxCommits]
  /\ packed \in [Children -> SUBSET (1 .. MaxCommits)]
  /\ root \in 1 .. Len(commits) /\ rootDisk \in 1 .. Len(commits)
  /\ Len(commits) <= MaxRoots /\ roots \subseteq 1 .. Len(commits)
  /\ txn \in Journals /\ txnDisk \in Journals /\ value \in Journals
  /\ done \in [Checkpoints -> Journals] /\ doneDisk \in [Checkpoints -> Journals]
  /\ txnDir \in {"absent", "cached", "synced"} /\ doneDir \in {"absent", "cached", "synced"}
  /\ cmd \in {"none", "begin", "record", "prepare", "finalize"} /\ step \in Steps
  /\ who \in Children /\ created \in BOOLEAN
  /\ settled \subseteq begun /\ begun \subseteq Checkpoints

(***************************************************************************)
(* Whatever a journal names is on disk before the journal can be: the      *)
(* recorded commits, the prepared tree, the coordinator commit and the     *)
(* branch that leads to it; and a committed journal binds the commit that  *)
(* follows the one it began from, with the recorded gitlinks.              *)
(***************************************************************************)
Sound(journal) ==
  /\ \A c \in Children : journal.children[c] # None => journal.children[c] \in packed[c]
  /\ journal.phase # "prepare" => journal.tree \in trees
  /\ journal.phase = "committed" =>
       /\ journal.commit \in roots /\ rootDisk >= journal.commit
       /\ commits[journal.commit] = [parent |-> journal.previous, tree |-> journal.tree]
       /\ \A c \in journal.declared : journal.tree.links[c] = journal.children[c]

JournalsAreSound ==
  /\ Sound(txn) /\ Sound(txnDisk)
  /\ \A n \in Checkpoints : Sound(done[n]) /\ Sound(doneDisk[n])

(***************************************************************************)
(* A checkpoint whose begin returned is found under one of its names: a    *)
(* power loss at any step never takes the only journal, as long as no      *)
(* command was killed (CommittedNeverLost shows what a kill may do).       *)
(***************************************************************************)
Found(n) == txn.cp = n \/ done[n].cp = n
BegunNeverLost == kills = 0 => \A n \in begun : Found(n)

(***************************************************************************)
(* The same of a checkpoint whose journal was durably committed            *)
(* (retire_journal, 777-800).                                              *)
(***************************************************************************)
CommittedNeverLost == \A n \in settled : Found(n)

(***************************************************************************)
(* Both names of a journal hold the same bytes, so that finalize can be    *)
(* run again after any interruption (781-790).                             *)
(***************************************************************************)
NamesAgree ==
  \A n \in Checkpoints : done[n] # Nothing /\ txn.cp = n => txn = done[n]

(***************************************************************************)
(* Every transaction is retired, also after a power loss at any step, if   *)
(* its developer carries on.                                               *)
(***************************************************************************)
EveryTransactionRetires == \A n \in Checkpoints : (n \in begun) ~> (txn = Nothing /\ done[n] # Nothing)
=============================================================================
