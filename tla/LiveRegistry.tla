---------------------------- MODULE LiveRegistry ----------------------------
(***************************************************************************)
(* The live registry of a group (scripts/gemsim_live_registry.py): a       *)
(* publisher replaces the registry file, then rewrites the lease file that *)
(* vouches for it and whose exclusive lock it holds while it lives.        *)
(* Readers take no lock across their read: they read the registry, probe   *)
(* the lock, read the lease and read the registry again.                   *)
(*                                                                         *)
(* A document's id stands for its bytes, which differ for every call of    *)
(* publish (updated_at_ns); its gen is the generation number.              *)
(***************************************************************************)
EXTENDS Naturals, FiniteSets

CONSTANTS Readers,
          Retries,     \* attempts of read_live_snapshot
          MaxDocuments \* bound on the calls of publish

ASSUME RegistryAssumption ==
  /\ Retries \in Nat \ {0}
  /\ MaxDocuments \in Nat

States == {"STARTING", "READY", "OFF"} \* REGISTRY_STATES

VARIABLES
  \* files
  registry,   \* the document in the registry file
  lease,      \* the document the lease file vouches for
  \* advisory lock of the lease file
  exclusive,  \* the publisher holds it
  shared,     \* readers that hold it
  \* the publisher
  phase,      \* where publish is, closed, or dead
  generation,
  calls,      \* calls of publish so far
  \* each reader
  at,         \* where read_live_snapshot is
  tries,      \* failed attempts of this call
  first,      \* document of the first read
  held,       \* what the probe of the lock said
  vouch,      \* what the lease said
  answer,     \* what the call returned: at most one view
  refused,    \* readers whose last call raised
  \* history
  vouched,    \* documents the lease ever vouched for
  window,     \* views that were current during the attempt of a reader
  undisturbed \* no file changed since the attempt began on a whole pair

fileVars == <<registry, lease>>
lockVars == <<exclusive, shared>>
publisherVars == <<phase, generation, calls>>
readerVars == <<at, tries, first, held, vouch, answer, refused>>
historyVars == <<vouched, window, undisturbed>>
vars == <<fileVars, lockVars, publisherVars, readerVars, historyVars>>

\* A file that is missing, empty or cut short: nothing can be decoded.
Nothing == [id |-> 0, gen |-> 0, state |-> "OFF"]
Documents == [id : 0 .. MaxDocuments, gen : 0 .. MaxDocuments, state : States]
Views == [doc : Documents, held : BOOLEAN]
View(doc, lock) == [doc |-> doc, held |-> lock]

Phases == {"new", "open", "replaced", "truncated", "written", "closed", "dead"}
Places == {"idle", "first", "probe", "unlock", "lease", "second"}

Init ==
  /\ registry = Nothing /\ lease = Nothing
  /\ exclusive = FALSE /\ shared = {}
  /\ phase = "new" /\ generation = 0 /\ calls = 0
  /\ at = [r \in Readers |-> "idle"]
  /\ tries = [r \in Readers |-> 0]
  /\ first = [r \in Readers |-> Nothing]
  /\ held = [r \in Readers |-> FALSE]
  /\ vouch = [r \in Readers |-> Nothing]
  /\ answer = [r \in Readers |-> {}]
  /\ refused = {}
  /\ vouched = {}
  /\ window = [r \in Readers |-> {}]
  /\ undisturbed = [r \in Readers |-> FALSE]

-----------------------------------------------------------------------------
(***************************************************************************)
(* The publisher.  Every step of publish may raise: the caller keeps the   *)
(* publisher and its generation.                                           *)
(***************************************************************************)
Disturbed == undisturbed' = [r \in Readers |-> FALSE]
Observed(doc, lock) == window' = [r \in Readers |-> window[r] \cup {View(doc, lock)}]

\* __init__: creates the lease, refuses existing files, takes the lock.
Construct ==
  /\ phase = "new"
  /\ phase' = "open"
  /\ exclusive' = TRUE
  /\ Observed(registry, TRUE)
  /\ UNCHANGED <<fileVars, shared, generation, calls, readerVars, vouched, undisturbed>>

\* publish up to os.replace in _atomic_write.
ReplaceRegistry(state) ==
  /\ phase = "open"
  /\ calls < MaxDocuments
  /\ calls' = calls + 1
  /\ registry' = [id |-> calls + 1, gen |-> generation + 1, state |-> state]
  /\ phase' = "replaced"
  /\ Observed(registry', exclusive)
  /\ Disturbed
  /\ UNCHANGED <<lease, lockVars, generation, readerVars, vouched>>

TruncateLease ==
  /\ phase = "replaced"
  /\ phase' = "truncated"
  /\ lease' = Nothing
  /\ Disturbed
  /\ UNCHANGED <<registry, lockVars, generation, calls, readerVars, vouched, window>>

WriteLeaseOfLastGeneration ==
  /\ phase = "truncated"
  /\ phase' = "written"
  /\ lease' = [registry EXCEPT !.gen = generation]
  /\ vouched' = vouched \cup {registry}
  /\ Disturbed
  /\ UNCHANGED <<registry, lockVars, generation, calls, readerVars, window>>

WriteLease ==
  /\ phase = "truncated"
  /\ phase' = "written"
  /\ lease' = registry
  /\ vouched' = vouched \cup {registry}
  /\ Disturbed
  /\ UNCHANGED <<registry, lockVars, generation, calls, readerVars, window>>

FinishPublishAnyTime ==
  /\ phase' = "open"
  /\ generation' = generation + 1
  /\ UNCHANGED <<fileVars, lockVars, calls, readerVars, historyVars>>

FinishPublish ==
  /\ phase = "written"
  /\ phase' = "open"
  /\ generation' = generation + 1
  /\ UNCHANGED <<fileVars, lockVars, calls, readerVars, historyVars>>

PublishFails ==
  /\ phase \in {"replaced", "truncated", "written"}
  /\ phase' = "open"
  /\ UNCHANGED <<fileVars, lockVars, generation, calls, readerVars, historyVars>>

Release ==
  /\ exclusive' = FALSE
  /\ Observed(registry, FALSE)
  /\ UNCHANGED <<fileVars, shared, generation, calls, readerVars, vouched, undisturbed>>

Close == phase = "open" /\ phase' = "closed" /\ Release

\* The process dies anywhere; the kernel drops its lock.
PublisherDies == phase \notin {"new", "closed", "dead"} /\ phase' = "dead" /\ Release

-----------------------------------------------------------------------------
(***************************************************************************)
(* The readers.                                                            *)
(***************************************************************************)
Whole == registry # Nothing /\ lease.id = registry.id

StartAttempt(r) ==
  /\ window' = [window EXCEPT ![r] = {View(registry, exclusive)}]
  /\ undisturbed' = [undisturbed EXCEPT ![r] = Whole]

Begin(r) ==
  /\ at[r] = "idle"
  /\ at' = [at EXCEPT ![r] = "first"]
  /\ tries' = [tries EXCEPT ![r] = 0]
  /\ answer' = [answer EXCEPT ![r] = {}]
  /\ refused' = refused \ {r}
  /\ StartAttempt(r)
  /\ UNCHANGED <<fileVars, lockVars, publisherVars, first, held, vouch, vouched>>

\* The attempt's local values are gone when it ends.
Forget(r) ==
  /\ first' = [first EXCEPT ![r] = Nothing]
  /\ held' = [held EXCEPT ![r] = FALSE]
  /\ vouch' = [vouch EXCEPT ![r] = Nothing]

\* An attempt that fails is retried; the last one's error is raised.
AttemptFails(r) ==
  /\ Forget(r)
  /\ \/ /\ tries[r] + 1 < Retries
        /\ tries' = [tries EXCEPT ![r] = @ + 1]
        /\ at' = [at EXCEPT ![r] = "first"]
        /\ StartAttempt(r)
        /\ UNCHANGED refused
     \/ /\ tries[r] + 1 = Retries
        /\ at' = [at EXCEPT ![r] = "idle"]
        /\ refused' = refused \cup {r}
        /\ UNCHANGED <<tries, window, undisturbed>>
  /\ UNCHANGED <<fileVars, publisherVars, answer, vouched>>

ReadRegistry(r) ==
  /\ at[r] = "first"
  /\ \/ /\ registry # Nothing
        /\ first' = [first EXCEPT ![r] = registry]
        /\ at' = [at EXCEPT ![r] = "probe"]
        /\ UNCHANGED <<fileVars, lockVars, publisherVars, tries, held, vouch, answer, refused, historyVars>>
     \/ /\ registry = Nothing
        /\ AttemptFails(r)
        /\ UNCHANGED lockVars

\* A probe with LOCK_EX would find the lock of another reader.
ProbeExclusively(r) ==
  /\ at[r] = "probe"
  /\ \/ /\ exclusive \/ shared # {}
        /\ held' = [held EXCEPT ![r] = TRUE]
        /\ at' = [at EXCEPT ![r] = "lease"]
        /\ UNCHANGED shared
     \/ /\ ~exclusive /\ shared = {}
        /\ held' = [held EXCEPT ![r] = FALSE]
        /\ shared' = shared \cup {r}
        /\ at' = [at EXCEPT ![r] = "unlock"]
  /\ UNCHANGED <<fileVars, exclusive, publisherVars, tries, first, vouch, answer, refused, historyVars>>

\* LOCK_SH | LOCK_NB: other readers do not stand in its way.
Probe(r) ==
  /\ at[r] = "probe"
  /\ \/ /\ exclusive
        /\ held' = [held EXCEPT ![r] = TRUE]
        /\ at' = [at EXCEPT ![r] = "lease"]
        /\ UNCHANGED shared
     \/ /\ ~exclusive
        /\ held' = [held EXCEPT ![r] = FALSE]
        /\ shared' = shared \cup {r}
        /\ at' = [at EXCEPT ![r] = "unlock"]
  /\ UNCHANGED <<fileVars, exclusive, publisherVars, tries, first, vouch, answer, refused, historyVars>>

Unlock(r) ==
  /\ at[r] = "unlock"
  /\ shared' = shared \ {r}
  /\ at' = [at EXCEPT ![r] = "lease"]
  /\ UNCHANGED <<fileVars, exclusive, publisherVars, tries, first, held, vouch, answer, refused, historyVars>>

ReadLease(r) ==
  /\ at[r] = "lease"
  /\ \/ /\ lease # Nothing
        /\ vouch' = [vouch EXCEPT ![r] = lease]
        /\ at' = [at EXCEPT ![r] = "second"]
        /\ UNCHANGED <<fileVars, publisherVars, tries, first, held, answer, refused, historyVars>>
     \/ /\ lease = Nothing
        /\ AttemptFails(r)
  /\ UNCHANGED lockVars

AcceptsByGeneration(r) ==
  /\ registry.id = first[r].id
  /\ vouch[r].gen = first[r].gen

AcceptsWithoutSecondRead(r) ==
  /\ vouch[r].gen = first[r].gen
  /\ vouch[r].id = first[r].id

\* The second read equals the first; generation and digest are the lease's.
Accepts(r) ==
  /\ registry.id = first[r].id
  /\ vouch[r].gen = first[r].gen
  /\ vouch[r].id = first[r].id

ReadAgain(r) ==
  /\ at[r] = "second"
  /\ \/ /\ Accepts(r)
        /\ answer' = [answer EXCEPT ![r] = {View(first[r], held[r])}]
        /\ at' = [at EXCEPT ![r] = "idle"]
        /\ Forget(r)
        /\ UNCHANGED <<fileVars, publisherVars, tries, refused, historyVars>>
     \/ /\ ~Accepts(r)
        /\ AttemptFails(r)
  /\ UNCHANGED lockVars

-----------------------------------------------------------------------------
Next ==
  \/ Construct
  \/ \E s \in States : ReplaceRegistry(s)
  \/ TruncateLease \/ WriteLease \/ FinishPublish \/ PublishFails
  \/ Close \/ PublisherDies
  \/ \E r \in Readers :
       Begin(r) \/ ReadRegistry(r) \/ Probe(r) \/ Unlock(r) \/ ReadLease(r) \/ ReadAgain(r)

Spec == Init /\ [][Next]_vars

-----------------------------------------------------------------------------
(***************************************************************************)
(* Properties.                                                             *)
(***************************************************************************)

\* Every variable has its type (LiveRegistryPublisher, read_live_snapshot).
RegistryTypeOK ==
  /\ registry \in Documents /\ lease \in Documents
  /\ exclusive \in BOOLEAN /\ shared \subseteq Readers
  /\ phase \in Phases
  /\ calls \in 0 .. MaxDocuments /\ generation \in 0 .. calls
  /\ at \in [Readers -> Places] /\ tries \in [Readers -> 0 .. Retries - 1]
  /\ first \in [Readers -> Documents] /\ vouch \in [Readers -> Documents]
  /\ held \in [Readers -> BOOLEAN]
  /\ answer \in [Readers -> SUBSET Views] /\ refused \subseteq Readers
  /\ vouched \subseteq Documents
  /\ window \in [Readers -> SUBSET Views]
  /\ undisturbed \in [Readers -> BOOLEAN]

\* An answer of read_live_snapshot is a view that was current at one moment of
\* its last attempt: that document in the registry file, that lock state.  In
\* particular a reader that begins when the publisher is gone never reports
\* ON, whatever publish the publisher died in.
AnswersWereCurrent ==
  \A r \in Readers : answer[r] \subseteq window[r]

\* No reader is answered a document whose lease was never written: between
\* os.replace and the write of the lease the new document is not believed,
\* also when a failed publish left its generation number to the next one.
OnlyVouchedDocuments ==
  \A r \in Readers : \A v \in answer[r] : v.doc \in vouched

\* read_live_snapshot raises only when some file changed during its last
\* attempt, or no complete pair was there to begin with.
RefusedOnlyWhenDisturbed ==
  \A r \in refused : ~undisturbed[r]

\* The registry implements the snapshot register.
Abstract == INSTANCE SnapshotRegister WITH current <- View(registry, exclusive)
ImplementsSnapshots == Abstract!Spec
=============================================================================
