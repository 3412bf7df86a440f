-------------------------- MODULE LiveRegistryProofs --------------------------
(***************************************************************************)
(* Proofs about LiveRegistry for every number of readers, attempts and     *)
(* publications.                                                           *)
(***************************************************************************)
EXTENDS LiveRegistry, TLAPS

(***************************************************************************)
(* The inductive invariant.  Document ids count the calls of publish, so a *)
(* document with the id of the last call is the one in the registry file.  *)
(***************************************************************************)
Current(d) ==
  /\ d.id <= calls
  /\ d.id = calls => d = registry
  /\ d.id = 0 => d = Nothing

FilesConsistent ==
  /\ registry.id = calls /\ Current(registry)
  /\ Current(lease) /\ lease \in vouched \cup {Nothing}
  /\ phase \in {"replaced", "truncated", "written"} => generation < calls

Reading == {"probe", "unlock", "lease", "second"}

\* What a reader holds of the files.
HeldConsistent(r) ==
  /\ Current(first[r]) /\ Current(vouch[r])
  /\ vouch[r] \in vouched \cup {Nothing}
  /\ at[r] \in Reading => first[r] # Nothing
  /\ at[r] = "second" => vouch[r] # Nothing

\* What a reader is to be answered.
ViewConsistent(r) ==
  /\ at[r] # "idle" => answer[r] = {} /\ View(registry, exclusive) \in window[r]
  /\ at[r] \in {"unlock", "lease", "second"} /\ first[r].id = registry.id
       => View(registry, held[r]) \in window[r]
  /\ answer[r] \subseteq window[r]
  /\ \A v \in answer[r] : v.doc \in vouched

\* Why a reader is refused.
RefusalConsistent(r) ==
  /\ at[r] # "idle" => r \notin refused
  /\ undisturbed[r] /\ at[r] # "idle" => Whole
  /\ undisturbed[r] /\ at[r] \in Reading => first[r] = registry
  /\ undisturbed[r] /\ at[r] = "second" => vouch[r] = registry
  /\ r \in refused => ~undisturbed[r]

RegistryConsistent ==
  /\ RegistryTypeOK
  /\ FilesConsistent
  /\ \A r \in Readers : HeldConsistent(r) /\ ViewConsistent(r) /\ RefusalConsistent(r)
-----------------------------------------------------------------------------
LEMMA NothingIsDocument == Nothing \in Documents
BY RegistryAssumption DEF Nothing, Documents, States

LEMMA ViewIsView ==
  ASSUME NEW d \in Documents, NEW h \in BOOLEAN
  PROVE  View(d, h) \in Views
BY DEF View, Views

LEMMA DocumentIds ==
  ASSUME NEW d \in Documents
  PROVE  d.id \in Nat /\ d.gen \in Nat
BY RegistryAssumption DEF Documents

USE DEF fileVars, lockVars, publisherVars, readerVars, historyVars

(***************************************************************************)
(* An attempt that fails, or another one that starts, keeps the types.     *)
(***************************************************************************)
LEMMA StartTyped ==
  ASSUME RegistryTypeOK, NEW r \in Readers, StartAttempt(r)
  PROVE  window' \in [Readers -> SUBSET Views] /\ undisturbed' \in [Readers -> BOOLEAN]
BY ViewIsView DEF RegistryTypeOK, StartAttempt, Whole

LEMMA ForgetTyped ==
  ASSUME RegistryTypeOK, NEW r \in Readers, Forget(r)
  PROVE  /\ first' \in [Readers -> Documents] /\ vouch' \in [Readers -> Documents]
         /\ held' \in [Readers -> BOOLEAN]
BY NothingIsDocument DEF RegistryTypeOK, Forget

LEMMA FailTyped ==
  ASSUME RegistryTypeOK, NEW r \in Readers, AttemptFails(r), UNCHANGED lockVars
  PROVE  RegistryTypeOK'
<1>1. CASE tries[r] + 1 < Retries /\ StartAttempt(r)
           /\ tries' = [tries EXCEPT ![r] = @ + 1] /\ at' = [at EXCEPT ![r] = "first"]
           /\ UNCHANGED refused
  <2>1. tries' \in [Readers -> 0 .. Retries - 1]
    BY <1>1, RegistryAssumption DEF RegistryTypeOK
  <2>2. at' \in [Readers -> Places]
    BY <1>1 DEF RegistryTypeOK, Places
  <2> QED BY <1>1, <2>1, <2>2, StartTyped, ForgetTyped DEF RegistryTypeOK, AttemptFails
<1>2. CASE at' = [at EXCEPT ![r] = "idle"] /\ refused' = refused \cup {r}
           /\ UNCHANGED <<tries, window, undisturbed>>
  <2>1. at' \in [Readers -> Places] /\ refused' \subseteq Readers
    BY <1>2 DEF RegistryTypeOK, Places
  <2> QED BY <1>2, <2>1, ForgetTyped DEF RegistryTypeOK, AttemptFails
<1> QED BY <1>1, <1>2 DEF AttemptFails

LEMMA PublisherTyped ==
  ASSUME RegistryTypeOK, FilesConsistent,
         \/ Construct \/ (\E s \in States : ReplaceRegistry(s))
         \/ TruncateLease \/ WriteLease \/ FinishPublish \/ PublishFails
         \/ Close \/ PublisherDies
  PROVE  RegistryTypeOK'
<1> USE DEF RegistryTypeOK, Phases
<1>1. CASE Construct
  <2>1. window' \in [Readers -> SUBSET Views]
    BY <1>1, ViewIsView DEF Construct, Observed
  <2> QED BY <1>1, <2>1 DEF Construct
<1>2. ASSUME NEW s \in States, ReplaceRegistry(s) PROVE RegistryTypeOK'
  <2>1. calls' \in 0 .. MaxDocuments /\ generation' \in 0 .. calls' /\ generation + 1 \in 0 .. MaxDocuments
    BY <1>2, RegistryAssumption DEF ReplaceRegistry
  <2>2. registry' \in Documents
    BY <1>2, <2>1 DEF ReplaceRegistry, Documents
  <2>3. window' \in [Readers -> SUBSET Views]
    BY <1>2, <2>2, ViewIsView DEF ReplaceRegistry, Observed
  <2>4. undisturbed' \in [Readers -> BOOLEAN]
    BY <1>2 DEF ReplaceRegistry, Disturbed
  <2> QED BY <1>2, <2>1, <2>2, <2>3, <2>4 DEF ReplaceRegistry
<1>3. CASE TruncateLease
  <2>1. undisturbed' \in [Readers -> BOOLEAN]
    BY <1>3 DEF TruncateLease, Disturbed
  <2> QED BY <1>3, <2>1, NothingIsDocument DEF TruncateLease
<1>4. CASE WriteLease
  <2>1. undisturbed' \in [Readers -> BOOLEAN]
    BY <1>4 DEF WriteLease, Disturbed
  <2>2. vouched' \subseteq Documents
    BY <1>4 DEF WriteLease
  <2> QED BY <1>4, <2>1, <2>2 DEF WriteLease
<1>5. CASE FinishPublish
  <2>1. generation' \in 0 .. calls'
    BY <1>5 DEF FinishPublish, FilesConsistent
  <2> QED BY <1>5, <2>1 DEF FinishPublish
<1>6. CASE PublishFails
  BY <1>6 DEF PublishFails
<1>7. CASE Close \/ PublisherDies
  <2>1. window' \in [Readers -> SUBSET Views]
    BY <1>7, ViewIsView DEF Close, PublisherDies, Release, Observed
  <2> QED BY <1>7, <2>1 DEF Close, PublisherDies, Release
<1> QED BY <1>1, <1>2, <1>3, <1>4, <1>5, <1>6, <1>7

LEMMA ReaderTyped ==
  ASSUME RegistryTypeOK, NEW r \in Readers,
         Begin(r) \/ ReadRegistry(r) \/ Probe(r) \/ Unlock(r) \/ ReadLease(r) \/ ReadAgain(r)
  PROVE  RegistryTypeOK'
<1>1. CASE Begin(r)
  <2>1. at' \in [Readers -> Places] /\ answer' \in [Readers -> SUBSET Views]
    BY <1>1 DEF Begin, RegistryTypeOK, Places
  <2>2. tries' \in [Readers -> 0 .. Retries - 1]
    BY <1>1, RegistryAssumption DEF Begin, RegistryTypeOK
  <2> QED BY <1>1, <2>1, <2>2, StartTyped DEF Begin, RegistryTypeOK
<1>2. CASE ReadRegistry(r)
  <2>1. CASE registry # Nothing
    <3>1. at' \in [Readers -> Places] /\ first' \in [Readers -> Documents]
      BY <1>2, <2>1 DEF ReadRegistry, RegistryTypeOK, Places
    <3> QED BY <1>2, <2>1, <3>1 DEF ReadRegistry, RegistryTypeOK
  <2>2. CASE registry = Nothing
    BY <1>2, <2>2, FailTyped DEF ReadRegistry
  <2> QED BY <2>1, <2>2
<1>3. CASE Probe(r)
  <2>1. /\ at' \in [Readers -> Places] /\ held' \in [Readers -> BOOLEAN]
        /\ shared' \subseteq Readers
    BY <1>3 DEF Probe, RegistryTypeOK, Places
  <2> QED BY <1>3, <2>1 DEF Probe, RegistryTypeOK
<1>4. CASE Unlock(r)
  <2>1. at' \in [Readers -> Places] /\ shared' \subseteq Readers
    BY <1>4 DEF Unlock, RegistryTypeOK, Places
  <2> QED BY <1>4, <2>1 DEF Unlock, RegistryTypeOK
<1>5. CASE ReadLease(r)
  <2>1. CASE lease # Nothing
    <3>1. at' \in [Readers -> Places] /\ vouch' \in [Readers -> Documents]
      BY <1>5, <2>1 DEF ReadLease, RegistryTypeOK, Places
    <3> QED BY <1>5, <2>1, <3>1 DEF ReadLease, RegistryTypeOK
  <2>2. CASE lease = Nothing
    BY <1>5, <2>2, FailTyped DEF ReadLease
  <2> QED BY <2>1, <2>2
<1>6. CASE ReadAgain(r)
  <2>1. CASE Accepts(r)
    <3>1. /\ at' = [at EXCEPT ![r] = "idle"] /\ Forget(r)
          /\ answer' = [answer EXCEPT ![r] = {View(first[r], held[r])}]
          /\ UNCHANGED <<fileVars, publisherVars, tries, refused, historyVars, lockVars>>
      BY <1>6, <2>1 DEF ReadAgain
    <3>2. at' \in [Readers -> Places] /\ answer' \in [Readers -> SUBSET Views]
      BY <3>1, ViewIsView DEF RegistryTypeOK, Places
    <3> QED BY <3>1, <3>2, ForgetTyped DEF RegistryTypeOK
  <2>2. CASE ~Accepts(r)
    BY <1>6, <2>2, FailTyped DEF ReadAgain
  <2> QED BY <2>1, <2>2
<1> QED BY <1>1, <1>2, <1>3, <1>4, <1>5, <1>6

-----------------------------------------------------------------------------
(***************************************************************************)
(* The publisher's steps.                                                  *)
(***************************************************************************)
PublisherStep ==
  \/ Construct \/ (\E s \in States : ReplaceRegistry(s))
  \/ TruncateLease \/ WriteLease \/ FinishPublish \/ PublishFails
  \/ Close \/ PublisherDies

ReaderStep(r) ==
  Begin(r) \/ ReadRegistry(r) \/ Probe(r) \/ Unlock(r) \/ ReadLease(r) \/ ReadAgain(r)

\* A document that is current stays so: ids grow, and only the last call's
\* document is in the registry file.
LEMMA CurrentKept ==
  ASSUME RegistryTypeOK, FilesConsistent, PublisherStep,
         NEW d \in Documents, Current(d)
  PROVE  Current(d)'
<1>1. d.id \in Nat /\ calls \in Nat
  BY DocumentIds, RegistryAssumption DEF RegistryTypeOK
<1>2. CASE \E s \in States : ReplaceRegistry(s)
  BY <1>1, <1>2 DEF ReplaceRegistry, Current
<1>3. CASE UNCHANGED <<registry, calls>>
  BY <1>3 DEF Current
<1> QED
  BY <1>2, <1>3 DEF PublisherStep, Construct, TruncateLease, WriteLease, FinishPublish,
                    PublishFails, Close, PublisherDies, Release

LEMMA PublisherKeepsFiles ==
  ASSUME RegistryTypeOK, FilesConsistent, PublisherStep
  PROVE  FilesConsistent'
<1>0. /\ registry \in Documents /\ lease \in Documents /\ calls \in Nat /\ generation \in Nat
      /\ registry.id \in Nat /\ lease.id \in Nat /\ generation <= calls
  BY DocumentIds, RegistryAssumption DEF RegistryTypeOK
<1>1. Current(registry)' /\ registry'.id = calls'
  <2>1. CASE \E s \in States : ReplaceRegistry(s)
    BY <1>0, <2>1 DEF ReplaceRegistry, Current, Nothing
  <2>2. CASE UNCHANGED <<registry, calls>>
    BY <2>2 DEF Current, FilesConsistent
  <2> QED
    BY <2>1, <2>2 DEF PublisherStep, Construct, TruncateLease, WriteLease, FinishPublish,
                      PublishFails, Close, PublisherDies, Release
<1>2. lease' \in vouched' \cup {Nothing} /\ Current(lease)'
  <2>1. CASE UNCHANGED <<lease, vouched>>
    BY <1>0, <2>1, CurrentKept DEF FilesConsistent, Current
  <2>2. CASE TruncateLease
    BY <1>0, <1>1, <2>2 DEF TruncateLease, Current, Nothing, FilesConsistent
  <2>3. CASE WriteLease
    BY <1>1, <2>3 DEF WriteLease
  <2> QED
    BY <2>1, <2>2, <2>3 DEF PublisherStep, Construct, ReplaceRegistry, FinishPublish,
                            PublishFails, Close, PublisherDies, Release
<1>3. phase' \in {"replaced", "truncated", "written"} => generation' < calls'
  <2>1. CASE \E s \in States : ReplaceRegistry(s)
    BY <1>0, <2>1 DEF ReplaceRegistry
  <2> QED
    BY <2>1 DEF PublisherStep, Construct, TruncateLease, WriteLease, FinishPublish,
                PublishFails, Close, PublisherDies, Release, FilesConsistent
<1> QED BY <1>1, <1>2, <1>3 DEF FilesConsistent

\* What a publisher's step does to the history: the current view is noted, and
\* a changed file spoils every attempt that is under way.
LEMMA PublisherHistory ==
  ASSUME RegistryTypeOK, FilesConsistent, PublisherStep, NEW r \in Readers
  PROVE  /\ UNCHANGED readerVars
         /\ window[r] \subseteq window'[r]
         /\ UNCHANGED <<registry, exclusive>> \/ View(registry, exclusive)' \in window'[r]
         /\ \/ UNCHANGED <<registry, lease>> /\ undisturbed' = undisturbed
            \/ ~undisturbed'[r]
         /\ vouched \subseteq vouched'
         /\ registry' # registry => registry'.id = calls + 1 /\ calls' = calls + 1
BY DEF PublisherStep, Construct, ReplaceRegistry, TruncateLease, WriteLease, FinishPublish,
       PublishFails, Close, PublisherDies, Release, Observed, Disturbed, RegistryTypeOK, View

LEMMA PublisherKeepsReaders ==
  ASSUME RegistryConsistent, PublisherStep, NEW r \in Readers
  PROVE  HeldConsistent(r)' /\ ViewConsistent(r)' /\ RefusalConsistent(r)'
<1> USE DEF RegistryConsistent
<1>0. /\ UNCHANGED readerVars
      /\ window[r] \subseteq window'[r]
      /\ UNCHANGED <<registry, exclusive>> \/ View(registry, exclusive)' \in window'[r]
      /\ \/ UNCHANGED <<registry, lease>> /\ undisturbed' = undisturbed
         \/ ~undisturbed'[r]
      /\ vouched \subseteq vouched'
      /\ registry' # registry => registry'.id = calls + 1 /\ calls' = calls + 1
  BY PublisherHistory
<1>1. first[r] \in Documents /\ vouch[r] \in Documents /\ calls \in Nat /\ first[r].id \in Nat
  BY DocumentIds, RegistryAssumption DEF RegistryTypeOK
<1>2. HeldConsistent(r)'
  <2>1. Current(first[r])' /\ Current(vouch[r])'
    BY <1>0, <1>1, CurrentKept DEF HeldConsistent, Current
  <2> QED BY <1>0, <2>1 DEF HeldConsistent
<1>3. ViewConsistent(r)'
  <2>1. at'[r] # "idle" => answer'[r] = {} /\ View(registry, exclusive)' \in window'[r]
    BY <1>0 DEF ViewConsistent, View
  <2>2. at'[r] \in {"unlock", "lease", "second"} /\ first'[r].id = registry'.id
          => View(registry', held'[r]) \in window'[r]
    <3>1. CASE registry' = registry
      BY <1>0, <3>1 DEF ViewConsistent
    <3>2. CASE registry' # registry
      BY <1>0, <1>1, <3>2 DEF HeldConsistent, Current
    <3> QED BY <3>1, <3>2
  <2> QED BY <1>0, <2>1, <2>2 DEF ViewConsistent, View
<1>4. RefusalConsistent(r)'
  BY <1>0 DEF RefusalConsistent, Whole
<1> QED BY <1>2, <1>3, <1>4

-----------------------------------------------------------------------------
(***************************************************************************)
(* The readers' steps.                                                     *)
(***************************************************************************)

\* A reader writes no file and touches no other reader.
LEMMA ReaderFrame ==
  ASSUME RegistryTypeOK, NEW r \in Readers, ReaderStep(r)
  PROVE  /\ UNCHANGED <<fileVars, publisherVars, exclusive, vouched>>
         /\ \A q \in Readers \ {r} :
              /\ at'[q] = at[q] /\ first'[q] = first[q] /\ held'[q] = held[q]
              /\ vouch'[q] = vouch[q] /\ answer'[q] = answer[q]
              /\ (q \in refused') = (q \in refused)
              /\ window'[q] = window[q] /\ undisturbed'[q] = undisturbed[q]
<1> USE DEF RegistryTypeOK
<1>1. CASE Begin(r)
  BY <1>1 DEF Begin, StartAttempt
<1>2. CASE ReadRegistry(r)
  BY <1>2 DEF ReadRegistry, AttemptFails, StartAttempt, Forget
<1>3. CASE Probe(r) \/ Unlock(r)
  BY <1>3 DEF Probe, Unlock
<1>4. CASE ReadLease(r)
  BY <1>4 DEF ReadLease, AttemptFails, StartAttempt, Forget
<1>5. CASE ReadAgain(r)
  BY <1>5 DEF ReadAgain, AttemptFails, StartAttempt, Forget
<1> QED BY <1>1, <1>2, <1>3, <1>4, <1>5 DEF ReaderStep

LEMMA OthersKept ==
  ASSUME RegistryConsistent, NEW r \in Readers, ReaderStep(r),
         NEW q \in Readers, q # r
  PROVE  HeldConsistent(q)' /\ ViewConsistent(q)' /\ RefusalConsistent(q)'
BY ReaderFrame
   DEF RegistryConsistent, HeldConsistent, ViewConsistent, RefusalConsistent, Current, View, Whole

\* An attempt may fail only in disturbance.
LEMMA FailKept ==
  ASSUME RegistryConsistent, NEW r \in Readers, AttemptFails(r), UNCHANGED lockVars,
         at[r] # "idle", ~undisturbed[r]
  PROVE  HeldConsistent(r)' /\ ViewConsistent(r)' /\ RefusalConsistent(r)'
<1> USE DEF RegistryConsistent, RegistryTypeOK
<1>0. UNCHANGED <<fileVars, publisherVars, exclusive, answer, vouched>>
  BY DEF AttemptFails
<1>1. /\ first'[r] = Nothing /\ vouch'[r] = Nothing
      /\ calls \in Nat /\ Current(Nothing)'
  BY <1>0, RegistryAssumption, DocumentIds
     DEF AttemptFails, Forget, Current, Nothing, FilesConsistent
<1>2. CASE /\ StartAttempt(r) /\ at' = [at EXCEPT ![r] = "first"] /\ UNCHANGED refused
  BY <1>0, <1>1, <1>2
     DEF StartAttempt, HeldConsistent, ViewConsistent, RefusalConsistent, Reading, View, Whole
<1>3. CASE /\ at' = [at EXCEPT ![r] = "idle"] /\ UNCHANGED <<window, undisturbed>>
  BY <1>0, <1>1, <1>3 DEF HeldConsistent, ViewConsistent, RefusalConsistent, Reading
<1> QED BY <1>2, <1>3 DEF AttemptFails

\* A document that is read twice and named by the lease was vouched for, and is
\* the view of the probe's moment.
Accepted(r) == View(first[r], held[r]) \in window[r] /\ first[r] \in vouched

LEMMA AcceptedIsVouched ==
  ASSUME RegistryConsistent, NEW r \in Readers, at[r] = "second", Accepts(r)
  PROVE  Accepted(r)
<1> USE DEF RegistryConsistent
<1>1. first[r] = registry
  BY DEF Accepts, HeldConsistent, FilesConsistent, Current
<1>2. vouch[r] = first[r] /\ vouch[r] \in vouched
  BY <1>1 DEF Accepts, HeldConsistent, FilesConsistent, Current
<1>3. View(first[r], held[r]) \in window[r]
  BY <1>1 DEF ViewConsistent
<1> QED BY <1>2, <1>3 DEF Accepted

LEMMA OwnKept ==
  ASSUME RegistryConsistent, NEW r \in Readers, ReaderStep(r)
  PROVE  HeldConsistent(r)' /\ ViewConsistent(r)' /\ RefusalConsistent(r)'
<1> USE DEF RegistryConsistent, RegistryTypeOK
<1>0. /\ UNCHANGED <<fileVars, publisherVars, exclusive, vouched>>
      /\ HeldConsistent(r) /\ ViewConsistent(r) /\ RefusalConsistent(r)
  BY ReaderFrame
<1>1. CASE Begin(r)
  BY <1>0, <1>1
     DEF Begin, StartAttempt, HeldConsistent, ViewConsistent, RefusalConsistent,
         Reading, View, Whole, Current
<1>2. CASE ReadRegistry(r)
  <2>1. CASE registry # Nothing
    BY <1>0, <1>2, <2>1
       DEF ReadRegistry, FilesConsistent, HeldConsistent, ViewConsistent, RefusalConsistent,
           Reading, View, Whole, Current
  <2>2. CASE registry = Nothing
    <3>1. at[r] = "first" /\ AttemptFails(r) /\ UNCHANGED lockVars
      BY <1>2, <2>2 DEF ReadRegistry
    <3>2. ~undisturbed[r]
      BY <1>0, <2>2, <3>1 DEF RefusalConsistent, Whole
    <3> QED BY <3>1, <3>2, FailKept
  <2> QED BY <2>1, <2>2
<1>3. CASE Probe(r)
  <2>1. /\ held'[r] = exclusive /\ at'[r] \in {"unlock", "lease"} /\ at[r] = "probe"
        /\ UNCHANGED <<first, vouch, answer, refused, historyVars>>
    BY <1>3 DEF Probe
  <2> QED
    BY <1>0, <2>1
       DEF HeldConsistent, ViewConsistent, RefusalConsistent, Reading, View, Whole, Current
<1>4. CASE Unlock(r)
  BY <1>0, <1>4
     DEF Unlock, HeldConsistent, ViewConsistent, RefusalConsistent, Reading, View, Whole, Current
<1>5. CASE ReadLease(r)
  <2>1. CASE lease # Nothing
    <3>1. /\ at'[r] = "second" /\ at[r] = "lease" /\ vouch'[r] = lease
          /\ UNCHANGED <<first, held, answer, refused, historyVars>>
      BY <1>5, <2>1 DEF ReadLease
    <3>2. HeldConsistent(r)'
      BY <1>0, <2>1, <3>1 DEF HeldConsistent, FilesConsistent, Current, Reading
    <3>3. undisturbed[r] => lease = registry
      BY <1>0, <3>1 DEF RefusalConsistent, Whole, FilesConsistent, Current
    <3> QED
      BY <1>0, <3>1, <3>2, <3>3
         DEF ViewConsistent, RefusalConsistent, Reading, View, Whole
  <2>2. CASE lease = Nothing
    <3>1. at[r] = "lease" /\ AttemptFails(r) /\ UNCHANGED lockVars
      BY <1>5, <2>2 DEF ReadLease
    <3>2. ~undisturbed[r]
      BY <1>0, <2>2, <3>1 DEF RefusalConsistent, Whole, FilesConsistent, Current, Nothing
    <3> QED BY <3>1, <3>2, FailKept
  <2> QED BY <2>1, <2>2
<1>6. CASE ReadAgain(r)
  <2>1. CASE Accepts(r)
    <3>1. /\ at'[r] = "idle" /\ at[r] = "second"
          /\ first'[r] = Nothing /\ vouch'[r] = Nothing
          /\ answer'[r] = {View(first[r], held[r])}
          /\ UNCHANGED <<refused, historyVars>>
      BY <1>6, <2>1 DEF ReadAgain, Forget
    <3>2. Accepted(r)
      BY <1>0, <2>1, <3>1, AcceptedIsVouched
    <3>3. Current(Nothing)'
      BY <1>0, RegistryAssumption DEF Current, Nothing, FilesConsistent
    <3> QED
      BY <1>0, <3>1, <3>2, <3>3
         DEF Accepted, HeldConsistent, ViewConsistent, RefusalConsistent, Reading, View
  <2>2. CASE ~Accepts(r)
    <3>1. at[r] = "second" /\ AttemptFails(r) /\ UNCHANGED lockVars
      BY <1>6, <2>2 DEF ReadAgain
    <3>2. ~undisturbed[r]
      BY <1>0, <2>2, <3>1 DEF RefusalConsistent, Accepts, Reading
    <3> QED BY <3>1, <3>2, FailKept
  <2> QED BY <2>1, <2>2
<1> QED BY <1>1, <1>2, <1>3, <1>4, <1>5, <1>6 DEF ReaderStep

-----------------------------------------------------------------------------
(***************************************************************************)
(* The invariant and what follows from it.                                 *)
(***************************************************************************)
LEMMA RegistryInit == Init => RegistryConsistent
<1> SUFFICES ASSUME Init PROVE RegistryConsistent
  OBVIOUS
<1>1. 0 \in 0 .. MaxDocuments /\ 0 \in 0 .. Retries - 1 /\ MaxDocuments \in Nat
  BY RegistryAssumption
<1>2. RegistryTypeOK
  <2>1. calls \in 0 .. MaxDocuments /\ generation \in 0 .. calls
    BY <1>1 DEF Init
  <2>2. /\ at \in [Readers -> Places] /\ tries \in [Readers -> 0 .. Retries - 1]
        /\ phase \in Phases
    BY <1>1 DEF Init, Phases, Places
  <2> QED BY <2>1, <2>2, NothingIsDocument DEF Init, RegistryTypeOK
<1>3. FilesConsistent
  BY <1>1 DEF Init, FilesConsistent, Current, Nothing
<1>4. ASSUME NEW r \in Readers
      PROVE  HeldConsistent(r) /\ ViewConsistent(r) /\ RefusalConsistent(r)
  BY DEF Init, HeldConsistent, ViewConsistent, RefusalConsistent, Current, Nothing, Reading
<1> QED BY <1>2, <1>3, <1>4 DEF RegistryConsistent

LEMMA RegistryStep == RegistryConsistent /\ [Next]_vars => RegistryConsistent'
<1> SUFFICES ASSUME RegistryConsistent, [Next]_vars PROVE RegistryConsistent'
  OBVIOUS
<1>1. CASE PublisherStep
  <2>1. RegistryTypeOK'
    BY <1>1, PublisherTyped DEF RegistryConsistent, PublisherStep
  <2>2. FilesConsistent'
    BY <1>1, PublisherKeepsFiles DEF RegistryConsistent
  <2>3. \A r \in Readers : (HeldConsistent(r) /\ ViewConsistent(r) /\ RefusalConsistent(r))'
    BY <1>1, PublisherKeepsReaders
  <2> QED BY <2>1, <2>2, <2>3 DEF RegistryConsistent
<1>2. ASSUME NEW r \in Readers, ReaderStep(r) PROVE RegistryConsistent'
  <2>1. RegistryTypeOK'
    BY <1>2, ReaderTyped DEF RegistryConsistent, ReaderStep
  <2>2. FilesConsistent'
    BY <1>2, ReaderFrame DEF RegistryConsistent, FilesConsistent, Current
  <2>3. \A q \in Readers : (HeldConsistent(q) /\ ViewConsistent(q) /\ RefusalConsistent(q))'
    BY <1>2, OwnKept, OthersKept
  <2> QED BY <2>1, <2>2, <2>3 DEF RegistryConsistent
<1>3. CASE UNCHANGED vars
  BY <1>3
     DEF vars, RegistryConsistent, RegistryTypeOK, FilesConsistent, HeldConsistent,
         ViewConsistent, RefusalConsistent, Current, View, Whole
<1> QED BY <1>1, <1>2, <1>3 DEF Next, PublisherStep, ReaderStep

LEMMA RegistryInvariant == Spec => []RegistryConsistent
BY RegistryInit, RegistryStep, PTL DEF Spec

\* Type correctness of every variable of publisher, files and readers.
THEOREM RegistryTypeCorrect == Spec => []RegistryTypeOK
<1>1. RegistryConsistent => RegistryTypeOK
  BY DEF RegistryConsistent
<1> QED BY <1>1, RegistryInvariant, PTL

\* read_live_snapshot answers a view that was current during its last attempt,
\* however the reads, the probe and the publisher's two writes interleave.
THEOREM AnswersCurrent == Spec => []AnswersWereCurrent
<1>1. RegistryConsistent => AnswersWereCurrent
  BY DEF RegistryConsistent, AnswersWereCurrent, ViewConsistent
<1> QED BY <1>1, RegistryInvariant, PTL

\* read_live_snapshot never answers a document that no lease has named.
THEOREM AnswersVouched == Spec => []OnlyVouchedDocuments
<1>1. RegistryConsistent => OnlyVouchedDocuments
  BY DEF RegistryConsistent, OnlyVouchedDocuments, ViewConsistent
<1> QED BY <1>1, RegistryInvariant, PTL

\* read_live_snapshot raises only after a disturbed attempt.
THEOREM RefusalsDisturbed == Spec => []RefusedOnlyWhenDisturbed
<1>1. RegistryConsistent => RefusedOnlyWhenDisturbed
  BY DEF RegistryConsistent, RegistryTypeOK, RefusedOnlyWhenDisturbed, RefusalConsistent
<1> QED BY <1>1, RegistryInvariant, PTL

-----------------------------------------------------------------------------
(***************************************************************************)
(* The registry implements the snapshot register.                          *)
(***************************************************************************)
LEMMA AbstractInit == Init => Abstract!Init
<1> SUFFICES ASSUME Init PROVE Abstract!Init
  OBVIOUS
<1>1. View(registry, exclusive) \in Views
  BY NothingIsDocument, ViewIsView DEF Init
<1> QED BY <1>1 DEF Init, Abstract!Init

LEMMA ChangeImplemented ==
  ASSUME RegistryTypeOK', Observed(registry', exclusive'), UNCHANGED <<vouched, answer>>
  PROVE  Abstract!Change
<1>1. View(registry, exclusive)' \in Views
  BY ViewIsView DEF RegistryTypeOK, View
<1> QED BY <1>1 DEF Abstract!Change, Observed, View

LEMMA AttemptImplemented ==
  ASSUME NEW r \in Readers, StartAttempt(r), answer' = [answer EXCEPT ![r] = {}],
         UNCHANGED <<registry, exclusive, vouched>>
  PROVE  Abstract!Next
<1>1. Abstract!Attempt(r)
  BY DEF Abstract!Attempt, StartAttempt, View
<1> QED BY <1>1 DEF Abstract!Next

\* A further attempt of a call forgets no answer: the call has none yet.
LEMMA FailImplemented ==
  ASSUME RegistryConsistent, NEW r \in Readers, AttemptFails(r), UNCHANGED lockVars,
         at[r] # "idle"
  PROVE  [Abstract!Next]_(Abstract!vars)
<1> USE DEF RegistryConsistent, RegistryTypeOK
<1>1. CASE StartAttempt(r)
  <2>1. answer' = [answer EXCEPT ![r] = {}]
    BY DEF AttemptFails, ViewConsistent
  <2> QED BY <1>1, <2>1, AttemptImplemented DEF AttemptFails
<1>2. CASE UNCHANGED window
  BY <1>2 DEF AttemptFails, Abstract!vars, View
<1> QED BY <1>1, <1>2 DEF AttemptFails

LEMMA ReaderImplements ==
  ASSUME RegistryConsistent, NEW r \in Readers, ReaderStep(r)
  PROVE  [Abstract!Next]_(Abstract!vars)
<1>1. CASE Begin(r)
  BY <1>1, AttemptImplemented DEF Begin
<1>2. CASE \/ ReadRegistry(r) /\ registry # Nothing
           \/ Probe(r)
           \/ Unlock(r)
           \/ ReadLease(r) /\ lease # Nothing
  BY <1>2 DEF ReadRegistry, Probe, Unlock, ReadLease, Abstract!vars, View
<1>3. CASE \/ ReadRegistry(r) /\ registry = Nothing
           \/ ReadLease(r) /\ lease = Nothing
           \/ ReadAgain(r) /\ ~Accepts(r)
  BY <1>3, FailImplemented DEF ReadRegistry, ReadLease, ReadAgain
<1>4. CASE ReadAgain(r) /\ Accepts(r)
  <2>1. Accepted(r)
    BY <1>4, AcceptedIsVouched DEF ReadAgain
  <2>2. View(first[r], held[r]).doc = first[r]
    BY DEF View
  <2>3. Abstract!Answer(r)
    BY <1>4, <2>1, <2>2 DEF ReadAgain, Accepted, Abstract!Answer, View
  <2> QED BY <2>3 DEF Abstract!Next
<1> QED BY <1>1, <1>2, <1>3, <1>4 DEF ReaderStep

LEMMA PublisherImplements ==
  ASSUME RegistryTypeOK, RegistryTypeOK', PublisherStep
  PROVE  [Abstract!Next]_(Abstract!vars)
<1>1. CASE \/ Construct \/ (\E s \in States : ReplaceRegistry(s))
           \/ Close \/ PublisherDies
  <2>1. Observed(registry', exclusive') /\ UNCHANGED <<vouched, answer>>
    BY <1>1 DEF Construct, ReplaceRegistry, Close, PublisherDies, Release, Observed
  <2> QED BY <2>1, ChangeImplemented DEF Abstract!Next
<1>2. CASE WriteLease
  <2>1. Abstract!Vouch
    BY <1>2 DEF WriteLease, Abstract!Vouch, View
  <2> QED BY <2>1 DEF Abstract!Next
<1>3. CASE TruncateLease \/ FinishPublish \/ PublishFails
  BY <1>3 DEF TruncateLease, FinishPublish, PublishFails, Abstract!vars, View
<1> QED BY <1>1, <1>2, <1>3 DEF PublisherStep

LEMMA AbstractStep ==
  RegistryConsistent /\ RegistryConsistent' /\ [Next]_vars => [Abstract!Next]_(Abstract!vars)
<1> SUFFICES ASSUME RegistryConsistent, RegistryConsistent', [Next]_vars
             PROVE  [Abstract!Next]_(Abstract!vars)
  OBVIOUS
<1>1. CASE PublisherStep
  BY <1>1, PublisherImplements DEF RegistryConsistent
<1>2. CASE \E r \in Readers : ReaderStep(r)
  BY <1>2, ReaderImplements
<1>3. CASE UNCHANGED vars
  BY <1>3 DEF vars, Abstract!vars, View
<1> QED BY <1>1, <1>2, <1>3 DEF Next, PublisherStep, ReaderStep

\* The files, the lock and the readers' four reads together behave as one
\* register that is read in a single step.
THEOREM RegistryImplementsSnapshots == Spec => ImplementsSnapshots
BY AbstractInit, AbstractStep, RegistryInvariant, PTL DEF Spec, ImplementsSnapshots, Abstract!Spec
=============================================================================
