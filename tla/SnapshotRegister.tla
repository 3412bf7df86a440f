-------------------------- MODULE SnapshotRegister --------------------------
(***************************************************************************)
(* What the live registry promises its readers: an answer is a view        *)
(* (document, lease held or not) that was the current one at some moment   *)
(* of the successful attempt, and its document had been published          *)
(* completely.  A reader may get no answer.                                *)
(***************************************************************************)
CONSTANTS Readers, Views

VARIABLES current, \* the view of this moment
          vouched, \* documents whose publication reached its lease
          window,  \* views that were current since an attempt began
          answer   \* the last answer of each reader: at most one view

vars == <<current, vouched, window, answer>>

Init ==
  /\ current \in Views
  /\ vouched = {}
  /\ window = [r \in Readers |-> {}]
  /\ answer = [r \in Readers |-> {}]

Change ==
  /\ current' \in Views
  /\ window' = [r \in Readers |-> window[r] \cup {current'}]
  /\ UNCHANGED <<vouched, answer>>

Vouch ==
  /\ vouched' = vouched \cup {current.doc}
  /\ UNCHANGED <<current, window, answer>>

Attempt(r) ==
  /\ window' = [window EXCEPT ![r] = {current}]
  /\ answer' = [answer EXCEPT ![r] = {}]
  /\ UNCHANGED <<current, vouched>>

Answer(r) ==
  /\ \E v \in window[r] :
       /\ v.doc \in vouched
       /\ answer' = [answer EXCEPT ![r] = {v}]
  /\ UNCHANGED <<current, vouched, window>>

Next ==
  \/ Change \/ Vouch
  \/ \E r \in Readers : Attempt(r) \/ Answer(r)
Spec == Init /\ [][Next]_vars
=============================================================================
