----------------------------- MODULE Collective -----------------------------
(***************************************************************************)
(* What the all-reduce promises its callers, with no sockets, steps or     *)
(* broker: a rank contributes to the sequences in order, is returned the   *)
(* sums of all segments of a call at once, and only after every rank has   *)
(* contributed to all of them; it may leave at any time, and then neither  *)
(* contributes nor receives anything more.                                 *)
(***************************************************************************)
EXTENDS Naturals

CONSTANTS Ranks, LastSequence, CallEnds,
          Sum \* the result of every sequence

VARIABLES entered, \* last sequence a rank contributed to
          results, \* sums returned to the caller of a rank
          gone     \* ranks that left

vars == <<entered, results, gone>>

Init ==
  /\ entered = [r \in Ranks |-> 0]
  /\ results = [r \in Ranks |-> <<>>]
  /\ gone = {}

Contribute(r) ==
  /\ r \notin gone
  /\ entered[r] < LastSequence
  /\ entered[r] \in CallEnds => results[r] = [i \in 1 .. entered[r] |-> Sum]
  /\ entered' = [entered EXCEPT ![r] = @ + 1]
  /\ UNCHANGED <<results, gone>>

Return(r) ==
  /\ r \notin gone
  /\ entered[r] \in CallEnds
  /\ \A q \in Ranks : entered[q] >= entered[r]
  /\ results' = [results EXCEPT ![r] = [i \in 1 .. entered[r] |-> Sum]]
  /\ UNCHANGED <<entered, gone>>

Leave(r) ==
  /\ gone' = gone \cup {r}
  /\ UNCHANGED <<entered, results>>

Next == \E r \in Ranks : Contribute(r) \/ Return(r) \/ Leave(r)
Spec == Init /\ [][Next]_vars
=============================================================================
