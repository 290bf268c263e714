----------------------------- MODULE TripleStore -----------------------------
(***************************************************************************)
(* What the data store promises: for every URN and attribute, the values   *)
(* that were set or added since the last set or del, the oldest first.     *)
(***************************************************************************)
EXTENDS Sequences

CONSTANTS Urns, Attributes, Values

VARIABLE triples

Init == triples = [p \in Urns \X Attributes |-> <<>>]

Set(p, v) == triples' = [triples EXCEPT ![p] = <<v>>]
Add(p, v) == triples' = [triples EXCEPT ![p] = Append(@, v)]
Del(p) == triples' = [triples EXCEPT ![p] = <<>>]

Next == \E p \in Urns \X Attributes :
          Del(p) \/ \E v \in Values : Set(p, v) \/ Add(p, v)

Spec == Init /\ [][Next]_triples
==============================================================================
