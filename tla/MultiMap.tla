------------------------------ MODULE MultiMap ------------------------------
(***************************************************************************)
(* What a Cache promises (include/aff4_utils.h:114-131): a dictionary with *)
(* several objects for a key, found in the order they were put, of which   *)
(* the one at the head of the use order is freed when there is no room.    *)
(***************************************************************************)
EXTENDS Naturals, Sequences

CONSTANTS Keys, Objects, max_cache_size

VARIABLES objects, \* the objects of each key, the first put first
          order,   \* all the objects, the first to be freed first
          rest     \* what the iterator has still to return

Without(s, x) == SelectSeq(s, LAMBDA y : y # x)

Init == /\ objects = [k \in Keys |-> <<>>]
        /\ order = <<>> /\ rest = <<>>

Full == max_cache_size > 0 /\ Len(order) >= max_cache_size

\* At most one object is freed to make room.
Put(k, x) ==
  /\ rest = <<>>
  /\ LET kept(s) == IF Full THEN Without(s, Head(order)) ELSE s
     IN /\ objects' = [j \in Keys |-> IF j = k THEN Append(kept(objects[j]), x)
                                      ELSE kept(objects[j])]
        /\ order' = Append(kept(order), x)
  /\ UNCHANGED rest

Get(k) ==
  /\ rest = <<>> /\ objects[k] # <<>>
  /\ objects' = [objects EXCEPT ![k] = Tail(@)]
  /\ order' = Without(order, Head(objects[k]))
  /\ UNCHANGED rest

Iter(k) == /\ rest = <<>> /\ rest' = objects[k]
           /\ UNCHANGED <<objects, order>>

\* The object that the iterator returns becomes the last to be freed.
NextObject == /\ rest # <<>> /\ rest' = Tail(rest)
              /\ order' = Append(Without(order, Head(rest)), Head(rest))
              /\ UNCHANGED objects

Next == \/ \E k \in Keys : Get(k) \/ Iter(k)
        \/ \E k \in Keys, x \in Objects : Put(k, x)
        \/ NextObject

Spec == Init /\ [][Next]_<<objects, order, rest>>
==============================================================================
