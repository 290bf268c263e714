------------------------------ MODULE DataStore ------------------------------
(***************************************************************************)
(* MemoryDataStore (lib/data_store.c) over caches that do not expire, and  *)
(* the triples interface of the Resolver (lib/resolver.c) on top of it.    *)
(* urn_db and attribute_db give numbers to strings, from one counter;      *)
(* data_db is keyed by a pair of numbers.  Caches are the multimaps that   *)
(* Cache.tla shows them to be.                                             *)
(***************************************************************************)
EXTENDS Naturals, Sequences, FiniteSets, Functions

CONSTANTS Urns, Attributes, Values,
          MaxValues  \* bound: values in the store

ASSUME StoreAssumption == MaxValues \in Nat /\ Urns \cap Attributes = {}

VARIABLES urn_db, attribute_db, \* numbers, 0 for a string that has none yet
          data_db, id_counter,
          resolved              \* what the last resolve was for and returned

vars == <<urn_db, attribute_db, data_db, id_counter, resolved>>

MaxId == Cardinality(Urns \cup Attributes)
Nothing == [urn |-> 0, attribute |-> 0, values |-> <<>>]

\* The number of values in a store.
Total(db) == SumFunction([p \in DOMAIN db |-> Len(db[p])])

Init == /\ urn_db = [u \in Urns |-> 0] /\ attribute_db = [a \in Attributes |-> 0]
        /\ data_db = [p \in (1 .. MaxId) \X (1 .. MaxId) |-> <<>>]
        /\ id_counter = 0 /\ resolved = Nothing
------------------------------------------------------------------------------
\* Mutant: the counter is not raised.
GetOrCreateSame(db, s, counter) ==
  [id |-> IF db[s] # 0 THEN db[s] ELSE counter + 1, counter |-> counter]

\* get_or_create, and the value of id_counter after it.
GetOrCreate(db, s, counter) ==
  IF db[s] # 0 THEN [id |-> db[s], counter |-> counter]
  ELSE [id |-> counter + 1, counter |-> counter + 1]

\* Every operation starts by giving numbers to its URN and its attribute.
Index(u, a) ==
  LET i == GetOrCreate(urn_db, u, id_counter)
      j == GetOrCreate(attribute_db, a, i.counter)
  IN [pair |-> <<i.id, j.id>>, counter |-> j.counter]

Numbered(u, a) == /\ urn_db' = [urn_db EXCEPT ![u] = Index(u, a).pair[1]]
                  /\ attribute_db' = [attribute_db EXCEPT ![a] = Index(u, a).pair[2]]
                  /\ id_counter' = Index(u, a).counter

\* DataStore_get borrows the first value; it hands out numbers too.
Get(u, a) == Numbered(u, a) /\ UNCHANGED <<data_db, resolved>>

Del(u, a) == /\ Numbered(u, a)
             /\ data_db' = [data_db EXCEPT ![Index(u, a).pair] = <<>>]
             /\ UNCHANGED resolved

Set(u, a, v) == /\ Numbered(u, a)
                /\ data_db' = [data_db EXCEPT ![Index(u, a).pair] = <<v>>]
                /\ Total(data_db') <= MaxValues
                /\ UNCHANGED resolved

Add(u, a, v) == /\ Total(data_db) < MaxValues
                /\ Numbered(u, a)
                /\ data_db' = [data_db EXCEPT ![Index(u, a).pair] = Append(@, v)]
                /\ UNCHANGED resolved
------------------------------------------------------------------------------

\* list_add_tail(new, head): new goes between head and the item before it.
LinkTail(l, new, head) ==
  LET last == l.prev[head]
  IN [prev |-> [l.prev EXCEPT ![head] = new, ![new] = last],
      next |-> [[l.next EXCEPT ![new] = head] EXCEPT ![last] = new]]

\* The items that a caller meets who follows next from the result around.
Walk(l, n) ==
  LET step[k \in 1 .. n] == IF k = 1 THEN 1 ELSE l.next[step[k - 1]]
      back == {k \in 2 .. n : step[k] = 1}
      length == IF back = {} THEN n ELSE (CHOOSE k \in back : \A j \in back : k <= j) - 1
  IN [k \in 1 .. length |-> step[k]]

ResolveList(values) ==
  LET n == Len(values)
      alone == [prev |-> [k \in 1 .. n |-> k], next |-> [k \in 1 .. n |-> k]]
      linked[k \in 1 .. n] == IF k = 1 THEN alone ELSE LinkTail(linked[k - 1], 1, k)
      items == Walk(linked[n], n)
  IN IF n = 0 THEN <<>> ELSE [k \in DOMAIN items |-> values[items[k]]]

Resolve(u, a) ==
  /\ Numbered(u, a)
  /\ resolved' = [urn |-> u, attribute |-> a,
                  values |-> ResolveList(data_db[Index(u, a).pair])]
  /\ UNCHANGED data_db

Next == \E u \in Urns, a \in Attributes :
          \/ Get(u, a) \/ Del(u, a) \/ Resolve(u, a)
          \/ \E v \in Values : Set(u, a, v) \/ Add(u, a, v)

Spec == Init /\ [][Next]_vars
------------------------------------------------------------------------------
Stored(u, a) == IF urn_db[u] = 0 \/ attribute_db[a] = 0 THEN <<>>
                ELSE data_db[<<urn_db[u], attribute_db[a]>>]

\* Values are kept apart by the pair of numbers: what is set, added or deleted
\* for one URN and attribute is never seen under another, although numbers are
\* handed out on reads too and both tables share the counter.
Triples == INSTANCE TripleStore WITH
             triples <- [p \in Urns \X Attributes |-> Stored(p[1], p[2])]

ImplementsTripleStore == Triples!Spec

==============================================================================
