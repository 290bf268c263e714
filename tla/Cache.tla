-------------------------------- MODULE Cache --------------------------------
(***************************************************************************)
(* The Cache class (lib/aff4_utils.c): every entry is on the cache list,   *)
(* from which objects are expired, and on the list of its hash slot, by    *)
(* which they are found.  An entry is known by the number of the put that  *)
(* made it, which also names the object it holds.  A key is a number with  *)
(* the hash of its bytes as remainder, so keys collide.                    *)
(***************************************************************************)
EXTENDS Naturals, Sequences, FiniteSets

CONSTANTS Keys, hash_table_width, max_cache_size,
          MaxPuts  \* bound: how many objects are put

ASSUME CacheAssumption == /\ Keys \subseteq Nat
                          /\ hash_table_width \in Nat \ {0}
                          /\ max_cache_size \in Nat /\ MaxPuts \in Nat

VARIABLES key,         \* of every entry made so far
          cache_list, hash_table, cache_size,
          iter         \* the iterator a client has, 0 for NULL

vars == <<key, cache_list, hash_table, cache_size, iter>>

Slots == 0 .. hash_table_width - 1

Without(s, x) == SelectSeq(s, LAMBDA y : y # x)

Init == /\ key = <<>> /\ cache_list = <<>> /\ cache_size = 0
        /\ hash_table = [h \in Slots |-> <<>>]
        /\ iter = 0
------------------------------------------------------------------------------
Hash(k) == k % hash_table_width

\* The entries that the loops over a hash list accept, in order.
Matches(k) == SelectSeq(hash_table[Hash(k)], LAMBDA i : key[i] = k)

\* Mutant: the hash list is left alone.
UnlinkCacheList(es) ==
  [list |-> SelectSeq(cache_list, LAMBDA i : i \notin es),
   table |-> hash_table, size |-> cache_size - Cardinality(es)]

\* Cache_destructor of the entries in es.
Unlink(es) ==
  [list |-> SelectSeq(cache_list, LAMBDA i : i \notin es),
   table |-> [h \in Slots |-> SelectSeq(hash_table[h], LAMBDA i : i \notin es)],
   size |-> cache_size - Cardinality(es)]

\* The loop of Cache_put frees from the head of the list while the tally says
\* that there is no room.
Expired ==
  IF max_cache_size = 0 \/ cache_size < max_cache_size THEN {}
  ELSE {cache_list[j] : j \in {j \in DOMAIN cache_list :
                               j <= cache_size - max_cache_size + 1}}

Put(k) ==
  /\ iter = 0 /\ Len(key) < MaxPuts
  /\ LET new == Len(key) + 1
         left == Unlink(Expired)
     IN /\ key' = Append(key, k)
        /\ hash_table' = [left.table EXCEPT ![Hash(k)] = Append(@, new)]
        /\ cache_list' = Append(left.list, new)
        /\ cache_size' = left.size + 1
  /\ UNCHANGED iter

\* Nothing is found: Cache_get, Cache_borrow and Cache_iter return NULL.
Miss(k) == iter = 0 /\ Matches(k) = <<>> /\ UNCHANGED vars

\* Cache_get.
Get(k) ==
  /\ iter = 0 /\ Matches(k) # <<>>
  /\ LET i == Head(Matches(k))
     IN /\ cache_list' = Unlink({i}).list
        /\ hash_table' = Unlink({i}).table
        /\ cache_size' = Unlink({i}).size
  /\ UNCHANGED <<key, iter>>

\* Cache_borrow: the object is used, and stays where it is on both lists.
Borrow(k) == iter = 0 /\ Matches(k) # <<>> /\ UNCHANGED vars

\* Cache_iter.  The cache is locked until the iteration is over.
Iter(k) ==
  /\ iter = 0 /\ Matches(k) # <<>>
  /\ iter' = Head(Matches(k))
  /\ UNCHANGED <<key, cache_list, hash_table, cache_size>>

\* What follows the iterator on its hash list, up to the list head, that has
\* the iterator's key.
Following == SelectSeq(Matches(key[iter]), LAMBDA i : i > iter)

\* Mutant: the iterator returns the next entry of its list, of whatever key.
CacheNextAnyKey ==
  /\ iter # 0
  /\ LET after == SelectSeq(hash_table[Hash(key[iter])], LAMBDA i : i > iter)
     IN iter' = IF after = <<>> THEN 0 ELSE Head(after)
  /\ cache_list' = Append(Without(cache_list, iter), iter)
  /\ UNCHANGED <<key, hash_table, cache_size>>

\* Cache_next: step on, and move what is returned to the tail of the list.
CacheNext ==
  /\ iter # 0
  /\ iter' = IF Following = <<>> THEN 0 ELSE Head(Following)
  /\ cache_list' = Append(Without(cache_list, iter), iter)
  /\ UNCHANGED <<key, hash_table, cache_size>>

Next == \/ \E k \in Keys : Put(k) \/ Get(k) \/ Borrow(k) \/ Iter(k) \/ Miss(k)
        \/ CacheNext

Spec == Init /\ [][Next]_vars
------------------------------------------------------------------------------
Entries == 1 .. Len(key)

TypeOK == /\ key \in Seq(Keys) /\ cache_list \in Seq(Entries)
          /\ hash_table \in [Slots -> Seq(Entries)]
          /\ cache_size \in Nat /\ iter \in 0 .. Len(key)

SetOf(s) == {s[j] : j \in DOMAIN s}

\* Every entry of the cache list is on the hash list of its key and on no
\* other, once, in the order of the puts; the tally is the length of the list.
\* Cache_put would free for ever if the tally were larger than the list.
ListsAgree ==
  /\ TypeOK
  /\ cache_size = Len(cache_list) /\ Cardinality(SetOf(cache_list)) = cache_size
  /\ \A h \in Slots :
       /\ SetOf(hash_table[h]) = {i \in SetOf(cache_list) : Hash(key[i]) = h}
       /\ \A a, b \in DOMAIN hash_table[h] : a < b => hash_table[h][a] < hash_table[h][b]

\* The two lists, the tally and the iterator implement the multimap: a get or
\* an iteration returns the objects of its own key only, in the order they were
\* put, whatever was expired, taken or moved in between, and a put frees one
\* object at most.
Abstract == INSTANCE MultiMap WITH
  Objects <- 1 .. MaxPuts, objects <- [k \in Keys |-> Matches(k)], order <- cache_list,
  rest <- IF iter = 0 THEN <<>> ELSE <<iter>> \o Following

ImplementsMultiMap == Abstract!Spec
==============================================================================
