------------------------- MODULE ResolverCacheProofs -------------------------
(***************************************************************************)
(* Proofs about ResolverCache, for any objects, URNs, clients and number   *)
(* of entries.                                                             *)
(***************************************************************************)
EXTENDS ResolverCache, TLAPS, SequenceTheorems, WellFoundedInduction

\* The three properties, and what their induction needs: an object in the cache, in
\* the hands of a client or closed was created; an object that nobody has returned has
\* at most one entry; an object that is gone was closed or flushed.
IInv ==
  /\ NewestEntryOwns /\ UnreturnedIsGone /\ HeldIsAlive
  /\ \A i \in DOMAIN cache : parent[cache[i].object] # Unborn
  /\ \A c \in Clients : holds[c] # 0 => parent[holds[c]] # Unborn
  /\ \A o \in closed : parent[o] # Unborn
  /\ \A i, j \in DOMAIN cache :
       cache[i].object = cache[j].object /\ cache[i].object \notin returned => i = j
  /\ \A o \in Objects : parent[o] = Freed => o \in closed \cup flushed

\* The reasons for having no parent differ from each other and from every entry.
LEMMA Reasons ==
  /\ Unborn # Null /\ Unborn # Freed /\ Null # Freed
  /\ \A i : EntryParent(i) \notin {Unborn, Null, Freed}
            /\ EntryParent(i)[1] = "entry" /\ EntryParent(i)[2] = i
  /\ Unborn[1] # "entry" /\ Null[1] # "entry" /\ Freed[1] # "entry"
  BY DEF Unborn, Null, Freed, EntryParent

\* What is left of the cache when an entry is unlinked (Cache_get).
LEMMA Removal ==
  ASSUME NEW S, NEW s \in Seq(S), NEW i \in 1 .. Len(s)
  PROVE  /\ RemoveAt(s, i) \in Seq(S)
         /\ Len(RemoveAt(s, i)) = Len(s) - 1
         /\ \A j \in 1 .. Len(s) - 1 : RemoveAt(s, i)[j] = IF j < i THEN s[j] ELSE s[j + 1]
  <1> DEFINE a == SubSeq(s, 1, i - 1)
             b == SubSeq(s, i + 1, Len(s))
  <1>1. a \in Seq(S) /\ Len(a) = i - 1 /\ \A j \in 1 .. i - 1 : a[j] = s[j]
    OBVIOUS
  <1>2. b \in Seq(S) /\ Len(b) = Len(s) - i /\ \A j \in 1 .. Len(s) - i : b[j] = s[i + j]
    OBVIOUS
  <1>3. RemoveAt(s, i) = a \o b
    BY DEF RemoveAt
  <1> HIDE DEF a, b
  <1>4. /\ a \o b \in Seq(S) /\ Len(a \o b) = Len(a) + Len(b)
        /\ \A j \in 1 .. Len(a) + Len(b) :
             (a \o b)[j] = IF j <= Len(a) THEN a[j] ELSE b[j - Len(a)]
    BY <1>1, <1>2, ConcatProperties, Zenon
  <1>5. ASSUME NEW j \in 1 .. Len(s) - 1
        PROVE  (a \o b)[j] = IF j < i THEN s[j] ELSE s[j + 1]
    <2> DEFINE c == a \o b
    <2>0. \A k \in 1 .. Len(a) + Len(b) : c[k] = IF k <= Len(a) THEN a[k] ELSE b[k - Len(a)]
      BY <1>4, Zenon
    <2> HIDE DEF c
    <2>1. c[j] = IF j <= i - 1 THEN a[j] ELSE b[j - (i - 1)]
      BY <1>1, <1>2, <2>0
    <2>2. j <= i - 1 => a[j] = s[j]
      BY <1>1
    <2>3. ~(j <= i - 1) => b[j - (i - 1)] = s[i + (j - (i - 1))]
      BY <1>2
    <2>4. c[j] = IF j < i THEN s[j] ELSE s[j + 1]
      BY <2>1, <2>2, <2>3
    <2> QED BY <2>4, Zenon DEF c
  <1> QED BY <1>1, <1>2, <1>3, <1>4, <1>5

\* A set of natural numbers that is not empty has a least element.
LEMMA LeastElement ==
  ASSUME NEW T \in SUBSET Nat, T # {}
  PROVE  \E i \in T : \A j \in T : i <= j
  <1>1. \E i \in T : \A j \in T : ~(<<j, i>> \in OpToRel(<, Nat))
    BY NatLessThanWellFounded, WFMin
  <1>2. ASSUME NEW i \in Nat, NEW j \in Nat, j < i
        PROVE  <<j, i>> \in OpToRel(<, Nat)
    BY <1>2 DEF OpToRel
  <1>3. PICK i \in T : \A j \in T : ~(<<j, i>> \in OpToRel(<, Nat))
    BY <1>1
  <1>4. \A j \in T : ~(j < i)
    BY <1>2, <1>3, Zenon
  <1> QED BY <1>4

\* What Cache_get finds: an entry of the URN, if there is one.
LEMMA FirstEntryFound ==
  ASSUME NEW u, cache \in Seq([id : 1 .. made, object : Objects])
  PROVE  \/ FirstEntry(u) = 0 /\ \A i \in DOMAIN cache : UrnOf(cache[i].object) # u
         \/ FirstEntry(u) \in DOMAIN cache /\ UrnOf(cache[FirstEntry(u)].object) = u
  <1> DEFINE same == {i \in DOMAIN cache : UrnOf(cache[i].object) = u}
  <1>1. CASE same = {}
    BY <1>1 DEF FirstEntry
  <1>2. CASE same # {}
    <2>1. same \in SUBSET Nat
      OBVIOUS
    <2>2. \E i \in same : \A j \in same : i <= j
      BY <1>2, <2>1, LeastElement
    <2>3. FirstEntry(u) = CHOOSE i \in same : \A j \in same : i <= j
      BY <1>2 DEF FirstEntry
    <2>4. FirstEntry(u) \in same
      BY <2>2, <2>3
    <2> QED BY <2>4
  <1> QED BY <1>1, <1>2

\* A sequence over a set is one over a larger set.
LEMMA LargerSeq ==
  ASSUME NEW R, NEW S, R \subseteq S, NEW s \in Seq(R)
  PROVE  s \in Seq(S)
  OBVIOUS

\* The elements of a sequence.
LEMMA Elements ==
  ASSUME NEW S, NEW s \in Seq(S)
  PROVE  Len(s) \in Nat /\ DOMAIN s = 1 .. Len(s) /\ \A i \in DOMAIN s : s[i] \in S
  OBVIOUS

\* The entries of the cache are about objects.
LEMMA Entries ==
  ASSUME TypeOK
  PROVE  \A i \in DOMAIN cache : cache[i].object \in Objects /\ i \in 1 .. Len(cache)
  <1> DEFINE S == [id : 1 .. made, object : Objects]
  <1>1. cache \in Seq(S)
    BY DEF TypeOK
  <1> HIDE DEF S
  <1>2. \A i \in DOMAIN cache : cache[i] \in S /\ i \in 1 .. Len(cache)
    BY <1>1, Elements
  <1> QED BY <1>2 DEF S

\* The properties of the cache as it is after a put (Cache_put): one more entry, the last.
LEMMA PutEffect ==
  ASSUME TypeOK, NEW o \in Objects, Put(o)
  PROVE  /\ cache' \in Seq([id : 1 .. made', object : Objects])
         /\ made' = made + 1 /\ made' \in 0 .. MaxEntries
         /\ DOMAIN cache' = 1 .. Len(cache') /\ Len(cache') \in Nat \ {0}
         /\ \A i \in DOMAIN cache : cache'[i] = cache[i]
         /\ cache'[Len(cache')] = [id |-> made', object |-> o]
         /\ DOMAIN cache' = DOMAIN cache \cup {Len(cache')}
         /\ parent' = [parent EXCEPT ![o] = EntryParent(made')]
  <1> USE ResolverAssumption
  <1>1. made \in Nat /\ made' = made + 1 /\ made' \in 0 .. MaxEntries
    BY DEF TypeOK, Put
  <1>2. [id |-> made', object |-> o] \in [id : 1 .. made', object : Objects]
    BY <1>1
  <1>3. cache \in Seq([id : 1 .. made', object : Objects])
    <2>1. [id : 1 .. made, object : Objects] \subseteq [id : 1 .. made', object : Objects]
      BY <1>1
    <2> QED BY <2>1, LargerSeq, Zenon DEF TypeOK
  <1>4. cache' = Append(cache, [id |-> made', object |-> o])
    BY DEF Put
  <1> QED BY <1>1, <1>2, <1>3, <1>4 DEF Put

\* A put of an object that was never put, or that counts as returned, keeps the invariant
\* (Resolver_manage, Resolver_cache_return).
LEMMA PutInv ==
  ASSUME IInv, NEW o \in Objects, Put(o), NEW ret \in {{}, {o}},
         parent[o] = Unborn \/ (parent[o] # Freed /\ o \in ret),
         \A c \in Clients : holds'[c] \in {holds[c], 0},
         holds' \in [Clients -> Objects \cup {0}],
         returned' = returned \cup ret, UNCHANGED <<closed, flushed>>
  PROVE  IInv'
  <1> USE ResolverAssumption
  <1>0. TypeOK
    BY DEF IInv, NewestEntryOwns
  <1>1. /\ cache' \in Seq([id : 1 .. made', object : Objects])
        /\ made' = made + 1 /\ made' \in 0 .. MaxEntries
        /\ DOMAIN cache' = 1 .. Len(cache') /\ Len(cache') \in Nat \ {0}
        /\ \A i \in DOMAIN cache : cache'[i] = cache[i]
        /\ cache'[Len(cache')] = [id |-> made', object |-> o]
        /\ DOMAIN cache' = DOMAIN cache \cup {Len(cache')}
        /\ parent' = [parent EXCEPT ![o] = EntryParent(made')]
    BY <1>0, PutEffect
  <1>2. /\ parent'[o] = EntryParent(made')
        /\ \A p \in Objects \ {o} : parent'[p] = parent[p]
    BY <1>0, <1>1 DEF TypeOK
  <1>3. TypeOK'
    <2>1. {EntryParent(i) : i \in 1 .. made} \subseteq {EntryParent(i) : i \in 1 .. made'}
      BY <1>0, <1>1 DEF TypeOK
    <2>2. EntryParent(made') \in {EntryParent(i) : i \in 1 .. made'}
      BY <1>1
    <2>3. parent' \in [Objects -> {Unborn, Null, Freed} \cup {EntryParent(i) : i \in 1 .. made'}]
      BY <1>0, <1>1, <2>1, <2>2 DEF TypeOK
    <2> QED BY <1>0, <1>1, <2>3 DEF TypeOK
  <1>4. NewestEntryOwns'
    <2> SUFFICES ASSUME NEW p \in Objects, parent'[p][1] = "entry"
                 PROVE  \E i \in DOMAIN cache' :
                          /\ cache'[i] = [id |-> parent'[p][2], object |-> p]
                          /\ \A j \in DOMAIN cache' : cache'[j].object = p => j <= i
      BY <1>3 DEF NewestEntryOwns
    <2>0. Len(cache') \in DOMAIN cache' /\ \A j \in DOMAIN cache' : j <= Len(cache')
      BY <1>1
    <2>1. CASE p = o
      <3>1. cache'[Len(cache')] = [id |-> parent'[p][2], object |-> p]
        BY <1>1, <1>2, <2>1, Reasons
      <3> QED BY <2>0, <3>1
    <2>2. CASE p # o
      <3>1. PICK i \in DOMAIN cache :
              /\ cache[i] = [id |-> parent[p][2], object |-> p]
              /\ \A j \in DOMAIN cache : cache[j].object = p => j <= i
        BY <1>2, <2>2 DEF IInv, NewestEntryOwns
      <3>2. i \in DOMAIN cache' /\ cache'[i] = [id |-> parent'[p][2], object |-> p]
        BY <1>1, <1>2, <2>2, <3>1
      <3>3. ASSUME NEW j \in DOMAIN cache', cache'[j].object = p
            PROVE  j <= i
        <4>1. j # Len(cache')
          BY <1>1, <2>2, <3>3
        <4>2. j \in DOMAIN cache /\ cache[j].object = p
          BY <1>1, <3>3, <4>1
        <4> QED BY <3>1, <4>2
      <3> QED BY <3>2, <3>3
    <2> QED BY <2>1, <2>2
  <1>5. \A i \in DOMAIN cache : cache[i].object \in Objects
    BY <1>0, Entries
  <1>e. \A i \in DOMAIN cache' :
          \/ i \in DOMAIN cache /\ cache'[i].object = cache[i].object
          \/ i = Len(cache') /\ cache'[i].object = o
    <2>1. cache'[Len(cache')].object = o
      BY <1>1
    <2>2. \A i \in DOMAIN cache' : i \in DOMAIN cache \/ i = Len(cache')
      BY <1>1, Zenon
    <2>3. \A i \in DOMAIN cache : cache'[i].object = cache[i].object
      BY <1>1, Zenon
    <2> QED BY <2>1, <2>2, <2>3, Zenon
  <1>6. UnreturnedIsGone'
    <2> SUFFICES ASSUME NEW i \in DOMAIN cache', cache'[i].object \in closed
                 PROVE  \/ cache'[i].object \in returned'
                        \/ \E p \in Objects \ {cache'[i].object} :
                             UrnOf(p) = UrnOf(cache'[i].object)
      BY DEF UnreturnedIsGone, UrnOf
    <2>1. CASE i \in DOMAIN cache /\ cache'[i].object = cache[i].object
      BY <2>1 DEF IInv, UnreturnedIsGone
    <2>2. CASE cache'[i].object = o
      BY <2>2 DEF IInv
    <2> QED BY <1>e, <2>1, <2>2
  <1>7. HeldIsAlive'
    <2> SUFFICES ASSUME NEW c \in Clients, holds'[c] # 0
                 PROVE  \/ parent'[holds'[c]] # Unborn /\ parent'[holds'[c]] # Freed
                        \/ holds'[c] \in closed \cup flushed
      BY DEF HeldIsAlive, Alive
    <2>1. holds'[c] = holds[c] /\ holds[c] \in Objects
      BY <1>0 DEF TypeOK
    <2>2. CASE holds[c] = o
      BY <1>2, <2>1, <2>2, Reasons
    <2>3. CASE holds[c] # o
      BY <1>2, <2>1, <2>3 DEF Alive, HeldIsAlive, IInv
    <2> QED BY <2>2, <2>3
  <1>8. \A i \in DOMAIN cache' : parent'[cache'[i].object] # Unborn
    BY <1>e, <1>2, <1>5, Reasons DEF IInv
  <1>9. \A c \in Clients : holds'[c] # 0 => parent'[holds'[c]] # Unborn
    BY <1>0, <1>2, Reasons DEF IInv, TypeOK
  <1>10. \A p \in closed' : parent'[p] # Unborn
    BY <1>0, <1>2, Reasons DEF IInv, TypeOK
  <1>11. \A i, j \in DOMAIN cache' :
           cache'[i].object = cache'[j].object /\ cache'[i].object \notin returned' => i = j
    <2>1. o \notin returned' => \A i \in DOMAIN cache : cache[i].object # o
      BY DEF IInv
    <2> QED BY <1>e, <2>1 DEF IInv
  <1>12. \A p \in Objects : parent'[p] = Freed => p \in closed' \cup flushed'
    BY <1>2, Reasons DEF IInv
  <1> QED BY <1>4, <1>6, <1>7, <1>8, <1>9, <1>10, <1>11, <1>12 DEF IInv

\* AFFObject_close keeps the invariant: the entries that are left are entries that were
\* there, and the one that goes is the only one of an object that nobody has returned.
LEMMA CloseInv ==
  ASSUME IInv, NEW o \in Objects, Close(o)
  PROVE  IInv'
  <1> USE ResolverAssumption
  <1> DEFINE i == FirstEntry(UrnOf(o))
             S == [id : 1 .. made, object : Objects]
  <1>0. TypeOK /\ cache \in Seq(S) /\ \A k \in DOMAIN cache : cache[k].object \in Objects
    BY Entries DEF IInv, NewestEntryOwns, TypeOK
  <1>1. \/ i = 0 /\ \A k \in DOMAIN cache : UrnOf(cache[k].object) # UrnOf(o)
        \/ i \in DOMAIN cache /\ UrnOf(cache[i].object) = UrnOf(o)
    BY <1>0, FirstEntryFound
  <1>2. /\ closed' = closed \cup {o} /\ parent[o] # Unborn
        /\ UNCHANGED <<made, holds, returned, flushed>>
    BY DEF Close, Alive
  <1>3. CASE i = 0
    <2>1. UNCHANGED <<cache, parent>>
      BY <1>3 DEF Close
    <2>2. NewestEntryOwns' /\ HeldIsAlive'
      BY <1>0, <1>2, <2>1 DEF IInv, NewestEntryOwns, HeldIsAlive, Alive, TypeOK
    <2>3. \A k \in DOMAIN cache : cache[k].object # o
      BY <1>0, <1>1, <1>3 DEF TypeOK
    <2>4. UnreturnedIsGone'
      BY <1>2, <2>1, <2>3 DEF IInv, UnreturnedIsGone, UrnOf
    <2> QED BY <1>2, <2>1, <2>2, <2>4 DEF IInv
  <1>4. CASE i # 0
    <2> DEFINE q == cache[i].object
    <2>0. i \in DOMAIN cache /\ UrnOf(q) = UrnOf(o) /\ q \in Objects
      BY <1>0, <1>1, <1>4
    <2>1. /\ cache' = RemoveAt(cache, i) /\ parent' = [parent EXCEPT ![q] = Null]
          /\ parent[q] # Unborn
      BY <1>4 DEF Close, RemoveEntry, Alive
    <2>2. /\ parent'[q] = Null
          /\ \A p \in Objects \ {q} : parent'[p] = parent[p]
          /\ parent' \in [Objects -> {Unborn, Null, Freed} \cup {EntryParent(k) : k \in 1 .. made}]
      BY <1>0, <2>0, <2>1 DEF TypeOK
    <2> HIDE DEF i, S
    <2>3. /\ cache' \in Seq(S) /\ Len(cache') = Len(cache) - 1
          /\ \A j \in 1 .. Len(cache) - 1 : cache'[j] = IF j < i THEN cache[j] ELSE cache[j + 1]
          /\ i \in 1 .. Len(cache) /\ Len(cache) \in Nat
          /\ DOMAIN cache = 1 .. Len(cache) /\ DOMAIN cache' = 1 .. Len(cache) - 1
      <3>1. i \in 1 .. Len(cache) /\ Len(cache) \in Nat /\ DOMAIN cache = 1 .. Len(cache)
        BY <1>0, <2>0, Elements
      <3>2. /\ cache' \in Seq(S) /\ Len(cache') = Len(cache) - 1
            /\ \A j \in 1 .. Len(cache) - 1 : cache'[j] = IF j < i THEN cache[j] ELSE cache[j + 1]
        BY <1>0, <2>1, <3>1, Removal
      <3> QED BY <3>1, <3>2, Elements
    <2> DEFINE was(j) == IF j < i THEN j ELSE j + 1
    <2>4. \A j \in DOMAIN cache' :
            was(j) \in DOMAIN cache \ {i} /\ cache'[j] = cache[was(j)]
      BY <2>3
    <2>5. \A j, k \in DOMAIN cache' : (j <= k <=> was(j) <= was(k)) /\ (was(j) = was(k) => j = k)
      BY <2>3
    <2>6. \A k \in DOMAIN cache \ {i} : \E j \in DOMAIN cache' : was(j) = k
      <3> SUFFICES ASSUME NEW k \in DOMAIN cache \ {i} PROVE \E j \in DOMAIN cache' : was(j) = k
        OBVIOUS
      <3>1. CASE k < i
        BY <2>3, <3>1
      <3>2. CASE ~(k < i)
        <4>1. k - 1 \in DOMAIN cache' /\ was(k - 1) = k
          BY <2>3, <3>2
        <4> QED BY <4>1
      <3> QED BY <3>1, <3>2
    <2> HIDE DEF was, q
    <2>7. TypeOK'
      BY <1>0, <1>2, <2>2, <2>3 DEF TypeOK, S
    <2>8. NewestEntryOwns'
      <3> SUFFICES ASSUME NEW p \in Objects, parent'[p][1] = "entry"
                   PROVE  \E j \in DOMAIN cache' :
                            /\ cache'[j] = [id |-> parent'[p][2], object |-> p]
                            /\ \A k \in DOMAIN cache' : cache'[k].object = p => k <= j
        BY <2>7 DEF NewestEntryOwns
      <3>1. p # q /\ parent'[p] = parent[p]
        BY <2>2, Reasons
      <3>2. PICK m \in DOMAIN cache :
              /\ cache[m] = [id |-> parent[p][2], object |-> p]
              /\ \A k \in DOMAIN cache : cache[k].object = p => k <= m
        BY <3>1 DEF IInv, NewestEntryOwns
      <3>3. m # i
        BY <3>1, <3>2 DEF q
      <3>4. PICK j \in DOMAIN cache' : was(j) = m
        BY <2>6, <3>3
      <3>5. cache'[j] = [id |-> parent'[p][2], object |-> p]
        BY <2>4, <3>1, <3>2, <3>4
      <3>6. ASSUME NEW k \in DOMAIN cache', cache'[k].object = p
            PROVE  k <= j
        <4>1. was(k) \in DOMAIN cache /\ cache[was(k)].object = p
          BY <2>4, <3>6
        <4>2. was(k) <= was(j)
          BY <3>2, <3>4, <4>1
        <4> QED BY <2>5, <4>2
      <3> QED BY <3>5, <3>6
    <2>9. UnreturnedIsGone'
      <3> SUFFICES ASSUME NEW j \in DOMAIN cache', cache'[j].object \in closed',
                          cache'[j].object \notin returned
                   PROVE  \E p \in Objects \ {cache'[j].object} :
                            UrnOf(p) = UrnOf(cache'[j].object)
        BY <1>2 DEF UnreturnedIsGone, UrnOf
      <3>1. was(j) \in DOMAIN cache /\ was(j) # i /\ cache'[j].object = cache[was(j)].object
        BY <2>4
      <3>2. CASE cache'[j].object \in closed
        BY <3>1, <3>2 DEF IInv, UnreturnedIsGone
      <3>3. CASE cache'[j].object = o
        <4>1. q # o
          BY <2>0, <3>1, <3>3 DEF IInv, q
        <4> QED BY <2>0, <3>3, <4>1
      <3> QED BY <1>2, <3>2, <3>3
    <2>10. HeldIsAlive'
      BY <1>0, <1>2, <2>2, Reasons DEF IInv, HeldIsAlive, Alive, TypeOK
    <2>11. \A j \in DOMAIN cache' : parent'[cache'[j].object] # Unborn
      <3>1. \A p \in Objects : parent[p] # Unborn => parent'[p] # Unborn
        BY <2>2, Reasons
      <3>2. \A k \in DOMAIN cache : parent[cache[k].object] # Unborn
        BY DEF IInv
      <3> QED BY <1>0, <2>4, <3>1, <3>2
    <2>12. \A c \in Clients : holds'[c] # 0 => parent'[holds'[c]] # Unborn
      BY <1>0, <1>2, <2>2, Reasons DEF IInv, TypeOK
    <2>13. \A p \in closed' : parent'[p] # Unborn
      BY <1>0, <1>2, <2>2, Reasons DEF IInv, TypeOK
    <2>14. \A j, k \in DOMAIN cache' :
             cache'[j].object = cache'[k].object /\ cache'[j].object \notin returned' => j = k
      BY <1>2, <2>4, <2>5 DEF IInv
    <2>15. \A p \in Objects : parent'[p] = Freed => p \in closed' \cup flushed'
      BY <1>2, <2>2, Reasons DEF IInv
    <2> QED BY <2>8, <2>9, <2>10, <2>11, <2>12, <2>13, <2>14, <2>15 DEF IInv
  <1> QED BY <1>3, <1>4

\* A resolver without objects satisfies the invariant.
LEMMA InitIInv == Init => IInv
  BY ResolverAssumption, Reasons
  DEF Init, IInv, NewestEntryOwns, UnreturnedIsGone, HeldIsAlive, TypeOK, Alive

\* Every call of the resolver keeps it.
LEMMA NextIInv ==
  ASSUME IInv, [Next]_vars
  PROVE  IInv'
  <1> USE ResolverAssumption
  <1>0. TypeOK /\ \A k \in DOMAIN cache : cache[k].object \in Objects
    BY Entries DEF IInv, NewestEntryOwns
  <1>1. ASSUME NEW o \in Objects, Manage(o)
        PROVE  IInv'
    <2>1. Put(o) /\ parent[o] = Unborn /\ UNCHANGED <<closed, holds, returned, flushed>>
      BY <1>1 DEF Manage
    <2>2. holds' \in [Clients -> Objects \cup {0}] /\ returned' = returned \cup {}
      BY <1>0, <2>1 DEF TypeOK
    <2> QED BY <2>1, <2>2, PutInv
  <1>2. ASSUME NEW o \in Objects, Close(o)
        PROVE  IInv'
    BY <1>2, CloseInv
  <1>3. ASSUME NEW o \in Objects, Free(o)
        PROVE  IInv'
    <2>1. /\ parent' = [parent EXCEPT ![o] = Freed] /\ o \in closed
          /\ UNCHANGED <<cache, made, closed, holds, returned, flushed>>
      BY <1>3 DEF Free
    <2>2. parent'[o] = Freed /\ \A p \in Objects \ {o} : parent'[p] = parent[p]
      BY <1>0, <2>1 DEF TypeOK
    <2>3. TypeOK'
      BY <1>0, <2>1 DEF TypeOK
    <2>4. NewestEntryOwns'
      BY <2>1, <2>2, <2>3, Reasons DEF IInv, NewestEntryOwns
    <2>5. UnreturnedIsGone'
      BY <2>1 DEF IInv, UnreturnedIsGone, UrnOf
    <2>6. HeldIsAlive' /\ \A c \in Clients : holds'[c] # 0 => parent'[holds'[c]] # Unborn
      BY <1>0, <2>1, <2>2, Reasons DEF IInv, HeldIsAlive, Alive, TypeOK
    <2>7. \A p \in Objects : parent[p] # Unborn => parent'[p] # Unborn
      BY <2>2, Reasons
    <2>8. /\ \A i \in DOMAIN cache : parent'[cache[i].object] # Unborn
          /\ \A p \in closed : parent'[p] # Unborn
      BY <1>0, <2>7 DEF IInv, TypeOK
    <2>9. \A p \in Objects : parent'[p] = Freed => p \in closed \cup flushed
      BY <2>1, <2>2 DEF IInv
    <2> QED BY <2>1, <2>4, <2>5, <2>6, <2>8, <2>9 DEF IInv
  <1>4. ASSUME NEW c \in Clients, CacheReturn(c)
        PROVE  IInv'
    <2>1. /\ Put(holds[c]) /\ holds' = [holds EXCEPT ![c] = 0] /\ parent[holds[c]] # Freed
          /\ returned' = returned \cup {holds[c]} /\ UNCHANGED <<closed, flushed>>
          /\ holds[c] \in Objects
      BY <1>0, <1>4 DEF CacheReturn, Alive, TypeOK
    <2>2. /\ holds' \in [Clients -> Objects \cup {0}]
          /\ \A d \in Clients : holds'[d] \in {holds[d], 0}
      BY <1>0, <2>1 DEF TypeOK
    <2> QED BY <2>1, <2>2, PutInv
  <1>5. ASSUME NEW c \in Clients, NEW u \in 0 .. NUrns - 1, Own(c, u)
        PROVE  IInv'
    <2> DEFINE i == FirstEntry(u)
    <2>1. i \in DOMAIN cache /\ cache[i].object \in Objects
      BY <1>0, <1>5, FirstEntryFound DEF Own, TypeOK
    <2>2. /\ holds' = [holds EXCEPT ![c] = cache[i].object]
          /\ UNCHANGED <<cache, made, parent, closed, returned, flushed>>
      BY <1>5 DEF Own
    <2> HIDE DEF i
    <2>3. /\ parent[cache[i].object] # Unborn
          /\ parent[cache[i].object] = Freed => cache[i].object \in closed \cup flushed
      BY <2>1 DEF IInv
    <2>4. holds' \in [Clients -> Objects \cup {0}]
          /\ \A d \in Clients : holds'[d] = IF d = c THEN cache[i].object ELSE holds[d]
      BY <1>0, <2>1, <2>2 DEF TypeOK
    <2>5. NewestEntryOwns' /\ UnreturnedIsGone'
      BY <1>0, <2>2, <2>4 DEF IInv, NewestEntryOwns, UnreturnedIsGone, TypeOK
    <2>6. HeldIsAlive' /\ \A d \in Clients : holds'[d] # 0 => parent'[holds'[d]] # Unborn
      BY <2>2, <2>3, <2>4 DEF IInv, HeldIsAlive, Alive
    <2> QED BY <2>2, <2>5, <2>6 DEF IInv
  <1>6. CASE Flush
    <2>1. /\ cache' = <<>> /\ UNCHANGED <<made, closed, holds, returned>>
          /\ flushed' = flushed \cup {o \in Objects : parent[o][1] = "entry"}
          /\ parent' = [o \in Objects |->
                          IF o \in {p \in Objects : parent[p][1] = "entry"} THEN Freed ELSE parent[o]]
      BY <1>6 DEF Flush
    <2>2. \A o \in Objects :
            \/ parent[o][1] = "entry" /\ parent'[o] = Freed /\ o \in flushed'
            \/ parent[o][1] # "entry" /\ parent'[o] = parent[o]
      BY <2>1
    <2>3. TypeOK'
      <3>1. parent' \in [Objects -> {Unborn, Null, Freed} \cup {EntryParent(i) : i \in 1 .. made}]
        BY <1>0, <2>1 DEF TypeOK
      <3>2. flushed' \subseteq Objects
        BY <1>0, <2>1 DEF TypeOK
      <3> QED BY <1>0, <2>1, <3>1, <3>2 DEF TypeOK
    <2>4. NewestEntryOwns'
      BY <2>2, <2>3, Reasons DEF NewestEntryOwns
    <2>5. DOMAIN cache' = {}
      BY <2>1
    <2>6. UnreturnedIsGone'
      BY <2>5 DEF UnreturnedIsGone
    <2>7. \A o \in Objects : parent[o] # Unborn => parent'[o] # Unborn
      BY <2>2, Reasons
    <2>8. \A p \in Objects : parent'[p] = Freed => p \in closed' \cup flushed'
      BY <2>1, <2>2 DEF IInv
    <2>9. \A c \in Clients : holds'[c] # 0 => parent'[holds'[c]] # Unborn
      BY <1>0, <2>1, <2>7 DEF IInv, TypeOK
    <2>10. \A c \in Clients : holds[c] # 0 => holds[c] \in Objects
      BY <1>0 DEF TypeOK
    <2>11. HeldIsAlive'
      BY <2>1, <2>8, <2>9, <2>10 DEF HeldIsAlive, Alive
    <2>12. \A p \in closed' : parent'[p] # Unborn
      BY <1>0, <2>1, <2>7 DEF IInv, TypeOK
    <2> QED BY <2>4, <2>5, <2>6, <2>8, <2>9, <2>11, <2>12 DEF IInv
  <1>7. CASE UNCHANGED vars
    BY <1>7 DEF vars, IInv, NewestEntryOwns, UnreturnedIsGone, HeldIsAlive, Alive, TypeOK
  <1> QED BY <1>1, <1>2, <1>3, <1>4, <1>5, <1>6, <1>7 DEF Next

\* The inductive invariant holds for any objects, URNs and clients (resolver.c).
THEOREM ResolverInductive == Spec => []IInv
  <1> QED BY InitIInv, NextIInv, PTL DEF Spec

\* An object that belongs to an entry of the cache belongs to its newest one, which is
\* there: flush frees every object once (Cache_put, Cache_get, Resolver_flush).
THEOREM NewestEntryOwnsHolds == Spec => []NewestEntryOwns
  <1>1. IInv => NewestEntryOwns
    BY DEF IInv
  <1> QED BY <1>1, ResolverInductive, PTL

\* An object with a URN of its own that nobody has returned is out of the cache once it is
\* closed (AFFObject_close).
THEOREM UnreturnedIsGoneHolds == Spec => []UnreturnedIsGone
  <1>1. IInv => UnreturnedIsGone
    BY DEF IInv
  <1> QED BY <1>1, ResolverInductive, PTL

\* An object that a client owns is there until it is closed or flushed (Resolver_own).
THEOREM HeldIsAliveHolds == Spec => []HeldIsAlive
  <1>1. IInv => HeldIsAlive
    BY DEF IInv
  <1> QED BY <1>1, ResolverInductive, PTL
==============================================================================
