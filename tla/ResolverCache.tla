---------------------------- MODULE ResolverCache ----------------------------
(***************************************************************************)
(* The objects open for writing that a Resolver manages (lib/resolver.c):  *)
(* manage, own, cache_return, AFFObject_close and flush, on the multimap   *)
(* that Cache.tla shows the cache to be (it never expires here), and the   *)
(* part of talloc's tree that decides when an object is freed.             *)
(***************************************************************************)
EXTENDS Naturals, SequencesExt

CONSTANTS Objects,     \* numbers
          NUrns,       \* objects with the same remainder have the same URN
          Clients,
          MaxEntries   \* bound: entries made

ASSUME ResolverAssumption == /\ Objects \subseteq Nat \ {0} /\ NUrns \in Nat \ {0}
                             /\ MaxEntries \in Nat

VARIABLES cache,    \* the entries in the order of the puts: [id, object]
          made,     \* how many entries were made
          parent,   \* talloc parent of an object, or why it has none
          closed,   \* objects whose close method was called
          holds,    \* the object that each client owns, 0 for none
          returned, \* history: objects that some client has returned
          flushed   \* history: objects that flush has freed

vars == <<cache, made, parent, closed, holds, returned, flushed>>

Unborn == <<"unborn", 0>>
Null == <<"null", 0>>
Freed == <<"freed", 0>>
EntryParent(id) == <<"entry", id>>

UrnOf(o) == o % NUrns

Alive(o) == parent[o] # Unborn /\ parent[o] # Freed

Init == /\ cache = <<>> /\ made = 0
        /\ parent = [o \in Objects |-> Unborn]
        /\ closed = {} /\ returned = {} /\ flushed = {}
        /\ holds = [c \in Clients |-> 0]
------------------------------------------------------------------------------
\* Mutant: the object stays with the parent it has.
PutWithoutSteal(o) ==
  /\ made < MaxEntries /\ made' = made + 1
  /\ cache' = Append(cache, [id |-> made', object |-> o])
  /\ parent' = [parent EXCEPT ![o] = IF @ = Unborn THEN EntryParent(made') ELSE @]

\* Cache_put: a new entry, whatever entries there are, that steals the object.
Put(o) == /\ made < MaxEntries /\ made' = made + 1
          /\ cache' = Append(cache, [id |-> made', object |-> o])
          /\ parent' = [parent EXCEPT ![o] = EntryParent(made')]

\* The first entry of a URN, 0 if there is none.
FirstEntry(u) ==
  LET same == {i \in DOMAIN cache : UrnOf(cache[i].object) = u}
  IN IF same = {} THEN 0 ELSE CHOOSE i \in same : \A j \in same : i <= j

RemoveEntry(i) == RemoveAt(cache, i)

\* An object is created and its finish method calls Resolver_manage.
Manage(o) == /\ parent[o] = Unborn
             /\ Put(o)
             /\ UNCHANGED <<closed, holds, returned, flushed>>

\* Resolver_own borrows: the entry stays, and so does its owner.
Own(c, u) == /\ holds[c] = 0 /\ FirstEntry(u) # 0
             /\ holds' = [holds EXCEPT ![c] = cache[FirstEntry(u)].object]
             /\ UNCHANGED <<cache, made, parent, closed, returned, flushed>>

\* Resolver_cache_return, of an object that is still there.
CacheReturn(c) == /\ holds[c] # 0 /\ Alive(holds[c])
                  /\ Put(holds[c])
                  /\ holds' = [holds EXCEPT ![c] = 0]
                  /\ returned' = returned \cup {holds[c]}
                  /\ UNCHANGED <<closed, flushed>>

\* Mutant: nothing is removed.
CloseKeeps(o) == /\ Alive(o) /\ o \notin closed
                 /\ closed' = closed \cup {o}
                 /\ UNCHANGED <<cache, made, parent, holds, returned, flushed>>

\* Mutant: the object found under the URN is freed.
CloseFrees(o) ==
  /\ Alive(o) /\ o \notin closed
  /\ closed' = closed \cup {o}
  /\ LET i == FirstEntry(UrnOf(o))
     IN IF i = 0 THEN UNCHANGED <<cache, parent>>
        ELSE /\ cache' = RemoveEntry(i)
             /\ parent' = [parent EXCEPT ![cache[i].object] = Freed]
  /\ UNCHANGED <<made, holds, returned, flushed>>

\* AFFObject_close: Cache_get takes the first entry of the URN away and gives
\* its object to NULL.
Close(o) ==
  /\ Alive(o) /\ o \notin closed
  /\ closed' = closed \cup {o}
  /\ LET i == FirstEntry(UrnOf(o))
     IN IF i = 0 THEN UNCHANGED <<cache, parent>>
        ELSE /\ Alive(cache[i].object)
             /\ cache' = RemoveEntry(i)
             /\ parent' = [parent EXCEPT ![cache[i].object] = Null]
  /\ UNCHANGED <<made, holds, returned, flushed>>

\* The creator frees an object that it has closed.
Free(o) == /\ o \in closed /\ Alive(o)
           /\ parent' = [parent EXCEPT ![o] = Freed]
           /\ UNCHANGED <<cache, made, closed, holds, returned, flushed>>

\* Resolver_flush frees the cache, its entries and their objects.
Flush ==
  LET owned == {o \in Objects : parent[o][1] = "entry"}
  IN /\ cache # <<>>
     /\ cache' = <<>>
     /\ parent' = [o \in Objects |-> IF o \in owned THEN Freed ELSE parent[o]]
     /\ flushed' = flushed \cup owned
     /\ UNCHANGED <<made, closed, holds, returned>>

Next == \/ \E o \in Objects : Manage(o) \/ Close(o) \/ Free(o)
        \/ \E c \in Clients : CacheReturn(c) \/ \E u \in 0 .. NUrns - 1 : Own(c, u)
        \/ Flush

Spec == Init /\ [][Next]_vars
------------------------------------------------------------------------------
TypeOK == /\ cache \in Seq([id : 1 .. made, object : Objects])
          /\ made \in 0 .. MaxEntries
          /\ parent \in [Objects -> {Unborn, Null, Freed} \cup
                                    {EntryParent(i) : i \in 1 .. made}]
          /\ closed \subseteq Objects /\ returned \subseteq Objects
          /\ flushed \subseteq Objects
          /\ holds \in [Clients -> Objects \cup {0}]

\* An object that belongs to an entry belongs to its newest one, and that entry
\* is in the cache: flush frees every object once, and the entries that
\* Cache_get removes first never take the object with them.
NewestEntryOwns ==
  TypeOK /\
  \A o \in Objects : parent[o][1] = "entry" =>
    \E i \in DOMAIN cache :
      /\ cache[i] = [id |-> parent[o][2], object |-> o]
      /\ \A j \in DOMAIN cache : cache[j].object = o => j <= i

\* An object whose URN no other object has, and that nobody has owned and
\* returned, is not in the cache once it is closed, so it leaves nothing behind
\* when it is freed.  AFFObject_close takes one entry of its URN away, which is
\* not enough for an object that cache_return has put a second time
\* (resolver.c:576-577), nor for two objects with one URN.
UnreturnedIsGone ==
  \A i \in DOMAIN cache :
    LET o == cache[i].object
    IN o \in closed => \/ o \in returned
                       \/ \E p \in Objects \ {o} : UrnOf(p) = UrnOf(o)

\* An object that a client owns is there until its creator has closed it or a
\* flush has freed it, also if another object has its URN and is closed.
HeldIsAlive == \A c \in Clients : holds[c] # 0 =>
                 Alive(holds[c]) \/ holds[c] \in closed \cup flushed
==============================================================================
