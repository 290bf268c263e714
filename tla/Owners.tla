------------------------------- MODULE Owners --------------------------------
(***************************************************************************)
(* What talloc promises (the comments of lib/talloc.c): an object has one  *)
(* owner or more, each an object or the program itself (NULL), and is      *)
(* there until the last of them has given it up or is gone.  The calls are *)
(* functions of own: how often a context owns an object.  Nobody owns an   *)
(* object that is not there.                                               *)
(***************************************************************************)
EXTENDS Naturals, FiniteSets, FiniteSetsExt

CONSTANTS Objects, Null

Contexts == Objects \cup {Null}

Count(own, o) == SumFunctionOnSet(own[o], Contexts)

\* The contexts of a set are gone.
Without(own, gone) ==
  [o \in Objects |-> [c \in Contexts |-> IF o \in gone \/ c \in gone THEN 0 ELSE own[o][c]]]

\* With o go the objects that only those that go own.
Doomed(own, o) ==
  LET grow[n \in 0 .. Cardinality(Objects)] ==
        IF n = 0 THEN {o}
        ELSE LET s == grow[n - 1]
             IN s \cup {x \in Objects : Count(own, x) > 0 /\
                                         \A c \in Contexts \ s : own[x][c] = 0}
  IN grow[Cardinality(Objects)]

\* A context becomes an owner, of a new object or of one that is there.
Adopt(own, c, o) == [own EXCEPT ![o][c] = @ + 1]

\* An object is freed by its only owner.
Free(own, o) == Without(own, Doomed(own, o))

\* An owner gives an object up; if it was the last one, the object goes.
GiveUp(own, c, o) ==
  LET less == [own EXCEPT ![o][c] = @ - 1]
  IN IF Count(less, o) = 0 THEN Free(less, o) ELSE less

\* An owner hands an object over to another context.
HandOver(own, c, d, o) == Adopt([own EXCEPT ![o][c] = @ - 1], d, o)
==============================================================================
