------------------------------- MODULE Talloc --------------------------------
(***************************************************************************)
(* The allocator that every object of the library lives in (lib/talloc.c): *)
(* a chunk is a child of another one or of none, a reference is a handle,  *)
(* itself a chunk, that is a child of the context that refers.  Calls are  *)
(* made with the global lock held, so each is one step.  Sizes, names and  *)
(* pools are left out; no destructor of the library refuses (only those    *)
(* of the handles do something here), and null tracking is off.            *)
(***************************************************************************)
EXTENDS Naturals, FiniteSets, FiniteSetsExt, Sequences, SequencesExt, TLC

CONSTANTS Objects, Handles,  \* the chunks there is memory for
          Null

Chunks == Objects \cup Handles
Contexts == Objects \cup {Null}
NoChunk == "freed"

VARIABLES heap, \* parent: of each chunk; child: the children of a chunk, newest first;
                \* refs: the handles on an object, newest first; loop: being freed
          own   \* history: how often each context owns each object, by the promise

vars == <<heap, own>>

Alive(h, c) == c \in {Null} \cup {x \in Chunks : h.parent[x] # NoChunk}

Init == /\ heap = [parent |-> [c \in Chunks |-> NoChunk], child |-> [c \in Chunks |-> <<>>],
                   refs |-> [o \in Objects |-> <<>>], loop |-> {}]
        /\ own = [o \in Objects |-> [c \in Contexts |-> 0]]
------------------------------------------------------------------------------
\* __talloc: a new chunk at the front of its context's children.
__talloc(h, context, c) ==
  [h EXCEPT !.parent[c] = context,
            !.child = IF context = Null THEN @ ELSE [@ EXCEPT ![context] = <<c>> \o @]]

\* Mutant: a chunk that is not the first of its list stays in it.
DetachedFirst(h, c) ==
  IF h.parent[c] = Null \/ Head(h.child[h.parent[c]]) # c THEN h
  ELSE [h EXCEPT !.child[h.parent[c]] = Tail(@)]

\* _TLIST_REMOVE: out of the list of its parent.
Detached(h, c) ==
  IF h.parent[c] = Null THEN h
  ELSE [h EXCEPT !.child[h.parent[c]] = SelectSeq(@, LAMBDA x : x # c)]

\* _talloc_steal_internal: to the front of the new context's children, unless it is there.
StealInternal(h, new_ctx, c) ==
  IF c = new_ctx \/ (new_ctx # Null /\ h.child[new_ctx] # <<>> /\ Head(h.child[new_ctx]) = c)
  THEN h ELSE __talloc(Detached(h, c), new_ctx, c)

\* talloc_is_parent: is c context, or above it?
IsParent(h, context, c) ==
  LET up[n \in 0 .. Cardinality(Chunks)] ==
        IF n = 0 THEN context
        ELSE IF up[n - 1] = Null THEN Null ELSE h.parent[up[n - 1]]
  IN \E n \in DOMAIN up : up[n] = c

\* The chunk's memory is free; a handle has left the list it was in (its destructor).
Released(h, c) ==
  [h EXCEPT !.parent[c] = NoChunk, !.child[c] = <<>>, !.loop = @ \ {c},
            !.refs = IF c \in Handles THEN [o \in Objects |-> SelectSeq(@[o], LAMBDA r : r # c)]
                     ELSE @]

RECURSIVE FreeInternal(_, _), FreeChildren(_, _)

\* The loop of _talloc_free_internal over the children of c: one that cannot be freed goes
\* to the owner of its newest reference, read before that reference was freed; if there
\* is none, or that is NULL, to the parent of c.  (The code finds that parent by way of
\* a sibling, which may be gone by then: this is not shown.)
FreeChildren(h, c) ==
  IF h.child[c] = <<>> THEN h
  ELSE LET x == Head(h.child[c])
           owner == IF x \in Objects /\ h.refs[x] # <<>> THEN h.parent[Head(h.refs[x])] ELSE Null
           freed == FreeInternal(h, x)
           new_parent == IF owner = Null THEN h.parent[c] ELSE owner
       IN FreeChildren(IF freed.ok THEN freed.heap
                       ELSE StealInternal(freed.heap, new_parent, x), c)

\* _talloc_free_internal: a referenced object loses its newest reference instead; if that
\* came from below the object, the free is tried again.
FreeInternal(h, c) ==
  IF c \in Objects /\ h.refs[c] # <<>>
  THEN LET r == Head(h.refs[c])
           less == FreeInternal(h, r).heap
       IN IF IsParent(h, r, c) THEN FreeInternal(less, c) ELSE [heap |-> less, ok |-> FALSE]
  ELSE IF c \in h.loop THEN [heap |-> h, ok |-> TRUE]
  ELSE LET out == [Detached(h, c) EXCEPT !.loop = @ \cup {c}]
       IN [heap |-> Released(FreeChildren(out, c), c), ok |-> TRUE]

\* _talloc_free: refuses an object that is referenced.
_talloc_free(h, o) == IF h.refs[o] # <<>> THEN h ELSE FreeInternal(h, o).heap

\* The newest reference to o from a context.
RefFrom(h, context, o) == SelectSeq(h.refs[o], LAMBDA r : h.parent[r] = context)

\* Mutant: the object is not moved to the owner of the reference that is freed.
UnlinkFreesRef(h, context, o) ==
  IF RefFrom(h, context, o) # <<>> THEN FreeInternal(h, Head(RefFrom(h, context, o))).heap
  ELSE IF h.parent[o] # context THEN h
  ELSE IF h.refs[o] = <<>> THEN FreeInternal(h, o).heap
  ELSE FreeInternal(h, Head(h.refs[o])).heap

\* talloc_unlink: the reference from the context; or, if it is the parent, the object, which
\* goes to the owner of its newest reference, in exchange for the first one from there.
talloc_unlink(h, context, o) ==
  IF RefFrom(h, context, o) # <<>> THEN FreeInternal(h, Head(RefFrom(h, context, o))).heap
  ELSE IF h.parent[o] # context THEN h
  ELSE IF h.refs[o] = <<>> THEN FreeInternal(h, o).heap
  ELSE LET new_parent == h.parent[Head(h.refs[o])]
           less == FreeInternal(h, Head(RefFrom(h, new_parent, o))).heap
       IN StealInternal(less, new_parent, o)

\* talloc_reparent: the object, or the first reference from the old parent.
talloc_reparent(h, old_parent, new_parent, o) ==
  IF h.parent[o] = old_parent THEN StealInternal(h, new_parent, o)
  ELSE IF RefFrom(h, old_parent, o) # <<>>
  THEN StealInternal(h, new_parent, Head(RefFrom(h, old_parent, o)))
  ELSE h
------------------------------------------------------------------------------
Promise == INSTANCE Owners

\* How often a context owns an object: as its parent, and by references.
Owned(h) == [o \in Objects |-> [c \in Contexts |->
               IF h.parent[o] = NoChunk THEN 0
               ELSE (IF h.parent[o] = c THEN 1 ELSE 0) + Len(RefFrom(h, c, o))]]

\* Something owns itself, directly or through others.
Ring(h) ==
  LET direct == [o \in Objects |-> {c \in Objects : Owned(h)[o][c] > 0}]
      above[n \in 0 .. Cardinality(Objects)] ==
        IF n = 0 THEN direct
        ELSE [o \in Objects |-> above[n - 1][o] \cup UNION {direct[c] : c \in above[n - 1][o]}]
  IN \E o \in Objects : o \in above[Cardinality(Objects)][o]

\* Where a call breaks the promise: unlink and the loop over the children lose an object
\* whose newest reference comes from below it; and when an owner goes that is not on top
\* itself, the loop takes another reference, from NULL (aff4_incref), for none.
Breaks(h, after) ==
  LET freed == {c \in Chunks : h.parent[c] # NoChunk /\ after.parent[c] = NoChunk}
  IN \/ Ring(h) /\ freed # {}
     \/ \E o \in Objects, c \in freed \cap Objects :
          RefFrom(h, Null, o) # <<>> /\ Owned(h)[o][c] > 0 /\ h.parent[c] # Null

\* A call with this outcome is made.  (Calls that change nothing are left out.)
Calls(h, promised) ==
  /\ h # heap
  /\ heap' = h
  /\ own' = IF Breaks(heap, h) THEN Owned(h) ELSE promised

Alloc(context, o) ==
  /\ ~Alive(heap, o) /\ Alive(heap, context)
  /\ Calls(__talloc(heap, context, o), Promise!Adopt(own, context, o))

\* _talloc_reference_loc, and aff4_incref if the context is NULL.
Reference(context, o, r) ==
  /\ Alive(heap, context) /\ Alive(heap, o) /\ ~Alive(heap, r)
  /\ Calls([__talloc(heap, context, r) EXCEPT !.refs[o] = <<r>> \o @],
           Promise!Adopt(own, context, o))

Free(o) == Alive(heap, o) /\ Calls(_talloc_free(heap, o), Promise!Free(own, o))

\* talloc_unlink, and aff4_free if the context is NULL.
Unlink(context, o) ==
  /\ Alive(heap, context) /\ Alive(heap, o)
  /\ Calls(talloc_unlink(heap, context, o), Promise!GiveUp(own, context, o))

Steal(context, o) ==
  /\ Alive(heap, context) /\ Alive(heap, o)
  /\ Calls(StealInternal(heap, context, o), Promise!HandOver(own, heap.parent[o], context, o))

Reparent(old, new, o) ==
  /\ Alive(heap, old) /\ Alive(heap, new) /\ Alive(heap, o)
  /\ Calls(talloc_reparent(heap, old, new, o), Promise!HandOver(own, old, new, o))

Next == \E o \in Objects :
          \/ Free(o)
          \/ \E c \in Contexts : Alloc(c, o) \/ Unlink(c, o) \/ Steal(c, o)
          \/ \E c \in Contexts, r \in Handles : Reference(c, o, r)
          \/ \E c, d \in Contexts : Reparent(c, d, o)

Spec == Init /\ [][Next]_vars
------------------------------------------------------------------------------
\* The lists agree with each other: a chunk is once in the list of the parent it has, a
\* parent is there, a handle is once in the list of one object that is there, and no call
\* leaves a chunk half freed: nothing that is reached from a live chunk was freed.
HeapOK ==
  /\ heap.loop = {}
  /\ \A c \in Chunks :
       /\ IsInjective(heap.child[c])
       /\ \A x \in Chunks : x \in Range(heap.child[c]) <=> heap.parent[x] = c
       /\ ~Alive(heap, c) => heap.child[c] = <<>>
  /\ \A o \in Objects :
       IsInjective(heap.refs[o]) /\ (~Alive(heap, o) => heap.refs[o] = <<>>)
  /\ \A r \in Handles :
       Cardinality({o \in Objects : r \in Range(heap.refs[o])}) = IF Alive(heap, r) THEN 1 ELSE 0

\* Every call does to the owners what it promises, and nothing else: an object is there
\* exactly as long as somebody owns it ("the pointer remains valid until both the original
\* caller and this given context are freed", talloc.c:530-531), in whatever order owners let
\* go or are freed, whichever of them was the parent, and after any moves; with the last
\* one it goes, and with it what only it owned.  The comment is not kept in two cases, and
\* in these only (Breaks): the newest reference comes from below the object, and an owner
\* in the middle of a tree is freed when the program has a reference too.
OwnersKept == Owned(heap) = own

\* Where a chunk is its own parent, through others, a call that frees goes round for ever or
\* to the parent of what it has freed: nothing is asked of what follows.
InScope == \A o \in Objects : heap.parent[o] \in Objects => ~IsParent(heap, heap.parent[o], o)

Symmetry == Permutations(Objects) \cup Permutations(Handles)
==============================================================================
