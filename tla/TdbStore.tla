------------------------------ MODULE TdbStore -------------------------------
(***************************************************************************)
(* The records of the embedded database (libtdb/tdb.c, freelist.c and      *)
(* traverse.c): hash chains and the free list in one file, shared by       *)
(* processes that lock single chains, the free list and single records.    *)
(*                                                                         *)
(* The file is a function from cells to values.  The cells below 0 are the *)
(* heads of the lists.  A record has one cell for its header, one for its  *)
(* key, one for each unit of data, and one for the tailer (the length of   *)
(* the whole record), at its end.  What a call does to the file is a       *)
(* sequence of writes, each a function from the cells it writes.  A step   *)
(* makes all the writes that are made under one lock of the free list, or  *)
(* of a chain: the processes that do not have it neither read nor change   *)
(* those cells.  A process may die between any two of them.                *)
(***************************************************************************)
EXTENDS Integers, FiniteSets, FiniteSetsExt, Sequences, SequencesExt, TLC

CONSTANTS Procs,
          Keys, HashSize,   \* key k is in chain k % HashSize
          Lengths,          \* of the data stored
          InitKeys, InitLen,\* what is there at first
          DeadLimits,       \* the limits of dead records processes set (tdb_set_max_dead)
          Page, ExpandBy,   \* the file grows by this many records, to whole pages
          MaxMap,           \* bound: the cells the disk has room for
          MaxOps,           \* bound: the calls that change the database
          MaxTraversals,    \* bound: the traversals
          MaxFaults         \* bound: the processes that die, and the expansions that fail
                            \* with the file already longer

ASSUME StoreAssumption ==
  /\ Keys \subseteq Nat /\ Lengths \subseteq Nat /\ InitKeys \subseteq Keys /\ InitLen \in Nat
  /\ {HashSize, Page, ExpandBy} \subseteq Nat \ {0}
  /\ DeadLimits \subseteq Nat
  /\ {MaxMap, MaxOps, MaxTraversals, MaxFaults} \subseteq Nat

VARIABLES file,                 \* the cells, of which there are those below its size
          tdb,                  \* of each process: map_size: the file's size as it knows it;
                                \* max_dead_records: 0 when records are freed at once
          pc, op, trav,         \* of each process: its call and its traversal
          stored,               \* history: the data length of each key, -1 for none
          torn,                 \* history: the keys in whose call a process died
          steady, visited,      \* history: of each traversal: the keys that stay
                                \* as they were when it began; how often it saw each key
          swept,                \* history: the traversals during which there was a wipe
          leaked,               \* history: what killed processes had in hand
          damage,               \* history: what has put space out of the lists' reach
          ops, travs, faults

history == <<stored, torn, steady, visited, swept, leaked, damage>>
bounds == <<ops, travs, faults>>
vars == <<file, tdb, pc, op, trav, history, bounds>>

MAGIC == 1
FREE == 2
DEAD == 3
Hdr == 1
TailLen == 1
KeyLen == 1
MinRec == Hdr + TailLen + 1
DataStart == 1                   \* cell 0 is the null pointer
Freelist == -1
Chains == 0 .. HashSize - 1
BUCKET(k) == k % HashSize
TDB_HASH_TOP(l) == l - HashSize  \* of a chain, and of the free list
Failed == HashSize + 1           \* the traversal ends with an error
NoOp == [call |-> "none", key |-> 0, len |-> 0, off |-> 0]
NoTrav == [style |-> "none", off |-> 0, hash |-> 0]

\* A header; the other cells are tuples of other lengths: tailers and heads of lists <<n>>,
\* a key and its data <<k, n>>, cells not yet written <<>>.  full_hash is the key.
Header(magic, next, rec_len, key, data_len) == <<magic, next, rec_len, key, data_len>>
Magic(f, off) == f[off][1]
NextOf(f, off) == f[off][2]
RecLen(f, off) == f[off][3]
Key(f, off) == f[off][4]
DataLen(f, off) == f[off][5]
IsHeader(f, off) == off >= DataStart /\ off \in DOMAIN f /\ Len(f[off]) = 5
Size(f) == Cardinality(DOMAIN f) - (HashSize + 1)
Top(f, l) == f[TDB_HASH_TOP(l)][1]

\* The file after a sequence of writes.
After(f, writes) == FoldLeft(LAMBDA g, w : w @@ g, f, writes)
------------------------------------------------------------------------------
\* The records from off on, as next leads from one to the other; the last one may be
\* something that is no record (any more).
From(f, off) ==
  LET walk[k \in 0 .. Size(f) \div MinRec] ==
        IF k = 0 THEN IF off = 0 THEN <<>> ELSE <<off>>
        ELSE LET s == walk[k - 1]
             IN IF Len(s) < k \/ ~IsHeader(f, Last(s)) \/ NextOf(f, Last(s)) = 0 THEN s
                ELSE Append(s, NextOf(f, Last(s)))
  IN walk[Size(f) \div MinRec]

\* A list as the sequence of its offsets.
Chain(f, l) == From(f, Top(f, l))

\* The pointer to record off of list l is made to point after it.
Unlink(f, l, off) ==
  LET s == Chain(f, l)
      i == CHOOSE j \in 1 .. Len(s) : s[j] = off
  IN IF i = 1 THEN TDB_HASH_TOP(l) :> <<NextOf(f, off)>>
     ELSE s[i - 1] :> [f[s[i - 1]] EXCEPT ![2] = NextOf(f, off)]

\* Mutant: dead records are found too.
FindDead(f, k) ==
  LET hits == SelectSeq(Chain(f, BUCKET(k)), LAMBDA o : Key(f, o) = k /\ f[o + Hdr][1] = k)
  IN IF hits = <<>> THEN 0 ELSE Head(hits)

\* tdb_find: the first record of the chain that is not dead and has the hash and the key.
tdb_find(f, k) ==
  LET hits == SelectSeq(Chain(f, BUCKET(k)), LAMBDA o :
                Magic(f, o) # DEAD /\ Key(f, o) = k /\ f[o + Hdr][1] = k)
  IN IF hits = <<>> THEN 0 ELSE Head(hits)

\* tdb_count_dead, and tdb_find_dead: the dead records of at least a length.
DeadIn(f, c, length) ==
  SelectSeq(Chain(f, c), LAMBDA o : Magic(f, o) = DEAD /\ RecLen(f, o) >= length)

MarkDead(f, off) == off :> [f[off] EXCEPT ![1] = DEAD]

update_tailer(off, rec_len) == off + Hdr + rec_len - TailLen :> <<Hdr + rec_len>>

\* The record on the left of off, found through its tailer; 0 for none.
LeftOf(f, off) ==
  LET tail == f[off - TailLen]
  IN IF off - TailLen > DataStart /\ Len(tail) = 1 /\ IsHeader(f, off - tail[1])
     THEN off - tail[1] ELSE 0

\* tdb_free: the tailer; then into the free record on the left, or onto the list.
tdb_free(f, off, rec) ==
  LET left == LeftOf(f, off)
      len == RecLen(f, left) + Hdr + rec[3]
  IN <<update_tailer(off, rec[3])>> \o
     IF left # 0 /\ Magic(f, left) = FREE
     THEN <<left :> [f[left] EXCEPT ![3] = len], update_tailer(left, len)>>
     ELSE <<off :> Header(FREE, Top(f, Freelist), rec[3], rec[4], rec[5]),
            TDB_HASH_TOP(Freelist) :> <<off>> >>

\* tdb_free_region: what is longer than a header becomes a free record.
tdb_free_region(f, off, length) ==
  IF length <= Hdr THEN <<>> ELSE tdb_free(f, off, Header(0, 0, length - Hdr, 0, 0))

\* tdb_expand: room for more such records and a quarter more space, in whole pages.
Grown(f, length) ==
  LET size == Max({Size(f) + (length + Hdr) * ExpandBy, (Size(f) * 5) \div 4})
  IN ((size + Page - 1) \div Page) * Page
tdb_expand_file(f, length) == [c \in Size(f) .. Grown(f, length) - 1 |-> <<>>]
tdb_expand(f, length) ==
  LET longer == tdb_expand_file(f, length)
  IN <<longer>> \o tdb_free(longer @@ f, Size(f), Header(0, 0, Cardinality(DOMAIN longer) - Hdr, 0, 0))

\* The best fit: the first of the shortest records that are long enough.  (The code also
\* stops at a record up to 1.05^n times the length after n others: for lists longer than
\* those here.)
BestFit(f, length) ==
  LET s == SelectSeq(Chain(f, Freelist), LAMBDA o : RecLen(f, o) >= length)
      best == Min({RecLen(f, o) : o \in Range(s)})
  IN IF s = <<>> THEN 0 ELSE Head(SelectSeq(s, LAMBDA o : RecLen(f, o) = best))

\* Mutant: a record taken as a whole stays on the free list.
AllocateStillListed(f, off, length) ==
  LET rest == RecLen(f, off) - (length + Hdr)
      new == off + Hdr + rest
  IN IF RecLen(f, off) < length + MinRec
     THEN [off |-> off, writes |-> <<off :> [f[off] EXCEPT ![1] = MAGIC]>>]
     ELSE [off |-> new,
           writes |-> <<off :> [f[off] EXCEPT ![3] = rest], update_tailer(off, rest),
                        new :> Header(MAGIC, 0, length, 0, 0), update_tailer(new, length)>>]

\* tdb_allocate_ofs: the whole record, or the end of it.
tdb_allocate_ofs(f, off, length) ==
  LET rest == RecLen(f, off) - (length + Hdr)
      new == off + Hdr + rest
  IN IF RecLen(f, off) < length + MinRec
     THEN [off |-> off,
           writes |-> <<Unlink(f, Freelist, off), off :> [f[off] EXCEPT ![1] = MAGIC]>>]
     ELSE [off |-> new,
           writes |-> <<off :> [f[off] EXCEPT ![3] = rest], update_tailer(off, rest),
                        new :> Header(MAGIC, 0, length, 0, 0), update_tailer(new, length)>>]

\* tdb_allocate: the file grows until there is room.  Offset 0 when it cannot; it may be
\* longer all the same, if the disk had no room for the padding (grew).
tdb_allocate(f, length) ==
  LET n == length + TailLen
      tries[k \in 0 .. MaxMap \div Page] ==
        IF k = 0 THEN <<>>
        ELSE LET g == After(f, tries[k - 1])
             IN IF BestFit(g, n) # 0 \/ Grown(g, n) > MaxMap THEN tries[k - 1]
                ELSE tries[k - 1] \o tdb_expand(g, n)
      last == tries[MaxMap \div Page]
      got == tdb_allocate_ofs(After(f, last), BestFit(After(f, last), n), n)
      short == {w \in Range(tries) : BestFit(After(f, w), n) = 0}
  IN {[off |-> 0, grew |-> TRUE,
       writes |-> Append(w, tdb_expand_file(After(f, w), n))] : w \in short}
     \cup {IF last \in short THEN [off |-> 0, grew |-> FALSE, writes |-> last]
           ELSE [off |-> got.off, grew |-> FALSE, writes |-> last \o got.writes]}

\* The key and the data of a record.
DataCells(off, k, n) == [c \in off + Hdr + KeyLen .. off + Hdr + KeyLen + n - 1 |-> <<k, n>>]
Contents(off, k, n) == (off + Hdr :> <<k, -1>>) @@ DataCells(off, k, n)

\* A record that was allocated is written and put at the top of its chain.
LinkWrites(f, off, k, n) ==
  <<off :> Header(MAGIC, Top(f, BUCKET(k)), RecLen(f, off), k, n), Contents(off, k, n),
    TDB_HASH_TOP(BUCKET(k)) :> <<off>> >>

\* The file as a first process left it, with some keys stored one after the other.
Empty == [c \in TDB_HASH_TOP(Freelist) .. DataStart - 1 |-> <<0>>]
Loaded(f, k) ==
  LET got == CHOOSE a \in tdb_allocate(f, KeyLen + InitLen) : ~a.grew
      g == After(f, got.writes)
  IN After(g, LinkWrites(g, got.off, k, InitLen))

\* One process has seen nothing of the file since its first key was stored.  They set the
\* same limit of dead records.
Init ==
  /\ file = FoldLeft(Loaded, Empty, SetToSortSeq(InitKeys, <))
  /\ \E late \in Procs, limit \in DeadLimits :
       tdb = [p \in Procs |-> [map_size |-> IF p = late THEN Size(Loaded(Empty, Min(InitKeys)))
                                            ELSE Size(file),
                               max_dead_records |-> limit]]
  /\ pc = [p \in Procs |-> "idle"] /\ op = [p \in Procs |-> NoOp]
  /\ trav = [p \in Procs |-> NoTrav]
  /\ stored = [k \in Keys |-> IF k \in InitKeys THEN InitLen ELSE -1] /\ torn = {}
  /\ steady = [p \in Procs |-> {}] /\ visited = [p \in Procs |-> <<>>]
  /\ swept = {} /\ leaked = {} /\ damage = {}
  /\ ops = 0 /\ travs = 0 /\ faults = 0
------------------------------------------------------------------------------
\* The lock of a chain is held throughout a call that changes it.
ChainFree(c) == \A p \in Procs : pc[p] = "idle" \/ BUCKET(op[p].key) # c

\* tdb_oob: a process that meets an offset beyond the file it knows of looks at its size.
Meets(p, f, offs) ==
  tdb' = [tdb EXCEPT ![p].map_size = IF \E o \in offs : o >= @ THEN Size(f) ELSE @]

\* Mutant: the locks of other processes' traversals are not looked at.
MarksDeadOwn(f, p, off) ==
  \/ trav[p].style = "write" /\ Magic(f, off) # DEAD
  \/ trav[p].off = off

\* tdb_do_delete marks a record it may not remove: the caller traverses, or a traversal
\* has the record locked (tdb_write_lock_record fails).
MarksDead(f, p, off) ==
  \/ trav[p].style = "write" /\ Magic(f, off) # DEAD
  \/ \E q \in Procs : trav[q].off = off /\ op[q].call # "clean"

\* tdb_do_delete as a whole.
tdb_do_delete(f, p, off, c) ==
  IF MarksDead(f, p, off) THEN <<MarkDead(f, off)>>
  ELSE LET u == Unlink(f, c, off) IN <<u>> \o tdb_free(u @@ f, off, f[off])

\* tdb_purge_dead: all the dead records of a chain.
tdb_purge_dead(f, p, c) ==
  FoldLeft(LAMBDA w, off : w \o tdb_do_delete(After(f, w), p, off, c), <<>>, DeadIn(f, c, 0))

\* The calls that change the database are made outside traversals or by the callback of a
\* write style one, for a key whose chain nobody has locked; under a read style traversal
\* they are refused.
Changeable(p) ==
  {k \in Keys : /\ pc[p] = "idle" /\ ChainFree(BUCKET(k))
                /\ trav[p].style = "write" => trav[p].off # 0 /\ trav[p].hash < HashSize
                /\ trav[p].style # "read"}

\* It is one of the calls the bound allows.
Counted == ops < MaxOps /\ ops' = ops + 1 /\ UNCHANGED <<travs, faults>>

Returns(p) ==
  pc' = [pc EXCEPT ![p] = "idle"] /\ op' = [op EXCEPT ![p] = NoOp]

\* The record of k is no longer where it was.
Gone(k) == steady' = [p \in Procs |-> steady[p] \ {tdb_find(file, k)}]

\* A call has made k what it is.
Settles(k, len) ==
  /\ stored' = [stored EXCEPT ![k] = len] /\ torn' = torn \ {k}
  /\ UNCHANGED <<visited, swept, leaked, damage>>

\* What tdb_append stores is longer by what is there.
NewLen(k, n, flag) ==
  LET off == tdb_find(file, k)
  IN IF flag = "APPEND" /\ off # 0 THEN n + DataLen(file, off) ELSE n

\* tdb_store that changes nothing: insertion of a key that is there, modification of
\* one that is not.
StoreRefused(p, k, flag) ==
  /\ (flag = "INSERT" /\ tdb_find(file, k) # 0) \/ (flag = "MODIFY" /\ tdb_find(file, k) = 0)
  /\ Meets(p, file, Range(Chain(file, BUCKET(k))))
  /\ UNCHANGED <<file, pc, op, trav, history, bounds>>

\* Mutant: the room of the tailer is used for data.
RoomInPlaceNoTailer(off, n) == RecLen(file, off) >= KeyLen + n

\* tdb_update_hash: there is room for key, data and tailer.
RoomInPlace(off, n) == RecLen(file, off) >= KeyLen + n + TailLen

CanUpdate(p, k, n, flag) ==
  /\ flag # "INSERT" /\ tdb_find(file, k) # 0
  /\ RoomInPlace(tdb_find(file, k), NewLen(k, n, flag))

\* The data, then the header if the length is another one.
UpdateWrites(k, len) ==
  LET off == tdb_find(file, k)
  IN <<DataCells(off, k, len)>> \o
     IF len = DataLen(file, off) THEN <<>> ELSE <<off :> [file[off] EXCEPT ![5] = len]>>

UpdateInPlace(p, k, n, flag) ==
  /\ Counted /\ CanUpdate(p, k, n, flag)
  /\ file' = After(file, UpdateWrites(k, NewLen(k, n, flag)))
  /\ Meets(p, file', {tdb_find(file, k)})
  /\ Settles(k, NewLen(k, n, flag))
  /\ UNCHANGED <<pc, op, trav, steady>>

\* The record of k is unlinked, for Free to free.
Frees(p, k) ==
  LET off == tdb_find(file, k)
  IN tdb[p].max_dead_records = 0 /\ off # 0 /\ ~MarksDead(file, p, off)

\* tdb_delete_hash up to the tdb_free of the record.
DeleteWrites(p, k) ==
  LET off == tdb_find(file, k)
      c == BUCKET(k)
      full == /\ tdb[p].max_dead_records # 0
              /\ Len(DeadIn(file, c, 0)) >= tdb[p].max_dead_records
      purge == IF full THEN tdb_purge_dead(file, p, c) ELSE <<>>
  IN IF Frees(p, k) THEN <<Unlink(file, c, off)>>
     ELSE IF off = 0 THEN purge
     ELSE Append(purge, MarkDead(After(file, purge), off))

\* tdb_store when there is no room in place.
CanStore(p, k, n, flag) ==
  LET off == tdb_find(file, k)
  IN /\ flag = "INSERT" => off = 0
     /\ flag = "MODIFY" => off # 0
     /\ flag # "INSERT" /\ off # 0 => ~RoomInPlace(off, NewLen(k, n, flag))

\* What is there is deleted, and a dead record that has room is used, if dead ones are
\* allowed.
StoreDeletes(p, k, flag) == IF flag = "INSERT" THEN <<>> ELSE DeleteWrites(p, k)
DeadWithRoom(p, k, len, flag) ==
  IF tdb[p].max_dead_records = 0 THEN <<>>
  ELSE DeadIn(After(file, StoreDeletes(p, k, flag)), BUCKET(k), KeyLen + len + TailLen)
StoreWrites(p, k, len, flag) ==
  LET deletes == StoreDeletes(p, k, flag)
      fits == DeadWithRoom(p, k, len, flag)
      rec == After(file, deletes)[Head(fits)]
  IN IF fits = <<>> THEN deletes
     ELSE deletes \o <<Head(fits) :> Header(MAGIC, rec[2], rec[3], k, len),
                       Contents(Head(fits), k, len)>>

Store(p, k, n, flag) ==
  LET len == NewLen(k, n, flag)
      reuses == DeadWithRoom(p, k, len, flag) # <<>>
      frees == flag # "INSERT" /\ Frees(p, k)
  IN /\ Counted /\ CanStore(p, k, n, flag)
     /\ Gone(k)
     /\ file' = After(file, StoreWrites(p, k, len, flag))
     /\ Settles(k, IF reuses THEN len ELSE -1)
     /\ IF reuses THEN UNCHANGED <<pc, op>>
        ELSE /\ pc' = [pc EXCEPT ![p] = IF frees THEN "free" ELSE "allocate"]
             /\ op' = [op EXCEPT ![p] = [call |-> "store", key |-> k, len |-> len,
                                         off |-> IF frees THEN tdb_find(file, k) ELSE 0]]
     /\ Meets(p, file', Range(Chain(file, BUCKET(k))))
     /\ UNCHANGED trav

\* tdb_delete: mark the record, or unlink it and go on to free it.
Delete(p, k) ==
  /\ Counted
  /\ Gone(k) /\ Settles(k, -1)
  /\ file' = After(file, DeleteWrites(p, k))
  /\ IF ~Frees(p, k) THEN UNCHANGED <<pc, op>>
     ELSE /\ pc' = [pc EXCEPT ![p] = "free"]
          /\ op' = [op EXCEPT ![p] = [call |-> "delete", key |-> k, len |-> 0,
                                      off |-> tdb_find(file, k)]]
  /\ Meets(p, file', Range(Chain(file, BUCKET(k))))
  /\ UNCHANGED trav

\* The rest of tdb_do_delete: tdb_free of the record that was unlinked.
FreeWrites(p) == tdb_free(file, op[p].off, file[op[p].off])

\* Mutant: the record that was unlinked is not freed.
FreeSkipped(p) ==
  /\ pc[p] = "free"
  /\ UNCHANGED <<file, tdb, trav, history, bounds>>
  /\ IF op[p].call = "delete" THEN Returns(p)
     ELSE /\ pc' = [pc EXCEPT ![p] = IF op[p].call = "store" THEN "allocate" ELSE "walk"]
          /\ op' = [op EXCEPT ![p].off = 0]

Free(p) ==
  /\ pc[p] = "free"
  /\ file' = After(file, FreeWrites(p))
  /\ Meets(p, file', {op[p].off})
  /\ IF op[p].call = "delete" THEN Returns(p)
     ELSE /\ pc' = [pc EXCEPT ![p] = IF op[p].call = "store" THEN "allocate" ELSE "walk"]
          /\ op' = [op EXCEPT ![p].off = 0]
  /\ UNCHANGED <<trav, history, bounds>>

\* tdb_store: purge the chain and allocate.  Without room the call fails, with what it
\* was to replace already gone.
AllocateWrites(p) ==
  LET purge == IF tdb[p].max_dead_records = 0 THEN <<>>
               ELSE tdb_purge_dead(file, p, BUCKET(op[p].key))
  IN {[got EXCEPT !.writes = purge \o @] :
        got \in tdb_allocate(After(file, purge), KeyLen + op[p].len)}
Allocate(p) ==
  /\ pc[p] = "allocate"
  /\ \E got \in AllocateWrites(p) :
       /\ file' = After(file, got.writes)
       /\ \/ /\ got.grew /\ faults < MaxFaults
             /\ faults' = faults + 1 /\ damage' = damage \cup {"expansion"}
             /\ Meets(p, After(file, Front(got.writes)), {Size(file)})
          \/ /\ ~got.grew /\ UNCHANGED <<faults, damage>>
             /\ Meets(p, file', {got.off} \cup Range(Chain(file, Freelist))
                                  \cup IF got.off = 0 \/ Size(file') > Size(file)
                                       THEN {Size(file)} ELSE {})
       /\ IF got.off = 0 THEN Returns(p)
          ELSE pc' = [pc EXCEPT ![p] = "link"] /\ op' = [op EXCEPT ![p].off = got.off]
  /\ UNCHANGED <<trav, stored, torn, steady, visited, swept, leaked, ops, travs>>

\* tdb_store: write the record and point the top of the chain at it.
Link(p) ==
  /\ pc[p] = "link"
  /\ file' = After(file, LinkWrites(file, op[p].off, op[p].key, op[p].len))
  /\ Settles(op[p].key, op[p].len)
  /\ Returns(p)
  /\ UNCHANGED <<tdb, trav, steady, bounds>>
------------------------------------------------------------------------------
\* tdb_traverse and tdb_traverse_read: the transaction lock keeps write style traversals
\* apart from all others.
StartTraverse(p, style) ==
  /\ pc[p] = "idle" /\ trav[p] = NoTrav /\ travs < MaxTraversals
  /\ \A q \in Procs \ {p} : trav[q].style \in (IF style = "read" THEN {"none", "read"} ELSE {"none"})
  /\ trav' = [trav EXCEPT ![p].style = style]
  /\ steady' = [steady EXCEPT ![p] = {off \in UNION {Range(Chain(file, c)) : c \in Chains} :
                                        Magic(file, off) = MAGIC}]
  /\ travs' = travs + 1
  /\ UNCHANGED <<file, tdb, pc, op, stored, torn, visited, swept, leaked, damage, ops, faults>>

\* tdb_rec_read succeeds: what is there is a record of a chain.
Readable(off) == IsHeader(file, off) /\ Magic(file, off) \in {MAGIC, DEAD}

\* tdb_next_lock, in the chain that it has locked.  It lets go of its record and goes on to
\* the next one that is not dead, which it locks for the callback.  A write style traversal
\* removes the dead ones it passes: unlinks one, frees it (Free) and goes on.  An empty chain
\* but the first is passed without a lock.  A header that is no record's (any more) ends the
\* traversal with an error.
NextLock(p) ==
  LET c == trav[p].hash
      locked == pc[p] = "walk"
      leaves == ~locked /\ trav[p].off # 0
      start == IF locked \/ leaves THEN trav[p].off ELSE Top(file, c)
      s == From(file, start)
      ahead == SelectSeq(IF leaves /\ Readable(start) THEN Tail(s) ELSE s,
                         LAMBDA off : ~(trav[p].style = "read" /\ Readable(off)
                                        /\ Magic(file, off) = DEAD))
      off == Head(ahead)
      home == BUCKET(Key(file, off))
  IN /\ trav[p].style # "none" /\ c < HashSize
     /\ \/ locked
        \/ /\ pc[p] = "idle"
           /\ ChainFree(c) \/ (trav[p].off = 0 /\ c # 0 /\ Top(file, c) = 0)
     /\ Meets(p, file, Range(s))
     /\ \/ /\ ahead = <<>>
           /\ trav' = [trav EXCEPT ![p].off = 0, ![p].hash = c + 1]
           /\ Returns(p)
           /\ UNCHANGED <<file, visited>>
        \/ /\ ahead # <<>> /\ ~Readable(off)
           /\ trav' = [trav EXCEPT ![p].off = 0, ![p].hash = Failed]
           /\ Returns(p)
           /\ UNCHANGED <<file, visited>>
        \/ /\ ahead # <<>> /\ Readable(off) /\ Magic(file, off) = MAGIC
           /\ trav' = [trav EXCEPT ![p].off = off]
           /\ visited' = [visited EXCEPT ![p] = IF off \in steady[p] THEN Append(@, off) ELSE @]
           /\ Returns(p)
           /\ UNCHANGED file
        \/ /\ ahead # <<>> /\ Readable(off) /\ Magic(file, off) = DEAD
           /\ IF off \in Range(Chain(file, home))
              THEN /\ file' = Unlink(file, home, off) @@ file
                   /\ trav' = [trav EXCEPT ![p].off = NextOf(file, off)]
                   /\ pc' = [pc EXCEPT ![p] = "free"]
                   /\ op' = [op EXCEPT ![p] = [call |-> "clean", key |-> c, len |-> 0, off |-> off]]
              ELSE /\ trav' = [trav EXCEPT ![p].off = 0, ![p].hash = Failed]
                   /\ Returns(p) /\ UNCHANGED file
           /\ UNCHANGED visited
     /\ UNCHANGED <<stored, torn, steady, swept, leaked, damage, bounds>>

\* Nothing is left of the traversal of p.
Forgets(p) ==
  /\ trav' = [trav EXCEPT ![p] = NoTrav]
  /\ visited' = [visited EXCEPT ![p] = <<>>]

\* The traversal has passed the last chain or failed, or the callback has asked it to stop.
EndTraverse(p) ==
  /\ pc[p] = "idle" /\ (trav[p].off # 0 \/ trav[p].hash >= HashSize)
  /\ Forgets(p) /\ steady' = [steady EXCEPT ![p] = {}] /\ swept' = swept \ {p}
  /\ UNCHANGED <<file, tdb, pc, op, stored, torn, leaked, damage, bounds>>

\* tdb_wipe_all, under the lock of all the chains: no chain has a record, and one free
\* record goes up to the end of the file as this process knows it.
CanWipe(p) ==
  /\ pc[p] = "idle" /\ trav[p].style # "read" /\ \A c \in Chains : ChainFree(c)
WipeWrites(p) ==
  LET zero == [i \in 1 .. HashSize |-> TDB_HASH_TOP(i - 1) :> <<0>>]
              \o <<TDB_HASH_TOP(Freelist) :> <<0>> >>
  IN zero \o tdb_free_region(After(file, zero), DataStart, tdb[p].map_size - DataStart)
Traversing == {q \in Procs : trav[q].style # "none"}

WipeAll(p) ==
  /\ Counted /\ CanWipe(p)
  /\ file' = After(file, WipeWrites(p))
  /\ stored' = [k \in Keys |-> -1] /\ torn' = {} /\ steady' = [q \in Procs |-> {}]
  /\ swept' = swept \cup Traversing /\ leaked' = {}
  /\ damage' = IF tdb[p].map_size = Size(file) THEN {} ELSE {"wipe"}
  /\ UNCHANGED <<tdb, pc, op, trav, visited>>

Flags == {"INSERT", "MODIFY", "REPLACE", "APPEND"}

\* What a process may be writing: for which keys, and whether to the lists too.
Section(writes, keys, lists) == [writes |-> writes, keys |-> keys, lists |-> lists]
Sections(p) ==
  CASE pc[p] = "free" -> {Section(FreeWrites(p), {}, TRUE)}
    [] pc[p] = "allocate" -> {Section(got.writes, {}, TRUE) : got \in {a \in AllocateWrites(p) : ~a.grew}}
    [] pc[p] = "link" -> {Section(LinkWrites(file, op[p].off, op[p].key, op[p].len), {}, FALSE)}
    [] pc[p] = "walk" -> {Section(<<>>, {}, FALSE)}
    [] OTHER ->
         {Section(UpdateWrites(a[1], NewLen(a[1], a[2], a[3])), {a[1]}, FALSE) :
            a \in {b \in Changeable(p) \X Lengths \X Flags : CanUpdate(p, b[1], b[2], b[3])}}
         \cup {Section(StoreWrites(p, a[1], NewLen(a[1], a[2], a[3]), a[3]), {a[1]},
                       tdb[p].max_dead_records # 0) :
            a \in {b \in Changeable(p) \X Lengths \X Flags : CanStore(p, b[1], b[2], b[3])}}
         \cup {Section(DeleteWrites(p, k), {k}, tdb[p].max_dead_records # 0) :
            k \in Changeable(p)}
         \cup (IF CanWipe(p) THEN {Section(WipeWrites(p), Keys, TRUE)} ELSE {})

\* A process dies in the middle of a call, between two of its writes: its locks are gone,
\* what it had in hand is lost; another one takes its place.  (Between calls its death is the
\* end of its traversal.)
Kill(p) ==
  /\ faults < MaxFaults /\ faults' = faults + 1
  /\ pc[p] = "idle" => ops < MaxOps
  /\ \E s \in Sections(p) : \E i \in 0 .. Max({0, Len(s.writes) - 1}) :
       /\ pc[p] = "idle" => i > 0
       /\ file' = After(file, SubSeq(s.writes, 1, i))
       /\ torn' = torn \cup s.keys
       /\ steady' = [q \in Procs |-> IF q = p THEN {} ELSE steady[q] \ {tdb_find(file, k) : k \in s.keys}]
       /\ swept' = (IF s.keys = Keys THEN swept \cup Traversing ELSE swept) \ {p}
       /\ damage' = IF s.lists /\ i > 0 THEN damage \cup {"death"} ELSE damage
  /\ leaked' = IF pc[p] \in {"free", "link"} THEN leaked \cup {op[p].off} ELSE leaked
  /\ Returns(p) /\ Forgets(p)
  /\ tdb' = [tdb EXCEPT ![p].map_size = Size(file')]
  /\ ops' = IF pc[p] = "idle" THEN ops + 1 ELSE ops
  /\ UNCHANGED <<stored, travs>>

Next ==
  \E p \in Procs :
    \/ \E k \in Changeable(p), flag \in Flags : StoreRefused(p, k, flag)
    \/ \E k \in Changeable(p), n \in Lengths, flag \in Flags : UpdateInPlace(p, k, n, flag)
    \/ \E k \in Changeable(p), n \in Lengths, flag \in Flags : Store(p, k, n, flag)
    \/ \E k \in Changeable(p) : Delete(p, k)
    \/ Free(p)
    \/ Allocate(p)
    \/ Link(p)
    \/ \E style \in {"read", "write"} : StartTraverse(p, style)
    \/ NextLock(p)
    \/ EndTraverse(p)
    \/ WipeAll(p)
    \/ Kill(p)

Spec == Init /\ [][Next]_vars
------------------------------------------------------------------------------
\* The offsets of the records one after the other from the start of the data.
Records ==
  LET step[k \in 0 .. Size(file) \div MinRec] ==
        IF k = 0 THEN <<DataStart>>
        ELSE LET s == step[k - 1]
             IN IF Len(s) < k \/ ~IsHeader(file, Last(s)) THEN s
                ELSE Append(s, Last(s) + Hdr + RecLen(file, Last(s)))
  IN step[Size(file) \div MinRec]

\* Where records are referred to from.
Places == {<<"list", l>> : l \in {Freelist} \cup Chains}
          \cup {<<"call", p>> : p \in {q \in Procs : pc[q] \in {"free", "link"}}}
At(pl) == IF pl[1] = "list" THEN Range(Chain(file, pl[2])) ELSE {op[pl[2]].off}

\* The variables have their types, and the file is whole: records follow each other without
\* gap or overlap up to the end of the file, and each ends with a tailer that leads back
\* to its header, which is what tdb_free merges by.  This is not so any more when a process
\* has died between two writes to the lists, an expansion has failed after ftruncate, or
\* tdb_wipe_all has used a size that was not up to date, until the next tdb_wipe_all.
FileOK ==
  /\ pc \in [Procs -> {"idle", "free", "allocate", "link", "walk"}]
  /\ stored \in [Keys -> Nat \cup {-1}] /\ \A p \in Procs : tdb[p].map_size \in 1 .. Size(file)
  /\ \A p \in Procs : trav[p].hash \in 0 .. Failed
  /\ damage = {} =>
       /\ Last(Records) = Size(file)
       /\ \A off \in Range(Front(Records)) :
            LET total == Hdr + RecLen(file, off)
            IN file[off + total - TailLen] = <<total>>

\* No step of a call loses space (tdb_free, tdb_allocate, tdb_expand, tdb_wipe_all with the
\* right size): each record of the file is on the free list (if it is free), in the chain of
\* its key, in the hands of one call between unlinking and freeing or allocating and
\* linking, or was in the hands of a process that died.  The code does lose space at the
\* three events FileOK names; tdb_wipe_all then does not make "the entire data portion of
\* the file ... a single entry in the freelist" (tdb.c:715).  The next one that knows the
\* size gets all of it back.
NoSpaceLost ==
  damage = {} =>
    \A off \in Range(Front(Records)) :
      /\ off \in leaked \/ \E pl \in Places : off \in At(pl)
      /\ off \notin leaked => (Magic(file, off) = FREE <=> off \in At(<<"list", Freelist>>))

\* No space is used twice, come what may: deaths between any two writes, failed expansions
\* and wipes that do not know of a part of the file may lose space, but the records that
\* chains, the free list and calls refer to never overlap, none is referred to twice, those
\* on the free list have its magic and those of a chain its hash.
NoSpaceShared ==
  LET Span(off) == off .. off + Hdr + RecLen(file, off) - 1
      used == UNION {{<<off, pl>> : off \in At(pl)} : pl \in Places}
  IN /\ \A u \in used : IsHeader(file, u[1]) /\ Span(u[1]) \subseteq DOMAIN file
     /\ \A u, v \in used : u # v => Span(u[1]) \cap Span(v[1]) = {}
     /\ \A off \in At(<<"list", Freelist>>) : Magic(file, off) = FREE
     /\ \A c \in Chains : \A off \in At(<<"list", c>>) :
          Magic(file, off) # FREE /\ BUCKET(Key(file, off)) = c

\* What was stored is found: whoever gets the lock of a key's chain finds the data of the
\* last call that stored it, and nothing after one that deleted it or that failed to replace
\* it (tdb_store deletes before it allocates: the old value is lost with the new one),
\* whatever other processes did to other records, to the free list and to the file meanwhile,
\* and wherever they died (tdb_fetch, tdb_exists).  Only a key whose own store or delete was
\* cut short by a death may have either value or a mixture of them, until the next call.
FindsStored ==
  \A k \in Keys \ torn :
    ChainFree(BUCKET(k)) =>
      LET off == tdb_find(file, k)
      IN IF stored[k] = -1 THEN off = 0
         ELSE /\ off # 0 /\ DataLen(file, off) = stored[k]
              /\ \A c \in DOMAIN DataCells(off, k, stored[k]) : file[c] = <<k, stored[k]>>

\* A traversal that reaches the end has seen each record that stayed where it was exactly
\* once, whatever was stored and deleted around it and wherever others died, its own
\* callbacks' calls included; the record it has locked is still in its chain ("record lock
\* stops delete underneath"), and it does not fail.  tdb_wipe_all does not look at record
\* locks: a traversal that it goes over may stand on what is no record any more, and fail.
TraversalComplete ==
  \A p \in Procs :
    /\ trav[p].hash = HashSize =>
         \A off \in steady[p] : Cardinality({i \in DOMAIN visited[p] : visited[p][i] = off}) = 1
    /\ p \notin swept =>
         /\ trav[p].off # 0 => trav[p].off \in Range(Chain(file, trav[p].hash))
         /\ trav[p].hash # Failed

Symmetry == Permutations(Procs)
============================================================================
