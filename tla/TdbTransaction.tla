--------------------------- MODULE TdbTransaction ----------------------------
(***************************************************************************)
(* Transactions of the embedded database (libtdb/transaction.c), with the  *)
(* file, the processes that have it open, and their crashes.               *)
(*                                                                         *)
(* The file is a function from cells to values; a page has BlockSize       *)
(* cells.  Cell 0 is TDB_RECOVERY_HEAD, cell 1 FREELIST_TOP, the others    *)
(* are data.  The recovery record takes one cell for its magic, one for    *)
(* its lengths, one for each page saved and one for the tailer.  "disk"    *)
(* holds for each cell the values that it may have after a crash of the    *)
(* machine: writes are not ordered, only fsync settles them.               *)
(***************************************************************************)
EXTENDS Integers, FiniteSets, FiniteSetsExt, Sequences, SequencesExt, Functions, TLC

CONSTANTS Procs, NoProc,
          BlockSize,     \* cells in a page
          BaseSize,      \* cells in a new database
          Targets,       \* bound: the cells that clients write
          MaxSize,       \* bound: the cells the disk has room for
          MaxTxns,       \* bound: the transactions begun
          MaxFaults,     \* bound: crashes, kills and failed writes
          MaxNesting     \* bound: tdb_transaction_start inside a transaction

ASSUME TdbAssumption == /\ NoProc \notin Procs
                        /\ BlockSize \in Nat \ {0} /\ BaseSize \in Nat \ {0, 1}
                        /\ Targets \subseteq Nat \ {0, 1} /\ MaxSize >= BaseSize
                        /\ {MaxTxns, MaxFaults, MaxNesting} \subseteq Nat

VARIABLES file,     \* the file as every process sees it
          disk,     \* the values each cell may have after a crash
          disk_size,\* the sizes the file may have after a crash
          pc, map_size, tx, io, \* of each process; io: locals of commit and recover
          transaction_lock, range_lock, global_lock, \* the holders of the write locks
          committed, proposed,  \* history: the contents before and after the commit that
                                \* is under way, or whose end is not yet on the disk
          abandoned,\* history: a process died in a commit or a recovery while
                    \* another one had the database open
          unopened, \* history: an open failed
          head_lost, record_lost, \* history: the machine stopped with the recovery head, with
                    \* a valid recovery record, half way between two values
          granted,  \* history: the cells of each recovery area
          txns, faults

shared == <<file, disk, disk_size>>
locks == <<transaction_lock, range_lock, global_lock>>
marks == <<abandoned, unopened, head_lost, record_lost>>
history == <<committed, proposed, marks, granted>>
vars == <<shared, pc, map_size, tx, io, locks, history, txns, faults>>

\* A cell holds a word <<n>>, the lengths <<key_len, data_len, rec_len>> of the
\* recovery record, or a saved page <<offset, contents>>.
Zero == <<0>>
PAD == <<-1>>
RECOVERY_MAGIC == <<-2>>
FREE_MAGIC == <<-3>>
TAIL == <<-4>>
RecHdr == 2                       \* cells of struct list_struct
Cells == 0 .. MaxSize - 1

Size(f) == Cardinality(DOMAIN f)
Align(n) == ((n + BlockSize - 1) \div BlockSize) * BlockSize
Least(m, n) == IF m < n THEN m ELSE n
Largest(m, n) == IF m < n THEN n ELSE m

\* A page of a hole in the file reads as zero.
FileRead(f, c) == IF c \in DOMAIN f THEN f[c] ELSE Zero
Matches(f, contents) == \A c \in DOMAIN contents : FileRead(f, c) = contents[c]

\* Which of the two contents the file has.
Settled(f) == IF Matches(f, proposed) THEN proposed ELSE committed

NoTx == [nesting |-> -1, poisoned |-> FALSE]
NoIo == [off |-> 0]

Init ==
  /\ file = [c \in 0 .. BaseSize - 1 |-> Zero]
  /\ disk = [c \in Cells |-> IF c < BaseSize THEN {Zero} ELSE {}]
  /\ disk_size = {BaseSize}
  /\ pc = [p \in Procs |-> "closed"]
  /\ map_size = [p \in Procs |-> 0]
  /\ tx = [p \in Procs |-> NoTx] /\ io = [p \in Procs |-> NoIo]
  /\ transaction_lock = NoProc /\ range_lock = NoProc /\ global_lock = NoProc
  /\ committed = [c \in 1 .. BaseSize - 1 |-> Zero] /\ proposed = committed
  /\ abandoned = FALSE /\ unopened = FALSE /\ head_lost = FALSE /\ record_lost = FALSE
  /\ granted = <<>> /\ txns = 0 /\ faults = 0
------------------------------------------------------------------------------
\* tdb_write through the normal methods: g gives the cells and their values.
WriteCells(g) ==
  /\ file' = g @@ file
  /\ disk' = [c \in Cells |-> IF c \in DOMAIN g THEN disk[c] \cup {g[c]} ELSE disk[c]]

\* The file gets n cells: tdb_expand_file pads the new ones from "from" on (the
\* ones before are a hole), ftruncate cuts.
Resized(n, from) ==
  [c \in 0 .. n - 1 |-> IF c \in DOMAIN file THEN file[c] ELSE IF c < from THEN Zero ELSE PAD]
SetSize(n, from, g) ==
  /\ file' = g @@ Resized(n, from)
  /\ disk' = [c \in Cells |-> disk[c]
                \cup (IF c < n /\ c \notin DOMAIN file THEN {Zero, file'[c]} ELSE {})
                \cup (IF c \in DOMAIN g THEN {g[c]} ELSE {})]
  /\ disk_size' = disk_size \cup {n}

\* transaction_sync.
Sync ==
  /\ disk' = [c \in Cells |-> IF c \in DOMAIN file THEN {file[c]} ELSE {}]
  /\ disk_size' = {Size(file)}
  /\ UNCHANGED file

\* tdb_oob(map_size + 1, probe): learn of an expansion.
Refresh(size, f) == Largest(size, Size(f))
------------------------------------------------------------------------------
\* transaction_read of one cell.
TransRead(t, off) ==
  IF off \div BlockSize \in DOMAIN t.blocks
  THEN t.blocks[off \div BlockSize][off % BlockSize] ELSE FileRead(file, off)

\* transaction_write of one cell: the page is copied when it is first written.
\* A page that the file does not have (any more) is an error of the transaction.
TransWrite(t, off, v) ==
  LET blk == off \div BlockSize
      from == blk * BlockSize
      new == blk \notin DOMAIN t.blocks
      valid == Largest(0, Least(BlockSize, t.old_map_size - from))  \* len2
      islast == blk + 1 >= t.num_blocks
      page == IF new THEN [i \in 0 .. BlockSize - 1 |->
                             IF i < valid THEN FileRead(file, from + i) ELSE Zero]
              ELSE t.blocks[blk]
      length == IF t.num_blocks <= blk THEN valid
                ELSE IF new /\ valid > 0 THEN valid ELSE t.last_block_size
  IN IF new /\ valid > 0 /\ from + valid > Size(file)
     THEN [t EXCEPT !.transaction_error = TRUE, !.num_blocks = Largest(@, blk + 1)]
     ELSE [t EXCEPT !.blocks = (blk :> [page EXCEPT ![off % BlockSize] = v]) @@ @,
                    !.num_blocks = Largest(@, blk + 1),
                    !.last_block_size = IF islast THEN Largest(length, (off % BlockSize) + 1)
                                        ELSE @]

\* A run of writes, each <<cell, value>>.
TransWrites(t, writes) ==
  LET step[k \in 0 .. Len(writes)] ==
        IF k = 0 THEN t ELSE TransWrite(step[k - 1], writes[k][1], writes[k][2])
  IN step[Len(writes)]

\* transaction_write_existing: only pages the transaction has, and only the
\* valid part of the last one.
WriteExisting(t, g) ==
  [t EXCEPT !.blocks = [b \in DOMAIN @ |-> [i \in 0 .. BlockSize - 1 |->
     IF b * BlockSize + i \in DOMAIN g /\ (b = t.num_blocks - 1 => i < t.last_block_size)
     THEN g[b * BlockSize + i] ELSE @[b][i]]]]

\* The length of page b in the file.
BlockLen(t, b) == IF b = t.num_blocks - 1 THEN t.last_block_size ELSE BlockSize
------------------------------------------------------------------------------
Goto(p, l) == pc' = [pc EXCEPT ![p] = l]

\* tdb_open_ex: GLOBAL_LOCK, fstat, then tdb_transaction_recover.
Open(p) ==
  /\ pc[p] = "closed" /\ global_lock = NoProc
  /\ global_lock' = p
  /\ map_size' = [map_size EXCEPT ![p] = Size(file)]
  /\ Goto(p, "recover")
  /\ UNCHANGED <<shared, tx, io, transaction_lock, range_lock, history, txns, faults>>

\* tdb_transaction_cancel of the outermost transaction.
Cancel(p) ==
  /\ map_size' = [map_size EXCEPT ![p] = tx[p].old_map_size]
  /\ tx' = [tx EXCEPT ![p] = NoTx]
  /\ io' = [io EXCEPT ![p] = NoIo]
  /\ transaction_lock' = NoProc /\ range_lock' = NoProc
  /\ Goto(p, "open")

\* tdb_close: closing the descriptor gives up every lock, nested or not.
Close(p) ==
  /\ \/ /\ pc[p] = "open"
        /\ UNCHANGED <<tx, transaction_lock>>
     \/ /\ pc[p] = "txn"
        /\ tx' = [tx EXCEPT ![p] = NoTx] /\ transaction_lock' = NoProc
  /\ map_size' = [map_size EXCEPT ![p] = 0]
  /\ Goto(p, "closed")
  /\ UNCHANGED <<shared, io, range_lock, global_lock, history, txns, faults>>

Start(p) ==
  /\ pc[p] = "open" /\ transaction_lock = NoProc /\ txns < MaxTxns
  /\ transaction_lock' = p /\ txns' = txns + 1
  /\ map_size' = [map_size EXCEPT ![p] = Refresh(@, file)]
  /\ tx' = [tx EXCEPT ![p] = [blocks |-> <<>>, num_blocks |-> 0, last_block_size |-> 0,
                              transaction_error |-> FALSE, nesting |-> 0,
                              old_map_size |-> map_size'[p], poisoned |-> FALSE]]
  /\ Goto(p, "txn")
  /\ UNCHANGED <<shared, io, range_lock, global_lock, history, faults>>

StartNested(p) ==
  /\ pc[p] = "txn" /\ tx[p].nesting < MaxNesting
  /\ tx' = [tx EXCEPT ![p].nesting = @ + 1]
  /\ UNCHANGED <<shared, pc, map_size, io, locks, history, txns, faults>>

\* A record that was never written has the padding for its length.
RecLen(head) == LET lens == FileRead(file, head + 1)
                IN IF Len(lens) = 3 THEN lens[3] ELSE IF lens = PAD THEN MaxSize ELSE 0
Area(t) == LET head == TransRead(t, 0)[1]
           IN IF head = 0 THEN {} ELSE head .. head + granted[head] - 1

\* A client writes the number of its transaction to a cell that is not part of
\* the recovery area.
Write(p, c) ==
  /\ pc[p] = "txn" /\ c < map_size[p] /\ c \notin Area(tx[p])
  /\ tx' = [tx EXCEPT ![p] = TransWrite(@, c, <<txns>>)]
  /\ UNCHANGED <<shared, pc, map_size, io, locks, history, txns, faults>>

\* tdb_expand in a transaction: zeros to the end of a page, then tdb_free of them
\* (bound: once in a transaction).
Expand(p) ==
  LET from == map_size[p]
      to == Align(from + 1)
      zeros == [i \in 1 .. to - from |-> <<from + i - 1, Zero>>]
  IN /\ pc[p] = "txn" /\ from = tx[p].old_map_size /\ to <= MaxSize
     /\ tx' = [tx EXCEPT ![p] = TransWrites(@, zeros \o
                 << <<to - 1, TAIL>>, <<from, FREE_MAGIC>>, <<1, <<from>> >> >>)]
     /\ map_size' = [map_size EXCEPT ![p] = to]
     /\ UNCHANGED <<shared, pc, io, locks, history, txns, faults>>

\* Mutant: cancelling an inner transaction only leaves it.
CancelForgets(p) ==
  /\ pc[p] = "txn"
  /\ \/ /\ tx[p].nesting # 0
        /\ tx' = [tx EXCEPT ![p].poisoned = TRUE, ![p].nesting = @ - 1]
        /\ UNCHANGED <<pc, map_size, io, transaction_lock, range_lock>>
     \/ tx[p].nesting = 0 /\ Cancel(p)
  /\ UNCHANGED <<shared, global_lock, history, txns, faults>>

\* tdb_transaction_cancel called by the client.
CancelCall(p) ==
  /\ pc[p] = "txn"
  /\ \/ /\ tx[p].nesting # 0
        /\ tx' = [tx EXCEPT ![p].transaction_error = TRUE, ![p].nesting = @ - 1,
                            ![p].poisoned = TRUE]
        /\ UNCHANGED <<pc, map_size, io, transaction_lock, range_lock>>
     \/ tx[p].nesting = 0 /\ Cancel(p)
  /\ UNCHANGED <<shared, global_lock, history, txns, faults>>
------------------------------------------------------------------------------
\* Mutant: the outermost commit is taken for a nested one.
CommitInner(p) ==
  /\ pc[p] = "txn"
  /\ tx' = [tx EXCEPT ![p].nesting = @ - 1]
  /\ UNCHANGED <<shared, pc, map_size, io, locks, history, txns, faults>>

\* tdb_transaction_commit up to the upgrade of the read lock.  A pending error
\* cancels (one level of) the transaction.
Commit(p) ==
  /\ pc[p] = "txn"
  /\ \/ /\ tx[p].nesting # 0
        /\ tx' = [tx EXCEPT ![p].nesting = @ - 1]
        /\ UNCHANGED <<pc, map_size, io, transaction_lock, range_lock>>
     \/ /\ tx[p].nesting = 0 /\ (tx[p].transaction_error \/ tx[p].num_blocks = 0)
        /\ Cancel(p)
     \/ /\ tx[p].nesting = 0 /\ ~tx[p].transaction_error /\ tx[p].num_blocks # 0
        /\ range_lock' = p /\ Goto(p, "upgraded")
        /\ UNCHANGED <<map_size, tx, io, transaction_lock>>
  /\ UNCHANGED <<shared, global_lock, history, txns, faults>>

\* GLOBAL_LOCK: nobody attaches during the commit.
CommitLocks(p) ==
  /\ pc[p] = "upgraded" /\ global_lock = NoProc
  /\ global_lock' = p /\ Goto(p, "allocate")
  /\ UNCHANGED <<shared, map_size, tx, io, transaction_lock, range_lock, history, txns, faults>>

\* The pages that begin inside the old file, and the room their old contents
\* and the tailer take.
Saved(t, size) == {b \in DOMAIN t.blocks : b * BlockSize < size}
tdb_recovery_size(t) == 1 + Cardinality(Saved(t, t.old_map_size))

\* The contents the database has if the commit succeeds.
View(t, cells) == [c \in cells |-> TransRead(t, c)]

Fits(t, head) == head # 0 /\ tdb_recovery_size(t) <= RecLen(head)

\* tdb_recovery_allocate: the area there is serves ...
Reuse(p) ==
  LET t == tx[p]
      head == TransRead(t, 0)[1]
  IN /\ pc[p] = "allocate" /\ Fits(t, head)
     /\ io' = [io EXCEPT ![p] = [off |-> head, max |-> RecLen(head),
                                 size |-> tdb_recovery_size(t), eof |-> t.old_map_size,
                                 view |-> View(t, (1 .. map_size[p] - 1) \ Area(t))]]
     /\ Goto(p, "setup")
     /\ UNCHANGED <<shared, map_size, tx, locks, history, txns, faults>>

\* ... or it goes to the free list, inside the transaction, ...
FreeArea(t, head) ==
  IF head = 0 THEN t
  ELSE TransWrites(t, << <<head + RecHdr + RecLen(head) - 1, TAIL>>, <<head, FREE_MAGIC>>,
                         <<head + 1, <<TransRead(t, 1)[1], 0, RecLen(head)>> >>,
                         <<1, <<head>> >> >>)
NewArea(t) == Align(RecHdr + tdb_recovery_size(t))

\* ... and a new one is made at the end of the file, outside the transaction: the file
\* grows, and then the head is written.
Allocate(p) ==
  LET t == FreeArea(tx[p], TransRead(tx[p], 0)[1])
      off == map_size[p]
      end == off + NewArea(t)
  IN /\ pc[p] = "allocate" /\ ~Fits(tx[p], TransRead(tx[p], 0)[1]) /\ end <= MaxSize
     /\ SetSize(end, t.old_map_size, <<>>)
     /\ map_size' = [map_size EXCEPT ![p] = Refresh(@, file')]
     /\ tx' = [tx EXCEPT ![p] = [t EXCEPT !.old_map_size = map_size'[p]]]
     /\ io' = [io EXCEPT ![p] = [off |-> off, max |-> NewArea(t) - RecHdr,
                                 size |-> tdb_recovery_size(t), eof |-> t.old_map_size,
                                 view |-> View(t, 1 .. off - 1)]]
     /\ granted' = (off :> NewArea(t)) @@ granted
     /\ Goto(p, "head")
     /\ UNCHANGED <<locks, committed, proposed, marks, txns, faults>>

\* It is not synced here.
WriteHead(p) ==
  /\ pc[p] = "head"
  /\ WriteCells(0 :> <<io[p].off>>)
  /\ tx' = [tx EXCEPT ![p] = WriteExisting(@, 0 :> <<io[p].off>>)]
  /\ Goto(p, "setup")
  /\ UNCHANGED <<disk_size, map_size, io, locks, history, txns, faults>>

\* The commit fails: GLOBAL_LOCK and the transaction go.
GiveUp(p) ==
  /\ Cancel(p) /\ global_lock' = NoProc
  /\ UNCHANGED <<committed, marks, granted, txns>>

\* ftruncate fails, or it makes the file longer and the write of the padding fails.
ExpandFails(n) == UNCHANGED shared \/ (n <= MaxSize /\ SetSize(n, n, <<>>))

\* There is no room for the area.
AllocateFails(p) ==
  LET end == map_size[p] + NewArea(FreeArea(tx[p], TransRead(tx[p], 0)[1]))
  IN /\ pc[p] = "allocate" /\ ~Fits(tx[p], TransRead(tx[p], 0)[1])
     /\ end > MaxSize \/ faults < MaxFaults
     /\ faults' = Least(MaxFaults, faults + 1)
     /\ ExpandFails(end) /\ GiveUp(p) /\ UNCHANGED proposed

\* transaction_setup_recovery: the old contents of every page that the commit
\* will overwrite, in one write, with the magic still zero.
RecoveryData(p) ==
  LET t == tx[p]
      d == io[p]
      saved == SetToSortSeq(Saved(t, d.eof), LAMBDA a, b : a < b)
      Entry(b) == <<b * BlockSize,
                    [i \in 1 .. BlockLen(t, b) |-> file[b * BlockSize + i - 1]]>>
  IN (d.off :> Zero) @@ (d.off + 1 :> <<d.eof, d.size, d.max>>)
       @@ [c \in d.off + RecHdr .. d.off + RecHdr + Len(saved) - 1 |->
             Entry(saved[c - d.off - RecHdr + 1])]
       @@ (d.off + RecHdr + Len(saved) :> TAIL)

\* A page that reaches over the end of the file as it was is an error, and so is a record
\* that does.
Misfit(p) ==
  \/ \E b \in Saved(tx[p], io[p].eof) : b * BlockSize + BlockLen(tx[p], b) > tx[p].old_map_size
  \/ io[p].off + RecHdr + io[p].size > Size(file)

WriteRecovery(p) ==
  /\ pc[p] = "setup" /\ ~Misfit(p)
  /\ WriteCells(RecoveryData(p))
  /\ tx' = [tx EXCEPT ![p] = WriteExisting(@, RecoveryData(p))]
  /\ Goto(p, "sync1")
  /\ UNCHANGED <<disk_size, map_size, io, locks, history, txns, faults>>

\* The write fails, after a part of the record.
WriteRecoveryFails(p) ==
  /\ pc[p] = "setup"
  /\ \/ Misfit(p) /\ UNCHANGED <<shared, faults>>
     \/ /\ ~Misfit(p) /\ faults < MaxFaults /\ faults' = faults + 1
        /\ \E n \in 0 .. Cardinality(DOMAIN RecoveryData(p)) - 1 :
             WriteCells(Restrict(RecoveryData(p), io[p].off .. io[p].off + n - 1))
        /\ UNCHANGED disk_size
  /\ GiveUp(p) /\ UNCHANGED proposed

\* The write of the head or of the magic fails, or a sync does.
SetupFails(p) ==
  /\ pc[p] \in {"head", "sync1", "magic", "sync2"} /\ faults < MaxFaults
  /\ faults' = faults + 1
  /\ GiveUp(p) /\ UNCHANGED shared
  /\ proposed' = IF pc[p] \in {"magic", "sync2"} THEN committed ELSE proposed

SyncRecovery(p) ==
  /\ pc[p] = "sync1" /\ Sync /\ Goto(p, "magic")
  /\ committed' = Settled(file) /\ proposed' = io[p].view
  /\ UNCHANGED <<map_size, tx, io, locks, marks, granted, txns, faults>>

SetMagic(p) ==
  /\ pc[p] = "magic"
  /\ WriteCells(io[p].off :> RECOVERY_MAGIC)
  /\ tx' = [tx EXCEPT ![p] = WriteExisting(@, io[p].off :> RECOVERY_MAGIC)]
  /\ Goto(p, "sync2")
  /\ UNCHANGED <<disk_size, map_size, io, locks, history, txns, faults>>

SyncMagic(p) ==
  /\ pc[p] = "sync2" /\ Sync
  /\ Goto(p, IF map_size[p] # tx[p].old_map_size THEN "expand" ELSE "blocks")
  /\ UNCHANGED <<map_size, tx, io, locks, history, txns, faults>>

\* The file gets the size that the transaction gave it.
CommitExpand(p) ==
  /\ pc[p] = "expand"
  /\ SetSize(map_size[p], tx[p].old_map_size, <<>>)
  /\ map_size' = [map_size EXCEPT ![p] = Refresh(tx[p].old_map_size, file')]
  /\ Goto(p, "blocks")
  /\ UNCHANGED <<tx, io, locks, history, txns, faults>>

\* The disk is full: the record stays valid, and nothing has been overwritten.
CommitExpandFails(p) ==
  /\ pc[p] = "expand" /\ faults < MaxFaults
  /\ faults' = faults + 1
  /\ ExpandFails(map_size[p]) /\ GiveUp(p) /\ proposed' = committed

\* One page of the transaction.
PageCells(t, b) == [c \in b * BlockSize .. b * BlockSize + BlockLen(t, b) - 1 |->
                      t.blocks[b][c - b * BlockSize]]

WriteBlock(p) ==
  LET b == Min(DOMAIN tx[p].blocks)
      rest == DOMAIN tx[p].blocks \ {b}
  IN /\ pc[p] = "blocks"
     /\ WriteCells(PageCells(tx[p], b))
     /\ tx' = [tx EXCEPT ![p].blocks = Restrict(@, rest)]
     /\ Goto(p, IF rest = {} THEN "sync3" ELSE "blocks")
     /\ UNCHANGED <<disk_size, map_size, io, locks, history, txns, faults>>

\* A write fails: the crash recovery runs in the process itself.
WriteBlockFails(p) ==
  /\ pc[p] = "blocks" /\ faults < MaxFaults
  /\ faults' = faults + 1 /\ Goto(p, "recover")
  /\ UNCHANGED <<shared, map_size, tx, io, locks, history, txns>>

\* Mutant: the magic is cleared with the data still unsynced.
SyncDataSkipped(p) ==
  /\ pc[p] = "sync3" /\ UNCHANGED shared /\ Goto(p, "clear")
  /\ UNCHANGED <<map_size, tx, io, locks, history, txns, faults>>

SyncData(p) ==
  /\ pc[p] = "sync3" /\ Sync /\ Goto(p, "clear")
  /\ UNCHANGED <<map_size, tx, io, locks, history, txns, faults>>

ClearMagic(p) ==
  /\ pc[p] = "clear"
  /\ WriteCells(io[p].off :> Zero)
  /\ Goto(p, "sync4")
  /\ UNCHANGED <<disk_size, map_size, tx, io, locks, history, txns, faults>>

\* The last sync, the global lock, and tdb_transaction_cancel for the rest.
CommitReturns(p) ==
  /\ pc[p] = "sync4" /\ Sync
  /\ committed' = proposed
  /\ Cancel(p) /\ global_lock' = NoProc
  /\ UNCHANGED <<proposed, marks, granted, txns, faults>>
------------------------------------------------------------------------------
\* tdb_transaction_recover has returned, to tdb_open_ex (which fails with it) or
\* to a failed commit (which does not look).
Returned(p, ok) ==
  /\ Goto(p, IF tx[p] = NoTx /\ ~ok THEN "closed" ELSE "open")
  /\ tx' = [tx EXCEPT ![p] = NoTx] /\ io' = [io EXCEPT ![p] = NoIo]
  /\ unopened' = (unopened \/ (tx[p] = NoTx /\ ~ok))
  /\ transaction_lock' = IF tx[p] = NoTx THEN transaction_lock ELSE NoProc
  /\ range_lock' = IF tx[p] = NoTx THEN range_lock ELSE NoProc
  /\ global_lock' = NoProc
  /\ UNCHANGED <<abandoned, head_lost, record_lost, granted, txns, faults>>
RecoverFailed(p) == Returned(p, FALSE) /\ UNCHANGED <<shared, map_size, committed, proposed>>

\* Unless the magic is cleared and not synced, a success decides which of the two
\* contents there are.
Recovered(p) ==
  /\ Returned(p, TRUE)
  /\ IF \A c \in DOMAIN file' : disk'[c] = {file'[c]}
     THEN /\ committed' = IF tx[p] = NoTx THEN Settled(file') ELSE committed
          /\ proposed' = committed'
     ELSE UNCHANGED <<committed, proposed>>

\* The head and the record it points to, which may be beyond the end of the file.
RecoverReads(p) ==
  LET head == file[0][1]
      within == head + RecHdr <= Size(file)
      valid == head # 0 /\ within /\ file[head] = RECOVERY_MAGIC
      lens == file[head + 1]
  IN /\ pc[p] = "recover"
     /\ \/ head # 0 /\ ~within /\ RecoverFailed(p)
        \/ (head = 0 \/ (within /\ ~valid)) /\ UNCHANGED <<shared, map_size>> /\ Recovered(p)
        \/ /\ valid
           /\ io' = [io EXCEPT ![p] = [off |-> head, eof |-> lens[1],
                                       todo |-> [i \in 1 .. lens[2] - 1 |-> file[head + 1 + i]]]]
           /\ Goto(p, "restore")
           /\ UNCHANGED <<shared, map_size, tx, locks, history, txns, faults>>

\* An offset, and the contents.
IsPage(entry) == Len(entry) = 2

\* One saved page goes back.
RestoreEntry(p) ==
  LET entry == Head(io[p].todo)
  IN /\ pc[p] = "restore" /\ io[p].todo # <<>> /\ IsPage(entry)
     /\ WriteCells([c \in entry[1] .. entry[1] + Len(entry[2]) - 1 |->
                      entry[2][c - entry[1] + 1]])
     /\ io' = [io EXCEPT ![p].todo = Tail(@)]
     /\ UNCHANGED <<disk_size, pc, map_size, tx, locks, history, txns, faults>>

\* The record is half of one and half of another: an offset and a length that are none,
\* and a write that fails.
RestoreFails(p) ==
  /\ pc[p] = "restore" /\ io[p].todo # <<>> /\ ~IsPage(Head(io[p].todo))
  /\ RecoverFailed(p)

RestoreSync(p) ==
  /\ pc[p] = "restore" /\ io[p].todo = <<>>
  /\ Sync /\ Goto(p, "restored")
  /\ UNCHANGED <<map_size, tx, io, locks, history, txns, faults>>

\* Mutant: the head is left on an area that is cut off.
RemoveOnlyMagic(p) ==
  /\ pc[p] = "restored"
  /\ WriteCells(io[p].off :> Zero)
  /\ Goto(p, "removed")
  /\ UNCHANGED <<disk_size, map_size, tx, io, locks, history, txns, faults>>

\* The head of an area beyond the old end, and the magic.
RemoveRecord(p) ==
  /\ pc[p] = "restored"
  /\ WriteCells((io[p].off :> Zero) @@ (IF io[p].eof <= io[p].off THEN 0 :> Zero ELSE <<>>))
  /\ Goto(p, "removed")
  /\ UNCHANGED <<disk_size, map_size, tx, io, locks, history, txns, faults>>

\* ftruncate to the old size.
Truncate(p) ==
  /\ pc[p] = "removed"
  /\ SetSize(io[p].eof, io[p].eof, <<>>)
  /\ map_size' = [map_size EXCEPT ![p] = io[p].eof]
  /\ Goto(p, "truncated")
  /\ UNCHANGED <<tx, io, locks, history, txns, faults>>

\* The second sync, and back to the caller.  A failed commit then cancels, which
\* sets map_size to what the transaction found.
RecoverReturns(p) ==
  /\ pc[p] = "truncated" /\ Sync
  /\ Recovered(p)
  /\ map_size' = IF tx[p] = NoTx THEN map_size
                 ELSE [map_size EXCEPT ![p] = tx[p].old_map_size]
------------------------------------------------------------------------------
Committing(p) == pc[p] \in {"head", "setup", "sync1", "magic", "sync2", "expand", "blocks",
                            "sync3", "clear", "sync4"}
Recovering(p) == pc[p] \in {"recover", "restore", "restored", "removed", "truncated"}

\* The head is not synced; a record that a commit left valid when it failed is overwritten
\* and not synced; a recovery has put back the page that its own record begins in.
HeadUnsynced == Cardinality(disk[0]) > 1
RecordTorn == LET head == file[0][1]
              IN /\ head # 0 /\ FileRead(file, head) # RECOVERY_MAGIC /\ RECOVERY_MAGIC \in disk[head]
                 /\ \E c \in head + 1 .. head + granted[head] - 1 : Cardinality(disk[c]) > 1
RecordRestored == \E p \in Procs : pc[p] = "restore" /\ file[io[p].off] # RECOVERY_MAGIC

\* A process is killed: its locks go, the file stays as it is.
Kill(p) ==
  /\ pc[p] # "closed" /\ faults < MaxFaults
  /\ faults' = faults + 1
  /\ Goto(p, "closed")
  /\ tx' = [tx EXCEPT ![p] = NoTx] /\ io' = [io EXCEPT ![p] = NoIo]
  /\ map_size' = [map_size EXCEPT ![p] = 0]
  /\ transaction_lock' = IF transaction_lock = p THEN NoProc ELSE transaction_lock
  /\ range_lock' = IF range_lock = p THEN NoProc ELSE range_lock
  /\ global_lock' = IF global_lock = p THEN NoProc ELSE global_lock
  /\ abandoned' = (abandoned \/ ((Committing(p) \/ Recovering(p))
                                 /\ \E q \in Procs \ {p} : pc[q] # "closed"))
  /\ record_lost' = (record_lost \/ RecordRestored)
  /\ UNCHANGED <<shared, committed, proposed, unopened, head_lost, granted, txns>>

\* The machine stops: of the writes since the last sync any may be lost.  The pages in an
\* area without the magic are not read by anybody, and not told apart.
Survivals(cells) ==
  LET Extend(c, fs) == {(c :> v) @@ f : v \in disk[c], f \in fs}
  IN FoldSet(Extend, {<<>>}, cells)
Outcomes(n) ==
  LET Within(cells) == cells \cap (0 .. n - 1)
      read == {0} \cup DOMAIN committed \cup DOMAIN proposed
                \cup UNION {{a, a + 1} : a \in DOMAIN granted}
      Pages(f) == IF FileRead(f, f[0][1]) = RECOVERY_MAGIC
                  THEN f[0][1] + RecHdr .. f[0][1] + granted[f[0][1]] - 1 ELSE {}
  IN UNION {{g @@ f @@ [c \in 0 .. n - 1 |-> FileRead(file, c)] :
               g \in Survivals(Within(Pages(f)))} : f \in Survivals(Within(read))}

Crash ==
  /\ faults < MaxFaults
  /\ faults' = faults + 1
  /\ \E n \in disk_size : \E f \in Outcomes(n) :
       /\ file' = f
       /\ disk' = [c \in Cells |-> IF c < n THEN {f[c]} ELSE {}]
       /\ disk_size' = {n}
  /\ pc' = [p \in Procs |-> "closed"] /\ map_size' = [p \in Procs |-> 0]
  /\ tx' = [p \in Procs |-> NoTx] /\ io' = [p \in Procs |-> NoIo]
  /\ transaction_lock' = NoProc /\ range_lock' = NoProc /\ global_lock' = NoProc
  /\ head_lost' = (head_lost \/ HeadUnsynced)
  /\ record_lost' = (record_lost \/ RecordTorn \/ RecordRestored)
  /\ UNCHANGED <<committed, proposed, abandoned, unopened, granted, txns>>

Client(p) == \/ Open(p) \/ Close(p) \/ Start(p) \/ StartNested(p) \/ Expand(p)
             \/ CancelCall(p) \/ Commit(p)
             \/ \E c \in Targets : Write(p, c)
CommitStep(p) == \/ CommitLocks(p) \/ Reuse(p) \/ Allocate(p) \/ AllocateFails(p)
                 \/ WriteHead(p) \/ WriteRecovery(p) \/ WriteRecoveryFails(p) \/ SetupFails(p)
                 \/ SyncRecovery(p) \/ SetMagic(p) \/ SyncMagic(p)
                 \/ CommitExpand(p) \/ CommitExpandFails(p) \/ WriteBlock(p)
                 \/ WriteBlockFails(p) \/ SyncData(p) \/ ClearMagic(p) \/ CommitReturns(p)
RecoverStep(p) == \/ RecoverReads(p) \/ RestoreEntry(p) \/ RestoreFails(p) \/ RestoreSync(p)
                  \/ RemoveRecord(p) \/ Truncate(p) \/ RecoverReturns(p)

Next == Crash \/ \E p \in Procs : Client(p) \/ CommitStep(p) \/ RecoverStep(p) \/ Kill(p)

Spec == Init /\ [][Next]_vars

Symmetry == Permutations(Procs)

\* A process that stays attached when another dies in a commit goes on in a
\* database that nobody recovers before the next open: out of scope.
InScope == ~abandoned
------------------------------------------------------------------------------
\* The types, and that the file seen is one that a crash may leave.
TypeOK ==
  /\ DOMAIN file = 0 .. Size(file) - 1 /\ Size(file) \in disk_size
  /\ \A c \in DOMAIN file : file[c] \in disk[c]
  /\ \A p \in Procs : tx[p].nesting \in -1 .. MaxNesting /\ map_size[p] \in Nat
  /\ {transaction_lock, range_lock, global_lock} \subseteq Procs \cup {NoProc}

\* Between commits the database is what the last successful commit made it, or what an
\* interrupted one was to make it, wherever in a commit or a recovery a process or the
\* machine stops, a write or a setup's sync fails or the disk is full
\* (tdb_transaction_commit, tdb_transaction_recover), with two exceptions that record_lost
\* names: the machine stops while a commit overwrites the valid record of one that failed
\* to expand or to sync, and a recovery is stopped after it has put back the page that its
\* own record begins in.
Atomic ==
  (/\ ~abandoned /\ ~record_lost
   /\ \E p \in Procs : pc[p] \notin {"closed", "recover"}
   /\ ~\E p \in Procs : Committing(p) \/ Recovering(p))
  => Matches(file, committed) \/ Matches(file, proposed)

\* "If the inner transaction is cancelled then a subsequent commit will fail":
\* such a transaction never gets as far as the recovery record.
NestedCancelFails == \A p \in Procs : tx[p].poisoned => pc[p] = "txn"

\* An open fails only after the machine has stopped between a write of the recovery head and
\* the next sync ("write the recovery header offset and sync", transaction.c:678, does not
\* sync), or with a record half overwritten: no kill, no failed commit and no other stop of
\* the machine takes away the "smooth crash recovery with no administrator intervention".
OpenSucceeds == unopened => head_lost \/ record_lost
============================================================================
