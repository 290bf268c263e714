----------------------------- MODULE ImageWriter -----------------------------
(***************************************************************************)
(* AFF4Image in mode 'w' (lib/aff4_image.c) on top of ThreadPool: write    *)
(* collects bytes into bevies and schedules the full ones, the workers cut *)
(* each bevy into chunks and store it as a segment and an index segment of *)
(* the volume, close schedules the last bevy and joins the pool.           *)
(*                                                                         *)
(* The jobs of the pool are the segment numbers.  The bytes of the stream  *)
(* are numbered in the order in which write receives them.  A loop that    *)
(* keeps the global lock is cut into steps; MidSection says who is in the  *)
(* middle of one, and nobody else moves meanwhile.                         *)
(***************************************************************************)
EXTENDS ThreadPool, Integers

CONSTANTS ChunkSizes, ChunkCounts,     \* the chunk_size and chunks_in_segment a
                           \* caller may set before finish, 0 if it sets none
          DefaultChunk, DefaultChunks, \* 32k and 1024 in AFF4Image_finish
          Compressions,    \* the compressions a caller may choose
          CompressFails,   \* may compress2 return an error?
          WriteLengths,    \* the lengths the client writes
          MaxTotal         \* bound: the bytes the client writes in all

ASSUME ImageAssumption == /\ ChunkSizes \subseteq Nat /\ ChunkCounts \subseteq Nat
                          /\ DefaultChunk \in Nat \ {0}
                          /\ DefaultChunks \in Nat \ {0}
                          /\ Compressions \subseteq {"ZIP_STORED", "ZIP_DEFLATE"}
                          /\ CompressFails \in BOOLEAN
                          /\ Data = 0 .. Cardinality(Data) - 1

VARIABLES compression,    \* self->compression, set before finish
          parameters,     \* what the caller set before finish
          ipc,            \* where the client is in write or close
          left,           \* need_to_write
          segment_count,  \* self->segment_count, the number of self->current
          bevy,           \* the bytes collected in each bevy
          total,          \* history: the bytes the writes were given so far
          segment,        \* the segment and its index of each bevy
          file,           \* the segments in the order they were appended
          refused,        \* history: the bevies schedule returned 0 for
          failed          \* history: the bevies compress2 failed on

settings == <<compression, parameters>>
imageVars == <<settings, ipc, left, segment_count, bevy, total, segment, file, refused, failed>>
allVars == <<vars, imageVars>>

\* AFF4Image_finish: bevy_size is computed before the defaults are set.
bevy_size == parameters[1] * parameters[2]
chunk_size == IF parameters[1] = 0 THEN DefaultChunk ELSE parameters[1]
chunks_in_segment == IF parameters[2] = 0 THEN DefaultChunks ELSE parameters[2]

NoSegment == [state |-> "none", chunks |-> <<>>, index |-> <<>>, compressed_offset |-> 0]

ImageInit ==
  /\ PoolInit
  /\ compression \in Compressions /\ parameters \in ChunkSizes \X ChunkCounts
  /\ ipc = "idle" /\ left = 0 /\ segment_count = 0 /\ total = 0
  /\ bevy = [d \in Data |-> <<>>]
  /\ segment = [d \in Data |-> NoSegment]
  /\ file = <<>> /\ refused = {} /\ failed = {}

\* The loop condition of ImageWorker_run: chunk_offset < bevy->size.
ChunksLeft(d) == Len(segment[d].chunks) * chunk_size < Len(bevy[d])

Deflate == compression = "ZIP_DEFLATE"

\* A worker gives the lock up only to compress a chunk.
KeepsLock(w) == wpc[w] = "run" /\ ~(Deflate /\ ChunksLeft(job[w]))

\* The loop of write needs a bevy beyond the bound Data, as only the endless loop
\* of a bevy_size of 0 does; the client then waits for a place in the queue, over
\* and over.
BeyondBound == ipc = "write" /\ left > 0 /\ segment_count + 1 \notin Data

MidSection ==
  {w \in Workers : KeepsLock(w)}
    \cup (IF ipc \in {"write", "flushed"} /\ ~BeyondBound THEN {Main} ELSE {})

HasLock(t) == MidSection \subseteq {t}
------------------------------------------------------------------------------
\* The client calls write with a buffer of n bytes.
WriteCall(n) ==
  /\ HasLock(Main) /\ ipc = "idle" /\ total + n <= MaxTotal
  /\ ipc' = "write" /\ left' = n /\ total' = total + n
  /\ UNCHANGED <<vars, settings, segment_count, bevy, segment, file, refused, failed>>

\* One round of the loop: copy what fits, "offset += available_to_write".  When
\* bevy_size is 0 nothing fits, and the offset stays.
FillBevy ==
  LET available == bevy_size - Len(bevy[segment_count])
      n == IF left < available THEN left ELSE available
  IN /\ bevy' = [bevy EXCEPT ![segment_count] =
                   @ \o [i \in 1 .. n |-> total - left + i]]
     /\ left' = IF left < available THEN 0 ELSE left - available

\* Mutant: the bevy also goes to the pool at the end of each write.
WriteRoundFlushes ==
  /\ ipc = "write" /\ HasLock(Main) /\ left > 0
  /\ FillBevy
  /\ IF Len(bevy'[segment_count]) >= bevy_size \/ left' = 0
     THEN /\ segment_count + 1 \in Data
          /\ Schedule(segment_count)
          /\ IF wait'[Main] = "not_full"
             THEN ipc' = "write_wait" /\ UNCHANGED segment_count
             ELSE segment_count' = segment_count + 1 /\ UNCHANGED ipc
     ELSE UNCHANGED <<vars, ipc, segment_count>>
  /\ UNCHANGED <<settings, total, segment, file, refused, failed>>

\* The rest of the round: a full bevy goes to the pool, whatever schedule
\* returns, and a new one is begun.
WriteRound ==
  /\ ipc = "write" /\ HasLock(Main) /\ left > 0
  /\ FillBevy
  /\ IF Len(bevy'[segment_count]) >= bevy_size
     THEN /\ segment_count + 1 \in Data
          /\ Schedule(segment_count)
          /\ IF wait'[Main] = "not_full"
             THEN ipc' = "write_wait" /\ UNCHANGED segment_count
             ELSE segment_count' = segment_count + 1 /\ UNCHANGED ipc
     ELSE UNCHANGED <<vars, ipc, segment_count>>
  /\ UNCHANGED <<settings, total, segment, file, refused, failed>>

WriteResumes ==
  /\ ipc = "write_wait" /\ HasLock(Main) /\ ScheduleReturns
  /\ ipc' = "write" /\ segment_count' = segment_count + 1
  /\ refused' = IF wait[Main] = "timedout" THEN refused \cup {segment_count}
                ELSE refused
  /\ UNCHANGED <<settings, left, bevy, total, segment, file, failed>>

WriteReturns ==
  /\ ipc = "write" /\ left = 0
  /\ ipc' = "idle"
  /\ UNCHANGED <<vars, settings, left, segment_count, bevy, total, segment, file, refused, failed>>
------------------------------------------------------------------------------
\* Mutant: a bevy that is not full is not scheduled by close.
CloseCallFullOnly ==
  /\ HasLock(Main) /\ ipc = "idle"
  /\ IF Len(bevy[segment_count]) >= bevy_size THEN Schedule(segment_count)
     ELSE UNCHANGED vars
  /\ ipc' = IF wait'[Main] = "not_full" THEN "close_wait" ELSE "flushed"
  /\ UNCHANGED <<settings, left, segment_count, bevy, total, segment, file, refused, failed>>

\* AFF4Image_close: schedule the current bevy, full or not, then join.
CloseCall ==
  /\ HasLock(Main) /\ ipc = "idle"
  /\ Schedule(segment_count)
  /\ ipc' = IF wait'[Main] = "not_full" THEN "close_wait" ELSE "flushed"
  /\ UNCHANGED <<settings, left, segment_count, bevy, total, segment, file, refused, failed>>

CloseResumes ==
  /\ ipc = "close_wait" /\ HasLock(Main) /\ ScheduleReturns
  /\ ipc' = "flushed"
  /\ refused' = IF wait[Main] = "timedout" THEN refused \cup {segment_count}
                ELSE refused
  /\ UNCHANGED <<settings, left, segment_count, bevy, total, segment, file, failed>>

CloseJoin ==
  /\ ipc = "flushed" /\ Join /\ ipc' = "join"
  /\ UNCHANGED <<settings, left, segment_count, bevy, total, segment, file, refused, failed>>

CloseReturns ==
  /\ ipc = "join" /\ HasLock(Main) /\ JoinReturns /\ ipc' = "closed"
  /\ UNCHANGED <<settings, left, segment_count, bevy, total, segment, file, refused, failed>>

Client == \/ \E n \in WriteLengths : WriteCall(n)
          \/ WriteRound \/ WriteResumes \/ WriteReturns
          \/ CloseCall \/ CloseResumes \/ CloseJoin \/ CloseReturns
------------------------------------------------------------------------------
\* ImageWorker_run begins as soon as the worker has a job: it opens the two
\* members of the volume.
OpenSegments(w, segs) ==
  segment' = IF wpc'[w] = "run"
             THEN [segs EXCEPT ![job'[w]] = [NoSegment EXCEPT !.state = "open"]]
             ELSE segs

WorkerNext(w) ==
  /\ HasLock(w) /\ (WorkerGet(w) \/ WorkerTimedOut(w))
  /\ OpenSegments(w, segment)
  /\ UNCHANGED <<settings, ipc, left, segment_count, bevy, total, file, refused, failed>>

\* The bytes of the next chunk: chunk_size of them, or what is left.
NextChunk(d) ==
  LET first == Len(segment[d].chunks) * chunk_size + 1
      last == first + chunk_size - 1
  IN SubSeq(bevy[d], first, IF last < Len(bevy[d]) THEN last ELSE Len(bevy[d]))

\* What compress2 makes of the bytes of a chunk: some chunks get longer, some shorter.
CompressedLength(bytes) ==
  IF (bytes[1] \div chunk_size) % 2 = 0 THEN Len(bytes) + 1 ELSE Len(bytes) - 1

\* Mutant: the offset is advanced before it is recorded.
StoreChunkLate(s, bytes, c) ==
  [s EXCEPT !.index = Append(@, s.compressed_offset + c),
            !.chunks = Append(@, [bytes |-> bytes, clength |-> c]),
            !.compressed_offset = @ + c]

\* The offset goes to the index, the chunk of compressed length c to the segment.
StoreChunk(s, bytes, c) ==
  [s EXCEPT !.index = Append(@, s.compressed_offset),
            !.chunks = Append(@, [bytes |-> bytes, clength |-> c]),
            !.compressed_offset = @ + c]

\* One round of the loop: a chunk is stored as it is, or compressed without the
\* lock and then stored.
RunChunk(w) ==
  LET d == job[w]
      bytes == NextChunk(d)
  IN /\ HasLock(w) /\ wpc[w] = "run" /\ ChunksLeft(d)
     /\ LET c == IF Deflate THEN CompressedLength(bytes) ELSE Len(bytes)
        IN segment' = [segment EXCEPT ![d] = StoreChunk(@, bytes, c)]
     /\ UNCHANGED <<vars, settings, ipc, left, segment_count, bevy, total, file, refused, failed>>

\* Mutant: the index is closed by whoever comes next, not by this worker.
RunReturnsOpenIndex(w) ==
  LET d == job[w]
  IN /\ HasLock(w) /\ wpc[w] = "run" /\ ~ChunksLeft(d)
     /\ file' = Append(file, <<d, "data">>)
     /\ WorkerRun(w)
     /\ OpenSegments(w, [segment EXCEPT ![d].state = "closed"])
     /\ UNCHANGED <<settings, ipc, left, segment_count, bevy, total, refused, failed>>

\* After the last chunk both segments are closed, which appends them to the
\* volume, and the worker looks for its next job.
RunReturns(w) ==
  LET d == job[w]
  IN /\ HasLock(w) /\ wpc[w] = "run" /\ ~ChunksLeft(d)
     /\ file' = file \o << <<d, "data">>, <<d, "idx">> >>
     /\ WorkerRun(w)
     /\ OpenSegments(w, [segment EXCEPT ![d].state = "closed"])
     /\ UNCHANGED <<settings, ipc, left, segment_count, bevy, total, refused, failed>>

\* compress2 fails: run returns and leaves both segments open.
CompressError(w) ==
  /\ CompressFails /\ Deflate
  /\ HasLock(w) /\ wpc[w] = "run" /\ ChunksLeft(job[w])
  /\ WorkerRun(w)
  /\ OpenSegments(w, segment)
  /\ failed' = failed \cup {job[w]}
  /\ UNCHANGED <<settings, ipc, left, segment_count, bevy, total, file, refused>>

ImageWorker(w) ==
  WorkerNext(w) \/ RunChunk(w) \/ RunReturns(w) \/ CompressError(w)

ImageWake(t) == Wake(t) /\ UNCHANGED imageVars

ImageDone == (ipc = "closed" \/ BeyondBound) /\ UNCHANGED allVars

ImageNext == \/ Client
             \/ \E w \in Workers : ImageWorker(w)
             \/ \E t \in Threads : ImageWake(t)
             \/ ImageDone

ImageSpec == ImageInit /\ [][ImageNext]_allVars

\* The operating system runs every thread that can run and jobs return.  A thread that
\* waits again and again is not woken without a reason each time before its deadline.
\* The lock is handed to a worker that asks for it again and again, also while the client
\* makes one call after the other; a client that is inside write or close goes on, and
\* nothing forces it to make another call.
ImageFairness ==
  /\ \A w \in Workers : SF_allVars(ImageWorker(w))
  /\ \A t \in Threads : SF_allVars(Timeout(t) /\ UNCHANGED <<poolVars, imageVars>>)
  /\ WF_allVars(ipc # "idle" /\ Client)

FairImageSpec == ImageSpec /\ ImageFairness
------------------------------------------------------------------------------
Segment == [state : {"none", "open", "closed"}, compressed_offset : Nat,
            chunks : Seq([bytes : Seq(1 .. MaxTotal), clength : Nat]),
            index : Seq(Nat)]

ImageTypeOK ==
  /\ PoolTypeOK /\ compression \in Compressions /\ parameters \in ChunkSizes \X ChunkCounts
  /\ ipc \in {"idle", "write", "write_wait", "close_wait", "flushed", "join", "closed"}
  /\ left \in Nat /\ segment_count \in Data /\ total \in 0 .. MaxTotal
  /\ bevy \in [Data -> Seq(1 .. MaxTotal)]
  /\ segment \in [Data -> Segment]
  /\ file \in Seq(Data \X {"data", "idx"})
  /\ refused \subseteq Data /\ failed \subseteq Data

\* The bytes of the stream that belong in bevy d, by their position.
Slice(d) ==
  LET last == (d + 1) * bevy_size
      received == total - left
  IN [i \in 1 .. (IF last < received THEN bevy_size
                  ELSE IF d * bevy_size < received THEN received - d * bevy_size
                  ELSE 0) |-> d * bevy_size + i]

Flatten(chunks) ==
  LET cat[k \in 0 .. Len(chunks)] ==
        IF k = 0 THEN <<>> ELSE cat[k - 1] \o chunks[k].bytes
  IN cat[Len(chunks)]

\* A segment that has been closed holds the bytes of its place in the stream,
\* cut into chunks of chunk_size, and its index holds for each chunk the sum of
\* the compressed lengths before it, which is what _partial_read seeks to.
\* Between the bytes and the segment are write's loop over bevies, the queue,
\* and a worker that gives the lock up for every chunk (aff4_image.c:78-119).
BevyIntact ==
  ImageTypeOK /\
  \A d \in Data : segment[d].state = "closed" =>
    LET s == segment[d]
    IN /\ Flatten(s.chunks) = Slice(d)
       /\ \A k \in 1 .. Len(s.chunks) - 1 : Len(s.chunks[k].bytes) = chunk_size
       /\ Len(s.index) = Len(s.chunks)
       /\ \A k \in 1 .. Len(s.index) :
            s.index[k] = SumFunctionOnSet([j \in 1 .. k |-> s.chunks[j].clength], 1 .. k - 1)

\* The volume file is a sequence of whole bevies: each segment is followed by
\* its own index, once, whatever other workers do (both are closed in one
\* stretch of the lock, aff4_image.c:118-119), and it has those bevies that are
\* closed.
FilePairs ==
  /\ Len(file) % 2 = 0
  /\ \A i \in 1 .. Len(file) \div 2 : /\ file[2 * i - 1] = <<file[2 * i][1], "data">>
                                      /\ file[2 * i][2] = "idx"
  /\ IsInjective(file)
  /\ {d \in Data : segment[d].state = "closed"} = {file[i][1] : i \in DOMAIN file}

\* When close has returned, a bevy is missing from the volume only if schedule
\* refused it, compress2 failed on it, or it was left in the queue because every
\* worker had timed out when join was called.
MissingAccounted ==
  ipc = "closed" =>
    \A d \in 0 .. segment_count :
      \/ segment[d].state = "closed"
      \/ d \in refused \cup failed
      \/ d \in Range(items) /\ idleAtJoin

\* With both parameters set, every bevy that write has filled has the size they
\* say, however the bytes came in.  With one of them unset, which finish replaces
\* by a "sensible default" only after it has computed bevy_size from it
\* (aff4_image.c:140, 149-161), no byte ever reaches a bevy: the first write of
\* more than nothing keeps scheduling empty bevies and does not return.
FullBevies ==
  IF bevy_size # 0
  THEN \A d \in Data : d < segment_count => Len(bevy[d]) = chunk_size * chunks_in_segment
  ELSE /\ \A d \in Data : bevy[d] = <<>>
       /\ total > 0 => ipc \in {"write", "write_wait"} /\ left = total

\* Every write and every close of an image whose bevies have a size returns:
\* schedule gives up at its deadline, and the workers see that the pool is not
\* active.
CallsReturn == (ipc # "idle" /\ 0 \notin Range(parameters)) ~> (ipc \in {"idle", "closed"})
==============================================================================
