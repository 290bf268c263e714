------------------------------ MODULE ZipVolume ------------------------------
(***************************************************************************)
(* ZipFile and ZipSegment (lib/aff4_zip.c): a volume that is written,      *)
(* closed, opened again, appended to and read, by a process that may die.  *)
(*                                                                         *)
(* The file is the sequence of the records appended to it.  Records have   *)
(* their length in bytes and are found by their offset.  A content is      *)
(* named by its stored length, so two contents have different lengths.  A  *)
(* name has an escaped and a raw form, different for the names in Escaped. *)
(***************************************************************************)
EXTENDS Integers, Sequences, FiniteSets, Functions

CONSTANTS Names, Escaped,  \* member names, those that escape_filename changes
          Contents,        \* what is written to a member, by its stored length
          NoContent,
          BUFF_SIZE, ZIP64_LIMIT,
          UrnLength,       \* strlen of a volume's URN
          MaxSessions,     \* bound: how often the volume is opened for writing
          MaxFile,         \* bound: records in the file
          Crashes,         \* may the process die?
          SharedReader     \* is the volume also open for reading meanwhile?

ASSUME ZipAssumption == /\ Escaped \subseteq Names
                        /\ Contents \subseteq Nat /\ NoContent \notin Contents
                        /\ BUFF_SIZE \in Nat /\ ZIP64_LIMIT \in Nat
                        /\ UrnLength \in Nat /\ MaxSessions \in Nat

VARIABLES file,      \* the backing store
          mode,      \* of the open ZipFile object: "r", "w" or "none"
          members,   \* self->members
          urn,       \* of the open object: [id, length], or NoUrn
          sessions,  \* how often it was opened for writing
          committed, \* history: content of the members of completed closes
          fresh,     \* history: the members written before the last of them
          orphaned,  \* history: was it opened to append with its end out of reach?
          dropped    \* history: the members that had been read when they were
                     \* last to be listed by a close

vars == <<file, mode, members, urn, sessions, committed, fresh, orphaned, dropped>>

NoUrn == [id |-> 0, length |-> 0]

Init == /\ file = <<>> /\ mode = "none" /\ members = <<>> /\ urn = NoUrn
        /\ sessions = 0
        /\ committed = [n \in Names |-> NoContent] /\ fresh = {}
        /\ orphaned = FALSE /\ dropped = {}
------------------------------------------------------------------------------
\* sizeof of ZipFileHeader, CDFileHeader, EndCentralDirectory, Zip64EndCD with
\* Zip64CDLocator, of the data descriptor, and of the zip64 extra field.
HeaderSize == 30
CDSize == 46
EndSize == 22
Zip64Size == 56 + 20
DescriptorSize == 16
ExtraSize == 12
Huge == 2 * ZIP64_LIMIT + 1  \* the 32 bit value -1, for the limit that the code has

\* segment_name_from_URN and unescape_filename.
EscapedName(n) == <<n, IF n \in Escaped THEN "escaped" ELSE "raw">>
RawName(n) == <<n, "raw">>
NameLength(name) == IF name[2] = "escaped" THEN 10 ELSE 8

Size(f) == SumFunctionOnSet([i \in DOMAIN f |-> f[i].length], DOMAIN f)
OffsetOf(f, i) == SumFunctionOnSet([j \in DOMAIN f |-> f[j].length], 1 .. i - 1)

\* The number of the record that begins at an offset, 0 if none does.
RecordAt(f, offset) ==
  LET here == {i \in DOMAIN f : OffsetOf(f, i) = offset}
  IN IF here = {} THEN 0 ELSE CHOOSE i \in here : TRUE
------------------------------------------------------------------------------
(* find_EndCentralDirectory: read BUFF_SIZE - 4 bytes from BUFF_SIZE before *)
(* the end, or from the start if that fails, and look backwards for the     *)
(* magic, down to the second byte.                                          *)
WindowStart(f) == IF Size(f) >= BUFF_SIZE THEN Size(f) - BUFF_SIZE ELSE 0

WindowEnd(f) == LET end == WindowStart(f) + BUFF_SIZE - 4
                IN IF end < Size(f) THEN end ELSE Size(f)

\* Mutant: the first record in the window is taken, not the last.
FindEndFirst(f) ==
  LET seen == {i \in DOMAIN f : /\ f[i].kind = "end"
                                /\ OffsetOf(f, i) > WindowStart(f)
                                /\ OffsetOf(f, i) + 4 <= WindowEnd(f)}
  IN IF seen = {} THEN 0 ELSE CHOOSE i \in seen : \A j \in seen : i <= j

\* The record found, 0 if none: the last magic counts, and the record behind it
\* has to be in the window too.
FindEnd(f) ==
  LET seen == {i \in DOMAIN f : /\ f[i].kind = "end"
                                /\ OffsetOf(f, i) > WindowStart(f)
                                /\ OffsetOf(f, i) + 4 <= WindowEnd(f)}
      last == CHOOSE i \in seen : \A j \in seen : j <= i
  IN IF seen = {} THEN 0
     ELSE IF OffsetOf(f, last) + EndSize <= WindowEnd(f) THEN last ELSE 0

\* Mutant: the terminating NUL is taken for a character of the URN.
CommentUrnWithNul(f, i) ==
  LET got == WindowEnd(f) - OffsetOf(f, i) - EndSize
  IN [id |-> f[i].urn.id,
      length |-> IF got < f[i].urn.length + 1 THEN got ELSE f[i].urn.length + 1]

\* The URN is what the window has of the comment, if that begins as a URN does.
CommentUrn(f, i) ==
  LET got == WindowEnd(f) - OffsetOf(f, i) - EndSize
      length == IF got < f[i].urn.length THEN got ELSE f[i].urn.length
  IN IF f[i].urn.length + 1 > 4 /\ length >= 7
     THEN [id |-> f[i].urn.id, length |-> length] ELSE NoUrn

\* The records that may be taken to say where the central directory is, 0 for none.  A
\* zip64 locator is read from just before offset 2^32 - 1.  Past the end of the file the
\* variable keeps what was on the stack: junk, or what write_zip64_CD has left there, the
\* locator of a zip64 record; in a longer file any such locator may be at that place.
FindDirectory(f) ==
  LET i == FindEnd(f)
  IN IF i = 0 \/ f[i].offset_of_cd # Huge THEN {i}
     ELSE {0} \cup {z \in DOMAIN f : f[z].kind = "zip64"}

(* load_entry_from_CD: an entry, or nothing if there is none at this place. *)
(* The extra field is not skipped.                                          *)
LoadEntry(f, at) ==
  LET i == RecordAt(f, at)
  IN IF i # 0 /\ f[i].kind = "cd"
     THEN [next |-> at + CDSize + f[i].name_length,
           found |-> << [name |-> f[i].name[1], filename |-> RawName(f[i].name[1]),
                         length |-> NameLength(RawName(f[i].name[1])),
                         cd_name_length |-> f[i].name_length,
                         offset |-> f[i].offset, buffer |-> "none", mode |-> "r",
                         content |-> f[i].content] >>]
     ELSE [next |-> at + CDSize, found |-> <<>>]

\* ZipFile_load_from_backing_store.  The offset is returned and kept as an int: 0 stands for
\* an error, and seek goes to the start of the file for a negative one.
AsInt(offset) == LET low == offset % (Huge + 1)
                 IN IF low > ZIP64_LIMIT THEN low - (Huge + 1) ELSE low
LoadMembers(f, e) ==
  LET directory_offset == IF e = 0 THEN 0 ELSE AsInt(f[e].offset_of_cd)
      start == IF directory_offset < 0 THEN 0 ELSE directory_offset
      n == IF directory_offset = 0 THEN 0 ELSE f[e].entries
      load[k \in 0 .. n] ==
        IF k = 0 THEN [next |-> start, found |-> <<>>]
        ELSE LET entry == LoadEntry(f, load[k - 1].next)
             IN [next |-> entry.next, found |-> load[k - 1].found \o entry.found]
  IN load[n].found
------------------------------------------------------------------------------
LastEnd == LET ends == {i \in DOMAIN file : file[i].kind = "end"}
           IN IF ends = {} THEN 0 ELSE CHOOSE i \in ends : \A j \in ends : j <= i

\* The last end record is in the window, and says where the directory is.
EndInReach == /\ LastEnd # 0 /\ Size(file) - OffsetOf(file, LastEnd) < BUFF_SIZE
              /\ file[LastEnd].offset_of_cd # Huge

\* ZipFile_finish: a missing file is created in mode 'w' only; a volume whose
\* URN is not in the file gets a new one.  That the directory could not be
\* loaded is ignored: the volume then has no members.
Open(m) ==
  /\ mode = "none"
  /\ m = "w" => sessions < MaxSessions
  /\ m = "r" => sessions > 0
  /\ mode' = m
  /\ sessions' = IF m = "w" THEN sessions + 1 ELSE sessions
  /\ \E e \in FindDirectory(file) : members' = LoadMembers(file, e)
  /\ urn' = LET e == FindEnd(file)
                found == IF e = 0 THEN NoUrn ELSE CommentUrn(file, e)
            IN IF found = NoUrn THEN [id |-> sessions', length |-> UrnLength] ELSE found
  /\ orphaned' = (orphaned \/ (m = "w" /\ LastEnd # 0 /\ ~EndInReach))
  /\ UNCHANGED <<file, committed, fresh, dropped>>

\* ZipFile_open_member: the first member whose file name is the escaped name.
FoundMember(n) ==
  LET same == {i \in DOMAIN members : members[i].filename = EscapedName(n)}
  IN IF same = {} THEN 0 ELSE CHOOSE i \in same : \A j \in same : i <= j

\* open_member in mode 'w' for a new name, then write.
CreateMember(n, c) ==
  /\ mode = "w" /\ FoundMember(n) = 0 /\ Len(file) + Len(members) < MaxFile
  /\ members' = Append(members,
       [name |-> n, filename |-> EscapedName(n),
        length |-> NameLength(EscapedName(n)) + 1, cd_name_length |-> 0,
        offset |-> 0, buffer |-> "open", mode |-> "w", content |-> c])
  /\ UNCHANGED <<file, mode, urn, sessions, committed, fresh, orphaned, dropped>>

LocalRecord(s) ==
  [kind |-> "local", name |-> s.filename, name_length |-> s.length,
   content |-> s.content,
   length |-> HeaderSize + s.length + s.content + DescriptorSize]

\* Mutant: the offset is the end of the record.
CloseMemberLate(i) ==
  /\ mode = "w" /\ members[i].mode = "w" /\ members[i].buffer = "open"
  /\ file' = Append(file, LocalRecord(members[i]))
  /\ members' = [members EXCEPT ![i].offset = Size(file'), ![i].buffer = "none"]
  /\ UNCHANGED <<mode, urn, sessions, committed, fresh, orphaned, dropped>>

\* ZipSegment_close: append the local record.
CloseMember(i) ==
  /\ mode = "w" /\ members[i].mode = "w" /\ members[i].buffer = "open"
  /\ file' = Append(file, LocalRecord(members[i]))
  /\ members' = [members EXCEPT ![i].offset = Size(file), ![i].buffer = "none"]
  /\ UNCHANGED <<mode, urn, sessions, committed, fresh, orphaned, dropped>>

\* decompress_segment: compare the local record with the directory entry.
ReadsAs(s) ==
  LET i == RecordAt(file, s.offset)
  IN IF /\ i # 0 /\ file[i].kind = "local"
        /\ file[i].name_length = s.cd_name_length
        /\ file[i].name = s.filename
     THEN file[i].content ELSE NoContent

\* Reading a member of a volume that is open for writing needs the object of
\* the volume that is open for reading; the data stays in self->buffer.
ReadMember(i) ==
  /\ mode = "w" /\ SharedReader /\ members[i].buffer = "none"
  /\ ReadsAs(members[i]) # NoContent
  /\ members' = [members EXCEPT ![i].buffer = "cached"]
  /\ UNCHANGED <<file, mode, urn, sessions, committed, fresh, orphaned, dropped>>
------------------------------------------------------------------------------
\* Mutant: the length in the entry does not count the NUL of the name.
EntryWithoutNul(s) ==
  [kind |-> "cd", name |-> s.filename, name_length |-> s.length - 1,
   offset |-> IF s.offset > ZIP64_LIMIT THEN Huge ELSE s.offset,
   content |-> s.content, length |-> CDSize + s.length]

\* ZipFile_close: an entry for each member that has no buffer, then the end
\* record with the URN as comment, all appended.
Entry(s) ==
  [kind |-> "cd", name |-> s.filename, name_length |-> s.length,
   offset |-> IF s.offset > ZIP64_LIMIT THEN Huge ELSE s.offset,
   content |-> s.content, length |-> CDSize + s.length]

Extra(s) == [kind |-> "extra", length |-> ExtraSize]

Directory(ms) ==
  LET Records(s) == IF s.buffer # "none" THEN <<>>
                    ELSE IF s.offset > ZIP64_LIMIT THEN <<Entry(s), Extra(s)>>
                    ELSE <<Entry(s)>>
      cat[k \in 0 .. Len(ms)] == IF k = 0 THEN <<>> ELSE cat[k - 1] \o Records(ms[k])
  IN cat[Len(ms)]

EndRecords(start, entries) ==
  LET end == [kind |-> "end", entries |-> entries % 65536, urn |-> urn,
              offset_of_cd |-> IF start > ZIP64_LIMIT THEN Huge ELSE start,
              length |-> EndSize + urn.length + 1]
  IN IF start > ZIP64_LIMIT
     THEN << [kind |-> "zip64", entries |-> entries % 65536, offset_of_cd |-> start,
              length |-> Zip64Size], end >>
     ELSE << end >>

Closed == {i \in DOMAIN members : members[i].buffer = "none"}

\* The members that ZipSegment_close has written in this session.
Written == {i \in DOMAIN members : members[i].mode = "w" /\ members[i].buffer # "open"}

Close ==
  /\ mode # "none"
  /\ mode' = "none" /\ members' = <<>> /\ urn' = NoUrn
  /\ IF mode = "r" THEN UNCHANGED <<file, committed, fresh, dropped>>
     ELSE /\ file' = file \o Directory(members)
                          \o EndRecords(Size(file), Cardinality(Closed))
          /\ fresh' = {members[i].name : i \in Written}
          /\ committed' = [n \in Names |->
               IF n \notin fresh' THEN committed[n]
               ELSE members[CHOOSE i \in Written : members[i].name = n].content]
          /\ dropped' = (dropped \ fresh') \cup
               {members[i].name : i \in {j \in DOMAIN members : members[j].buffer = "cached"}}
  /\ UNCHANGED <<sessions, orphaned>>

\* The process dies: between two calls, between two writes of ZipSegment_close,
\* or between two writes of ZipFile_close, which flushes whole entries.
TornLengths(s) ==
  LET named == HeaderSize + s.length
      data == named + s.content
  IN {HeaderSize, named} \cup {data + k : k \in {0, 4, 8, 12}}

Crash ==
  /\ Crashes /\ mode = "w"
  /\ mode' = "none" /\ members' = <<>> /\ urn' = NoUrn
  /\ \/ UNCHANGED file
     \/ \E i \in DOMAIN members :
          /\ members[i].buffer = "open"
          /\ \E k \in TornLengths(members[i]) :
               file' = Append(file, [kind |-> "torn", length |-> k])
     \/ \E k \in 1 .. Len(Directory(members)) :
          file' = file \o SubSeq(Directory(members), 1, k)
  /\ Len(file') <= MaxFile
  /\ UNCHANGED <<sessions, committed, fresh, orphaned, dropped>>

Next == \/ \E m \in {"r", "w"} : Open(m)
        \/ \E n \in Names, c \in Contents : CreateMember(n, c)
        \/ \E i \in DOMAIN members : CloseMember(i) \/ ReadMember(i)
        \/ Close
        \/ Crash

Spec == Init /\ [][Next]_vars
------------------------------------------------------------------------------
Urn == [id : 0 .. MaxSessions, length : 0 .. UrnLength]

Segment == [name : Names, filename : Names \X {"raw", "escaped"}, length : Nat,
            cd_name_length : Nat, offset : Nat, mode : {"r", "w"},
            buffer : {"none", "open", "cached"}, content : Contents]

TypeOK == /\ \A i \in DOMAIN file : file[i].length \in Nat \ {0}
          /\ mode \in {"none", "r", "w"}
          /\ members \in Seq(Segment)
          /\ urn \in Urn /\ sessions \in 0 .. MaxSessions
          /\ committed \in [Names -> Contents \cup {NoContent}]
          /\ fresh \subseteq Names /\ dropped \subseteq Names
          /\ orphaned \in BOOLEAN

\* A member that is not being written points at its own record in the file,
\* whether it was closed in this session or loaded from a directory that was
\* written sessions ago, with appends and crashes in between.  The exception is a
\* loaded member whose offset is past the 32 bit limit: the extra field that has it
\* is not parsed (aff4_zip.c:593-595).
MembersPointAtRecords ==
  TypeOK /\
  \A i \in DOMAIN members : members[i].buffer # "open" /\ members[i].offset # Huge =>
    LET r == RecordAt(file, members[i].offset)
    IN /\ r # 0 /\ file[r].kind = "local"
       /\ file[r].name[1] = members[i].name /\ file[r].content = members[i].content

\* Whatever has happened since, a volume that is opened for reading lists every
\* member of every completed close, except in two cases.  The end record was out
\* of the window, or its directory past the 32 bit limit, when the volume was
\* opened to append: ZipFile_finish ignores that nothing was loaded, and the next
\* close writes a directory without the members.  Or the member had been read
\* while the volume was open for writing: ZipFile_close takes a member with a
\* buffer for one that is still open (aff4_zip.c:757-758).
Listed ==
  (mode = "r" /\ EndInReach /\ ~orphaned) =>
    \A n \in Names \ dropped : committed[n] # NoContent =>
      \E i \in DOMAIN members : members[i].name = n /\ members[i].content = committed[n]

\* A volume that is open for reading gives back what was written to every
\* member before the last close ("This method opens an existing member or
\* creates a new one. We return a file like object which may be used to read
\* and write the member", include/aff4_io.h:141-143).
ReadBack ==
  mode = "r" => \A n \in Names : committed[n] # NoContent =>
    FoundMember(n) # 0 /\ ReadsAs(members[FoundMember(n)]) = committed[n]

\* The members written in the session of the last completed close read back,
\* whatever sessions were completed before it and whatever crashes came after
\* it, if their names need no escape and nobody has read them before the close.
FreshReadBack ==
  (mode = "r" /\ EndInReach) => \A n \in fresh \ (Escaped \cup dropped) :
    FoundMember(n) # 0 /\ ReadsAs(members[FoundMember(n)]) = committed[n]

\* A volume keeps its URN ("We expect the comment field to be exactly a URN. If it is we
\* can update our notion of the URN to be the same as that", aff4_zip.c:484-486) through
\* all sessions in which its end was found.  In a file of BUFF_SIZE - 2 bytes or more the
\* window may end before the URN does, by three characters at most: what it has lost then
\* is lost for good, and each session may take three more.  An end record at offset 0, of a
\* volume without members, is never looked at.
UrnKept ==
  LET ends == {i \in DOMAIN file : file[i].kind = "end" /\ OffsetOf(file, i) > 0}
      first == file[CHOOSE i \in ends : \A j \in ends : i <= j].urn
  IN (mode # "none" /\ ends # {} /\ EndInReach /\ ~orphaned) =>
       /\ urn.id = first.id
       /\ first.length - urn.length \in
            0 .. IF Size(file) < BUFF_SIZE - 2 THEN 0 ELSE 3 * Cardinality(ends)
==============================================================================
