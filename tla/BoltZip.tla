------------------------------- MODULE BoltZip -------------------------------
(***************************************************************************)
(* The archive that repackage of sign_bolt_rdk.sh writes byte by byte: a   *)
(* local header, padding and the stored data of each file, then the        *)
(* central directory from the offsets noted in zip_entries.txt, then the   *)
(* end record.  Bytes are counted, not kept.  The notes are decimal text   *)
(* and hold numbers whole; a header holds what its fields leave of them.   *)
(***************************************************************************)
EXTENDS Naturals, Sequences

CONSTANTS
  FileLists,     \* the listings `find | sort -n` may produce
  OffsetLimit    \* the range of a 32-bit field: 2^32 in the code

File == [namelen : Nat \ {0}, size : Nat]

ASSUME ListsAssumption == FileLists \subseteq Seq(File)
ASSUME LimitAssumption == OffsetLimit \in Nat \ {0}

VARIABLES
  listing,   \* zip_files.txt
  length,    \* the bytes in output_path
  locals,    \* the local headers written, with the bytes that follow each
  entries,   \* zip_entries.txt
  central,   \* the headers of the central directory
  cdStart,   \* _cd_start
  end,       \* the end record
  stage

zipVars == <<listing, length, locals, entries, central, cdStart, end, stage>>

ALIGNMENT == 4096
LargeFile == 100000
LocalHeader == 30
CentralHeader == 46
EndHeader == 22

\* What write_u16 and write_u32 leave of a number.
U16(n) == n % 65536
U32(n) == n % OffsetLimit

\* The length fields of a file's local header.
LocalFields(f, padding) ==
  [namelen |-> U16(f.namelen), size |-> U32(f.size), extra |-> U16(padding)]

\* The fields of its header in the directory, from its note.
CentralFields(e) ==
  [offset |-> U32(e.offset), namelen |-> U16(e.file.namelen), size |-> U32(e.file.size)]

\* Mutant: the extra field may be shorter than its own header.
Padding_Short(offset, f) ==
  LET remainder == (offset + LocalHeader + f.namelen) % ALIGNMENT
  IN  IF f.size <= LargeFile \/ remainder = 0 THEN 0 ELSE ALIGNMENT - remainder

\* The bytes of the extra field that bring the data of a large file to a
\* boundary; its own header takes four of them.
Padding(offset, f) ==
  LET remainder == (offset + LocalHeader + f.namelen) % ALIGNMENT
      padding == IF remainder = 0 THEN 0 ELSE ALIGNMENT - remainder
  IN  IF f.size <= LargeFile THEN 0
      ELSE IF padding \in 1..3 THEN padding + ALIGNMENT ELSE padding

NoEnd == [count |-> 0, size |-> 0, start |-> 0]

ZipInit ==
  /\ listing \in FileLists
  /\ length = 0 /\ locals = <<>> /\ entries = <<>> /\ central = <<>>
  /\ cdStart = 0 /\ end = NoEnd /\ stage = "files"

\* Mutant: the entry is recorded after its data.
WriteFile_NotesEnd ==
  /\ stage = "files" /\ Len(locals) < Len(listing)
  /\ LET f == listing[Len(locals) + 1]
         padding == Padding(length, f)
     IN  /\ locals' = Append(locals, [at |-> length, header |-> LocalFields(f, padding),
                                     file |-> f, padding |-> padding])
         /\ length' = length + LocalHeader + f.namelen + padding + f.size
         /\ entries' = Append(entries, [offset |-> length', file |-> f])
  /\ UNCHANGED <<listing, central, cdStart, end, stage>>

\* The next file of the listing.
WriteFile ==
  /\ stage = "files" /\ Len(locals) < Len(listing)
  /\ LET f == listing[Len(locals) + 1]
         padding == Padding(length, f)
     IN  /\ locals' = Append(locals, [at |-> length, header |-> LocalFields(f, padding),
                                     file |-> f, padding |-> padding])
         /\ length' = length + LocalHeader + f.namelen + padding + f.size
         /\ entries' = Append(entries, [offset |-> length, file |-> f])
  /\ UNCHANGED <<listing, central, cdStart, end, stage>>

FilesWritten ==
  /\ stage = "files" /\ Len(locals) = Len(listing)
  /\ cdStart' = length /\ stage' = "central"
  /\ UNCHANGED <<listing, length, locals, entries, central, end>>

\* The next line of zip_entries.txt.
WriteCentral ==
  /\ stage = "central" /\ Len(central) < Len(entries)
  /\ LET e == entries[Len(central) + 1]
     IN  /\ central' = Append(central, [header |-> CentralFields(e), file |-> e.file])
         /\ length' = length + CentralHeader + e.file.namelen
  /\ UNCHANGED <<listing, locals, entries, cdStart, end, stage>>

\* _cd_end is the length before the end record.
WriteEnd ==
  /\ stage = "central" /\ Len(central) = Len(entries)
  /\ end' = [count |-> U16(Len(central)), size |-> U32(length - cdStart), start |-> U32(cdStart)]
  /\ length' = length + EndHeader /\ stage' = "done"
  /\ UNCHANGED <<listing, locals, entries, central, cdStart>>

ZipNext == WriteFile \/ FilesWritten \/ WriteCentral \/ WriteEnd

ZipSpec == ZipInit /\ [][ZipNext]_zipVars

-----------------------------------------------------------------------------
(* Properties.                                                             *)

\* What is kept of a local header and of a header of the directory.
LocalEntry == [at : Nat, header : [namelen : Nat, size : Nat, extra : Nat],
               file : File, padding : 0..(ALIGNMENT + 3)]
CentralEntry == [header : [offset : Nat, namelen : Nat, size : Nat], file : File]

\* The variables have their types, and no more than a boundary and its three
\* smallest remainders are spent on padding.
TypeOK ==
  /\ listing \in Seq(File)
  /\ {length, cdStart} \subseteq Nat
  /\ locals \in Seq(LocalEntry)
  /\ entries \in Seq([offset : Nat, file : File])
  /\ central \in Seq(CentralEntry)
  /\ end \in [count : Nat, size : Nat, start : Nat]
  /\ stage \in {"files", "central", "done"}

\* Where the data of a file was written, and where a reader that follows its
\* local header finds it and its end.
WrittenAt(l) == l.at + LocalHeader + l.file.namelen + l.padding
DataAt(l) == l.at + LocalHeader + l.header.namelen + l.header.extra
DataEnd(l) == DataAt(l) + l.header.size

\* A file whose name and size the fields of a header can hold.
Fits(f) == f.namelen < 65536 /\ f.size < OffsetLimit

\* A large file can be mounted in place: its data begins on a boundary, and the
\* extra field that puts it there is well formed (repackage, 682-718).
Mountable ==
  \A k \in 1..Len(locals) :
     /\ locals[k].file.size > LargeFile => WrittenAt(locals[k]) % ALIGNMENT = 0
     /\ locals[k].header.extra = 0 \/ locals[k].header.extra >= 4

\* There is no gap and no overlap: wherever the fields hold a file's lengths, they
\* lead to its data and from there to the next header, or after the last file to
\* the central directory, however large the files around it are (672-729).
Contiguous ==
  \A k \in 1..Len(locals) : Fits(locals[k].file) =>
     /\ DataAt(locals[k]) = WrittenAt(locals[k])
     /\ DataEnd(locals[k]) = IF k < Len(locals) THEN locals[k + 1].at
                             ELSE IF stage = "files" THEN length ELSE cdStart

\* Each header of the central directory is that of its own file, in the order of the
\* listing: the offset leads to the file's local header when it lies within the
\* range of the field, and the lengths are the file's when the fields hold them (733-763).
CentralFinds ==
  \A k \in 1..Len(central) :
     /\ k \in 1..Len(locals)
     /\ central[k].file = locals[k].file
     /\ locals[k].at < OffsetLimit => central[k].header.offset = locals[k].at
     /\ Fits(locals[k].file) => /\ central[k].header.namelen = locals[k].file.namelen
                                /\ central[k].header.size = locals[k].file.size

\* A reader that starts from the end record finds the directory in front of it, and in
\* it every file of the listing, each as far as its own field reaches (729-777).
EndFinds ==
  stage = "done" =>
    /\ Len(central) = Len(listing)
    /\ Len(listing) < 65536 => end.count = Len(listing)
    /\ cdStart < OffsetLimit => end.start = cdStart
    /\ (length - EndHeader) - cdStart < OffsetLimit =>
          cdStart + end.size + EndHeader = length

\* A reader finds every file the fields can describe: from the end record the directory,
\* from the directory each local header, from its lengths the data (671-777).
Readable == Contiguous /\ CentralFinds /\ EndFinds
=============================================================================
