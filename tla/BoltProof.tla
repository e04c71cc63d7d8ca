------------------------------- MODULE BoltProof -------------------------------
(***************************************************************************)
(* Proofs about sign_bolt_rdk.sh.                                          *)
(*                                                                         *)
(* Its archive writer (BoltZip), for any listings and any field width: the *)
(* inductive invariant is that the notes in zip_entries.txt are those of   *)
(* the local headers, in order, and that the directory copies the notes.   *)
(*                                                                         *)
(* Its signing (BoltSign), for any packages, any calls and any number of   *)
(* runs: the inductive invariant follows a package from the list through   *)
(* the documents made for it to the archive, and says of each package that *)
(* was finished that it is still there or gives way to one of its name.    *)
(***************************************************************************)
EXTENDS BoltZip, BoltSign, FiniteSetTheorems, TLAPS

\* The notes follow the local headers, which are those of the listing, in order.
Noted ==
  /\ Len(entries) = Len(locals) /\ Len(locals) <= Len(listing)
  /\ stage # "files" => Len(locals) = Len(listing)
  /\ \A k \in 1..Len(locals) :
        /\ entries[k].offset = locals[k].at
        /\ entries[k].file = locals[k].file
        /\ locals[k].header = LocalFields(locals[k].file, locals[k].padding)
        /\ locals[k].at <= length

\* The files lie one behind the other, whatever their headers can say of them.
WrittenEnd(l) == WrittenAt(l) + l.file.size
Laid ==
  /\ locals # <<>> => locals[1].at = 0
  /\ \A k \in 1..(Len(locals) - 1) : WrittenEnd(locals[k]) = locals[k + 1].at
  /\ (IF locals = <<>> THEN 0 ELSE WrittenEnd(locals[Len(locals)]))
       = IF stage = "files" THEN length ELSE cdStart

\* The directory is a copy of the notes, cut to the fields.
Copied ==
  /\ Len(central) <= Len(entries)
  /\ stage = "files" => Len(central) = 0
  /\ stage = "done" => Len(central) = Len(entries)
  /\ \A k \in 1..Len(central) :
        /\ central[k].header = CentralFields(entries[k])
        /\ central[k].file = entries[k].file

\* The directory is written behind the files, and the end record behind both.
EndWritten ==
  /\ stage = "central" => cdStart <= length
  /\ stage = "done" =>
       /\ cdStart + EndHeader <= length
       /\ end.count = U16(Len(central))
       /\ end.size = U32((length - EndHeader) - cdStart)
       /\ end.start = U32(cdStart)

ZipInv == TypeOK /\ Mountable /\ Laid /\ Noted /\ Copied /\ EndWritten

-----------------------------------------------------------------------------
\* What a sequence over a set holds.
LEMMA ElementIn ==
  ASSUME NEW S, NEW s \in Seq(S), NEW k \in 1..Len(s)
  PROVE  s[k] \in S
  OBVIOUS

\* A number that fits a field is what is written to it.
LEMMA FieldHolds ==
  ASSUME NEW n \in Nat \ {0}, NEW x \in Nat
  PROVE  x % n \in Nat /\ (x < n => x % n = x)
  BY SMT

\* The padding brings the data of a large file to a boundary, is no longer than
\* its field can say, and is never shorter than its own header.
LEMMA PaddingAligns ==
  ASSUME NEW offset \in Nat, NEW f \in File
  PROVE  /\ Padding(offset, f) \in 0..(ALIGNMENT + 3)
         /\ U16(Padding(offset, f)) = Padding(offset, f)
         /\ Padding(offset, f) = 0 \/ Padding(offset, f) >= 4
         /\ f.size > LargeFile =>
              (offset + LocalHeader + f.namelen + Padding(offset, f)) % ALIGNMENT = 0
<1> DEFINE data == offset + LocalHeader + f.namelen
<1>1. data \in Nat /\ f.size \in Nat
  BY DEF File, LocalHeader
<1> DEFINE remainder == data % 4096
<1> DEFINE padding == IF remainder = 0 THEN 0 ELSE 4096 - remainder
<1> DEFINE wide == IF padding \in 1..3 THEN padding + 4096 ELSE padding
<1>2. wide \in 0..4099 /\ wide % 65536 = wide /\ (wide = 0 \/ wide >= 4)
      /\ (data + wide) % 4096 = 0
  <2> HIDE DEF data
  <2> QED BY <1>1, SMT
<1>3. Padding(offset, f) = IF f.size <= LargeFile THEN 0 ELSE wide
  BY DEF Padding, ALIGNMENT
<1>4. CASE f.size <= LargeFile
  <2> HIDE DEF data, wide
  <2> QED BY <1>1, <1>3, <1>4 DEF U16, ALIGNMENT, LargeFile
<1>5. CASE ~(f.size <= LargeFile)
  <2> HIDE DEF wide
  <2> QED BY <1>1, <1>2, <1>3, <1>5 DEF U16, ALIGNMENT
<1>6. QED
  BY <1>4, <1>5

\* Initially the archive is empty.
LEMMA InitZip == ZipInit => ZipInv
<1> SUFFICES ASSUME ZipInit PROVE ZipInv
  OBVIOUS
<1>1. TypeOK
  BY ListsAssumption DEF ZipInit, TypeOK, NoEnd
<1>2. Mountable /\ Laid
  BY DEF ZipInit, Mountable, Laid
<1>3. Noted /\ Copied /\ EndWritten
  BY <1>1 DEF ZipInit, Noted, Copied, EndWritten, TypeOK
<1>4. QED
  BY <1>1, <1>2, <1>3 DEF ZipInv

\* A file keeps the invariant: its header is at the end of what was written.
LEMMA FileStep ==
  ASSUME ZipInv, WriteFile
  PROVE  ZipInv'
<1> DEFINE n == Len(locals)
           f == listing[n + 1]
           padding == Padding(length, f)
           l == [at |-> length, header |-> LocalFields(f, padding), file |-> f, padding |-> padding]
           e == [offset |-> length, file |-> f]
<1>1. n \in Nat /\ n < Len(listing) /\ stage = "files" /\ length \in Nat /\ listing \in Seq(File)
  BY DEF ZipInv, TypeOK, WriteFile
<1>2. f \in File
  BY <1>1
<1>3. /\ padding \in 0..(ALIGNMENT + 3) /\ U16(padding) = padding
      /\ padding = 0 \/ padding >= 4
      /\ f.size > LargeFile => (length + LocalHeader + f.namelen + padding) % ALIGNMENT = 0
  BY <1>1, <1>2, PaddingAligns
<1> DEFINE newLength == length + LocalHeader + f.namelen + padding + f.size
<1>4. /\ locals' = Append(locals, l) /\ entries' = Append(entries, e)
      /\ length' = newLength
      /\ listing' = listing /\ central' = central /\ cdStart' = cdStart /\ end' = end /\ stage' = stage
  BY DEF WriteFile
<1>5. /\ f.namelen \in Nat /\ f.size \in Nat /\ padding \in Nat
      /\ newLength \in Nat /\ length <= newLength
  <2> HIDE DEF f, padding
  <2>1. f.namelen \in Nat /\ f.size \in Nat /\ padding \in Nat
    BY <1>2, <1>3 DEF File, ALIGNMENT
  <2>2. QED
    BY <1>1, <2>1 DEF LocalHeader, newLength
<1>6. l \in LocalEntry /\ e \in [offset : Nat, file : File]
  <2>1. U16(f.namelen) \in Nat /\ U16(padding) \in Nat /\ U32(f.size) \in Nat
    BY <1>5, LimitAssumption, FieldHolds DEF U16, U32
  <2>2. QED
    BY <2>1, <1>1, <1>2, <1>3 DEF LocalEntry, LocalFields
<1>7. /\ locals \in Seq(LocalEntry)
      /\ entries \in Seq([offset : Nat, file : File]) /\ central \in Seq(CentralEntry)
      /\ Len(entries) = n /\ Len(central) = 0
  BY <1>1 DEF ZipInv, TypeOK, Noted, Copied
<1>8. /\ l.at = length /\ l.file = f /\ l.padding = padding
      /\ l.header = LocalFields(f, padding) /\ l.header.extra = padding
      /\ e.offset = length /\ e.file = f
  BY <1>3 DEF LocalFields
<1> HIDE DEF l, e, f, padding, newLength
<1>9. /\ Len(locals') = n + 1 /\ Len(entries') = n + 1
      /\ \A k \in 1..n : locals'[k] = locals[k] /\ entries'[k] = entries[k]
      /\ locals'[n + 1] = l /\ entries'[n + 1] = e
  BY <1>1, <1>4, <1>6, <1>7
<1>10. TypeOK'
  BY <1>4, <1>5, <1>6, <1>7 DEF ZipInv, TypeOK
<1>11. WrittenAt(l) = length + LocalHeader + f.namelen + padding /\ WrittenEnd(l) = newLength
  BY <1>1, <1>5, <1>8 DEF WrittenAt, WrittenEnd, newLength, LocalHeader
<1>12. Mountable'
  <2> SUFFICES ASSUME NEW k \in 1..(n + 1)
               PROVE  /\ locals'[k].file.size > LargeFile => WrittenAt(locals'[k]) % ALIGNMENT = 0
                      /\ locals'[k].header.extra = 0 \/ locals'[k].header.extra >= 4
    BY <1>9 DEF Mountable, WrittenAt
  <2>1. CASE k = n + 1
    BY <2>1, <1>3, <1>8, <1>9, <1>11
  <2>2. CASE k # n + 1
    <3>1. k \in 1..n
      BY <2>2, <1>1
    <3>2. QED
      BY <3>1, <1>9 DEF ZipInv, Mountable
  <2>3. QED
    BY <2>1, <2>2
<1>13. Laid'
  <2>1. WrittenEnd(locals'[n + 1]) = length'
    BY <1>4, <1>9, <1>11
  <2>2. locals'[1].at = 0
    <3>1. CASE n = 0
      <4>1. locals = <<>>
        BY <3>1, <1>7
      <4>2. length = 0
        BY <4>1, <1>1 DEF ZipInv, Laid
      <4>3. QED
        BY <4>2, <3>1, <1>8, <1>9
    <3>2. CASE n # 0
      <4>1. locals # <<>>
        BY <3>2, <1>7
      <4>2. locals[1].at = 0
        BY <4>1 DEF ZipInv, Laid
      <4>3. 1 \in 1..n
        BY <3>2, <1>1
      <4>4. QED
        BY <4>2, <4>3, <1>9
    <3>3. QED
      BY <3>1, <3>2
  <2>3. ASSUME NEW k \in 1..n PROVE WrittenEnd(locals'[k]) = locals'[k + 1].at
    <3>1. CASE k = n
      <4>1. locals # <<>> /\ locals'[n] = locals[n]
        BY <3>1, <1>1, <1>7, <1>9
      <4>2. WrittenEnd(locals[n]) = length
        BY <4>1, <1>1 DEF ZipInv, Laid
      <4>3. QED
        BY <3>1, <4>1, <4>2, <1>8, <1>9
    <3>2. CASE k # n
      <4>1. k \in 1..(n - 1) /\ k + 1 \in 1..n
        BY <3>2, <1>1
      <4>2. WrittenEnd(locals[k]) = locals[k + 1].at
        BY <4>1 DEF ZipInv, Laid
      <4>3. QED
        BY <4>1, <4>2, <1>9
    <3>3. QED
      BY <3>1, <3>2
  <2>4. QED
    BY <2>1, <2>2, <2>3, <1>1, <1>4, <1>9 DEF Laid, WrittenEnd, WrittenAt
<1>14. Noted'
  <2> SUFFICES ASSUME NEW k \in 1..(n + 1)
               PROVE  /\ entries'[k].offset = locals'[k].at
                      /\ entries'[k].file = locals'[k].file
                      /\ locals'[k].header = LocalFields(locals'[k].file, locals'[k].padding)
                      /\ locals'[k].at <= length'
    BY <1>1, <1>4, <1>9 DEF Noted, LocalFields, U16, U32
  <2>1. CASE k = n + 1
    BY <2>1, <1>4, <1>5, <1>8, <1>9
  <2>2. CASE k # n + 1
    <3>1. k \in 1..n
      BY <2>2, <1>1
    <3>2. locals[k].at \in Nat /\ locals[k].at <= length
      <4>1. locals[k] \in LocalEntry
        BY <3>1, <1>7, ElementIn
      <4>2. locals[k].at <= length
        BY <3>1 DEF ZipInv, Noted
      <4>3. QED
        BY <4>1, <4>2 DEF LocalEntry
    <3>3. locals[k].at <= newLength
      BY <3>2, <1>1, <1>5
    <3>4. QED
      BY <3>1, <3>3, <1>4, <1>9 DEF ZipInv, Noted
  <2>3. QED
    BY <2>1, <2>2
<1>15. Copied' /\ EndWritten'
  BY <1>1, <1>4, <1>7, <1>9 DEF ZipInv, Copied, EndWritten
<1>16. QED
  BY <1>10, <1>12, <1>13, <1>14, <1>15 DEF ZipInv
\* The end of the listing: the directory begins where the files end.
LEMMA FilesWrittenStep ==
  ASSUME ZipInv, FilesWritten
  PROVE  ZipInv'
<1>1. /\ stage = "files" /\ stage' = "central" /\ cdStart' = length /\ Len(locals) = Len(listing)
      /\ listing' = listing /\ length' = length /\ locals' = locals
      /\ entries' = entries /\ central' = central /\ end' = end
  BY DEF FilesWritten
<1>2. TypeOK' /\ length \in Nat
  BY <1>1 DEF ZipInv, TypeOK
<1>3. Mountable' /\ Laid'
  BY <1>1 DEF ZipInv, Mountable, Laid, WrittenAt, WrittenEnd
<1>4. Noted' /\ Copied' /\ EndWritten'
  BY <1>1, <1>2 DEF ZipInv, TypeOK, Noted, Copied, EndWritten
<1>5. QED
  BY <1>2, <1>3, <1>4 DEF ZipInv

\* A header of the directory copies the next note.
LEMMA CentralStep ==
  ASSUME ZipInv, WriteCentral
  PROVE  ZipInv'
<1> DEFINE n == Len(central)
           e == entries[n + 1]
           c == [header |-> CentralFields(e), file |-> e.file]
<1>1. /\ stage = "central" /\ n < Len(entries)
      /\ central' = Append(central, c)
      /\ length' = length + CentralHeader + e.file.namelen
      /\ listing' = listing /\ locals' = locals /\ entries' = entries
      /\ cdStart' = cdStart /\ end' = end /\ stage' = stage
  BY DEF WriteCentral
<1>2. /\ n \in Nat /\ length \in Nat /\ cdStart \in Nat /\ cdStart <= length
      /\ entries \in Seq([offset : Nat, file : File])
      /\ central \in Seq(CentralEntry)
  BY <1>1 DEF ZipInv, TypeOK, EndWritten
<1>3. e \in [offset : Nat, file : File]
  <2>1. n + 1 \in 1..Len(entries)
    BY <1>1, <1>2
  <2>2. QED
    BY <2>1, <1>2, ElementIn
<1> HIDE DEF e
<1>4. CentralFields(e) \in [offset : Nat, namelen : Nat, size : Nat]
      /\ e.file \in File /\ e.file.namelen \in Nat
  <2>1. e.offset \in Nat /\ e.file \in File /\ e.file.namelen \in Nat /\ e.file.size \in Nat
    BY <1>3 DEF File
  <2>2. U32(e.offset) \in Nat /\ U16(e.file.namelen) \in Nat /\ U32(e.file.size) \in Nat
    BY <2>1, LimitAssumption, FieldHolds DEF U16, U32
  <2>3. QED
    BY <2>1, <2>2 DEF CentralFields
<1>5. c \in CentralEntry /\ c.header = CentralFields(e) /\ c.file = e.file
  BY <1>4 DEF CentralEntry
<1> HIDE DEF c
<1>6. length' \in Nat /\ cdStart' <= length' /\ length <= length'
  BY <1>1, <1>2, <1>4 DEF CentralHeader
<1>7. /\ Len(central') = n + 1 /\ central'[n + 1] = c
      /\ \A k \in 1..n : central'[k] = central[k]
      /\ central' \in Seq(CentralEntry)
  BY <1>1, <1>2, <1>5
<1>8. TypeOK'
  BY <1>1, <1>6, <1>7 DEF ZipInv, TypeOK
<1>9. Mountable' /\ Laid'
  BY <1>1 DEF ZipInv, Mountable, Laid, WrittenAt, WrittenEnd
<1>10. Noted'
  <2>1. ASSUME NEW k \in 1..Len(locals) PROVE locals[k].at <= length'
    <3>1. locals[k] \in LocalEntry
      <4>1. locals \in Seq(LocalEntry)
        BY DEF ZipInv, TypeOK
      <4>2. QED
        BY <4>1, ElementIn
    <3>2. locals[k].at <= length
      BY DEF ZipInv, Noted
    <3>3. QED
      BY <3>1, <3>2, <1>2, <1>6 DEF LocalEntry
  <2>2. QED
    BY <1>1, <2>1 DEF ZipInv, Noted, LocalFields, U16, U32
<1>11. Copied'
  <2>1. ASSUME NEW k \in 1..(n + 1)
        PROVE  central'[k].header = CentralFields(entries[k]) /\ central'[k].file = entries[k].file
    <3>1. CASE k = n + 1
      BY <3>1, <1>5, <1>7 DEF e
    <3>2. CASE k # n + 1
      <4>1. k \in 1..n
        BY <3>2, <1>2
      <4>2. QED
        BY <4>1, <1>7 DEF ZipInv, Copied
    <3>3. QED
      BY <3>1, <3>2
  <2>2. Len(central') <= Len(entries')
    BY <1>1, <1>2, <1>7
  <2>3. QED
    BY <1>1, <1>7, <2>1, <2>2 DEF Copied, CentralFields, U16, U32
<1>12. EndWritten'
  BY <1>1, <1>6 DEF EndWritten
<1>13. QED
  BY <1>8, <1>9, <1>10, <1>11, <1>12 DEF ZipInv

\* The end record takes the directory's size before its own bytes are added.
LEMMA EndStep ==
  ASSUME ZipInv, WriteEnd
  PROVE  ZipInv'
<1>1. /\ stage = "central" /\ Len(central) = Len(entries) /\ stage' = "done"
      /\ end' = [count |-> U16(Len(central)), size |-> U32(length - cdStart), start |-> U32(cdStart)]
      /\ length' = length + EndHeader
      /\ listing' = listing /\ locals' = locals /\ entries' = entries
      /\ central' = central /\ cdStart' = cdStart
  BY DEF WriteEnd
<1>2. /\ length \in Nat /\ cdStart \in Nat /\ cdStart <= length
      /\ length - cdStart \in Nat /\ Len(central) \in Nat
  BY <1>1 DEF ZipInv, TypeOK, EndWritten
<1>3. /\ length' \in Nat /\ length' - EndHeader = length /\ cdStart + EndHeader <= length'
      /\ length <= length'
  BY <1>1, <1>2 DEF EndHeader
<1>4. end' \in [count : Nat, size : Nat, start : Nat]
  <2>1. U16(Len(central)) \in Nat /\ U32(length - cdStart) \in Nat /\ U32(cdStart) \in Nat
    BY <1>2, LimitAssumption, FieldHolds DEF U16, U32
  <2>2. QED
    BY <1>1, <2>1
<1>5. TypeOK'
  BY <1>1, <1>3, <1>4 DEF ZipInv, TypeOK
<1>6. Mountable' /\ Laid'
  BY <1>1 DEF ZipInv, Mountable, Laid, WrittenAt, WrittenEnd
<1>7. Noted'
  <2>1. ASSUME NEW k \in 1..Len(locals) PROVE locals[k].at <= length'
    <3>1. locals[k] \in LocalEntry
      <4>1. locals \in Seq(LocalEntry)
        BY DEF ZipInv, TypeOK
      <4>2. QED
        BY <4>1, ElementIn
    <3>2. locals[k].at <= length
      BY DEF ZipInv, Noted
    <3>3. QED
      BY <3>1, <3>2, <1>2, <1>3 DEF LocalEntry
  <2>2. QED
    BY <1>1, <2>1 DEF ZipInv, Noted, LocalFields, U16, U32
<1>8. Copied'
  BY <1>1 DEF ZipInv, Copied, CentralFields, U16, U32
<1>9. EndWritten'
  BY <1>1, <1>3 DEF EndWritten, U16, U32
<1>10. QED
  BY <1>5, <1>6, <1>7, <1>8, <1>9 DEF ZipInv

\* Every step keeps the invariant.
LEMMA ZipStep == ZipInv /\ [ZipNext]_zipVars => ZipInv'
<1> SUFFICES ASSUME ZipInv, [ZipNext]_zipVars PROVE ZipInv'
  OBVIOUS
<1>1. CASE WriteFile
  BY <1>1, FileStep
<1>2. CASE FilesWritten
  BY <1>2, FilesWrittenStep
<1>3. CASE WriteCentral
  BY <1>3, CentralStep
<1>4. CASE WriteEnd
  BY <1>4, EndStep
<1>5. CASE UNCHANGED zipVars
  BY <1>5
     DEF zipVars, ZipInv, TypeOK, Mountable, Laid, WrittenAt, WrittenEnd, Noted, Copied,
         EndWritten, LocalFields, CentralFields, U16, U32
<1>6. QED
  BY <1>1, <1>2, <1>3, <1>4, <1>5 DEF ZipNext

\* The invariant of the archive writer, for any listing of files.
THEOREM Invariance == ZipSpec => []ZipInv
  BY InitZip, ZipStep, PTL DEF ZipSpec

-----------------------------------------------------------------------------
\* Type correctness, with the range of the padding.
THEOREM TypeCorrect == ZipSpec => []TypeOK
<1>1. ZipInv => TypeOK
  BY DEF ZipInv
<1>2. QED
  BY <1>1, Invariance, PTL

\* Whatever the names and sizes of the files, a large one is on a boundary.
THEOREM MountableCorrect == ZipSpec => []Mountable
<1>1. ZipInv => Mountable
  BY DEF ZipInv
<1>2. QED
  BY <1>1, Invariance, PTL

\* What the fields of a local header say of a file they can hold.
LEMMA HeaderTells ==
  ASSUME ZipInv, NEW k \in 1..Len(locals), Fits(locals[k].file)
  PROVE  /\ DataAt(locals[k]) = WrittenAt(locals[k])
         /\ DataEnd(locals[k]) = WrittenEnd(locals[k])
<1> DEFINE l == locals[k]
<1>1. l \in LocalEntry
  BY ElementIn DEF ZipInv, TypeOK
<1>2. l.header = LocalFields(l.file, l.padding)
  BY DEF ZipInv, Noted
<1>3. l.file.namelen < 65536 /\ l.file.size < OffsetLimit
  BY DEF Fits
<1> HIDE DEF l
<1>4. l.file \in File /\ l.padding \in 0..(ALIGNMENT + 3)
  BY <1>1 DEF LocalEntry
<1>5. l.file.namelen \in Nat /\ l.file.size \in Nat
  BY <1>4 DEF File
<1>6. l.padding \in Nat /\ l.padding < 65536
  <2> DEFINE n == l.padding
  <2>1. n \in 0..(ALIGNMENT + 3)
    BY <1>4
  <2> HIDE DEF n
  <2>2. n \in Nat /\ n < 65536
    BY <2>1 DEF ALIGNMENT
  <2>3. QED
    BY <2>2 DEF n
<1>7. U16(l.file.namelen) = l.file.namelen
  BY <1>3, <1>5, FieldHolds DEF U16
<1>8. U16(l.padding) = l.padding
  BY <1>6, FieldHolds DEF U16
<1>9. U32(l.file.size) = l.file.size
  <2> DEFINE n == l.file.size
  <2>1. n \in Nat /\ n < OffsetLimit /\ OffsetLimit \in Nat \ {0}
    BY <1>3, <1>5, LimitAssumption
  <2> HIDE DEF n
  <2>2. n % OffsetLimit = n
    BY <2>1, FieldHolds
  <2>3. U32(n) = n
    BY <2>2 DEF U32
  <2>4. QED
    BY <2>3 DEF n
<1>10. l.header.namelen = l.file.namelen /\ l.header.extra = l.padding /\ l.header.size = l.file.size
  BY <1>2, <1>7, <1>8, <1>9 DEF LocalFields
<1>11. QED
  BY <1>10 DEF l, DataAt, DataEnd, WrittenAt, WrittenEnd

\* The headers' lengths lead from file to file and to the directory.
THEOREM ContiguousCorrect == ZipSpec => []Contiguous
<1>1. ASSUME ZipInv PROVE Contiguous
  <2> SUFFICES ASSUME NEW k \in 1..Len(locals), Fits(locals[k].file)
               PROVE  /\ DataAt(locals[k]) = WrittenAt(locals[k])
                      /\ DataEnd(locals[k]) = IF k < Len(locals) THEN locals[k + 1].at
                                              ELSE IF stage = "files" THEN length ELSE cdStart
    BY DEF Contiguous
  <2>1. DataAt(locals[k]) = WrittenAt(locals[k]) /\ DataEnd(locals[k]) = WrittenEnd(locals[k])
    BY <1>1, HeaderTells
  <2>2. Len(locals) \in Nat /\ locals # <<>>
    BY <1>1 DEF ZipInv, TypeOK
  <2>3. CASE k < Len(locals)
    <3>1. k \in 1..(Len(locals) - 1)
      BY <2>2, <2>3
    <3>2. QED
      BY <1>1, <2>1, <2>3, <3>1 DEF ZipInv, Laid
  <2>4. CASE k = Len(locals)
    BY <1>1, <2>1, <2>2, <2>4 DEF ZipInv, Laid
  <2>5. QED
    BY <2>2, <2>3, <2>4
<1>2. QED
  BY <1>1, Invariance, PTL

\* Each header of the directory is that of its own file, as far as its fields reach.
THEOREM CentralFindsCorrect == ZipSpec => []CentralFinds
<1>1. ASSUME ZipInv PROVE CentralFinds
  <2> SUFFICES ASSUME NEW k \in 1..Len(central)
               PROVE  /\ k \in 1..Len(locals)
                      /\ central[k].file = locals[k].file
                      /\ locals[k].at < OffsetLimit => central[k].header.offset = locals[k].at
                      /\ Fits(locals[k].file) =>
                           /\ central[k].header.namelen = locals[k].file.namelen
                           /\ central[k].header.size = locals[k].file.size
    BY DEF CentralFinds
  <2>1. k \in 1..Len(locals)
    <3>1. Len(central) \in Nat /\ Len(locals) \in Nat /\ Len(central) <= Len(locals)
      BY <1>1 DEF ZipInv, TypeOK, Noted, Copied
    <3>2. QED
      BY <3>1
  <2>2. /\ central[k].header = CentralFields(entries[k]) /\ central[k].file = entries[k].file
        /\ entries[k].offset = locals[k].at /\ entries[k].file = locals[k].file
    BY <1>1, <2>1 DEF ZipInv, Noted, Copied
  <2>3. /\ central[k].header.offset = U32(locals[k].at)
        /\ central[k].header.namelen = U16(locals[k].file.namelen)
        /\ central[k].header.size = U32(locals[k].file.size)
    BY <2>2 DEF CentralFields
  <2>4. /\ locals[k].at \in Nat /\ locals[k].file.namelen \in Nat /\ locals[k].file.size \in Nat
    <3>1. locals[k] \in LocalEntry
      BY <1>1, <2>1, ElementIn DEF ZipInv, TypeOK
    <3>2. QED
      BY <3>1 DEF LocalEntry, File
  <2>5. ASSUME locals[k].at < OffsetLimit PROVE central[k].header.offset = locals[k].at
    BY <2>3, <2>4, <2>5, LimitAssumption, FieldHolds DEF U32
  <2>6. ASSUME Fits(locals[k].file)
        PROVE  /\ central[k].header.namelen = locals[k].file.namelen
               /\ central[k].header.size = locals[k].file.size
    <3>1. locals[k].file.namelen < 65536 /\ locals[k].file.size < OffsetLimit
      BY <2>6 DEF Fits
    <3>2. U16(locals[k].file.namelen) = locals[k].file.namelen
      BY <2>4, <3>1, FieldHolds DEF U16
    <3>3. U32(locals[k].file.size) = locals[k].file.size
      BY <2>4, <3>1, LimitAssumption, FieldHolds DEF U32
    <3>4. QED
      BY <2>3, <3>2, <3>3
  <2>7. QED
    BY <2>1, <2>2, <2>5, <2>6
<1>2. QED
  BY <1>1, Invariance, PTL

\* The end record leads a reader to the whole directory, as far as its fields reach.
THEOREM EndFindsCorrect == ZipSpec => []EndFinds
<1>1. ASSUME ZipInv PROVE EndFinds
  <2> DEFINE size == (length - EndHeader) - cdStart
  <2> SUFFICES ASSUME stage = "done"
               PROVE  /\ Len(central) = Len(listing)
                      /\ Len(listing) < 65536 => end.count = Len(listing)
                      /\ cdStart < OffsetLimit => end.start = cdStart
                      /\ size < OffsetLimit => cdStart + end.size + EndHeader = length
    BY DEF EndFinds
  <2>1. /\ length \in Nat /\ cdStart \in Nat /\ Len(listing) \in Nat
        /\ cdStart + EndHeader <= length
        /\ Len(central) = Len(listing)
    BY <1>1 DEF ZipInv, TypeOK, Noted, Copied, EndWritten
  <2>2. end.count = U16(Len(central)) /\ end.start = U32(cdStart) /\ end.size = U32(size)
    BY <1>1 DEF ZipInv, EndWritten
  <2>3. size \in Nat /\ cdStart + size + EndHeader = length
    BY <2>1 DEF EndHeader
  <2> HIDE DEF size
  <2>4. Len(listing) < 65536 => end.count = Len(listing)
    BY <2>1, <2>2, FieldHolds DEF U16
  <2>5. cdStart < OffsetLimit => end.start = cdStart
    BY <2>1, <2>2, LimitAssumption, FieldHolds DEF U32
  <2>6. size < OffsetLimit => cdStart + end.size + EndHeader = length
    BY <2>2, <2>3, LimitAssumption, FieldHolds DEF U32
  <2>7. QED
    BY <2>1, <2>4, <2>5, <2>6
<1>2. QED
  BY <1>1, Invariance, PTL

\* A reader finds every file the fields can describe, in any archive.
THEOREM ReadableCorrect == ZipSpec => []Readable
<1>1. Contiguous /\ CentralFinds /\ EndFinds => Readable
  BY DEF Readable
<1>2. QED
  BY <1>1, ContiguousCorrect, CentralFindsCorrect, EndFindsCorrect, PTL

-----------------------------------------------------------------------------
(* The signing.                                                            *)

\* The places of the script.
Opening    == {"args", "key", "cert", "start"}
Preparing  == {"download", "setup", "extract"}
Signing    == {"manifest", "identity", "sign", "sigManifest", "index", "archive", "archiving"}
Installing == {"cleanup", "install", "installing", "signed"}
Working    == Preparing \cup Signing \cup Installing

\* How many of the call's packages have been taken up, how many of them are done with, and
\* the one that is in work.
Taken    == IF call.batch THEN Len(call.packages) - Len(remaining) ELSE 1
Finished == IF pc \in Working THEN Taken - 1 ELSE Taken
Current  == call.packages[Taken]

SignTypes ==
  /\ call \in Calls /\ pc \in Opening \cup {"next"} \cup Working \cup Ended
  /\ output = [s \in Stems |-> output[s]] /\ installed = [s \in Stems |-> installed[s]]
  /\ latest = [s \in Stems |-> latest[s]]
  /\ extracted = [index |-> extracted.index, type |-> extracted.type,
                  compact |-> extracted.compact, blobs |-> extracted.blobs]

\* remaining is the end of the list; a place in the middle of the script has a package.
ListInv ==
  /\ pc \in {"key", "cert", "start"} /\ ~call.batch => call.packages # <<>>
  /\ pc \in {"next", "download"} => call.batch
  /\ pc \in Working \cup {"next", "done"} =>
       IF call.batch
       THEN /\ remaining \in Seq(Packages \cup {Blank}) /\ Len(remaining) <= Len(call.packages)
            /\ \A k \in 1..Len(remaining) : remaining[k] = call.packages[Taken + k]
       ELSE call.packages # <<>>
  /\ pc \in Working => Taken >= 1 /\ Current # Blank
  /\ pc = "done" => Taken = Len(call.packages)

\* What is in work: the package of the list, unless a download has brought something else.
PackageInv ==
  /\ pc \in {"download"} \cup Signing \cup Installing => package = Current
  /\ pc \in {"setup", "extract"} => (package.readable => package = Current)

\* Nothing but the package's blobs is in the directory, and then the signature's.
ExtractInv ==
  /\ pc = "extract" => extracted.blobs = {}
  /\ pc \in {"manifest", "identity", "sign", "sigManifest"} => extracted.blobs = package.blobs
  /\ pc \in {"index", "archive", "archiving"} =>
       extracted.blobs = package.blobs \cup {blob, SigConfig(blob), sigManifest}
  /\ pc \in {"archive", "archiving"} =>
       extracted.index[1].digest = content /\ extracted.index[2].digest = sigManifest

\* The identity asked for, or the one in the package.
Expected(m, p) == IF call.identity # "" THEN call.identity ELSE OwnIdentity(m, p)

\* Each document names the one before it.
ChainInv ==
  /\ pc \in Signing \ {"manifest"} => content \in package.blobs
  /\ pc \in {"extract", "manifest", "identity"} => identity = ""
  /\ pc \in Signing \ {"manifest", "identity"} => identity = Expected(content, package)
  /\ pc \in Signing \ {"manifest", "identity", "sign"} =>
       blob = SignedBlob(identity, content) /\ signature.over = blob
  /\ pc \in {"index", "archive", "archiving"} => sigManifest = SigManifest(blob, signature, cert)

\* An archive of a package p resolves and holds p's blobs and the signature's.
ArchiveOf(a, p) ==
  /\ a.index[1].digest \in p.blobs /\ a.blobs = p.blobs \cup Added(a)
  /\ SignatureOf(a).layer.image = a.index[1].digest
  /\ SignatureOf(a).signature.over = SignatureOf(a).layer

\* What has the name s, written in any run and signed in this one.
NameInv(s) ==
  /\ Whole(output[s]) => \E p \in Packages : p.stem = s /\ ArchiveOf(output[s], p)
  /\ Whole(installed[s]) => \E p \in Packages : p.stem = s /\ ArchiveOf(installed[s], p)
  /\ latest[s] # Nothing /\ Whole(output[s]) =>
       SignatureOf(output[s]).layer.identity = Expected(output[s].index[1].digest, latest[s])

ArchiveInv == \A s \in Stems : NameInv(s)

\* What is in work has been written, and installed, as far as the script says.
InWork ==
  /\ pc \in Installing =>
       /\ latest[package.stem] = package /\ Whole(output[package.stem])
       /\ output[package.stem].blobs = package.blobs \cup Added(output[package.stem])
  /\ pc = "signed" /\ call.install => installed[package.stem] = output[package.stem]

\* What was finished is still there, or is being replaced by a package of its name.
Kept(k) ==
  \/ \E j \in 1..Finished :
        /\ k <= j /\ call.packages[j] # Blank
        /\ call.packages[j].stem = call.packages[k].stem /\ Delivered(call.packages[j])
  \/ pc \in {"archiving"} \cup Installing /\ package.stem = call.packages[k].stem

FinishedInv ==
  pc \in Working \cup {"next", "done"} =>
    \A k \in 1..Finished : call.packages[k] # Blank => Kept(k)

CountInv ==
  /\ pc \in Opening => signed = 0
  /\ pc \in Working \cup {"next", "done"} /\ call.batch =>
       signed = Cardinality({k \in 1..Finished : call.packages[k] # Blank})

SignInv ==
  /\ SignTypes /\ ListInv /\ PackageInv /\ ExtractInv /\ ChainInv
  /\ ArchiveInv /\ InWork /\ FinishedInv /\ CountInv

-----------------------------------------------------------------------------
\* What a call is.
LEMMA CallFacts ==
  ASSUME call \in Calls
  PROVE  /\ call.packages \in Seq(Packages \cup {Blank})
         /\ Len(call.packages) \in Nat /\ DOMAIN call.packages = 1..Len(call.packages)
         /\ \A k \in 1..Len(call.packages) : call.packages[k] \in Packages \cup {Blank}
         /\ call.batch \in BOOLEAN /\ call.install \in BOOLEAN
         /\ ~call.batch => /\ Len(call.packages) <= 1
                           /\ \A k \in 1..Len(call.packages) : call.packages[k] # Blank
<1>1. /\ call.packages \in Seq(Packages \cup {Blank})
      /\ ~call.batch => Len(call.packages) <= 1 /\ Blank \notin Range(call.packages)
      /\ call.batch \in BOOLEAN /\ call.install \in BOOLEAN
  BY CallsAssumption
<1>2. /\ Len(call.packages) \in Nat /\ DOMAIN call.packages = 1..Len(call.packages)
      /\ \A k \in 1..Len(call.packages) : call.packages[k] \in Packages \cup {Blank}
  BY <1>1
<1>3. QED
  BY <1>1, <1>2 DEF Range

\* Where the script works on a package, it is one of the list.
LEMMA PackageOfList ==
  ASSUME SignTypes, ListInv, pc \in Working
  PROVE  /\ Taken \in 1..Len(call.packages) /\ Finished = Taken - 1
         /\ Current \in Packages /\ Current.stem \in Stems
<1>1. call \in Calls
  BY DEF SignTypes
<1>2. Taken \in 1..Len(call.packages)
  <2>1. CASE call.batch
    <3>1. Len(remaining) \in Nat
      BY <2>1 DEF ListInv
    <3>2. QED
      BY <1>1, <2>1, <3>1, CallFacts DEF ListInv, Taken
  <2>2. CASE ~call.batch
    <3>1. call.packages # <<>>
      BY <2>2 DEF ListInv
    <3>2. Len(call.packages) # 0
      BY <1>1, <3>1, CallFacts
    <3>3. QED
      BY <1>1, <2>2, <3>2, CallFacts DEF Taken
  <2>3. QED
    BY <2>1, <2>2
<1>3. Current \in Packages
  BY <1>1, <1>2, CallFacts DEF ListInv, Current
<1>4. QED
  BY <1>2, <1>3 DEF Finished, Stems

\* A file under one name is replaced, the others stay.
LEMMA Replace ==
  ASSUME NEW S, NEW f, f = [s \in S |-> f[s]], NEW t \in S, NEW v
  PROVE  LET g == [f EXCEPT ![t] = v]
         IN  g = [s \in S |-> g[s]] /\ g[t] = v /\ \A s \in S \ {t} : g[s] = f[s]
OBVIOUS

\* A package is not nothing, whatever was downloaded for it.
LEMMA SomePackage == \A p \in Packages : p # Nothing
<1> SUFFICES ASSUME NEW p \in Packages, p = Nothing PROVE FALSE
  OBVIOUS
<1>1. p = [stem |-> p.stem, ext |-> p.ext, index |-> p.index, type |-> p.type,
           compact |-> p.compact, blobs |-> p.blobs, readable |-> p.readable]
  BY PackagesAssumption
<1>2. "stem" \in DOMAIN p
  BY <1>1
<1>3. "stem" \notin DOMAIN Nothing
  BY DEF Nothing
<1>4. QED
  BY <1>2, <1>3

\* A readable download is the package.
LEMMA Downloaded ==
  ASSUME NEW p \in Packages, NEW what, NEW q,
         q = [p EXCEPT !.readable = @ /\ what = "package"], q.readable
  PROVE  q = p
<1>1. /\ p = [stem |-> p.stem, ext |-> p.ext, index |-> p.index, type |-> p.type,
              compact |-> p.compact, blobs |-> p.blobs, readable |-> p.readable]
      /\ p.readable \in BOOLEAN
  BY PackagesAssumption
<1>2. q.readable = (p.readable /\ what = "package")
  BY <1>1
<1>3. p.readable = TRUE /\ (p.readable /\ what = "package") = TRUE
  BY <1>1, <1>2
<1>4. QED
  BY <1>1, <1>3

-----------------------------------------------------------------------------
(* What most steps leave alone.                                            *)

\* The list and what is in work.
LEMMA StillWorking ==
  ASSUME SignTypes, ListInv, CountInv, pc \in Working, pc' \in Working \ {"download"},
         UNCHANGED <<call, remaining, signed>>
  PROVE  /\ ListInv' /\ CountInv'
         /\ Taken' = Taken /\ Finished' = Finished /\ Current' = Current
<1>1. Taken' = Taken /\ Current' = Current
  BY DEF Taken, Current
<1>2. Finished' = Finished
  BY <1>1 DEF Finished
<1>3. pc' \notin {"key", "cert", "start", "next", "download", "done"} /\ pc' \notin Opening
  BY DEF Working, Preparing, Signing, Installing, Opening
<1>4. ListInv'
  BY <1>1, <1>3 DEF ListInv
<1>5. CountInv'
  BY <1>2, <1>3 DEF CountInv
<1>6. QED
  BY <1>1, <1>2, <1>4, <1>5

\* The archives.
LEMMA SameArchives ==
  ASSUME ArchiveInv, UNCHANGED <<call, output, installed, latest>>
  PROVE  ArchiveInv'
BY DEF ArchiveInv, NameInv, Expected

\* What is finished.
LEMMA SameFinished ==
  ASSUME FinishedInv, pc \in Working, UNCHANGED <<call, output, installed, latest, package>>,
         Finished' = Finished,
         pc \in {"archiving"} \cup Installing => pc' \in {"archiving"} \cup Installing
  PROVE  FinishedInv'
<1>1. \A k \in 1..Finished : Kept(k) => Kept(k)'
  BY DEF Kept, Delivered
<1>2. QED
  BY <1>1 DEF FinishedInv

\* A run that fails has nothing more to keep than its archives.
LEMMA Failing ==
  ASSUME SignTypes', ArchiveInv', pc' = "failed"
  PROVE  SignInv'
<1>1. pc' \notin Working /\ pc' \notin Opening /\ pc' \notin {"next", "done"}
  BY DEF Working, Preparing, Signing, Installing, Opening
<1>2. QED
  BY <1>1 DEF SignInv, ListInv, PackageInv, ExtractInv, ChainInv, InWork, FinishedInv, CountInv,
              Working, Preparing, Signing, Installing, Opening

-----------------------------------------------------------------------------
(* Every step.                                                             *)

\* Initially nothing is signed; the same where a run starts again.
LEMMA Opened ==
  ASSUME pc \in Opening, signed = 0,
         pc \in {"key", "cert", "start"} /\ ~call.batch => call.packages # <<>>
  PROVE  /\ ListInv /\ PackageInv /\ ExtractInv /\ ChainInv /\ InWork /\ FinishedInv /\ CountInv
<1>1. pc \notin Working \cup {"next", "done"}
  BY DEF Opening, Working, Preparing, Signing, Installing
<1>2. QED
  BY <1>1 DEF ListInv, PackageInv, ExtractInv, ChainInv, InWork, FinishedInv, CountInv,
              Working, Preparing, Signing, Installing

LEMMA InitSign == Init => SignInv
<1> SUFFICES ASSUME Init PROVE SignInv
  OBVIOUS
<1>1. SignTypes
  BY DEF Init, SignTypes, NoFiles, Opening
<1>2. \A s \in Stems : ~Whole(output[s]) /\ ~Whole(installed[s])
  BY DEF Init, Whole, Nothing
<1>3. ArchiveInv
  BY <1>2 DEF ArchiveInv, NameInv
<1>4. pc = "args" /\ signed = 0
  BY DEF Init
<1>5. QED
  BY <1>1, <1>3, <1>4, Opened DEF SignInv, Opening

\* Arguments and certificates.
LEMMA OpeningStep ==
  ASSUME SignInv, ParseArgs \/ FetchKey \/ FetchCertificate
  PROVE  SignInv'
<1> USE DEF SignInv
<1>1. UNCHANGED <<call, remaining, package, files, signed, latest>>
  BY DEF ParseArgs, FetchKey, FetchCertificate, working
<1>2. /\ pc' \in {"key", "cert", "start", "failed"}
      /\ pc' \in {"key", "cert", "start"} /\ ~call.batch => call.packages # <<>>
  BY DEF ParseArgs, FetchKey, FetchCertificate, Goto, ListInv
<1>3. SignTypes'
  BY <1>1, <1>2 DEF SignTypes, files, Opening, Ended
<1>4. ArchiveInv'
  BY <1>1, SameArchives DEF files
<1>5. CASE pc' = "failed"
  BY <1>3, <1>4, <1>5, Failing
<1>6. CASE pc' # "failed"
  <2>1. pc' \notin Working \cup {"next", "done"} /\ pc' \in {"key", "cert", "start"}
    BY <1>2, <1>6 DEF Working, Preparing, Signing, Installing
  <2>2. pc \in Opening
    BY DEF ParseArgs, FetchKey, FetchCertificate, Goto, Opening
  <2>3. ListInv' /\ PackageInv' /\ ExtractInv' /\ ChainInv' /\ InWork' /\ FinishedInv' /\ CountInv'
    BY <1>1, <1>2, <2>1, <2>2
       DEF ListInv, PackageInv, ExtractInv, ChainInv, InWork, FinishedInv, CountInv,
           Working, Preparing, Signing, Installing
  <2>4. QED
    BY <1>3, <1>4, <2>3
<1>7. QED
  BY <1>5, <1>6

\* The first, or only, package: nothing is finished yet.
LEMMA StartSigningStep == ASSUME SignInv, StartSigning PROVE SignInv'
<1> USE DEF SignInv
<1>1. UNCHANGED <<call, files, signed, latest>> /\ pc = "start" /\ call \in Calls
  BY DEF StartSigning, SignTypes, Goto
<1>2. pc' \in {"setup", "failed", "next"}
  BY DEF StartSigning, Goto
<1>3. SignTypes'
  BY <1>1, <1>2 DEF SignTypes, files, Working, Preparing, Ended
<1>4. ArchiveInv'
  BY <1>1, SameArchives DEF files
<1>5. CASE pc' = "failed"
  BY <1>3, <1>4, <1>5, Failing
<1>6. CASE pc' = "setup"
  <2>1. ~call.batch /\ package' = Head(call.packages) /\ call.packages # <<>>
    BY <1>6 DEF StartSigning, Goto, ListInv
  <2>2. Len(call.packages) = 1 /\ call.packages[1] # Blank /\ package' = call.packages[1]
    <3>1. Len(call.packages) \in Nat /\ Len(call.packages) # 0
      BY <1>1, <2>1, CallFacts
    <3>2. Len(call.packages) = 1
      <4>1. Len(call.packages) <= 1
        BY <1>1, <2>1, CallFacts
      <4>2. \A n \in Nat : n # 0 /\ n <= 1 => n = 1
        OBVIOUS
      <4>3. QED
        BY <3>1, <4>1, <4>2
    <3>3. Head(call.packages) = call.packages[1]
      BY <1>1, <2>1, CallFacts
    <3>4. QED
      BY <1>1, <2>1, <3>2, <3>3, CallFacts
  <2>3. Taken' = 1 /\ Current' = call.packages[1] /\ Finished' = 0
    BY <1>1, <1>6, <2>1 DEF Taken, Current, Finished, Working, Preparing
  <2>4. ListInv' /\ PackageInv' /\ ExtractInv' /\ ChainInv' /\ InWork'
    BY <1>1, <1>6, <2>1, <2>2, <2>3
       DEF ListInv, PackageInv, ExtractInv, ChainInv, InWork, Working, Preparing, Signing, Installing
  <2>5. FinishedInv' /\ CountInv'
    BY <1>1, <1>6, <2>1, <2>3 DEF FinishedInv, CountInv, Opening
  <2>6. QED
    BY <1>3, <1>4, <2>4, <2>5
<1>7. CASE pc' = "next"
  <2>1. call.batch /\ remaining' = call.packages
    BY <1>7 DEF StartSigning, Goto
  <2>2. Taken' = 0 /\ Finished' = 0
    BY <1>1, <1>7, <2>1, CallFacts DEF Taken, Finished, Working, Preparing, Signing, Installing
  <2>3. ListInv'
    BY <1>1, <1>7, <2>1, <2>2, CallFacts DEF ListInv, Working, Preparing, Signing, Installing
  <2>4. PackageInv' /\ ExtractInv' /\ ChainInv' /\ InWork'
    BY <1>7 DEF PackageInv, ExtractInv, ChainInv, InWork, Working, Preparing, Signing, Installing
  <2>5. signed' = 0 /\ pc' \notin Opening
    BY <1>1, <1>7 DEF CountInv, Opening
  <2>6. FinishedInv' /\ CountInv'
    BY <1>1, <2>2, <2>5, FS_EmptySet DEF FinishedInv, CountInv
  <2>7. QED
    BY <1>3, <1>4, <2>3, <2>4, <2>6
<1>8. QED
  BY <1>2, <1>5, <1>6, <1>7

\* The next URL of a batch: an empty one counts as finished at once.
LEMMA NextUrlStep == ASSUME SignInv, NextUrl PROVE SignInv'
<1> USE DEF SignInv
<1>1. UNCHANGED <<call, files, signed, latest>> /\ pc = "next" /\ call \in Calls /\ call.batch
  BY DEF NextUrl, SignTypes, ListInv, Goto
<1>2. /\ Len(call.packages) \in Nat /\ remaining \in Seq(Packages \cup {Blank})
      /\ Len(remaining) \in Nat /\ Len(remaining) <= Len(call.packages)
      /\ \A k \in 1..Len(remaining) : remaining[k] = call.packages[Taken + k]
  BY <1>1, CallFacts DEF ListInv
<1>3. Taken = Len(call.packages) - Len(remaining) /\ Finished = Taken
  BY <1>1 DEF Taken, Finished, Working, Preparing, Signing, Installing
<1>4. pc' \in {"done", "next", "download"}
  BY DEF NextUrl, Goto
<1>5. SignTypes'
  BY <1>1, <1>4 DEF SignTypes, files, NextUrl, Working, Preparing, Ended
<1>6. ArchiveInv'
  BY <1>1, SameArchives DEF files
<1>7. PackageInv' /\ ExtractInv' /\ ChainInv' /\ InWork'
  <2>1. pc' # "download" => PackageInv'
    BY <1>4 DEF PackageInv, Signing, Installing
  <2>2. ASSUME pc' = "download" PROVE PackageInv'
    <3>1. remaining # <<>> /\ remaining' = Tail(remaining) /\ package' = Head(remaining)
      BY <2>2 DEF NextUrl, Goto
    <3>2. Head(remaining) = remaining[1] /\ Len(remaining) >= 1
          /\ Len(Tail(remaining)) = Len(remaining) - 1
      BY <1>2, <3>1
    <3>3. Taken' = Taken + 1
      BY <1>1, <1>2, <1>3, <3>1, <3>2 DEF Taken
    <3>4. package' = Current'
      BY <1>1, <1>2, <3>1, <3>2, <3>3 DEF Current
    <3>5. QED
      BY <2>2, <3>4 DEF PackageInv, Signing, Installing
  <2>3. QED
    BY <1>4, <2>1, <2>2 DEF ExtractInv, ChainInv, InWork, Signing, Installing
<1>8. pc' \notin Opening
  BY <1>4 DEF Opening
<1>9. CASE remaining = <<>>
  <2>1. pc' = "done" /\ remaining' = remaining
    BY <1>9 DEF NextUrl, Goto
  <2>2. Len(remaining) = 0
    BY <1>9
  <2>3. Taken' = Taken /\ Finished' = Finished /\ Taken = Len(call.packages)
    BY <1>1, <1>2, <1>3, <2>1, <2>2 DEF Taken, Finished, Working, Preparing, Signing, Installing
  <2>4. ListInv'
    BY <1>1, <1>2, <2>1, <2>3 DEF ListInv, Working, Preparing, Signing, Installing
  <2>5. \A k : Kept(k) => Kept(k)'
    BY <1>1, <2>3 DEF Kept, Delivered, files, Installing
  <2>6. FinishedInv' /\ CountInv'
    BY <1>1, <1>8, <2>1, <2>3, <2>5 DEF FinishedInv, CountInv
  <2>7. QED
    BY <1>5, <1>6, <1>7, <2>4, <2>6
<1>10. CASE remaining # <<>>
  <2>1. remaining' = Tail(remaining) /\ Len(remaining) >= 1
    BY <1>2, <1>10 DEF NextUrl
  <2>2. /\ remaining' \in Seq(Packages \cup {Blank}) /\ Len(remaining') = Len(remaining) - 1
        /\ \A k \in 1..Len(remaining') : remaining'[k] = remaining[k + 1]
    BY <1>2, <2>1
  <2>3. Taken' = Taken + 1 /\ Taken \in Nat
    BY <1>1, <1>2, <1>3, <2>2 DEF Taken
  <2>4. call.packages[Taken'] = Head(remaining)
    <3>1. Head(remaining) = remaining[1] /\ 1 \in 1..Len(remaining)
      BY <1>2, <2>1
    <3>2. QED
      BY <1>2, <2>3, <3>1
  <2>5. \A k \in 1..Len(remaining') : remaining'[k] = call'.packages[Taken' + k]
    <3>1. TAKE k \in 1..Len(remaining')
    <3>2. k + 1 \in 1..Len(remaining) /\ Taken' + k = Taken + (k + 1)
      BY <1>2, <2>2, <2>3
    <3>3. QED
      BY <1>1, <1>2, <2>2, <3>2
  <2>6. CASE Head(remaining) = Blank
    <3>1. pc' = "next" /\ Finished' = Finished + 1
      BY <1>3, <1>10, <2>3, <2>6
         DEF NextUrl, Goto, Finished, Working, Preparing, Signing, Installing
    <3>2. ListInv'
      BY <1>1, <1>2, <2>2, <2>5, <3>1 DEF ListInv, Working, Preparing, Signing, Installing
    <3>3. call.packages[Finished'] = Blank /\ Finished \in Nat
      BY <1>3, <2>3, <2>4, <2>6, <3>1
    <3>4. \A k \in 1..Finished : Kept(k) => Kept(k)'
      BY <1>1, <3>1, <3>3 DEF Kept, Delivered, files, Installing
    <3>5. \A k \in 1..Finished' : call.packages[k] # Blank => k \in 1..Finished
      BY <3>1, <3>3
    <3>6. FinishedInv'
      BY <1>1, <3>1, <3>4, <3>5 DEF FinishedInv
    <3>7. {k \in 1..Finished' : call.packages[k] # Blank}
            = {k \in 1..Finished : call.packages[k] # Blank}
      BY <3>1, <3>3, <3>5
    <3>8. CountInv'
      BY <1>1, <1>8, <3>1, <3>7 DEF CountInv
    <3>9. QED
      BY <1>5, <1>6, <1>7, <3>2, <3>6, <3>8
  <2>7. CASE Head(remaining) # Blank
    <3>1. pc' = "download" /\ Finished' = Finished
      BY <1>3, <1>10, <2>3, <2>7 DEF NextUrl, Goto, Finished, Working, Preparing
    <3>2. Current' # Blank
      BY <1>1, <2>4, <2>7 DEF Current
    <3>3. ListInv'
      BY <1>1, <1>2, <2>2, <2>3, <2>5, <3>1, <3>2
         DEF ListInv, Working, Preparing, Signing, Installing
    <3>4. \A k \in 1..Finished : Kept(k) => Kept(k)'
      BY <1>1, <3>1 DEF Kept, Delivered, files, Installing
    <3>5. FinishedInv' /\ CountInv'
      BY <1>1, <1>8, <3>1, <3>4 DEF FinishedInv, CountInv
    <3>6. QED
      BY <1>5, <1>6, <1>7, <3>3, <3>5
  <2>8. QED
    BY <2>6, <2>7
<1>11. QED
  BY <1>9, <1>10

\* Up to the manifest nothing is written but the extracted files.
LEMMA DownloadStep == ASSUME SignInv, Download PROVE SignInv'
<1> USE DEF SignInv
<1>1. UNCHANGED <<call, remaining, files, signed, latest>> /\ pc = "download" /\ pc' = "setup"
  BY DEF Download, Goto
<1>2. pc \in Working /\ pc' \in Working \ {"download"}
  BY <1>1 DEF Working, Preparing
<1>3. ListInv' /\ CountInv' /\ Finished' = Finished /\ Current' = Current
  BY <1>1, <1>2, StillWorking
<1>4. SignTypes' /\ ArchiveInv'
  BY <1>1, <1>2, SameArchives DEF SignTypes, files, Download
<1>5. package = Current /\ Current \in Packages
  BY <1>1, <1>2, PackageOfList DEF PackageInv
<1>6. PackageInv'
  <2>1. PICK what : package' = [package EXCEPT !.readable = @ /\ what = "package"]
    BY DEF Download
  <2>2. package'.readable => package' = package
    BY <1>5, <2>1, Downloaded
  <2>3. QED
    BY <1>1, <1>3, <1>5, <2>2 DEF PackageInv, Signing, Installing
<1>7. ExtractInv' /\ ChainInv' /\ InWork'
  BY <1>1 DEF ExtractInv, ChainInv, InWork, Signing, Installing
<1>8. \A k \in 1..Finished : Kept(k) => Kept(k)'
  BY <1>1, <1>3 DEF Kept, Delivered, files, Installing
<1>9. FinishedInv'
  BY <1>1, <1>2, <1>3, <1>8 DEF FinishedInv
<1>10. QED
  BY <1>3, <1>4, <1>6, <1>7, <1>9

\* While the signature is made, the list and the archives stay.
LEMMA MakingStep ==
  ASSUME SignInv, pc \in (Preparing \cup Signing) \ {"archiving"},
         pc' \in (Preparing \cup Signing) \ {"download"},
         UNCHANGED <<call, remaining, package, output, installed, signed, latest>>,
         SignTypes', ExtractInv', ChainInv',
         pc' \in Signing => package = Current
  PROVE  SignInv'
<1> USE DEF SignInv
<1>1. pc \in Working /\ pc' \in Working \ {"download"} /\ pc \notin {"archiving"} \cup Installing
  BY DEF Working, Preparing, Signing, Installing
<1>2. ListInv' /\ CountInv' /\ Finished' = Finished /\ Current' = Current
  BY <1>1, StillWorking
<1>3. ArchiveInv'
  BY SameArchives
<1>4. FinishedInv'
  BY <1>1, <1>2, SameFinished
<1>5. pc' \notin Installing /\ pc' # "signed"
  BY DEF Preparing, Signing, Installing
<1>6. InWork'
  BY <1>5 DEF InWork
<1>7. PackageInv'
  BY <1>2, <1>5 DEF PackageInv, Preparing, Signing
<1>8. QED
  BY <1>2, <1>3, <1>4, <1>6, <1>7

LEMMA SetUpStep == ASSUME SignInv, SetUp PROVE SignInv'
<1>1. /\ UNCHANGED <<call, remaining, package, output, installed, signed, latest>>
      /\ pc = "setup" /\ pc' = "extract" /\ extracted' = NoFiles /\ identity' = ""
  BY DEF SetUp, Goto
<1>2. SignTypes'
  BY <1>1 DEF SignInv, SignTypes, NoFiles, Working, Preparing
<1>3. ExtractInv' /\ ChainInv'
  BY <1>1 DEF ExtractInv, ChainInv, Signing, NoFiles
<1>4. QED
  BY <1>1, <1>2, <1>3, MakingStep DEF Preparing, Signing

\* The directory was empty: it holds the package's blobs only.
LEMMA ExtractStep == ASSUME SignInv, ExtractPackage PROVE SignInv'
<1>1. /\ UNCHANGED <<call, remaining, package, identity, output, installed, signed, latest>>
      /\ pc = "extract" /\ pc' \in {"failed", "manifest"}
  BY DEF ExtractPackage, working
<1>2. extracted' = extracted \/
      extracted' = [index |-> package.index, type |-> package.type, compact |-> package.compact,
                    blobs |-> extracted.blobs \cup package.blobs]
  BY DEF ExtractPackage
<1>3. SignTypes'
  BY <1>1, <1>2 DEF SignInv, SignTypes, Working, Signing, Ended
<1>4. CASE pc' = "failed"
  BY <1>1, <1>3, <1>4, SameArchives, Failing DEF SignInv
<1>5. CASE pc' = "manifest"
  <2>1. package.readable /\ extracted'.blobs = extracted.blobs \cup package.blobs
    BY <1>5 DEF ExtractPackage
  <2>2. extracted'.blobs = package.blobs
    BY <1>1, <2>1 DEF SignInv, ExtractInv
  <2>3. ExtractInv' /\ ChainInv'
    BY <1>1, <1>5, <2>2 DEF SignInv, ExtractInv, ChainInv, Signing
  <2>4. package = Current
    BY <1>1, <2>1 DEF SignInv, PackageInv
  <2>5. QED
    BY <1>1, <1>3, <1>5, <2>3, <2>4, MakingStep DEF Preparing, Signing
<1>6. QED
  BY <1>1, <1>4, <1>5

\* The manifest found is one of the blobs.
LEMMA FindStep == ASSUME SignInv, FindManifest PROVE SignInv'
<1>1. /\ UNCHANGED <<call, remaining, package, extracted, identity, output, installed, signed,
                     latest>>
      /\ pc = "manifest" /\ pc' \in {"failed", "identity"}
  BY DEF FindManifest, files
<1>2. SignTypes'
  BY <1>1 DEF SignInv, SignTypes, Working, Signing, Ended
<1>3. CASE pc' = "failed"
  BY <1>1, <1>2, <1>3, SameArchives, Failing DEF SignInv
<1>4. CASE pc' = "identity"
  <2>1. content' \in extracted.blobs
    BY <1>4 DEF FindManifest, IsContent
  <2>2. ExtractInv' /\ ChainInv'
    BY <1>1, <1>4, <2>1 DEF SignInv, ExtractInv, ChainInv, Signing
  <2>3. QED
    BY <1>1, <1>2, <1>4, <2>2, MakingStep DEF SignInv, PackageInv, Preparing, Signing
<1>5. QED
  BY <1>1, <1>3, <1>4

\* The identity was reset: it is the one asked for or the package's own.
LEMMA IdentityStep == ASSUME SignInv, GetIdentity PROVE SignInv'
<1>1. /\ UNCHANGED <<call, remaining, package, extracted, content, output, installed, signed,
                     latest>>
      /\ pc = "identity" /\ pc' = "sign"
  BY DEF GetIdentity, Goto, files
<1>2. SignTypes'
  BY <1>1 DEF SignInv, SignTypes, Working, Signing
<1>3. identity = "" /\ extracted.blobs = package.blobs /\ content \in package.blobs
  BY <1>1 DEF SignInv, ExtractInv, ChainInv, Signing
<1>4. identity' = Expected(content, package)
  BY <1>3 DEF GetIdentity, Expected, OwnIdentity
<1>5. ExtractInv' /\ ChainInv'
  BY <1>1, <1>3, <1>4 DEF ExtractInv, ChainInv, Signing, Expected
<1>6. QED
  BY <1>1, <1>2, <1>5, MakingStep DEF SignInv, PackageInv, Preparing, Signing

\* What is signed is the blob of this manifest and identity.
LEMMA SignBlobStep == ASSUME SignInv, SignBlob PROVE SignInv'
<1>1. /\ UNCHANGED <<call, remaining, package, extracted, content, identity, output, installed,
                     signed, latest>>
      /\ pc = "sign" /\ pc' \in {"failed", "sigManifest"} /\ blob' = SignedBlob(identity, content)
  BY DEF SignBlob, files
<1>2. SignTypes'
  BY <1>1 DEF SignInv, SignTypes, Working, Signing, Ended
<1>3. CASE pc' = "failed"
  BY <1>1, <1>2, <1>3, SameArchives, Failing DEF SignInv
<1>4. CASE pc' = "sigManifest"
  <2>1. signature'.over = blob'
    BY <1>4 DEF SignBlob
  <2>2. ExtractInv' /\ ChainInv'
    BY <1>1, <1>4, <2>1 DEF SignInv, ExtractInv, ChainInv, Signing, Expected
  <2>3. QED
    BY <1>1, <1>2, <1>4, <2>2, MakingStep DEF SignInv, PackageInv, Preparing, Signing
<1>5. QED
  BY <1>1, <1>3, <1>4

\* The signature's blobs join the package's.
LEMMA ManifestStep == ASSUME SignInv, CreateSignatureManifest PROVE SignInv'
<1>1. /\ UNCHANGED <<call, cert, remaining, package, content, identity, blob, signature,
                     output, installed, signed, latest>>
      /\ pc = "sigManifest" /\ pc' = "index" /\ sigManifest' = SigManifest(blob, signature, cert)
      /\ extracted' = [extracted EXCEPT !.blobs = @ \cup {blob, SigConfig(blob), sigManifest'}]
  BY DEF CreateSignatureManifest, Goto
<1>2. SignTypes' /\ extracted'.blobs = extracted.blobs \cup {blob, SigConfig(blob), sigManifest'}
  BY <1>1 DEF SignInv, SignTypes, Working, Signing
<1>3. ExtractInv' /\ ChainInv'
  BY <1>1, <1>2 DEF SignInv, ExtractInv, ChainInv, Signing, Expected
<1>4. QED
  BY <1>1, <1>2, <1>3, MakingStep DEF SignInv, PackageInv, Preparing, Signing

\* The index leads to the manifest and to its signature.
LEMMA IndexStep == ASSUME SignInv, UpdateIndex PROVE SignInv'
<1>1. /\ UNCHANGED <<call, cert, remaining, package, content, identity, blob, signature,
                     sigManifest,
                     output, installed, signed, latest>>
      /\ pc = "index" /\ pc' = "archive"
  BY DEF UpdateIndex, Goto, working
<1>2. PICK ref :
        extracted' = [extracted EXCEPT
          !.index = <<[digest |-> content, ref |-> ref], [digest |-> sigManifest, ref |-> "sig"]>>,
          !.type = IF @ = "absent" THEN "index" ELSE @]
  BY DEF UpdateIndex
<1>3. /\ SignTypes' /\ extracted'.blobs = extracted.blobs
      /\ extracted'.index = <<[digest |-> content, ref |-> ref], [digest |-> sigManifest,
                              ref |-> "sig"]>>
  BY <1>1, <1>2 DEF SignInv, SignTypes, Working, Signing
<1>4. extracted'.index[1].digest = content /\ extracted'.index[2].digest = sigManifest
  BY <1>3
<1>5. ExtractInv' /\ ChainInv'
  BY <1>1, <1>3, <1>4 DEF SignInv, ExtractInv, ChainInv, Signing, Expected
<1>6. QED
  BY <1>1, <1>3, <1>5, MakingStep DEF SignInv, PackageInv, Preparing, Signing

\* The archive is opened under its name: what had that name before is being replaced.
LEMMA BeginArchiveStep == ASSUME SignInv, BeginArchive PROVE SignInv'
<1> USE DEF SignInv
<1>1. /\ UNCHANGED <<call, cert, remaining, package, content, identity, blob, signature,
                     sigManifest,
                     extracted, installed, signed, latest>>
      /\ pc = "archive" /\ pc' = "archiving" /\ output' = [output EXCEPT ![package.stem] = Partial]
  BY DEF BeginArchive, Goto, working
<1>2. pc \in Working /\ pc' \in Working \ {"download"}
  BY <1>1 DEF Working, Signing, Preparing
<1>3. package = Current /\ package.stem \in Stems
  BY <1>1, <1>2, PackageOfList DEF PackageInv, Signing
<1>4. /\ output' = [s \in Stems |-> output'[s]] /\ ~Whole(output'[package.stem])
      /\ \A s \in Stems \ {package.stem} : output'[s] = output[s]
  BY <1>1, <1>3, Replace DEF SignTypes, Whole, Partial
<1>5. SignTypes'
  BY <1>1, <1>2, <1>4 DEF SignTypes
<1>6. ListInv' /\ CountInv' /\ Finished' = Finished /\ Current' = Current
  BY <1>1, <1>2, StillWorking
<1>7. PackageInv' /\ ExtractInv' /\ ChainInv' /\ InWork'
  BY <1>1, <1>3, <1>6
     DEF PackageInv, ExtractInv, ChainInv, InWork, Signing, Installing, Expected
<1>8. ArchiveInv'
  BY <1>1, <1>4 DEF ArchiveInv, NameInv, Expected
<1>9. \A k \in 1..Finished : call.packages[k] # Blank /\ Kept(k) => Kept(k)'
  <2>1. SUFFICES ASSUME NEW k \in 1..Finished, call.packages[k] # Blank, Kept(k),
                        call.packages[k].stem # package.stem
                 PROVE  Kept(k)'
    BY <1>1 DEF Kept
  <2>2. call.packages[k].stem \in Stems
    <3>1. k \in 1..Len(call.packages)
      BY <1>2, PackageOfList
    <3>2. call.packages[k] \in Packages
      BY <2>1, <3>1, CallFacts DEF SignTypes
    <3>3. QED
      BY <3>2 DEF Stems
  <2>3. QED
    BY <1>1, <1>4, <1>6, <2>1, <2>2 DEF Kept, Delivered
<1>10. FinishedInv'
  BY <1>1, <1>2, <1>6, <1>9 DEF FinishedInv
<1>11. QED
  BY <1>5, <1>6, <1>7, <1>8, <1>10

\* The archive is complete: it is this package's, signed for the identity expected.
LEMMA EndArchiveStep == ASSUME SignInv, EndArchive PROVE SignInv'
<1> USE DEF SignInv
<1> DEFINE a == [state |-> "whole", index |-> extracted.index, type |-> extracted.type,
                 blobs |-> extracted.blobs]
<1>1. /\ UNCHANGED <<call, remaining, package, extracted, installed, signed>>
      /\ pc = "archiving" /\ pc' = "cleanup" /\ output' = [output EXCEPT ![package.stem] = a]
      /\ latest' = [latest EXCEPT ![package.stem] = package]
  BY DEF EndArchive, Goto, working
<1>2. pc \in Working /\ pc' \in Working \ {"download"}
  BY <1>1 DEF Working, Signing, Installing, Preparing
<1>3. package = Current /\ package \in Packages /\ package.stem \in Stems
  BY <1>1, <1>2, PackageOfList DEF PackageInv, Signing
<1>4. /\ output' = [s \in Stems |-> output'[s]] /\ output'[package.stem] = a
      /\ \A s \in Stems \ {package.stem} : output'[s] = output[s]
  BY <1>1, <1>3, Replace DEF SignTypes
<1>5. /\ latest' = [s \in Stems |-> latest'[s]] /\ latest'[package.stem] = package
      /\ \A s \in Stems \ {package.stem} : latest'[s] = latest[s]
  BY <1>1, <1>3, Replace DEF SignTypes
<1>6. SignTypes'
  BY <1>1, <1>2, <1>4, <1>5 DEF SignTypes
<1>7. ListInv' /\ CountInv' /\ Finished' = Finished /\ Current' = Current
  BY <1>1, <1>2, StillWorking
<1>8. /\ extracted.blobs = package.blobs \cup {blob, SigConfig(blob), sigManifest}
      /\ extracted.index[1].digest = content /\ extracted.index[2].digest = sigManifest
      /\ content \in package.blobs /\ identity = Expected(content, package)
      /\ blob = SignedBlob(identity, content) /\ signature.over = blob
      /\ sigManifest = SigManifest(blob, signature, cert)
  BY <1>1 DEF ExtractInv, ChainInv, Signing
<1>9. ArchiveOf(a, package) /\ SignatureOf(a).layer.identity = Expected(a.index[1].digest, package)
  <2>1. a.index[1].digest = content /\ SignatureOf(a) = sigManifest /\ a.blobs = extracted.blobs
    BY <1>8 DEF SignatureOf
  <2>2. /\ sigManifest.layer = blob /\ sigManifest.config = SigConfig(blob)
        /\ sigManifest.signature = signature
    BY <1>8 DEF SigManifest
  <2>3. blob.image = content /\ blob.identity = identity
    BY <1>8 DEF SignedBlob
  <2>4. Added(a) = {sigManifest, blob, SigConfig(blob)}
    BY <2>1, <2>2 DEF Added
  <2> HIDE DEF a
  <2>5. a.blobs = package.blobs \cup Added(a)
    BY <1>8, <2>1, <2>4
  <2>6. QED
    BY <1>8, <2>1, <2>2, <2>3, <2>5 DEF ArchiveOf
<1>10. Whole(a)
  BY DEF Whole
<1> HIDE DEF a
<1>11. ArchiveInv'
  <2>1. ASSUME NEW s \in Stems, s = package.stem PROVE NameInv(s)'
    BY <1>1, <1>3, <1>4, <1>5, <1>9, <2>1 DEF ArchiveInv, NameInv, Expected
  <2>2. ASSUME NEW s \in Stems, s # package.stem PROVE NameInv(s)'
    BY <1>1, <1>4, <1>5, <2>2 DEF ArchiveInv, NameInv, Expected
  <2>3. QED
    BY <2>1, <2>2 DEF ArchiveInv
<1>12. PackageInv' /\ ExtractInv' /\ ChainInv'
  BY <1>1, <1>3, <1>7 DEF PackageInv, ExtractInv, ChainInv, Signing
<1>13. InWork'
  BY <1>1, <1>4, <1>5, <1>9, <1>10 DEF InWork, ArchiveOf
<1>14. \A k \in 1..Finished : call.packages[k] # Blank /\ Kept(k) => Kept(k)'
  <2>1. SUFFICES ASSUME NEW k \in 1..Finished, call.packages[k] # Blank, Kept(k),
                        call.packages[k].stem # package.stem
                 PROVE  Kept(k)'
    BY <1>1 DEF Kept, Installing
  <2>2. call.packages[k].stem \in Stems
    <3>1. k \in 1..Len(call.packages)
      BY <1>2, PackageOfList
    <3>2. call.packages[k] \in Packages
      BY <2>1, <3>1, CallFacts DEF SignTypes
    <3>3. QED
      BY <3>2 DEF Stems
  <2>3. QED
    BY <1>1, <1>4, <1>5, <1>7, <2>1, <2>2 DEF Kept, Delivered
<1>15. FinishedInv'
  BY <1>1, <1>2, <1>7, <1>14 DEF FinishedInv
<1>16. QED
  BY <1>6, <1>7, <1>11, <1>12, <1>13, <1>15

\* The extracted files go; the archive stays.
LEMMA RemoveStep == ASSUME SignInv, RemoveExtracted PROVE SignInv'
<1> USE DEF SignInv
<1>1. /\ UNCHANGED <<call, remaining, package, output, installed, signed, latest>>
      /\ pc = "cleanup" /\ pc' = (IF call.install THEN "install" ELSE "signed")
      /\ extracted' = NoFiles
  BY DEF RemoveExtracted, Goto, working
<1>2. pc \in Working /\ pc' \in Working \ {"download"} /\ pc \in Installing /\ pc' \in Installing
  BY <1>1 DEF Working, Installing
<1>3. SignTypes'
  BY <1>1, <1>2 DEF SignTypes, NoFiles
<1>4. ListInv' /\ CountInv' /\ Finished' = Finished /\ Current' = Current
  BY <1>1, <1>2, StillWorking
<1>5. ArchiveInv' /\ FinishedInv'
  BY <1>1, <1>2, <1>4, SameArchives, SameFinished
<1>6. PackageInv' /\ ExtractInv' /\ ChainInv'
  BY <1>1, <1>2, <1>4 DEF PackageInv, ExtractInv, ChainInv, Signing, Installing
<1>7. InWork'
  BY <1>1, <1>2 DEF InWork
<1>8. QED
  BY <1>3, <1>4, <1>5, <1>6, <1>7

\* The installed copy of this name is opened, then it is a copy of the archive.
LEMMA InstallStep == ASSUME SignInv, BeginInstall \/ EndInstall PROVE SignInv'
<1> USE DEF SignInv
<1>1. PICK v :
        /\ UNCHANGED <<call, remaining, package, extracted, output, signed, latest>>
        /\ installed' = [installed EXCEPT ![package.stem] = v]
        /\ \/ pc = "install" /\ pc' = "installing" /\ v = Partial
           \/ pc = "installing" /\ pc' = "signed" /\ v = output[package.stem]
  BY DEF BeginInstall, EndInstall, Goto, working
<1>2. pc \in Working /\ pc' \in Working \ {"download"} /\ pc \in Installing /\ pc' \in Installing
  BY <1>1 DEF Working, Installing
<1>3. package = Current /\ package.stem \in Stems
  BY <1>2, PackageOfList DEF PackageInv
<1>4. /\ installed' = [s \in Stems |-> installed'[s]] /\ installed'[package.stem] = v
      /\ \A s \in Stems \ {package.stem} : installed'[s] = installed[s]
  BY <1>1, <1>3, Replace DEF SignTypes
<1>5. SignTypes'
  BY <1>1, <1>2, <1>4 DEF SignTypes
<1>6. ListInv' /\ CountInv' /\ Finished' = Finished /\ Current' = Current
  BY <1>1, <1>2, StillWorking
<1>7. ArchiveInv'
  <2>1. ~Whole(Partial)
    BY DEF Whole, Partial
  <2>2. ASSUME NEW s \in Stems, s = package.stem PROVE NameInv(s)'
    BY <1>1, <1>4, <2>1, <2>2 DEF ArchiveInv, NameInv, Expected
  <2>3. ASSUME NEW s \in Stems, s # package.stem PROVE NameInv(s)'
    BY <1>1, <1>4, <2>3 DEF ArchiveInv, NameInv, Expected
  <2>4. QED
    BY <2>2, <2>3 DEF ArchiveInv
<1>8. PackageInv' /\ ExtractInv' /\ ChainInv'
  BY <1>1, <1>2, <1>6 DEF PackageInv, ExtractInv, ChainInv, Signing, Installing
<1>9. InWork'
  BY <1>1, <1>2, <1>4 DEF InWork
<1>10. \A k \in 1..Finished : call.packages[k] # Blank /\ Kept(k) => Kept(k)'
  <2>1. SUFFICES ASSUME NEW k \in 1..Finished, call.packages[k] # Blank, Kept(k),
                        call.packages[k].stem # package.stem
                 PROVE  Kept(k)'
    BY <1>1, <1>2 DEF Kept
  <2>2. call.packages[k].stem \in Stems
    <3>1. k \in 1..Len(call.packages)
      BY <1>2, PackageOfList
    <3>2. call.packages[k] \in Packages
      BY <2>1, <3>1, CallFacts DEF SignTypes
    <3>3. QED
      BY <3>2 DEF Stems
  <2>3. QED
    BY <1>1, <1>4, <1>6, <2>1, <2>2 DEF Kept, Delivered
<1>11. FinishedInv'
  BY <1>1, <1>2, <1>6, <1>10 DEF FinishedInv
<1>12. QED
  BY <1>5, <1>6, <1>7, <1>8, <1>9, <1>11

\* The package in work is finished; it stands in for those whose name it took.
LEMMA SignedStep == ASSUME SignInv, PackageSigned PROVE SignInv'
<1> USE DEF SignInv
<1>1. /\ UNCHANGED <<call, remaining, package, extracted, output, installed,
                     latest>> /\ pc = "signed"
      /\ pc' = (IF call.batch THEN "next" ELSE "done")
      /\ signed' = (IF call.batch THEN signed + 1 ELSE signed) /\ call \in Calls
  BY DEF PackageSigned, Goto, working, files, SignTypes
<1>2. pc \in Working /\ pc \in Installing /\ pc' \notin Working /\ pc' \notin Opening
  BY <1>1 DEF Working, Preparing, Signing, Installing, Opening
<1>3. package = Current /\ Current \in Packages /\ Current # Blank
      /\ Taken \in 1..Len(call.packages) /\ Finished = Taken - 1
  BY <1>2, PackageOfList DEF PackageInv, ListInv
<1>4. Taken' = Taken /\ Finished' = Taken /\ Finished' \in Nat /\ Finished \in Nat
  <2>1. Taken' = Taken
    BY <1>1 DEF Taken
  <2>2. Len(call.packages) \in Nat
    BY <1>1, CallFacts
  <2>3. QED
    BY <1>2, <1>3, <2>1, <2>2 DEF Finished
<1>5. SignTypes'
  BY <1>1 DEF SignTypes, Ended
<1>6. ArchiveInv'
  BY <1>1, SameArchives
<1>7. PackageInv' /\ ExtractInv' /\ ChainInv' /\ InWork'
  BY <1>1 DEF PackageInv, ExtractInv, ChainInv, InWork, Signing, Installing
<1>8. ListInv'
  <2>1. CASE call.batch
    BY <1>1, <1>2, <1>4, <2>1 DEF ListInv
  <2>2. CASE ~call.batch
    <3>1. Taken' = 1 /\ Len(call.packages) = 1
      <4>1. Taken = 1 /\ Len(call.packages) <= 1 /\ Len(call.packages) \in Nat
        BY <1>1, <2>2, CallFacts DEF Taken
      <4>2. \A n \in Nat : 1 \in 1..n /\ n <= 1 => n = 1
        OBVIOUS
      <4>3. QED
        BY <1>3, <1>4, <4>1, <4>2
    <3>2. QED
      BY <1>1, <1>2, <2>2, <3>1 DEF ListInv
  <2>3. QED
    BY <2>1, <2>2
<1>9. ASSUME NEW p, p = package PROVE Delivered(p)'
  BY <1>1, <1>2, <1>9 DEF InWork, Delivered
<1>10. \A k \in 1..Finished' : call.packages[k] # Blank => Kept(k)'
  <2>1. TAKE k \in 1..Finished'
  <2>2. SUFFICES ASSUME call.packages[k] # Blank PROVE Kept(k)'
    OBVIOUS
  <2>3. CASE call.packages[k].stem = package.stem
    <3>1. PICK j \in 1..Finished' : j = Taken /\ k <= j
      BY <1>3, <1>4
    <3>2. call'.packages[j] = package
      BY <1>1, <1>3, <3>1 DEF Current
    <3>3. Delivered(call.packages[j])'
      BY <1>9, <3>2
    <3>4. QED
      BY <1>1, <1>3, <2>3, <3>1, <3>2, <3>3 DEF Kept
  <2>4. CASE call.packages[k].stem # package.stem
    <3>1. k \in 1..Finished
      BY <1>3, <1>4, <2>4 DEF Current
    <3>2. PICK j \in 1..Finished :
            /\ k <= j /\ call.packages[j] # Blank
            /\ call.packages[j].stem = call.packages[k].stem /\ Delivered(call.packages[j])
      BY <1>2, <2>2, <2>4, <3>1 DEF FinishedInv, Kept
    <3>3. j \in 1..Finished' /\ Delivered(call.packages[j])'
      BY <1>1, <1>3, <1>4, <3>2 DEF Delivered
    <3>4. QED
      BY <1>1, <3>2, <3>3 DEF Kept
  <2>5. QED
    BY <2>3, <2>4
<1>11. FinishedInv'
  BY <1>1, <1>10 DEF FinishedInv
<1>12. CountInv'
  <2>1. SUFFICES ASSUME call.batch
                 PROVE  signed' = Cardinality({k \in 1..Finished' : call.packages[k] # Blank})
    BY <1>1, <1>2 DEF CountInv
  <2> DEFINE before == {k \in 1..Finished : call.packages[k] # Blank}
  <2>2. {k \in 1..Finished' : call.packages[k] # Blank} = before \cup {Taken} /\ Taken \notin before
    BY <1>3, <1>4 DEF Current
  <2>3. IsFiniteSet(before)
    <3>1. IsFiniteSet(1..Finished)
      BY <1>4, FS_Interval
    <3>2. QED
      BY <3>1, FS_Subset
  <2>4. Cardinality(before \cup {Taken}) = Cardinality(before) + 1
    BY <2>2, <2>3, FS_AddElement
  <2>5. signed = Cardinality(before) /\ signed' = signed + 1
    BY <1>1, <1>2, <2>1 DEF CountInv
  <2>6. QED
    BY <2>2, <2>4, <2>5
<1>13. QED
  BY <1>5, <1>6, <1>7, <1>8, <1>11, <1>12

\* A failure, or the start of another run, keeps the archives and nothing else.
LEMMA FailStep == ASSUME SignInv, Fail PROVE SignInv'
<1>1. UNCHANGED <<call, extracted, output, installed, latest>> /\ pc' = "failed"
  BY DEF Fail, files
<1>2. SignTypes' /\ ArchiveInv'
  BY <1>1, SameArchives DEF SignInv, SignTypes, Ended
<1>3. QED
  BY <1>1, <1>2, Failing

LEMMA RunAgainStep == ASSUME SignInv, RunAgain PROVE SignInv'
<1>1. /\ UNCHANGED <<extracted, output, installed>> /\ call' \in Calls /\ pc' = "args"
      /\ signed' = 0 /\ latest' = [s \in Stems |-> Nothing]
  BY DEF RunAgain, Start, files
<1>2. SignTypes'
  BY <1>1 DEF SignInv, SignTypes, Opening
<1>3. \A s \in Stems : latest'[s] = Nothing
  BY <1>1
<1>4. ArchiveInv'
  BY <1>1, <1>3 DEF SignInv, ArchiveInv, NameInv
<1>5. pc' \notin Working /\ pc' \notin {"key", "cert", "start", "next", "done"} /\ signed' = 0
  BY <1>1 DEF Working, Preparing, Signing, Installing
<1>6. ListInv' /\ PackageInv' /\ ExtractInv' /\ ChainInv' /\ InWork' /\ FinishedInv' /\ CountInv'
  BY <1>5 DEF ListInv, PackageInv, ExtractInv, ChainInv, InWork, FinishedInv, CountInv,
              Working, Preparing, Signing, Installing
<1>7. QED
  BY <1>2, <1>4, <1>6 DEF SignInv

LEMMA SignStep == SignInv /\ [Next]_vars => SignInv'
<1> SUFFICES ASSUME SignInv, [Next]_vars PROVE SignInv'
  OBVIOUS
<1>1. CASE Step
  BY <1>1, OpeningStep, StartSigningStep, NextUrlStep, DownloadStep, SetUpStep, ExtractStep,
     FindStep,
     IdentityStep, SignBlobStep, ManifestStep, IndexStep, BeginArchiveStep, EndArchiveStep, RemoveStep,
     InstallStep, SignedStep DEF Step
<1>2. CASE UNCHANGED vars
  <2>1. UNCHANGED <<call, pc, cert, remaining, package, content, identity, blob, signature,
                    sigManifest, extracted, output, installed, signed, latest>>
    BY <1>2 DEF vars, working, files
  <2>2. Taken' = Taken /\ Finished' = Finished /\ Current' = Current
    BY <2>1 DEF Taken, Finished, Current
  <2>3. \A k : Kept(k)' <=> Kept(k)
    BY <2>1, <2>2 DEF Kept, Delivered
  <2>4. SignTypes' /\ ListInv' /\ PackageInv' /\ ExtractInv' /\ ChainInv'
    <3>1. SignTypes'
      BY <2>1 DEF SignInv, SignTypes
    <3>2. ListInv'
      BY <2>1, <2>2 DEF SignInv, ListInv
    <3>3. PackageInv'
      BY <2>1, <2>2 DEF SignInv, PackageInv
    <3>4. ExtractInv'
      BY <2>1 DEF SignInv, ExtractInv
    <3>5. ChainInv'
      BY <2>1 DEF SignInv, ChainInv, Expected
    <3>6. QED
      BY <3>1, <3>2, <3>3, <3>4, <3>5
  <2>5. ArchiveInv' /\ InWork' /\ FinishedInv' /\ CountInv'
    BY <2>1, <2>2, <2>3, SameArchives DEF SignInv, InWork, FinishedInv, CountInv
  <2>6. QED
    BY <2>4, <2>5 DEF SignInv
<1>3. QED
  BY <1>1, <1>2, FailStep, RunAgainStep DEF Next

\* The invariant holds in every reachable state.
THEOREM SignInvariance == Spec => []SignInv
BY InitSign, SignStep, PTL DEF Spec

\* For any packages, any command lines and any number of runs in one directory, each of which
\* may fail at any step: a whole archive leads to a manifest and to the signature of that.
THEOREM SignatureResolvesCorrect == Spec => []SignatureResolves
<1>1. SignInv => SignatureResolves
  <2> SUFFICES ASSUME SignInv, NEW a \in Archives
               PROVE  /\ {a.index[1].digest} \cup Added(a) \subseteq a.blobs
                      /\ SignatureOf(a).layer.image = a.index[1].digest
                      /\ SignatureOf(a).signature.over = SignatureOf(a).layer
    BY DEF SignatureResolves
  <2>1. PICK s \in Stems : Whole(a) /\ (a = output[s] \/ a = installed[s])
    BY DEF Archives, Range, SignInv, SignTypes
  <2>2. PICK p \in Packages : ArchiveOf(a, p)
    BY <2>1 DEF SignInv, ArchiveInv, NameInv
  <2>3. QED
    BY <2>2 DEF ArchiveOf
<1>2. QED
  BY <1>1, SignInvariance, PTL

\* Nothing of a package before it, or of a failed run, is in an archive, and the identity
\* signed is never that of the package before it.
THEOREM NothingFromBeforeCorrect == Spec => []NothingFromBefore
<1>1. SignInv => NothingFromBefore
  <2> SUFFICES ASSUME SignInv, NEW s \in Stems
               PROVE  /\ \A where \in {output, installed} :
                           Whole(where[s]) =>
                             \E p \in Packages : p.stem = s /\ where[s].blobs = p.blobs \cup Added(where[s])
                      /\ latest[s] # Nothing /\ Whole(output[s]) =>
                           SignatureOf(output[s]).layer.identity =
                             IF call.identity # "" THEN call.identity
                             ELSE OwnIdentity(output[s].index[1].digest, latest[s])
    BY DEF NothingFromBefore
  <2>1. NameInv(s)
    BY DEF SignInv, ArchiveInv
  <2>2. QED
    BY <2>1 DEF NameInv, ArchiveOf, Expected
<1>2. QED
  BY <1>1, SignInvariance, PTL

\* A run that ends well has delivered every package it was given, and a batch has counted them.
THEOREM SuccessIsCompleteCorrect == Spec => []SuccessIsComplete
<1>1. SignInv => SuccessIsComplete
  <2> SUFFICES ASSUME SignInv, pc = "done"
               PROVE  /\ \A k \in Given : \E j \in Given :
                           /\ k <= j /\ call.packages[j].stem = call.packages[k].stem
                           /\ Delivered(call.packages[j])
                      /\ call.batch => signed = Cardinality(Given)
    BY DEF SuccessIsComplete
  <2>1. pc \notin Working /\ pc \notin {"archiving"} \cup Installing
    BY DEF Working, Preparing, Signing, Installing
  <2>2. Finished = Len(call.packages)
    BY <2>1 DEF Finished, SignInv, ListInv
  <2>3. DOMAIN call.packages = 1..Finished
    BY <2>2, CallFacts DEF SignInv, SignTypes
  <2>4. Given = {k \in 1..Finished : call.packages[k] # Blank}
    BY <2>3 DEF Given
  <2>5. \A k \in Given : Kept(k)
    BY <2>4 DEF SignInv, FinishedInv
  <2>6. \A k \in Given : \E j \in Given :
          /\ k <= j /\ call.packages[j].stem = call.packages[k].stem
          /\ Delivered(call.packages[j])
    BY <2>1, <2>4, <2>5 DEF Kept
  <2>7. QED
    BY <2>4, <2>6 DEF SignInv, CountInv
<1>2. QED
  BY <1>1, SignInvariance, PTL
=============================================================================
