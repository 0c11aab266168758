--------------------------- MODULE UserlandProofs ---------------------------
(***************************************************************************)
(* The Marshal's boot (UserLayout), for every well-formed archive, every   *)
(* init.rc and any number of drivers, and the GPU driver's scan            *)
(* (GpuDriver), for every set of PCI functions.                            *)
(* LayoutInv is the inductive invariant of the boot.  Its part ParseInv    *)
(* ties the parser's offset to the header of the next file, which rests on *)
(* SizeIsRead: the eleven octal digits of a header are read back as the    *)
(* size they were written for.  SpawnInv ties the drivers spawned to the   *)
(* regions granted for them, from step to step of the one being loaded.    *)
(* RegionInv says what every region is; each kind lies in a zone of the    *)
(* address space of its own.                                               *)
(* ScanInv is the inductive invariant of the scan: the address register    *)
(* still names the slot when its data is read, and the log is what the     *)
(* displays in front of that slot call for.                                *)
(***************************************************************************)
EXTENDS UserLayout, GpuDriver, FiniteSetTheorems, WellFoundedInduction, TLAPS

\* How the well-founded order of the naturals is written in the library.
LEMMA LessThanRel ==
  ASSUME NEW k \in Nat, NEW m \in Nat, k < m
  PROVE  <<k, m>> \in OpToRel(<, Nat)
  BY Zenon DEF OpToRel

\* A set of naturals that is not empty has a least element.
LEMMA LeastNatural ==
  ASSUME NEW T \in SUBSET Nat, T # {}
  PROVE  \E m \in T : \A k \in T : m <= k
<1>1. PICK m \in T : \A k \in T : ~ (<<k, m>> \in OpToRel(<, Nat))
  BY NatLessThanWellFounded, WFMin, Zenon
<1>2. \A k \in T : ~ (k < m)
  BY <1>1, LessThanRel, Zenon
<1> QED
  BY <1>2

\* Dividing by 8 once more moves on by one octal place.
LEMMA Places ==
  ASSUME NEW n \in Nat
  PROVE  /\ (n \div 134217728) \div 8 = n \div 1073741824
         /\ (n \div 16777216) \div 8 = n \div 134217728
         /\ (n \div 2097152) \div 8 = n \div 16777216
         /\ (n \div 262144) \div 8 = n \div 2097152
         /\ (n \div 32768) \div 8 = n \div 262144
         /\ (n \div 4096) \div 8 = n \div 32768
         /\ (n \div 512) \div 8 = n \div 4096
         /\ (n \div 64) \div 8 = n \div 512
         /\ (n \div 8) \div 8 = n \div 64
         /\ (n \div 1) = n
  BY SMT

\* Reading one more digit.
LEMMA DigitStep ==
  ASSUME NEW q \in Nat
  PROVE  Digit(q \div 8, q % 8) = q
  BY SMT DEF Digit

\* The first digit.
LEMMA FirstDigit ==
  ASSUME NEW q \in Nat, q < 8
  PROVE  Digit(0, q % 8) = q
  BY SMT DEF Digit

\* tar::parse reads back the size that the header's octal digits stand for.
LEMMA SizeIsRead ==
  ASSUME NEW n \in Nat, n \div Place[1] < 8
  PROVE  SizeOf(Octal(n)) = n
<1> DEFINE q(i) == n \div Place[i]
           d == Octal(n)
<1>1. \A i \in 1..11 : q(i) \in Nat /\ d[i] = q(i) % 8
  BY SMT DEF Octal, Place
<1>2. /\ q(2) \div 8 = q(1) /\ q(3) \div 8 = q(2) /\ q(4) \div 8 = q(3) /\ q(5) \div 8 = q(4)
      /\ q(6) \div 8 = q(5) /\ q(7) \div 8 = q(6) /\ q(8) \div 8 = q(7) /\ q(9) \div 8 = q(8)
      /\ q(10) \div 8 = q(9) /\ q(11) \div 8 = q(10) /\ q(11) = n
  BY Places, SMT DEF Place
<1>3. q(1) < 8
  OBVIOUS
<1> HIDE DEF q, d
<1>4. Digit(0, d[1]) = q(1)
  BY <1>1, <1>3, FirstDigit
<1>5. /\ Digit(q(1), d[2]) = q(2) /\ Digit(q(2), d[3]) = q(3) /\ Digit(q(3), d[4]) = q(4)
      /\ Digit(q(4), d[5]) = q(5) /\ Digit(q(5), d[6]) = q(6) /\ Digit(q(6), d[7]) = q(7)
      /\ Digit(q(7), d[8]) = q(8) /\ Digit(q(8), d[9]) = q(9) /\ Digit(q(9), d[10]) = q(10)
      /\ Digit(q(10), d[11]) = q(11)
  BY <1>1, <1>2, DigitStep
<1>6. SizeOf(d) = q(11)
  BY <1>4, <1>5 DEF SizeOf, First5
<1> QED
  BY <1>2, <1>6 DEF d

\* The parser's rounding up to whole blocks leads from a header to the next one.
LEMMA NextHeader ==
  ASSUME NEW here \in Nat, NEW next \in Nat, NEW size \in Nat, here % 512 = 0, next % 512 = 0,
         here + 512 + size <= next, next < here + 512 + size + 512
  PROVE  next = here + 512 + PaddedSize(size)
  BY SMT DEF PaddedSize

\* The parts of an archive.
Files(a) == Len(a.files)
At(a, k) == a.at[k]
Size(a, k) == a.files[k].size
DataEnd(a, k) == At(a, k) + 512 + Size(a, k)

\* What the assumptions say of an archive.
LEMMA ArchiveFacts ==
  ASSUME NEW a \in Archives
  PROVE  /\ Files(a) \in Nat /\ Len(a.at) = Files(a) + 1 /\ At(a, 1) = 0
         /\ \A k \in 1..Files(a) + 1 : At(a, k) \in Nat
         /\ \A k \in 1..Files(a) :
              /\ a.files[k] \in File /\ FitsHeader(a.files[k]) /\ Size(a, k) \in Nat
              /\ DataEnd(a, k) \in Nat /\ At(a, k) + 512 <= DataEnd(a, k)
              /\ DataEnd(a, k) <= At(a, k + 1)
              /\ At(a, k + 1) = At(a, k) + 512 + PaddedSize(Size(a, k))
         /\ a.missing \in Nat /\ a.missing <= At(a, Files(a) + 1) + 1024
<1>1. a \in Archive /\ WellFormed(a)
      /\ \A k \in 1..Len(a.files) : FitsHeader(a.files[k])
  BY UserLayoutAssumption, Zenon
<1>2. a.files \in Seq(File) /\ a.at \in Seq(Nat) /\ a.missing \in Nat
  BY <1>1 DEF Archive
<1>3. Files(a) \in Nat /\ Len(a.at) = Files(a) + 1
  BY <1>1, <1>2 DEF WellFormed, Files
<1>4. \A k \in 1..Files(a) + 1 : At(a, k) \in Nat
  BY <1>2, <1>3 DEF At
<1>5. \A k \in 1..Files(a) : a.files[k] \in File
  BY <1>2 DEF Files
<1>6. \A k \in 1..Files(a) : Size(a, k) \in Nat
  BY <1>5 DEF Size, File
<1>7. ASSUME NEW k \in 1..Files(a)
      PROVE  /\ At(a, k) % 512 = 0 /\ At(a, k + 1) % 512 = 0
             /\ DataEnd(a, k) <= At(a, k + 1) /\ At(a, k + 1) < DataEnd(a, k) + 512
  <2>1. k \in 1..Len(a.files) /\ k \in 1..Len(a.at) /\ k + 1 \in 1..Len(a.at)
    BY <1>3 DEF Files
  <2>2. DataEnd(a, k) <= At(a, k + 1) /\ At(a, k + 1) < DataEnd(a, k) + 512
    BY <1>1, <2>1, SMT DEF WellFormed, DataEnd, At, Size
  <2>3. At(a, k) % 512 = 0 /\ At(a, k + 1) % 512 = 0
    BY <1>1, <2>1, SMTT(30) DEF WellFormed, At
  <2> QED
    BY <2>2, <2>3
<1>8. ASSUME NEW k \in 1..Files(a)
      PROVE  /\ DataEnd(a, k) \in Nat /\ At(a, k) + 512 <= DataEnd(a, k)
             /\ At(a, k + 1) = At(a, k) + 512 + PaddedSize(Size(a, k))
  <2>1. k + 1 \in 1..Files(a) + 1 /\ k \in 1..Files(a) + 1
    BY <1>3
  <2>2. At(a, k) \in Nat /\ At(a, k + 1) \in Nat /\ Size(a, k) \in Nat
    BY <1>4, <1>6, <2>1
  <2> QED
    BY <1>7, <2>2, NextHeader DEF DataEnd
<1>9. At(a, 1) = 0 /\ a.missing <= At(a, Files(a) + 1) + 1024
  BY <1>1, <1>3 DEF WellFormed, At
<1>10. \A k \in 1..Files(a) : FitsHeader(a.files[k])
  BY <1>1 DEF Files
<1> QED
  BY <1>2, <1>3, <1>4, <1>5, <1>6, <1>7, <1>8, <1>9, <1>10

\* A file ends before any later header.
LEMMA LaterHeader ==
  ASSUME NEW a \in Archives, NEW j \in 1..Files(a), NEW k \in 1..Files(a) + 1, j < k
  PROVE  DataEnd(a, j) <= At(a, k)
<1> DEFINE T == {m \in 1..Files(a) + 1 : j < m /\ ~ (DataEnd(a, j) <= At(a, m))}
<1>1. /\ Files(a) \in Nat /\ DataEnd(a, j) \in Nat /\ DataEnd(a, j) <= At(a, j + 1)
      /\ \A m \in 1..Files(a) + 1 : At(a, m) \in Nat
      /\ \A m \in 1..Files(a) :
           At(a, m) + 512 <= DataEnd(a, m) /\ DataEnd(a, m) <= At(a, m + 1)
           /\ DataEnd(a, m) \in Nat
  BY ArchiveFacts
<1>2. \A m \in 1..Files(a) : At(a, m) <= At(a, m + 1)
  BY <1>1
<1>3. SUFFICES ASSUME T # {} PROVE FALSE
  BY <1>1
<1>4. T \in SUBSET Nat
  BY <1>1
<1>5. PICK m \in T : \A i \in T : m <= i
  <2> HIDE DEF T
  <2> QED
    BY <1>3, <1>4, LeastNatural
<1>6. m \in 1..Files(a) + 1 /\ j < m /\ ~ (DataEnd(a, j) <= At(a, m))
  BY <1>5
<1>7. m # j + 1
  BY <1>1, <1>6
<1>8. m - 1 \in 1..Files(a) /\ m - 1 \in 1..Files(a) + 1 /\ j < m - 1
  BY <1>1, <1>6, <1>7
<1>9. m - 1 \notin T
  BY <1>1, <1>5, <1>6
<1>10. DataEnd(a, j) <= At(a, m - 1)
  BY <1>8, <1>9
<1>11. At(a, m - 1) <= At(a, (m - 1) + 1) /\ (m - 1) + 1 = m
  BY <1>2, <1>1, <1>6, <1>8
<1> QED
  BY <1>1, <1>6, <1>8, <1>10, <1>11

\* The header in a file's place is the file's.
LEMMA FileFound ==
  ASSUME archive \in Archives, NEW k \in 1..Files(archive)
  PROVE  IsFile(At(archive, k)) /\ FileAt(At(archive, k)) = k
<1>1. \A j \in 1..Files(archive) : At(archive, j) = At(archive, k) => j = k
  <2> SUFFICES ASSUME NEW i \in 1..Files(archive), NEW j \in 1..Files(archive), i < j
               PROVE  At(archive, i) < At(archive, j)
    <3>1. \A j \in 1..Files(archive) : j \in Nat /\ At(archive, j) \in Nat
      BY ArchiveFacts
    <3> QED
      BY <3>1
  <2>1. Files(archive) \in Nat /\ j \in 1..Files(archive) + 1 /\ i \in 1..Files(archive) + 1
    BY ArchiveFacts, SMTT(30)
  <2>2. DataEnd(archive, i) <= At(archive, j)
    BY <2>1, LaterHeader
  <2>3. /\ At(archive, i) + 512 <= DataEnd(archive, i) /\ DataEnd(archive, i) \in Nat
        /\ At(archive, i) \in Nat /\ At(archive, j) \in Nat
    BY <2>1, ArchiveFacts
  <2> QED
    BY <2>2, <2>3
<1> QED
  BY <1>1 DEF IsFile, FileAt, Files, At

\* There is no header where the zero blocks are.
LEMMA NoFileAtEnd ==
  ASSUME archive \in Archives
  PROVE  /\ FilesEnd = At(archive, Files(archive) + 1) /\ FilesEnd \in Nat
         /\ Length \in Nat /\ NameAt(FilesEnd) = ""
<1> DEFINE n == Files(archive)
<1>1. n \in Nat /\ n + 1 \in 1..n + 1
  BY ArchiveFacts
<1>2. FilesEnd = At(archive, n + 1) /\ FilesEnd \in Nat
  BY <1>1, ArchiveFacts DEF FilesEnd, At
<1>3. ASSUME NEW j \in 1..n PROVE At(archive, j) # FilesEnd
  <2>1. DataEnd(archive, j) <= FilesEnd
    BY <1>1, <1>2, LaterHeader
  <2>2. /\ At(archive, j) + 512 <= DataEnd(archive, j) /\ DataEnd(archive, j) \in Nat
        /\ At(archive, j) \in Nat
    BY <1>1, ArchiveFacts
  <2> QED
    BY <1>2, <2>1, <2>2
<1>4. ~ IsFile(FilesEnd)
  BY <1>3 DEF IsFile, Files, At
<1>5. archive.missing <= FilesEnd + 1024 /\ archive.missing \in Nat
  BY <1>2, ArchiveFacts
<1> QED
  BY <1>2, <1>4, <1>5 DEF NameAt, Length
-----------------------------------------------------------------------------
\* The objects found so far are the first files of the archive, and the parser is at
\* the header of the next one; or the next one is cut off, and nothing follows it.
Object == [name : STRING, start : Nat, len : Nat]
FilesFound ==
  /\ object_table \in Seq(Object) /\ Len(object_table) <= Files(archive)
  /\ \A k \in 1..Len(object_table) :
       object_table[k] = Entry(k) /\ DataEnd(archive, k) <= Length
AtNext == offset = At(archive, Len(object_table) + 1)
CutOff ==
  /\ Len(object_table) < Files(archive) /\ offset \in Nat /\ Length < offset
  /\ Length < DataEnd(archive, Len(object_table) + 1)
ParseInv ==
  /\ archive \in Archives /\ FilesFound /\ TableIsArchive
  /\ pc \in {"heap", "parse"} => AtNext \/ CutOff

\* What the parser reads in a file's place is the file's name and size.
LEMMA HeaderRead ==
  ASSUME archive \in Archives, NEW k \in 1..Files(archive), offset = At(archive, k)
  PROVE  /\ NameAt(offset) = archive.files[k].name /\ NameAt(offset) # ""
         /\ SizeOf(DigitsAt(offset)) = Size(archive, k)
<1>1. IsFile(offset) /\ FileAt(offset) = k
  BY FileFound
<1>2. FitsHeader(archive.files[k]) /\ Size(archive, k) \in Nat
  BY ArchiveFacts
<1>3. Size(archive, k) \div Place[1] < 8 /\ archive.files[k].name # ""
  BY <1>2, Zenon DEF FitsHeader, Size
<1>4. SizeOf(Octal(Size(archive, k))) = Size(archive, k)
  BY <1>2, <1>3, SizeIsRead
<1> QED
  BY <1>1, <1>3, <1>4 DEF NameAt, DigitsAt, Size

\* A file's object.
LEMMA EntryType ==
  ASSUME archive \in Archives, NEW k \in 1..Files(archive)
  PROVE  /\ Entry(k) \in Object /\ Entry(k).start + Entry(k).len = DataEnd(archive, k)
         /\ Entry(k).start = At(archive, k) + 512
<1>1. archive.files[k] \in File /\ At(archive, k) \in Nat
  BY ArchiveFacts
<1>2. archive.files[k].name \in STRING /\ Size(archive, k) \in Nat
  BY <1>1 DEF File, Size
<1> QED
  BY <1>1, <1>2 DEF Entry, Object, DataEnd, At, Size

\* Nothing about the archive changes when the archive does not.
LEMMA ArchiveKept ==
  ASSUME archive' = archive
  PROVE  Length' = Length /\ (\A k : Entry(k)' = Entry(k)) /\ \A o : FileAt(o)' = FileAt(o)
  BY DEF Length, FilesEnd, Entry, FileAt

\* One turn of the loop of tar::parse takes the next file, or finds it cut off.
LEMMA ParseEntryStep ==
  ASSUME ParseInv, ParseEntry
  PROVE  ParseInv'
<1> DEFINE n == Len(object_table)
<1>1. archive \in Archives /\ FilesFound /\ AtHeader /\ (AtNext \/ CutOff) /\ pc = "parse"
  BY DEF ParseInv, ParseEntry
<1>2. archive' = archive /\ pc' = pc
  BY DEF ParseEntry
<1>3. n \in Nat /\ n <= Files(archive) /\ Files(archive) \in Nat
  BY <1>1, ArchiveFacts DEF FilesFound
<1>4. Length \in Nat
  BY <1>1, NoFileAtEnd
<1>5. AtNext
  <2>1. offset + 512 <= Length
    BY <1>1 DEF AtHeader
  <2>2. ~ CutOff
    BY <1>4, <2>1 DEF CutOff
  <2> QED
    BY <1>1, <2>2
<1>6. n < Files(archive)
  <2>1. n # Files(archive)
    BY <1>1, <1>5, NoFileAtEnd DEF AtNext, AtHeader
  <2> QED
    BY <1>3, <2>1
<1>7. n + 1 \in 1..Files(archive)
  BY <1>3, <1>6
<1>8. NameAt(offset) = archive.files[n + 1].name /\ SizeOf(DigitsAt(offset)) = Size(archive, n + 1)
  BY <1>1, <1>5, <1>7, HeaderRead DEF AtNext
<1>9. offset' = At(archive, (n + 1) + 1)
  BY <1>1, <1>5, <1>7, <1>8, ArchiveFacts DEF ParseEntry, AtNext
<1>10. offset + 512 + Size(archive, n + 1) = DataEnd(archive, n + 1)
  BY <1>5 DEF AtNext, DataEnd
<1>11. Entry(n + 1) = [name |-> NameAt(offset), start |-> offset + 512,
                       len |-> Size(archive, n + 1)]
  BY <1>5, <1>8 DEF Entry, AtNext, At, Size
<1>12. TableIsArchive'
  BY <1>1, <1>2 DEF TableIsArchive
<1>13. CASE DataEnd(archive, n + 1) <= Length
  <2>1. object_table' = Append(object_table, Entry(n + 1))
    BY <1>8, <1>10, <1>11, <1>13 DEF ParseEntry
  <2>2. Entry(n + 1) \in Object
    BY <1>1, <1>7, EntryType
  <2>3. Len(object_table') = n + 1 /\ object_table' \in Seq(Object)
    BY <1>1, <2>1, <2>2 DEF FilesFound
  <2>4. \A k \in 1..n + 1 : object_table'[k] = Entry(k) /\ DataEnd(archive, k) <= Length
    BY <1>1, <1>3, <1>13, <2>1, <2>2 DEF FilesFound
  <2>5. FilesFound'
    BY <1>2, <1>3, <1>6, <2>3, <2>4, ArchiveKept DEF FilesFound
  <2> QED
    BY <1>1, <1>2, <1>9, <1>12, <2>3, <2>5 DEF ParseInv, AtNext
<1>14. CASE ~ (DataEnd(archive, n + 1) <= Length)
  <2>1. object_table' = object_table
    BY <1>8, <1>10, <1>14 DEF ParseEntry
  <2>2. DataEnd(archive, n + 1) <= offset' /\ DataEnd(archive, n + 1) \in Nat /\ offset' \in Nat
    BY <1>1, <1>3, <1>7, <1>9, ArchiveFacts
  <2>3. Length < DataEnd(archive, n + 1) /\ Length < offset'
    BY <1>4, <1>14, <2>2
  <2>4. CutOff'
    BY <1>2, <1>6, <2>1, <2>2, <2>3, ArchiveKept DEF CutOff
  <2>5. FilesFound'
    BY <1>1, <1>2, <2>1, ArchiveKept DEF FilesFound
  <2> QED
    BY <1>1, <1>2, <1>12, <2>4, <2>5 DEF ParseInv
<1> QED
  BY <1>13, <1>14

\* When the loop of tar::parse ends, no file that is whole is left.
LEMMA ParseEndStep ==
  ASSUME ParseInv, ParseEnd
  PROVE  ParseInv'
<1> DEFINE n == Len(object_table)
<1>1. archive \in Archives /\ FilesFound /\ ~ AtHeader /\ (AtNext \/ CutOff)
  BY DEF ParseInv, ParseEnd
<1>2. archive' = archive /\ object_table' = object_table /\ offset' = offset /\ pc' = "object"
  BY DEF ParseEnd, parser
<1>3. n \in Nat /\ n <= Files(archive) /\ Files(archive) \in Nat /\ Length \in Nat
  <2>1. Length \in Nat
    BY <1>1, NoFileAtEnd
  <2> QED
    BY <1>1, <2>1, ArchiveFacts DEF FilesFound
<1>4. ASSUME NEW k \in 1..Files(archive), n < k
      PROVE  Length < DataEnd(archive, k)
  <2>1. /\ n + 1 \in 1..Files(archive) /\ n + 1 \in 1..Files(archive) + 1
        /\ k \in 1..Files(archive) + 1
    BY <1>3, <1>4
  <2>2. /\ DataEnd(archive, k) \in Nat /\ At(archive, k) + 512 <= DataEnd(archive, k)
        /\ DataEnd(archive, n + 1) \in Nat /\ At(archive, n + 1) + 512 <= DataEnd(archive, n + 1)
        /\ At(archive, k) \in Nat /\ At(archive, n + 1) \in Nat
    BY <1>1, <2>1, ArchiveFacts
  <2>3. DataEnd(archive, n + 1) <= DataEnd(archive, k)
    <3>1. CASE k = n + 1
      BY <2>2, <3>1
    <3>2. CASE n + 1 < k
      BY <1>1, <2>1, <2>2, <3>2, LaterHeader
    <3> QED
      BY <1>3, <1>4, <3>1, <3>2
  <2>4. Length < DataEnd(archive, n + 1)
    <3>1. CASE CutOff
      BY <1>3, <2>2, <3>1 DEF CutOff
    <3>2. CASE AtNext
      <4>1. NameAt(offset) # ""
        BY <1>1, <2>1, <3>2, HeaderRead DEF AtNext
      <4>2. ~ (At(archive, n + 1) + 512 <= Length)
        BY <1>1, <3>2, <4>1, ZenonT(30) DEF AtHeader, AtNext
      <4> QED
        BY <1>3, <2>2, <4>2
    <3> QED
      BY <1>1, <3>1, <3>2
  <2> QED
    BY <1>3, <2>2, <2>3, <2>4
<1>5. \A k \in 1..Files(archive) : k <= n <=> DataEnd(archive, k) <= Length
  <2>1. \A k \in 1..Files(archive) : k \in Nat /\ DataEnd(archive, k) \in Nat
    BY <1>1, ArchiveFacts
  <2>2. \A k \in 1..n : DataEnd(archive, k) <= Length
    BY <1>1 DEF FilesFound
  <2> QED
    BY <1>3, <1>4, <2>1, <2>2
<1>6. \A k \in 1..Files(archive) : k <= n <=> Entry(k).start + Entry(k).len <= Length
  BY <1>1, <1>5, EntryType
<1>7. TableIsArchive'
  BY <1>1, <1>2, <1>6, ArchiveKept DEF TableIsArchive, FilesFound, Files
<1>8. FilesFound'
  BY <1>1, <1>2, ArchiveKept DEF FilesFound
<1> QED
  BY <1>1, <1>2, <1>7, <1>8 DEF ParseInv
-----------------------------------------------------------------------------
\* Where the n-th driver's stack is.
Base(n) == StackBase + 16 * (n - 1)

\* The stacks follow each other, and no two are in one place.
LEMMA Bases ==
  /\ \A n \in Nat \ {0} : Base(n) \in Nat /\ Step(Base(n)) = Base(n + 1)
  /\ \A n \in Nat \ {0} : Base(n) + 1 \in Nat /\ (Base(n) + 1) - 1 = Base(n)
  /\ \A n, m \in Nat \ {0} : Base(n) + 1 = Base(m) + 1 => n = m
  BY SMT DEF Base, StackBase, Step

\* The drivers spawned have their images and stacks; so has, from step to step, the
\* one that is being loaded.
Spawned == [file : File, sp : Nat]
Images == {f \in File : ImageFits(f)}
SpawnInv ==
  /\ drv_obj \in Nat \ {0} /\ spawned \in Seq(Spawned)
  /\ current_stack_base = Base(Len(spawned) + 1)
  /\ \A i \in 1..Len(spawned) :
       /\ spawned[i].sp = Base(i) + 1
       /\ DriverImage(i, spawned[i].file) \in regions /\ DriverStack(i, Base(i)) \in regions
  /\ pc \in {"stack", "spawn"} =>
       /\ drv_obj <= Len(object_table) /\ Content(Candidate) \in Images
       /\ DriverImage(Len(spawned) + 1, Content(Candidate)) \in regions
  /\ pc = "spawn" => DriverStack(Len(spawned) + 1, current_stack_base) \in regions

\* What each region is.
IsStack(r) ==
  \E n \in 1..Len(spawned) + 1 :
    (n = Len(spawned) + 1 => pc = "spawn") /\ r = DriverStack(n, Base(n))
IsDriverImage(r) ==
  \E n \in 1..Len(spawned) + 1 : \E f \in Images :
    /\ r = DriverImage(n, f)
    /\ n = Len(spawned) + 1 => pc \in {"stack", "spawn"} /\ f = Content(Candidate)
RegionInv ==
  \A r \in regions :
    \/ r \in {MarshalImage, FirstStack, Heap, SharedPage, Framebuffer}
    \/ r = DeepStack /\ pc = "wasm"
    \/ IsDriverImage(r) \/ IsStack(r)

\* The file of an object is the file the archive has in its place.
LEMMA CandidateFile ==
  ASSUME ParseInv, drv_obj \in 1..Len(object_table)
  PROVE  /\ Content(Candidate) \in File
         /\ Content(Candidate).blocks > 0 => Content(Candidate) \in Images
<1>1. archive \in Archives /\ drv_obj \in 1..Files(archive) /\ Candidate = Entry(drv_obj)
  BY ArchiveFacts DEF ParseInv, FilesFound, Candidate
<1>2. At(archive, drv_obj) \in Nat /\ archive.files[drv_obj] \in File
  BY <1>1, ArchiveFacts
<1>3. Candidate.start - 512 = At(archive, drv_obj)
  BY <1>1, <1>2, EntryType
<1>4. Content(Candidate) = archive.files[drv_obj]
  BY <1>1, <1>3, FileFound DEF Content
<1>5. archive.files[drv_obj].blocks > 0 => ImageFits(archive.files[drv_obj])
  BY <1>1, RoomAssumption, Zenon DEF Files
<1> QED
  BY <1>2, <1>4, <1>5 DEF Images

\* The object being loaded stays the same while the loops do.
LEMMA CandidateKept ==
  ASSUME archive' = archive, object_table' = object_table, drv_obj' = drv_obj
  PROVE  Content(Candidate)' = Content(Candidate)
  BY DEF Content, Candidate, FileAt

\* The steps that grant nothing.
Quiet ==
  \/ ParseEntry \/ ParseEnd \/ NextObject \/ EndOfLines \/ NextLine \/ App \/ SkipObject
  \/ EndOfObjects
LEMMA QuietStep ==
  ASSUME SpawnInv, RegionInv, Quiet
  PROVE  SpawnInv' /\ RegionInv'
<1>1. UNCHANGED <<current_stack_base, regions, spawned>>
  BY DEF Quiet, ParseEntry, ParseEnd, NextObject, EndOfLines, NextLine, App, SkipObject,
         EndOfObjects, layout
<1>2. pc \notin {"stack", "spawn", "wasm"} /\ pc' \notin {"stack", "spawn"}
  BY SMTT(30) DEF Quiet, ParseEntry, ParseEnd, NextObject, EndOfLines, NextLine, App, SkipObject,
         EndOfObjects
<1>3. drv_obj' \in Nat \ {0}
  BY DEF SpawnInv, Quiet, ParseEntry, ParseEnd, NextObject, EndOfLines, NextLine, App, SkipObject,
         EndOfObjects, loops
<1>4. SpawnInv'
  BY <1>1, <1>2, <1>3 DEF SpawnInv
<1> QED
  BY <1>1, <1>2, <1>4, SMTT(30) DEF RegionInv, IsStack, IsDriverImage

\* The steps that grant something to the Marshal.
LEMMA MarshalStep ==
  ASSUME SpawnInv, RegionInv, InitHeap \/ MapDevices \/ SwitchStack
  PROVE  SpawnInv' /\ RegionInv'
<1>1. /\ UNCHANGED <<current_stack_base, spawned, drv_obj>>
      /\ pc \notin {"stack", "spawn", "wasm"} /\ pc' \notin {"stack", "spawn"}
  BY DEF InitHeap, MapDevices, SwitchStack, loops
<1>2. /\ \A r \in regions : r \in regions'
      /\ \A r \in regions' : \/ r \in regions \/ r \in {Heap, SharedPage, Framebuffer}
                             \/ r = DeepStack /\ pc' = "wasm"
  BY DEF InitHeap, MapDevices, SwitchStack
<1>3. SpawnInv'
  BY <1>1, <1>2 DEF SpawnInv
<1> QED
  BY <1>1, <1>2, <1>3 DEF RegionInv, IsStack, IsDriverImage

\* elf::load adds the image.
LEMMA LoadDriverStep ==
  ASSUME ParseInv, SpawnInv, RegionInv, LoadDriver
  PROVE  SpawnInv' /\ RegionInv'
<1> DEFINE image == DriverImage(Len(spawned) + 1, Content(Candidate))
<1>1. /\ UNCHANGED <<archive, object_table, drv_obj, current_stack_base, spawned>>
      /\ pc = "match" /\ pc' = "stack" /\ regions' = regions \cup {image}
      /\ drv_obj <= Len(object_table) /\ Content(Candidate).blocks > 0
  BY DEF LoadDriver, parser, loops, Named, IsElf
<1>2. Content(Candidate)' = Content(Candidate)
  BY <1>1, CandidateKept
<1>3. drv_obj \in 1..Len(object_table)
  BY <1>1 DEF SpawnInv, ParseInv, FilesFound
<1>4. Content(Candidate) \in Images /\ IsDriverImage(image)'
  <2>1. Content(Candidate) \in Images
    BY <1>1, <1>3, CandidateFile
  <2>2. Len(spawned) + 1 \in 1..Len(spawned) + 1
    BY DEF SpawnInv
  <2> QED
    BY <1>1, <1>2, <2>1, <2>2 DEF IsDriverImage
<1>5. image' = image
  BY <1>1, <1>2
<1> HIDE DEF image
<1>6. \A r \in regions : IsDriverImage(r) => IsDriverImage(r)'
  BY <1>1 DEF IsDriverImage
<1>7. \A r \in regions : IsStack(r) => IsStack(r)'
  BY <1>1 DEF IsStack
<1>8. SpawnInv'
  BY <1>1, <1>2, <1>4 DEF SpawnInv, image
<1> QED
  BY <1>1, <1>4, <1>5, <1>6, <1>7, <1>8 DEF RegionInv

\* The stack is granted at current_stack_base.
LEMMA GrantStackStep ==
  ASSUME SpawnInv, RegionInv, GrantStack
  PROVE  SpawnInv' /\ RegionInv'
<1> DEFINE new == DriverStack(Len(spawned) + 1, current_stack_base)
<1>1. /\ UNCHANGED <<archive, object_table, drv_obj, current_stack_base, spawned>>
      /\ pc = "stack" /\ pc' = "spawn" /\ regions' = regions \cup {new}
  BY DEF GrantStack, parser, loops, Stack
<1>2. Content(Candidate)' = Content(Candidate)
  BY <1>1, CandidateKept
<1>3. SpawnInv'
  BY <1>1, <1>2 DEF SpawnInv
<1>4. IsStack(new)'
  <2>1. Len(spawned) + 1 \in 1..Len(spawned) + 1
    BY DEF SpawnInv
  <2> QED
    BY <1>1, <2>1 DEF IsStack, SpawnInv
<1>5. \A r \in regions : IsStack(r) => IsStack(r)'
  BY <1>1 DEF IsStack
<1>6. \A r \in regions : IsDriverImage(r) => IsDriverImage(r)'
  BY <1>1, <1>2 DEF IsDriverImage
<1> QED
  BY <1>1, <1>3, <1>4, <1>5, <1>6 DEF RegionInv

\* The driver is spawned on it, and the next one's stack is further on.
LEMMA SpawnStep ==
  ASSUME ParseInv, SpawnInv, RegionInv, Spawn
  PROVE  SpawnInv' /\ RegionInv'
<1> DEFINE n == Len(spawned)
           new == [file |-> Content(Candidate), sp |-> current_stack_base + 1]
<1>1. /\ UNCHANGED <<object_table, regions>> /\ pc = "spawn" /\ pc' = "match"
      /\ drv_obj' = drv_obj + 1 /\ spawned' = Append(spawned, new)
      /\ current_stack_base' = Step(current_stack_base)
  BY DEF Spawn, parser
<1>2. n \in Nat /\ n + 1 \in Nat \ {0}
  BY DEF SpawnInv
<1>3. drv_obj \in 1..Len(object_table)
  BY <1>1 DEF SpawnInv, ParseInv, FilesFound
<1>4. new \in Spawned /\ new.sp = Base(n + 1) + 1 /\ new.file = Content(Candidate)
  <2>1. Content(Candidate) \in File
    BY <1>3, CandidateFile
  <2>2. current_stack_base = Base(n + 1) /\ Base(n + 1) + 1 \in Nat
    BY <1>2, Bases, Zenon DEF SpawnInv
  <2> QED
    BY <2>1, <2>2 DEF Spawned
<1>5. /\ DriverImage(n + 1, new.file) \in regions /\ DriverStack(n + 1, Base(n + 1)) \in regions
  BY <1>1, <1>4 DEF SpawnInv
<1> HIDE DEF new
<1>6. spawned' \in Seq(Spawned) /\ Len(spawned') = n + 1
  BY <1>1, <1>4 DEF SpawnInv
<1>7. \A i \in 1..n + 1 : spawned'[i] = IF i = n + 1 THEN new ELSE spawned[i]
  BY <1>1, <1>2, <1>4 DEF SpawnInv
<1>8. \A i \in 1..n + 1 :
        /\ spawned'[i].sp = Base(i) + 1
        /\ DriverImage(i, spawned'[i].file) \in regions /\ DriverStack(i, Base(i)) \in regions
  <2> TAKE i \in 1..n + 1
  <2>1. CASE i = n + 1
    BY <1>4, <1>5, <1>7, <2>1
  <2>2. CASE i # n + 1
    <3>1. i \in 1..n
      BY <1>2, <2>2
    <3> QED
      BY <1>7, <2>2, <3>1 DEF SpawnInv
  <2> QED
    BY <2>1, <2>2
<1>9. current_stack_base' = Base((n + 1) + 1)
  BY <1>1, <1>2, Bases DEF SpawnInv
<1>10. drv_obj' \in Nat \ {0}
  BY <1>1, SMTT(30) DEF SpawnInv
<1>11. SpawnInv'
  BY <1>1, <1>6, <1>8, <1>9, <1>10 DEF SpawnInv
<1>12. \A r \in regions : IsStack(r) => IsStack(r)'
  BY <1>2, <1>6 DEF IsStack
<1>13. \A r \in regions : IsDriverImage(r) => IsDriverImage(r)'
  BY <1>2, <1>6 DEF IsDriverImage
<1> QED
  BY <1>1, <1>11, <1>12, <1>13 DEF RegionInv

\* The inductive invariant of the boot.
LayoutInv == ParseInv /\ SpawnInv /\ RegionInv

\* The Marshal starts with an empty table, in an address space with its image and its
\* first stack.
LEMMA LayoutInit == Init => LayoutInv
<1> SUFFICES ASSUME Init PROVE LayoutInv
  OBVIOUS
<1> USE DEF Init
<1>1. ParseInv
  <2>1. Files(archive) \in Nat /\ At(archive, 1) = 0
    BY ArchiveFacts
  <2>2. FilesFound
    BY <2>1 DEF FilesFound
  <2>3. AtNext
    BY <2>1 DEF AtNext
  <2> QED
    BY <2>2, <2>3 DEF ParseInv, TableIsArchive
<1>2. SpawnInv
  <2>1. StackBase = Base(1)
    BY SMT DEF StackBase, Base
  <2> QED
    BY <2>1 DEF SpawnInv
<1>3. RegionInv
  BY DEF RegionInv
<1> QED
  BY <1>1, <1>2, <1>3 DEF LayoutInv

\* After the parser, its results do not change.
LEMMA ParsedKept ==
  ASSUME ParseInv, UNCHANGED <<archive, parser>>,
         pc' = pc \/ (pc = "heap" /\ pc' = "parse")
           \/ (pc \notin {"heap", "parse"} /\ pc' \notin {"heap", "parse"})
  PROVE  ParseInv'
<1>1. archive' = archive /\ object_table' = object_table /\ offset' = offset
  BY DEF parser
<1>2. FilesFound' /\ (AtNext' <=> AtNext) /\ (CutOff' <=> CutOff)
  BY <1>1, ArchiveKept DEF ParseInv, FilesFound, AtNext, CutOff
<1>3. TableIsArchive'
  BY <1>1, ArchiveKept DEF ParseInv, TableIsArchive
<1> QED
  BY <1>1, <1>2, <1>3 DEF ParseInv

\* The archive's files found, the drivers' regions and all regions together are
\* inductive: each step of the Marshal keeps them.
LEMMA LayoutStep == LayoutInv /\ [Next]_vars => LayoutInv'
<1> SUFFICES ASSUME LayoutInv, [Next]_vars PROVE LayoutInv'
  OBVIOUS
<1>1. ParseInv /\ SpawnInv /\ RegionInv
  BY DEF LayoutInv
<1>2. CASE ParseEntry
  BY <1>1, <1>2, ParseEntryStep, QuietStep DEF Quiet, LayoutInv
<1>3. CASE ParseEnd
  BY <1>1, <1>3, ParseEndStep, QuietStep DEF Quiet, LayoutInv
<1>4. CASE NextObject \/ EndOfLines \/ NextLine \/ App \/ SkipObject \/ EndOfObjects
  <2>1. ParseInv'
    BY <1>1, <1>4, ParsedKept
       DEF NextObject, EndOfLines, NextLine, App, SkipObject, EndOfObjects
  <2> QED
    BY <1>1, <1>4, <2>1, QuietStep DEF Quiet, LayoutInv
<1>5. CASE InitHeap \/ MapDevices \/ SwitchStack
  <2>1. ParseInv'
    BY <1>1, <1>5, ParsedKept DEF InitHeap, MapDevices, SwitchStack
  <2> QED
    BY <1>1, <1>5, <2>1, MarshalStep DEF LayoutInv
<1>6. CASE LoadDriver \/ GrantStack \/ Spawn
  <2>1. ParseInv'
    BY <1>1, <1>6, ParsedKept DEF LoadDriver, GrantStack, Spawn
  <2> QED
    BY <1>1, <1>6, <2>1, LoadDriverStep, GrantStackStep, SpawnStep, SMTT(30) DEF LayoutInv
<1>7. CASE UNCHANGED vars
  <2>1. ParseInv'
    BY <1>1, <1>7, ParsedKept DEF vars
  <2>2. UNCHANGED <<archive, object_table, drv_obj, pc, current_stack_base, regions, spawned>>
    BY <1>7 DEF vars, parser, loops, layout
  <2>3. SpawnInv'
    BY <1>1, <2>2, CandidateKept DEF SpawnInv
  <2>4. RegionInv'
    BY <1>1, <2>2, CandidateKept DEF RegionInv, IsStack, IsDriverImage
  <2> QED
    BY <2>1, <2>3, <2>4 DEF LayoutInv
<1> QED
  BY <1>2, <1>3, <1>4, <1>5, <1>6, <1>7 DEF Next

\* The inductive invariant of the Marshal's boot, for every archive, every init.rc
\* and any number of drivers.
THEOREM MarshalInvariance == Spec => []LayoutInv
  BY LayoutInit, LayoutStep, PTL DEF Spec

\* tar::parse finds the files of every well-formed archive, in their order and with
\* their own bytes, and leaves out exactly those cut off at its end.
THEOREM ParserIsRight == Spec => []TableIsArchive
<1>1. LayoutInv => TableIsArchive
  BY DEF LayoutInv, ParseInv
<1> QED
  BY <1>1, MarshalInvariance, PTL

\* The address space in zones, each from one edge to the next: the Marshal's image,
\* the drivers' images, the shared page, the framebuffer, the heap, the drivers'
\* stacks with the deep stack, and the first stack.
Edge == <<64, 128, 16384, 45056, 1073741824, 1610612736, 2147483645, 2147483647>>
InZone(r, z) ==
  r.lo \in Nat /\ r.hi \in Nat /\ Edge[z] <= r.lo /\ r.hi <= Edge[z + 1]

\* The edges are in order.
LEMMA EdgesOrdered ==
  ASSUME NEW y \in 1..7, NEW z \in 1..7, y < z
  PROVE  Edge[y] \in Nat /\ Edge[y + 1] \in Nat /\ Edge[z] \in Nat /\ Edge[y + 1] <= Edge[z]
  BY SMT DEF Edge

\* Regions of different zones do not collide.
LEMMA ZonesApart ==
  ASSUME NEW r, NEW s, NEW y \in 1..7, NEW z \in 1..7, y # z, InZone(r, y), InZone(s, z)
  PROVE  ~ Overlap(r, s)
<1>1. CASE y < z
  BY <1>1, EdgesOrdered DEF InZone, Overlap
<1>2. CASE z < y
  BY <1>2, EdgesOrdered DEF InZone, Overlap
<1> QED
  BY <1>1, <1>2

\* In which zone each region is.
LEMMA Zones ==
  /\ InZone(MarshalImage, 1) /\ InZone(SharedPage, 3) /\ InZone(Framebuffer, 4)
  /\ InZone(Heap, 5) /\ InZone(DeepStack, 6) /\ InZone(FirstStack, 7)
  /\ \A n \in 1..16 : InZone(DriverStack(n, Base(n)), 6)
  /\ \A n \in Nat : \A f \in Images :
       InZone(DriverImage(n, f), 2) /\ IsImage(DriverImage(n, f))
<1> USE DEF InZone, Edge, Region
<1>1. InZone(MarshalImage, 1)
  BY RoomAssumption, UserLayoutAssumption, SMT DEF MarshalImage, DriverBase
<1>2. InZone(SharedPage, 3) /\ InZone(Heap, 5) /\ InZone(DeepStack, 6) /\ InZone(FirstStack, 7)
  BY SMT DEF SharedPage, Heap, DeepStack, StackBase, FirstStack
<1>3. InZone(Framebuffer, 4)
  BY RoomAssumption, UserLayoutAssumption, SMT DEF Framebuffer, Heap
<1>4. \A n \in 1..16 : InZone(DriverStack(n, Base(n)), 6)
  BY SMT DEF DriverStack, Base, StackBase
<1>5. ASSUME NEW n \in Nat, NEW f \in Images
      PROVE  InZone(DriverImage(n, f), 2) /\ IsImage(DriverImage(n, f))
  BY SMT DEF Images, File, ImageFits, DriverImage, DriverBase, SharedPage, IsImage
<1> HIDE DEF InZone, Edge, Region
<1> QED
  BY <1>1, <1>2, <1>3, <1>4, <1>5, Zenon

\* Two stacks of drivers are apart, and the first 15 from the deep stack.
LEMMA StacksApart ==
  /\ \A n, m \in 1..16 : n # m => ~ Overlap(DriverStack(n, Base(n)), DriverStack(m, Base(m)))
  /\ \A n \in 1..15 : /\ ~ Overlap(DriverStack(n, Base(n)), DeepStack)
                      /\ ~ Overlap(DeepStack, DriverStack(n, Base(n)))
  BY SMT DEF Overlap, DriverStack, DeepStack, Base, StackBase, Region

\* No two regions of the address space collide, apart from the drivers' images, which
\* are where their linker scripts say, while at most 15 drivers are spawned.
THEOREM RegionsDisjoint == Spec => []LayoutDisjoint
<1>1. LayoutInv => LayoutDisjoint
  <2> SUFFICES ASSUME LayoutInv, Len(spawned) <= 15,
                      NEW r \in regions, NEW s \in regions, r # s,
                      ~ (IsImage(r) /\ IsImage(s))
               PROVE  ~ Overlap(r, s)
    BY DEF LayoutDisjoint
  <2> DEFINE OnStack(x) ==
               \E n \in 1..16 : x = DriverStack(n, Base(n)) /\ (n = 16 => pc = "spawn")
             Placed(x, z) ==
               /\ InZone(x, z)
               /\ z = 1 => x = MarshalImage
               /\ z = 2 => IsImage(x)
               /\ z = 3 => x = SharedPage
               /\ z = 4 => x = Framebuffer
               /\ z = 5 => x = Heap
               /\ z = 6 => OnStack(x) \/ (x = DeepStack /\ pc = "wasm")
               /\ z = 7 => x = FirstStack
  <2>1. ASSUME NEW x \in regions PROVE \E z \in 1..7 : Placed(x, z)
    <3>1. Len(spawned) \in Nat /\ RegionInv
      BY DEF LayoutInv, SpawnInv
    <3>2. CASE IsStack(x)
      <4>1. PICK n \in 1..Len(spawned) + 1 :
              (n = Len(spawned) + 1 => pc = "spawn") /\ x = DriverStack(n, Base(n))
        BY <3>2 DEF IsStack
      <4>2. n \in 1..16 /\ (n = 16 => n = Len(spawned) + 1)
        BY <3>1
      <4>3. Placed(x, 6)
        BY <4>1, <4>2, Zones, SMTT(30)
      <4> QED
        BY <4>3
    <3>3. CASE IsDriverImage(x)
      <4>1. Placed(x, 2)
        BY <3>3, Zones, SMTT(30) DEF IsDriverImage
      <4> QED
        BY <4>1
    <3>4. /\ Placed(MarshalImage, 1) /\ Placed(SharedPage, 3) /\ Placed(Framebuffer, 4)
          /\ Placed(Heap, 5) /\ (pc = "wasm" => Placed(DeepStack, 6)) /\ Placed(FirstStack, 7)
      BY Zones
    <3> HIDE DEF Placed
    <3> QED
      BY <3>1, <3>2, <3>3, <3>4, SMTT(30) DEF RegionInv
  <2>2. PICK y \in 1..7 : Placed(r, y)
    BY <2>1
  <2>3. PICK z \in 1..7 : Placed(s, z)
    BY <2>1
  <2>4. CASE y # z
    BY <2>2, <2>3, <2>4, ZonesApart, SMTT(30)
  <2>5. CASE y = z
    <3>1. y = 6
      BY <2>2, <2>3, <2>5, SMTT(30)
    <3>2. CASE OnStack(r) /\ OnStack(s)
      BY <3>2, StacksApart, SMTT(30)
    <3>3. CASE OnStack(r) /\ s = DeepStack /\ pc = "wasm"
      BY <3>3, StacksApart, SMTT(20)
    <3>4. CASE r = DeepStack /\ OnStack(s) /\ pc = "wasm"
      BY <3>4, StacksApart, SMTT(30)
    <3> QED
      BY <2>2, <2>3, <2>5, <3>1, <3>2, <3>3, <3>4, SMTT(30)
  <2> QED
    BY <2>4, <2>5
<1> QED
  BY <1>1, MarshalInvariance, PTL

\* What else is in the address space while a driver is spawned is away from its
\* image, unless it is the image of an earlier driver.
LEMMA ImageApart ==
  ASSUME LayoutInv, pc = "spawn", NEW r \in regions,
         NEW image, image = DriverImage(Len(spawned) + 1, Content(Candidate)),
         Content(Candidate) \in Images, r # image, Overlap(r, image)
  PROVE  IsImage(r) /\ r.who[2] < Len(spawned) + 1
<1>1. Len(spawned) \in Nat /\ RegionInv /\ Len(spawned) + 1 \in Nat
  BY DEF LayoutInv, SpawnInv
<1>2. InZone(image, 2)
  BY <1>1, Zones
<1>3. CASE r \in {MarshalImage, FirstStack, Heap, SharedPage, Framebuffer}
  BY <1>2, <1>3, Zones, ZonesApart, SMTT(30)
<1>4. CASE IsStack(r)
  <2>1. PICK n \in 1..Len(spawned) + 1 : r = DriverStack(n, Base(n))
    BY <1>4 DEF IsStack
  <2>2. image.hi \in Nat /\ image.hi <= 16384
    BY <1>2, SMT DEF InZone, Edge
  <2>3. r.lo \in Nat /\ r.lo >= 16384
    BY <1>1, <2>1, SMT DEF DriverStack, Region, Base, StackBase
  <2> QED
    BY <2>2, <2>3 DEF Overlap
<1>5. CASE IsDriverImage(r)
  <2>1. PICK n \in 1..Len(spawned) + 1 : \E f \in Images :
          r = DriverImage(n, f) /\ (n = Len(spawned) + 1 => f = Content(Candidate))
    BY <1>5 DEF IsDriverImage
  <2>2. n # Len(spawned) + 1
    BY <2>1
  <2>3. n \in Nat /\ n < Len(spawned) + 1
    BY <1>1, <2>2
  <2>4. IsImage(r)
    BY <2>1, <2>3, Zones
  <2>5. r.who[2] = n
    BY <2>1 DEF DriverImage, Region
  <2> QED
    BY <2>3, <2>4, <2>5
<1> QED
  BY <1>1, <1>3, <1>4, <1>5 DEF RegionInv

\* SYS_SPAWN_PROCESS is called for a driver with the driver's own image in memory and
\* a stack that has been granted to it and to none of the drivers before it, for
\* every archive and any number of drivers.
THEOREM SpawnedReady == Spec => SpawnedIsReady
<1> DEFINE n == Len(spawned) + 1
           Image(d) == DriverImage(n, d.file)
           Its(d) == DriverStack(n, d.sp - 1)
           Ready(d) ==
             /\ Image(d) \in regions /\ Its(d) \in regions
             /\ \A r \in regions \ {Image(d)} : Overlap(r, Image(d)) => IsImage(r) /\ r.who[2] < n
             /\ \A i \in 1..Len(spawned) : ~ Overlap(DriverStack(i, spawned[i].sp - 1), Its(d))
<1>1. ASSUME LayoutInv, [Next]_vars, spawned' # spawned PROVE Ready(spawned'[n])
  <2>1. Spawn
    BY <1>1, SMTT(20) DEF Next, vars, layout, InitHeap, ParseEntry, ParseEnd, NextObject, EndOfLines,
                NextLine, LoadDriver, GrantStack, App, SkipObject, EndOfObjects, MapDevices,
                SwitchStack
  <2>2. ParseInv /\ SpawnInv /\ n \in Nat \ {0}
    BY <1>1, SMTT(20) DEF LayoutInv, SpawnInv
  <2>3. pc = "spawn" /\ drv_obj \in 1..Len(object_table)
    BY <2>1, <2>2 DEF Spawn, SpawnInv, ParseInv, FilesFound
  <2>4. /\ spawned'[n].file = Content(Candidate)
        /\ spawned'[n].sp - 1 = Base(n) /\ current_stack_base = Base(n)
    <3>1. current_stack_base = Base(n) /\ (Base(n) + 1) - 1 = Base(n)
      BY <2>2, Bases, Zenon DEF SpawnInv
    <3>2. spawned'[n] = [file |-> Content(Candidate), sp |-> Base(n) + 1]
      BY <2>1, <2>2, <3>1, SMTT(20) DEF Spawn, SpawnInv
    <3> QED
      BY <3>1, <3>2
  <2>5. Image(spawned'[n]) \in regions /\ Its(spawned'[n]) \in regions
    BY <2>2, <2>3, <2>4, SMTT(20) DEF SpawnInv
  <2>6. Content(Candidate) \in Images
    BY <2>2, <2>3 DEF SpawnInv
  <2>7. \A r \in regions \ {Image(spawned'[n])} :
          Overlap(r, Image(spawned'[n])) => IsImage(r) /\ r.who[2] < n
    BY <1>1, <2>3, <2>4, <2>6, ImageApart, SMTT(20)
  <2>8. ASSUME NEW i \in 1..Len(spawned)
        PROVE  ~ Overlap(DriverStack(i, spawned[i].sp - 1), Its(spawned'[n]))
    <3>1. i \in Nat \ {0} /\ i < n /\ spawned[i].sp = Base(i) + 1
      BY <2>2, <2>8 DEF SpawnInv
    <3>2. spawned[i].sp - 1 = Base(i)
      BY <3>1, Bases, Zenon
    <3>3. ~ Overlap(DriverStack(i, Base(i)), DriverStack(n, Base(n)))
      BY <2>2, <3>1, SMTT(20) DEF Overlap, DriverStack, Region, Base, StackBase
    <3> QED
      BY <2>4, <3>2, <3>3, SMTT(20)
  <2> QED
    BY <2>5, <2>7, <2>8, SMTT(30)
<1>2. LayoutInv /\ [Next]_vars => [spawned' # spawned => Ready(spawned'[n])]_vars
  BY <1>1
<1> QED
  BY <1>2, MarshalInvariance, PTL DEF Spec, SpawnedIsReady
-----------------------------------------------------------------------------
\* The function 0 of the slot that is being scanned, if there is one.
Here == {f \in functions : f.bus = bus /\ f.slot = slot /\ f.func = 0}

\* What the assumption says of the functions of a machine.
LEMMA FunctionFacts ==
  ASSUME functions \in Topologies
  PROVE  /\ IsFiniteSet(functions)
         /\ \A f \in functions : /\ f.bus \in 0..255 /\ f.slot \in 0..31 /\ f.func \in 0..7
                                 /\ f.vendor \in Nat /\ f.vendor < 65535
                                 /\ f.class \in 0..255 /\ f.subclass \in 0..255
         /\ \A f, g \in functions :
              f.bus = g.bus /\ f.slot = g.slot /\ f.func = g.func => f = g
<1>1. functions \subseteq Function
  BY GpuDriverAssumption, SMTT(30)
<1>2. ASSUME NEW f \in Function
      PROVE  /\ f.bus \in 0..255 /\ f.slot \in 0..31 /\ f.func \in 0..7
             /\ f.vendor \in Nat /\ f.class \in 0..255 /\ f.subclass \in 0..255
  BY SMT DEF Function
<1>3. \A f, g \in functions :
        f.bus = g.bus /\ f.slot = g.slot /\ f.func = g.func => f = g
  BY GpuDriverAssumption, SMT
<1>4. IsFiniteSet(functions)
  BY GpuDriverAssumption, SMT
<1>5. \A f \in functions : f.vendor < 65535
  BY GpuDriverAssumption, SMT
<1> QED
  BY <1>1, <1>2, <1>3, <1>4, <1>5, SMT

\* A slot has at most one function 0.
LEMMA HereUnique ==
  ASSUME functions \in Topologies
  PROVE  \A f, g \in Here : f = g
<1>1. \A f, g \in functions :
        f.bus = g.bus /\ f.slot = g.slot /\ f.func = g.func => f = g
  BY FunctionFacts, SMT
<1> QED
  BY <1>1, SMT DEF Here

\* The PCI registers take an address apart as pci_read_32 put it together.
LEMMA AddressRead ==
  ASSUME NEW b \in 0..255, NEW s \in 0..31, NEW off \in {0, 8}
  PROVE  /\ (32768 + b) - 32768 = b
         /\ (s * 2048 + 0 * 256 + off) \div 2048 = s
         /\ ((s * 2048 + 0 * 256 + off) \div 256) % 8 = 0
         /\ (s * 2048 + 0 * 256 + off) % 256 = off
  BY SMT

\* A class register is taken apart as it was put together.
LEMMA ClassRead ==
  ASSUME NEW c \in 0..255, NEW d \in 0..255
  PROVE  (c * 256 + d) \div 256 = c
  BY SMT

\* What is read from port 0xCFC after a write of the current slot's address.
LEMMA PortInValue ==
  ASSUME functions \in Topologies, bus \in 0..255, slot \in 0..31, NEW off \in {0, 8},
         CONFIG_ADDRESS = address(0, off)
  PROVE  /\ Here = {} => PortIn = Word(65535, 65535)
         /\ \A f \in Here : PortIn = IF off = 0 THEN Word(f.device, f.vendor)
                                              ELSE Word(f.class * 256 + f.subclass, 0)
<1>1. /\ CONFIG_ADDRESS.hi - 32768 = bus /\ CONFIG_ADDRESS.lo \div 2048 = slot
      /\ (CONFIG_ADDRESS.lo \div 256) % 8 = 0 /\ CONFIG_ADDRESS.lo % 256 = off
  BY AddressRead DEF address, Word
<1>2. {f \in functions : Addressed(f)} = Here
  BY <1>1 DEF Addressed, Here
<1>3. ASSUME NEW f \in Here PROVE (CHOOSE g \in Here : TRUE) = f
  BY HereUnique
<1>4. Here = {} => PortIn = Word(65535, 65535)
  BY <1>2, SMT DEF PortIn
<1>5. ASSUME NEW f \in Here
      PROVE  PortIn = IF CONFIG_ADDRESS.lo % 256 = 0 THEN Word(f.device, f.vendor)
                                                     ELSE Word(f.class * 256 + f.subclass, 0)
  <2> DEFINE found == {g \in functions : Addressed(g)}
             h == CHOOSE g \in found : TRUE
  <2>1. found # {} /\ h = f
    BY <1>2, <1>3
  <2>2. found # {} => PortIn = IF CONFIG_ADDRESS.lo % 256 = 0 THEN Word(h.device, h.vendor)
                                              ELSE Word(h.class * 256 + h.subclass, 0)
    BY DEF PortIn
  <2> HIDE DEF found, h
  <2> QED
    BY <2>1, <2>2
<1> QED
  BY <1>1, <1>4, <1>5, SMTT(30)

\* The displays in front of a place of the scan, and those up to it.
Before(b, s) == {f \in Displays : f.bus < b \/ (f.bus = b /\ f.slot < s)}
Through(b, s) == {f \in Displays : f.bus < b \/ (f.bus = b /\ f.slot <= s)}

\* Displays are functions 0 of their slots, and there are finitely many.
LEMMA DisplayFacts ==
  ASSUME functions \in Topologies
  PROVE  /\ \A f \in Displays : f.bus \in 0..255 /\ f.slot \in 0..31 /\ f \in functions
                               /\ f.func = 0 /\ f.class = 3
         /\ \A S \in SUBSET Displays :
              IsFiniteSet(S) /\ Cardinality(S) \in Nat /\ Cardinality(S) <= Cardinality(Displays)
<1>1. \A f \in Displays : f.bus \in 0..255 /\ f.slot \in 0..31 /\ f \in functions
                          /\ f.func = 0 /\ f.class = 3
  BY FunctionFacts, SMT DEF Displays
<1>2. IsFiniteSet(functions) /\ Displays \subseteq functions
  BY FunctionFacts, SMT DEF Displays
<1>3. IsFiniteSet(Displays)
  BY <1>2, FS_Subset
<1>4. ASSUME NEW S \in SUBSET Displays
      PROVE  IsFiniteSet(S) /\ Cardinality(S) \in Nat /\ Cardinality(S) <= Cardinality(Displays)
  BY <1>3, FS_Subset, FS_CardinalityType, SMTT(30)
<1> QED
  BY <1>1, <1>4, SMTT(30)

\* The next slot of the scan: what is up to this place is what is in front of the
\* next one, and after the last there is no display.
LEMMA NextSlotPasses ==
  ASSUME functions \in Topologies, bus \in 0..255, slot \in 0..31, NextSlot
  PROVE  /\ bus' \in 0..255 /\ slot' \in 0..31
         /\ \/ scan' = "address" /\ Before(bus', slot') = Through(bus, slot)
            \/ scan' = "end" /\ Displays = Through(bus, slot)
<1>1. \A f \in Displays : f.bus \in 0..255 /\ f.slot \in 0..31
  BY DisplayFacts
<1>2. CASE slot < 31
  <2>1. slot' = slot + 1 /\ bus' = bus /\ scan' = "address"
    BY <1>2 DEF NextSlot
  <2> QED
    BY <1>1, <1>2, <2>1 DEF Before, Through
<1>3. CASE ~ (slot < 31) /\ bus < 255
  <2>1. slot' = 0 /\ bus' = bus + 1 /\ scan' = "address"
    BY <1>3 DEF NextSlot, NextBus
  <2> QED
    BY <1>1, <1>3, <2>1, SMTT(30) DEF Before, Through
<1>4. CASE ~ (slot < 31) /\ ~ (bus < 255)
  <2>1. slot' = slot /\ bus' = bus /\ scan' = "end"
    BY <1>4 DEF NextSlot
  <2> QED
    BY <1>1, <1>4, <2>1 DEF Through
<1> QED
  BY <1>2, <1>3, <1>4, SMTT(30)

\* This place adds its display, if it has one.
LEMMA PlaceAdds ==
  ASSUME functions \in Topologies, bus \in 0..255, slot \in 0..31
  PROVE  /\ (\A f \in Here : f.class # 3) => Through(bus, slot) = Before(bus, slot)
         /\ \A f \in Here : f.class = 3 =>
              /\ f \in Displays /\ Through(bus, slot) = UpTo(f)
              /\ Cardinality(UpTo(f)) = Cardinality(Before(bus, slot)) + 1
<1>1. \A f \in Displays : f.bus \in 0..255 /\ f.slot \in 0..31 /\ f \in functions
                          /\ f.func = 0 /\ f.class = 3
  BY DisplayFacts
<1>2. ASSUME NEW f \in Displays, f \in Through(bus, slot), f \notin Before(bus, slot)
      PROVE  f \in Here
  BY <1>1, <1>2 DEF Through, Before, Here
<1>3. Before(bus, slot) \subseteq Through(bus, slot) /\ Through(bus, slot) \subseteq Displays
  BY <1>1 DEF Through, Before
<1>4. (\A f \in Here : f.class # 3) => Through(bus, slot) = Before(bus, slot)
  BY <1>1, <1>2, <1>3
<1>5. ASSUME NEW f \in Here, f.class = 3
      PROVE  /\ f \in Displays /\ Through(bus, slot) = UpTo(f)
             /\ Cardinality(UpTo(f)) = Cardinality(Before(bus, slot)) + 1
  <2>1. f \in Displays /\ Through(bus, slot) = UpTo(f)
    BY <1>5 DEF Here, Displays, Through, UpTo
  <2>2. f \in Through(bus, slot) /\ f \notin Before(bus, slot)
    BY <2>1 DEF Here, Through, Before
  <2>3. Through(bus, slot) = Before(bus, slot) \cup {f}
    BY <1>2, <1>3, <2>2, HereUnique, SMTT(30)
  <2>4. IsFiniteSet(Before(bus, slot))
    BY <1>3, DisplayFacts
  <2>5. Cardinality(Before(bus, slot) \cup {f}) = Cardinality(Before(bus, slot)) + 1
    BY <2>2, <2>4, FS_AddElement, Zenon
  <2> QED
    BY <2>1, <2>3, <2>5
<1> QED
  BY <1>4, <1>5, SMTT(30)

\* The n-th display controller of the scan.
Display(n) == CHOOSE f \in Displays : Cardinality(UpTo(f)) = n

\* A display is known by the number of displays up to it.
LEMMA DisplayNumber ==
  ASSUME functions \in Topologies, NEW f \in Displays
  PROVE  Display(Cardinality(UpTo(f))) = f
<1>1. \A g \in Displays : /\ g.bus \in 0..255 /\ g.slot \in 0..31 /\ g \in functions
                          /\ g.func = 0
  BY DisplayFacts
<1>2. \A g, h \in functions :
        g.bus = h.bus /\ g.slot = h.slot /\ g.func = h.func => g = h
  BY FunctionFacts, SMT
<1>3. ASSUME NEW g \in Displays, NEW h \in Displays, Cardinality(UpTo(g)) = Cardinality(UpTo(h)),
             g.bus < h.bus \/ (g.bus = h.bus /\ g.slot < h.slot)
      PROVE  FALSE
  <2>1. UpTo(g) \subseteq UpTo(h) /\ h \in UpTo(h) /\ h \notin UpTo(g)
    <3>1. /\ g.bus \in Nat /\ g.slot \in Nat /\ h.bus \in Nat /\ h.slot \in Nat
      BY <1>1, SMTT(30)
    <3>2. ASSUME NEW d \in UpTo(g) PROVE d \in UpTo(h)
      <4>1. d \in Displays /\ d.bus \in Nat /\ d.slot \in Nat
        BY <1>1 DEF UpTo
      <4> QED
        BY <1>3, <3>1, <4>1 DEF UpTo
    <3>3. h \in UpTo(h)
      BY <3>1 DEF UpTo
    <3>4. h \notin UpTo(g)
      BY <1>3, <3>1 DEF UpTo
    <3> QED
      BY <3>2, <3>3, <3>4
  <2>2. IsFiniteSet(UpTo(h))
    BY DisplayFacts DEF UpTo
  <2>3. UpTo(g) = UpTo(h)
    BY <1>3, <2>1, <2>2, FS_Subset
  <2> QED
    BY <2>1, <2>3
<1>4. ASSUME NEW g \in Displays, Cardinality(UpTo(g)) = Cardinality(UpTo(f)) PROVE g = f
  <2>1. ~ (g.bus < f.bus \/ (g.bus = f.bus /\ g.slot < f.slot))
    BY <1>3, <1>4
  <2>2. ~ (f.bus < g.bus \/ (f.bus = g.bus /\ f.slot < g.slot))
    BY <1>3, <1>4
  <2>3. g.bus \in Nat /\ g.slot \in Nat /\ f.bus \in Nat /\ f.slot \in Nat
    BY <1>1, SMTT(30)
  <2>4. g.bus = f.bus /\ g.slot = f.slot
    BY <2>1, <2>2, <2>3
  <2> QED
    BY <1>1, <1>2, <2>4
<1> QED
  BY <1>4 DEF Display

\* The log a scan should leave.
Expected ==
  LET n == 2 * Cardinality(Displays) + 2 IN
  [i \in 1..n |-> IF i = 1 THEN Trace(Word(0, 28672))
                  ELSE IF i = n THEN Trace(Word(0, 28687))
                  ELSE IF i % 2 = 0 THEN Trace(Word(0, 28673))
                  ELSE LET f == Display(i \div 2) IN Trace(Payload(f.vendor, f.device))]

\* The first n commands of the log a scan should leave.
FirstOf(n) == [i \in 1..n |-> Expected[i]]

\* How many of them the scan has logged.
Logged ==
  CASE scan = "start"  -> 0
    [] scan = "report" -> 2 * Cardinality(Before(bus, slot)) + 2
    [] scan = "end"    -> 2 * Cardinality(Displays) + 1
    [] scan = "done"   -> 2 * Cardinality(Displays) + 2
    [] OTHER           -> 2 * Cardinality(Before(bus, slot)) + 1

Ps2Calls == {sys_port_out(100, 168), sys_port_out(100, 212), sys_port_out(96, 244)}

\* The scan's inductive invariant.  Between the write of an address and the read
\* of its register no other core changes the address; from the read of the
\* vendor on there is a function here, whose vendor and device the driver holds,
\* and it is a display once its class is read; the log is what the displays in
\* front of this place call for.
ScanTypes ==
  /\ functions \in Topologies /\ bus \in 0..255 /\ slot \in 0..31 /\ ps2 \in Seq(Ps2Calls)
  /\ scan \in {"start", "address", "vendor", "class_address", "class", "found", "report",
               "end", "done"}
  /\ scan = "start" => bus = 0 /\ slot = 0
AddressHeld ==
  /\ scan = "vendor" => CONFIG_ADDRESS = address(0, 0)
  /\ scan = "class" => CONFIG_ADDRESS = address(0, 8)
Identified ==
  scan \in {"class_address", "class", "found", "report"} =>
    \E f \in Here : /\ vendor_device = Word(f.device, f.vendor)
                    /\ scan \in {"found", "report"} => f.class = 3
ScanInv == ScanTypes /\ AddressHeld /\ Identified /\ log = FirstOf(Logged)

\* What is expected at the places of the log.
LEMMA ExpectedAt ==
  ASSUME functions \in Topologies
  PROVE  /\ Cardinality(Displays) \in Nat
         /\ DOMAIN Expected = 1..(2 * Cardinality(Displays) + 2)
         /\ Expected[1] = Trace(Word(0, 28672))
         /\ Expected[2 * Cardinality(Displays) + 2] = Trace(Word(0, 28687))
         /\ \A f \in Displays : \A c \in Nat : Cardinality(UpTo(f)) = c + 1 =>
              /\ Expected[2 * c + 2] = Trace(Word(0, 28673))
              /\ Expected[2 * c + 3] = Trace(Payload(f.vendor, f.device))
<1> DEFINE total == Cardinality(Displays)
<1>1. total \in Nat
  BY DisplayFacts
<1> DEFINE At1(i) == IF i = 1 THEN Trace(Word(0, 28672))
                     ELSE IF i = 2 * total + 2 THEN Trace(Word(0, 28687))
                     ELSE IF i % 2 = 0 THEN Trace(Word(0, 28673))
                     ELSE Trace(Payload(Display(i \div 2).vendor, Display(i \div 2).device))
<1>2. Expected = [i \in 1..(2 * total + 2) |-> At1(i)]
  BY DEF Expected
<1>3. ASSUME NEW f \in Displays, NEW c \in Nat, Cardinality(UpTo(f)) = c + 1
      PROVE  /\ Expected[2 * c + 2] = Trace(Word(0, 28673))
             /\ Expected[2 * c + 3] = Trace(Payload(f.vendor, f.device))
  <2>1. c + 1 <= total
    BY <1>3, DisplayFacts DEF UpTo
  <2>2. Display(c + 1) = f
    BY <1>3, DisplayNumber
  <2> HIDE DEF total
  <2>3. /\ 2 * c + 2 \in 1..(2 * total + 2) /\ 2 * c + 2 # 1 /\ 2 * c + 2 # 2 * total + 2
        /\ (2 * c + 2) % 2 = 0
    BY <1>1, <2>1
  <2>4. /\ 2 * c + 3 \in 1..(2 * total + 2) /\ 2 * c + 3 # 1 /\ 2 * c + 3 # 2 * total + 2
        /\ (2 * c + 3) % 2 # 0 /\ (2 * c + 3) \div 2 = c + 1
    BY <1>1, <2>1
  <2>5. Expected[2 * c + 2] = Trace(Word(0, 28673))
    BY <1>2, <2>3
  <2>6. Expected[2 * c + 3] = Trace(Payload(f.vendor, f.device))
    BY <1>2, <2>2, <2>4
  <2> QED
    BY <2>5, <2>6
<1>4. DOMAIN Expected = 1..(2 * total + 2)
  BY <1>2
<1>5. Expected[1] = Trace(Word(0, 28672)) /\ Expected[2 * total + 2] = Trace(Word(0, 28687))
  <2> HIDE DEF total
  <2>1. 1 \in 1..(2 * total + 2) /\ 2 * total + 2 \in 1..(2 * total + 2) /\ 2 * total + 2 # 1
    BY <1>1
  <2> QED
    BY <1>2, <2>1
<1> QED
  BY <1>1, <1>3, <1>4, <1>5

\* To log the command expected next is to log one more of the expected ones.
LEMMA LogOneMore ==
  ASSUME NEW n \in Nat, log = FirstOf(n), NEW c, c = Expected[n + 1], log' = log \o <<c>>
  PROVE  log' = FirstOf(n + 1)
<1> DEFINE S == {Expected[i] : i \in 1..(n + 1)}
<1>1. FirstOf(n) \in Seq(S) /\ Len(FirstOf(n)) = n
  BY SMTT(30) DEF FirstOf
<1>2. FirstOf(n + 1) \in Seq(S) /\ Len(FirstOf(n + 1)) = n + 1
  BY SMTT(30) DEF FirstOf
<1>3. c \in S
  OBVIOUS
<1> HIDE DEF S
<1>4. log' \in Seq(S) /\ Len(log') = n + 1
  BY <1>1, <1>3
<1>5. \A i \in 1..n : log'[i] = FirstOf(n)[i]
  BY <1>1, <1>3
<1>6. \A i \in 1..(n + 1) : log'[i] = FirstOf(n + 1)[i]
  <2> TAKE i \in 1..(n + 1)
  <2>1. CASE i \in 1..n
    BY <1>5, <2>1 DEF FirstOf
  <2>2. CASE i = n + 1
    <3>1. log'[n + 1] = c
      BY <1>1, <1>3
    <3> QED
      BY <2>2, <3>1 DEF FirstOf
  <2>3. i \in 1..n \/ i = n + 1
    OBVIOUS
  <2> QED
    BY <2>1, <2>2, <2>3, Zenon
<1> QED
  BY <1>2, <1>4, <1>6, SMTT(20)

\* No step changes the machine, so none changes what is expected.
LEMMA MachineKept ==
  ASSUME functions' = functions
  PROVE  /\ Displays' = Displays /\ Expected' = Expected
         /\ \A n : FirstOf(n)' = FirstOf(n)
         /\ Before(bus, slot)' = Before(bus', slot')
         /\ bus' = bus /\ slot' = slot => Here' = Here
<1>1. Displays' = Displays
  BY DEF Displays
<1>2. \A f : UpTo(f)' = UpTo(f)
  BY <1>1 DEF UpTo
<1>3. \A n : Display(n)' = Display(n)
  BY <1>1, <1>2 DEF Display
<1>4. Expected' = Expected
  BY <1>1, <1>3 DEF Expected
<1>5. \A n : FirstOf(n)' = FirstOf(n)
  BY <1>4 DEF FirstOf
<1>6. Before(bus, slot)' = Before(bus', slot')
  BY <1>1 DEF Before
<1>7. bus' = bus /\ slot' = slot => Here' = Here
  BY DEF Here
<1> QED
  BY <1>1, <1>4, <1>5, <1>6, <1>7

\* How much is logged while a slot is looked at.
LEMMA LoggedHere ==
  ASSUME ScanTypes
  PROVE  /\ Cardinality(Before(bus, slot)) \in Nat
         /\ scan \in {"address", "vendor", "class_address", "class", "found"} =>
              Logged = 2 * Cardinality(Before(bus, slot)) + 1
         /\ scan = "report" => Logged = 2 * Cardinality(Before(bus, slot)) + 2
         /\ scan = "end" => Logged = 2 * Cardinality(Displays) + 1
         /\ scan = "done" => Logged = 2 * Cardinality(Displays) + 2
<1>1. Cardinality(Before(bus, slot)) \in Nat
  BY DisplayFacts DEF ScanTypes, Before
<1>2. scan \in {"address", "vendor", "class_address", "class", "found"} =>
        Logged = 2 * Cardinality(Before(bus, slot)) + 1
  BY DEF Logged
<1>3. /\ scan = "report" => Logged = 2 * Cardinality(Before(bus, slot)) + 2
      /\ scan = "end" => Logged = 2 * Cardinality(Displays) + 1
      /\ scan = "done" => Logged = 2 * Cardinality(Displays) + 2
  BY DEF Logged
<1> QED
  BY <1>1, <1>2, <1>3, SMTT(30)

\* A step within a slot.
LEMMA StaySlot ==
  ASSUME ScanTypes, functions' = functions, bus' = bus, slot' = slot, ps2' \in Seq(Ps2Calls),
         scan' \in {"address", "vendor", "class_address", "class", "found"},
         log' = FirstOf(2 * Cardinality(Before(bus, slot)) + 1)
  PROVE  ScanTypes' /\ log' = FirstOf(Logged)'
<1>1. ScanTypes'
  BY DEF ScanTypes
<1>2. Logged' = 2 * Cardinality(Before(bus, slot))' + 1
  BY DEF Logged
<1>3. Before(bus, slot)' = Before(bus, slot)
  BY MachineKept
<1>4. Logged' = 2 * Cardinality(Before(bus, slot)) + 1
  BY <1>2, <1>3
<1>5. \A n : [i \in 1..n |-> Expected'[i]] = FirstOf(n)
  BY MachineKept DEF FirstOf
<1>6. FirstOf(Logged)' = [i \in 1..Logged' |-> Expected'[i]]
  BY DEF FirstOf
<1> QED
  BY <1>1, <1>4, <1>5, <1>6, SMTT(30)

\* The step to the next slot.
LEMMA PassSlot ==
  ASSUME ScanTypes, functions' = functions, ps2' = ps2, NextSlot,
         log' = FirstOf(2 * Cardinality(Through(bus, slot)) + 1)
  PROVE  ScanInv'
<1>1. /\ bus' \in 0..255 /\ slot' \in 0..31
      /\ \/ scan' = "address" /\ Before(bus', slot') = Through(bus, slot)
         \/ scan' = "end" /\ Displays = Through(bus, slot)
  BY NextSlotPasses DEF ScanTypes
<1>2. ScanTypes'
  BY <1>1 DEF ScanTypes
<1>3. AddressHeld' /\ Identified'
  BY <1>1 DEF AddressHeld, Identified
<1>4. Before(bus, slot)' = Before(bus', slot') /\ Displays' = Displays
  BY MachineKept
<1>5. Logged' = 2 * Cardinality(Through(bus, slot)) + 1
  <2>1. CASE scan' = "address" /\ Before(bus', slot') = Through(bus, slot)
    <3>1. Logged' = 2 * Cardinality(Before(bus, slot)') + 1
      BY <2>1 DEF Logged
    <3> QED
      BY <1>4, <2>1, <3>1
  <2>2. CASE scan' = "end" /\ Displays = Through(bus, slot)
    <3>1. Logged' = 2 * Cardinality(Displays') + 1
      BY <2>2 DEF Logged
    <3> QED
      BY <1>4, <2>2, <3>1
  <2> QED
    BY <1>1, <2>1, <2>2
<1>6. \A n : [i \in 1..n |-> Expected'[i]] = FirstOf(n)
  BY MachineKept DEF FirstOf
<1>7. FirstOf(Logged)' = [i \in 1..Logged' |-> Expected'[i]]
  BY DEF FirstOf
<1> QED
  BY <1>2, <1>3, <1>5, <1>6, <1>7, SMTT(30) DEF ScanInv

LEMMA ScanInitially == ScanInit => ScanInv
<1> SUFFICES ASSUME ScanInit PROVE ScanInv
  OBVIOUS
<1>1. ScanTypes
  <2>1. ps2 \in Seq(Ps2Calls)
    BY DEF ScanInit, Ps2Calls
  <2> QED
    BY <2>1 DEF ScanInit, ScanTypes
<1>2. AddressHeld /\ Identified
  BY DEF ScanInit, AddressHeld, Identified
<1>3. Logged = 0 /\ log = <<>>
  BY DEF ScanInit, Logged
<1>4. FirstOf(0) = <<>>
  BY DEF FirstOf
<1> QED
  BY <1>1, <1>2, <1>3, <1>4, SMTT(30) DEF ScanInv

\* No write of the PS/2 driver changes the address register.
LEMMA Ps2Step == ScanInv /\ Ps2Write => ScanInv'
<1> SUFFICES ASSUME ScanInv, Ps2Write PROVE ScanInv'
  OBVIOUS
<1>1. ScanTypes /\ AddressHeld /\ Identified /\ log = FirstOf(Logged)
  BY DEF ScanInv
<1>2. /\ functions' = functions /\ scan' = scan /\ bus' = bus /\ slot' = slot
      /\ vendor_device' = vendor_device /\ log' = log
  BY DEF Ps2Write
<1>3. ps2 \in Seq(Ps2Calls) /\ ps2 # <<>>
  BY <1>1 DEF ScanTypes, Ps2Write
<1>4. Head(ps2) \in Ps2Calls /\ ps2' \in Seq(Ps2Calls)
  BY <1>3 DEF Ps2Write
<1>5. \A c \in Ps2Calls : c.arg1 % 65536 # 3320
  BY SMT DEF Ps2Calls, sys_port_out, Packed
<1>6. CONFIG_ADDRESS' = CONFIG_ADDRESS
  BY <1>4, <1>5, SMTT(30) DEF Ps2Write, PortOut
<1>7. ScanTypes'
  BY <1>1, <1>2, <1>4, SMTT(30) DEF ScanTypes
<1>8. AddressHeld'
  BY <1>1, <1>2, <1>6, SMTT(30) DEF AddressHeld, address
<1>9. Identified'
  BY <1>1, <1>2 DEF Identified, Here
<1>10. Displays' = Displays /\ Before(bus, slot)' = Before(bus, slot) /\ Expected' = Expected
  BY <1>2, MachineKept
<1>11. Logged' = Logged
  BY <1>2, <1>10 DEF Logged
<1>12. FirstOf(Logged)' = FirstOf(Logged)
  BY <1>10, <1>11 DEF FirstOf
<1> QED
  BY <1>1, <1>2, <1>7, <1>8, <1>9, <1>12, SMTT(30) DEF ScanInv

LEMMA StartStep == ScanInv /\ Start => ScanInv'
<1> SUFFICES ASSUME ScanInv, Start PROVE ScanInv'
  OBVIOUS
<1>1. /\ scan = "start" /\ scan' = "address" /\ functions' = functions /\ bus' = bus
      /\ slot' = slot /\ ps2' = ps2 /\ log' = log \o <<Trace(Word(0, 28672))>>
  BY DEF Start, trace_event, BatchExecute
<1>2. ScanTypes /\ log = FirstOf(0)
  BY <1>1 DEF ScanInv, Logged
<1>3. log' = FirstOf(0 + 1)
  <2>1. Expected[0 + 1] = Trace(Word(0, 28672))
    BY <1>2, ExpectedAt DEF ScanTypes
  <2> QED
    BY <1>1, <1>2, <2>1, LogOneMore, SMTT(30)
<1>4. Before(bus, slot) = {}
  <2>1. bus = 0 /\ slot = 0
    BY <1>1, <1>2, SMTT(20) DEF ScanTypes
  <2>2. \A f \in Displays : f.bus \in 0..255 /\ f.slot \in 0..31
    BY <1>2, DisplayFacts DEF ScanTypes
  <2> QED
    BY <2>1, <2>2 DEF Before
<1>5. log' = FirstOf(2 * Cardinality(Before(bus, slot)) + 1)
  <2>1. 2 * Cardinality(Before(bus, slot)) + 1 = 0 + 1
    BY <1>4, FS_EmptySet
  <2> QED
    BY <1>3, <2>1
<1>6. ps2' \in Seq(Ps2Calls)
  BY <1>1, <1>2 DEF ScanTypes
<1>7. ScanTypes' /\ log' = FirstOf(Logged)'
  BY <1>1, <1>2, <1>5, <1>6, StaySlot, SMTT(30)
<1>8. AddressHeld' /\ Identified'
  BY <1>1 DEF AddressHeld, Identified
<1> QED
  BY <1>7, <1>8 DEF ScanInv

\* The write of an address reaches the register: the kernel takes port and size
\* apart as the wrapper put them together.
LEMMA WriteAddressStep ==
  ASSUME NEW here, NEW next, NEW off \in {0, 8}, ScanInv, WriteAddress(here, next, off),
         \/ here = "address" /\ next = "vendor" /\ off = 0
         \/ here = "class_address" /\ next = "class" /\ off = 8
  PROVE  ScanInv'
<1>1. ScanTypes /\ Identified /\ log = FirstOf(Logged)
  BY DEF ScanInv
<1>2. /\ functions' = functions /\ scan = here /\ scan' = next /\ bus' = bus /\ slot' = slot
      /\ vendor_device' = vendor_device /\ log' = log /\ ps2' = ps2
  BY DEF WriteAddress
<1>3. (4 * 65536 + 3320) % 65536 = 3320 /\ ((4 * 65536 + 3320) \div 65536) % 65536 = 4
  BY SMTT(30)
<1>4. CONFIG_ADDRESS' = address(0, off)
  BY <1>3, SMT DEF WriteAddress, PortOut, sys_port_out32, Packed
<1>5. AddressHeld'
  BY <1>2, <1>4, SMTT(30) DEF AddressHeld, address
<1>6. Identified'
  BY <1>1, <1>2, SMTT(30) DEF Identified, Here
<1>7. log' = FirstOf(2 * Cardinality(Before(bus, slot)) + 1)
  BY <1>1, <1>2, LoggedHere
<1>8. ps2' \in Seq(Ps2Calls)
  BY <1>1, <1>2 DEF ScanTypes
<1>9. ScanTypes' /\ log' = FirstOf(Logged)'
  BY <1>1, <1>2, <1>7, <1>8, StaySlot
<1> QED
  BY <1>5, <1>6, <1>9 DEF ScanInv

LEMMA ReadVendorStep == ScanInv /\ ReadVendor => ScanInv'
<1> SUFFICES ASSUME ScanInv, ReadVendor PROVE ScanInv'
  OBVIOUS
<1>1. ScanTypes /\ AddressHeld /\ log = FirstOf(Logged)
  BY DEF ScanInv
<1>2. /\ functions' = functions /\ scan = "vendor" /\ log' = log /\ ps2' = ps2
      /\ vendor_device' = PortIn
  BY DEF ReadVendor
<1>3. log' = FirstOf(2 * Cardinality(Before(bus, slot)) + 1)
  BY <1>1, <1>2, LoggedHere, SMTT(30)
<1>4. functions \in Topologies /\ bus \in 0..255 /\ slot \in 0..31
  BY <1>1 DEF ScanTypes
<1>5. CONFIG_ADDRESS = address(0, 0)
  BY <1>1, <1>2 DEF AddressHeld
<1>6. /\ Here = {} => PortIn = Word(65535, 65535)
      /\ \A f \in Here : PortIn = Word(f.device, f.vendor)
  BY <1>4, <1>5, PortInValue, SMTT(30)
<1>7. \A f \in Here : f.vendor # 65535
  BY <1>4, FunctionFacts, SMTT(30) DEF Here
<1>8. CASE PortIn.lo = 65535
  <2>1. Here = {}
    BY <1>6, <1>7, <1>8, SMTT(30) DEF Word
  <2>2. Through(bus, slot) = Before(bus, slot)
    BY <1>4, <2>1, PlaceAdds
  <2>3. NextSlot
    BY <1>2, <1>8 DEF ReadVendor
  <2> QED
    BY <1>1, <1>2, <1>3, <2>2, <2>3, PassSlot, SMTT(30)
<1>9. CASE PortIn.lo # 65535
  <2>1. scan' = "class_address" /\ bus' = bus /\ slot' = slot
    BY <1>2, <1>9 DEF ReadVendor
  <2>2. Here # {}
    BY <1>6, <1>9, SMT DEF Word
  <2>3. Here' = Here
    BY <1>2, <2>1, MachineKept, SMTT(30)
  <2>4. AddressHeld' /\ Identified'
    BY <1>2, <1>6, <2>1, <2>2, <2>3, SMTT(30) DEF AddressHeld, Identified, Word
  <2>5. ps2' \in Seq(Ps2Calls)
    BY <1>1, <1>2 DEF ScanTypes
  <2>6. ScanTypes' /\ log' = FirstOf(Logged)'
    BY <1>1, <1>2, <1>3, <2>1, <2>5, StaySlot, SMTT(30)
  <2> QED
    BY <2>4, <2>6 DEF ScanInv
<1> QED
  BY <1>8, <1>9

LEMMA ReadClassStep == ScanInv /\ ReadClass => ScanInv'
<1> SUFFICES ASSUME ScanInv, ReadClass PROVE ScanInv'
  OBVIOUS
<1>1. ScanTypes /\ AddressHeld /\ Identified /\ log = FirstOf(Logged)
  BY DEF ScanInv
<1>2. /\ functions' = functions /\ scan = "class" /\ log' = log /\ ps2' = ps2
      /\ vendor_device' = vendor_device
  BY DEF ReadClass
<1>3. log' = FirstOf(2 * Cardinality(Before(bus, slot)) + 1)
  BY <1>1, <1>2, LoggedHere
<1>4. functions \in Topologies /\ bus \in 0..255 /\ slot \in 0..31
  BY <1>1 DEF ScanTypes
<1>5. CONFIG_ADDRESS = address(0, 8)
  BY <1>1, <1>2 DEF AddressHeld
<1>6. PICK f \in Here : vendor_device = Word(f.device, f.vendor)
  BY <1>1, <1>2 DEF Identified
<1>7. PortIn.hi \div 256 = f.class
  <2>1. PortIn = Word(f.class * 256 + f.subclass, 0)
    BY <1>4, <1>5, PortInValue, SMTT(30)
  <2>2. f.class \in 0..255 /\ f.subclass \in 0..255
    BY <1>4, FunctionFacts, SMTT(20) DEF Here
  <2> DEFINE c == f.class
             d == f.subclass
  <2>3. (c * 256 + d) \div 256 = c
    <3>1. c \in 0..255 /\ d \in 0..255
      BY <2>2
    <3> HIDE DEF c, d
    <3> QED
      BY <3>1, ClassRead, SMTT(30)
  <2> QED
    BY <2>1, <2>3, ZenonT(30) DEF Word
<1>8. CASE f.class = 3
  <2>1. scan' = "found" /\ bus' = bus /\ slot' = slot
    BY <1>7, <1>8 DEF ReadClass
  <2>2. Here' = Here
    BY <1>2, <2>1, MachineKept, SMTT(30)
  <2>3. AddressHeld' /\ Identified'
    BY <1>2, <1>6, <1>8, <2>1, <2>2, SMTT(30) DEF AddressHeld, Identified, Word
  <2>4. ps2' \in Seq(Ps2Calls)
    BY <1>1, <1>2, SMTT(30) DEF ScanTypes
  <2>5. ScanTypes' /\ log' = FirstOf(Logged)'
    BY <1>1, <1>2, <1>3, <2>1, <2>4, StaySlot, SMTT(30)
  <2> QED
    BY <2>3, <2>5 DEF ScanInv
<1>9. CASE f.class # 3
  <2>1. NextSlot
    BY <1>7, <1>9 DEF ReadClass
  <2>2. \A g \in Here : g.class # 3
    BY <1>4, <1>9, HereUnique, SMTT(30)
  <2>3. Through(bus, slot) = Before(bus, slot)
    BY <1>4, <2>2, PlaceAdds, SMTT(30)
  <2> QED
    BY <1>1, <1>2, <1>3, <2>1, <2>3, PassSlot, SMTT(30)
<1> QED
  BY <1>8, <1>9

LEMMA FoundStep == ScanInv /\ Found => ScanInv'
<1> SUFFICES ASSUME ScanInv, Found PROVE ScanInv'
  OBVIOUS
<1>1. ScanTypes /\ Identified /\ log = FirstOf(Logged)
  BY DEF ScanInv
<1>2. /\ functions' = functions /\ scan = "found" /\ scan' = "report" /\ bus' = bus
      /\ slot' = slot /\ vendor_device' = vendor_device /\ ps2' = ps2
      /\ log' = log \o <<Trace(Word(0, 28673))>>
  BY DEF Found, trace_event, BatchExecute
<1>3. functions \in Topologies /\ bus \in 0..255 /\ slot \in 0..31
  BY <1>1 DEF ScanTypes
<1>4. PICK f \in Here : f.class = 3
  BY <1>1, <1>2, SMTT(30) DEF Identified
<1> DEFINE c == Cardinality(Before(bus, slot))
<1>5. c \in Nat /\ log = FirstOf(2 * c + 1)
  BY <1>1, <1>2, LoggedHere, SMTT(30)
<1>6. f \in Displays /\ Cardinality(UpTo(f)) = c + 1
  BY <1>3, <1>4, PlaceAdds, SMTT(30)
<1> HIDE DEF c
<1>7. Expected[2 * c + 2] = Trace(Word(0, 28673))
  BY <1>3, <1>5, <1>6, ExpectedAt, SMTT(30)
<1>8. log' = FirstOf(2 * c + 2)
  <2>1. 2 * c + 1 \in Nat /\ (2 * c + 1) + 1 = 2 * c + 2
    BY <1>5, SMTT(30)
  <2> QED
    BY <1>2, <1>5, <1>7, <2>1, LogOneMore, SMTT(30)
<1>9. ScanTypes'
  BY <1>1, <1>2, SMTT(30) DEF ScanTypes
<1>10. AddressHeld' /\ Identified'
  BY <1>1, <1>2 DEF AddressHeld, Identified, Here
<1>11. Logged' = 2 * c + 2
  <2>1. Before(bus, slot)' = Before(bus, slot)
    BY <1>2, MachineKept
  <2>2. Logged' = 2 * Cardinality(Before(bus, slot)') + 2
    BY <1>2 DEF Logged
  <2> QED
    BY <2>1, <2>2 DEF c
<1>12. FirstOf(Logged)' = FirstOf(2 * c + 2)
  BY <1>2, <1>11, MachineKept DEF FirstOf
<1> QED
  BY <1>8, <1>9, <1>10, <1>12 DEF ScanInv

LEMMA ReportStep == ScanInv /\ Report => ScanInv'
<1> SUFFICES ASSUME ScanInv, Report PROVE ScanInv'
  OBVIOUS
<1>1. ScanTypes /\ Identified /\ log = FirstOf(Logged)
  BY DEF ScanInv
<1>2. /\ functions' = functions /\ scan = "report" /\ ps2' = ps2 /\ NextSlot
      /\ log' = log \o <<Trace(Payload(vendor_device.lo, vendor_device.hi))>>
  BY DEF Report, trace_event, BatchExecute
<1>3. functions \in Topologies /\ bus \in 0..255 /\ slot \in 0..31
  BY <1>1 DEF ScanTypes
<1>4. PICK f \in Here : f.class = 3 /\ vendor_device = Word(f.device, f.vendor)
  BY <1>1, <1>2 DEF Identified
<1> DEFINE c == Cardinality(Before(bus, slot))
<1>5. c \in Nat /\ log = FirstOf(2 * c + 2)
  BY <1>1, <1>2, LoggedHere, SMTT(30)
<1>6. f \in Displays /\ Cardinality(UpTo(f)) = c + 1 /\ Through(bus, slot) = UpTo(f)
  BY <1>3, <1>4, PlaceAdds, SMTT(30)
<1> HIDE DEF c
<1>7. Expected[2 * c + 3] = Trace(Payload(f.vendor, f.device))
  BY <1>3, <1>5, <1>6, ExpectedAt, SMTT(30)
<1>8. vendor_device.lo = f.vendor /\ vendor_device.hi = f.device
  BY <1>4 DEF Word
<1>9. log' = FirstOf(2 * Cardinality(Through(bus, slot)) + 1)
  <2>1. 2 * c + 2 \in Nat /\ (2 * c + 2) + 1 = 2 * c + 3 /\ 2 * (c + 1) + 1 = 2 * c + 3
    BY <1>5, SMTT(30)
  <2>2. log' = FirstOf(2 * c + 3)
    <3>1. Trace(Payload(vendor_device.lo, vendor_device.hi)) = Expected[(2 * c + 2) + 1]
      BY <1>7, <1>8, <2>1, SMTT(20)
    <3>2. log' = FirstOf((2 * c + 2) + 1)
      BY <1>2, <1>5, <2>1, <3>1, LogOneMore
    <3> QED
      BY <2>1, <3>2
  <2> QED
    BY <1>6, <2>1, <2>2
<1> QED
  BY <1>1, <1>2, <1>9, PassSlot

LEMMA EndStep == ScanInv /\ End => ScanInv'
<1> SUFFICES ASSUME ScanInv, End PROVE ScanInv'
  OBVIOUS
<1>1. ScanTypes /\ log = FirstOf(Logged)
  BY DEF ScanInv
<1>2. /\ functions' = functions /\ scan = "end" /\ scan' = "done" /\ bus' = bus
      /\ slot' = slot /\ ps2' = ps2 /\ log' = log \o <<Trace(Word(0, 28687))>>
  BY DEF End, trace_event, BatchExecute
<1> DEFINE c == Cardinality(Displays)
<1>3. c \in Nat /\ Expected[2 * c + 2] = Trace(Word(0, 28687))
  BY <1>1, ExpectedAt DEF ScanTypes
<1>4. log = FirstOf(2 * c + 1)
  BY <1>1, <1>2, LoggedHere
<1> HIDE DEF c
<1>5. log' = FirstOf(2 * c + 2)
  <2>1. 2 * c + 1 \in Nat /\ (2 * c + 1) + 1 = 2 * c + 2
    BY <1>3
  <2> QED
    BY <1>2, <1>3, <1>4, <2>1, LogOneMore
<1>6. ScanTypes'
  BY <1>1, <1>2 DEF ScanTypes
<1>7. AddressHeld' /\ Identified'
  BY <1>2 DEF AddressHeld, Identified
<1>8. Logged' = 2 * c + 2
  <2>1. Displays' = Displays
    BY <1>2, MachineKept
  <2>2. Logged' = 2 * Cardinality(Displays') + 2
    BY <1>2 DEF Logged
  <2> QED
    BY <2>1, <2>2 DEF c
<1>9. FirstOf(Logged)' = FirstOf(2 * c + 2)
  BY <1>2, <1>8, MachineKept DEF FirstOf
<1> QED
  BY <1>5, <1>6, <1>7, <1>9 DEF ScanInv

\* Every step of the scan, with the PS/2 driver's in between, keeps its invariant.
LEMMA ScanStep == ScanInv /\ [ScanNext]_scanVars => ScanInv'
<1> SUFFICES ASSUME ScanInv, [ScanNext]_scanVars PROVE ScanInv'
  OBVIOUS
<1>1. CASE Driver
  <2>1. CASE WriteAddress("address", "vendor", 0)
    BY <2>1, WriteAddressStep
  <2>2. CASE WriteAddress("class_address", "class", 8)
    BY <2>2, WriteAddressStep
  <2> QED
    BY SMTT(30), <1>1, <2>1, <2>2, StartStep, ReadVendorStep, ReadClassStep, FoundStep, ReportStep,
       EndStep DEF Driver
<1>2. CASE Ps2Write
  BY <1>2, Ps2Step
<1>3. CASE UNCHANGED scanVars
  <2>1. /\ functions' = functions /\ CONFIG_ADDRESS' = CONFIG_ADDRESS /\ scan' = scan
        /\ bus' = bus /\ slot' = slot /\ vendor_device' = vendor_device /\ log' = log
        /\ ps2' = ps2
    BY <1>3 DEF scanVars
  <2>2. Displays' = Displays /\ Before(bus, slot)' = Before(bus, slot) /\ Expected' = Expected
    BY <2>1, MachineKept
  <2>3. Logged' = Logged
    BY <2>1, <2>2 DEF Logged
  <2>4. FirstOf(Logged)' = FirstOf(Logged)
    BY <2>2, <2>3, SMTT(30) DEF FirstOf
  <2>5. ScanTypes' /\ AddressHeld' /\ Identified'
    BY <2>1 DEF ScanInv, ScanTypes, AddressHeld, address, Identified, Here
  <2> QED
    BY <2>1, <2>4, <2>5 DEF ScanInv
<1> QED
  BY <1>1, <1>2, <1>3 DEF ScanNext

\* The tag in the payload of a report changes bits 12 and 15 of the vendor only.
LEMMA PayloadTells ==
  ASSUME NEW f, f.vendor \in Nat, f.vendor < 65536
  PROVE  Tells(Trace(Payload(f.vendor, f.device)), f)
<1> DEFINE v == f.vendor
           a == WithBit(v, 4096)
           b == WithBit(a, 32768)
<1>1. v \in Nat /\ v < 65536
  OBVIOUS
<1> HIDE DEF v
<1>2. a \in Nat /\ a < 65536 /\ a % 4096 = v % 4096 /\ a \div 8192 = v \div 8192
  BY <1>1, SMTT(30) DEF WithBit
<1> HIDE DEF a
<1>3. b % 4096 = a % 4096 /\ (b \div 8192) % 4 = (a \div 8192) % 4
  BY <1>2, SMTT(30) DEF WithBit
<1> DEFINE d == f.device
           t == Trace(Payload(v, d))
<1>4. t = [action |-> 56160, payload |-> [hi |-> b, lo |-> d]]
  BY SMT DEF Trace, Payload, Word, a
<1> HIDE DEF b, d, t
<1>5. t.action = 56160 /\ t.payload.hi = b /\ t.payload.lo = d
  BY <1>4, SMTT(30)
<1>6. t.payload.hi % 4096 = v % 4096 /\ (t.payload.hi \div 8192) % 4 = (v \div 8192) % 4
  BY <1>2, <1>3, <1>5, SMTT(30)
<1>7. Tells(t, f)
  BY <1>5, <1>6, SMTT(30) DEF Tells, v, d
<1> QED
  BY <1>7, SMTT(30) DEF t, v, d

\* The log, a prefix of the expected one, is right.
LEMMA ScanLog == ScanInv => LogIsRight
<1> SUFFICES ASSUME ScanInv PROVE LogIsRight
  OBVIOUS
<1>1. ScanTypes /\ log = FirstOf(Logged) /\ functions \in Topologies
  BY DEF ScanInv, ScanTypes
<1> DEFINE total == Cardinality(Displays)
           c == Cardinality(Before(bus, slot))
<1>2. total \in Nat /\ DOMAIN Expected = 1..(2 * total + 2)
  BY <1>1, ExpectedAt, SMTT(20)
<1>3. c \in Nat /\ c <= total
  BY <1>1, DisplayFacts DEF Before
<1>4. scan = "report" => c + 1 <= total
  <2> SUFFICES ASSUME scan = "report" PROVE c + 1 <= total
    OBVIOUS
  <2>1. PICK f \in Here : f.class = 3
    BY DEF ScanInv, Identified
  <2>2. f \in Displays /\ Cardinality(UpTo(f)) = c + 1
    BY <1>1, <2>1, PlaceAdds DEF ScanTypes
  <2> QED
    BY <1>1, <2>2, DisplayFacts DEF UpTo
<1>5. Logged \in 0..(2 * total + 2) /\ (scan = "done" => Logged = 2 * total + 2)
  <2>1. Logged \in {0, 2 * c + 1, 2 * c + 2, 2 * total + 1, 2 * total + 2}
    BY DEF Logged
  <2>2. scan = "done" => Logged = 2 * total + 2
    BY <1>1, LoggedHere
  <2> HIDE DEF total, c
  <2> QED
    BY <1>2, <1>3, <2>1, <2>2
<1> HIDE DEF total, c
<1> DEFINE n == Logged
<1>6. n \in Nat /\ n <= 2 * total + 2 /\ (scan = "done" => n = 2 * total + 2)
  BY <1>2, <1>5
<1>7. log = [i \in 1..n |-> Expected[i]]
  BY <1>1 DEF FirstOf
<1> HIDE DEF n
<1>8. Len(log) = n /\ \A i \in 1..Len(log) : log[i] = Expected[i]
  BY <1>6, <1>7, SMTT(30)
<1>9. ASSUME NEW f \in Displays
      PROVE  LET i == 2 * Cardinality(UpTo(f)) IN
             /\ i <= Len(log) => log[i] = Trace(Word(0, 28673))
             /\ i < Len(log) => Tells(log[i + 1], f)
  <2> DEFINE m == Cardinality(UpTo(f))
  <2>1. m \in Nat /\ m # 0
    <3>1. IsFiniteSet(UpTo(f)) /\ f \in UpTo(f)
      BY <1>1, DisplayFacts DEF UpTo
    <3> QED
      BY <3>1, FS_CardinalityType, FS_EmptySet, SMTT(20)
  <2> HIDE DEF m
  <2>2. PICK k \in Nat : m = k + 1
    <3>1. m - 1 \in Nat /\ m = (m - 1) + 1
      BY <2>1
    <3> QED
      BY <3>1
  <2>3. /\ Expected[2 * k + 2] = Trace(Word(0, 28673))
        /\ Expected[2 * k + 3] = Trace(Payload(f.vendor, f.device))
    BY <1>1, <2>2, ExpectedAt, SMTT(20) DEF m
  <2>4. Tells(Expected[2 * k + 3], f)
    BY <1>1, <2>3, FunctionFacts, PayloadTells DEF Displays
  <2>5. 2 * m = 2 * k + 2 /\ 2 * m + 1 = 2 * k + 3 /\ 2 * k + 2 \in Nat /\ 2 * k + 2 >= 1
    BY <2>2, SMTT(20)
  <2>6. 2 * m <= n => log[2 * m] = Trace(Word(0, 28673))
    BY <1>6, <1>8, <2>3, <2>5, SMTT(20)
  <2>7. 2 * m < n => Tells(log[2 * m + 1], f)
    BY <1>6, <1>8, <2>4, <2>5, SMTT(20)
  <2> QED
    BY <1>8, <2>6, <2>7, SMTT(20) DEF m
<1>10. /\ Expected[1] = Trace(Word(0, 28672))
       /\ Expected[2 * total + 2] = Trace(Word(0, 28687))
  BY <1>1, ExpectedAt, SMTT(20) DEF total
<1>11. /\ Len(log) >= 1 => log[1] = Trace(Word(0, 28672))
       /\ Len(log) = 2 * total + 2 => log[2 * total + 2] = Trace(Word(0, 28687))
  BY <1>2, <1>6, <1>8, <1>10
<1>12. Len(log) <= 2 * total + 2 /\ (scan = "done" => Len(log) = 2 * total + 2)
  BY <1>6, <1>8
<1>13. \A f \in Displays : LET i == 2 * Cardinality(UpTo(f)) IN
                            /\ i <= Len(log) => log[i] = Trace(Word(0, 28673))
                            /\ i < Len(log) => Tells(log[i + 1], f)
  BY <1>9, SMTT(30)
<1> QED
  BY <1>11, <1>12, <1>13, SMTT(30) DEF LogIsRight, total

\* The scan of gpu_driver keeps its invariant, for every machine.
THEOREM ScanInvariance == ScanSpec => []ScanInv
  BY ScanInitially, ScanStep, PTL DEF ScanSpec

\* The two system calls of pci_read_32 work as one, whatever the PS/2 driver
\* writes in between: on every machine the kernel's log tells of the display
\* controllers that are function 0 of their slot, each once, in the order of bus and
\* slot and up to two bits of its vendor, and of all of them when the scan is done.
THEOREM ReportIsRight == ScanSpec => []LogIsRight
  BY ScanInvariance, ScanLog, PTL
=============================================================================
