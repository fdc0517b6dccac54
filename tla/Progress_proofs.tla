-------------------------- MODULE Progress_proofs --------------------------
(***************************************************************************)
(* Proofs about parts that wait for something: the frame user interface,    *)
(* for any number of frames up to 127, any interval, any times between      *)
(* calls of update() and any number of ticks, the connection to a Wi-Fi     *)
(* network, for any saved lists, any networks in the air and any bounds,    *)
(* the starts and restarts of the board, for any number of presses, pages,  *)
(* restarts, power cuts and failed writes, and the upload of a sketch, for  *)
(* all lengths of sectors, partitions and buffers, all files and any number *)
(* of uploads and failures.                                                 *)
(***************************************************************************)
EXTENDS OLEDDisplayUi, NefryConnect, NefryBoot, FirmwareUpdate, SequenceTheorems, WellFoundedInduction, TLAPS

(***************************************************************************)
(* An upload (FirmwareUpdate).                                              *)
(*                                                                         *)
(* Structure says which fields of UpdateClass go together at each step of a *)
(* request, and that the next unit written starts a sector; it is inductive *)
(* by itself.  On it rest that an update is over when the request is        *)
(* (ReadyForNext), that the running partition is not written                *)
(* (RunningUntouched, NeverBricked), and that what has come of a file is in *)
(* Flash, in the buffer or about to be copied (Copied).  Copied is what     *)
(* makes a partition complete when it gets its magic byte                   *)
(* (PartialHasCause, RunsComplete): that last step needs the whole file to  *)
(* have come, and the selected partition never to have been bootable before.*)
(***************************************************************************)
(* Two multiples of d are d apart.                                          *)
LEMMA MultiplesApart ==
  ASSUME NEW d \in Nat \ {0}, NEW a \in Nat, NEW b \in Nat,
         a % d = 0, b % d = 0, a < b
  PROVE  a + d <= b
<1> DEFINE i == a \div d
           j == b \div d
<1>1. i \in Nat /\ j \in Nat /\ a = d * i /\ b = d * j
  OBVIOUS
<1> HIDE DEF i, j
<1>2. i + 1 <= j
  BY <1>1
<1>3. d * (i + 1) <= d * j
  BY <1>1, <1>2
<1> QED
  BY <1>1, <1>3

(* A sector behind a sector's start another one starts.                     *)
LEMMA NextMultiple ==
  ASSUME NEW d \in Nat \ {0}, NEW a \in Nat, a % d = 0
  PROVE  (a + d) % d = 0
<1> DEFINE i == a \div d
           j == (a + d) \div d
           r == (a + d) % d
<1>1. i \in Nat /\ j \in Nat /\ r \in 0 .. d - 1 /\ a = d * i /\ a + d = d * j + r
  OBVIOUS
<1> HIDE DEF i, j, r
<1>2. d * (i + 1) = a + d /\ d * (j + 1) = d * j + d
  BY <1>1
<1>3. j <= i + 1
  BY <1>1, <1>2
<1>4. i + 1 <= j
  BY <1>1, <1>2
<1> QED
  BY <1>1, <1>2, <1>3, <1>4 DEF r

(* The sector a multiple of its length starts has nothing before it.        *)
LEMMA SectorStarts ==
  ASSUME NEW d \in Nat \ {0}, NEW a \in Nat, a % d = 0,
         NEW k \in Nat, k \div d = a \div d
  PROVE  a <= k
<1>1. a = d * (a \div d) /\ k >= d * (k \div d)
  OBVIOUS
<1> QED
  BY <1>1

(* A sequence defined unit by unit has that length.                         *)
LEMMA TupleOf ==
  ASSUME NEW S, NEW n \in Nat, NEW s \in [1 .. n -> S]
  PROVE  s \in Seq(S) /\ Len(s) = n
OBVIOUS

(* Which fields go together at each step, and where in a sector they are.   *)
Structure == TypeOK /\ Framed /\ Aligned /\ InTurn

(* The partition an update takes is not the one given.                      *)
LEMMA OtherDiffers == ASSUME NEW p \in Partitions PROVE Other(p) \in Partitions /\ Other(p) # p
BY DEF Partitions, Other

(* The lengths are positive.                                                *)
LEMMA Lengths ==
  SECTOR \in Nat /\ CHUNK \in Nat /\ SIZE \in Nat /\ SECTOR > 0 /\ CHUNK > 0 /\ SIZE > 0
BY SizeAssumption

(* Nothing is a multiple of both lengths.                                   *)
LEMMA NothingWritten == 0 % SECTOR = 0 /\ 0 % CHUNK = 0
BY SizeAssumption

(* A board fresh from the box has no update.                                *)
LEMMA InitStructure == Init => Structure
<1> SUFFICES ASSUME Init PROVE Structure
  OBVIOUS
<1>1. TypeOK
  <2>1. images \in Seq([len : Nat, firmware : BOOLEAN])
    BY DEF Init
  <2>2. parts \in [Partitions -> [magic : BOOLEAN, units : [0 .. SIZE - 1 -> Units]]]
    <3>1. <<1, 1>> \in Units /\ Blank \in Units
      BY DEF Units, Blank
    <3> QED
      BY <3>1 DEF Init
  <2>3. {boot, running, partition} \subseteq Partitions
    BY DEF Init, Partitions
  <2>4. <<>> \in Seq(Units) /\ 0 \in 0 .. SIZE /\ 0 \in 0 .. MaxHazards
    BY Lengths, BoundAssumption, EmptySeq
  <2> QED
    BY <2>1, <2>2, <2>3, <2>4 DEF Init, TypeOK
<1>2. Framed
  BY DEF Init, Framed
<1>4. InTurn
  BY DEF Init, InTurn
<1>3. Aligned
  BY Lengths, NothingWritten DEF Init, Aligned, remaining
<1> QED
  BY <1>1, <1>2, <1>3, <1>4 DEF Structure

(* begin() takes the whole partition, the one that does not run.            *)
LEMMA StartStructure == Structure /\ Start => Structure'
<1> SUFFICES ASSUME Structure, Start PROVE Structure'
  OBVIOUS
<1> USE DEF Structure
<1>1. PICK f \in Files : images' = Append(images, f)
  BY DEF Start
<1>2. /\ images' \in Seq([len : Nat, firmware : BOOLEAN]) /\ images' # <<>>
      /\ images'[File'].len \in Nat
  BY <1>1, AppendProperties, FilesAssumption DEF TypeOK, File
<1>3. /\ pc = "idle" /\ pc' = "write" /\ sent' = 0 /\ UNCHANGED <<data, caller, board, mishaps>>
      /\ data = <<>>
  BY DEF Start, Framed
<1>4. CASE size > 0
  <2>1. UNCHANGED <<updater, hazards>>
    BY <1>4 DEF Start, Spared
  <2>2. TypeOK'
    BY <1>2, <1>3, <2>1 DEF TypeOK, board, updater
  <2>3. Framed' /\ InTurn'
    BY <1>2, <1>3, <1>4, <2>1 DEF Framed, InTurn, board, updater
  <2>4. Aligned'
    BY <1>3, <2>1 DEF Aligned, updater, remaining
  <2> QED
    BY <2>2, <2>3, <2>4
<1>5. CASE ~(size > 0)
  <2>1. /\ partition' = Other(running) /\ progress' = 0 /\ buffer' = <<>> /\ error' = FALSE
        /\ size' = 0 \/ size' = SIZE
        /\ hazards' \in 0 .. MaxHazards
    BY <1>5, BoundAssumption DEF Start, Spared, Strikes, TypeOK
  <2>2. TypeOK'
    <3>1. partition' \in Partitions /\ progress' \in 0 .. SIZE /\ size' \in 0 .. SIZE /\ sent' \in Nat
      BY <1>3, <2>1, Lengths, OtherDiffers DEF TypeOK
    <3>2. buffer' \in Seq(Units)
      BY <2>1, EmptySeq
    <3> QED
      BY <1>2, <1>3, <2>1, <3>1, <3>2 DEF TypeOK, board
  <2>3. Framed' /\ InTurn'
    BY <1>2, <1>3, <2>1, OtherDiffers DEF Framed, InTurn, board, TypeOK
  <2>4. Aligned'
    <3>1. Len(buffer') = 0 /\ Len(data') = 0 /\ data' = <<>>
      BY <1>3, <2>1, EmptySeq
    <3>2. progress' % SECTOR = 0 /\ Len(buffer') % CHUNK = 0
      BY <2>1, <3>1, NothingWritten, Zenon
    <3>3. remaining' = size'
      BY <2>1, Lengths DEF remaining
    <3> QED
      BY <1>3, <2>1, <3>1, <3>2, <3>3, Lengths DEF Aligned
  <2> QED
    BY <2>2, <2>3, <2>4
<1> QED
  BY <1>4, <1>5 DEF TypeOK

(* There is a file to read, the last one that was sent.                     *)
LEMMA FileIsThere ==
  ASSUME TypeOK, InTurn
  PROVE  images[File] \in [len : Nat, firmware : BOOLEAN] /\ File \in DOMAIN images
<1> DEFINE Infos == [len : Nat, firmware : BOOLEAN]
<1>1. images \in Seq(Infos) /\ images # <<>>
  BY DEF TypeOK, InTurn
<1> HIDE DEF Infos
<1>2. Len(images) \in Nat \ {0}
  BY <1>1, EmptySeq
<1>3. File \in 1 .. Len(images)
  BY <1>2 DEF File
<1>4. images[File] \in Infos /\ DOMAIN images = 1 .. Len(images)
  BY <1>1, <1>3, ElementOfSeq, LenProperties
<1> QED
  BY <1>3, <1>4 DEF Infos

(* The units the callback brings next: a full upload buffer, or the rest.   *)
LEMMA WriteStructure == Structure /\ Write => Structure'
<1> SUFFICES ASSUME Structure, Write PROVE Structure'
  OBVIOUS
<1> DEFINE left == images[File].len - sent
           n    == IF left > CHUNK THEN CHUNK ELSE left
           s    == sent + n
<1>1. /\ pc = "write" /\ data = <<>> /\ caller' = "write"
      /\ UNCHANGED <<images, board, mishaps, hazards>> /\ sent' = s
  BY DEF Write, Structure, Framed
<1>2. images[File] \in [len : Nat, firmware : BOOLEAN] /\ File \in DOMAIN images
  BY FileIsThere DEF Structure
<1>3. left \in Nat /\ n \in Nat /\ n <= CHUNK /\ (n = CHUNK \/ s = images[File].len)
      /\ s \in Nat /\ s <= images[File].len
  BY <1>1, <1>2, Lengths DEF Structure, TypeOK, InTurn
<1>4. CASE /\ error \/ size = 0
           /\ pc' = AfterWrite
           /\ UNCHANGED <<data, updater>>
  <2>1. pc' \in {"end", "write"} /\ (pc' = "end" => s = images[File].len)
    BY <1>1, <1>4 DEF AfterWrite, File
  <2> HIDE DEF s
  <2>2. TypeOK'
    BY <1>1, <1>3, <1>4, <2>1 DEF Structure, TypeOK, board, updater
  <2>3. Framed'
    BY <1>1, <1>4, <2>1 DEF Structure, Framed, updater
  <2>4. Aligned'
    BY <1>1, <1>4, <2>1 DEF Structure, Framed, Aligned, updater, remaining
  <2>5. InTurn'
    BY <1>1, <1>3, <1>4, <2>1 DEF Structure, Framed, InTurn, updater, board, File
  <2> QED
    BY <2>2, <2>3, <2>4, <2>5 DEF Structure
<1>5. CASE /\ ~error /\ size > 0 /\ n > remaining
           /\ Abort /\ pc' = AfterWrite
           /\ UNCHANGED data
  <2>1. pc' \in {"end", "write"} /\ (pc' = "end" => s = images[File].len)
    BY <1>1, <1>5 DEF AfterWrite, File
  <2>2. size' = 0 /\ progress' = 0 /\ buffer' = <<>> /\ partition' = partition /\ error' = TRUE
    BY <1>5 DEF Abort, Emptied
  <2> HIDE DEF s, n
  <2>3. TypeOK'
    BY <1>1, <1>3, <1>5, <2>1, <2>2, Lengths, EmptySeq DEF Structure, TypeOK, board
  <2>4. Framed'
    BY <1>1, <1>5, <2>1, <2>2 DEF Structure, Framed
  <2>5. Aligned'
    BY <1>1, <1>5, <2>1, <2>2, Lengths, NothingWritten, EmptySeq DEF Structure, Aligned, remaining
  <2>6. InTurn'
    BY <1>1, <1>3, <1>5, <2>1, <2>2 DEF Structure, InTurn, board, File
  <2> QED
    BY <2>3, <2>4, <2>5, <2>6 DEF Structure
<1>6. CASE /\ ~error /\ size > 0 /\ n <= remaining
           /\ data' = [k \in 1 .. n |-> <<File, sent + k>>]
           /\ pc' = "fill"
           /\ UNCHANGED updater
  <2> DEFINE d == [k \in 1 .. n |-> <<File, sent + k>>]
  <2>1. d \in [1 .. n -> Units]
    BY <1>3 DEF Structure, TypeOK, File, Units
  <2>2. d \in Seq(Units) /\ Len(d) = n
    BY <1>3, <2>1, TupleOf
  <2>3. data' = d
    BY <1>6
  <2>4. size = SIZE /\ remaining = SIZE - progress
    BY <1>1, <1>6 DEF Structure, Framed, remaining
  <2>5. progress + Len(buffer) + n <= SIZE
    <3>1. progress \in Nat /\ Len(buffer) \in Nat /\ progress <= SIZE
      BY Lengths, LenProperties DEF Structure, TypeOK
    <3>2. CASE progress = SIZE
      BY <1>1, <1>3, <1>6, <2>4, <3>1, <3>2, Lengths DEF Structure, Aligned
    <3>3. CASE progress < SIZE
      <4>1. progress + SECTOR <= SIZE
        BY <1>1, <3>1, <3>3, MultiplesApart, SizeAssumption DEF Structure, Aligned
      <4>2. CASE Len(buffer) < SECTOR
        <5>1. Len(buffer) + CHUNK <= SECTOR
          BY <1>1, <3>1, <4>2, MultiplesApart, SizeAssumption DEF Structure, Aligned
        <5> QED
          BY <1>3, <3>1, <4>1, <5>1, Lengths
      <4>3. CASE Len(buffer) = SECTOR
        <5>1. progress + SECTOR < SIZE
          BY <1>1, <1>6, <2>4, <3>1, <3>3, <4>3, Lengths DEF Structure, Aligned
        <5>2. (progress + SECTOR) % SECTOR = 0
          BY <1>1, <3>1, NextMultiple, SizeAssumption DEF Structure, Aligned
        <5>3. progress + SECTOR + SECTOR <= SIZE
          <6>1. progress + SECTOR \in Nat
            BY <3>1, Lengths
          <6> QED
            BY <5>1, <5>2, <6>1, MultiplesApart, SizeAssumption
        <5>4. CHUNK <= SECTOR
          BY NothingWritten, Lengths, MultiplesApart, SizeAssumption
        <5> QED
          BY <1>3, <3>1, <4>3, <5>3, <5>4, Lengths
      <4> QED
        BY <3>1, <4>2, <4>3, Lengths DEF Structure, Aligned
    <3> QED
      BY <3>1, <3>2, <3>3, Lengths
  <2> HIDE DEF s, n, d
  <2>6. TypeOK'
    BY <1>1, <1>3, <1>6, <2>2, <2>3 DEF Structure, TypeOK, board, updater
  <2>7. Framed'
    BY <1>1, <1>6, <2>4 DEF Structure, Framed, updater
  <2>8. Aligned'
    BY <1>1, <1>3, <1>6, <2>2, <2>3, <2>5 DEF Structure, Aligned, updater, File
  <2>9. InTurn'
    BY <1>1, <1>3, <1>6 DEF Structure, InTurn, board, updater, File
  <2> QED
    BY <2>6, <2>7, <2>8, <2>9 DEF Structure
<1> QED
  BY <1>1, <1>4, <1>5, <1>6 DEF Write, remaining

(* The buffer overflows when it holds a sector already: nothing moves.      *)
LEMMA FillOverflow ==
  ASSUME Structure, Fill, Len(data) > SECTOR - Len(buffer)
  PROVE  Len(buffer) = SECTOR /\ buffer' = buffer /\ data' = data /\ pc' = "erase"
<1>1. /\ pc = "fill" /\ Len(buffer) \in Nat /\ Len(data) \in Nat
      /\ buffer \in Seq(Units) /\ data \in Seq(Units)
  BY LenProperties DEF Structure, TypeOK, Fill
<1>2. Len(buffer) = SECTOR
  <2>1. CASE Len(buffer) < SECTOR
    <3>1. Len(buffer) + CHUNK <= SECTOR
      BY <1>1, <2>1, MultiplesApart, SizeAssumption DEF Structure, Aligned
    <3> QED
      BY <1>1, <3>1, Lengths DEF Structure, Aligned
  <2> QED
    BY <1>1, <2>1, Lengths DEF Structure, Aligned
<1>3. /\ buffer' = buffer \o SubSeq(data, 1, SECTOR - Len(buffer)) /\ pc' = "erase"
      /\ data' = SubSeq(data, (SECTOR - Len(buffer)) + 1, Len(data))
  BY DEF Fill
<1>4. SECTOR - Len(buffer) = 0
  BY <1>2, Lengths
<1>5. buffer' = buffer \o <<>>
  BY <1>1, <1>3, <1>4, SubSeqEmpty
<1>6. data' = SubSeq(data, 1, Len(data))
  BY <1>3, <1>4
<1> QED
  BY <1>1, <1>2, <1>3, <1>5, <1>6, ConcatEmptySeq, SubSeqFull

(* Otherwise the data goes behind the buffer.                               *)
LEMMA FillAppend ==
  ASSUME Structure, Fill, ~(Len(data) > SECTOR - Len(buffer))
  PROVE  /\ buffer' = buffer \o data /\ data' = <<>>
         /\ buffer' \in Seq(Units) /\ Len(buffer') = Len(buffer) + Len(data)
         /\ Len(data') = 0
         /\ pc' = IF Len(buffer') = remaining THEN "erase"
                  ELSE IF sent = images[File].len THEN "end" ELSE "write"
<1>1. /\ buffer \in Seq(Units) /\ data \in Seq(Units)
      /\ buffer' = buffer \o data /\ data' = <<>>
      /\ pc' = IF Len(buffer') = remaining THEN "erase"
               ELSE IF sent = images[File].len THEN "end" ELSE "write"
  BY DEF Structure, TypeOK, Fill
<1>2. buffer \o data \in Seq(Units) /\ Len(buffer \o data) = Len(buffer) + Len(data)
  BY <1>1, ConcatProperties
<1>3. Len(<<>>) = 0
  BY EmptySeq
<1> QED
  BY <1>1, <1>2, <1>3, Zenon

(* A turn of the copy loop fills the buffer or empties the data.            *)
LEMMA FillStructure == Structure /\ Fill => Structure'
<1> SUFFICES ASSUME Structure, Fill PROVE Structure'
  OBVIOUS
<1>1. /\ pc = "fill" /\ size = SIZE /\ size > 0 /\ caller = "write"
      /\ UNCHANGED <<images, sent, caller, board, partition, size, progress, error, mishaps, hazards>>
  BY Lengths DEF Fill, Structure, Framed
<1>2. progress \in Nat /\ Len(buffer) \in Nat /\ Len(data) \in Nat /\ remaining = SIZE - progress
  BY <1>1, LenProperties, Lengths DEF Structure, TypeOK, remaining
<1>3. CASE Len(data) > SECTOR - Len(buffer)
  <2>1. Len(buffer) = SECTOR /\ buffer' = buffer /\ data' = data /\ pc' = "erase"
    BY <1>3, FillOverflow
  <2>2. TypeOK' /\ Framed' /\ InTurn'
    BY <1>1, <2>1 DEF Structure, TypeOK, Framed, InTurn, board, File
  <2>3. Aligned'
    BY <1>1, <2>1 DEF Structure, Aligned, File
  <2> QED
    BY <2>2, <2>3 DEF Structure
<1>4. CASE ~(Len(data) > SECTOR - Len(buffer))
  <2>1. /\ data' = <<>> /\ buffer' \in Seq(Units) /\ Len(buffer') = Len(buffer) + Len(data)
        /\ Len(data') = 0
        /\ pc' = IF Len(buffer') = remaining THEN "erase"
                 ELSE IF sent = images[File].len THEN "end" ELSE "write"
    BY <1>4, FillAppend
  <2>2. /\ pc' \in {"erase", "end", "write"} /\ (pc' = "erase" => Len(buffer') = remaining)
        /\ (pc' = "end" => sent = images[File].len)
        /\ (pc' = "write" => sent # images[File].len /\ Len(buffer') # remaining)
    BY <2>1
  <2>3. TypeOK' /\ Framed'
    BY <1>1, <2>1, <2>2, EmptySeq DEF Structure, TypeOK, Framed, board
  <2>4. InTurn'
    BY <1>1, <2>2 DEF Structure, InTurn, board, File
  <2>5. pc' = "write" => Len(buffer') % CHUNK = 0
    <3>1. CASE data = <<>>
      BY <1>1, <1>2, <2>1, <3>1, EmptySeq DEF Structure, Aligned
    <3>2. CASE data # <<>> /\ pc' = "write"
      <4>1. Len(data) = CHUNK
        BY <2>2, <3>2 DEF Structure, Aligned
      <4>2. (Len(buffer) + CHUNK) % CHUNK = 0
        BY <1>1, <1>2, NextMultiple, SizeAssumption DEF Structure, Aligned
      <4> QED
        BY <2>1, <4>1, <4>2, Zenon
    <3> QED
      BY <3>1, <3>2
  <2>6. remaining' = remaining
    BY <1>1 DEF remaining
  <2>7. Aligned'
    BY <1>1, <1>2, <1>4, <2>1, <2>2, <2>5, <2>6, Lengths DEF Structure, Aligned
  <2> QED
    BY <2>3, <2>4, <2>7 DEF Structure
<1> QED
  BY <1>3, <1>4

(* _writeBuffer returns to the loop with the rest of the data, to the end   *)
(* of write(), or to end().                                                 *)
LEMMA ReturnStructure ==
  ASSUME Structure, pc \in {"erase", "program"}, NEW ok \in BOOLEAN, Return(ok)
  PROVE  /\ UNCHANGED <<images, sent, caller>>
         /\ data' = data \/ data' = <<>>
         /\ ~ok => data' = <<>>
         /\ data' \in Seq(Units)
         /\ pc' \in {"enable", "fill", "end", "write"}
         /\ pc' = "enable" <=> caller = "end"
         /\ pc' = "fill" => ok
         /\ pc' # "fill" => data' = <<>>
         /\ pc' = "end" => sent = images[File].len
BY EmptySeq DEF Return, Structure, TypeOK, Framed

(* _abort: an update that fails is over, whoever called.                    *)
LEMMA AbortStructure ==
  ASSUME Structure, pc \in {"erase", "program"}, Abort, Return(FALSE),
         parts' = parts, UNCHANGED <<boot, running, resetting, mishaps>>,
         hazards' \in 0 .. MaxHazards
  PROVE  Structure'
<1>1. size' = 0 /\ progress' = 0 /\ buffer' = <<>> /\ partition' = partition /\ error' = TRUE
  BY DEF Abort, Emptied
<1>2. /\ UNCHANGED <<images, sent, caller>> /\ data' = <<>>
      /\ pc' \in {"enable", "end", "write"} /\ (pc' = "enable" <=> caller = "end")
      /\ (pc' = "end" => sent = images[File].len)
  BY ReturnStructure
<1>3. TypeOK'
  BY <1>1, <1>2, Lengths, EmptySeq DEF Structure, TypeOK
<1>4. Framed'
  BY <1>1, <1>2 DEF Structure, TypeOK, Framed
<1>5. Aligned'
  BY <1>1, <1>2, Lengths, NothingWritten, EmptySeq DEF Structure, Aligned, remaining
<1>6. InTurn'
  BY <1>1, <1>2 DEF Structure, TypeOK, InTurn, File
<1> QED
  BY <1>3, <1>4, <1>5, <1>6 DEF Structure

(* What erasing a sector makes of a partition.                              *)
(* A partition with the sector erased that the next unit is in.             *)
Erased(part) ==
  [magic |-> part.magic /\ progress # 0,
   units |-> [k \in 0 .. SIZE - 1 |-> IF k \in Sector(progress) THEN Blank ELSE part.units[k]]]

(* Erasing writes to the selected partition only.                           *)
LEMMA EraseParts ==
  ASSUME Structure, parts' = [parts EXCEPT ![partition] = Erased(@)]
  PROVE  parts' \in [Partitions -> [magic : BOOLEAN, units : [0 .. SIZE - 1 -> Units]]]
<1>1. Blank \in Units /\ partition \in Partitions
  BY DEF Blank, Units, Structure, TypeOK
<1>2. parts[partition].magic \in BOOLEAN /\ parts[partition].units \in [0 .. SIZE - 1 -> Units]
  BY <1>1 DEF Structure, TypeOK
<1>3. Erased(parts[partition]) \in [magic : BOOLEAN, units : [0 .. SIZE - 1 -> Units]]
  BY <1>1, <1>2 DEF Erased
<1> QED
  BY <1>1, <1>3 DEF Structure, TypeOK

(* _writeBuffer, up to the erased sector.                                   *)
LEMMA EraseStructure == Structure /\ Erase => Structure'
<1> SUFFICES ASSUME Structure, Erase PROVE Structure'
  OBVIOUS
<1>1. pc = "erase" /\ UNCHANGED <<boot, running, resetting, mishaps>>
  BY DEF Erase
<1>2. CASE /\ progress = 0 /\ ~StartsWithMagic
           /\ Abort /\ Return(FALSE) /\ Spared
           /\ UNCHANGED parts
  <2>1. hazards' \in 0 .. MaxHazards
    BY <1>2 DEF Spared, Structure, TypeOK
  <2> QED
    BY <1>1, <1>2, <2>1, AbortStructure
<1>3. CASE /\ parts' = [parts EXCEPT ![partition] = Erased(@)]
           /\ pc' = "program" /\ Spared
           /\ UNCHANGED <<request, updater>>
  <2>1. TypeOK'
    BY <1>1, <1>3, EraseParts DEF Structure, TypeOK, request, updater, Spared
  <2>2. Framed' /\ InTurn'
    BY <1>1, <1>3 DEF Structure, Framed, InTurn, request, updater, File
  <2>3. Aligned'
    BY <1>1, <1>3 DEF Structure, Aligned, request, updater, remaining, File
  <2> QED
    BY <2>1, <2>2, <2>3 DEF Structure
<1>4. CASE Strikes("erase") /\ Abort /\ Return(FALSE) /\ UNCHANGED parts
  <2>1. hazards' \in 0 .. MaxHazards
    BY <1>4, BoundAssumption DEF Strikes, Structure, TypeOK
  <2> QED
    BY <1>1, <1>4, <2>1, AbortStructure
<1> QED
  BY <1>2, <1>3, <1>4 DEF Erase, Erased

(* What writing the buffer makes of the units of a partition.               *)
(* The units of a partition with the buffer written behind the rest.        *)
Programmed(units) ==
  [k \in 0 .. SIZE - 1 |->
     IF k \in progress .. progress + Len(buffer) - 1 THEN buffer[k - progress + 1] ELSE units[k]]

(* Programming writes to the selected partition only.                       *)
LEMMA ProgramParts ==
  ASSUME Structure, parts' = [parts EXCEPT ![partition].units = Programmed(@)]
  PROVE  parts' \in [Partitions -> [magic : BOOLEAN, units : [0 .. SIZE - 1 -> Units]]]
<1>1. partition \in Partitions /\ progress \in Nat
  BY Lengths DEF Structure, TypeOK
<1>2. parts[partition].units \in [0 .. SIZE - 1 -> Units]
  BY <1>1 DEF Structure, TypeOK
<1>3. ASSUME NEW k \in 0 .. SIZE - 1, k \in progress .. progress + Len(buffer) - 1
      PROVE  buffer[k - progress + 1] \in Units
  <2>1. buffer \in Seq(Units) /\ Len(buffer) \in Nat
    BY LenProperties DEF Structure, TypeOK
  <2>2. k - progress + 1 \in 1 .. Len(buffer)
    BY <1>1, <1>3, <2>1
  <2> QED
    BY <2>1, <2>2, ElementOfSeq
<1>4. Programmed(parts[partition].units) \in [0 .. SIZE - 1 -> Units]
  BY <1>2, <1>3 DEF Programmed
<1> QED
  BY <1>1, <1>4 DEF Structure, TypeOK

(* The rest of _writeBuffer: a sector is full, or nothing remains.          *)
LEMMA ProgramStructure == Structure /\ Program => Structure'
<1> SUFFICES ASSUME Structure, Program PROVE Structure'
  OBVIOUS
<1>1. pc = "program" /\ UNCHANGED <<boot, running, resetting, mishaps>>
  BY DEF Program
<1>2. CASE /\ parts' = [parts EXCEPT ![partition].units = Programmed(@)]
           /\ progress' = progress + Len(buffer) /\ buffer' = <<>>
           /\ UNCHANGED <<partition, size, error>>
           /\ Return(TRUE) /\ Spared
  <2>1. /\ progress \in Nat /\ Len(buffer) \in Nat /\ Len(data) \in Nat /\ size = SIZE
        /\ progress + Len(buffer) + Len(data) <= SIZE /\ ~error
    BY <1>1, LenProperties, Lengths DEF Structure, TypeOK, Framed, Aligned
  <2>2. /\ UNCHANGED <<images, sent, caller>> /\ data' = data
        /\ pc' \in {"enable", "fill", "end", "write"} /\ (pc' = "enable" <=> caller = "end")
        /\ (pc' # "fill" => data = <<>>) /\ (pc' = "end" => sent = images[File].len)
    BY <1>1, <1>2, ReturnStructure DEF Return
  <2>3. Len(buffer') = 0 /\ progress' + Len(buffer') + Len(data') <= SIZE
    BY <1>2, <2>1, <2>2, EmptySeq
  <2>4. TypeOK'
    <3>1. progress' \in 0 .. SIZE
      BY <1>2, <2>1, Lengths
    <3> QED
      BY <1>1, <1>2, <2>2, <3>1, ProgramParts, EmptySeq DEF Structure, TypeOK, Spared
  <2>5. Framed'
    <3>1. size' = SIZE /\ SIZE # 0 /\ error' = FALSE /\ buffer' = <<>>
      BY <1>2, <2>1, Lengths DEF Structure, TypeOK
    <3>2. /\ caller' = caller /\ data' = data /\ (caller = "end" => data = <<>>)
          /\ caller # "end" => caller = "write"
      BY <2>2 DEF Structure, TypeOK, Framed
    <3> QED
      BY <2>2, <3>1, <3>2 DEF Framed
  <2>6. InTurn'
    BY <1>1, <1>2, <2>1, <2>2 DEF Structure, InTurn, File
  <2>7. caller = "write" => progress' % SECTOR = 0
    <3> SUFFICES ASSUME caller = "write" PROVE progress' % SECTOR = 0
      OBVIOUS
    <3>1. Len(buffer) = SECTOR \/ progress + Len(buffer) = SIZE
      BY <1>1, <2>1, Lengths DEF Structure, Aligned, remaining
    <3>2. (progress + SECTOR) % SECTOR = 0
      BY <1>1, <2>1, NextMultiple, SizeAssumption DEF Structure, Aligned
    <3>3. CASE Len(buffer) = SECTOR
      BY <1>2, <3>2, <3>3, Zenon
    <3>4. CASE progress + Len(buffer) = SIZE
      BY <1>2, <3>4, SizeAssumption, Zenon
    <3> QED
      BY <3>1, <3>3, <3>4
  <2>8. remaining' = size - (progress + Len(buffer)) /\ (0 < remaining' \/ remaining' = 0)
    BY <1>2, <2>1, <2>3, Lengths DEF remaining
  <2>9. Len(buffer') % CHUNK = 0 /\ Len(buffer') <= SECTOR
    BY <2>3, NothingWritten, Lengths
  <2>10. caller # "end" => caller = "write"
    BY DEF Structure, TypeOK
  <2>11. Aligned'
    BY <1>1, <2>2, <2>3, <2>7, <2>8, <2>9, <2>10 DEF Structure, Aligned, File
  <2> QED
    BY <2>4, <2>5, <2>6, <2>11 DEF Structure
<1>3. CASE Strikes("program") /\ Abort /\ Return(FALSE) /\ UNCHANGED parts
  <2>1. hazards' \in 0 .. MaxHazards
    BY <1>3, BoundAssumption DEF Strikes, Structure, TypeOK
  <2> QED
    BY <1>1, <1>3, <2>1, AbortStructure
<1> QED
  BY <1>2, <1>3 DEF Program, Programmed

(* end() finds the whole file handed over.                                  *)
LEMMA EndStructure == Structure /\ End => Structure'
<1> SUFFICES ASSUME Structure, End PROVE Structure'
  OBVIOUS
<1>1. /\ pc = "end" /\ caller' = "end" /\ data = <<>> /\ sent = images[File].len
      /\ UNCHANGED <<images, sent, data, updater, board, mishaps, hazards>>
      /\ pc' \in {"post", "erase", "enable"}
      /\ (pc' = "post" => size = 0) /\ (pc' # "post" => size # 0) /\ (pc' = "enable" => buffer = <<>>)
  BY DEF End, Structure, Framed, InTurn
<1>2. TypeOK'
  BY <1>1 DEF Structure, TypeOK, updater, board
<1>3. Framed' /\ InTurn'
  BY <1>1 DEF Structure, Framed, InTurn, updater, board, File
<1>4. pc' = "erase" => Len(buffer) > 0
  <2>1. (pc' = "erase" => buffer # <<>>) /\ buffer \in Seq(Units)
    BY DEF End, Structure, TypeOK
  <2> QED
    BY <2>1, EmptySeq
<1>5. Aligned'
  BY <1>1, <1>4 DEF Structure, Aligned, updater, remaining, File
<1> QED
  BY <1>2, <1>3, <1>5 DEF Structure

(* _reset() and _abort between two requests.                                *)
LEMMA ClearedStructure ==
  ASSUME Structure, Emptied, data = <<>>, UNCHANGED <<request, resetting, running, mishaps>>,
         error' \in BOOLEAN, boot' \in Partitions, hazards' \in 0 .. MaxHazards,
         pc' = "post", parts' \in [Partitions -> [magic : BOOLEAN, units : [0 .. SIZE - 1 -> Units]]]
  PROVE  Structure'
<1>1. /\ size' = 0 /\ progress' = 0 /\ buffer' = <<>> /\ partition' = partition
      /\ UNCHANGED <<images, sent, data, caller>>
  BY DEF Emptied, request
<1>2. TypeOK'
  BY <1>1, Lengths, EmptySeq DEF Structure, TypeOK
<1>3. Framed' /\ InTurn'
  BY <1>1 DEF Structure, Framed, InTurn, File
<1>4. Aligned'
  BY <1>1, Lengths, NothingWritten, EmptySeq DEF Structure, Aligned, remaining
<1> QED
  BY <1>2, <1>3, <1>4 DEF Structure

(* _enablePartition.                                                        *)
LEMMA EnableStructure == Structure /\ Enable => Structure'
<1> SUFFICES ASSUME Structure, Enable PROVE Structure'
  OBVIOUS
<1>1. /\ pc = "enable" /\ data = <<>> /\ buffer = <<>> /\ caller = "end"
      /\ UNCHANGED <<request, boot, running, resetting>>
      /\ mishaps' = mishaps \cup {m \in {"unwritten"} : progress = 0}
  BY DEF Enable, Structure, Framed
<1>2. mishaps' \subseteq {"abandoned", "unwritten"}
  BY <1>1 DEF Structure, TypeOK
<1>3. CASE /\ parts' = [parts EXCEPT ![partition].magic = TRUE]
           /\ size' = progress
           /\ UNCHANGED <<partition, progress, buffer, error>>
           /\ pc' = "select" /\ Spared
  <2>1. TypeOK'
    BY <1>1, <1>2, <1>3 DEF Structure, TypeOK, Spared, request
  <2>2. Framed' /\ InTurn'
    BY <1>1, <1>3 DEF Structure, Framed, InTurn, request, File
  <2>3. Aligned'
    BY <1>1, <1>3 DEF Structure, Aligned, request, File
  <2> QED
    BY <2>1, <2>2, <2>3 DEF Structure
<1>4. CASE Strikes("enable") /\ Abort /\ pc' = "post" /\ UNCHANGED parts
  <2>1. /\ hazards' \in 0 .. MaxHazards /\ error' = TRUE
        /\ size' = 0 /\ progress' = 0 /\ buffer' = <<>> /\ partition' = partition
        /\ UNCHANGED <<images, sent, data, caller>>
    BY <1>1, <1>4, BoundAssumption DEF Strikes, Abort, Emptied, Structure, TypeOK, request
  <2>2. TypeOK'
    BY <1>1, <1>2, <1>4, <2>1, Lengths, EmptySeq DEF Structure, TypeOK
  <2>3. Framed' /\ InTurn'
    BY <1>1, <1>4, <2>1 DEF Structure, Framed, InTurn, File
  <2>4. Aligned'
    BY <1>1, <1>4, <2>1, Lengths, NothingWritten, EmptySeq DEF Structure, Aligned, remaining
  <2> QED
    BY <2>2, <2>3, <2>4 DEF Structure
<1> QED
  BY <1>3, <1>4 DEF Enable

(* esp_ota_set_boot_partition, after which the update is over.              *)
LEMMA SelectStructure == Structure /\ Select => Structure'
<1> SUFFICES ASSUME Structure, Select PROVE Structure'
  OBVIOUS
<1>1. /\ data = <<>> /\ pc' = "post" /\ Emptied /\ error' \in BOOLEAN /\ boot' \in Partitions
      /\ UNCHANGED <<request, parts, running, resetting, mishaps>> /\ hazards' \in 0 .. MaxHazards
  <2>1. /\ data = <<>> /\ pc' = "post" /\ boot' \in Partitions
        /\ UNCHANGED <<request, parts, running, resetting, mishaps>>
    BY DEF Select, Structure, Framed, TypeOK
  <2>2. CASE boot' = partition /\ Emptied /\ Spared /\ UNCHANGED error
    BY <2>1, <2>2 DEF Structure, TypeOK, Spared
  <2>3. CASE Strikes("activate") /\ Abort /\ UNCHANGED boot
    BY <2>1, <2>3, BoundAssumption DEF Structure, TypeOK, Abort, Strikes
  <2> QED
    BY <2>2, <2>3 DEF Select
<1> QED
  BY <1>1, ClearedStructure DEF Structure, TypeOK

(* The POST handler finds no update.                                        *)
LEMMA PostStructure == Structure /\ Post => Structure'
<1> SUFFICES ASSUME Structure, Post PROVE Structure'
  OBVIOUS
<1>1. /\ pc \in {"idle", "post"} /\ pc' = "idle" /\ resetting' \in BOOLEAN
      /\ UNCHANGED <<request, updater, parts, boot, running, mishaps, hazards>>
  BY DEF Post, Structure, TypeOK
<1>2. TypeOK' /\ Framed' /\ InTurn'
  BY <1>1 DEF Structure, TypeOK, Framed, InTurn, request, updater, File
<1>3. pc = "post" => buffer = <<>>
  BY DEF Structure, Framed, InTurn
<1>4. Aligned'
  BY <1>1, <1>3, NothingWritten, EmptySeq DEF Structure, InTurn, Aligned, request, updater, remaining, File
<1> QED
  BY <1>2, <1>4 DEF Structure

(* A client that goes away leaves the update as it is.                      *)
LEMMA DisconnectStructure == Structure /\ Disconnect => Structure'
<1> SUFFICES ASSUME Structure, Disconnect PROVE Structure'
  OBVIOUS
<1>1. /\ pc = "write" /\ pc' = "idle" /\ mishaps' = mishaps \cup {"abandoned"}
      /\ UNCHANGED <<request, updater, board>> /\ hazards' \in 0 .. MaxHazards
  BY BoundAssumption DEF Disconnect, Strikes, Structure, TypeOK
<1>2. TypeOK' /\ Framed' /\ InTurn'
  BY <1>1 DEF Structure, TypeOK, Framed, InTurn, request, updater, board, File
<1>3. Aligned'
  BY <1>1 DEF Structure, Aligned, request, updater, remaining, File
<1> QED
  BY <1>2, <1>3 DEF Structure

(* A start of the board forgets the request and the update.                 *)
LEMMA BootStructure == Structure /\ Boot /\ hazards' \in 0 .. MaxHazards => Structure'
<1> SUFFICES ASSUME Structure, Boot, hazards' \in 0 .. MaxHazards PROVE Structure'
  OBVIOUS
<1>1. /\ running' \in Partitions /\ pc' = "idle" /\ resetting' = FALSE
      /\ sent' = 0 /\ data' = <<>> /\ caller' = "write"
      /\ size' = 0 /\ progress' = 0 /\ buffer' = <<>> /\ partition' = partition /\ error' = FALSE
      /\ UNCHANGED <<images, parts, boot, mishaps>>
  BY OtherDiffers DEF Boot, Emptied, Structure, TypeOK
<1>2. TypeOK'
  <2>1. 0 \in 0 .. SIZE /\ 0 \in Nat /\ <<>> \in Seq(Units)
    BY Lengths, EmptySeq
  <2>2. {boot', running', partition'} \subseteq Partitions
    BY <1>1 DEF Structure, TypeOK
  <2> QED
    BY <1>1, <2>1, <2>2 DEF Structure, TypeOK
<1>3. Framed' /\ InTurn'
  BY <1>1 DEF Structure, Framed, InTurn
<1>4. Aligned'
  BY <1>1, Lengths, NothingWritten, EmptySeq DEF Structure, Aligned, remaining
<1> QED
  BY <1>2, <1>3, <1>4 DEF Structure

(* Every step keeps the fields of UpdateClass together.                     *)
LEMMA NextStructure == Structure /\ [Next]_vars => Structure'
<1> SUFFICES ASSUME Structure, [Next]_vars PROVE Structure'
  OBVIOUS
<1>1. ASSUME Reset \/ PowerCut PROVE Structure'
  <2>1. Boot /\ hazards' \in 0 .. MaxHazards
    BY <1>1, BoundAssumption DEF Reset, PowerCut, Spared, Strikes, Structure, TypeOK
  <2> QED
    BY <2>1, BootStructure
<1>2. CASE UNCHANGED vars
  <2>1. TypeOK' /\ Framed' /\ InTurn'
    BY <1>2 DEF Structure, TypeOK, Framed, InTurn, vars, request, updater, board, File
  <2>2. Aligned'
    BY <1>2 DEF Structure, Aligned, vars, request, updater, remaining, File
  <2> QED
    BY <2>1, <2>2 DEF Structure
<1> QED
  BY <1>1, <1>2, StartStructure, WriteStructure, FillStructure, EraseStructure, ProgramStructure,
     EndStructure, EnableStructure, SelectStructure, PostStructure, DisconnectStructure DEF Next

(* At every step of any history of uploads, failures and restarts, the      *)
(* fields of UpdateClass fit the step of the request, and _writeBuffer      *)
(* starts at a sector.                                                      *)
THEOREM UpdateStructure == Spec => []Structure
<1> QED
  BY InitStructure, NextStructure, PTL DEF Spec

(* The partition that runs is another one than the partition written to.    *)
LEMMA NextRunningUntouched ==
  Structure /\ [Next]_vars => (running' = running => parts'[running] = parts[running])
<1> SUFFICES ASSUME Structure, [Next]_vars, running' = running PROVE parts'[running] = parts[running]
  OBVIOUS
<1>1. CASE Erase \/ Program \/ Enable
  <2>1. partition # running /\ running \in Partitions /\ partition \in Partitions
    BY <1>1 DEF Structure, TypeOK, InTurn, Erase, Program, Enable
  <2>2. \/ parts' = parts
        \/ \E x : parts' = [parts EXCEPT ![partition] = x]
        \/ \E x : parts' = [parts EXCEPT ![partition].units = x]
        \/ parts' = [parts EXCEPT ![partition].magic = TRUE]
    BY <1>1 DEF Erase, Program, Enable
  <2> QED
    BY <2>1, <2>2 DEF Structure, TypeOK
<1>2. CASE Start \/ Write \/ Fill \/ End \/ Select \/ Post \/ Disconnect \/ Reset \/ PowerCut \/ UNCHANGED vars
  BY <1>2 DEF Start, Write, Fill, End, Select, Post, Disconnect, Reset, PowerCut, Boot, board, vars
<1> QED
  BY <1>1, <1>2 DEF Next

(* No step but a restart of the board writes to the running partition:      *)
(* begin() takes the partition that does not run, and the update stays in   *)
(* it through every later step (Updater.cpp:92-144).                        *)
THEOREM UpdateRunningUntouched == Spec => RunningUntouched
<1>1. Structure /\ [Next]_vars => [running' = running => parts'[running] = parts[running]]_vars
  BY NextRunningUntouched
<1> QED
  BY <1>1, UpdateStructure, PTL DEF Spec, RunningUntouched

(* The boot loader finds a partition to start as long as one could run.     *)
LEMMA NextNeverBricked == Structure /\ NeverBricked /\ [Next]_vars => NeverBricked'
<1> SUFFICES ASSUME Structure, NeverBricked, [Next]_vars PROVE NeverBricked'
  OBVIOUS
<1>1. CASE Reset \/ PowerCut
  <2>1. Boot
    BY <1>1 DEF Reset, PowerCut
  <2>2. \A p, q \in Partitions : p # q => Other(p) = q
    BY DEF Partitions, Other
  <2>3. boot \in Partitions /\ running \in Partitions
    BY DEF Structure, TypeOK
  <2>4. Bootable(running') /\ parts' = parts
    BY <2>1, <2>2, <2>3 DEF Boot, NeverBricked
  <2> QED
    BY <2>4 DEF NeverBricked, Bootable
<1>2. CASE ~(Reset \/ PowerCut)
  <2>1. running' = running
    BY <1>2 DEF Next, vars, board, Start, Write, Fill, Erase, Program, End, Enable, Select, Post, Disconnect
  <2>2. parts'[running] = parts[running]
    BY <2>1, NextRunningUntouched
  <2> QED
    BY <2>1, <2>2 DEF NeverBricked, Bootable
<1> QED
  BY <1>1, <1>2

(* Whatever fails, at any step, the board runs from a partition with a      *)
(* magic byte: the running one keeps it and the boot loader falls back.     *)
THEOREM UpdateNeverBricked == Spec => []NeverBricked
<1>1. Init => NeverBricked
  <2> SUFFICES ASSUME Init PROVE parts["app0"].magic
    BY DEF Init, NeverBricked, Bootable
  <2>1. "app0" \in Partitions
    BY DEF Partitions
  <2>2. parts["app0"].magic = ("app0" = "app0")
    BY <2>1 DEF Init
  <2> QED
    BY <2>2
<1> QED
  BY <1>1, NextNeverBricked, UpdateStructure, PTL DEF Spec

(* An update is left running only when the client went away.                *)
LEMMA NextReady == Structure /\ ReadyForNext /\ [Next]_vars => ReadyForNext'
<1> SUFFICES ASSUME Structure, ReadyForNext, [Next]_vars, pc' = "idle", "abandoned" \notin mishaps'
             PROVE  size' = 0 /\ buffer' = <<>>
  BY DEF ReadyForNext
<1>1. CASE Start \/ Write \/ Fill \/ Erase \/ Program \/ End \/ Enable \/ Select \/ Disconnect
  BY <1>1 DEF Start, Write, Fill, Erase, Program, Return, End, Enable, Select, AfterWrite, Disconnect
<1>2. CASE Post
  BY <1>2 DEF Post, updater, Structure, InTurn, Framed, ReadyForNext
<1>3. CASE Reset \/ PowerCut
  BY <1>3 DEF Reset, PowerCut, Boot, Emptied
<1>4. CASE UNCHANGED vars
  BY <1>4 DEF vars, updater, ReadyForNext
<1> QED
  BY <1>1, <1>2, <1>3, <1>4 DEF Next

(* After a request whose client has stayed, begin() accepts the next file:  *)
(* every failing step ends in _abort and every success in _reset().         *)
THEOREM UpdateReadyForNext == Spec => []ReadyForNext
<1>1. Init => ReadyForNext
  BY DEF Init, ReadyForNext
<1> QED
  BY <1>1, NextReady, UpdateStructure, PTL DEF Spec

(* What has come of the file is in its place, and nothing of it can be      *)
(* booted before all of it has come.                                        *)
LEMMA StartCopied ==
  Structure /\ ReadyForNext /\ Start => Copied'
<1> SUFFICES ASSUME Structure, ReadyForNext, Start, mishaps' = {}, size' > 0 PROVE Copied'
  BY DEF Copied
<1>1. size = 0 /\ data = <<>>
  BY DEF Start, Structure, Framed, ReadyForNext
<1>2. progress' = 0 /\ buffer' = <<>> /\ data' = <<>> /\ sent' = 0 /\ pc' = "write"
  BY <1>1 DEF Start
<1>3. Len(buffer') = 0 /\ Len(data') = 0
  BY <1>2, EmptySeq
<1> QED
  BY <1>2, <1>3 DEF Copied

(* The same fields, at another step of the request.                         *)
LEMMA SameCopied ==
  ASSUME Copied, mishaps' = {} => mishaps = {}, pc \notin {"select"},
         UNCHANGED <<images, sent, data, size, partition, progress, buffer>>,
         parts'[partition] = parts[partition],
         pc' = "program" => pc = "program"
  PROVE  Copied'
<1> SUFFICES ASSUME mishaps = {}, size > 0 PROVE Copied'
  BY DEF Copied
<1>1. /\ progress + Len(buffer) + Len(data) = sent
      /\ \A k \in 1 .. progress : parts[partition].units[k - 1] = <<File, k>>
      /\ \A k \in 1 .. Len(buffer) : buffer[k] = <<File, progress + k>>
      /\ \A k \in 1 .. Len(data) : data[k] = <<File, progress + Len(buffer) + k>>
      /\ progress > 0 \/ pc = "program" => images[File].firmware
      /\ progress > 0 \/ pc = "program" => ~parts[partition].magic
  BY DEF Copied
<1>2. File' = File
  BY DEF File
<1> QED
  BY <1>1, <1>2 DEF Copied

(* write() is handed what comes next of the file.                           *)
LEMMA WriteCopied == Structure /\ Copied /\ Write => Copied'
<1> SUFFICES ASSUME Structure, Copied, Write, mishaps' = {}, size' > 0 PROVE Copied'
  BY DEF Copied
<1> DEFINE left == images[File].len - sent
           n    == IF left > CHUNK THEN CHUNK ELSE left
           d    == [k \in 1 .. n |-> <<File, sent + k>>]
<1>1. pc = "write" /\ data = <<>> /\ UNCHANGED <<images, board, mishaps>> /\ sent' = sent + n
  BY DEF Write, Structure, Framed
<1>2. CASE data' = d /\ pc' = "fill" /\ UNCHANGED updater
  <2>1. n \in Nat
    <3>1. images[File].len \in Nat /\ sent \in Nat
      BY FileIsThere DEF Structure, TypeOK
    <3> QED
      BY <1>1, <3>1, Lengths DEF Structure, InTurn
  <2>2. d \in [1 .. n -> Units]
    BY <2>1 DEF Structure, TypeOK, File, Units
  <2>3. Len(d) = n /\ Len(data) = 0
    BY <1>1, <2>1, <2>2, TupleOf, EmptySeq
  <2>4. progress \in Nat /\ Len(buffer) \in Nat /\ sent \in Nat
    BY LenProperties, Lengths DEF Structure, TypeOK
  <2>5. progress + Len(buffer) = sent
    BY <1>1, <1>2, <2>3, <2>4 DEF Copied, updater
  <2>6. \A k \in 1 .. n : d[k] = <<File, progress + Len(buffer) + k>>
    BY <2>5
  <2> HIDE DEF n, d
  <2>7. progress + Len(buffer) + n = sent'
    BY <1>1, <2>5
  <2> QED
    BY <1>1, <1>2, <2>3, <2>6, <2>7 DEF Copied, updater, board, File
<1>3. CASE (error \/ size = 0) /\ UNCHANGED updater
  BY <1>3 DEF Structure, Framed, updater
<1>4. CASE Abort
  BY <1>4 DEF Abort, Emptied
<1> QED
  BY <1>1, <1>2, <1>3, <1>4 DEF Write

(* The copy loop keeps the order.                                           *)
LEMMA FillCopied == Structure /\ Copied /\ Fill => Copied'
<1> SUFFICES ASSUME Structure, Copied, Fill, mishaps' = {}, size' > 0 PROVE Copied'
  BY DEF Copied
<1>1. /\ pc = "fill" /\ mishaps = {} /\ size > 0
      /\ UNCHANGED <<images, sent, board, partition, size, progress, mishaps>>
  BY DEF Fill
<1>2. CASE Len(data) > SECTOR - Len(buffer)
  <2>1. buffer' = buffer /\ data' = data /\ pc' = "erase"
    BY <1>2, FillOverflow
  <2> QED
    BY <1>1, <2>1, SameCopied DEF board
<1>3. CASE ~(Len(data) > SECTOR - Len(buffer))
  <2>1. /\ buffer' = buffer \o data /\ data' = <<>>
        /\ Len(buffer') = Len(buffer) + Len(data) /\ Len(data') = 0
        /\ pc' \notin {"program", "select"}
    BY <1>3, FillAppend
  <2>2. /\ progress \in Nat /\ Len(buffer) \in Nat /\ Len(data) \in Nat
        /\ buffer \in Seq(Units) /\ data \in Seq(Units)
    BY LenProperties, Lengths DEF Structure, TypeOK
  <2>3. /\ progress + Len(buffer) + Len(data) = sent
        /\ \A k \in 1 .. Len(buffer) : buffer[k] = <<File, progress + k>>
        /\ \A k \in 1 .. Len(data) : data[k] = <<File, progress + Len(buffer) + k>>
    BY <1>1 DEF Copied
  <2>4. ASSUME NEW k \in 1 .. Len(buffer) + Len(data) PROVE buffer'[k] = <<File, progress + k>>
    <3>1. buffer'[k] = IF k <= Len(buffer) THEN buffer[k] ELSE data[k - Len(buffer)]
      BY <2>1, <2>2, ConcatProperties
    <3>2. CASE k <= Len(buffer)
      BY <2>2, <2>3, <3>1, <3>2
    <3>3. CASE ~(k <= Len(buffer))
      <4>1. k - Len(buffer) \in 1 .. Len(data) /\ progress + Len(buffer) + (k - Len(buffer)) = progress + k
        BY <2>2, <3>3
      <4> QED
        BY <2>3, <3>1, <3>3, <4>1
    <3> QED
      BY <3>2, <3>3
  <2>5. progress' + Len(buffer') + Len(data') = sent'
    BY <1>1, <2>1, <2>2, <2>3
  <2>6. File' = File
    BY <1>1 DEF File
  <2> QED
    BY <1>1, <2>1, <2>4, <2>5, <2>6 DEF Copied, board
<1> QED
  BY <1>2, <1>3

(* The sector that is erased starts behind what was written, and an image   *)
(* of which anything is written starts with the magic byte.                 *)
LEMMA EraseCopied == Structure /\ Copied /\ Erase => Copied'
<1> SUFFICES ASSUME Structure, Copied, Erase, mishaps' = {}, size' > 0 PROVE Copied'
  BY DEF Copied
<1>1. CASE Abort
  BY <1>1 DEF Abort, Emptied
<1>2. CASE /\ progress = 0 => StartsWithMagic
           /\ parts' = [parts EXCEPT ![partition] = Erased(@)]
           /\ pc' = "program"
           /\ UNCHANGED <<request, updater>>
  <2>1. /\ pc = "erase" /\ mishaps = {} /\ size > 0 /\ partition \in Partitions /\ progress \in Nat
        /\ parts' [partition] = Erased(parts[partition])
    BY <1>2, Lengths DEF Erase, updater, Structure, TypeOK
  <2>2. /\ progress + Len(buffer) + Len(data) = sent
        /\ \A k \in 1 .. progress : parts[partition].units[k - 1] = <<File, k>>
        /\ \A k \in 1 .. Len(buffer) : buffer[k] = <<File, progress + k>>
        /\ \A k \in 1 .. Len(data) : data[k] = <<File, progress + Len(buffer) + k>>
        /\ progress > 0 => images[File].firmware /\ ~parts[partition].magic
    BY <2>1 DEF Copied
  <2>3. ASSUME NEW k \in 1 .. progress PROVE Erased(parts[partition]).units[k - 1] = <<File, k>>
    <3>1. k - 1 \in Nat /\ k - 1 < progress /\ k - 1 \in 0 .. SIZE - 1
      BY <2>1, Lengths DEF Structure, TypeOK
    <3>2. k - 1 \notin Sector(progress)
      <4>1. SUFFICES ASSUME (k - 1) \div SECTOR = progress \div SECTOR PROVE FALSE
        BY DEF Sector
      <4>2. progress <= k - 1
        BY <2>1, <3>1, <4>1, SectorStarts, SizeAssumption DEF Structure, Aligned
      <4> QED
        BY <2>1, <3>1, <4>2
    <3> QED
      BY <2>2, <3>1, <3>2 DEF Erased
  <2>4. images[File].firmware
    <3>1. CASE progress > 0
      BY <2>2, <3>1
    <3>2. CASE progress = 0
      <4>1. Len(buffer) \in Nat /\ Len(buffer) > 0
        <5>1. Len(buffer) \in Nat /\ size = SIZE
          BY <2>1, LenProperties DEF Structure, TypeOK, Framed
        <5> QED
          BY <2>1, <3>2, <5>1, Lengths DEF Structure, TypeOK, Aligned, remaining
      <4>2. buffer[1] = <<File, 1>>
        BY <2>1, <2>2, <3>2, <4>1
      <4> QED
        BY <1>2, <3>2, <4>2 DEF StartsWithMagic
    <3> QED
      BY <2>1, <3>1, <3>2
  <2>5. ~Erased(parts[partition]).magic
    <3>1. Erased(parts[partition]).magic = (parts[partition].magic /\ progress # 0)
      BY Zenon DEF Erased
    <3>2. progress # 0 => ~parts[partition].magic
      BY <2>1, <2>2
    <3> QED
      BY <3>1, <3>2, Zenon
  <2>6. File' = File
    BY <1>2 DEF File, request
  <2> QED
    BY <1>2, <2>1, <2>2, <2>3, <2>4, <2>5, <2>6 DEF Copied, request, updater
<1> QED
  BY <1>1, <1>2 DEF Erase, Erased

(* What is written is what comes next of the file.                          *)
LEMMA ProgramCopied == Structure /\ Copied /\ Program => Copied'
<1> SUFFICES ASSUME Structure, Copied, Program, mishaps' = {}, size' > 0 PROVE Copied'
  BY DEF Copied
<1>1. CASE Abort
  BY <1>1 DEF Abort, Emptied
<1>2. CASE /\ parts' = [parts EXCEPT ![partition].units = Programmed(@)]
           /\ progress' = progress + Len(buffer) /\ buffer' = <<>>
           /\ UNCHANGED <<partition, size, error>>
           /\ Return(TRUE)
  <2>1. /\ pc = "program" /\ mishaps = {} /\ size > 0 /\ partition \in Partitions /\ progress \in Nat
        /\ data' = data /\ pc' \notin {"program", "select"} /\ UNCHANGED <<images, sent>>
        /\ Len(buffer) \in Nat /\ Len(data) \in Nat
    BY <1>2, LenProperties, Lengths DEF Program, Return, Structure, TypeOK
  <2>2. /\ progress + Len(buffer) + Len(data) = sent
        /\ \A k \in 1 .. progress : parts[partition].units[k - 1] = <<File, k>>
        /\ \A k \in 1 .. Len(buffer) : buffer[k] = <<File, progress + k>>
        /\ \A k \in 1 .. Len(data) : data[k] = <<File, progress + Len(buffer) + k>>
        /\ images[File].firmware /\ ~parts[partition].magic
    BY <2>1 DEF Copied
  <2>3. /\ parts'[partition].units = Programmed(parts[partition].units)
        /\ parts'[partition].magic = parts[partition].magic
    BY <1>2, <2>1 DEF Structure, TypeOK
  <2>4. ASSUME NEW k \in 1 .. progress + Len(buffer)
        PROVE  Programmed(parts[partition].units)[k - 1] = <<File, k>>
    <3>1. k - 1 \in 0 .. SIZE - 1
      BY <2>1, Lengths DEF Structure, Aligned
    <3>2. CASE k <= progress
      <4>1. k - 1 \notin progress .. progress + Len(buffer) - 1 /\ k \in 1 .. progress
        BY <2>1, <3>2
      <4> QED
        BY <2>2, <3>1, <4>1 DEF Programmed
    <3>3. CASE ~(k <= progress)
      <4>1. /\ k - 1 \in progress .. progress + Len(buffer) - 1
            /\ (k - 1) - progress + 1 = k - progress /\ k - progress \in 1 .. Len(buffer)
            /\ progress + (k - progress) = k
        BY <2>1, <3>3
      <4> QED
        BY <2>2, <3>1, <4>1 DEF Programmed
    <3> QED
      BY <3>2, <3>3
  <2>5. Len(buffer') = 0 /\ File' = File
    BY <1>2, <2>1, EmptySeq DEF File
  <2>6. progress' + Len(buffer') + Len(data') = sent'
    BY <1>2, <2>1, <2>2, <2>5
  <2>7. \A k \in 1 .. Len(data) : data[k] = <<File, progress' + Len(buffer') + k>>
    BY <1>2, <2>1, <2>2, <2>5
  <2> QED
    BY <1>2, <2>1, <2>2, <2>3, <2>4, <2>5, <2>6, <2>7 DEF Copied
<1> QED
  BY <1>1, <1>2 DEF Program, Programmed

(* Every step keeps the file in order.                                      *)
LEMMA NextCopied == Structure /\ ReadyForNext /\ Copied /\ [Next]_vars => Copied'
<1> SUFFICES ASSUME Structure, ReadyForNext, Copied, [Next]_vars, mishaps' = {}, size' > 0 PROVE Copied'
  BY DEF Copied
<1>1. CASE End
  <2>1. UNCHANGED <<images, sent, data, size, partition, progress, buffer, parts, mishaps>>
    BY <1>1 DEF End, updater, board
  <2> QED
    BY <1>1, <2>1, SameCopied DEF End
<1>2. CASE Enable
  <2>1. mishaps = {} /\ pc = "enable" /\ pc' = "select" /\ progress > 0
        /\ UNCHANGED <<partition, progress, buffer, request>>
        /\ parts' = [parts EXCEPT ![partition].magic = TRUE]
    BY <1>2 DEF Enable, Abort, Emptied
  <2>2. size > 0 /\ partition \in Partitions
    BY <2>1 DEF Structure, Framed, TypeOK
  <2>3. parts'[partition].units = parts[partition].units
    BY <2>1, <2>2 DEF Structure, TypeOK
  <2> QED
    BY <2>1, <2>2, <2>3 DEF Copied, request, File
<1>3. CASE Select \/ Reset \/ PowerCut
  BY <1>3 DEF Select, Abort, Emptied, Reset, PowerCut, Boot
<1>4. CASE Post
  <2>1. size = 0
    BY <1>4 DEF Post, Structure, InTurn, ReadyForNext
  <2> QED
    BY <1>4, <2>1 DEF Post, updater
<1>5. CASE Disconnect
  BY <1>5 DEF Disconnect
<1>6. CASE UNCHANGED vars
  BY <1>6 DEF vars, request, updater, board, Copied, File
<1> QED
  BY <1>1, <1>2, <1>3, <1>4, <1>5, <1>6, StartCopied, WriteCopied, FillCopied, EraseCopied, ProgramCopied DEF Next

(* A partition that is not written keeps its image.                         *)
LEMMA SameComplete ==
  ASSUME Structure, NEW p \in Partitions, parts'[p] = parts[p], Complete(p),
         UNCHANGED images \/ \E f \in Files : images' = Append(images, f)
  PROVE  Complete(p)'
<1>1. PICK u \in DOMAIN images : Holds(p, u)
  BY DEF Complete
<1>2. u \in DOMAIN images' /\ images'[u] = images[u]
  <2>1. CASE \E f \in Files : images' = Append(images, f)
    <3> DEFINE Infos == [len : Nat, firmware : BOOLEAN]
    <3>1. PICK f \in Infos : images' = Append(images, f)
      BY <2>1, FilesAssumption
    <3>2. images \in Seq(Infos)
      BY DEF Structure, TypeOK
    <3> HIDE DEF Infos
    <3>3. DOMAIN images = 1 .. Len(images) /\ Len(images) \in Nat
      BY <3>2, LenProperties
    <3>4. f \in Infos /\ u \in 1 .. Len(images)
      BY <3>1, <3>3
    <3> DEFINE longer == Append(images, f)
    <3>5. longer \in Seq(Infos) /\ Len(longer) = Len(images) + 1 /\ longer[u] = images[u]
      BY <3>2, <3>4, AppendProperties
    <3>6. images' = longer
      BY <3>1
    <3> HIDE DEF longer
    <3>7. DOMAIN longer = 1 .. Len(longer)
      BY <3>5, LenProperties
    <3>8. u \in DOMAIN longer
      BY <3>3, <3>4, <3>5, <3>7
    <3> QED
      BY <3>5, <3>6, <3>8
  <2> QED
    BY <2>1
<1>3. Holds(p, u)'
  BY <1>1, <1>2 DEF Holds
<1> QED
  BY <1>2, <1>3 DEF Complete, Bootable

(* A partition gets its magic byte in _enablePartition only, when all of    *)
(* the file is in it.                                                       *)
LEMMA NextPartialHasCause == Structure /\ Copied /\ PartialHasCause /\ [Next]_vars => PartialHasCause'
<1> SUFFICES ASSUME Structure, Copied, PartialHasCause, [Next]_vars, mishaps' = {},
                    NEW p \in Partitions, Bootable(p)'
             PROVE  Complete(p)'
  BY DEF PartialHasCause, PartialNotBootable
<1>1. mishaps = {}
  BY DEF Next, vars, Start, Write, Fill, Erase, Program, End, Enable, Select, Post, Disconnect,
         Reset, PowerCut, Boot
<1>2. Bootable(p) => Complete(p)
  BY <1>1 DEF PartialHasCause, PartialNotBootable
<1>3. partition \in Partitions
  BY DEF Structure, TypeOK
<1>4. CASE Start
  <2>1. parts' = parts /\ \E f \in Files : images' = Append(images, f)
    BY <1>4 DEF Start, board
  <2> QED
    BY <1>2, <2>1, SameComplete DEF Bootable
<1>5. CASE Erase \/ Program
  <2>1. UNCHANGED images
    BY <1>5 DEF Erase, Program, Return, request
  <2>2. CASE parts'[p] = parts[p]
    BY <1>2, <2>1, <2>2, SameComplete DEF Bootable
  <2>3. CASE parts'[p] # parts[p]
    <3>1. p = partition /\ ~parts'[p].magic
      <4>1. CASE Erase
        <5>1. parts' = [parts EXCEPT ![partition] = Erased(@)] /\ UNCHANGED <<request, updater>>
              /\ pc' = "program" /\ size > 0
          BY <2>3, <4>1, Lengths DEF Erase, Erased, Structure, Framed
        <5>2. Copied'
          BY <4>1, EraseCopied
        <5>3. p = partition
          BY <2>3, <5>1 DEF Structure, TypeOK
        <5> QED
          BY <5>1, <5>2, <5>3 DEF Copied, updater
      <4>2. CASE Program
        <5>1. /\ parts' = [parts EXCEPT ![partition].units = Programmed(@)]
              /\ pc = "program" /\ size > 0
          BY <2>3, <4>2, Lengths DEF Program, Programmed, Structure, Framed
        <5>2. p = partition /\ parts'[p].magic = parts[p].magic
          BY <1>3, <2>3, <5>1 DEF Structure, TypeOK
        <5> QED
          BY <1>1, <5>1, <5>2 DEF Copied
      <4> QED
        BY <1>5, <4>1, <4>2
    <3> QED
      BY <3>1 DEF Bootable
  <2> QED
    BY <2>2, <2>3
<1>6. CASE Enable
  <2>1. UNCHANGED images
    BY <1>6 DEF Enable, request
  <2>2. CASE parts' = parts \/ p # partition
    <3>1. parts'[p] = parts[p]
      BY <1>3, <1>6, <2>2 DEF Enable, Structure, TypeOK
    <3> QED
      BY <1>2, <2>1, <3>1, SameComplete DEF Bootable
  <2>3. CASE parts' # parts /\ p = partition
    <3>1. /\ parts' = [parts EXCEPT ![partition].magic = TRUE]
          /\ pc = "enable" /\ progress # 0 /\ sent = images[File].len
      BY <1>6, <2>3 DEF Enable, Structure, InTurn
    <3>2. progress \in 1 .. SIZE /\ size > 0 /\ data = <<>> /\ buffer = <<>>
      BY <3>1, Lengths DEF Structure, TypeOK, Framed
    <3>3. progress = images[File].len
      BY <1>1, <3>1, <3>2, EmptySeq DEF Copied
    <3>4. parts'[p].units = parts[p].units
      BY <2>3, <3>1 DEF Structure, TypeOK
    <3>5. Holds(p, File)'
      BY <1>1, <2>1, <2>3, <3>2, <3>3, <3>4 DEF Holds, Copied, File
    <3>6. File \in DOMAIN images
      BY FileIsThere DEF Structure
    <3>7. File' \in DOMAIN images'
      BY <2>1, <3>6 DEF File
    <3> QED
      BY <3>5, <3>7 DEF Complete
  <2> QED
    BY <2>2, <2>3
<1>7. CASE \/ Write \/ Fill \/ End \/ Select \/ Post \/ Disconnect
           \/ Reset \/ PowerCut \/ UNCHANGED vars
  <2>1. UNCHANGED <<images, parts>>
    BY <1>7 DEF Write, Fill, End, Select, Post, Disconnect, Reset, PowerCut, Boot, vars, request, board
  <2> QED
    BY <1>2, <2>1, SameComplete DEF Bootable
<1> QED
  BY <1>4, <1>5, <1>6, <1>7 DEF Next

(* The sketch the board was delivered with is complete.                     *)
LEMMA InitComplete == Init => Copied /\ PartialHasCause
<1> SUFFICES ASSUME Init PROVE Copied /\ PartialHasCause
  OBVIOUS
<1>1. Copied
  BY DEF Init, Copied
<1>2. ASSUME NEW p \in Partitions, Bootable(p) PROVE Complete(p)
  <2>1. parts[p].magic = (p = "app0")
    BY DEF Init
  <2>2. p = "app0"
    BY <1>2, <2>1 DEF Bootable
  <2>3. 0 \in 0 .. SIZE - 1 /\ 1 \in 1 .. SIZE
    BY Lengths
  <2>4. parts[p].units[0] = <<1, 1>>
    BY <2>2, <2>3 DEF Init
  <2>5. images[1] = [len |-> 1, firmware |-> TRUE] /\ 1 \in DOMAIN images
    BY DEF Init
  <2>6. Holds(p, 1)
    BY <2>3, <2>4, <2>5 DEF Holds
  <2> QED
    BY <1>2, <2>5, <2>6 DEF Complete
<1> QED
  BY <1>1, <1>2 DEF PartialHasCause, PartialNotBootable

(* Everything the runs check of an update at once: nothing is written past  *)
(* the partition, and what has come of a file is in its place.              *)
THEOREM UpdateInvariant == Spec => []UpdateInv
<1>1. Structure => InPartition
  <2> SUFFICES ASSUME Structure PROVE InPartition
    OBVIOUS
  <2>1. progress \in Nat /\ Len(buffer) \in Nat /\ Len(data) \in Nat
    BY LenProperties, Lengths DEF Structure, TypeOK
  <2> QED
    BY <2>1, Lengths DEF Structure, Aligned, InPartition
<1>2. Structure /\ InPartition /\ Copied => UpdateInv
  BY DEF UpdateInv, Structure
<1> QED
  BY <1>1, <1>2, InitComplete, NextCopied, UpdateStructure, UpdateReadyForNext, PTL DEF Spec

(* A partition that can be booted holds one of the files from its first     *)
(* unit to its last, unless a client left an upload or end() went on with   *)
(* nothing written (Updater.cpp:181-182, 205-217).                          *)
THEOREM UpdatePartialHasCause == Spec => []PartialHasCause
<1>1. UpdateInv => Copied
  BY DEF UpdateInv
<1> QED
  BY <1>1, InitComplete, NextPartialHasCause, UpdateInvariant, UpdateStructure, PTL DEF Spec

(* The board runs a complete sketch whatever step the power went at.        *)
THEOREM UpdateRunsComplete == Spec => []RunsComplete
<1>1. Structure /\ PartialHasCause /\ NeverBricked => RunsComplete
  BY DEF Structure, TypeOK, PartialHasCause, PartialNotBootable, NeverBricked, RunsComplete
<1> QED
  BY <1>1, UpdateStructure, UpdatePartialHasCause, UpdateNeverBricked, PTL

(***************************************************************************)
(* The frame user interface (OLEDDisplayUi): its frames exist, the          *)
(* direction of the sketch is kept, due ticks are not missed, and a         *)
(* transition ends on the frame it was started for.                         *)
(***************************************************************************)
USE UiAssumption

(* The frame before or behind another one, also round the end, is a frame.  *)
LEMMA NeighbourExists ==
  \A n \in 1 .. 127, f \in Frame, way \in Directions : (f + n + way) % n \in 0 .. n - 1
  BY DEF Frame, Directions

LEMMA NeighbourIsFrame ==
  ASSUME UiTypeOK, NEW f \in Frame, NEW way \in Directions
  PROVE  Neighbour(f, way) \in Frame /\ Neighbour(f, way) < frameCount
<1>1. frameCount \in 1 .. 127
  BY DEF UiTypeOK
<1>2. (f + frameCount + way) % frameCount \in 0 .. frameCount - 1
  BY <1>1, NeighbourExists
<1>3. Neighbour(f, way) \in 0 .. frameCount - 1
  BY <1>2 DEF Neighbour
<1> QED BY <1>1, <1>3 DEF Frame

(* What a difference of times is in eight bits, while it fits or is just    *)
(* too large.                                                               *)
LEMMA Int8Fits ==
  \A n \in -128 .. 383 : Int8(n) = IF n < 128 THEN n ELSE n - 256
  BY DEF Int8

LEMMA Int8Type == \A n \in Int : Int8(n) \in -128 .. 127
  BY DEF Int8

LEMMA Ticks16 == 2^16 \in Nat \ {0}
  OBVIOUS

LEMMA TicksFit == \A t \in Nat : t % 2^16 \in 0 .. 2^16 - 1
  BY Ticks16

LEMMA UiInitial == UiInit => UiIInv
<1> SUFFICES ASSUME UiInit PROVE UiIInv
  OBVIOUS
<1>1. /\ frameCount \in FrameCounts /\ frameState \in {"FIXED", "IN_TRANSITION"}
      /\ currentFrame \in Frame /\ nextFrameNumber \in Frame \cup {NoFrame}
      /\ elapsed \in 0 .. 255 /\ calls \in 0 .. MaxCalls /\ sleeps \in 0 .. MaxSleeps
      /\ goal \in Frame \cup {NoFrame} /\ crossed \in {"no", "target", "frame"}
      /\ indicatorDrawState \in 0 .. 3
  BY DEF UiInit, Frame, NoFrame
<1>2. /\ frameTransitionDirection \in Directions /\ lastTransitionDirection \in Directions
      /\ autoWay \in Directions
  BY DEF UiInit, Directions
<1>3. /\ autoTransition \in BOOLEAN /\ manuelControll \in BOOLEAN /\ isIndicatorDrawen \in BOOLEAN
      /\ started \in BOOLEAN /\ stacked \in BOOLEAN /\ settled \in BOOLEAN /\ slept \in BOOLEAN
  BY Zenon DEF UiInit
<1>4. ticks \in 0 .. 2^16 - 1
  BY Ticks16 DEF UiInit
<1>5. UiTypeOK
  BY <1>1, <1>2, <1>3, <1>4, Zenon DEF UiTypeOK
<1>6. FramesKnown /\ DirectionKnown /\ GoalKnown /\ TicksInTime
  BY DEF UiInit, FramesKnown, DirectionKnown, GoalKnown, TicksInTime, NoFrame
<1> QED BY <1>5, <1>6 DEF UiIInv

LEMMA SetAuto ==
  ASSUME UiIInv, NEW way \in Directions, setAutoTransition(way)
  PROVE  UiIInv'
<1>1. UNCHANGED <<frameCount, autoTransition, frameState, currentFrame, nextFrameNumber, ticks,
                  manuelControll, isIndicatorDrawen, indicatorDrawState, elapsed, started, sleeps,
                  slept, crossed>>
  BY DEF setAutoTransition, position, indicator, clock
<1>2. /\ frameTransitionDirection' = way /\ lastTransitionDirection' = way
      /\ autoWay' = way /\ stacked' = FALSE
  BY DEF setAutoTransition
<1>3. \/ goal' = goal
      \/ goal' = Neighbour(currentFrame, way)
  BY DEF setAutoTransition
<1>4. UiTypeOK'
  <2>1. calls' \in 0 .. MaxCalls
    BY DEF setAutoTransition, Call, UiIInv, UiTypeOK
  <2>2. goal' \in Frame \cup {NoFrame}
    BY <1>3, NeighbourIsFrame DEF UiIInv, UiTypeOK
  <2>3. settled' \in BOOLEAN /\ stacked' \in BOOLEAN
    BY <1>2, Zenon DEF setAutoTransition, Unsettle
  <2> QED BY <1>1, <1>2, <2>1, <2>2, <2>3, Zenon DEF UiIInv, UiTypeOK
<1>5. FramesKnown' /\ DirectionKnown' /\ TicksInTime'
  BY <1>1, <1>2 DEF UiIInv, FramesKnown, DirectionKnown, TicksInTime
<1>6. GoalKnown'
  BY <1>1, <1>2, NeighbourExists
  DEF UiIInv, GoalKnown, setAutoTransition, NextFrame, getNextFrameNumber, Neighbour, UiTypeOK
<1> QED BY <1>4, <1>5, <1>6 DEF UiIInv

LEMMA EnableAuto ==
  ASSUME UiIInv, NEW on \in BOOLEAN, enableAutoTransition(on)
  PROVE  UiIInv'
<1>1. UNCHANGED <<frameCount, frameState, currentFrame, nextFrameNumber, ticks,
                  frameTransitionDirection, lastTransitionDirection, manuelControll,
                  isIndicatorDrawen, indicatorDrawState, elapsed, started, sleeps, slept,
                  goal, autoWay, crossed, stacked, settled>>
  BY DEF enableAutoTransition, position, direction, indicator, clock, uiHistory
<1>2. UiTypeOK'
  <2>1. calls' \in 0 .. MaxCalls
    BY DEF enableAutoTransition, Call, UiIInv, UiTypeOK
  <2>2. autoTransition' \in BOOLEAN
    BY Zenon DEF enableAutoTransition
  <2> QED BY <1>1, <2>1, <2>2 DEF UiIInv, UiTypeOK
<1>3. FramesKnown' /\ DirectionKnown' /\ GoalKnown' /\ TicksInTime'
  BY <1>1 DEF UiIInv, FramesKnown, DirectionKnown, GoalKnown, TicksInTime, NextFrame,
              getNextFrameNumber, Neighbour
<1> QED BY <1>2, <1>3 DEF UiIInv

LEMMA SetFrames ==
  ASSUME UiIInv, NEW n \in FrameCounts, setFrames(n)
  PROVE  UiIInv'
<1>1. UNCHANGED <<autoTransition, nextFrameNumber, frameTransitionDirection,
                  lastTransitionDirection, manuelControll, indicatorDrawState, sleeps, autoWay,
                  stacked>>
  BY DEF setFrames, direction
<1>2. /\ frameCount' = n /\ frameState' = "FIXED" /\ currentFrame' = 0 /\ ticks' = 0
      /\ isIndicatorDrawen' = TRUE /\ started' = FALSE /\ slept' = TRUE /\ goal' = NoFrame
  BY DEF setFrames
<1>3. crossed' = LeftBehind
  BY DEF setFrames
<1>4. UiTypeOK'
  <2>1. calls' \in 0 .. MaxCalls
    BY DEF setFrames, Call, UiIInv, UiTypeOK
  <2>2. elapsed' \in 0 .. 255
    BY DEF setFrames
  <2>3. settled' \in BOOLEAN
    BY Zenon DEF setFrames, Unsettle
  <2>4. crossed' \in {"no", "target", "frame"}
    BY <1>3 DEF LeftBehind
  <2>5. ticks' \in 0 .. 2^16 - 1 /\ currentFrame' \in Frame
    BY <1>2, Ticks16 DEF Frame
  <2>6. frameState' \in {"FIXED", "IN_TRANSITION"} /\ goal' \in Frame \cup {NoFrame}
    BY <1>2
  <2>7. isIndicatorDrawen' \in BOOLEAN /\ started' \in BOOLEAN /\ slept' \in BOOLEAN
    BY <1>2, Zenon
  <2> QED BY <1>1, <1>2, <2>1, <2>2, <2>3, <2>4, <2>5, <2>6, <2>7, Zenon DEF UiIInv, UiTypeOK
<1>5. FramesKnown' /\ GoalKnown'
  BY <1>1, <1>2, <1>3 DEF FramesKnown, GoalKnown, LeftBehind
<1>6. DirectionKnown' /\ TicksInTime'
  BY <1>1, <1>2 DEF UiIInv, DirectionKnown, TicksInTime
<1> QED BY <1>4, <1>5, <1>6 DEF UiIInv

LEMMA StepFrame ==
  ASSUME UiIInv, NEW way \in Directions, stepFrame(way)
  PROVE  UiIInv'
<1>1. UNCHANGED <<frameCount, autoTransition, currentFrame, nextFrameNumber, isIndicatorDrawen,
                  indicatorDrawState, elapsed, started, sleeps, slept, autoWay, crossed>>
  BY DEF stepFrame, StartManual, indicator, clock
<1>2. /\ frameState' = "IN_TRANSITION" /\ ticks' = 0 /\ manuelControll' = TRUE
      /\ lastTransitionDirection' = frameTransitionDirection /\ frameTransitionDirection' = way
      /\ goal' = Neighbour(currentFrame, way)
  BY DEF stepFrame, StartManual
<1>3. stacked' = (stacked \/ manuelControll) /\ frameState = "FIXED"
  BY Zenon DEF stepFrame, StartManual, UiIInv, UiTypeOK
<1>4. UiTypeOK'
  <2>1. calls' \in 0 .. MaxCalls
    BY DEF stepFrame, Call, UiIInv, UiTypeOK
  <2>2. goal' \in Frame \cup {NoFrame}
    BY <1>2, NeighbourIsFrame DEF UiIInv, UiTypeOK
  <2>3. settled' \in BOOLEAN /\ stacked' \in BOOLEAN /\ manuelControll' \in BOOLEAN
    BY <1>2, <1>3, Zenon DEF stepFrame, StartManual, Unsettle
  <2>4. ticks' \in 0 .. 2^16 - 1
    BY <1>2, Ticks16
  <2>5. frameState' \in {"FIXED", "IN_TRANSITION"}
    BY <1>2
  <2> QED BY <1>1, <1>2, <2>1, <2>2, <2>3, <2>4, <2>5 DEF UiIInv, UiTypeOK
<1>5. FramesKnown' /\ TicksInTime'
  BY <1>1 DEF UiIInv, FramesKnown, TicksInTime
<1>6. DirectionKnown'
  BY <1>1, <1>2, <1>3 DEF UiIInv, DirectionKnown
<1>7. GoalKnown'
  BY <1>1, <1>2, <1>3 DEF UiIInv, GoalKnown, NextFrame, getNextFrameNumber, Neighbour
<1> QED BY <1>4, <1>5, <1>6, <1>7 DEF UiIInv

LEMMA SwitchToFrame ==
  ASSUME UiIInv, NEW f \in Frame, switchToFrame(f)
  PROVE  UiIInv'
<1>1. UNCHANGED <<frameCount, autoTransition, nextFrameNumber, frameTransitionDirection,
                  lastTransitionDirection, manuelControll, indicatorDrawState, elapsed, started,
                  sleeps, slept, autoWay, stacked>> /\ ticks' = 0 /\ f < frameCount
  BY DEF switchToFrame, direction, clock, position
<1>2. calls' \in 0 .. MaxCalls
  BY DEF switchToFrame, Call, UiIInv, UiTypeOK
<1>3. ticks' \in 0 .. 2^16 - 1
  BY <1>1, Ticks16
<1>4. CASE f = currentFrame
  <2>1. UNCHANGED <<frameState, currentFrame, isIndicatorDrawen, goal, crossed, settled>>
    BY <1>4 DEF switchToFrame, position
  <2>2. UiTypeOK'
    BY <1>1, <1>2, <1>3, <2>1 DEF UiIInv, UiTypeOK
  <2> QED BY <1>1, <2>1, <2>2 DEF UiIInv, FramesKnown, DirectionKnown, GoalKnown, TicksInTime,
                                  NextFrame, getNextFrameNumber, Neighbour
<1>5. CASE f # currentFrame
  <2>1. /\ frameState' = "FIXED" /\ currentFrame' = f /\ isIndicatorDrawen' = TRUE
        /\ goal' = NoFrame /\ crossed' = LeftBehind
    BY <1>5 DEF switchToFrame
  <2>2. crossed' \in {"no", "target", "frame"}
    BY <2>1 DEF LeftBehind
  <2>3. settled' \in BOOLEAN /\ isIndicatorDrawen' \in BOOLEAN
    BY <1>5, <2>1, Zenon DEF switchToFrame, Unsettle
  <2>4. frameState' \in {"FIXED", "IN_TRANSITION"} /\ goal' \in Frame \cup {NoFrame}
    BY <2>1
  <2>5. UiTypeOK'
    BY <1>1, <1>2, <1>3, <2>1, <2>2, <2>3, <2>4 DEF UiIInv, UiTypeOK
  <2>6. FramesKnown' /\ GoalKnown'
    BY <1>1, <2>1 DEF FramesKnown, GoalKnown, LeftBehind
  <2>7. DirectionKnown' /\ TicksInTime'
    BY <1>1 DEF UiIInv, DirectionKnown, TicksInTime
  <2> QED BY <2>5, <2>6, <2>7 DEF UiIInv
<1> QED BY <1>4, <1>5

LEMMA TransitionToFrame ==
  ASSUME UiIInv, NEW f \in Frame, transitionToFrame(f)
  PROVE  UiIInv'
<1>1. UNCHANGED <<frameCount, autoTransition, currentFrame, isIndicatorDrawen, indicatorDrawState,
                  elapsed, started, sleeps, slept, autoWay>> /\ ticks' = 0 /\ f < frameCount
  BY DEF transitionToFrame, StartManual, indicator, clock, position, uiHistory
<1>2. calls' \in 0 .. MaxCalls
  BY DEF transitionToFrame, Call, UiIInv, UiTypeOK
<1>3. ticks' \in 0 .. 2^16 - 1
  BY <1>1, Ticks16
<1>4. CASE f = currentFrame
  <2>1. UNCHANGED <<frameState, nextFrameNumber, frameTransitionDirection, lastTransitionDirection,
                    manuelControll, goal, crossed, stacked, settled>>
    BY <1>4 DEF transitionToFrame, position, direction, uiHistory
  <2>2. UiTypeOK'
    BY <1>1, <1>2, <1>3, <2>1 DEF UiIInv, UiTypeOK
  <2> QED BY <1>1, <2>1, <2>2 DEF UiIInv, FramesKnown, DirectionKnown, GoalKnown, TicksInTime,
                                  NextFrame, getNextFrameNumber, Neighbour
<1>5. CASE f # currentFrame
  <2> DEFINE way == IF f < currentFrame THEN -1 ELSE 1
  <2>1. /\ frameState' = "IN_TRANSITION" /\ nextFrameNumber' = f /\ goal' = f
        /\ manuelControll' = TRUE /\ lastTransitionDirection' = frameTransitionDirection
        /\ frameTransitionDirection' = way
        /\ crossed' = IF crossed = "target" THEN "no" ELSE crossed
    BY <1>5 DEF transitionToFrame, StartManual
  <2>2. crossed' \in {"no", "target", "frame"}
    BY <2>1 DEF UiIInv, UiTypeOK
  <2>3. stacked' = (stacked \/ manuelControll)
    BY <1>5, Zenon DEF transitionToFrame, StartManual
  <2>4. settled' \in BOOLEAN /\ stacked' \in BOOLEAN /\ manuelControll' \in BOOLEAN
    BY <1>5, <2>1, <2>3, Zenon DEF transitionToFrame, StartManual, Unsettle
  <2>5. way \in Directions /\ frameState' \in {"FIXED", "IN_TRANSITION"}
    BY <2>1 DEF Directions
  <2>6. UiTypeOK'
    BY <1>1, <1>2, <1>3, <2>1, <2>2, <2>4, <2>5 DEF UiIInv, UiTypeOK
  <2>7. FramesKnown'
    BY <1>1, <2>1 DEF UiIInv, FramesKnown
  <2>8. DirectionKnown'
    BY <1>1, <2>1, <2>3 DEF UiIInv, DirectionKnown
  <2>9. GoalKnown' /\ TicksInTime'
    BY <1>1, <2>1
    DEF UiIInv, GoalKnown, TicksInTime, NextFrame, getNextFrameNumber, Frame, NoFrame
  <2> QED BY <2>6, <2>7, <2>8, <2>9 DEF UiIInv
<1> QED BY <1>4, <1>5

(* What a tick leaves of the frames, the directions and the goal, and what  *)
(* it counts.                                                               *)
LEMMA TickMoves ==
  ASSUME UiIInv, NEW skipped \in Nat, tick(skipped),
         UNCHANGED <<frameCount, autoTransition, calls, autoWay, stacked>>
  PROVE  /\ ticks' \in 0 .. 2^16 - 1
         /\ frameState' \in {"FIXED", "IN_TRANSITION"}
         /\ currentFrame' \in Frame
         /\ nextFrameNumber' \in Frame \cup {NoFrame}
         /\ goal' \in Frame \cup {NoFrame}
         /\ crossed' \in {"no", "target", "frame"}
         /\ frameTransitionDirection' \in Directions
         /\ UNCHANGED lastTransitionDirection
         /\ manuelControll' \in BOOLEAN
         /\ FramesKnown' /\ DirectionKnown' /\ GoalKnown'
<1> DEFINE t == (ticks + skipped + 1) % 2^16
<1>1. t \in 0 .. 2^16 - 1
  BY TicksFit DEF UiIInv, UiTypeOK
<1> HIDE DEF t
<1>2. \/ frameState = "IN_TRANSITION" /\ FinishTransition
      \/ frameState = "FIXED" /\ FinishFrame
      \/ GoOn(t)
  BY DEF tick, t
<1>3. UiTypeOK /\ FramesKnown /\ DirectionKnown /\ GoalKnown
  BY DEF UiIInv
<1>4. RevertControl =>
        /\ frameTransitionDirection' = autoWay \/ stacked
        /\ frameTransitionDirection' \in Directions
        /\ manuelControll' = FALSE /\ UNCHANGED lastTransitionDirection
  BY <1>3 DEF RevertControl, UiTypeOK, DirectionKnown
<1>5. CASE frameState = "IN_TRANSITION" /\ FinishTransition
  <2>1. /\ ticks' = 0 /\ frameState' = "FIXED" /\ currentFrame' = NextFrame
        /\ nextFrameNumber' = NoFrame /\ goal' = NoFrame
        /\ crossed' = IF crossed = "target" /\ nextFrameNumber # NoFrame THEN "frame" ELSE "no"
        /\ UNCHANGED <<frameTransitionDirection, lastTransitionDirection, manuelControll>>
    BY <1>5 DEF FinishTransition, NextFrame, direction
  <2>2. NextFrame = IF nextFrameNumber # NoFrame THEN nextFrameNumber
                    ELSE Neighbour(currentFrame, frameTransitionDirection)
    BY DEF NextFrame, getNextFrameNumber
  <2>3. /\ Neighbour(currentFrame, frameTransitionDirection) \in Frame
        /\ Neighbour(currentFrame, frameTransitionDirection) < frameCount
    BY <1>3, NeighbourIsFrame DEF UiTypeOK
  <2>4. NextFrame \in Frame /\ ((crossed = "target" /\ nextFrameNumber # NoFrame) \/ NextFrame < frameCount)
    BY <1>3, <2>2, <2>3 DEF UiTypeOK, FramesKnown
  <2>5. FramesKnown' /\ GoalKnown'
    BY <2>1, <2>4 DEF FramesKnown, GoalKnown
  <2>6. DirectionKnown'
    BY <1>3, <2>1 DEF DirectionKnown
  <2>7. ticks' \in 0 .. 2^16 - 1
    BY <2>1, Ticks16
  <2> QED BY <1>3, <2>1, <2>4, <2>5, <2>6, <2>7 DEF UiTypeOK
<1>6. CASE frameState = "FIXED" /\ FinishFrame
  <2>1. /\ ticks' = 0 /\ UNCHANGED <<currentFrame, nextFrameNumber, crossed>>
        /\ frameState' = IF autoTransition THEN "IN_TRANSITION" ELSE "FIXED"
        /\ goal' = IF autoTransition
                   THEN Neighbour(currentFrame, frameTransitionDirection') ELSE NoFrame
        /\ RevertControl
    BY <1>6 DEF FinishFrame
  <2>2. goal' \in Frame \cup {NoFrame}
    BY <1>3, <1>4, <2>1, NeighbourIsFrame DEF UiTypeOK
  <2>3. FramesKnown'
    BY <1>3, <2>1 DEF FramesKnown
  <2>4. DirectionKnown'
    BY <1>4, <2>1 DEF DirectionKnown
  <2>5. GoalKnown'
    BY <1>3, <1>6, <2>1 DEF GoalKnown, NextFrame, getNextFrameNumber, Neighbour
  <2>6. ticks' \in 0 .. 2^16 - 1
    BY <2>1, Ticks16
  <2> QED BY <1>3, <1>4, <2>1, <2>2, <2>3, <2>4, <2>5, <2>6 DEF UiTypeOK
<1>7. CASE GoOn(t)
  <2>1. ticks' = t /\ UNCHANGED <<frameState, currentFrame, nextFrameNumber, goal, crossed>>
    BY <1>7 DEF GoOn, position
  <2>2. \/ frameState = "FIXED" /\ RevertControl
        \/ UNCHANGED <<frameTransitionDirection, lastTransitionDirection, manuelControll>>
             /\ (frameState = "FIXED" => RevertControl)
    BY <1>7 DEF GoOn, direction
  <2>3. FramesKnown' /\ DirectionKnown'
    BY <1>3, <1>4, <2>1, <2>2 DEF FramesKnown, DirectionKnown
  <2>4. GoalKnown'
    BY <1>3, <2>1, <2>2 DEF GoalKnown, NextFrame, getNextFrameNumber, Neighbour, UiTypeOK
  <2> QED BY <1>1, <1>3, <1>4, <2>1, <2>2, <2>3, <2>4 DEF UiTypeOK
<1> QED BY <1>2, <1>5, <1>6, <1>7

(* What a tick draws.                                                       *)
LEMMA TickDraws ==
  ASSUME UiIInv, NEW skipped \in Nat, tick(skipped)
  PROVE  /\ isIndicatorDrawen' \in BOOLEAN
         /\ indicatorDrawState' \in 0 .. 3
         /\ settled' \in BOOLEAN
<1>1. PICK upcoming : drawFrame(frameState', currentFrame', upcoming)
  BY Zenon DEF tick
<1>2. isIndicatorDrawen' \in BOOLEAN
  BY <1>1, Zenon DEF drawFrame
<1>3. indicatorDrawState' \in 0 .. 3
  BY <1>1 DEF drawFrame, UiIInv, UiTypeOK
<1>4. settled' \in BOOLEAN
  BY Zenon DEF tick
<1> QED BY <1>2, <1>3, <1>4

LEMMA UpdateKeeps ==
  ASSUME UiIInv, NEW gap \in Nat, update(gap), sleeps' \in 0 .. MaxSleeps
  PROVE  UiIInv'
<1> DEFINE e == (elapsed + gap) % 256
<1>1. elapsed \in 0 .. 255 /\ updateInterval \in 1 .. 255
  BY DEF UiIInv, UiTypeOK
<1>2. e \in 0 .. 255
  BY <1>1
<1>3. UNCHANGED <<frameCount, autoTransition, calls, autoWay, stacked>>
  BY DEF update
<1>4. CASE timeBudget(e) <= 0
  <2> DEFINE skipped == IF autoTransition /\ started THEN (-timeBudget(e)) \div updateInterval ELSE 0
  <2>1. timeBudget(e) \in -128 .. 127
    BY <1>1, <1>2, Int8Type DEF timeBudget
  <2>2. (-timeBudget(e)) \div updateInterval \in Nat
    <3>1. \A late \in 0 .. 128, n \in 1 .. 255 : late \div n \in Nat
      OBVIOUS
    <3>2. -timeBudget(e) \in 0 .. 128
      BY <1>4, <2>1
    <3> QED BY <1>1, <3>1, <3>2
  <2>3. skipped \in Nat
    BY <2>2
  <2>4. tick(skipped) /\ elapsed' = 0 /\ started' = TRUE /\ slept' = FALSE
    BY <1>4 DEF update
  <2> HIDE DEF skipped, e
  <2>5. FramesKnown' /\ DirectionKnown' /\ GoalKnown'
    BY <1>3, <2>3, <2>4, TickMoves
  <2>6. /\ ticks' \in 0 .. 2^16 - 1
        /\ frameState' \in {"FIXED", "IN_TRANSITION"}
        /\ currentFrame' \in Frame
        /\ nextFrameNumber' \in Frame \cup {NoFrame}
        /\ goal' \in Frame \cup {NoFrame}
        /\ crossed' \in {"no", "target", "frame"}
        /\ frameTransitionDirection' \in Directions
        /\ UNCHANGED lastTransitionDirection
        /\ manuelControll' \in BOOLEAN
    BY <1>3, <2>3, <2>4, TickMoves
  <2>7. /\ isIndicatorDrawen' \in BOOLEAN /\ indicatorDrawState' \in 0 .. 3
        /\ settled' \in BOOLEAN
    BY <2>3, <2>4, TickDraws
  <2>8. elapsed' \in 0 .. 255 /\ started' \in BOOLEAN /\ slept' \in BOOLEAN
    <3>1. elapsed' \in 0 .. 255
      BY <2>4
    <3>2. started' \in BOOLEAN /\ slept' \in BOOLEAN
      BY <2>4, Zenon
    <3> QED BY <3>1, <3>2
  <2>9. UiTypeOK'
    BY <1>3, <2>6, <2>7, <2>8 DEF UiIInv, UiTypeOK
  <2>10. TicksInTime'
    BY <1>1, <1>3, <2>4 DEF TicksInTime
  <2> QED BY <2>5, <2>9, <2>10 DEF UiIInv
<1>5. CASE ~(timeBudget(e) <= 0)
  <2>1. /\ elapsed' = e /\ slept' = (slept \/ elapsed + gap > updateInterval + 128)
        /\ UNCHANGED <<frameState, currentFrame, nextFrameNumber, ticks,
                       frameTransitionDirection, lastTransitionDirection, manuelControll,
                       isIndicatorDrawen, indicatorDrawState, started, goal, crossed, settled>>
    BY <1>5 DEF update, position, direction, indicator
  <2>2. slept' \in BOOLEAN
    BY <2>1, Zenon
  <2>3. UiTypeOK'
    BY <1>2, <1>3, <2>1, <2>2 DEF UiIInv, UiTypeOK
  <2>4. FramesKnown' /\ DirectionKnown'
    BY <1>3, <2>1 DEF UiIInv, FramesKnown, DirectionKnown
  <2>5. GoalKnown'
    BY <1>3, <2>1 DEF UiIInv, GoalKnown, NextFrame, getNextFrameNumber, Neighbour
  <2>6. elapsed + gap <= updateInterval + 128 => e < updateInterval
    <3> SUFFICES ASSUME elapsed + gap <= updateInterval + 128, elapsed + gap < 256
                 PROVE  e < updateInterval
      BY <1>1
    <3>1. e = elapsed + gap
      BY <1>1
    <3>2. updateInterval - e \in -128 .. 383
      BY <1>1, <3>1
    <3>3. timeBudget(e) = IF updateInterval - e < 128 THEN updateInterval - e
                          ELSE updateInterval - e - 256
      BY <3>2, Int8Fits DEF timeBudget
    <3> QED BY <1>1, <1>2, <1>5, <3>3
  <2>7. TicksInTime'
    <3> SUFFICES ASSUME ~slept' PROVE e < updateInterval
      BY <2>1 DEF TicksInTime
    <3>1. ~(elapsed + gap > updateInterval + 128)
      BY <2>1, Zenon
    <3> QED BY <1>1, <2>6, <3>1
  <2> QED BY <2>3, <2>4, <2>5, <2>7 DEF UiIInv
<1> QED BY <1>4, <1>5

LEMMA UiStep == UiIInv /\ [UiNext]_uiVars => UiIInv'
<1> SUFFICES ASSUME UiIInv, [UiNext]_uiVars PROVE UiIInv'
  OBVIOUS
<1>1. CASE UNCHANGED uiVars
  BY <1>1 DEF uiVars, position, direction, indicator, clock, uiHistory, UiIInv, UiTypeOK, FramesKnown,
              DirectionKnown, GoalKnown, TicksInTime, NextFrame, getNextFrameNumber, Neighbour
<1>2. CASE Update
  BY <1>2, UpdateKeeps DEF Update, UiIInv, UiTypeOK
<1>3. CASE Sleep
  <2>1. sleeps' \in 0 .. MaxSleeps
    BY <1>3 DEF Sleep, UiIInv, UiTypeOK
  <2> QED BY <1>3, <2>1, UpdateKeeps DEF Sleep
<1> QED BY <1>1, <1>2, <1>3, SetAuto, EnableAuto, SetFrames, StepFrame, SwitchToFrame, TransitionToFrame
        DEF UiNext

(* The inductive invariant.                                                 *)
THEOREM UiInvariant == UiSpec => []UiIInv
  BY UiInitial, UiStep, PTL DEF UiSpec

(* The frames on the display and the next one exist, the direction of the   *)
(* sketch is kept and no due tick is missed (OLEDDisplayUi.cpp:146-240).    *)
THEOREM UiCorrect == UiSpec => []UiInv
<1>1. UiIInv => UiInv
  <2> SUFFICES ASSUME UiIInv PROVE UiInv
    OBVIOUS
  <2>1. /\ Neighbour(currentFrame, frameTransitionDirection) \in Frame
        /\ Neighbour(currentFrame, frameTransitionDirection) < frameCount
    BY NeighbourIsFrame DEF UiIInv, UiTypeOK
  <2>2. FramesExist
    BY <2>1 DEF UiIInv, FramesKnown, FramesExist, getNextFrameNumber
  <2>3. DirectionKept
    BY DEF UiIInv, DirectionKnown, DirectionKept
  <2> QED BY <2>2, <2>3 DEF UiIInv, UiInv
<1> QED BY <1>1, UiInvariant, PTL

(* A transition ends on the frame it was started for: FinishTransition      *)
(* takes the target, or the neighbour in the direction in force, and the    *)
(* calls that change either set the goal anew.                              *)
THEOREM GoalIsReached == UiSpec => ReachesGoal
<1> DEFINE Reached == frameState = "IN_TRANSITION" /\ frameState' = "FIXED" /\ calls' = calls
                        /\ crossed = "no" => currentFrame' = goal
<1>1. UiIInv /\ [UiNext]_uiVars => [Reached]_uiVars
  <2> SUFFICES ASSUME UiIInv, UiNext, frameState = "IN_TRANSITION", frameState' = "FIXED",
                      calls' = calls, crossed = "no"
               PROVE  currentFrame' = goal
    BY DEF uiVars
  <2>1. calls \in Nat
    BY DEF UiIInv, UiTypeOK
  <2>2. ~Call
    BY <2>1 DEF Call
  <2>3. Update \/ Sleep
    BY <2>2 DEF UiNext, setAutoTransition, stepFrame, enableAutoTransition, setFrames,
                switchToFrame, transitionToFrame
  <2>4. PICK gap \in Nat : update(gap)
    BY <2>3 DEF Update, Sleep
  <2>5. frameState' # frameState
    OBVIOUS
  <2>6. PICK skipped : tick(skipped)
    BY <2>4, <2>5, Zenon DEF update, position
  <2>7. FinishTransition
    BY <2>5, <2>6 DEF tick, FinishFrame, GoOn, position
  <2> QED BY <2>7 DEF FinishTransition, UiIInv, GoalKnown, NextFrame
<1> QED BY <1>1, UiInvariant, PTL DEF UiSpec, ReachesGoal

(***************************************************************************)
(* The connection to a Wi-Fi network (NefryConnect).                        *)
(***************************************************************************)
LEMMA LeastNatural ==
  ASSUME NEW T, T \subseteq Nat, T # {}
  PROVE  \E x \in T : \A y \in T : x <= y
<1>1. PICK x \in T : \A y \in T : ~ (<<y, x>> \in OpToRel(<, Nat))
  BY NatLessThanWellFounded, WFMin, Zenon
<1>2. \A y \in T : ~(y < x)
  <2>1. ASSUME NEW y \in T, y < x PROVE FALSE
    <3>1. <<y, x>> \in Nat \X Nat /\ <<y, x>>[1] < <<y, x>>[2]
      BY <2>1
    <3> QED BY <1>1, <3>1 DEF OpToRel
  <2> QED BY <2>1
<1> QED BY <1>2

(* The fold over the networks in the air exists: shown by the least number  *)
(* of networks for which it would not.                                      *)
IsSeeking(best, scan, n) ==
  best = [i \in 0 .. n |-> IF i = 0 THEN Nothing ELSE Weighed(best[i - 1], scan[i])]

LEMMA SeekingExists ==
  ASSUME NEW scan, NEW n \in Nat
  PROVE  \E best : IsSeeking(best, scan, n)
<1> DEFINE T == {m \in Nat : ~ \E best : IsSeeking(best, scan, m)}
<1> SUFFICES ASSUME T # {} PROVE FALSE
  OBVIOUS
<1>1. PICK m \in T : \A y \in T : m <= y
  BY LeastNatural
<1>2. CASE m = 0
  <2> DEFINE best == [i \in 0 .. 0 |-> Nothing]
  <2>1. IsSeeking(best, scan, 0)
    BY DEF IsSeeking
  <2> QED BY <1>1, <1>2, <2>1
<1>3. CASE m # 0
  <2>1. m \in Nat /\ m - 1 \in Nat /\ ~(m <= m - 1)
    BY <1>1, <1>3
  <2>2. m - 1 \notin T
    BY <1>1, <2>1
  <2>3. PICK best : IsSeeking(best, scan, m - 1)
    BY <2>1, <2>2
  <2> DEFINE more == [i \in 0 .. m |-> IF i = m THEN Weighed(best[m - 1], scan[m]) ELSE best[i]]
  <2>4. \A i \in 0 .. m - 1 : best[i] = IF i = 0 THEN Nothing ELSE Weighed(best[i - 1], scan[i])
    BY <2>3 DEF IsSeeking
  <2>5. \A i \in 0 .. m : more[i] = IF i = 0 THEN Nothing ELSE Weighed(more[i - 1], scan[i])
    <3> SUFFICES ASSUME NEW i \in 0 .. m
                 PROVE  more[i] = IF i = 0 THEN Nothing ELSE Weighed(more[i - 1], scan[i])
      OBVIOUS
    <3>1. CASE i = m
      <4>1. m - 1 \in 0 .. m /\ m - 1 # m
        BY <2>1
      <4>2. more[m - 1] = best[m - 1]
        BY <4>1
      <4> QED BY <3>1, <4>2, <1>3
    <3>2. CASE i # m
      <4>1. i \in 0 .. m - 1 /\ (i # 0 => i - 1 \in 0 .. m /\ i - 1 # m)
        BY <3>2, <2>1
      <4>2. more[i] = best[i] /\ (i # 0 => more[i - 1] = best[i - 1])
        BY <3>2, <4>1
      <4> QED BY <2>4, <4>1, <4>2
    <3> QED BY <3>1, <3>2
  <2>6. more = [i \in 0 .. m |-> more[i]]
    OBVIOUS
  <2> HIDE DEF more
  <2>7. IsSeeking(more, scan, m)
    BY <2>5, <2>6 DEF IsSeeking
  <2> QED BY <1>1, <2>7
<1> QED BY <1>2, <1>3

LEMMA SeekingIs ==
  ASSUME NEW scan, Len(scan) \in Nat
  PROVE  \A i \in 0 .. Len(scan) :
           Seeking(scan)[i] = IF i = 0 THEN Nothing ELSE Weighed(Seeking(scan)[i - 1], scan[i])
<1> DEFINE best == Seeking(scan)
<1>1. best = CHOOSE b : IsSeeking(b, scan, Len(scan))
  BY DEF Seeking, IsSeeking
<1>2. \E b : IsSeeking(b, scan, Len(scan))
  BY SeekingExists
<1> HIDE DEF best
<1>3. IsSeeking(best, scan, Len(scan))
  BY <1>1, <1>2
<1> QED BY <1>3 DEF IsSeeking, best

(* After n networks the best one is a strongest of the usable ones.         *)
StrongestOf(best, scan, n) ==
  LET usable == {i \in 1 .. n : Usable(scan[i])}
  IN  IF usable = {} THEN best = Nothing
      ELSE \E i \in usable : /\ best = [net |-> Entry(scan[i].ssid), db |-> scan[i].rssi]
                            /\ \A j \in usable : scan[j].rssi <= scan[i].rssi

LEMMA WeighedKeeps ==
  ASSUME NEW scan \in Seq(AirNets), NEW n \in 1 .. Len(scan), NEW best, StrongestOf(best, scan, n - 1)
  PROVE  StrongestOf(Weighed(best, scan[n]), scan, n)
<1> DEFINE before == {i \in 1 .. n - 1 : Usable(scan[i])}
           after  == {i \in 1 .. n : Usable(scan[i])}
<1>1. /\ Len(scan) \in Nat /\ n \in Nat
      /\ \A i \in 1 .. n : i \in 1 .. Len(scan) /\ scan[i] \in AirNets
  BY ElementOfSeq
<1>2. \A i \in 1 .. n : scan[i].rssi \in Int /\ scan[i].rssi > Weakest
  <2>1. \A i \in 1 .. n : scan[i].rssi \in -128 .. 127
    BY <1>1 DEF AirNets
  <2> HIDE <1>1
  <2>2. \A db \in -128 .. 127 : db \in Int /\ db > -1000
    OBVIOUS
  <2> QED BY <2>1, <2>2, Zenon DEF Weakest
<1>3. after = IF Usable(scan[n]) THEN before \cup {n} ELSE before
  <2>1. \A i : i \in 1 .. n <=> i \in 1 .. n - 1 \/ i = n
    BY <1>1
  <2> QED BY <2>1
<1>4. \A i \in before : i \in 1 .. n
  BY <1>1
<1>5. IF before = {} THEN best = Nothing
      ELSE \E i \in before : /\ best = [net |-> Entry(scan[i].ssid), db |-> scan[i].rssi]
                            /\ \A j \in before : scan[j].rssi <= scan[i].rssi
  BY DEF StrongestOf
<1> SUFFICES IF after = {} THEN Weighed(best, scan[n]) = Nothing
             ELSE \E i \in after : /\ Weighed(best, scan[n]) = [net |-> Entry(scan[i].ssid), db |-> scan[i].rssi]
                                  /\ \A j \in after : scan[j].rssi <= scan[i].rssi
  BY DEF StrongestOf
<1> HIDE DEF before, after
<1>6. CASE ~Usable(scan[n])
  <2>1. after = before /\ Weighed(best, scan[n]) = best
    BY <1>3, <1>6 DEF Weighed
  <2> QED BY <1>5, <2>1
<1>7. CASE Usable(scan[n]) /\ before = {}
  <2>1. after = {n} /\ scan[n].rssi > best.db
    BY <1>1, <1>2, <1>3, <1>5, <1>7 DEF Nothing
  <2>2. Weighed(best, scan[n]) = [net |-> Entry(scan[n].ssid), db |-> scan[n].rssi]
    BY <1>7, <2>1 DEF Weighed, Better
  <2> QED BY <1>1, <1>2, <2>1, <2>2
<1>8. CASE Usable(scan[n]) /\ before # {}
  <2>1. PICK i \in before : /\ best = [net |-> Entry(scan[i].ssid), db |-> scan[i].rssi]
                            /\ \A j \in before : scan[j].rssi <= scan[i].rssi
    BY <1>5, <1>8
  <2>2. after = before \cup {n} /\ best.db = scan[i].rssi /\ n \in 1 .. n
    BY <1>1, <1>3, <1>8, <2>1
  <2>3. \A j \in after : scan[j].rssi \in Int
    BY <1>2, <1>4, <2>2
  <2>4. CASE scan[n].rssi > scan[i].rssi
    <3>1. Weighed(best, scan[n]) = [net |-> Entry(scan[n].ssid), db |-> scan[n].rssi]
      BY <1>8, <2>2, <2>4 DEF Weighed, Better
    <3>2. \A j \in after : scan[j].rssi <= scan[n].rssi
      BY <2>1, <2>2, <2>3, <2>4
    <3> QED BY <2>2, <3>1, <3>2
  <2>5. CASE ~(scan[n].rssi > scan[i].rssi)
    <3>1. Weighed(best, scan[n]) = best
      BY <2>2, <2>5 DEF Weighed, Better
    <3>2. \A j \in after : scan[j].rssi <= scan[i].rssi
      BY <2>1, <2>2, <2>3, <2>5
    <3> QED BY <2>1, <2>2, <3>1, <3>2
  <2> QED BY <2>4, <2>5
<1> QED BY <1>6, <1>7, <1>8

LEMMA BestFound ==
  ASSUME NEW scan \in Seq(AirNets)
  PROVE  StrongestOf(Best(scan), scan, Len(scan))
<1> DEFINE best == Seeking(scan)
           T    == {m \in 0 .. Len(scan) : ~StrongestOf(best[m], scan, m)}
<1>1. Len(scan) \in Nat
  BY LenProperties
<1>2. \A i \in 0 .. Len(scan) : best[i] = IF i = 0 THEN Nothing ELSE Weighed(best[i - 1], scan[i])
  BY <1>1, SeekingIs
<1>3. Best(scan) = best[Len(scan)]
  BY DEF Best
<1> HIDE DEF best
<1>4. StrongestOf(best[0], scan, 0)
  BY <1>1, <1>2 DEF StrongestOf
<1>5. T = {}
  <2> SUFFICES ASSUME T # {} PROVE FALSE
    OBVIOUS
  <2>1. T \subseteq Nat
    BY <1>1
  <2>2. PICK m \in T : \A y \in T : m <= y
    BY <2>1, LeastNatural
  <2>3. m # 0 /\ m \in 0 .. Len(scan) /\ ~StrongestOf(best[m], scan, m)
    BY <1>4, <2>2
  <2>4. m - 1 \in 0 .. Len(scan) /\ m \in 1 .. Len(scan) /\ ~(m <= m - 1)
    BY <1>1, <2>3
  <2>5. StrongestOf(best[m - 1], scan, m - 1)
    BY <2>2, <2>4
  <2>6. best[m] = Weighed(best[m - 1], scan[m])
    BY <1>2, <2>3
  <2>7. StrongestOf(best[m], scan, m)
    BY <2>4, <2>5, <2>6, WeighedKeeps
  <2> QED BY <2>3, <2>7
<1> QED BY <1>1, <1>3, <1>5

(* The entry of a name is one of the list, the first of that name.          *)
LEMMA EntryIsListed ==
  ASSUME APlist \in Seq(SavedNets), NEW ssid
  PROVE  Entry(ssid) \in {NoNet} \cup {APlist[i] : i \in DOMAIN APlist}
<1> DEFINE known == {i \in DOMAIN APlist : APlist[i].ssid = ssid}
<1>1. known \subseteq Nat
  BY LenProperties
<1>2. CASE known = {}
  BY <1>2 DEF Entry
<1>3. CASE known # {}
  <2>1. \E i \in known : \A j \in known : i <= j
    BY <1>1, <1>3, LeastNatural
  <2> DEFINE first == CHOOSE i \in known : \A j \in known : i <= j
  <2>2. first \in known
    BY <2>1
  <2>3. Entry(ssid) = APlist[first]
    BY <1>3 DEF Entry
  <2> HIDE DEF first
  <2> QED BY <2>2, <2>3
<1> QED BY <1>2, <1>3

LEMMA BestIsListed ==
  ASSUME APlist \in Seq(SavedNets), NEW scan \in Airs
  PROVE  Best(scan).net \in {NoNet} \cup {APlist[i] : i \in DOMAIN APlist}
<1>1. StrongestOf(Best(scan), scan, Len(scan))
  BY ConnectAssumption, BestFound
<1>2. Best(scan) = Nothing \/ \E ssid, db : Best(scan) = [net |-> Entry(ssid), db |-> db]
  BY <1>1 DEF StrongestOf
<1> QED BY <1>2, EntryIsListed DEF Nothing

LEMMA StrongestChosen == APlist \in Seq(SavedNets) => BestIsStrongest
<1> SUFFICES ASSUME APlist \in Seq(SavedNets), NEW scan \in Airs
             PROVE  LET usable == {i \in DOMAIN scan : Usable(scan[i])}
                    IN  IF usable = {} THEN Best(scan).net = NoNet
                        ELSE \E i \in usable : /\ Best(scan).net = Entry(scan[i].ssid)
                                              /\ \A j \in usable : scan[j].rssi <= scan[i].rssi
  BY DEF BestIsStrongest
<1>1. scan \in Seq(AirNets)
  BY ConnectAssumption
<1>2. DOMAIN scan = 1 .. Len(scan)
  BY <1>1, LenProperties
<1> DEFINE usable == {i \in DOMAIN scan : Usable(scan[i])}
<1>3. IF usable = {} THEN Best(scan) = Nothing
      ELSE \E i \in usable : /\ Best(scan) = [net |-> Entry(scan[i].ssid), db |-> scan[i].rssi]
                            /\ \A j \in usable : scan[j].rssi <= scan[i].rssi
  BY <1>1, <1>2, BestFound DEF StrongestOf
<1> QED BY <1>3 DEF Nothing

(***************************************************************************)
(* Steps of the connection.                                                *)
(***************************************************************************)
Listed     == {NoNet} \cup {APlist[i] : i \in DOMAIN APlist}
Correction == Events \ {"GOT_IP"}

(* What a step that is not the handler of the events does to them.          *)
NewsAdded ==
  \/ station' = station /\ events' = events
  \/ station # "up" /\ events' = events
  \/ station' = "up" /\ events' = Append(events, "GOT_IP")
  \/ \E event \in Correction : events' = Append(events, event)

LinkMoves ==
  /\ station' \in {"down", "joining", "associated", "up"} /\ NewsAdded
  /\ UNCHANGED <<wifiStatus, expired>>

LEMMA CorrectionWaits ==
  ASSUME events \in Seq(Events), NEW event \in Correction, events' = Append(events, event)
  PROVE  /\ \A i \in DOMAIN events' : events'[i] = "GOT_IP" =>
              \E j \in DOMAIN events' : i < j /\ events'[j] # "GOT_IP"
         /\ \E i \in DOMAIN events' : events'[i] # "GOT_IP"
<1>1. /\ Len(events) \in Nat /\ event \in Events /\ event # "GOT_IP"
      /\ DOMAIN events' = 1 .. Len(events) + 1
      /\ events'[Len(events) + 1] = event
  BY AppendProperties, LenProperties DEF Correction
<1> QED BY <1>1

LEMMA LinkKeeps ==
  ASSUME ConnectIInv, LinkMoves
  PROVE  events' \in Seq(Events) /\ AddressKnown' /\ ConnectedIsTrue'
<1>1. events \in Seq(Events) /\ AddressKnown /\ ConnectedIsTrue /\ UNCHANGED <<wifiStatus, expired>>
  BY DEF ConnectIInv, ConnectTypeOK, LinkMoves
<1>2. CASE station' = station /\ events' = events
  BY <1>1, <1>2 DEF AddressKnown, ConnectedIsTrue
<1>3. CASE station # "up" /\ events' = events
  BY <1>1, <1>3 DEF AddressKnown, ConnectedIsTrue
<1>4. CASE station' = "up" /\ events' = Append(events, "GOT_IP")
  <2>1. "GOT_IP" \in Events
    BY DEF Events
  <2> QED BY <1>1, <1>4, <2>1, AppendProperties DEF AddressKnown, ConnectedIsTrue
<1>5. ASSUME NEW event \in Correction, events' = Append(events, event)
      PROVE  events' \in Seq(Events) /\ AddressKnown' /\ ConnectedIsTrue'
  <2>1. event \in Events
    BY DEF Correction
  <2>2. events' \in Seq(Events)
    BY <1>1, <1>5, <2>1, AppendProperties
  <2> QED BY <1>1, <1>5, <2>2, CorrectionWaits DEF AddressKnown, ConnectedIsTrue
<1> QED BY <1>2, <1>3, <1>4, <1>5 DEF LinkMoves, NewsAdded

LEMMA DisconnectMoves ==
  ASSUME ConnectIInv, disconnect, UNCHANGED expired
  PROVE  LinkMoves /\ config' = NoNet
<1>1. "ASSOC_LEAVE" \in Correction
  BY DEF Correction, Events, Reasons
<1> QED BY <1>1 DEF disconnect, LinkMoves, NewsAdded

LEMMA ConnectMoves ==
  ASSUME ConnectIInv, NEW net, Connect(net), UNCHANGED <<wifiStatus, expired>>
  PROVE  LinkMoves /\ config' = net
<1>1. "ASSOC_LEAVE" \in Correction
  BY DEF Correction, Events, Reasons
<1>2. station' \in {"down", "joining", "associated", "up"}
  BY DEF Connect, ConnectIInv, ConnectTypeOK
<1> QED BY <1>1, <1>2 DEF Connect, LinkMoves, NewsAdded

LEMMA FaultCounted == ASSUME ConnectIInv, Fault \/ UNCHANGED faults PROVE faults' \in 0 .. MaxFaults
<1>1. faults \in 0 .. MaxFaults /\ MaxFaults \in Nat
  BY ConnectAssumption DEF ConnectIInv, ConnectTypeOK
<1> QED BY <1>1 DEF Fault

LEMMA OneMoreType == \A n \in 0 .. MaxCount : OneMore(n) \in 0 .. MaxCount
  BY DEF OneMore, MaxCount

(* The attempts do not change.                                              *)
LEMMA RadioMoves ==
  ASSUME ConnectIInv, LinkMoves, config' = config, Fault \/ UNCHANGED faults,
         UNCHANGED <<settings, tries, task, past>>
  PROVE  ConnectIInv'
<1>1. events' \in Seq(Events) /\ AddressKnown' /\ ConnectedIsTrue'
  BY LinkKeeps
<1>2. faults' \in 0 .. MaxFaults
  BY FaultCounted
<1>3. UNCHANGED <<booting, limit, APlist, tries, step, verdict, loaded, failures, lostClear, expired,
                  config, wifiStatus>> /\ station' \in {"down", "joining", "associated", "up"}
  BY DEF settings, task, past, LinkMoves
<1>4. ConnectTypeOK'
  BY <1>1, <1>2, <1>3 DEF ConnectIInv, ConnectTypeOK
<1>5. SearchKnown' /\ CountKnown' /\ GivesUpOnTime'
  BY <1>3 DEF ConnectIInv, SearchKnown, CountKnown, GivesUpOnTime, MayTry
<1> QED BY <1>1, <1>4, <1>5 DEF ConnectIInv

(* A step of the search that does not end it, up to its verdict.            *)
LEMMA SearchMoves ==
  ASSUME ConnectIInv, step \in {"scan", "wait"}, step' \in {"wait", "judge"}, verdict' \in Statuses,
         LinkMoves, config' \in Listed, Fault \/ UNCHANGED faults,
         UNCHANGED <<settings, tries, loaded, past>>
  PROVE  ConnectIInv'
<1>1. events' \in Seq(Events) /\ AddressKnown' /\ ConnectedIsTrue'
  BY LinkKeeps
<1>2. faults' \in 0 .. MaxFaults
  BY FaultCounted
<1>3. UNCHANGED <<booting, limit, APlist, tries, loaded, failures, lostClear, expired, wifiStatus>>
      /\ station' \in {"down", "joining", "associated", "up"}
  BY DEF settings, past, LinkMoves
<1>4. config' \in {NoNet} \cup UNION {{APlist'[i] : i \in DOMAIN APlist'}}
  BY <1>3 DEF Listed
<1>5. ConnectTypeOK'
  BY <1>1, <1>2, <1>3, <1>4 DEF ConnectIInv, ConnectTypeOK
<1>6. SearchKnown' /\ CountKnown' /\ GivesUpOnTime'
  BY <1>3 DEF ConnectIInv, SearchKnown, CountKnown, GivesUpOnTime, MayTry
<1> QED BY <1>1, <1>5, <1>6 DEF ConnectIInv

LEMMA LinkStays == ASSUME ConnectIInv, UNCHANGED <<link, expired>> PROVE LinkMoves /\ config' \in Listed
<1>1. config \in Listed /\ UNCHANGED <<wifiStatus, station, config, events>>
  BY DEF ConnectIInv, ConnectTypeOK, Listed, link
<1> QED BY <1>1 DEF LinkMoves, NewsAdded, ConnectIInv, ConnectTypeOK

LEMMA ScanKeeps ==
  ASSUME ConnectIInv, ScanRunning \/ ScanFailed \/ PollStatus \/ Timeout
  PROVE  ConnectIInv'
<1>1. verdict \in Statuses /\ wifiStatus \in Statuses /\ "NO_SSID" \in Statuses
  BY DEF ConnectIInv, ConnectTypeOK, Statuses
<1>2. CASE ScanRunning
  <2>1. LinkMoves /\ config' \in Listed
    BY <1>2, LinkStays DEF ScanRunning, past
  <2> QED BY <1>1, <1>2, <2>1, SearchMoves DEF ScanRunning, Judge
<1>3. CASE ScanFailed
  <2>1. LinkMoves /\ config' \in Listed
    BY <1>3, DisconnectMoves DEF ScanFailed, past, Listed
  <2> QED BY <1>1, <1>3, <2>1, SearchMoves DEF ScanFailed, Judge
<1>4. CASE PollStatus
  <2>1. LinkMoves /\ config' \in Listed
    BY <1>4, LinkStays DEF PollStatus, past
  <2> QED BY <1>1, <1>4, <2>1, SearchMoves DEF PollStatus, Judge
<1>5. CASE Timeout
  <2>1. LinkMoves /\ config' \in Listed
    BY <1>5, LinkStays DEF Timeout, past
  <2> QED BY <1>1, <1>5, <2>1, SearchMoves DEF Timeout, Judge
<1> QED BY <1>2, <1>3, <1>4, <1>5

LEMMA ScanFoundKeeps ==
  ASSUME ConnectIInv, NEW scan \in Airs, ScanFound(scan)
  PROVE  ConnectIInv'
<1> DEFINE best == Best(scan)
<1>1. verdict \in Statuses /\ wifiStatus \in Statuses /\ APlist \in Seq(SavedNets)
  BY DEF ConnectIInv, ConnectTypeOK, SearchKnown
<1>2. best.net \in Listed
  BY <1>1, BestIsListed DEF Listed
<1> HIDE DEF best
<1>3. /\ step = "scan" /\ UNCHANGED <<settings, tries, loaded, past>> /\ (Fault \/ UNCHANGED faults)
      /\ IF best.net = NoNet
         THEN Judge(verdict) /\ UNCHANGED link
         ELSE /\ Connect(best.net) /\ UNCHANGED wifiStatus
              /\ IF wifiStatus \in Verdicts THEN Judge(wifiStatus)
                 ELSE step' = "wait" /\ UNCHANGED verdict
  BY DEF ScanFound, best
<1>4. UNCHANGED expired
  BY <1>3 DEF past
<1>5. step' \in {"wait", "judge"} /\ verdict' \in Statuses
  BY <1>1, <1>3 DEF Judge
<1>6. LinkMoves /\ config' \in Listed
  <2>1. CASE best.net = NoNet
    BY <1>3, <1>4, <2>1, LinkStays
  <2>2. CASE best.net # NoNet
    BY <1>2, <1>3, <1>4, <2>2, ConnectMoves
  <2> QED BY <2>1, <2>2
<1> QED BY <1>3, <1>5, <1>6, SearchMoves

(* An attempt begins below the limit.                                       *)
LEMMA RunKeeps ==
  ASSUME ConnectIInv, run
  PROVE  ConnectIInv'
<1>1. /\ step = "idle" /\ step' \in {"judge", "scan"} /\ verdict' = wifiStatus /\ MayTry
      /\ UNCHANGED <<booting, limit, APlist, tries, loaded, failures, lostClear, expired,
                     config, wifiStatus, station, events>>
      /\ (Fault \/ UNCHANGED faults)
  BY DEF run, settings, past, link
<1>2. faults' \in 0 .. MaxFaults
  BY <1>1, FaultCounted
<1>3. ConnectTypeOK'
  BY <1>1, <1>2 DEF ConnectIInv, ConnectTypeOK
<1>4. SearchKnown' /\ CountKnown' /\ AddressKnown' /\ ConnectedIsTrue'
  BY <1>1 DEF ConnectIInv, SearchKnown, CountKnown, AddressKnown, ConnectedIsTrue
<1>5. GivesUpOnTime'
  <2>1. SUFFICES ASSUME limit > 0, ~booting, ~lostClear PROVE failures < limit
    BY <1>1 DEF GivesUpOnTime
  <2>2. failures = tries
    BY <1>1, <2>1 DEF ConnectIInv, CountKnown
  <2>3. limit \in Int
    BY ConnectAssumption DEF ConnectIInv, ConnectTypeOK
  <2> QED BY <1>1, <2>1, <2>2, <2>3 DEF MayTry, ConnectIInv, ConnectTypeOK
<1> QED BY <1>3, <1>4, <1>5 DEF ConnectIInv

LEMMA LoadCountKeeps ==
  ASSUME ConnectIInv, LoadCount
  PROVE  ConnectIInv'
<1>1. /\ step = "judge" /\ step' = "store" /\ loaded' = tries
      /\ failures' = IF verdict = "CONNECTED" THEN failures ELSE OneMore(failures)
      /\ UNCHANGED <<booting, limit, APlist, tries, lostClear, expired, verdict, faults,
                     config, wifiStatus, station, events>>
  BY DEF LoadCount, settings, link
<1>2. failures' \in 0 .. MaxCount
  BY <1>1, OneMoreType DEF ConnectIInv, ConnectTypeOK
<1>3. ConnectTypeOK'
  BY <1>1, <1>2 DEF ConnectIInv, ConnectTypeOK
<1>4. SearchKnown' /\ AddressKnown' /\ ConnectedIsTrue' /\ GivesUpOnTime'
  BY <1>1 DEF ConnectIInv, SearchKnown, AddressKnown, ConnectedIsTrue, GivesUpOnTime
<1>5. CountKnown'
  BY <1>1 DEF ConnectIInv, CountKnown, OneMore
<1> QED BY <1>3, <1>4, <1>5 DEF ConnectIInv

LEMMA JudgeStatusKeeps ==
  ASSUME ConnectIInv, JudgeStatus
  PROVE  ConnectIInv'
<1>1. /\ step = "store" /\ step' = "idle" /\ BeginEnds /\ loaded' = 0
      /\ IF booting THEN Cleared /\ lostClear' = FALSE
         ELSE /\ tries' = CountAfter
              /\ failures' = IF verdict = "CONNECTED" THEN 0 ELSE failures
              /\ lostClear' = (lostClear /\ verdict # "CONNECTED")
      /\ IF verdict = "NO_SSID" THEN disconnect ELSE UNCHANGED link
      /\ UNCHANGED <<APlist, verdict, faults, expired>>
  BY DEF JudgeStatus
<1>2. /\ booting \in BOOLEAN /\ limit \in Limits \cup {0, 3} /\ tries \in 0 .. MaxCount
      /\ loaded \in 0 .. MaxCount /\ failures \in 0 .. MaxCount /\ lostClear \in BOOLEAN
      /\ Limits \subseteq -1 .. 3
  BY ConnectAssumption DEF ConnectIInv, ConnectTypeOK
<1>3. LinkMoves /\ config' \in Listed
  BY <1>1, LinkStays, DisconnectMoves DEF Listed
<1>4. events' \in Seq(Events) /\ AddressKnown' /\ ConnectedIsTrue'
  BY <1>3, LinkKeeps
<1>5. config' \in {NoNet} \cup UNION {{APlist'[i] : i \in DOMAIN APlist'}}
  BY <1>1, <1>3 DEF Listed
<1>6. tries' \in 0 .. MaxCount /\ failures' \in 0 .. MaxCount
  BY <1>1, <1>2, OneMoreType DEF Cleared, CountAfter, MaxCount
<1>7. /\ booting' = FALSE /\ booting' \in BOOLEAN /\ limit' \in Limits \cup {0, 3} /\ lostClear' \in BOOLEAN
  BY <1>1, <1>2 DEF BeginEnds
<1>8. ConnectTypeOK'
  <2>1. UNCHANGED wifiStatus /\ station' \in {"down", "joining", "associated", "up"}
    BY <1>3 DEF LinkMoves
  <2>2. loaded' \in 0 .. MaxCount /\ step' \in {"off", "idle", "scan", "wait", "judge", "store"}
    BY <1>1 DEF MaxCount
  <2> QED BY <1>1, <1>4, <1>5, <1>6, <1>7, <2>1, <2>2 DEF ConnectIInv, ConnectTypeOK
<1>9. SearchKnown'
  BY <1>1, <1>7 DEF ConnectIInv, SearchKnown
<1>10. ASSUME ~lostClear' PROVE failures' = tries'
  <2>1. CASE booting \/ verdict = "CONNECTED"
    BY <1>1, <2>1 DEF Cleared, CountAfter
  <2>2. CASE ~booting /\ verdict # "CONNECTED"
    <3>1. ~lostClear /\ tries' = OneMore(loaded) /\ failures' = failures
      BY <1>1, <1>2, <1>10, <2>2 DEF CountAfter
    <3> QED BY <1>1, <2>2, <3>1 DEF ConnectIInv, CountKnown
  <2> QED BY <2>1, <2>2
<1>11. CountKnown'
  BY <1>1, <1>10 DEF CountKnown
<1>12. GivesUpOnTime'
  BY <1>1, <1>2, <1>6, <1>7, <1>10 DEF GivesUpOnTime, MayTry
<1> QED BY <1>4, <1>8, <1>9, <1>11, <1>12 DEF ConnectIInv

LEMMA BeginKeeps ==
  ASSUME ConnectIInv, NEW saved \in SavedLists, NEW garbage \in BOOLEAN, beginWiFi(saved, garbage)
  PROVE  ConnectIInv'
<1>1. /\ step = "off" /\ step' = "scan" /\ limit' = 0 /\ APlist' = APlistAdd(saved, garbage)
      /\ UNCHANGED <<booting, tries, wifiStatus, station, config, events, verdict, loaded, faults,
                     failures, lostClear, expired>>
  BY DEF beginWiFi, link, past
<1>2. /\ booting /\ config = NoNet
  BY <1>1 DEF ConnectIInv, SearchKnown, ConnectTypeOK
<1>3. APlist' \in Seq(SavedNets)
  <2> DEFINE mid == [i \in DOMAIN saved |-> Stored(saved[i], garbage)]
             front == <<[ssid |-> "d", pass |-> "wrong"]>>
             back == <<[ssid |-> "NefryWiFi", pass |-> "right"]>>
  <2>1. saved \in Seq(SavedNets) /\ Len(saved) \in Nat /\ DOMAIN saved = 1 .. Len(saved)
        /\ \A i \in DOMAIN saved : saved[i] \in SavedNets
    BY ConnectAssumption, LenProperties, ElementOfSeq
  <2>2. \A i \in DOMAIN saved : Stored(saved[i], garbage) \in SavedNets
    BY <2>1 DEF Stored, SavedNets
  <2>3. mid \in Seq(SavedNets)
    BY <2>1, <2>2 DEF Seq
  <2>4. front \in Seq(SavedNets) /\ back \in Seq(SavedNets)
    <3>1. "d" \in Names /\ "NefryWiFi" \in Names
      BY DEF Names
    <3>2. front \in Seq([ssid : Names, pass : {"right", "wrong", "none"}])
      BY <3>1
    <3>3. back \in Seq([ssid : Names, pass : {"right", "wrong", "none"}])
      BY <3>1
    <3> QED BY <3>2, <3>3 DEF SavedNets
  <2> HIDE DEF mid, front, back
  <2>5. front \o mid \o back \in Seq(SavedNets)
    BY <2>3, <2>4, ConcatProperties
  <2> QED BY <1>1, <2>5 DEF APlistAdd, mid, front, back
<1>4. ConnectTypeOK'
  BY <1>1, <1>2 DEF ConnectIInv, ConnectTypeOK
<1>5. SearchKnown' /\ CountKnown' /\ GivesUpOnTime'
  BY <1>1, <1>2, <1>3 DEF SearchKnown, CountKnown, GivesUpOnTime
<1>6. AddressKnown' /\ ConnectedIsTrue'
  BY <1>1 DEF ConnectIInv, AddressKnown, ConnectedIsTrue
<1> QED BY <1>4, <1>5, <1>6 DEF ConnectIInv

LEMMA SettingsKeep ==
  ASSUME ConnectIInv, setWifiTimeoutClear \/ \E n \in Limits : setWifiTimeout(n)
  PROVE  ConnectIInv'
<1>1. CASE setWifiTimeoutClear
  <2>1. /\ ~booting /\ tries' = 0 /\ failures' = 0 /\ lostClear' = (lostClear \/ step = "store")
        /\ UNCHANGED <<booting, limit, APlist, wifiStatus, station, config, events, step, verdict,
                       loaded, faults, expired>>
    BY <1>1 DEF setWifiTimeoutClear, Cleared, settings, link, task
  <2>2. lostClear' \in BOOLEAN /\ 0 \in 0 .. MaxCount
    BY <2>1 DEF ConnectIInv, ConnectTypeOK, MaxCount
  <2>3. ConnectTypeOK'
    BY <2>1, <2>2 DEF ConnectIInv, ConnectTypeOK
  <2>4. SearchKnown' /\ AddressKnown' /\ ConnectedIsTrue'
    BY <2>1 DEF ConnectIInv, SearchKnown, AddressKnown, ConnectedIsTrue
  <2>5. CountKnown'
    BY <2>1 DEF CountKnown
  <2>6. limit \in Int
    BY ConnectAssumption DEF ConnectIInv, ConnectTypeOK
  <2>7. GivesUpOnTime'
    BY <2>1, <2>6 DEF GivesUpOnTime, MayTry
  <2> QED BY <2>3, <2>4, <2>5, <2>7 DEF ConnectIInv
<1>2. ASSUME NEW n \in Limits, setWifiTimeout(n) PROVE ConnectIInv'
  <2>1. /\ step = "idle" /\ limit' = n
        /\ UNCHANGED <<booting, APlist, tries, wifiStatus, station, config, events, step, verdict,
                       loaded, faults, failures, lostClear, expired>>
    BY <1>2 DEF setWifiTimeout, link, task, past
  <2>2. ConnectTypeOK'
    BY <2>1 DEF ConnectIInv, ConnectTypeOK
  <2>3. SearchKnown' /\ AddressKnown' /\ ConnectedIsTrue' /\ CountKnown'
    BY <2>1 DEF ConnectIInv, SearchKnown, AddressKnown, ConnectedIsTrue, CountKnown
  <2>4. n \in Int /\ tries \in Int
    BY ConnectAssumption DEF ConnectIInv, ConnectTypeOK
  <2>5. GivesUpOnTime'
    BY <2>1, <2>3, <2>4 DEF GivesUpOnTime, MayTry, CountKnown
  <2> QED BY <2>2, <2>3, <2>5 DEF ConnectIInv
<1> QED BY <1>1, <1>2

LEMMA RaiseKeeps ==
  ASSUME ConnectIInv, Associate \/ GetIp \/ Refused \/ \E why \in Reasons : Drop(why)
  PROVE  ConnectIInv'
<1> DEFINE Stays == /\ UNCHANGED <<settings, tries, wifiStatus, config, task, past, expired>>
                    /\ (Fault \/ UNCHANGED faults)
<1>1. CASE Associate
  <2>1. "STA_CONNECTED" \in Correction
    BY DEF Correction, Events
  <2>2. LinkMoves /\ Stays
    BY <1>1, <2>1 DEF Associate, Raise, LinkMoves, NewsAdded, past
  <2> QED BY <2>2, RadioMoves
<1>2. CASE GetIp
  <2>1. LinkMoves /\ Stays
    BY <1>2 DEF GetIp, Raise, LinkMoves, NewsAdded, past
  <2> QED BY <2>1, RadioMoves
<1>3. CASE Refused
  <2>1. "NO_AP_FOUND" \in Correction /\ "AUTH_FAIL" \in Correction
    BY DEF Correction, Events, Reasons
  <2>2. LinkMoves /\ Stays
    BY <1>3, <2>1 DEF Refused, Raise, LinkMoves, NewsAdded, past
  <2> QED BY <2>2, RadioMoves
<1>4. ASSUME NEW why \in Reasons, Drop(why) PROVE ConnectIInv'
  <2>1. why \in Correction
    BY DEF Correction, Events, Reasons
  <2>2. LinkMoves /\ Stays
    BY <1>4, <2>1 DEF Drop, Raise, LinkMoves, NewsAdded, past
  <2> QED BY <2>2, RadioMoves
<1> QED BY <1>1, <1>2, <1>3, <1>4

(* The handler of the events: the status follows the first one, and what    *)
(* contradicts it comes behind it.                                          *)
LEMMA EventKeeps ==
  ASSUME ConnectIInv, eventCallback
  PROVE  ConnectIInv'
<1>1. /\ events # <<>> /\ events' = Tail(events) /\ wifiStatus' = StatusOf(Head(events))
      /\ expired' = (Head(events) = "AUTH_EXPIRE")
      /\ station' = station \/ (station = "down" /\ station' = "joining")
      /\ UNCHANGED <<booting, limit, APlist, tries, config, step, verdict, loaded, faults,
                     failures, lostClear>>
  BY DEF eventCallback, Rejoin, settings, task
<1>2. events \in Seq(Events) /\ Len(events) \in Nat /\ DOMAIN events = 1 .. Len(events)
  BY LenProperties DEF ConnectIInv, ConnectTypeOK
<1>3. /\ Head(events) = events[1] /\ 1 \in DOMAIN events
      /\ events' \in Seq(Events) /\ DOMAIN events' = 1 .. Len(events) - 1
      /\ \A i \in 1 .. Len(events) - 1 : events'[i] = events[i + 1]
  BY <1>1, <1>2, HeadTailProperties, EmptySeq, LenProperties
<1>4. wifiStatus' \in Statuses
  BY <1>1 DEF StatusOf, Statuses, ConnectIInv, ConnectTypeOK
<1>5. ConnectTypeOK'
  BY <1>1, <1>3, <1>4 DEF ConnectIInv, ConnectTypeOK
<1>6. SearchKnown' /\ CountKnown' /\ GivesUpOnTime'
  BY <1>1 DEF ConnectIInv, SearchKnown, CountKnown, GivesUpOnTime, MayTry
<1>7. station' # "up" => station # "up"
  BY <1>1
<1>8. station # "up" => \A i \in 1 .. Len(events) : events[i] = "GOT_IP" =>
                          \E j \in 1 .. Len(events) : i < j /\ events[j] # "GOT_IP"
  BY <1>2 DEF ConnectIInv, AddressKnown
<1>9. ASSUME station # "up", NEW i \in 0 .. Len(events) - 1, events[i + 1] = "GOT_IP"
      PROVE  \E j \in 1 .. Len(events) - 1 : i < j /\ events'[j] # "GOT_IP"
  <2>1. i + 1 \in 1 .. Len(events)
    BY <1>2
  <2>2. PICK j \in 1 .. Len(events) : i + 1 < j /\ events[j] # "GOT_IP"
    BY <1>8, <1>9, <2>1
  <2>3. j - 1 \in 1 .. Len(events) - 1 /\ i < j - 1 /\ (j - 1) + 1 = j
    BY <1>2, <2>2
  <2> QED BY <1>3, <2>2, <2>3
<1>10. AddressKnown'
  <2> SUFFICES ASSUME station # "up", NEW i \in 1 .. Len(events) - 1, events'[i] = "GOT_IP"
               PROVE  \E j \in 1 .. Len(events) - 1 : i < j /\ events'[j] # "GOT_IP"
    BY <1>3, <1>7 DEF AddressKnown
  <2>1. i \in 0 .. Len(events) - 1 /\ events[i + 1] = "GOT_IP"
    BY <1>2, <1>3
  <2> QED BY <1>9, <2>1
<1>11. ConnectedIsTrue'
  <2> SUFFICES ASSUME wifiStatus' = "CONNECTED", Head(events) # "AUTH_EXPIRE", station' # "up"
               PROVE  \E j \in DOMAIN events' : events'[j] # "GOT_IP"
    BY <1>1 DEF ConnectedIsTrue
  <2>1. events[1] = "GOT_IP"
    BY <1>1, <1>3 DEF StatusOf
  <2>2. 0 \in 0 .. Len(events) - 1 /\ 0 + 1 = 1
    BY <1>2, <1>3
  <2> QED BY <1>3, <1>7, <1>9, <2>1, <2>2
<1> QED BY <1>5, <1>6, <1>10, <1>11 DEF ConnectIInv

LEMMA ConnectInitial == ConnectInit => ConnectIInv
<1> SUFFICES ASSUME ConnectInit PROVE ConnectIInv
  OBVIOUS
<1>1. events \in Seq(Events) /\ events = <<"START">>
  BY DEF ConnectInit, Events
<1>2. APlist \in Seq(SavedNets)
  BY DEF ConnectInit
<1>3. 0 \in 0 .. MaxFaults /\ 0 \in 0 .. MaxCount
  BY ConnectAssumption DEF MaxCount
<1>4. ConnectTypeOK
  BY <1>1, <1>3 DEF ConnectInit, ConnectTypeOK, Statuses
<1>5. SearchKnown /\ CountKnown /\ GivesUpOnTime /\ ConnectedIsTrue
  BY <1>2 DEF ConnectInit, SearchKnown, CountKnown, GivesUpOnTime, ConnectedIsTrue
<1>6. AddressKnown
  BY <1>1 DEF AddressKnown
<1> QED BY <1>4, <1>5, <1>6 DEF ConnectIInv

LEMMA ConnectKept ==
  ASSUME ConnectIInv, [ConnectNext]_connectVars
  PROVE  ConnectIInv'
<1>1. CASE UNCHANGED connectVars
  <2>1. UNCHANGED <<booting, limit, APlist, tries, wifiStatus, station, config, events, step, verdict,
                    loaded, faults, failures, lostClear, expired>>
    BY <1>1 DEF connectVars, settings, link, task, past
  <2> QED BY <2>1 DEF ConnectIInv, ConnectTypeOK, SearchKnown, CountKnown, AddressKnown,
                      GivesUpOnTime, MayTry, ConnectedIsTrue
<1>2. CASE ConnectNext
  BY <1>2, RunKeeps, ScanKeeps, ScanFoundKeeps, LoadCountKeeps, JudgeStatusKeeps, BeginKeeps,
     SettingsKeep, RaiseKeeps, EventKeeps
  DEF ConnectNext, MainTask, Radio
<1> QED BY <1>1, <1>2

THEOREM ConnectInvariant == ConnectSpec => []ConnectIInv
  BY ConnectInitial, ConnectKept, PTL DEF ConnectSpec

(* The search for a network gives up at the limit and not before, takes a   *)
(* strongest of the networks it could join, and the status tells of a       *)
(* connection only while there is one or news of its loss is on the way     *)
(* (NefryWiFi.cpp:79-103, WiFiMulti.cpp:82-118, WiFiGeneric.cpp:280-320).   *)
THEOREM ConnectCorrect == ConnectSpec => []ConnectInv
<1>1. ConnectIInv => ConnectInv
  BY StrongestChosen DEF ConnectIInv, ConnectInv, SearchKnown
<1> QED BY <1>1, ConnectInvariant, PTL

(***************************************************************************)
(* Starts and restarts (NefryBoot): readSW reports no press twice and none  *)
(* that was not made, a stored request for write mode decides the next      *)
(* start, and no start ends in write mode without a cause.                  *)
(***************************************************************************)
(* A board that has not started has no press to report.                     *)
LEMMA InitIInv == BootInit => IInv
<1> SUFFICES ASSUME BootInit PROVE IInv
  OBVIOUS
<1>1. BootTypeOK
  <2>1. bootMode \in -1 .. 2
    BY DEF BootInit
  <2>2. 0 \in 0 .. Delay /\ 0 \in 0 .. MaxAsks /\ 0 \in 0 .. MaxPresses /\ 0 \in 0 .. MaxCuts /\ 0 \in 0 .. MaxFailedWrites
    BY BootAssumption
  <2> QED
    BY <2>1, <2>2 DEF BootInit, BootTypeOK, InitSteps
<1>2. OnItsWay = 0 /\ reads = 0 /\ releases = 0 /\ poll = "first"
  BY DEF BootInit, OnItsWay
<1> QED
  BY <1>1, <1>2 DEF IInv

(* A start, by the timer or after a cut, leaves no press behind.            *)
LEMMA RestartIInv ==
  ASSUME Restart, pin' \in {"LOW", "HIGH"}, selector' \in {0, 1}, asked' \in BOOLEAN,
         cuts' \in 0 .. MaxCuts, failedWrites' \in 0 .. MaxFailedWrites
  PROVE  IInv'
<1>1. BootTypeOK'
  <2>1. bootMode' \in -1 .. 2
    BY DEF Restart
  <2>2. 0 \in 0 .. Delay /\ 0 \in 0 .. MaxAsks /\ 0 \in 0 .. MaxPresses
    BY BootAssumption
  <2> QED
    BY <2>1, <2>2 DEF Restart, BootTypeOK, InitSteps
<1>2. OnItsWay' = 0 /\ reads' = 0 /\ releases' = 0 /\ poll' = "first"
  BY DEF Restart, OnItsWay
<1> QED
  BY <1>1, <1>2 DEF IInv

(* readSW, which nefry_init and the sketch call, takes a press away as it   *)
(* reports it.                                                              *)
LEMMA ReadIInv ==
  ASSUME IInv, NEW pressed \in BOOLEAN, readSW(pressed), UNCHANGED button
  PROVE  /\ poll' \in {"first", "second"} /\ swPushing' \in BOOLEAN /\ swflg' \in BOOLEAN
         /\ reads' \in 0 .. MaxPresses /\ reads' + OnItsWay' <= releases'
         /\ poll' = "second" => ~swflg'
<1>1. reads \in Nat /\ releases \in 0 .. MaxPresses /\ MaxPresses \in Nat
  BY BootAssumption DEF IInv, BootTypeOK
<1>2. poll' = poll /\ swPushing' = swPushing /\ pin' = pin /\ releases' = releases
  BY DEF readSW, button
<1>3. CASE swEnable /\ swflg
  <2>1. swflg' = FALSE /\ reads' = reads + 1
    BY <1>3 DEF readSW, IInv, BootTypeOK
  <2> DEFINE Pushed == IF swPushing /\ pin = "HIGH" THEN 1 ELSE 0
  <2>2. Pushed \in 0 .. 1
    OBVIOUS
  <2>3. OnItsWay = 1 + Pushed /\ OnItsWay' = Pushed'
    BY <1>3, <2>1, <2>2 DEF OnItsWay
  <2>4. Pushed' = Pushed
    BY <1>2, Zenon
  <2>5. reads + OnItsWay <= releases
    BY DEF IInv
  <2> HIDE DEF Pushed
  <2>6. reads' \in 0 .. MaxPresses /\ reads' + OnItsWay' <= releases'
    BY <1>1, <1>2, <2>1, <2>2, <2>3, <2>4, <2>5
  <2> QED
    BY <1>2, <2>1, <2>6 DEF IInv, BootTypeOK
<1>4. CASE ~(swEnable /\ swflg)
  <2>1. swflg' = swflg /\ reads' = reads
    BY <1>4 DEF readSW, IInv, BootTypeOK
  <2>2. OnItsWay' = OnItsWay
    BY <1>2, <2>1 DEF OnItsWay
  <2> QED
    BY <1>1, <1>2, <2>1, <2>2 DEF IInv, BootTypeOK
<1> QED
  BY <1>3, <1>4

(* setBootSelector leaves Flash and the bound in range.                     *)
LEMMA PutType ==
  ASSUME IInv, NEW mode \in {0, 1}, PutSelector(mode)
  PROVE  selector' \in {0, 1} /\ failedWrites' \in 0 .. MaxFailedWrites
BY BootAssumption DEF IInv, BootTypeOK, PutSelector

LEMMA InitStepIInv == IInv /\ InitStep => IInv'
<1> SUFFICES ASSUME IInv, InitStep PROVE IInv'
  OBVIOUS
<1> USE BootAssumption DEF Elsewhere, button, timer, switch
<1>1. CASE enableSW
  BY <1>1 DEF enableSW, IInv, BootTypeOK, InitSteps, OnItsWay
<1>2. CASE FirstRead
  <2>1. PICK pressed \in BOOLEAN : readSW(pressed) /\ bootMode' = IF pressed THEN 2 ELSE bootMode
    BY <1>2 DEF FirstRead
  <2> QED
    BY <1>2, <2>1, ReadIInv DEF FirstRead, IInv, BootTypeOK, InitSteps
<1>3. CASE WiFiBegin
  BY <1>3 DEF WiFiBegin, IInv, BootTypeOK, InitSteps, OnItsWay
<1>4. CASE SecondRead
  <2>1. CASE selector = 1
    BY <1>4, <2>1 DEF SecondRead, IInv, BootTypeOK, InitSteps, OnItsWay
  <2>2. CASE selector # 1
    <3>1. PICK pressed \in BOOLEAN :
            /\ readSW(pressed)
            /\ initStep' = IF pressed THEN "clear" ELSE "disable"
            /\ bootMode' = IF pressed THEN bootMode ELSE 1
      BY <1>4, <2>2 DEF SecondRead
    <3> QED
      BY <1>4, <3>1, ReadIInv DEF SecondRead, IInv, BootTypeOK, InitSteps
  <2> QED
    BY <2>1, <2>2
<1>5. CASE ClearSelector
  BY <1>5, PutType DEF ClearSelector, IInv, BootTypeOK, InitSteps, OnItsWay
<1>6. CASE WriteMode
  BY <1>6 DEF WriteMode, IInv, BootTypeOK, InitSteps, OnItsWay
<1>7. CASE disableSW
  BY <1>7 DEF disableSW, IInv, BootTypeOK, InitSteps, OnItsWay
<1> QED
  BY <1>1, <1>2, <1>3, <1>4, <1>5, <1>6, <1>7 DEF InitStep

(* The end of run(): a restart, or the timer goes on.                       *)
LEMMA TickIInv ==
  ASSUME IInv, NEW armed \in BOOLEAN, NEW left \in 0 .. Delay,
         NEW served \in 0 .. MaxAsks,
         Tick(armed, left, served),
         selector' \in {0, 1}, asked' \in BOOLEAN, cuts' \in 0 .. MaxCuts, failedWrites' \in 0 .. MaxFailedWrites
  PROVE  IInv'
<1>1. CASE armed /\ left <= 1
  <2>1. Restart /\ pin' \in {"LOW", "HIGH"}
    BY <1>1 DEF Tick, IInv, BootTypeOK
  <2> QED
    BY <2>1, RestartIInv
<1>2. CASE ~(armed /\ left <= 1)
  <2>1. countdown' \in 0 .. Delay
    BY <1>2, BootAssumption DEF Tick
  <2> QED
    BY <1>2, <2>1 DEF Tick, IInv, BootTypeOK, init, switch, button, OnItsWay
<1> QED
  BY <1>1, <1>2

(* Every step of the board keeps the invariant.                             *)
LEMMA NextIInv == IInv /\ [BootNext]_bootVars => IInv'
<1> SUFFICES ASSUME IInv, [BootNext]_bootVars PROVE IInv'
  OBVIOUS
<1> USE BootAssumption
<1>1. CASE Press
  BY <1>1 DEF Press, IInv, BootTypeOK, InitSteps, switch, timer, init, OnItsWay
<1>2. CASE Release
  BY <1>2 DEF Release, IInv, BootTypeOK, InitSteps, switch, timer, init, OnItsWay
<1>3. CASE PollFirst
  BY <1>3 DEF PollFirst, IInv, BootTypeOK, InitSteps, button, timer, init, OnItsWay
<1>4. CASE PollSecond
  BY <1>4 DEF PollSecond, IInv, BootTypeOK, InitSteps, button, timer, init, OnItsWay
<1>5. CASE SketchSW
  <2>1. UNCHANGED <<button, timer, init, selector, asked, cuts, failedWrites>>
    BY <1>5 DEF SketchSW
  <2>2. CASE \E pressed \in BOOLEAN : readSW(pressed) /\ UNCHANGED swEnable
    <3>1. PICK pressed \in BOOLEAN : readSW(pressed) /\ UNCHANGED swEnable
      BY <2>2
    <3> QED
      BY <2>1, <3>1, ReadIInv DEF IInv, BootTypeOK, timer, init, button
  <2>3. CASE swEnable' \in BOOLEAN /\ UNCHANGED <<poll, swPushing, swflg, reads>>
    BY <2>1, <2>3 DEF IInv, BootTypeOK, timer, init, button, OnItsWay
  <2> QED
    BY <1>5, <2>2, <2>3 DEF SketchSW
<1>6. CASE InitStep
  BY <1>6, InitStepIInv
<1>7. CASE Run
  <2>1. Tick(resetFlg, countdown, asks) /\ UNCHANGED <<selector, asked, cuts, failedWrites>>
    BY <1>7 DEF Run
  <2> QED
    BY <2>1, TickIInv DEF IInv, BootTypeOK
<1>8. ASSUME NEW uri \in Pages, Serve(uri) PROVE IInv'
  <2>1. Tick(TRUE, Delay, asks + 1) /\ asks < MaxAsks /\ UNCHANGED cuts
    BY <1>8 DEF Serve
  <2>2. asks + 1 \in 0 .. MaxAsks
    BY <2>1 DEF IInv, BootTypeOK
  <2>3. selector' \in {0, 1} /\ asked' \in BOOLEAN /\ failedWrites' \in 0 .. MaxFailedWrites
    BY <1>8, PutType DEF Serve, IInv, BootTypeOK
  <2>4. cuts' \in 0 .. MaxCuts
    BY <2>1 DEF IInv, BootTypeOK
  <2>5. Delay \in 0 .. Delay
    OBVIOUS
  <2> QED
    BY <2>1, <2>2, <2>3, <2>4, <2>5, TickIInv
<1>9. CASE CutPower
  BY <1>9, RestartIInv DEF CutPower, IInv, BootTypeOK
<1>10. CASE UNCHANGED bootVars
  BY <1>10 DEF bootVars, switch, button, timer, init, IInv, BootTypeOK, OnItsWay
<1> QED
  BY <1>1, <1>2, <1>3, <1>4, <1>5, <1>6, <1>7, <1>8, <1>9, <1>10 DEF BootNext

(* The invariant holds in every state of the board.                         *)
THEOREM InductiveInvariant == BootSpec => []IInv
<1> QED
  BY InitIInv, NextIInv, PTL DEF BootSpec

(* readSW reports a press once: the two tasks that share _swflg without a   *)
(* lock can neither lose count nor invent a press (Nefry.cpp:261-290).      *)
THEOREM PressesCount == BootSpec => []PressReportedOnce
<1>1. IInv => PressReportedOnce
  BY DEF IInv, BootTypeOK, OnItsWay, PressReportedOnce
<1> QED
  BY <1>1, InductiveInvariant, PTL

(* The steps of the switch and of the sketch do not touch the request.      *)
LEMMA AskElsewhere ==
  ASSUME AskIInv, UNCHANGED <<asked, selector, initStep, bootMode>>
  PROVE  AskIInv'
BY DEF AskIInv, AskKept, AskDecides

(* Every step of the board keeps a request for write mode.                  *)
LEMMA NextAsk == IInv /\ AskIInv /\ [BootNext]_bootVars => AskIInv'
<1> SUFFICES ASSUME IInv, AskIInv, [BootNext]_bootVars PROVE AskIInv'
  OBVIOUS
<1> USE DEF AskIInv, AskKept, AskDecides
<1>1. CASE Press \/ Release \/ PollFirst \/ PollSecond \/ SketchSW \/ UNCHANGED bootVars
  BY <1>1, AskElsewhere DEF Press, Release, PollFirst, PollSecond, SketchSW, bootVars, init
<1>2. CASE InitStep
  <2>1. CASE enableSW \/ FirstRead \/ WiFiBegin
    BY <2>1 DEF enableSW, FirstRead, WiFiBegin
  <2>2. CASE SecondRead
    BY <2>2 DEF SecondRead
  <2>3. CASE ClearSelector
    BY <2>3 DEF ClearSelector
  <2>4. CASE WriteMode
    BY <2>4 DEF WriteMode
  <2>5. CASE disableSW
    BY <2>5 DEF disableSW
  <2> QED
    BY <1>2, <2>1, <2>2, <2>3, <2>4, <2>5 DEF InitStep
<1>3. CASE Run
  <2>1. initStep = "run" /\ UNCHANGED <<selector, asked>> /\ initStep' \in {"run", "start"}
    BY <1>3 DEF Run, Tick, Restart, init
  <2> QED
    BY <2>1
<1>4. ASSUME NEW uri \in Pages, Serve(uri) PROVE AskIInv'
  <2>1. initStep = "run" /\ initStep' \in {"run", "start"}
    BY <1>4 DEF Serve, Tick, Restart, init
  <2>2. asked' => selector' = 1
    <3>1. asked => selector = 1
      BY <2>1
    <3>2. CASE uri = "/onreset"
      BY <1>4, <3>1, <3>2 DEF Serve, PutSelector
    <3>3. CASE uri # "/onreset"
      BY <1>4, <3>1, <3>3 DEF Serve
    <3> QED
      BY <3>2, <3>3
  <2> QED
    BY <2>1, <2>2
<1>5. CASE CutPower
  BY <1>5 DEF CutPower, Restart
<1> QED
  BY <1>1, <1>2, <1>3, <1>4, <1>5 DEF BootNext

(* A stored request for write mode makes the next start that comes to its   *)
(* end a start in write mode, whatever cuts and failed writes come before.  *)
THEOREM AskIsDecided == BootSpec => []AskDecides
<1>1. BootInit => AskIInv
  BY DEF BootInit, AskIInv, AskKept, AskDecides
<1>2. AskIInv => AskDecides
  BY DEF AskIInv
<1> QED
  BY <1>1, <1>2, NextAsk, InductiveInvariant, PTL DEF BootSpec

(* A step that leaves nefry_init, its mode and its causes alone.            *)
LEMMA CauseElsewhere ==
  ASSUME CauseIInv, UNCHANGED <<asked, selector, initStep, bootMode, failedWrites>>,
         reads' >= reads, initStep # "run" => swEnable' = swEnable,
         reads \in Nat, reads' \in Nat
  PROVE  CauseIInv'
BY DEF CauseIInv, Caused, WriteModeHasCause

(* nefry_init goes for write mode only after a press it has read or for the *)
(* key in Flash.                                                            *)
LEMMA InitStepCause == IInv /\ CauseIInv /\ InitStep => CauseIInv'
<1> SUFFICES ASSUME IInv, CauseIInv, InitStep PROVE CauseIInv'
  OBVIOUS
<1> USE DEF CauseIInv, Caused, WriteModeHasCause
<1>1. reads \in Nat /\ failedWrites \in Nat /\ selector \in {0, 1} /\ swEnable \in BOOLEAN
  BY BootAssumption DEF IInv, BootTypeOK
<1>2. CASE enableSW
  BY <1>1, <1>2 DEF enableSW
<1>3. CASE FirstRead
  <2>1. PICK pressed \in BOOLEAN : readSW(pressed) /\ bootMode' = IF pressed THEN 2 ELSE bootMode
    BY <1>3 DEF FirstRead
  <2>2. pressed => reads' = reads + 1
    BY <1>3, <2>1 DEF FirstRead, readSW
  <2>3. bootMode' = 2 => pressed
    BY <1>3, <2>1 DEF FirstRead
  <2> QED
    BY <1>1, <1>3, <2>2, <2>3 DEF FirstRead
<1>4. CASE WiFiBegin
  BY <1>1, <1>4 DEF WiFiBegin, switch
<1>5. CASE SecondRead
  <2>1. CASE selector = 1
    BY <1>1, <1>5, <2>1 DEF SecondRead
  <2>2. CASE selector # 1
    <3>1. PICK pressed \in BOOLEAN :
            /\ readSW(pressed)
            /\ initStep' = IF pressed THEN "clear" ELSE "disable"
            /\ bootMode' = IF pressed THEN bootMode ELSE 1
      BY <1>5, <2>2 DEF SecondRead
    <3>2. pressed => reads' = reads + 1
      BY <1>5, <3>1 DEF SecondRead, readSW
    <3> QED
      BY <1>1, <1>5, <2>2, <3>1, <3>2 DEF SecondRead
  <2> QED
    BY <2>1, <2>2
<1>6. CASE ClearSelector
  BY <1>1, <1>6 DEF ClearSelector, PutSelector, switch
<1>7. CASE WriteMode
  BY <1>1, <1>7 DEF WriteMode, switch
<1>8. CASE disableSW
  BY <1>1, <1>8 DEF disableSW
<1> QED
  BY <1>2, <1>3, <1>4, <1>5, <1>6, <1>7, <1>8 DEF InitStep

(* Every step of the board keeps the causes of write mode.                  *)
LEMMA NextCause == IInv /\ CauseIInv /\ [BootNext]_bootVars => CauseIInv'
<1> SUFFICES ASSUME IInv, CauseIInv, [BootNext]_bootVars PROVE CauseIInv'
  OBVIOUS
<1>1. reads \in Nat /\ failedWrites \in Nat /\ selector \in {0, 1}
  BY BootAssumption DEF IInv, BootTypeOK
<1>2. CASE Press \/ Release \/ PollFirst \/ PollSecond \/ UNCHANGED bootVars
  BY <1>1, <1>2, CauseElsewhere DEF Press, Release, PollFirst, PollSecond, bootVars, init, switch
<1>3. CASE SketchSW
  <2>1. reads' = reads \/ reads' = reads + 1
    BY <1>3 DEF SketchSW, readSW
  <2> QED
    BY <1>1, <1>3, <2>1, CauseElsewhere DEF SketchSW, init
<1>4. CASE InitStep
  BY <1>4, InitStepCause
<1>5. CASE Run
  <2>1. initStep = "run" /\ UNCHANGED <<selector, asked, failedWrites>>
    BY <1>5 DEF Run
  <2>2. initStep' = "run" \/ (initStep' = "start" /\ bootMode' = -1)
    BY <1>5 DEF Run, Tick, Restart, init
  <2> QED
    BY <2>1, <2>2 DEF CauseIInv, WriteModeHasCause
<1>6. ASSUME NEW uri \in Pages, Serve(uri) PROVE CauseIInv'
  <2>1. initStep' = "run" \/ (initStep' = "start" /\ bootMode' = -1)
    BY <1>6 DEF Serve, Tick, Restart, init
  <2>2. selector' = 1 => asked' \/ failedWrites' > 0
    BY <1>1, <1>6 DEF Serve, PutSelector, CauseIInv
  <2> QED
    BY <2>1, <2>2 DEF CauseIInv, WriteModeHasCause
<1>7. CASE CutPower
  <2>1. initStep' = "start" /\ bootMode' = -1 /\ UNCHANGED <<selector, failedWrites>>
    BY <1>7 DEF CutPower, Restart
  <2>2. asked /\ initStep \notin {"write", "disable"} => asked'
    BY <1>7 DEF CutPower
  <2>3. selector' = 1 => asked' \/ failedWrites' > 0
    BY <1>1, <2>1, <2>2 DEF CauseIInv
  <2> QED
    BY <2>1, <2>3 DEF CauseIInv, WriteModeHasCause
<1> QED
  BY <1>2, <1>3, <1>4, <1>5, <1>6, <1>7 DEF BootNext

(* A start ends in write mode only if the page /onreset asked for it or a   *)
(* press was read during this start (Nefry.cpp:69), or a write of the key   *)
(* to Flash has failed.                                                     *)
THEOREM WriteModeCaused == BootSpec => []WriteModeHasCause
<1>1. BootInit => CauseIInv
  BY DEF BootInit, CauseIInv, Caused, WriteModeHasCause
<1>2. CauseIInv => WriteModeHasCause
  BY DEF CauseIInv
<1> QED
  BY <1>1, <1>2, NextCause, InductiveInvariant, PTL DEF BootSpec
=============================================================================
