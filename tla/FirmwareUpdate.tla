--------------------------- MODULE FirmwareUpdate ---------------------------
(***************************************************************************)
(* A sketch uploaded through the page /update: the upload callback and the  *)
(* POST handler of NefryUpdate.cpp, the UpdateClass of Updater.cpp, the two *)
(* application partitions in Flash and the restarts of the board.           *)
(*                                                                         *)
(* Data is counted in units of Flash.  An image is a sequence of units, the *)
(* first of which starts with the magic byte if the file is a firmware; the *)
(* boot loader runs a partition whose magic byte is there.  A Flash         *)
(* operation is one action, so the power can go between two of them.        *)
(***************************************************************************)
EXTENDS Integers, Sequences

CONSTANTS
  SECTOR,      (* units in a Flash sector (SPI_FLASH_SEC_SIZE, 4096 bytes)    *)
  SIZE,        (* units in a partition                                        *)
  CHUNK,       (* units in a full upload buffer (HTTP_UPLOAD_BUFLEN, 2048)    *)
  Files,       (* the files that are uploaded: length, and whether the first  *)
               (* byte is the magic byte of a firmware                        *)
  Hazards,     (* what may go wrong: a subset of {"power", "alloc", "erase",  *)
               (* "program", "enable", "activate", "disconnect"}              *)
  MaxUploads,  (* bound: uploads                                              *)
  MaxHazards   (* bound: things that go wrong                                 *)

ASSUME SizeAssumption ==
  /\ SECTOR \in Nat \ {0} /\ CHUNK \in Nat \ {0}
  /\ SECTOR % CHUNK = 0 /\ SIZE \in Nat \ {0} /\ SIZE % SECTOR = 0
ASSUME BoundAssumption == MaxHazards \in Nat
ASSUME FilesAssumption == Files \subseteq [len : Nat, firmware : BOOLEAN]

VARIABLES
  images,    (* images[u]: length and kind of the u-th file; 1 is the sketch  *)
             (* the board was delivered with                                  *)
  parts,     (* parts[p]: the magic byte and the units of partition p         *)
  boot,      (* the partition the boot loader is told to start                *)
  running,   (* the partition that runs                                       *)
  pc,        (* where the web task is in the request                          *)
  sent,      (* units of the file handed to the upload callback               *)
  data,      (* what write() has not put into the buffer yet                  *)
  caller,    (* who called _writeBuffer                                       *)
  resetting, (* the POST handler is about to restart the board                *)
  partition, size, progress, buffer, error,  (* fields of UpdateClass         *)
  mishaps,   (* history: "abandoned", a client left an upload; "unwritten",   *)
             (* end() went on to _verifyEnd with nothing written              *)
  hazards    (* counter of what went wrong                                    *)

request == <<images, sent, data, caller>>
updater == <<partition, size, progress, buffer, error>>
board   == <<parts, boot, running, resetting>>
vars    == <<request, updater, board, pc, mishaps, hazards>>

Partitions == {"app0", "app1"}
Other(p)   == CHOOSE q \in Partitions : q # p
Blank      == <<0, 0>>
Units      == (Nat \X Nat)
File       == Len(images)

TypeOK ==
  /\ images \in Seq([len : Nat, firmware : BOOLEAN])
  /\ parts \in [Partitions -> [magic : BOOLEAN, units : [0 .. SIZE - 1 -> Units]]]
  /\ {boot, running, partition} \subseteq Partitions
  /\ pc \in {"idle", "write", "fill", "erase", "program", "end", "enable", "select", "post"}
  /\ sent \in Nat /\ data \in Seq(Units) /\ caller \in {"write", "end"}
  /\ resetting \in BOOLEAN
  /\ size \in 0 .. SIZE /\ progress \in 0 .. SIZE /\ buffer \in Seq(Units)
  /\ error \in BOOLEAN
  /\ mishaps \subseteq {"abandoned", "unwritten"} /\ hazards \in 0 .. MaxHazards

(* The boot loader (and _partitionIsBootable) look at the magic byte.       *)
Bootable(p) == parts[p].magic

(* Partition p holds one of the files, from its first unit to its last.     *)
Holds(p, u) ==
  /\ images[u].firmware /\ images[u].len \in 1 .. SIZE
  /\ \A k \in 1 .. images[u].len : parts[p].units[k - 1] = <<u, k>>
Complete(p) == Bootable(p) /\ \E u \in DOMAIN images : Holds(p, u)

Init ==
  /\ images = <<[len |-> 1, firmware |-> TRUE]>>
  /\ parts = [p \in Partitions |->
                [magic |-> p = "app0",
                 units |-> [k \in 0 .. SIZE - 1 |->
                              IF p = "app0" /\ k = 0 THEN <<1, 1>> ELSE Blank]]]
  /\ boot = "app0" /\ running = "app0" /\ partition = "app0"
  /\ pc = "idle" /\ sent = 0 /\ data = <<>> /\ caller = "write"
  /\ resetting = FALSE
  /\ size = 0 /\ progress = 0 /\ buffer = <<>> /\ error = FALSE
  /\ mishaps = {} /\ hazards = 0

Strikes(h) == h \in Hazards /\ hazards < MaxHazards /\ hazards' = hazards + 1
Spared     == UNCHANGED hazards

(* _reset(); _abort is _reset with an error.                                *)
Emptied == size' = 0 /\ progress' = 0 /\ buffer' = <<>> /\ UNCHANGED partition
Abort   == Emptied /\ error' = TRUE

remaining == size - progress

(***************************************************************************)
(* The upload callback.                                                     *)
(***************************************************************************)

(* Mutant of Start: the partition after the selected one is written, which  *)
(* is the running one when an upload was not followed by a restart.         *)
StartOverSelected ==
  /\ pc = "idle" /\ Len(images) < MaxUploads + 1
  /\ \E f \in Files : images' = Append(images, f)
  /\ sent' = 0 /\ pc' = "write"
  /\ IF size > 0 THEN Spared /\ UNCHANGED updater
     ELSE /\ partition' = Other(boot)
          /\ progress' = 0 /\ buffer' = <<>> /\ error' = FALSE
          /\ \/ size' = SIZE /\ Spared
             \/ size' = 0 /\ Strikes("alloc")
  /\ UNCHANGED <<board, data, caller, mishaps>>

(* UPLOAD_FILE_START: Update.begin().  If an update is still running it     *)
(* fails without an error; its result is only printed.                      *)
Start ==
  /\ pc = "idle" /\ Len(images) < MaxUploads + 1
  /\ \E f \in Files : images' = Append(images, f)
  /\ sent' = 0 /\ pc' = "write"
  /\ IF size > 0 THEN Spared /\ UNCHANGED updater
     ELSE /\ partition' = Other(running)
          /\ progress' = 0 /\ buffer' = <<>> /\ error' = FALSE
          /\ \/ size' = SIZE /\ Spared
             \/ size' = 0 /\ Strikes("alloc")
  /\ UNCHANGED <<board, data, caller, mishaps>>

AfterWrite == IF sent' = images[File].len THEN "end" ELSE "write"

(* Mutant of Write: UPDATE_ERROR_SPACE is not checked.                      *)
WriteUnchecked ==
  /\ pc = "write"
  /\ LET left == images[File].len - sent
         n    == IF left > CHUNK THEN CHUNK ELSE left
     IN  /\ sent' = sent + n
         /\ IF error \/ size = 0 THEN pc' = AfterWrite /\ UNCHANGED data
            ELSE data' = [k \in 1 .. n |-> <<File, sent + k>>] /\ pc' = "fill"
  /\ caller' = "write"
  /\ UNCHANGED <<images, updater, board, mishaps, hazards>>

(* UPLOAD_FILE_WRITE: Update.write(upload.buf, upload.currentSize), up to   *)
(* its copy loop.  The last call brings what is left of the file.           *)
Write ==
  /\ pc = "write"
  /\ LET left == images[File].len - sent
         n    == IF left > CHUNK THEN CHUNK ELSE left
     IN  /\ sent' = sent + n
         /\ \/ /\ error \/ size = 0
               /\ pc' = AfterWrite
               /\ UNCHANGED <<data, updater>>
            \/ /\ ~error /\ size > 0 /\ n > remaining
               /\ Abort /\ pc' = AfterWrite
               /\ UNCHANGED data
            \/ /\ ~error /\ size > 0 /\ n <= remaining
               /\ data' = [k \in 1 .. n |-> <<File, sent + k>>]
               /\ pc' = "fill"
               /\ UNCHANGED updater
  /\ caller' = "write"
  /\ UNCHANGED <<images, board, mishaps, hazards>>

(* Mutant of Fill: a buffer that reaches the end of the partition waits.    *)
FillWithoutFlush ==
  /\ pc = "fill"
  /\ LET room == SECTOR - Len(buffer)
     IN  IF Len(data) > room
         THEN /\ buffer' = buffer \o SubSeq(data, 1, room)
              /\ data' = SubSeq(data, room + 1, Len(data))
              /\ pc' = "erase"
         ELSE /\ buffer' = buffer \o data
              /\ data' = <<>>
              /\ pc' = IF sent = images[File].len THEN "end" ELSE "write"
  /\ UNCHANGED <<images, sent, caller, board, partition, size, progress, error, mishaps, hazards>>

(* One turn of the copy loop: a buffer that would overflow is written.      *)
Fill ==
  /\ pc = "fill"
  /\ LET room == SECTOR - Len(buffer)
     IN  IF Len(data) > room
         THEN /\ buffer' = buffer \o SubSeq(data, 1, room)
              /\ data' = SubSeq(data, room + 1, Len(data))
              /\ pc' = "erase"
         ELSE /\ buffer' = buffer \o data
              /\ data' = <<>>
              /\ pc' = IF Len(buffer') = remaining THEN "erase"
                       ELSE IF sent = images[File].len THEN "end" ELSE "write"
  /\ UNCHANGED <<images, sent, caller, board, partition, size, progress, error, mishaps, hazards>>

(***************************************************************************)
(* _writeBuffer.  It returns to the copy loop, to the end of write(), or to *)
(* end(), which ignores what it returned.                                   *)
(***************************************************************************)

Return(ok) ==
  /\ pc' = IF caller = "end" THEN "enable"
           ELSE IF ok /\ data # <<>> THEN "fill"
           ELSE IF sent = images[File].len THEN "end" ELSE "write"
  /\ data' = IF ok THEN data ELSE <<>>
  /\ UNCHANGED <<images, sent, caller>>

(* The magic byte of the first unit is checked, then the sector is erased.  *)
StartsWithMagic == buffer[1][2] = 1 /\ images[buffer[1][1]].firmware

Sector(a) == {k \in 0 .. SIZE - 1 : k \div SECTOR = a \div SECTOR}

Erase ==
  /\ pc = "erase"
  /\ \/ /\ progress = 0 /\ ~StartsWithMagic
        /\ Abort /\ Return(FALSE) /\ Spared
        /\ UNCHANGED parts
     \/ /\ progress = 0 => StartsWithMagic
        /\ \/ /\ parts' = [parts EXCEPT ![partition] =
                    [magic |-> @.magic /\ progress # 0,
                     units |-> [k \in 0 .. SIZE - 1 |->
                                  IF k \in Sector(progress) THEN Blank ELSE @.units[k]]]]
              /\ pc' = "program" /\ Spared
              /\ UNCHANGED <<request, updater>>
           \/ /\ Strikes("erase")
              /\ Abort /\ Return(FALSE)
              /\ UNCHANGED parts
  /\ UNCHANGED <<boot, running, resetting, mishaps>>

(* Mutant of Program: the magic byte is not held back.                      *)
ProgramWithMagic ==
  /\ pc = "program"
  /\ parts' = [parts EXCEPT ![partition] =
       [magic |-> TRUE,
        units |-> [k \in 0 .. SIZE - 1 |->
                     IF k \in progress .. progress + Len(buffer) - 1
                     THEN buffer[k - progress + 1] ELSE @.units[k]]]]
  /\ progress' = progress + Len(buffer) /\ buffer' = <<>>
  /\ Return(TRUE)
  /\ UNCHANGED <<partition, size, error, boot, running, resetting, mishaps, hazards>>

(* The buffer goes to Flash, the first byte of the image as 0xFF.           *)
Program ==
  /\ pc = "program"
  /\ \/ /\ parts' = [parts EXCEPT ![partition].units =
              [k \in 0 .. SIZE - 1 |->
                 IF k \in progress .. progress + Len(buffer) - 1
                 THEN buffer[k - progress + 1] ELSE @[k]]]
        /\ progress' = progress + Len(buffer) /\ buffer' = <<>>
        /\ UNCHANGED <<partition, size, error>>
        /\ Return(TRUE) /\ Spared
     \/ /\ Strikes("program")
        /\ Abort /\ Return(FALSE)
        /\ UNCHANGED parts
  /\ UNCHANGED <<boot, running, resetting, mishaps>>

(***************************************************************************)
(* UPLOAD_FILE_END: Update.end(true), then the POST handler.                *)
(***************************************************************************)

End ==
  /\ pc = "end"
  /\ pc' = IF error \/ size = 0 THEN "post"
           ELSE IF buffer # <<>> THEN "erase" ELSE "enable"
  /\ caller' = "end"
  /\ UNCHANGED <<images, sent, data, updater, board, mishaps, hazards>>

(* _verifyEnd: _enablePartition writes the magic byte ...                   *)
Enable ==
  /\ pc = "enable"
  /\ \/ /\ parts' = [parts EXCEPT ![partition].magic = TRUE]
        /\ size' = progress
        /\ UNCHANGED <<partition, progress, buffer, error>>
        /\ pc' = "select" /\ Spared
     \/ /\ Strikes("enable")
        /\ Abort /\ pc' = "post"
        /\ UNCHANGED parts
  /\ mishaps' = mishaps \cup {m \in {"unwritten"} : progress = 0}
  /\ UNCHANGED <<request, boot, running, resetting>>

(* Mutant of Select: no _reset() when the update has succeeded.             *)
SelectWithoutReset ==
  /\ pc = "select"
  /\ boot' = partition
  /\ pc' = "post"
  /\ UNCHANGED <<request, updater, parts, running, resetting, mishaps, hazards>>

(* ... and esp_ota_set_boot_partition makes the partition the next to boot. *)
Select ==
  /\ pc = "select"
  /\ \/ boot' = partition /\ Emptied /\ Spared /\ UNCHANGED error
     \/ Strikes("activate") /\ Abort /\ UNCHANGED boot
  /\ pc' = "post"
  /\ UNCHANGED <<request, parts, running, resetting, mishaps>>

(* The POST handler restarts the board unless err is set.  err is a local   *)
(* of setupWebLocalUpdate captured by reference: when the handler runs that *)
(* frame is gone, and any value can be read.  A POST without a file gets to *)
(* the handler directly.                                                    *)
Post ==
  /\ pc \in {"idle", "post"}
  /\ pc' = "idle"
  /\ \E err \in BOOLEAN : resetting' = (resetting \/ ~err)
  /\ UNCHANGED <<request, updater, parts, boot, running, mishaps, hazards>>

(* The client goes away during the upload: UPLOAD_FILE_ABORTED, which the   *)
(* callback does not handle; the POST handler is not called.                *)
Disconnect ==
  /\ pc = "write" /\ Strikes("disconnect")
  /\ pc' = "idle"
  /\ mishaps' = mishaps \cup {"abandoned"}
  /\ UNCHANGED <<request, updater, board>>

(***************************************************************************)
(* Restarts.  The boot loader falls back on the other partition when the    *)
(* selected one does not start with the magic byte.                         *)
(***************************************************************************)
Boot ==
  /\ running' = IF Bootable(boot) THEN boot ELSE Other(boot)
  /\ pc' = "idle" /\ resetting' = FALSE
  /\ sent' = 0 /\ data' = <<>> /\ caller' = "write"
  /\ Emptied /\ error' = FALSE
  /\ UNCHANGED <<images, parts, boot, mishaps>>

(* Nefry.reset(), after the ten requests the POST handler still serves.     *)
Reset    == resetting /\ pc = "idle" /\ Boot /\ Spared
PowerCut == Strikes("power") /\ Boot

Next ==
  \/ Start \/ Write \/ Fill \/ Erase \/ Program \/ End \/ Enable \/ Select \/ Post
  \/ Disconnect \/ Reset \/ PowerCut

Spec == Init /\ [][Next]_vars

(***************************************************************************)
(* Properties.                                                             *)
(***************************************************************************)

(* A partition that starts with the magic byte holds a complete image: the  *)
(* promise of Updater.cpp:181-182, "partially written firmware will not be  *)
(* bootable" (the byte is held back by _writeBuffer until _verifyEnd).      *)
PartialNotBootable == \A p \in Partitions : Bootable(p) => Complete(p)

(* It is broken in two ways only: the next file is appended to an upload    *)
(* that a client left, and end() ignores that nothing was written.          *)
PartialHasCause == mishaps = {} => PartialNotBootable

(* In any case the partition the board runs from is complete until then,    *)
(* whatever the moment of a cut: begin() writes to the other partition and  *)
(* the boot selection moves only after the last write.                      *)
RunsComplete == mishaps = {} => Complete(running)

(* Between two requests no update is left running, so that begin() does not *)
(* refuse the next file: end() and _abort reset the UpdateClass whatever    *)
(* step of an upload failed, unless its client left.                        *)
ReadyForNext == pc = "idle" /\ "abandoned" \notin mishaps => size = 0 /\ buffer = <<>>

(* Whatever fails, the board can start: it runs from a partition that has   *)
(* the magic byte, although a rewritten boot selection may have lost it.    *)
NeverBricked == Bootable(running)

(* Nothing is written past the end of the partition, although remaining()   *)
(* does not count the buffer: write() flushes at the last sector.           *)
InPartition == progress + Len(buffer) <= SIZE

(* The fields of UpdateClass between the steps of a request: _reset() clears *)
(* them together, the copy loop of write() runs for an update only, and     *)
(* end() leaves nothing in the buffer.                                      *)
Framed ==
  /\ error => size = 0
  /\ size = 0 => progress = 0 /\ buffer = <<>>
  /\ pc # "select" => size \in {0, SIZE}
  /\ pc \in {"fill", "erase", "program"} => size = SIZE
  /\ pc \notin {"fill", "erase", "program"} => data = <<>>
  /\ pc \in {"enable", "select"} => buffer = <<>>
  /\ pc \in {"enable", "select"} => caller = "end"
  /\ pc = "fill" => caller = "write"
  /\ caller = "end" => data = <<>>

(* The buffer is written when it holds a sector or all that remains, so the *)
(* next unit in Flash starts a sector and the file never passes the end.    *)
Aligned ==
  /\ Len(buffer) <= SECTOR /\ Len(data) <= CHUNK
  /\ progress + Len(buffer) + Len(data) <= SIZE
  /\ pc \notin {"enable", "select"} => progress % SECTOR = 0
  /\ pc \in {"idle", "write", "fill"} => Len(buffer) % CHUNK = 0
  /\ pc \in {"idle", "write"} /\ size > 0 => Len(buffer) < remaining \/ remaining = 0
  /\ data # <<>> => Len(data) = CHUNK \/ sent = images[File].len
  /\ pc \in {"erase", "program"} /\ caller = "write" => Len(buffer) \in {SECTOR, remaining}
  /\ pc \in {"erase", "program"} /\ caller = "end" => Len(buffer) > 0

(* A request writes to the partition that does not run, and comes to end()  *)
(* with the whole file.                                                     *)
InTurn ==
  /\ images # <<>>
  /\ pc \notin {"idle", "post"} \/ size > 0 => partition # running
  /\ pc = "post" => size = 0
  /\ pc \notin {"idle", "post"} => sent <= images[File].len
  /\ pc \in {"erase", "program"} /\ caller = "end" => sent = images[File].len
  /\ pc \in {"end", "enable", "select"} => sent = images[File].len

(* What has come of a file is in Flash, in the buffer or before the copy    *)
(* loop, in this order; the partition cannot be booted until all of it is.  *)
Copied ==
  mishaps = {} /\ size > 0 =>
    /\ progress + Len(buffer) + Len(data) = sent
    /\ \A k \in 1 .. progress : parts[partition].units[k - 1] = <<File, k>>
    /\ \A k \in 1 .. Len(buffer) : buffer[k] = <<File, progress + k>>
    /\ \A k \in 1 .. Len(data) : data[k] = <<File, progress + Len(buffer) + k>>
    /\ progress > 0 \/ pc = "program" => images[File].firmware
    /\ (progress > 0 /\ pc # "select") \/ pc = "program" => ~parts[partition].magic

(* What holds of the fields of UpdateClass and the partitions at every      *)
(* step, whatever fails.                                                    *)
UpdateInv == TypeOK /\ InPartition /\ Framed /\ Aligned /\ InTurn /\ Copied

(* The partition the board runs from is not written while it runs, even     *)
(* when an upload starts before the restart that the previous one asked for.*)
RunningUntouched == [][running' = running => parts'[running] = parts[running]]_vars

=============================================================================
