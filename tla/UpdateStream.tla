----------------------------- MODULE UpdateStream -----------------------------
(***************************************************************************)
(* Updates from a stream, Updater.cpp and Update.h: writeStream() and the   *)
(* write() for objects with available(), with the size and the MD5 the      *)
(* sketch announces, end(), and the way back to the other application by    *)
(* rollBack().  Data is counted in units; a file is what the stream gives,  *)
(* its first units the image that is announced.  ESP-IDF is external.       *)
(***************************************************************************)
EXTENDS Integers, Sequences

CONSTANTS
  SECTOR,      (* units in a Flash sector, SPI_FLASH_SEC_SIZE                *)
  SIZE,        (* units in a partition                                       *)
  FLASH,       (* units from the start of a partition to the end of the next *)
  Streams,     (* what may be sent: [len, image, firmware], the units sent,  *)
               (* the size announced, and whether it starts with the magic   *)
               (* byte                                                       *)
  MaxStreams, MaxUpdateCalls, MaxUpdateFaults (* bounds                      *)

(* size_t wraps below zero, here at a bound that no Flash reaches (2^30).   *)
SIZE_T == 1073741824

ASSUME StreamAssumption ==
  /\ SECTOR \in Nat \ {0} /\ SIZE \in Nat \ {0} /\ SIZE % SECTOR = 0
  /\ FLASH \in Nat /\ FLASH > SIZE /\ FLASH + SECTOR < SIZE_T
  /\ Streams \subseteq [len : 1 .. FLASH - SIZE, image : Nat \ {0}, firmware : BOOLEAN]
  /\ MaxStreams \in Nat /\ MaxUpdateCalls \in Nat /\ MaxUpdateFaults \in Nat

UpdateCommands == {"U_FLASH", "U_SPIFFS"}
Mishaps        == {"erase", "program", "enable", "activate"}
NoMD5          == <<>>

VARIABLES
  streams,      (* the streams updates were begun with; the last one is read *)
  unitsRead,    (* units read of it                                          *)
  inStream,     (* the sketch is in writeStream(): "no", "yes", or "late"    *)
                (* after a read that has timed out                           *)
  updater,      (* fields of UpdateClass                                     *)
  flash,        (* flash[c]: the partition for c, its units and those behind *)
                (* it, and whether it starts with the magic byte             *)
  bootOther,    (* the boot loader is told to start the other application    *)
  excuses,      (* history: "unchecked", end(true) was called with no MD5 to *)
                (* compare; "over", write() with more when nothing remained; *)
                (* "longer", writeStream() with more than what remained      *)
  updateCalls, updateFaults

streamVars == <<streams, unitsRead, inStream, updater, flash, bootOther, excuses,
                updateCalls, updateFaults>>

FileUnits(f, n) == [k \in 1 .. n |-> <<f, k>>]
OldFile         == [len |-> 1, image |-> 1, firmware |-> TRUE]
FileOf(f)       == IF f = 0 THEN OldFile ELSE streams[f]

StreamTypeOK ==
  /\ streams \in Seq(Streams) /\ unitsRead \in Nat /\ inStream \in {"no", "yes", "late"}
  /\ updater.size \in 0 .. SIZE + SECTOR /\ updater.progress \in 0 .. FLASH
  /\ updater.command \in UpdateCommands /\ updater.partition \in UpdateCommands
  /\ updater.error \in BOOLEAN /\ Len(updater.buffer) <= SECTOR
  /\ flash \in [UpdateCommands -> [magic : BOOLEAN, units : [0 .. FLASH - 1 -> Nat \X Nat]]]
  /\ bootOther \in BOOLEAN /\ excuses \subseteq {"unchecked", "over", "longer"}

StreamInit ==
  /\ streams = <<>> /\ unitsRead = 0 /\ inStream = "no"
  /\ updater = [size |-> 0, progress |-> 0, buffer |-> <<>>, error |-> FALSE,
                command |-> "U_FLASH", partition |-> "U_FLASH",
                added |-> <<>>, target |-> NoMD5]
  /\ flash = [c \in UpdateCommands |->
                [magic |-> c = "U_FLASH",
                 units |-> [k \in 0 .. FLASH - 1 |-> <<0, k + 1>>]]]
  /\ bootOther = FALSE /\ excuses = {}
  /\ updateCalls = 0 /\ updateFaults = 0

Struck(mishap) ==
  /\ mishap = "none" \/ updateFaults < MaxUpdateFaults
  /\ updateFaults' = updateFaults + (IF mishap = "none" THEN 0 ELSE 1)

UpdateCall ==
  /\ inStream = "no" /\ updateCalls < MaxUpdateCalls /\ updateCalls' = updateCalls + 1

(***************************************************************************)
(* Helpers of the class: each gives what becomes of its fields and of Flash.*)
(***************************************************************************)
(* Mutant of Reset: the update counts on.                                   *)
ResetButProgress(u) == [u EXCEPT !.size = 0, !.buffer = <<>>, !.command = "U_FLASH"]

Reset(u)   == [u EXCEPT !.size = 0, !.progress = 0, !.buffer = <<>>, !.command = "U_FLASH"]
Aborted(u) == [Reset(u) EXCEPT !.error = TRUE]

remainingOf(u) == (u.size - u.progress) % SIZE_T

IsMagic(unit) == unit[2] = 1 /\ FileOf(unit[1]).firmware

SectorAt(a) == {k \in 0 .. FLASH - 1 : k \div SECTOR = a \div SECTOR}

ErasedAt(p, a) ==
  [magic |-> p.magic /\ 0 \notin SectorAt(a),
   units |-> [k \in 0 .. FLASH - 1 |-> IF k \in SectorAt(a) THEN <<0, 0>> ELSE p.units[k]]]

ProgrammedAt(p, a, b) ==
  [p EXCEPT !.units = [k \in 0 .. FLASH - 1 |->
                         IF k \in a .. a + Len(b) - 1 THEN b[k - a + 1] ELSE @[k]]]

(* _writeBuffer(): the magic byte is checked and held back until the end.   *)
(* A written buffer is added to the MD5.                                    *)
WriteBuffer(u, mishap) ==
  LET erased == ErasedAt(flash[u.partition], u.progress)
      now(p) == [flash EXCEPT ![u.partition] = p]
  IN  IF mishap = "erase" \/ (u.progress = 0 /\ u.command = "U_FLASH" /\ ~IsMagic(u.buffer[1]))
      THEN [u |-> Aborted(u), flash |-> flash]
      ELSE IF mishap = "program" THEN [u |-> Aborted(u), flash |-> now(erased)]
      ELSE [u |-> [u EXCEPT !.progress = @ + Len(u.buffer), !.buffer = <<>>,
                            !.added = @ \o u.buffer],
            flash |-> now(ProgrammedAt(erased, u.progress, u.buffer))]

(***************************************************************************)
(* begin(size, command) for the image of stream s, and setMD5.  The MD5 of  *)
(* the update before stays.                                                 *)
(***************************************************************************)
beginUpdate(s, command) ==
  /\ UpdateCall /\ Len(streams) < MaxStreams /\ updater.size = 0
  /\ streams' = Append(streams, s) /\ unitsRead' = 0
  /\ updater' = [Reset(updater) EXCEPT
       !.error = s.image > SIZE, !.partition = command, !.added = <<>>,
       !.size = IF s.image > SIZE THEN 0 ELSE s.image,
       !.command = IF s.image > SIZE THEN "U_FLASH" ELSE command]
  /\ UNCHANGED <<inStream, flash, bootOther, excuses, updateFaults>>

setMD5 ==
  /\ UpdateCall /\ streams # <<>>
  /\ updater' = [updater EXCEPT !.target = FileUnits(Len(streams), streams[Len(streams)].image)]
  /\ UNCHANGED <<streams, unitsRead, inStream, flash, bootOther, excuses, updateFaults>>

abortUpdate ==
  /\ UpdateCall /\ updater' = Aborted(updater)
  /\ UNCHANGED <<streams, unitsRead, inStream, flash, bootOther, excuses, updateFaults>>

Running    == ~updater.error /\ updater.size > 0
LeftToRead == streams[Len(streams)].len - unitsRead
TakeUnits(n) == [k \in 1 .. n |-> <<Len(streams), unitsRead + k>>]

(* Puts n units behind the buffer, which is written when full says so.      *)
ReceiveUnits(n, full(_), mishap) ==
  LET u == [updater EXCEPT !.buffer = @ \o TakeUnits(n)]
      w == IF full(Len(u.buffer)) THEN WriteBuffer(u, mishap) ELSE [u |-> u, flash |-> flash]
  IN  /\ full(Len(u.buffer)) \/ mishap = "none"
      /\ Struck(mishap)
      /\ unitsRead' = unitsRead + n /\ updater' = w.u /\ flash' = w.flash

(***************************************************************************)
(* writeStream().  The byte that comes next must be the magic byte, and     *)
(* have come.  It reads until nothing remains; a read returns what comes    *)
(* before its timeout, and the second one in a row without anything ends it.*)
(***************************************************************************)
_verifyHeader(come) ==
  updater.command = "U_SPIFFS" \/ (come /\ LeftToRead > 0 /\ IsMagic(TakeUnits(1)[1]))

writeStream(come) ==
  /\ UpdateCall /\ Running
  /\ IF _verifyHeader(come)
     THEN inStream' = (IF remainingOf(updater) # 0 THEN "yes" ELSE "no") /\ UNCHANGED updater
     ELSE updater' = Aborted(updater) /\ UNCHANGED inStream
  /\ excuses' = excuses \cup
                 (IF LeftToRead + Len(updater.buffer) > remainingOf(updater) THEN {"longer"} ELSE {})
  /\ UNCHANGED <<streams, unitsRead, flash, bootOther, updateFaults>>

NothingRead ==
  /\ IF inStream = "late" THEN updater' = Aborted(updater) /\ inStream' = "no"
                         ELSE inStream' = "late" /\ UNCHANGED updater
  /\ UNCHANGED <<unitsRead, flash, updateFaults>>

FullBuffer(n) == n = remainingOf(updater) \/ n = SECTOR

readStream(n, mishap) ==
  /\ inStream # "no"
  /\ n <= LeftToRead /\ n <= SECTOR - Len(updater.buffer)
  /\ IF n = 0 THEN mishap = "none" /\ NothingRead
     ELSE /\ ReceiveUnits(n, FullBuffer, mishap)
          /\ inStream' = IF updater'.error \/ remainingOf(updater') = 0 THEN "no" ELSE "yes"
  /\ UNCHANGED <<streams, bootOther, excuses, updateCalls>>

(***************************************************************************)
(* write(T &data), one turn of its loop: as much as is there, up to the   *)
(* announced size and to a full buffer, which is written when more comes.   *)
(***************************************************************************)
(* Mutant of Takes: what is available is taken, the announced size or not.  *)
TakesAll(ready) == ready

Takes(ready) ==
  IF Len(updater.buffer) + ready > remainingOf(updater)
  THEN remainingOf(updater) - Len(updater.buffer) ELSE ready

writeAvailable(ready, mishap) ==
  LET n        == Takes(ready)
      over     == Len(updater.buffer) + n > SECTOR
      full(len) == over \/ len = remainingOf(updater)
  IN  /\ UpdateCall /\ Running /\ ready \in 1 .. LeftToRead
      /\ ReceiveUnits(IF over THEN SECTOR - Len(updater.buffer) ELSE n, full, mishap)
      /\ excuses' = excuses \cup (IF remainingOf(updater) = 0 THEN {"over"} ELSE {})
      /\ UNCHANGED <<streams, inStream, bootOther>>

(***************************************************************************)
(* end(evenIfRemaining): its last buffer is written, whether that succeeds  *)
(* or not, and the size becomes what was written.  _verifyEnd then writes   *)
(* the magic byte and selects the partition, which ESP-IDF refuses for one  *)
(* that holds no application.                                               *)
(***************************************************************************)
(* Mutant of VerifyEnd: an image for SPIFFS is withMagic as well.             *)
VerifyEndAny(u, f, mishap) ==
  [u |-> Reset(u), flash |-> [f EXCEPT ![u.partition].magic = TRUE], boot |-> TRUE]

VerifyEnd(u, f, mishap) ==
  LET withMagic == [f EXCEPT ![u.partition].magic = TRUE]
  IN  CASE u.command = "U_SPIFFS" -> [u |-> Reset(u), flash |-> f, boot |-> FALSE]
        [] u.command = "U_FLASH" /\ mishap = "enable" ->
             [u |-> Aborted(u), flash |-> f, boot |-> FALSE]
        [] u.command = "U_FLASH" /\ mishap # "enable" ->
             LET refused == u.partition = "U_SPIFFS" \/ mishap = "activate"
             IN  [u |-> IF refused THEN Aborted(u) ELSE Reset(u),
                  flash |-> withMagic, boot |-> ~refused]

(* Mutant of MD5Fits: an MD5 that was not compared is none.                 *)
MD5FitsAny(u) == TRUE

MD5Fits(u) == u.target = NoMD5 \/ u.added = u.target

endUpdate(evenIfRemaining, mishap) ==
  LET w == IF evenIfRemaining /\ updater.buffer # <<>> THEN WriteBuffer(updater, mishap)
           ELSE [u |-> updater, flash |-> flash]
      u == IF evenIfRemaining THEN [w.u EXCEPT !.size = w.u.progress] ELSE w.u
      v == IF (~evenIfRemaining /\ u.progress # u.size) \/ ~MD5Fits(u)
           THEN [u |-> Aborted(u), flash |-> w.flash, boot |-> FALSE]
           ELSE VerifyEnd(u, w.flash, mishap)
  IN  /\ UpdateCall /\ Running /\ Struck(mishap)
      /\ updater' = v.u /\ flash' = v.flash /\ bootOther' = (bootOther \/ v.boot)
      /\ excuses' = excuses \cup
                     (IF evenIfRemaining /\ updater.target = NoMD5 THEN {"unchecked"} ELSE {})
      /\ UNCHANGED <<streams, unitsRead, inStream>>

(* canRollBack() and rollBack(), not while an update runs.                  *)
canRollBack == updater.size = 0 /\ flash["U_FLASH"].magic

rollBack ==
  /\ UpdateCall /\ canRollBack /\ bootOther' = TRUE
  /\ UNCHANGED <<streams, unitsRead, inStream, updater, flash, excuses, updateFaults>>

StreamNext ==
  \/ \E s \in Streams, c \in UpdateCommands : beginUpdate(s, c)
  \/ setMD5 \/ abortUpdate \/ rollBack
  \/ \E come \in BOOLEAN : writeStream(come)
  \/ \E mishap \in {"none"} \cup Mishaps :
       \/ \E n \in 0 .. FLASH : readStream(n, mishap) \/ writeAvailable(n, mishap)
       \/ \E even \in BOOLEAN : endUpdate(even, mishap)

StreamSpec == StreamInit /\ [][StreamNext]_streamVars

(***************************************************************************)
(* Properties.                                                              *)
(***************************************************************************)

HoldsImage(f) ==
  /\ FileOf(f).firmware
  /\ \A k \in 1 .. FileOf(f).image : flash["U_FLASH"].units[k - 1] = <<f, k>>

(* The other application can be started, by end() or by rollBack(), only    *)
(* while its partition holds all of an image; what an update has left half  *)
(* written cannot, whichever step failed.  end(true) without an MD5 takes   *)
(* what is there for all of it (Updater.cpp:252-266), and write() with more *)
(* data when all is written erases the last sector again (Update.h:128-133).*)
StartsWholeImage ==
  excuses \cap {"unchecked", "over"} = {} =>
    /\ canRollBack => \E f \in 0 .. Len(streams) : HoldsImage(f)
    /\ ~flash["U_SPIFFS"].magic

(* Of the stream no unit is lost, doubled or moved, whichever calls bring   *)
(* it: what was written, what waits in the buffer and what is still to be   *)
(* read follow each other, and the MD5 has seen what was written.           *)
StreamInOrder ==
  Running /\ "over" \notin excuses =>
    LET file == Len(streams)
        p    == updater.progress
    IN  /\ unitsRead = p + Len(updater.buffer)
        /\ updater.added = FileUnits(file, p)
        /\ updater.added \o updater.buffer = FileUnits(file, unitsRead)
        /\ \A k \in 0 .. p - 1 : flash[updater.partition].units[k] = <<file, k + 1>>

(* An update stays within the announced size and thus in its partition,     *)
(* unless writeStream() reads a stream that is longer: it fills the buffer  *)
(* to the sector (Updater.cpp:319).                                         *)
StaysInSize ==
  excuses \cap {"over", "longer"} = {} =>
    /\ updater.progress + Len(updater.buffer) <= updater.size
    /\ \A c \in UpdateCommands : \A k \in SIZE .. FLASH - 1 : flash[c].units[k] = <<0, k + 1>>

(* All of it.                                                               *)
UpdateStreamInv == StreamTypeOK /\ StartsWholeImage /\ StreamInOrder /\ StaysInSize
=============================================================================
