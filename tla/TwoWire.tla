------------------------------- MODULE TwoWire -------------------------------
(***************************************************************************)
(* The I2C bus as a sketch uses it, Wire.cpp: transmissions that end        *)
(* without a stop are queued, as pointers into the buffers of the class,    *)
(* and go over the wire with the next one that ends with a stop.  The       *)
(* driver (esp32-hal-i2c) is external.                                      *)
(***************************************************************************)
EXTENDS Integers, Sequences

CONSTANTS
  I2C_BUFFER_LENGTH,   (* 128 in the code                                    *)
  ReadSizes,           (* sizes of the reads                                 *)
  MaxBytes,            (* bound: bytes the sketch writes                     *)
  MaxRequests,         (* bound: requests, ends of transmissions and begins  *)
  WirePins             (* pins a sketch names                                 *)

ASSUME WireAssumption ==
  /\ I2C_BUFFER_LENGTH \in Nat \ {0} /\ ReadSizes \subseteq Nat
  /\ MaxBytes \in Nat /\ MaxRequests \in Nat
  /\ WirePins \subseteq Nat

(* Bytes are told apart: those the sketch writes by their number, those of  *)
(* a device by the number of the request and their place.                   *)
Slots   == 0 .. I2C_BUFFER_LENGTH - 1
Nowhere == <<0, 0>>

(* No pin, and the default pins of the first bus.                           *)
Unwired == -1
SDA   == 21
SCL   == 22

VARIABLES
  num,         (* the bus, 0 or 1                                            *)
  wires,       (* wires[wire]: the pins sda and scl                          *)
  i2c,         (* the driver of the bus has been started                     *)
  txBuffer, txIndex, txLength, txQueued,
  rxBuffer, rxIndex, rxLength, rxQueued,
  transmitting,
  queued,      (* external: the transactions that wait for a stop            *)
  madeBytes, requests,
  wanted,      (* history: the bytes written since beginTransmission         *)
  onWire,      (* history: [want, got] of the writes among the transactions  *)
               (* that went over the wire last                               *)
  answer,      (* history: <<the bytes the last request has brought that the *)
               (* sketch has not read>>, or <<>> without such a request      *)
  mislaid      (* history: a request without a stop, or within a             *)
               (* transmission, came since the queue was last empty          *)

tx       == <<txBuffer, txIndex, txLength, txQueued>>
rx       == <<rxBuffer, rxIndex, rxLength, rxQueued>>
bus      == <<num, wires, i2c>>
wireVars == <<bus, tx, rx, transmitting, queued, madeBytes, requests, wanted, onWire, answer, mislaid>>

WireTypeOK ==
  /\ num \in {0, 1} /\ i2c \in BOOLEAN
  /\ wires \in [{"sda", "scl"} -> WirePins \cup {Unwired, SDA, SCL}]
  /\ txBuffer \in [Slots -> 0 .. MaxBytes] /\ rxBuffer \in [Slots -> (0 .. MaxRequests) \X Nat]
  /\ {txIndex, txLength, txQueued} \subseteq 0 .. I2C_BUFFER_LENGTH
  /\ {rxIndex, rxLength, rxQueued} \subseteq 0 .. I2C_BUFFER_LENGTH
  /\ transmitting \in BOOLEAN /\ mislaid \in BOOLEAN
  /\ madeBytes \in 0 .. MaxBytes /\ requests \in 0 .. MaxRequests

WireInit ==
  /\ num \in {0, 1} /\ wires = [wire \in {"sda", "scl"} |-> Unwired] /\ i2c = FALSE
  /\ txBuffer = [i \in Slots |-> 0] /\ txIndex = 0 /\ txLength = 0 /\ txQueued = 0
  /\ rxBuffer = [i \in Slots |-> Nowhere] /\ rxIndex = 0 /\ rxLength = 0 /\ rxQueued = 0
  /\ transmitting = FALSE /\ queued = <<>> /\ madeBytes = 0 /\ requests = 0
  /\ wanted = <<>> /\ onWire = {} /\ answer = <<>> /\ mislaid = FALSE

Request == requests < MaxRequests /\ requests' = requests + 1

(***************************************************************************)
(* The driver.  Without a stop it takes the transaction into its queue;     *)
(* with one it sends all of them, or fails and drops them; before begin()   *)
(* has started it everything fails, as with a stop.                         *)
(***************************************************************************)
WriteOf(from, length, want) == [kind |-> "write", from |-> from, length |-> length, want |-> want]
ReadOf(from, length)        == [kind |-> "read", from |-> from, length |-> length, want |-> <<>>]

Inside(item, i) == i \in item.from .. item.from + item.length - 1

(* The bytes of a write, as they are in the buffer when it goes out.        *)
Outgoing(item) == [i \in 1 .. item.length |-> txBuffer[item.from + i - 1]]

Carry(items, ok) ==
  /\ queued' = <<>>
  /\ onWire' = IF ~ok THEN {} ELSE
       {[want |-> items[k].want, got |-> Outgoing(items[k])] : k \in {j \in DOMAIN items : items[j].kind = "write"}}
  /\ rxBuffer' = IF ~ok THEN rxBuffer ELSE
       [i \in Slots |-> IF \E k \in DOMAIN items : items[k].kind = "read" /\ Inside(items[k], i)
                        THEN <<requests', i>> ELSE rxBuffer[i]]

Enqueue(item) == queued' = Append(queued, item) /\ UNCHANGED <<onWire, rxBuffer>>

(***************************************************************************)
(* TwoWire.                                                                 *)
(***************************************************************************)
(* flush(), and i2cFlush of the driver.                                     *)
flush ==
  /\ rxIndex' = 0 /\ rxLength' = 0 /\ rxQueued' = 0
  /\ txIndex' = 0 /\ txLength' = 0 /\ txQueued' = 0
  /\ queued' = <<>> /\ onWire' = {}
  /\ UNCHANGED <<txBuffer, rxBuffer>>

(* Mutant of PinOf: the second bus takes the default pins as well.          *)
PinOfAny(named, wire) ==
  IF named # Unwired THEN named
  ELSE IF wires[wire] # Unwired THEN wires[wire]
  ELSE IF wire = "sda" THEN SDA ELSE SCL

(* The pin begin() takes: the one it names, the one before, the default of  *)
(* the first bus.                                                           *)
PinOf(named, wire) ==
  CASE named # Unwired -> named
    [] named = Unwired /\ wires[wire] # Unwired -> wires[wire]
    [] named = Unwired /\ wires[wire] = Unwired /\ num = 0 -> IF wire = "sda" THEN SDA ELSE SCL
    [] OTHER -> Unwired

(* Mutant of PinsKnown: only the first pin is looked at.                    *)
PinsKnownFirst(chosen) == chosen["sda"] # Unwired

PinsKnown(chosen) == \A wire \in DOMAIN wires : chosen[wire] # Unwired

(* begin(): the second bus returns without pins of its own.  The pins are   *)
(* kept when the driver does not start, and transmitting whatever happens.  *)
begin(named, ok) ==
  LET chosen == [wire \in DOMAIN wires |-> PinOf(named[wire], wire)]
  IN  /\ Request
      /\ PinsKnown(chosen)
      /\ wires' = chosen /\ i2c' = ok
      /\ IF ok THEN flush ELSE queued' = <<>> /\ onWire' = {} /\ UNCHANGED <<tx, rx>>
      /\ wanted' = <<>> /\ answer' = <<>> /\ mislaid' = (mislaid \/ transmitting)
      /\ UNCHANGED <<num, transmitting, madeBytes>>

(* Mutant of NextFree: a transmission begins at the start of the buffer.    *)
NextFreeIsFirst == 0

NextFree == txQueued

beginTransmission ==
  /\ transmitting' = TRUE
  /\ txIndex' = NextFree /\ txLength' = NextFree
  /\ wanted' = <<>> /\ onWire' = {} /\ mislaid' = (mislaid /\ queued # <<>>)
  /\ UNCHANGED <<bus, txBuffer, txQueued, rx, queued, madeBytes, requests, answer>>

(* Mutant of HasRoom: the byte behind the end is written, too.              *)
HasRoomAlways == TRUE

HasRoom == txLength < I2C_BUFFER_LENGTH

writeByte ==
  /\ transmitting /\ HasRoom /\ madeBytes < MaxBytes /\ madeBytes' = madeBytes + 1
  /\ txBuffer' = [txBuffer EXCEPT ![txIndex] = madeBytes']
  /\ txIndex' = txIndex + 1 /\ txLength' = txIndex + 1
  /\ wanted' = Append(wanted, madeBytes')
  /\ UNCHANGED <<bus, txQueued, rx, transmitting, queued, requests, onWire, answer, mislaid>>

ShowReceived == rxIndex' = 0 /\ rxLength' = rxQueued /\ rxQueued' = 0

endTransmission(stop, ok) ==
  /\ Request
  /\ IF transmitting
     THEN LET item == WriteOf(txQueued, txLength - txQueued, wanted) IN
          /\ IF stop THEN Carry(Append(queued, item), ok) ELSE Enqueue(item)
          /\ ShowReceived
          /\ txQueued' = IF stop THEN 0 ELSE txLength
          /\ txIndex' = 0 /\ txLength' = 0
          /\ UNCHANGED txBuffer
     ELSE flush
  /\ transmitting' = FALSE
  /\ answer' = <<>> /\ wanted' = <<>>
  /\ UNCHANGED <<bus, madeBytes, mislaid>>

(* Mutant of Rewound: reading goes on where the last one stopped.           *)
NotRewound == rxIndex

Rewound == 0

(* The sizes of the requests that wait are always 0 here: every one before  *)
(* has set rxQueued back, although a request may be pending.                *)
requestFrom(size, stop, ok) ==
  /\ Request
  /\ IF rxQueued < I2C_BUFFER_LENGTH - 1 /\ size + rxQueued <= I2C_BUFFER_LENGTH
     THEN LET item == ReadOf(rxQueued, size) IN
          /\ IF stop THEN Carry(Append(queued, item), ok) ELSE Enqueue(item)
          /\ rxIndex' = Rewound /\ rxLength' = rxQueued + size /\ rxQueued' = 0
          /\ txQueued' = 0
          /\ answer' = IF stop /\ ok THEN <<[i \in 1 .. size |-> <<requests', rxQueued + i - 1>>]>>
                       ELSE <<>>
          /\ mislaid' = (mislaid \/ ~stop \/ transmitting)
          /\ UNCHANGED <<txBuffer, txIndex, txLength>>
     ELSE flush /\ answer' = <<>> /\ mislaid' = (mislaid \/ transmitting)
  /\ UNCHANGED <<bus, transmitting, madeBytes, wanted>>

read ==
  /\ rxIndex < rxLength /\ rxIndex' = rxIndex + 1
  /\ answer' = [k \in DOMAIN answer |-> SubSeq(answer[k], 2, Len(answer[k]))]
  /\ UNCHANGED <<bus, tx, rxBuffer, rxLength, rxQueued, transmitting, queued, madeBytes, requests,
                 wanted, onWire, mislaid>>

WireNext ==
  \/ beginTransmission \/ writeByte \/ read
  \/ \E sda, scl \in WirePins \cup {Unwired}, ok \in BOOLEAN :
       begin([wire \in DOMAIN wires |-> IF wire = "sda" THEN sda ELSE scl], ok)
  \/ \E stop, ok \in BOOLEAN : (ok \/ stop) /\ (ok => i2c) /\
       \/ endTransmission(stop, ok)
       \/ \E size \in ReadSizes : requestFrom(size, stop, ok)

WireSpec == WireInit /\ [][WireNext]_wireVars

(***************************************************************************)
(* Properties.                                                             *)
(***************************************************************************)

(* What goes over the wire is what the sketch has written, for each of the  *)
(* transmissions that were queued: later ones are kept behind them in the   *)
(* buffer (Wire.cpp:146).  A request without a stop gives the place of the  *)
(* ones before it away (Wire.cpp:194).                                      *)
WritesIntact == ~mislaid => \A write \in onWire : write.got = write.want

(* What there is to read after a request is what that request has brought,  *)
(* all of it and in its order, however much of an earlier one was left.     *)
ReadsLatest ==
  \A k \in DOMAIN answer :
    answer[k] = [i \in 1 .. rxLength - rxIndex |-> rxBuffer[rxIndex + i - 1]]

(* The bus has both of its pins or none, whatever a begin() was refused     *)
(* for, and the second bus has none but those the sketch has named          *)
(* (Wire.cpp:64-93).                                                        *)
PinsTogether ==
  /\ wires["sda"] = Unwired <=> wires["scl"] = Unwired
  /\ i2c => wires["sda"] # Unwired
  /\ num = 1 => {wires["sda"], wires["scl"]} \subseteq WirePins \cup {Unwired}

(* What holds of the queues and buffers of the bus.                         *)
WireInv == WireTypeOK /\ WritesIntact /\ ReadsLatest /\ PinsTogether
=============================================================================
