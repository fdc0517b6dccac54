---------------------------- MODULE Device_proofs ----------------------------
(***************************************************************************)
(* Proofs about what a sketch uses of its board: the preferences, updates   *)
(* from a stream, the web console, I2C and LED strips, for any keys, items  *)
(* and namespaces, any sizes of sectors, partitions, streams and buffers,   *)
(* rings of any size with any number of lines, and strips of any length.    *)
(***************************************************************************)
EXTENDS NefryConsole, Preferences, UpdateStream, Adafruit_NeoPixel, TwoWire, SequenceTheorems, TLAPS

(***************************************************************************)
(* Preferences.                                                             *)
(***************************************************************************)
(* A get between its calls has seen what is there, and what had the length  *)
(* it was told.                                                             *)
Readings ==
  [key : Keys, get : DOMAIN Gets, length : Nat, seen : SUBSET (Items \cup {NoItem})]

ReadingKnown ==
  reading = Idle \/
  /\ reading \in Readings /\ Found(reading.key) \in reading.seen
  /\ \E item \in reading.seen : Fits(reading.get, item) /\ reading.length = Length(item)

(* What was reported stored is there and committed.                         *)
ToldIsCommitted == \A p \in Places : told[p] # NoItem => nvs[p] = told[p] /\ pending[p] = {}

PreferencesIInv == PreferencesTypeOK /\ ToldIsCommitted /\ ReadingKnown

LEMMA PreferencesInitial == PreferencesInit => PreferencesIInv
<1> SUFFICES ASSUME PreferencesInit PROVE PreferencesIInv
  OBVIOUS
<1>1. 0 \in 0 .. MaxChanges /\ 0 \in 0 .. MaxRestarts
  BY PreferencesAssumption
<1>2. {_started, _readOnly} \subseteq BOOLEAN
  BY DEF PreferencesInit
<1>3. PreferencesTypeOK
  BY <1>1, <1>2 DEF PreferencesInit, PreferencesTypeOK
<1>4. ToldIsCommitted /\ ReadingKnown
  BY DEF PreferencesInit, ToldIsCommitted, ReadingKnown
<1> QED BY <1>3, <1>4 DEF PreferencesIInv

LEMMA LengthKnown ==
  ASSUME NEW item \in Items
  PROVE  Length(item) \in Nat
<1> DEFINE n == Len(item.data)
<1>1. n \in Nat
  BY PreferencesAssumption, LenProperties
<1>2. Length(item) = n + 1 \/ Length(item) = n + 0
  BY DEF Length
<1> HIDE DEF n
<1> QED BY <1>1, <1>2

LEMMA FoundKnown ==
  ASSUME namespace \in Namespaces, nvs \in [Places -> Items \cup {NoItem}], NEW key \in Keys
  PROVE  Found(key) \in Items \cup {NoItem}
BY DEF Found, Places

(* A get that is watched sees what is there next.                           *)
LEMMA WatchKeeps ==
  ASSUME PreferencesIInv, Watch, namespace' \in Namespaces, nvs' \in [Places -> Items \cup {NoItem}]
  PROVE  ReadingKnown' /\ (reading' = Idle \/ (reading'.key \in Keys /\ reading'.get \in DOMAIN Gets
                                                /\ reading'.length \in Nat))
<1>1. CASE reading = Idle
  <2>1. reading' = Idle
    BY <1>1 DEF Watch
  <2> QED BY <2>1 DEF ReadingKnown
<1>2. CASE reading # Idle
  <2>1. /\ reading \in Readings
        /\ \E item \in reading.seen : Fits(reading.get, item) /\ reading.length = Length(item)
    BY <1>2 DEF PreferencesIInv, ReadingKnown
  <2> DEFINE key == reading.key
             new == IF _started' THEN nvs'[namespace', key] ELSE NoItem
  <2>2. key \in Keys /\ new \in Items \cup {NoItem}
    BY <2>1 DEF Readings, Places
  <2>3. reading' = [reading EXCEPT !.seen = @ \cup {new}]
    BY <1>2 DEF Watch, Found
  <2> HIDE DEF new
  <2>4. /\ reading' \in Readings /\ reading'.key = key /\ reading'.get = reading.get
        /\ reading'.length = reading.length /\ reading'.seen = reading.seen \cup {new}
    BY <2>1, <2>2, <2>3 DEF Readings
  <2>5. new = IF _started' THEN nvs'[namespace', reading'.key] ELSE NoItem
    BY <2>4 DEF new
  <2>6. Found(reading.key)' \in reading'.seen
    BY <2>4, <2>5 DEF Found
  <2>7. \E item \in reading'.seen : Fits(reading'.get, item) /\ reading'.length = Length(item)
    BY <2>1, <2>4
  <2>8. ReadingKnown'
    BY <2>4, <2>6, <2>7 DEF ReadingKnown
  <2> QED BY <2>4, <2>8 DEF Readings
<1> QED BY <1>1, <1>2

LEMMA ChangeKeeps ==
  ASSUME PreferencesIInv, Change,
         storage' \in [Places -> Items \cup {NoItem}] \X [Places -> SUBSET (Items \cup {NoItem})],
         told' \in [Places -> Items \cup {NoItem}], ToldIsCommitted'
  PROVE  PreferencesIInv'
<1>1. /\ Watch /\ UNCHANGED <<_started, _readOnly, namespace, restarts>> /\ changes' = changes + 1
      /\ changes < MaxChanges
  BY DEF Change, handle
<1>2. nvs' \in [Places -> Items \cup {NoItem}] /\ pending' \in [Places -> SUBSET (Items \cup {NoItem})]
  BY DEF storage
<1>3. changes' \in 0 .. MaxChanges
  BY <1>1, PreferencesAssumption DEF PreferencesIInv, PreferencesTypeOK
<1>4. {_started', _readOnly'} \subseteq BOOLEAN /\ namespace' \in Namespaces
  BY <1>1 DEF PreferencesIInv, PreferencesTypeOK
<1>5. /\ ReadingKnown'
      /\ reading' = Idle \/ (reading'.key \in Keys /\ reading'.get \in DOMAIN Gets /\ reading'.length \in Nat)
  BY <1>1, <1>2, <1>4, WatchKeeps
<1>6. restarts' \in 0 .. MaxRestarts
  BY <1>1 DEF PreferencesIInv, PreferencesTypeOK
<1>7. PreferencesTypeOK'
  BY <1>2, <1>3, <1>4, <1>5, <1>6 DEF PreferencesTypeOK
<1> QED BY <1>5, <1>7 DEF PreferencesIInv

LEMMA PutKeeps ==
  ASSUME PreferencesIInv, NEW key \in Keys, NEW item \in Items,
         NEW outcome \in {"done", "commit fails", "set fails"}, PutItem(key, item, outcome)
  PROVE  PreferencesIInv'
<1> DEFINE place == <<namespace, key>>
<1>1. /\ place \in Places /\ Change /\ item \in Items \cup {NoItem}
      /\ nvs \in [Places -> Items \cup {NoItem}] /\ pending \in [Places -> SUBSET (Items \cup {NoItem})]
      /\ told \in [Places -> Items \cup {NoItem}]
      /\ \A p \in Places : told[p] # NoItem => nvs[p] = told[p] /\ pending[p] = {}
  BY DEF PreferencesIInv, PreferencesTypeOK, ToldIsCommitted, Places, PutItem
<1>2. told' = [told EXCEPT ![place] = IF Reported(item, outcome) THEN item ELSE NoItem]
  BY DEF PutItem
<1>3. \/ outcome = "done" /\ StoreAndCommit(place, item)
      \/ outcome # "done" /\ (Store({place}, item) \/ UNCHANGED storage)
  BY DEF PutItem
<1> HIDE DEF place
<1>4. told' \in [Places -> Items \cup {NoItem}]
  BY <1>1, <1>2
<1>5. \A p \in Places : p # place => told'[p] = told[p]
  BY <1>1, <1>2
<1>6. told'[place] = IF Reported(item, outcome) THEN item ELSE NoItem
  BY <1>1, <1>2
<1>7. CASE outcome = "done" /\ StoreAndCommit(place, item)
  <2>1. /\ nvs' = [nvs EXCEPT ![place] = item]
        /\ pending' = [p \in Places |-> IF p[1] = place[1] THEN {} ELSE pending[p]]
    BY <1>7 DEF StoreAndCommit
  <2>2. storage' \in [Places -> Items \cup {NoItem}] \X [Places -> SUBSET (Items \cup {NoItem})]
    BY <1>1, <2>1 DEF storage
  <2>3. /\ nvs'[place] = item /\ pending'[place] = {}
        /\ \A p \in Places : p # place => nvs'[p] = nvs[p]
        /\ \A p \in Places : pending[p] = {} => pending'[p] = {}
    BY <1>1, <2>1
  <2>4. ToldIsCommitted'
    BY <1>1, <1>5, <1>6, <2>3 DEF ToldIsCommitted
  <2> QED BY <1>1, <1>4, <2>2, <2>4, ChangeKeeps
<1>8. CASE outcome # "done" /\ (Store({place}, item) \/ UNCHANGED storage)
  <2>1. storage' \in [Places -> Items \cup {NoItem}] \X [Places -> SUBSET (Items \cup {NoItem})]
    <3>1. CASE UNCHANGED storage
      BY <1>1, <3>1 DEF storage
    <3>2. CASE Store({place}, item)
      <4>1. nvs' \in [Places -> Items \cup {NoItem}]
        BY <1>1, <3>2 DEF Store
      <4>2. pending' \in [Places -> SUBSET (Items \cup {NoItem})]
        <5>1. \A p \in Places : nvs[p] \in Items \cup {NoItem} /\ pending[p] \in SUBSET (Items \cup {NoItem})
          BY <1>1
        <5> QED BY <3>2, <5>1 DEF Store
      <4> QED BY <4>1, <4>2 DEF storage
    <3> QED BY <1>8, <3>1, <3>2
  <2>2. \A p \in Places : p # place => nvs'[p] = nvs[p] /\ pending'[p] = pending[p]
    BY <1>1, <1>8 DEF storage, Store
  <2>3. told'[place] = NoItem
    BY <1>6, <1>8 DEF Reported
  <2>4. ToldIsCommitted'
    BY <1>1, <1>5, <2>2, <2>3 DEF ToldIsCommitted
  <2> QED BY <1>1, <1>4, <2>1, <2>4, ChangeKeeps
<1> QED BY <1>3, <1>7, <1>8

LEMMA EraseKeeps ==
  ASSUME PreferencesIInv, NEW places \in SUBSET Places, NEW fails \in BOOLEAN, Erase(places, fails)
  PROVE  PreferencesIInv'
<1>1. /\ nvs \in [Places -> Items \cup {NoItem}] /\ pending \in [Places -> SUBSET (Items \cup {NoItem})]
      /\ told \in [Places -> Items \cup {NoItem}]
      /\ \A p \in Places : told[p] # NoItem => nvs[p] = told[p] /\ pending[p] = {}
      /\ told' = [p \in Places |-> IF p \in places THEN NoItem ELSE told[p]]
  BY DEF PreferencesIInv, PreferencesTypeOK, ToldIsCommitted, Erase
<1>2. Change /\ (Store(places, NoItem) \/ UNCHANGED storage)
  BY DEF Erase
<1>3. storage' \in [Places -> Items \cup {NoItem}] \X [Places -> SUBSET (Items \cup {NoItem})]
  BY <1>1, <1>2 DEF storage, Store
<1>4. told' \in [Places -> Items \cup {NoItem}]
  BY <1>1
<1>5. \A p \in Places : p \notin places => nvs'[p] = nvs[p] /\ pending'[p] = pending[p]
  BY <1>1, <1>2 DEF storage, Store
<1>6. ToldIsCommitted'
  BY <1>1, <1>5 DEF ToldIsCommitted
<1> QED BY <1>2, <1>3, <1>4, <1>6, ChangeKeeps

LEMMA HandleKeeps ==
  ASSUME PreferencesIInv, UNCHANGED <<storage, told, changes, restarts>>, Watch,
         _started' \in BOOLEAN, _readOnly' \in BOOLEAN, namespace' \in Namespaces
  PROVE  PreferencesIInv'
<1>1. nvs' = nvs /\ pending' = pending /\ told' = told /\ changes' = changes /\ restarts' = restarts
  BY DEF storage
<1>2. /\ ReadingKnown'
      /\ reading' = Idle \/ (reading'.key \in Keys /\ reading'.get \in DOMAIN Gets /\ reading'.length \in Nat)
  <2>1. nvs' \in [Places -> Items \cup {NoItem}]
    BY <1>1 DEF PreferencesIInv, PreferencesTypeOK
  <2> QED BY <2>1, WatchKeeps
<1>3. {_started', _readOnly'} \subseteq BOOLEAN
  OBVIOUS
<1>4. PreferencesTypeOK'
  BY <1>1, <1>2, <1>3 DEF PreferencesIInv, PreferencesTypeOK
<1>5. ToldIsCommitted'
  BY <1>1 DEF PreferencesIInv, ToldIsCommitted
<1> QED BY <1>2, <1>4, <1>5 DEF PreferencesIInv

LEMMA GetKeeps ==
  ASSUME PreferencesIInv,
         FinishGet \/ \E key \in Keys, get \in DOMAIN Gets : StartGet(key, get)
  PROVE  PreferencesIInv'
<1>1. UNCHANGED <<_started, _readOnly, namespace, nvs, pending, told, changes, restarts>>
  BY DEF FinishGet, StartGet, handle, storage
<1>2. /\ ReadingKnown'
      /\ reading' = Idle \/ (reading'.key \in Keys /\ reading'.get \in DOMAIN Gets /\ reading'.length \in Nat)
  <2>1. CASE reading' = Idle
    BY <2>1 DEF ReadingKnown
  <2>2. ASSUME NEW key \in Keys, NEW get \in DOMAIN Gets, StartGet(key, get)
        PROVE  reading' \in Readings /\ ReadingKnown'
    <3> DEFINE item == Found(key)
    <3>1. /\ Fits(get, item)
          /\ reading' = [key |-> key, get |-> get, length |-> Length(item), seen |-> {item}]
      BY <2>2 DEF StartGet
    <3>2. item \in Items
      BY <3>1, FoundKnown DEF Fits, PreferencesIInv, PreferencesTypeOK
    <3>3. Length(item) \in Nat
      BY <3>2, LengthKnown
    <3>4. item = IF _started' THEN nvs'[namespace', key] ELSE NoItem
      BY <1>1 DEF Found
    <3> HIDE DEF item
    <3>5. reading' \in Readings /\ reading'.key = key /\ reading'.get = get
          /\ reading'.length = Length(item) /\ reading'.seen = {item}
      BY <3>1, <3>2, <3>3 DEF Readings
    <3>6. Found(reading.key)' = item
      BY <3>4, <3>5 DEF Found
    <3> QED BY <3>1, <3>5, <3>6 DEF ReadingKnown
  <2> QED BY <2>1, <2>2 DEF FinishGet, Readings
<1>3. PreferencesTypeOK' /\ ToldIsCommitted'
  BY <1>1, <1>2 DEF PreferencesIInv, PreferencesTypeOK, ToldIsCommitted
<1> QED BY <1>2, <1>3 DEF PreferencesIInv

(* A restart brings back what was committed.                                *)
LEMMA RestartKeeps ==
  ASSUME PreferencesIInv, Restart
  PROVE  PreferencesIInv'
<1>1. /\ restarts < MaxRestarts /\ restarts' = restarts + 1 /\ _started' = FALSE /\ _readOnly' = FALSE
      /\ reading' = Idle /\ pending' = [p \in Places |-> {}] /\ UNCHANGED <<namespace, told, changes>>
  BY DEF Restart
<1>2. nvs' \in [Places -> Items \cup {NoItem}] /\ \A p \in Places : nvs'[p] \in pending[p] \cup {nvs[p]}
  BY DEF Restart
<1>3. restarts' \in 0 .. MaxRestarts
  BY <1>1, PreferencesAssumption DEF PreferencesIInv, PreferencesTypeOK
<1>4. {_started', _readOnly'} \subseteq BOOLEAN
  BY <1>1
<1>5. PreferencesTypeOK'
  BY <1>1, <1>2, <1>3, <1>4 DEF PreferencesIInv, PreferencesTypeOK
<1>6. ToldIsCommitted'
  BY <1>1, <1>2 DEF PreferencesIInv, ToldIsCommitted
<1>7. ReadingKnown'
  BY <1>1 DEF ReadingKnown
<1> QED BY <1>5, <1>6, <1>7 DEF PreferencesIInv

LEMMA PreferencesKept ==
  ASSUME PreferencesIInv, [PreferencesNext]_preferencesVars
  PROVE  PreferencesIInv'
<1>1. CASE UNCHANGED preferencesVars
  BY <1>1 DEF preferencesVars, handle, storage, PreferencesIInv, PreferencesTypeOK, ToldIsCommitted,
              ReadingKnown, Found
<1>2. ASSUME NEW name \in Namespaces, NEW readOnly \in BOOLEAN, NEW fails \in BOOLEAN,
             beginPreferences(name, readOnly, fails)
      PROVE  PreferencesIInv'
  <2>1. _started' \in BOOLEAN /\ _readOnly' \in BOOLEAN /\ namespace' \in Namespaces
    BY <1>2 DEF beginPreferences, PreferencesIInv, PreferencesTypeOK
  <2> QED BY <1>2, <2>1, HandleKeeps DEF beginPreferences
<1>3. ASSUME endPreferences PROVE PreferencesIInv'
  <2>1. _started' \in BOOLEAN /\ _readOnly' \in BOOLEAN /\ namespace' \in Namespaces
    BY <1>3 DEF endPreferences, PreferencesIInv, PreferencesTypeOK
  <2> QED BY <1>3, <2>1, HandleKeeps DEF endPreferences
<1>4. ASSUME NEW key \in Keys, NEW fails \in BOOLEAN, remove(key, fails) PROVE PreferencesIInv'
  <2>1. {<<namespace, key>>} \in SUBSET Places
    BY DEF PreferencesIInv, PreferencesTypeOK, Places
  <2> QED BY <1>4, <2>1, EraseKeeps DEF remove
<1>5. ASSUME NEW fails \in BOOLEAN, clear(fails) PROVE PreferencesIInv'
  <2>1. {namespace} \X Keys \in SUBSET Places
    BY DEF PreferencesIInv, PreferencesTypeOK, Places
  <2> QED BY <1>5, <2>1, EraseKeeps DEF clear
<1>6. ASSUME NEW key \in Keys, NEW item \in Items, NEW outcome \in {"done", "commit fails", "set fails"},
             putNumber(key, item, outcome) \/ putString(key, item, outcome) \/ putBytes(key, item, outcome)
      PROVE  PreferencesIInv'
  BY <1>6, PutKeeps DEF putNumber, putString, putBytes
<1> QED BY <1>1, <1>2, <1>3, <1>4, <1>5, <1>6, GetKeeps, RestartKeeps DEF PreferencesNext

LEMMA PaddingKnown ==
  ASSUME NEW d \in Seq(Nat), NEW g \in Int
  PROVE  d \o [k \in 1 .. g - Len(d) |-> 0] \in Seq(Nat)
<1> DEFINE m == g - Len(d)
           n == IF m \in Nat THEN m ELSE 0
<1>1. m \in Int /\ n \in Nat /\ 1 .. m = 1 .. n
  BY LenProperties
<1> HIDE DEF m, n
<1>2. [k \in 1 .. m |-> 0] = [k \in 1 .. n |-> 0]
  BY <1>1
<1>3. [k \in 1 .. n |-> 0] \in Seq(Nat)
  BY <1>1
<1> DEFINE pad == [k \in 1 .. m |-> 0]
<1>4. pad \in Seq(Nat)
  BY <1>2, <1>3
<1> HIDE DEF pad
<1>5. d \o pad \in Seq(Nat)
  BY <1>4, ConcatProperties
<1> QED BY <1>5 DEF pad, m

LEMMA PreferencesImplied == PreferencesIInv => PreferencesInv
<1> SUFFICES ASSUME PreferencesIInv PROVE PreferencesInv
  OBVIOUS
<1>1. PutsKept
  <2> SUFFICES ASSUME NEW p \in Places, told[p] # NoItem
               PROVE  /\ nvs[p] = told[p] /\ pending[p] = {}
                      /\ _started /\ p[1] = namespace /\ told[p].type \in Numbers =>
                           getNumber(p[2], told[p].type, told[p].data[1] + 1) = told[p].data[1]
    BY DEF PutsKept
  <2>1. nvs[p] = told[p] /\ pending[p] = {}
    BY DEF PreferencesIInv, ToldIsCommitted
  <2>2. p = <<p[1], p[2]>>
    BY DEF Places
  <2>3. ASSUME _started, p[1] = namespace, told[p].type \in Numbers
        PROVE  getNumber(p[2], told[p].type, told[p].data[1] + 1) = told[p].data[1]
    <3>1. Found(p[2]) = told[p]
      BY <2>1, <2>2, <2>3 DEF Found
    <3> QED BY <3>1 DEF getNumber
  <2> QED BY <2>1, <2>3
<1>2. ASSUME reading # Idle
      PROVE  LET got   == Contents(Found(reading.key))
                 items == {item \in reading.seen : item # NoItem /\ item.type = StoredItem(reading.get)}
             IN  /\ got = NoItem \/ \E item \in items : got = Padded(item)
                 /\ reading.seen = items /\ (\A item, other \in items : item = other) => got # NoItem
  <2> DEFINE there == Found(reading.key)
             got   == Contents(there)
             items == {item \in reading.seen : item # NoItem /\ item.type = StoredItem(reading.get)}
  <2>1. there \in reading.seen /\ reading \in Readings
    BY <1>2 DEF PreferencesIInv, ReadingKnown
  <2>2. PICK item \in reading.seen : Fits(reading.get, item) /\ reading.length = Length(item)
    BY <1>2 DEF PreferencesIInv, ReadingKnown
  <2>3. item \in items
    BY <2>2 DEF Fits
  <2>4. got = IF there \in items /\ Length(there) <= reading.length THEN Padded(there) ELSE NoItem
    BY <2>1 DEF Contents, Padded
  <2>5. got = NoItem \/ \E i \in items : got = Padded(i)
    BY <2>4
  <2>6. ASSUME reading.seen = items, \A i, other \in items : i = other PROVE got # NoItem
    <3>1. there = item /\ item \in Items
      BY <2>1, <2>3, <2>6 DEF Readings
    <3>2. Length(there) <= reading.length
      <4>1. Length(item) \in Nat
        BY <3>1, LengthKnown
      <4> QED BY <2>2, <3>1, <4>1
    <3>3. got = Padded(item)
      BY <2>3, <2>4, <3>1, <3>2
    <3>4. item.data \in Seq(Nat) /\ Gets[reading.get] \in Int
      BY <2>1, <3>1, PreferencesAssumption DEF Readings, Gets
    <3>5. Padded(item) \in Seq(Nat)
      BY <3>4, PaddingKnown DEF Padded
    <3> QED BY <3>3, <3>5, PreferencesAssumption
  <2> QED BY <2>5, <2>6
<1>3. GetsWhole
  BY <1>2 DEF GetsWhole
<1> QED BY <1>1, <1>3 DEF PreferencesIInv, PreferencesInv

(***************************************************************************)
(* Updates from a stream (UpdateStream).                                    *)
(***************************************************************************)
Units   == Nat \X Nat
Updater == [size : Nat, progress : Nat, buffer : Seq(Units), error : BOOLEAN,
            command : UpdateCommands, partition : UpdateCommands, added : Seq(Units), target : Seq(Units)]
Partition == [magic : BOOLEAN, units : [0 .. FLASH - 1 -> Units]]
Flashes   == [UpdateCommands -> Partition]

(* What an update of stream s, file f, has taken from it.                   *)
FromStream(f, s, u, nread) ==
  /\ u.size = s.image /\ u.size \in 1 .. SIZE
  /\ u.error = FALSE /\ u.command = u.partition
  /\ nread = u.progress + Len(u.buffer) /\ nread <= s.len
  /\ Len(u.buffer) <= SECTOR
  /\ u.added = FileUnits(f, u.progress)
  /\ \A k \in 1 .. Len(u.buffer) : u.buffer[k] = <<f, u.progress + k>>

(* And what it has written of it.                                           *)
WrittenTo(fl, f, s, u, excused) ==
  /\ u.progress > 0 /\ u.partition = "U_FLASH" => fl["U_FLASH"].magic = FALSE /\ s.firmware
  /\ "over" \notin excused => \A k \in 0 .. u.progress - 1 : fl[u.partition].units[k] = <<f, k + 1>>

(* A buffer is written at the start of a sector, and only the end of the    *)
(* image leaves another place.                                              *)
InSectors(u) == u.progress = u.size \/ u.progress % SECTOR = 0

FileIn(ss, f) == IF f = 0 THEN OldFile ELSE ss[f]

Whole(ss, fl) ==
  \E f \in 0 .. Len(ss) :
    FileIn(ss, f).firmware /\ \A k \in 1 .. FileIn(ss, f).image : fl["U_FLASH"].units[k - 1] = <<f, k>>

Startable(ss, fl) == (fl["U_FLASH"].magic => Whole(ss, fl)) /\ fl["U_SPIFFS"].magic = FALSE

Untouched(fl) == \A c \in UpdateCommands : \A k \in SIZE .. FLASH - 1 : fl[c].units[k] = <<0, k + 1>>

(* Of an update that runs: where its stream and its loop are.               *)
LoopKnown(s, u, in, excused) ==
  /\ in = "no" => u.progress + Len(u.buffer) <= u.size
  /\ in # "no" => u.progress # u.size /\ ("longer" \notin excused => s.len <= u.size)

Underway(ss, u, nread, in, fl, excused) ==
  LET f == Len(ss)
  IN  /\ ss # <<>>
      /\ FromStream(f, ss[f], u, nread) /\ WrittenTo(fl, f, ss[f], u, excused)
      /\ InSectors(u) /\ LoopKnown(ss[f], u, in, excused)

NoUpdate(u, in) == u.progress = 0 /\ u.buffer = <<>> /\ in = "no"

TargetKnown(ss, target) == target = NoMD5 \/ \E f \in 1 .. Len(ss) : target = FileUnits(f, ss[f].image)

StreamIInv ==
  /\ streams \in Seq(Streams) /\ unitsRead \in Nat /\ inStream \in {"no", "yes", "late"}
  /\ updater \in Updater /\ flash \in Flashes
  /\ bootOther \in BOOLEAN /\ excuses \subseteq {"unchecked", "over", "longer"}
  /\ \/ updater.size = 0 /\ NoUpdate(updater, inStream)
     \/ updater.size > 0 /\ Underway(streams, updater, unitsRead, inStream, flash, excuses)
  /\ TargetKnown(streams, updater.target)
  /\ excuses \cap {"unchecked", "over"} = {} => Startable(streams, flash)
  /\ excuses \cap {"over", "longer"} = {} => Untouched(flash)

LEMMA StreamSizes ==
  /\ SECTOR \in Nat /\ SECTOR > 0 /\ SIZE \in Nat /\ SIZE > 0 /\ SIZE % SECTOR = 0 /\ FLASH \in Nat /\ FLASH > SIZE
  /\ FLASH + SECTOR < SIZE_T /\ SIZE_T \in Nat
BY StreamAssumption DEF SIZE_T

LEMMA SectorsApart ==
  ASSUME NEW k \in Nat, NEW m \in Nat, NEW l \in Nat, m % SECTOR = 0, k < m, m <= l
  PROVE  k \div SECTOR # l \div SECTOR
<1>1. SECTOR \in Nat /\ SECTOR > 0
  BY StreamSizes
<1> QED BY <1>1

LEMMA NextSector ==
  ASSUME NEW a \in Nat, a % SECTOR = 0
  PROVE  (a + SECTOR) % SECTOR = 0
<1> DEFINE k == SECTOR
<1>1. k \in Nat /\ k > 0 /\ a % k = 0
  BY StreamSizes
<1> HIDE DEF k
<1>2. a = k * (a \div k) /\ a \div k \in Nat
  BY <1>1
<1> DEFINE d == a \div k
<1> HIDE DEF d
<1>3. a + k = k * (d + 1)
  BY <1>1, <1>2 DEF d
<1>4. (k * (d + 1)) % k = 0
  BY <1>1, <1>2 DEF d
<1> QED BY <1>3, <1>4 DEF k

LEMMA Remaining ==
  ASSUME NEW u, u.size \in Nat, u.progress \in Nat, u.size <= SIZE, u.progress <= FLASH
  PROVE  remainingOf(u) = IF u.progress <= u.size THEN u.size - u.progress ELSE u.size - u.progress + SIZE_T
<1> DEFINE s == u.size
           p == u.progress
<1>1. s \in Nat /\ p \in Nat /\ s <= SIZE /\ p <= FLASH
  OBVIOUS
<1>2. remainingOf(u) = (s - p) % SIZE_T
  BY DEF remainingOf
<1> HIDE DEF s, p
<1>3. CASE p <= s
  BY <1>1, <1>2, <1>3, StreamSizes DEF s, p, SIZE_T
<1>4. CASE ~(p <= s)
  BY <1>1, <1>2, <1>4, StreamSizes DEF s, p, SIZE_T
<1> QED BY <1>3, <1>4

LEMMA UpdaterReset ==
  ASSUME NEW u \in Updater
  PROVE  /\ Reset(u) \in Updater /\ Aborted(u) \in Updater
         /\ Reset(u).size = 0 /\ Reset(u).progress = 0 /\ Reset(u).buffer = <<>> /\ Reset(u).target = u.target
         /\ Reset(u).partition = u.partition /\ Reset(u).added = u.added
         /\ Aborted(u).size = 0 /\ Aborted(u).progress = 0 /\ Aborted(u).buffer = <<>>
         /\ Aborted(u).target = u.target /\ Aborted(u).partition = u.partition
         /\ Aborted(u).command = "U_FLASH" /\ Aborted(u).added = u.added
<1> DEFINE r == Reset(u)
           none == <<>>
           S == Seq(Units)
           C == UpdateCommands
<1>1. r = [u EXCEPT !.size = 0, !.progress = 0, !.buffer = none, !.command = "U_FLASH"]
  BY DEF Reset
<1>2. none \in S /\ "U_FLASH" \in C /\ 0 \in Nat
  BY EmptySeq DEF UpdateCommands
<1>3. Updater = [size : Nat, progress : Nat, buffer : S, error : BOOLEAN, command : C, partition : C, added : S,
                 target : S]
  BY DEF Updater
<1>4. Aborted(u) = [r EXCEPT !.error = TRUE]
  BY DEF Aborted
<1> HIDE DEF none, S, C, r
<1>5. r \in Updater /\ r.size = 0 /\ r.progress = 0 /\ r.buffer = none /\ r.target = u.target
      /\ r.partition = u.partition /\ r.added = u.added /\ r.command = "U_FLASH"
  BY <1>1, <1>2, <1>3
<1>6. Aborted(u) \in Updater /\ Aborted(u).size = 0 /\ Aborted(u).progress = 0 /\ Aborted(u).buffer = none
      /\ Aborted(u).target = u.target /\ Aborted(u).partition = u.partition
      /\ Aborted(u).command = "U_FLASH" /\ Aborted(u).added = u.added
  BY <1>3, <1>4, <1>5
<1> QED BY <1>5, <1>6 DEF r, none

(* Erasing and programming a buffer keeps what lies before it and, within   *)
(* the partition, what lies behind it.                                      *)
LEMMA ErasedAtIs ==
  ASSUME NEW p \in Partition, NEW a \in Nat
  PROVE  /\ ErasedAt(p, a) \in Partition
         /\ p.magic = FALSE => ErasedAt(p, a).magic = FALSE
         /\ a = 0 => ErasedAt(p, a).magic = FALSE
         /\ \A k \in 0 .. FLASH - 1 : k \div SECTOR # a \div SECTOR => ErasedAt(p, a).units[k] = p.units[k]
<1> DEFINE m == p.magic /\ 0 \notin SectorAt(a)
           f == [k \in 0 .. FLASH - 1 |-> IF k \in SectorAt(a) THEN <<0, 0>> ELSE p.units[k]]
<1>1. ErasedAt(p, a) = [magic |-> m, units |-> f]
  BY DEF ErasedAt
<1>2. m \in BOOLEAN /\ (p.magic = FALSE => m = FALSE)
  OBVIOUS
<1>3. a = 0 => m = FALSE
  <2>1. 0 \in 0 .. FLASH - 1
    BY StreamSizes
  <2> QED BY <2>1 DEF SectorAt
<1>4. f \in [0 .. FLASH - 1 -> Units]
  <2>1. <<0, 0>> \in Units
    BY DEF Units
  <2> QED BY <2>1 DEF Partition
<1>5. \A k \in 0 .. FLASH - 1 : k \div SECTOR # a \div SECTOR => f[k] = p.units[k]
  BY DEF SectorAt
<1> HIDE DEF m, f
<1> QED BY <1>1, <1>2, <1>3, <1>4, <1>5 DEF Partition

LEMMA ProgrammedAtIs ==
  ASSUME NEW p \in Partition, NEW a \in Nat, NEW b \in Seq(Units)
  PROVE  /\ ProgrammedAt(p, a, b) \in Partition
         /\ ProgrammedAt(p, a, b).magic = p.magic
         /\ \A k \in 0 .. FLASH - 1 :
              ProgrammedAt(p, a, b).units[k] = IF k \in a .. a + Len(b) - 1 THEN b[k - a + 1] ELSE p.units[k]
<1> DEFINE f == [k \in 0 .. FLASH - 1 |-> IF k \in a .. a + Len(b) - 1 THEN b[k - a + 1] ELSE p.units[k]]
<1>1. ProgrammedAt(p, a, b) = [p EXCEPT !.units = f]
  BY DEF ProgrammedAt
<1>2. Len(b) \in Nat
  BY LenProperties
<1>3. \A k \in a .. a + Len(b) - 1 : b[k - a + 1] \in Units
  <2> SUFFICES ASSUME NEW k \in a .. a + Len(b) - 1 PROVE b[k - a + 1] \in Units
    OBVIOUS
  <2>1. k - a + 1 \in 1 .. Len(b)
    BY <1>2
  <2> QED BY <2>1, ElementOfSeq
<1>4. f \in [0 .. FLASH - 1 -> Units]
  BY <1>3 DEF Partition
<1>5. \A k \in 0 .. FLASH - 1 : f[k] = IF k \in a .. a + Len(b) - 1 THEN b[k - a + 1] ELSE p.units[k]
  OBVIOUS
<1> HIDE DEF f
<1>6. ProgrammedAt(p, a, b) \in Partition
      /\ ProgrammedAt(p, a, b).magic = p.magic /\ ProgrammedAt(p, a, b).units = f
  BY <1>1, <1>4 DEF Partition
<1> QED BY <1>5, <1>6

LEMMA FileUnitsAre ==
  ASSUME NEW f \in Nat, NEW n \in Nat
  PROVE  /\ FileUnits(f, n) \in Seq(Units) /\ Len(FileUnits(f, n)) = n
         /\ \A k \in 1 .. n : FileUnits(f, n)[k] = <<f, k>>
<1>1. \A k \in 1 .. n : <<f, k>> \in Units
  BY DEF Units
<1>2. FileUnits(f, n) \in [1 .. n -> Units]
  BY <1>1 DEF FileUnits
<1>3. FileUnits(f, n) \in Seq(Units)
  BY <1>2, SeqDef
<1>4. DOMAIN FileUnits(f, n) = 1 .. Len(FileUnits(f, n)) /\ Len(FileUnits(f, n)) \in Nat
  BY <1>3, LenProperties
<1>5. Len(FileUnits(f, n)) = n
  BY <1>2, <1>4
<1> QED BY <1>3, <1>5 DEF FileUnits

LEMMA SameFile ==
  ASSUME NEW f \in Nat, NEW g \in Nat, NEW p \in Nat, NEW n \in Nat, n > 0,
         FileUnits(f, p) = FileUnits(g, n)
  PROVE  f = g /\ p = n
<1>1. p = n
  BY FileUnitsAre
<1>2. FileUnits(f, p)[1] = <<f, 1>> /\ FileUnits(g, n)[1] = <<g, 1>>
  BY FileUnitsAre, <1>1
<1> QED BY <1>1, <1>2

LEMMA FileGoesOn ==
  ASSUME NEW f \in Nat, NEW p \in Nat, NEW b \in Seq(Units), \A k \in 1 .. Len(b) : b[k] = <<f, p + k>>
  PROVE  FileUnits(f, p) \o b = FileUnits(f, p + Len(b))
<1> DEFINE x == FileUnits(f, p)
           y == FileUnits(f, p + Len(b))
<1>1. Len(b) \in Nat /\ p + Len(b) \in Nat
  BY LenProperties
<1>2. x \in Seq(Units) /\ Len(x) = p /\ \A k \in 1 .. p : x[k] = <<f, k>>
  BY FileUnitsAre
<1>3. y \in Seq(Units) /\ Len(y) = p + Len(b) /\ \A k \in 1 .. p + Len(b) : y[k] = <<f, k>>
  BY FileUnitsAre, <1>1
<1> HIDE DEF x, y
<1>4. x \o b \in Seq(Units) /\ Len(x \o b) = p + Len(b)
  BY <1>2, ConcatProperties
<1>5. ASSUME NEW k \in 1 .. p + Len(b) PROVE (x \o b)[k] = y[k]
  <2>1. CASE k <= p
    <3>1. (x \o b)[k] = x[k]
      BY <1>1, <1>2, <2>1, ConcatProperties
    <3>2. k \in 1 .. p /\ k \in 1 .. p + Len(b)
      BY <1>1, <2>1
    <3>3. x[k] = <<f, k>> /\ y[k] = <<f, k>>
      BY <1>2, <1>3, <3>2
    <3> QED BY <3>1, <3>3
  <2>2. CASE k > p
    <3>1. (x \o b)[k] = b[k - p]
      BY <1>1, <1>2, <2>2, ConcatProperties
    <3>2. k - p \in 1 .. Len(b)
      BY <1>1, <2>2
    <3>3. b[k - p] = <<f, p + (k - p)>>
      BY <3>2
    <3>4. p + (k - p) = k
      BY <1>1
    <3> QED BY <1>3, <3>1, <3>3, <3>4
  <2>3. k <= p \/ k > p
    BY <1>1
  <2> QED BY <2>1, <2>2, <2>3
<1> QED BY <1>3, <1>4, <1>5, SeqEqual DEF x, y

(* A partition replaced.                                                    *)
LEMMA FlashWith ==
  ASSUME NEW fl \in Flashes, NEW c \in UpdateCommands, NEW p \in Partition
  PROVE  /\ [fl EXCEPT ![c] = p] \in Flashes /\ [fl EXCEPT ![c] = p][c] = p
         /\ \A d \in UpdateCommands : d # c => [fl EXCEPT ![c] = p][d] = fl[d]
BY DEF Flashes

LEMMA StartableWith ==
  ASSUME NEW ss, NEW fl \in Flashes, NEW c \in UpdateCommands, NEW p \in Partition,
         Startable(ss, fl), p.magic = FALSE
  PROVE  Startable(ss, [fl EXCEPT ![c] = p])
<1> DEFINE new == [fl EXCEPT ![c] = p]
<1>1. new[c] = p /\ \A d \in UpdateCommands : d # c => new[d] = fl[d]
  BY DEF Flashes
<1> HIDE DEF new
<1>2. CASE c = "U_FLASH"
  BY <1>1, <1>2 DEF Startable, UpdateCommands, new
<1>3. CASE c = "U_SPIFFS"
  <2>1. new["U_FLASH"] = fl["U_FLASH"] /\ new["U_SPIFFS"] = p
    BY <1>1, <1>3 DEF UpdateCommands
  <2>2. Startable(ss, new)
    BY <2>1 DEF Startable, Whole
  <2> QED BY <2>2 DEF new
<1> QED BY <1>2, <1>3 DEF UpdateCommands

LEMMA StreamKnown ==
  ASSUME NEW s \in Streams
  PROVE  s.len \in Nat /\ s.len <= FLASH - SIZE /\ s.image \in Nat /\ s.image > 0 /\ s.firmware \in BOOLEAN
BY StreamAssumption

(* The buffer, as much of it as WriteBuffer has written.                    *)
Flushed(u) == [u EXCEPT !.progress = @ + Len(u.buffer), !.buffer = <<>>, !.added = @ \o u.buffer]

LEMMA FlushedIs ==
  ASSUME NEW u \in Updater
  PROVE  /\ Flushed(u) \in Updater
         /\ Flushed(u).size = u.size /\ Flushed(u).error = u.error /\ Flushed(u).command = u.command
         /\ Flushed(u).partition = u.partition /\ Flushed(u).target = u.target
         /\ Flushed(u).progress = u.progress + Len(u.buffer) /\ Flushed(u).buffer = <<>>
         /\ Flushed(u).added = u.added \o u.buffer
<1> DEFINE n == u.progress + Len(u.buffer)
           none == <<>>
           more == u.added \o u.buffer
           S == Seq(Units)
           C == UpdateCommands
<1>1. Flushed(u) = [u EXCEPT !.progress = n, !.buffer = none, !.added = more]
  BY DEF Flushed
<1>2. u.buffer \in S /\ u.added \in S /\ u.progress \in Nat
  BY DEF Updater
<1>3. none \in S /\ n \in Nat /\ more \in S
  BY <1>2, EmptySeq, LenProperties, ConcatProperties
<1>4. Updater = [size : Nat, progress : Nat, buffer : S, error : BOOLEAN, command : C, partition : C, added : S,
                 target : S]
  BY DEF Updater
<1> HIDE DEF none, S, C, more, n
<1>5. /\ Flushed(u) \in Updater
      /\ Flushed(u).size = u.size /\ Flushed(u).error = u.error /\ Flushed(u).command = u.command
      /\ Flushed(u).partition = u.partition /\ Flushed(u).target = u.target
      /\ Flushed(u).progress = n /\ Flushed(u).buffer = none /\ Flushed(u).added = more
  BY <1>1, <1>3, <1>4
<1> QED BY <1>5 DEF n, none, more

LEMMA WriteBufferIs ==
  ASSUME NEW u \in Updater, NEW mishap
  PROVE  LET c      == u.partition
             erased == ErasedAt(flash[c], u.progress)
             w      == WriteBuffer(u, mishap)
         IN  \/ w.u = Aborted(u) /\ w.flash = flash
             \/ w.u = Aborted(u) /\ w.flash = [flash EXCEPT ![c] = erased]
             \/ /\ w.u = Flushed(u)
                /\ w.flash = [flash EXCEPT ![c] = ProgrammedAt(erased, u.progress, u.buffer)]
                /\ u.progress = 0 /\ u.command = "U_FLASH" => IsMagic(u.buffer[1])
<1> DEFINE x == flash[u.partition]
           e == ErasedAt(x, u.progress)
           f1 == [flash EXCEPT ![u.partition] = e]
           f2 == [flash EXCEPT ![u.partition] = ProgrammedAt(e, u.progress, u.buffer)]
           refused == u.progress = 0 /\ u.command = "U_FLASH" /\ ~IsMagic(u.buffer[1])
           g == Flushed(u)
           r == Aborted(u)
           w == WriteBuffer(u, mishap)
<1>1. w = IF mishap = "erase" \/ refused THEN [u |-> r, flash |-> flash]
          ELSE IF mishap = "program" THEN [u |-> r, flash |-> f1] ELSE [u |-> g, flash |-> f2]
  BY DEF WriteBuffer, Flushed
<1> HIDE DEF w, f1, f2, g, r, e, x
<1>2. CASE mishap = "erase" \/ refused
  <2>1. w = [u |-> r, flash |-> flash]
    BY <1>1, <1>2
  <2>2. w.u = r /\ w.flash = flash
    BY <2>1
  <2> QED BY <2>2 DEF r, w
<1>3. CASE ~(mishap = "erase" \/ refused) /\ mishap = "program"
  <2>1. w = [u |-> r, flash |-> f1]
    BY <1>1, <1>3
  <2>2. w.u = r /\ w.flash = f1
    BY <2>1
  <2> QED BY <2>2 DEF r, w, f1, e, x
<1>4. CASE ~(mishap = "erase" \/ refused) /\ mishap # "program"
  <2>1. w = [u |-> g, flash |-> f2]
    BY <1>1, <1>4
  <2>2. w.u = g /\ w.flash = f2
    BY <2>1
  <2> QED BY <1>4, <2>2 DEF g, w, f2, e, x
<1> QED BY <1>2, <1>3, <1>4

(* Writing the buffer ends the update or goes on with it, and leaves the    *)
(* Flash startable and the space behind the partition alone.                *)
LEMMA BufferWritten ==
  ASSUME NEW f \in Nat, NEW s \in Streams, NEW u \in Updater, NEW nread \in Nat, NEW ex, NEW mishap,
         flash \in Flashes, FileOf(f) = s, FromStream(f, s, u, nread), WrittenTo(flash, f, s, u, ex), InSectors(u),
         \/ u.progress # u.size /\ u.buffer # <<>>
         \/ u.progress = u.size /\ u.buffer = <<>> /\ "over" \in ex
  PROVE  LET w == WriteBuffer(u, mishap)
         IN  /\ w.flash \in Flashes
             /\ \/ w.u = Aborted(u)
                \/ w.u = Flushed(u) /\ FromStream(f, s, w.u, nread) /\ WrittenTo(w.flash, f, s, w.u, ex)
             /\ Startable(streams, flash) => Startable(streams, w.flash)
             /\ Untouched(flash) /\ u.progress < SIZE /\ nread <= SIZE => Untouched(w.flash)
<1> DEFINE c == u.partition
           a == u.progress
           b == u.buffer
           old == flash[c]
           er == ErasedAt(old, a)
           pr == ProgrammedAt(er, a, b)
           w == WriteBuffer(u, mishap)
           fe == [flash EXCEPT ![c] = er]
           fp == [flash EXCEPT ![c] = pr]
<1>0. \/ w.u = Aborted(u) /\ w.flash = flash
      \/ w.u = Aborted(u) /\ w.flash = fe
      \/ w.u = Flushed(u) /\ w.flash = fp /\ (a = 0 /\ u.command = "U_FLASH" => IsMagic(b[1]))
  BY WriteBufferIs
<1>1. c \in UpdateCommands /\ a \in Nat /\ b \in Seq(Units) /\ Len(b) \in Nat /\ old \in Partition
  BY LenProperties DEF Updater, Flashes
<1>2. /\ er \in Partition
      /\ old.magic = FALSE => er.magic = FALSE
      /\ a = 0 => er.magic = FALSE
      /\ \A k \in 0 .. FLASH - 1 : k \div SECTOR # a \div SECTOR => er.units[k] = old.units[k]
  BY <1>1, ErasedAtIs
<1> HIDE DEF er
<1>3. /\ pr \in Partition /\ pr.magic = er.magic
      /\ \A k \in 0 .. FLASH - 1 : pr.units[k] = IF k \in a .. a + Len(b) - 1 THEN b[k - a + 1] ELSE er.units[k]
  <2>1. er \in Partition /\ a \in Nat /\ b \in Seq(Units)
    BY <1>1, <1>2
  <2> HIDE DEF a, b
  <2> QED BY <2>1, ProgrammedAtIs
<1> HIDE DEF pr
<1>4. /\ fe \in Flashes /\ fe[c] = er /\ \A d \in UpdateCommands : d # c => fe[d] = flash[d]
      /\ fp \in Flashes /\ fp[c] = pr /\ \A d \in UpdateCommands : d # c => fp[d] = flash[d]
  BY <1>1, <1>2, <1>3 DEF Flashes
<1>5. Startable(streams, flash) => Startable(streams, fe) /\ Startable(streams, fp)
  <2> SUFFICES ASSUME Startable(streams, flash) PROVE Startable(streams, fe) /\ Startable(streams, fp)
    OBVIOUS
  <2>1. er.magic = FALSE
    <3>1. CASE c = "U_FLASH"
      <4>1. a = 0 \/ a > 0
        BY <1>1
      <4> QED BY <1>2, <3>1, <4>1 DEF WrittenTo
    <3>2. CASE c = "U_SPIFFS"
      BY <1>2, <3>2 DEF Startable
    <3> QED BY <1>1, <3>1, <3>2 DEF UpdateCommands
  <2>2. pr.magic = FALSE
    BY <1>3, <2>1
  <2> QED BY <1>1, <1>2, <1>3, <2>1, <2>2, StartableWith
<1>6. a + Len(b) = nread /\ nread <= FLASH - SIZE /\ nread \in Nat /\ u.size \in Nat /\ FLASH \in Nat /\ SIZE \in Nat
      /\ SIZE > 0 /\ SECTOR \in Nat /\ SECTOR > 0
  BY <1>1, StreamSizes, StreamKnown DEF FromStream
<1>7. Untouched(flash) /\ a < SIZE /\ nread <= SIZE => Untouched(fe) /\ Untouched(fp)
  <2> SUFFICES ASSUME Untouched(flash), a < SIZE, nread <= SIZE,
                      NEW d \in UpdateCommands, NEW k \in SIZE .. FLASH - 1
               PROVE  fe[d].units[k] = <<0, k + 1>> /\ fp[d].units[k] = <<0, k + 1>>
    BY DEF Untouched
  <2>1. flash[d].units[k] = <<0, k + 1>>
    BY DEF Untouched
  <2>2. CASE d # c
    BY <1>4, <2>1, <2>2
  <2>3. CASE d = c
    <3>1. k \in 0 .. FLASH - 1 /\ k \in Nat /\ SIZE <= k
      BY <1>6
    <3>2. k \div SECTOR # a \div SECTOR
      BY <1>1, <1>6, <3>1, SectorsApart, StreamSizes
    <3>3. er.units[k] = <<0, k + 1>>
      BY <1>2, <2>1, <2>3, <3>1, <3>2
    <3>4. k \notin a .. a + Len(b) - 1
      BY <1>1, <1>6, <3>1
    <3>5. pr.units[k] = <<0, k + 1>>
      BY <1>3, <3>1, <3>3, <3>4
    <3> QED BY <1>4, <2>3, <3>3, <3>5
  <2> QED BY <2>2, <2>3
<1>8. ASSUME w.u = Flushed(u), w.flash = fp, a = 0 /\ u.command = "U_FLASH" => IsMagic(b[1])
      PROVE  FromStream(f, s, w.u, nread) /\ WrittenTo(w.flash, f, s, w.u, ex)
  <2> DEFINE v == Flushed(u)
  <2>1. /\ v.size = u.size /\ v.error = u.error /\ v.command = u.command
        /\ v.partition = c /\ v.progress = nread /\ v.buffer = <<>>
        /\ v.added = u.added \o b
    BY FlushedIs, <1>6
  <2> HIDE DEF v
  <2>2. Len(v.buffer) = 0 /\ Len(v.buffer) <= SECTOR
    BY <1>6, <2>1
  <2>3. v.added = FileUnits(f, v.progress)
    <3>1. u.added = FileUnits(f, a) /\ \A k \in 1 .. Len(b) : b[k] = <<f, a + k>>
      BY DEF FromStream
    <3>2. FileUnits(f, a) \o b = FileUnits(f, a + Len(b))
      BY <1>1, <3>1, FileGoesOn
    <3> QED BY <1>6, <2>1, <3>1, <3>2
  <2>4. FromStream(f, s, v, nread)
    BY <1>6, <2>1, <2>2, <2>3 DEF FromStream
  <2>5. c = "U_FLASH" => pr.magic = FALSE /\ s.firmware
    <3> SUFFICES ASSUME c = "U_FLASH" PROVE pr.magic = FALSE /\ s.firmware
      OBVIOUS
    <3>1. CASE a > 0
      BY <1>2, <1>3, <3>1 DEF WrittenTo
    <3>2. CASE a = 0
      <4>1. u.command = "U_FLASH" /\ u.size > 0
        BY DEF FromStream
      <4>2. b # <<>>
        BY <3>2, <4>1
      <4>3. 1 \in 1 .. Len(b)
        BY <1>1, <4>2, EmptySeq
      <4>4. b[1] = <<f, a + 1>>
        BY <4>3 DEF FromStream
      <4>5. s.firmware
        BY <1>8, <3>2, <4>1, <4>4 DEF IsMagic
      <4> QED BY <1>2, <1>3, <3>2, <4>5
    <3>3. a = 0 \/ a > 0
      BY <1>1
    <3> QED BY <3>1, <3>2, <3>3
  <2>6. "over" \notin ex => \A k \in 0 .. nread - 1 : pr.units[k] = <<f, k + 1>>
    <3> SUFFICES ASSUME "over" \notin ex, NEW k \in 0 .. nread - 1 PROVE pr.units[k] = <<f, k + 1>>
      OBVIOUS
    <3>1. a # u.size /\ a % SECTOR = 0
      BY DEF InSectors
    <3>2. k \in 0 .. FLASH - 1 /\ k \in Nat
      BY <1>6
    <3>3. CASE k < a
      <4>1. k \notin a .. a + Len(b) - 1 /\ k \in 0 .. a - 1
        BY <1>1, <3>2, <3>3
      <4>2. k \div SECTOR # a \div SECTOR
        <5>1. a \in Nat /\ a <= a /\ a % SECTOR = 0 /\ k < a /\ k \in Nat
          BY <1>1, <3>1, <3>2, <3>3
        <5> HIDE DEF a
        <5> QED BY <5>1, SectorsApart
      <4>3. old.units[k] = <<f, k + 1>>
        BY <4>1 DEF WrittenTo
      <4> QED BY <1>2, <1>3, <3>2, <4>1, <4>2, <4>3
    <3>4. CASE a <= k
      <4>1. k \in a .. a + Len(b) - 1 /\ k - a + 1 \in 1 .. Len(b)
        BY <1>1, <1>6, <3>2, <3>4
      <4>2. b[k - a + 1] = <<f, a + (k - a + 1)>>
        BY <4>1 DEF FromStream
      <4>3. a + (k - a + 1) = k + 1
        BY <1>1, <3>2
      <4> QED BY <1>3, <3>2, <4>1, <4>2, <4>3
    <3> QED BY <1>1, <3>2, <3>3, <3>4
  <2>7. WrittenTo(fp, f, s, v, ex)
    <3>1. c = "U_FLASH" => fp["U_FLASH"].magic = FALSE /\ s.firmware
      BY <1>4, <2>5
    <3>2. fp[c] = pr
      BY <1>4
    <3> HIDE DEF fp, old
    <3> QED BY <2>1, <2>6, <3>1, <3>2 DEF WrittenTo
  <2> QED BY <1>8, <2>4, <2>7 DEF v
<1> HIDE DEF w, fe, fp
<1> QED BY <1>0, <1>4, <1>5, <1>7, <1>8 DEF w

LEMMA UnitsTaken ==
  ASSUME NEW n \in Nat, Len(streams) \in Nat, unitsRead \in Nat
  PROVE  /\ TakeUnits(n) \in Seq(Units) /\ Len(TakeUnits(n)) = n
         /\ \A k \in 1 .. n : TakeUnits(n)[k] = <<Len(streams), unitsRead + k>>
<1> DEFINE f == Len(streams)
           m == [k \in 1 .. n |-> <<f, unitsRead + k>>]
<1> HIDE DEF f
<1>1. f \in Nat
  BY DEF f
<1>2. \A k \in 1 .. n : <<f, unitsRead + k>> \in Units
  BY <1>1 DEF Units
<1>3. m \in [1 .. n -> Units]
  BY <1>2
<1>4. m \in Seq(Units)
  BY <1>3, SeqDef
<1>5. DOMAIN m = 1 .. Len(m) /\ Len(m) \in Nat
  BY <1>4, LenProperties
<1>6. Len(m) = n
  BY <1>3, <1>5
<1>7. \A k \in 1 .. n : m[k] = <<f, unitsRead + k>>
  OBVIOUS
<1> QED BY <1>4, <1>6, <1>7 DEF TakeUnits, f

LEMMA BufferFilled ==
  ASSUME NEW n \in Nat, NEW s, Len(streams) \in Nat, updater \in Updater, unitsRead \in Nat,
         FromStream(Len(streams), s, updater, unitsRead), unitsRead + n <= s.len, Len(updater.buffer) + n <= SECTOR
  PROVE  LET u == [updater EXCEPT !.buffer = @ \o TakeUnits(n)]
         IN  /\ u \in Updater /\ FromStream(Len(streams), s, u, unitsRead + n)
             /\ Len(u.buffer) = Len(updater.buffer) + n
             /\ u.size = updater.size /\ u.progress = updater.progress
             /\ u.partition = updater.partition /\ u.target = updater.target
<1> DEFINE f == Len(streams)
           u == updater
           nread == unitsRead
           m == TakeUnits(n)
           v == [updater EXCEPT !.buffer = @ \o TakeUnits(n)]
<1>a. /\ f \in Nat /\ u \in Updater /\ nread \in Nat /\ FromStream(f, s, u, nread)
      /\ nread + n <= s.len /\ Len(u.buffer) + n <= SECTOR
      /\ m \in Seq(Units) /\ Len(m) = n /\ (\A k \in 1 .. n : m[k] = <<f, nread + k>>)
      /\ v = [u EXCEPT !.buffer = @ \o m]
  BY UnitsTaken
<1> HIDE DEF f, u, nread, m, v
<1>b. m \in Seq(Units) /\ Len(m) = n
  BY <1>a
<1> DEFINE b == u.buffer
           c == b \o m
<1>0. v = [u EXCEPT !.buffer = c]
  BY <1>a
<1>2. b \in Seq(Units) /\ Len(b) \in Nat /\ u.progress \in Nat
  BY <1>a, LenProperties DEF Updater
<1>3. nread = u.progress + Len(b) /\ \A k \in 1 .. Len(b) : b[k] = <<f, u.progress + k>>
  BY <1>a DEF FromStream
<1>4. c \in Seq(Units) /\ Len(c) = Len(b) + n
  BY <1>b, <1>2, ConcatProperties
<1>5. ASSUME NEW k \in 1 .. Len(b) + n PROVE c[k] = <<f, u.progress + k>>
  <2>1. CASE k <= Len(b)
    <3>1. k \in 1 .. Len(b)
      BY <1>2, <2>1
    <3>2. c[k] = b[k]
      BY <1>b, <1>2, <2>1, ConcatProperties
    <3> QED BY <1>3, <3>1, <3>2
  <2>2. CASE k > Len(b)
    <3>1. k - Len(b) \in 1 .. n
      BY <1>2, <2>2
    <3>2. c[k] = m[k - Len(b)]
      BY <1>b, <1>2, <2>2, ConcatProperties
    <3>3. m[k - Len(b)] = <<f, nread + (k - Len(b))>>
      BY <1>a, <3>1
    <3>4. nread + (k - Len(b)) = u.progress + k
      BY <1>a, <1>2, <1>3
    <3> QED BY <3>2, <3>3, <3>4
  <2>3. k <= Len(b) \/ k > Len(b)
    BY <1>2
  <2> QED BY <2>1, <2>2, <2>3
<1> HIDE DEF c
<1>6. /\ v \in Updater /\ v.buffer = c
      /\ v.size = u.size /\ v.progress = u.progress /\ v.error = u.error
      /\ v.command = u.command /\ v.partition = u.partition /\ v.target = u.target /\ v.added = u.added
  BY <1>a, <1>0, <1>4 DEF Updater
<1> HIDE DEF b
<1>7. FromStream(f, s, v, nread + n)
  <2>1. nread + n = v.progress + Len(v.buffer)
    <3>1. nread = u.progress + Len(b) /\ v.progress = u.progress /\ Len(v.buffer) = Len(b) + n
      BY <1>3, <1>4, <1>6
    <3> QED BY <1>2, <3>1
  <2>2. Len(v.buffer) <= SECTOR
    BY <1>a, <1>4, <1>6 DEF b
  <2>3. \A k \in 1 .. Len(v.buffer) : v.buffer[k] = <<f, v.progress + k>>
    BY <1>4, <1>5, <1>6
  <2> QED BY <1>a, <1>6, <2>1, <2>2, <2>3 DEF FromStream
<1> QED BY <1>4, <1>6, <1>7 DEF f, u, nread, m, v, c, b

LEMMA AbortedIs ==
  ASSUME NEW u \in Updater
  PROVE  /\ Aborted(u) \in Updater /\ Aborted(u).size = 0 /\ Aborted(u).progress = 0
         /\ Aborted(u).buffer = <<>> /\ Aborted(u).target = u.target /\ Aborted(u).error = TRUE
         /\ Aborted(u).added = u.added
<1> DEFINE r == Reset(u)
<1>1. r \in Updater /\ Aborted(u) = [r EXCEPT !.error = TRUE]
  BY UpdaterReset DEF Aborted
<1> HIDE DEF r
<1>2. Aborted(u).error = TRUE
  BY <1>1 DEF Updater
<1> QED BY <1>2, UpdaterReset

(* The stream an update that runs reads.                                    *)
LEMMA RunningStream ==
  ASSUME StreamIInv, updater.size > 0
  PROVE  /\ Len(streams) \in Nat /\ Len(streams) > 0 /\ streams[Len(streams)] \in Streams
         /\ FileOf(Len(streams)) = streams[Len(streams)]
         /\ updater \in Updater /\ flash \in Flashes /\ unitsRead \in Nat
         /\ Underway(streams, updater, unitsRead, inStream, flash, excuses)
<1>1. /\ streams \in Seq(Streams) /\ streams # <<>>
      /\ updater \in Updater /\ flash \in Flashes /\ unitsRead \in Nat
      /\ Underway(streams, updater, unitsRead, inStream, flash, excuses)
  BY DEF StreamIInv, Underway
<1>2. Len(streams) \in Nat /\ Len(streams) > 0
  BY <1>1, LenProperties, EmptySeq
<1>3. Len(streams) \in 1 .. Len(streams)
  BY <1>2
<1>4. streams[Len(streams)] \in Streams
  BY <1>1, <1>3, ElementOfSeq
<1>5. FileOf(Len(streams)) = streams[Len(streams)]
  BY <1>2 DEF FileOf
<1> QED BY <1>1, <1>2, <1>4, <1>5

(* n more units behind the buffer, which is then written or not.            *)
LEMMA Received ==
  ASSUME StreamIInv, updater.size > 0, NEW n \in Nat, NEW mishap, NEW full \in BOOLEAN, NEW ex,
         n <= LeftToRead, n <= SECTOR - Len(updater.buffer), excuses \subseteq ex,
         full => \/ updater.progress # updater.size /\ Len(updater.buffer) + n > 0
                 \/ updater.progress = updater.size /\ Len(updater.buffer) + n = 0 /\ "over" \in ex
  PROVE  LET f == Len(streams)
             s == streams[f]
             u == [updater EXCEPT !.buffer = @ \o TakeUnits(n)]
             w == WriteBuffer(u, mishap)
             v == IF full THEN w.u ELSE u
             l == IF full THEN w.flash ELSE flash
         IN  /\ l \in Flashes /\ v \in Updater /\ v.target = updater.target
             /\ \/ v.size = 0 /\ v.progress = 0 /\ v.buffer = <<>> /\ v.error = TRUE
                \/ /\ FromStream(f, s, v, unitsRead + n) /\ WrittenTo(l, f, s, v, ex)
                   /\ v.progress = IF full THEN unitsRead + n ELSE updater.progress
                   /\ full => v.buffer = <<>>
             /\ Startable(streams, flash) => Startable(streams, l)
             /\ Untouched(flash) /\ updater.progress < SIZE /\ unitsRead + n <= SIZE => Untouched(l)
<1> DEFINE f == Len(streams)
           s == streams[f]
           m == unitsRead + n
           u == [updater EXCEPT !.buffer = @ \o TakeUnits(n)]
           w == WriteBuffer(u, mishap)
<1>1. /\ f \in Nat /\ s \in Streams /\ FileOf(f) = s /\ updater \in Updater /\ flash \in Flashes /\ unitsRead \in Nat
      /\ FromStream(f, s, updater, unitsRead) /\ WrittenTo(flash, f, s, updater, excuses) /\ InSectors(updater)
  BY RunningStream DEF Underway
<1>2. m \in Nat /\ m <= s.len /\ Len(updater.buffer) + n <= SECTOR /\ Len(updater.buffer) \in Nat
  <2>1. updater.buffer \in Seq(Units)
    BY <1>1 DEF Updater
  <2>2. Len(updater.buffer) \in Nat
    BY <2>1, LenProperties
  <2> QED BY <1>1, <2>2, StreamKnown, StreamSizes DEF LeftToRead
<1> HIDE DEF u
<1>4. /\ u \in Updater /\ FromStream(f, s, u, m) /\ Len(u.buffer) = Len(updater.buffer) + n
      /\ u.size = updater.size /\ u.progress = updater.progress
      /\ u.partition = updater.partition /\ u.target = updater.target
  <2> HIDE DEF s
  <2> QED BY <1>1, <1>2, BufferFilled DEF u
<1>5. WrittenTo(flash, f, s, u, ex) /\ InSectors(u)
  BY <1>1, <1>4 DEF WrittenTo, InSectors
<1>6. CASE ~full
  BY <1>1, <1>4, <1>5, <1>6 DEF u
<1>7. CASE full
  <2>1. u.buffer \in Seq(Units)
    BY <1>4 DEF Updater
  <2>2. \/ u.progress # u.size /\ u.buffer # <<>>
        \/ u.progress = u.size /\ u.buffer = <<>> /\ "over" \in ex
    BY <1>2, <1>4, <1>7, <2>1, EmptySeq
  <2>3. /\ w.flash \in Flashes
        /\ \/ w.u = Aborted(u)
           \/ w.u = Flushed(u) /\ FromStream(f, s, w.u, m) /\ WrittenTo(w.flash, f, s, w.u, ex)
        /\ Startable(streams, flash) => Startable(streams, w.flash)
        /\ Untouched(flash) /\ u.progress < SIZE /\ m <= SIZE => Untouched(w.flash)
    BY <1>1, <1>2, <1>4, <1>5, <2>2, BufferWritten
  <2>4. m = u.progress + Len(u.buffer)
    BY <1>4 DEF FromStream
  <2>5. CASE w.u = Aborted(u)
    BY <1>4, <1>7, <2>3, <2>5, AbortedIs DEF u
  <2>6. CASE w.u = Flushed(u) /\ FromStream(f, s, w.u, m) /\ WrittenTo(w.flash, f, s, w.u, ex)
    BY <1>4, <1>7, <2>3, <2>4, <2>6, FlushedIs DEF u
  <2> QED BY <2>3, <2>5, <2>6
<1> QED BY <1>6, <1>7

LEMMA ReadStreamKeeps ==
  ASSUME StreamIInv, NEW n \in 0 .. FLASH, NEW mishap, readStream(n, mishap)
  PROVE  StreamIInv'
<1> DEFINE f == Len(streams)
           s == streams[f]
           u == [updater EXCEPT !.buffer = @ \o TakeUnits(n)]
           w == WriteBuffer(u, mishap)
           full == FullBuffer(Len(u.buffer))
           v == IF full THEN w.u ELSE u
           l == IF full THEN w.flash ELSE flash
<1>1. inStream # "no" /\ updater.size > 0
  BY DEF readStream, StreamIInv, NoUpdate
<1>2. /\ f \in Nat /\ s \in Streams /\ updater \in Updater /\ flash \in Flashes /\ unitsRead \in Nat
      /\ FromStream(f, s, updater, unitsRead) /\ WrittenTo(flash, f, s, updater, excuses) /\ InSectors(updater)
      /\ LoopKnown(s, updater, inStream, excuses) /\ streams # <<>>
  BY <1>1, RunningStream DEF Underway
<1>3. /\ UNCHANGED <<streams, bootOther, excuses>>
      /\ n \in Nat /\ n <= LeftToRead /\ n <= SECTOR - Len(updater.buffer)
  BY StreamSizes DEF readStream
<1>4. CASE n = 0
  <2>1. NothingRead
    BY <1>4 DEF readStream
  <2>2. CASE inStream = "late"
    <3>1. updater' = Aborted(updater) /\ inStream' = "no" /\ UNCHANGED <<unitsRead, flash>>
      BY <2>1, <2>2 DEF NothingRead
    <3>2. /\ updater' \in Updater /\ updater'.size = 0 /\ NoUpdate(updater', inStream')
          /\ updater'.target = updater.target
      BY <1>2, <3>1, AbortedIs DEF NoUpdate
    <3> QED BY <1>3, <3>1, <3>2 DEF StreamIInv
  <2>3. CASE inStream # "late"
    <3>1. inStream' = "late" /\ UNCHANGED <<updater, unitsRead, flash>>
      BY <2>1, <2>3 DEF NothingRead
    <3>2. LoopKnown(s, updater, "late", excuses)
      BY <1>1, <1>2 DEF LoopKnown
    <3>3. Underway(streams, updater, unitsRead, "late", flash, excuses)
      BY <1>2, <3>2 DEF Underway
    <3> QED BY <1>1, <1>3, <3>1, <3>3 DEF StreamIInv
  <2> QED BY <2>2, <2>3
<1>5. CASE n # 0
  <2>1. ReceiveUnits(n, FullBuffer, mishap)
    BY <1>5 DEF readStream
  <2>2. unitsRead' = unitsRead + n /\ updater' = v /\ flash' = l
    BY <2>1 DEF ReceiveUnits
  <2>3. full \in BOOLEAN
    BY DEF FullBuffer
  <2>4. Len(updater.buffer) \in Nat /\ Len(u.buffer) = Len(updater.buffer) + n /\ unitsRead + n <= s.len
        /\ unitsRead = updater.progress + Len(updater.buffer) /\ updater.size = s.image
        /\ updater.progress \in Nat /\ updater.size \in Nat /\ updater.size > 0 /\ updater.size <= SIZE
        /\ unitsRead \in Nat /\ n \in Nat /\ n > 0 /\ s.len \in Nat /\ s.len <= FLASH - SIZE
        /\ SIZE \in Nat /\ SECTOR \in Nat /\ SECTOR > 0 /\ FLASH \in Nat /\ FLASH + SECTOR < SIZE_T /\ SIZE_T \in Nat
        /\ Len(updater.buffer) + n <= SECTOR /\ SIZE > 0
    <3>1. updater.buffer \in Seq(Units) /\ updater.progress \in Nat
      BY <1>2 DEF Updater
    <3>2. Len(updater.buffer) \in Nat
      BY <3>1, LenProperties
    <3>3. unitsRead = updater.progress + Len(updater.buffer) /\ updater.size = s.image /\ updater.size \in 1 .. SIZE
      BY <1>2 DEF FromStream
    <3>4. unitsRead + n <= s.len /\ Len(updater.buffer) + n <= SECTOR
      BY <1>2, <1>3, <3>2, StreamSizes, StreamKnown DEF LeftToRead
    <3>5. Len(u.buffer) = Len(updater.buffer) + n
      BY <1>2, <1>3, <3>4, BufferFilled
    <3>6. updater.size \in Nat /\ updater.size > 0 /\ updater.size <= SIZE
      BY <3>3, StreamSizes
    <3>7. s.len \in Nat /\ s.len <= FLASH - SIZE
      BY <1>2, StreamKnown
    <3> QED BY <1>2, <1>3, <1>5, <3>1, <3>2, <3>3, <3>4, <3>5, <3>6, <3>7, StreamSizes
  <2>5. updater.progress # updater.size /\ Len(updater.buffer) + n > 0
    BY <1>1, <1>2, <1>3, <1>5, <2>4 DEF LoopKnown
  <2>6. /\ l \in Flashes /\ v \in Updater /\ v.target = updater.target
        /\ \/ v.size = 0 /\ v.progress = 0 /\ v.buffer = <<>> /\ v.error = TRUE
           \/ /\ FromStream(f, s, v, unitsRead + n) /\ WrittenTo(l, f, s, v, excuses)
              /\ v.progress = IF full THEN unitsRead + n ELSE updater.progress
              /\ full => v.buffer = <<>>
        /\ Startable(streams, flash) => Startable(streams, l)
        /\ Untouched(flash) /\ updater.progress < SIZE /\ unitsRead + n <= SIZE => Untouched(l)
    <3> HIDE DEF full
    <3> QED BY <1>1, <1>3, <2>3, <2>5, Received
  <2>7. inStream' = IF v.error \/ remainingOf(v) = 0 THEN "no" ELSE "yes"
    <3>1. inStream' = IF updater'.error \/ remainingOf(updater') = 0 THEN "no" ELSE "yes"
      BY <1>5 DEF readStream
    <3> HIDE DEF v
    <3> QED BY <2>2, <3>1
  <2>8. full => Len(updater.buffer) + n = remainingOf(updater) \/ Len(updater.buffer) + n = SECTOR
    BY <2>4 DEF FullBuffer
  <2> DEFINE p == updater.progress
             z == updater.size
             q == Len(updater.buffer)
             r == unitsRead
             k == s.len
             rem == remainingOf(updater)
  <2>n. /\ p \in Nat /\ z \in Nat /\ q \in Nat /\ r \in Nat /\ n \in Nat /\ k \in Nat /\ k <= FLASH - SIZE
        /\ z > 0 /\ z <= SIZE /\ n > 0 /\ r = p + q /\ r + n <= k /\ p # z /\ q + n <= SECTOR
        /\ SIZE \in Nat /\ SIZE > 0 /\ SECTOR \in Nat /\ SECTOR > 0 /\ FLASH \in Nat /\ FLASH > SIZE
        /\ FLASH + SECTOR < SIZE_T /\ SIZE_T \in Nat
    BY <2>4, <2>5, StreamSizes
  <2> HIDE DEF v, l, full, s, p, z, q, r, k, rem
  <2>t. rem = IF p <= z THEN z - p ELSE z - p + SIZE_T
    <3>1. p <= FLASH
      BY <2>n
    <3> QED BY <2>n, <3>1, Remaining DEF p, z, rem
  <2>9. excuses \cap {"unchecked", "over"} = {} => Startable(streams, l)
    BY <2>6 DEF StreamIInv
  <2>10. excuses \cap {"over", "longer"} = {} => Untouched(l)
    <3> SUFFICES ASSUME excuses \cap {"over", "longer"} = {} PROVE Untouched(l)
      OBVIOUS
    <3>1. s.len <= updater.size
      BY <1>1, <1>2 DEF LoopKnown
    <3>2. k <= z
      BY <3>1 DEF k, z
    <3>3. p < SIZE /\ r + n <= SIZE
      BY <2>n, <3>2
    <3>4. updater.progress < SIZE /\ unitsRead + n <= SIZE
      BY <3>3 DEF p, r
    <3> QED BY <2>6, <3>4 DEF StreamIInv
  <2>11. CASE v.size = 0 /\ v.progress = 0 /\ v.buffer = <<>> /\ v.error = TRUE
    <3>1. inStream' = "no"
      BY <2>7, <2>11
    <3>2. NoUpdate(v, inStream')
      BY <2>11, <3>1 DEF NoUpdate
    <3>3. unitsRead' \in Nat
      BY <1>2, <1>3, <2>2
    <3> QED BY <1>3, <2>2, <2>6, <2>9, <2>10, <2>11, <3>1, <3>2, <3>3 DEF StreamIInv
  <2>12. CASE /\ FromStream(f, s, v, unitsRead + n) /\ WrittenTo(l, f, s, v, excuses)
              /\ v.progress = IF full THEN unitsRead + n ELSE updater.progress
              /\ full => v.buffer = <<>>
    <3> DEFINE vp == v.progress
               vz == v.size
    <3>1. v.error = FALSE /\ vz = z
      BY <2>4, <2>12 DEF FromStream, z
    <3>2. (full /\ vp = r + n) \/ (~full /\ vp = p)
      BY <2>12 DEF r, p
    <3> HIDE DEF vp, vz
    <3>3. vp \in Nat /\ vp <= FLASH - SIZE
      BY <2>n, <3>2
    <3>4. remainingOf(v) = IF vp <= vz THEN vz - vp ELSE vz - vp + SIZE_T
      <4>1. vp <= FLASH
        BY <2>n, <3>3
      <4> QED BY <2>n, <3>1, <3>3, <4>1, Remaining DEF vp, vz
    <3>5. remainingOf(v) = 0 <=> v.progress = v.size
      <4>1. remainingOf(v) = 0 <=> vp = vz
        BY <2>n, <3>1, <3>3, <3>4
      <4> QED BY <4>1 DEF vp, vz
    <3>6. InSectors(v)
      <4>1. CASE ~full
        <5>1. v.progress = updater.progress /\ v.size = updater.size
          BY <3>1, <3>2, <4>1 DEF vp, vz, p, z
        <5> QED BY <1>2, <5>1 DEF InSectors
      <4>2. CASE full /\ q + n = SECTOR
        <5>1. vp = p + SECTOR
          BY <2>n, <3>2, <4>2
        <5>2. p % SECTOR = 0
          BY <1>2, <2>5 DEF InSectors, p
        <5>3. vp % SECTOR = 0
          BY <2>n, <5>1, <5>2, NextSector
        <5> QED BY <5>3 DEF InSectors, vp
      <4>3. CASE full /\ q + n = rem
        <5>1. p <= z
          BY <2>n, <2>t, <4>3
        <5>2. vp = vz
          BY <2>n, <2>t, <3>1, <3>2, <4>3, <5>1
        <5> QED BY <5>2 DEF InSectors, vp, vz
      <4> QED BY <2>8, <3>2, <4>1, <4>2, <4>3 DEF q, rem
    <3>7. inStream' = IF v.progress = v.size THEN "no" ELSE "yes"
      BY <2>7, <3>1, <3>5
    <3>8. LoopKnown(s, v, inStream', excuses)
      <4>1. CASE v.progress = v.size
        <5>1. full
          BY <2>n, <3>1, <3>2, <4>1 DEF vp, vz
        <5>2. Len(v.buffer) = 0
          BY <2>12, <5>1
        <5>3. v.progress + Len(v.buffer) <= v.size
          BY <3>3, <4>1, <5>2 DEF vp
        <5> QED BY <3>7, <4>1, <5>3 DEF LoopKnown
      <4>2. CASE v.progress # v.size
        BY <1>1, <1>2, <3>1, <3>7, <4>2 DEF LoopKnown, vz, z
      <4> QED BY <4>1, <4>2
    <3>9. Underway(streams, v, unitsRead', inStream', l, excuses)
      BY <1>2, <2>2, <2>12, <3>6, <3>8 DEF Underway, s
    <3>10. v.size > 0
      BY <2>n, <3>1 DEF vz
    <3>11. unitsRead' \in Nat /\ inStream' \in {"no", "yes", "late"}
      BY <1>2, <1>3, <2>2, <3>7
    <3> QED BY <1>3, <2>2, <2>6, <2>9, <2>10, <3>9, <3>10, <3>11 DEF StreamIInv
  <2> QED BY <2>6, <2>11, <2>12
<1> QED BY <1>4, <1>5

LEMMA WriteAvailableKeeps ==
  ASSUME StreamIInv, NEW ready \in 0 .. FLASH, NEW mishap, writeAvailable(ready, mishap)
  PROVE  StreamIInv'
<1> DEFINE f == Len(streams)
           s == streams[f]
           t == Takes(ready)
           over == Len(updater.buffer) + t > SECTOR
           m == IF over THEN SECTOR - Len(updater.buffer) ELSE t
           full(len) == over \/ len = remainingOf(updater)
           u == [updater EXCEPT !.buffer = @ \o TakeUnits(m)]
           w == WriteBuffer(u, mishap)
           fl == full(Len(u.buffer))
           v == IF fl THEN w.u ELSE u
           l == IF fl THEN w.flash ELSE flash
           ex == excuses \cup (IF remainingOf(updater) = 0 THEN {"over"} ELSE {})
<1>1. /\ inStream = "no" /\ updater.size > 0 /\ ready \in 1 .. LeftToRead
      /\ UNCHANGED <<streams, inStream, bootOther>> /\ excuses' = ex
  BY DEF writeAvailable, UpdateCall, Running
<1>2. unitsRead' = unitsRead + m /\ updater' = v /\ flash' = l
  <2>1. ReceiveUnits(m, full, mishap)
    BY DEF writeAvailable
  <2> HIDE DEF m
  <2> QED BY <2>1 DEF ReceiveUnits
<1>3. /\ f \in Nat /\ s \in Streams /\ updater \in Updater /\ flash \in Flashes /\ unitsRead \in Nat
      /\ FromStream(f, s, updater, unitsRead) /\ WrittenTo(flash, f, s, updater, excuses) /\ InSectors(updater)
      /\ LoopKnown(s, updater, inStream, excuses) /\ streams # <<>>
  BY <1>1, RunningStream DEF Underway
<1>4. Len(updater.buffer) \in Nat /\ updater.progress \in Nat
  <2>1. updater.buffer \in Seq(Units) /\ updater.progress \in Nat
    BY <1>3 DEF Updater
  <2> QED BY <2>1, LenProperties
<1> DEFINE p == updater.progress
           z == updater.size
           q == Len(updater.buffer)
           r == unitsRead
           k == s.len
           rem == remainingOf(updater)
<1>5. /\ p \in Nat /\ z \in Nat /\ q \in Nat /\ r \in Nat /\ k \in Nat /\ k <= FLASH - SIZE
      /\ z > 0 /\ z <= SIZE /\ r = p + q /\ r <= k /\ p + q <= z /\ q <= SECTOR
      /\ SIZE \in Nat /\ SIZE > 0 /\ SECTOR \in Nat /\ SECTOR > 0 /\ FLASH \in Nat /\ FLASH > SIZE
  <2>1. z \in 1 .. SIZE /\ r = p + q /\ r <= k /\ q <= SECTOR
    BY <1>3 DEF FromStream
  <2>2. z \in Nat /\ z > 0 /\ z <= SIZE
    BY <2>1, StreamSizes
  <2>3. k \in Nat /\ k <= FLASH - SIZE
    BY <1>3, StreamKnown
  <2>4. p + q <= z
    BY <1>1, <1>3 DEF LoopKnown
  <2> QED BY <1>3, <1>4, <2>1, <2>2, <2>3, <2>4, StreamSizes
<1>6. t = (IF q + ready > rem THEN rem - q ELSE ready) /\ ready \in Nat /\ r + ready <= k /\ LeftToRead = k - r
  <2>1. LeftToRead = k - r
    BY DEF LeftToRead
  <2> HIDE DEF q, rem, k, r
  <2>2. ready \in Nat /\ r + ready <= k
    BY <1>1, <1>5, <2>1
  <2> QED BY <2>1, <2>2 DEF Takes, q, rem
<1>7. rem = z - p
  <2> HIDE DEF p, z, q, r, k
  <2>1. p <= FLASH /\ p <= z
    BY <1>5
  <2> QED BY <1>5, <2>1, Remaining DEF p, z
<1>8. over <=> q + t > SECTOR
  OBVIOUS
<1>9. m = IF over THEN SECTOR - q ELSE t
  OBVIOUS
<1> HIDE DEF p, z, q, r, k, rem, t, over, m
<1>10. t \in Nat /\ t <= ready /\ q + t <= rem
  BY <1>5, <1>6, <1>7
<1>11. /\ m \in Nat /\ q + m <= rem /\ q + m <= SECTOR /\ r + m <= k /\ m <= k - r
       /\ over => q + m = SECTOR
  <2>1. CASE over
    BY <1>5, <1>6, <1>7, <1>8, <1>9, <1>10, <2>1
  <2>2. CASE ~over
    BY <1>5, <1>6, <1>7, <1>8, <1>9, <1>10, <2>2
  <2> QED BY <2>1, <2>2
<1>12. m \in Nat /\ m <= LeftToRead /\ m <= SECTOR - Len(updater.buffer) /\ unitsRead + m <= s.len
       /\ Len(updater.buffer) + m <= SECTOR
  BY <1>5, <1>6, <1>11 DEF q, r, k
<1>13. Len(u.buffer) = q + m
  BY <1>3, <1>12, BufferFilled DEF q
<1>14. (fl <=> (over \/ q + m = rem)) /\ fl \in BOOLEAN
  BY <1>13 DEF rem
<1> HIDE DEF u, w, fl, ex
<1>15. fl => \/ p # z /\ q + m > 0
             \/ p = z /\ q + m = 0 /\ "over" \in ex
  <2>1. CASE p = z
    <3>1. rem = 0 /\ q + m = 0
      BY <1>5, <1>7, <1>11, <2>1
    <3> QED BY <2>1, <3>1 DEF ex, rem
  <2>2. CASE p # z
    <3>1. rem > 0 /\ SECTOR > 0
      BY <1>5, <1>7, <2>2
    <3>2. fl => q + m = SECTOR \/ q + m = rem
      BY <1>11, <1>14
    <3> QED BY <2>2, <3>1, <3>2
  <2> QED BY <2>1, <2>2
<1>16. excuses \subseteq ex
  BY DEF ex
<1>17. /\ l \in Flashes /\ v \in Updater /\ v.target = updater.target
       /\ \/ v.size = 0 /\ v.progress = 0 /\ v.buffer = <<>> /\ v.error = TRUE
          \/ /\ FromStream(f, s, v, unitsRead + m) /\ WrittenTo(l, f, s, v, ex)
             /\ v.progress = IF fl THEN unitsRead + m ELSE updater.progress
             /\ fl => v.buffer = <<>>
       /\ Startable(streams, flash) => Startable(streams, l)
       /\ Untouched(flash) /\ updater.progress < SIZE /\ unitsRead + m <= SIZE => Untouched(l)
  <2>1. fl => \/ updater.progress # updater.size /\ Len(updater.buffer) + m > 0
              \/ updater.progress = updater.size /\ Len(updater.buffer) + m = 0 /\ "over" \in ex
    BY <1>15 DEF p, z, q
  <2> QED BY <1>1, <1>12, <1>14, <1>16, <2>1, Received DEF u, w
<1> HIDE DEF v, l, s
<1>18. ex \cap {"unchecked", "over"} = {} => Startable(streams, l)
  BY <1>16, <1>17 DEF StreamIInv
<1>19. ex \cap {"over", "longer"} = {} => Untouched(l)
  <2> SUFFICES ASSUME ex \cap {"over", "longer"} = {} PROVE Untouched(l)
    OBVIOUS
  <2>1. rem # 0
    BY DEF ex, rem
  <2>2. p < SIZE /\ r + m <= SIZE
    BY <1>5, <1>7, <1>11, <2>1
  <2>3. Untouched(flash)
    BY <1>16 DEF StreamIInv
  <2> QED BY <1>17, <2>2, <2>3 DEF p, r
<1>20. ex \subseteq {"unchecked", "over", "longer"} /\ unitsRead' \in Nat
  <2>1. r + m \in Nat
    BY <1>5, <1>11
  <2> QED BY <1>2, <2>1 DEF ex, StreamIInv, r
<1>21. CASE v.size = 0 /\ v.progress = 0 /\ v.buffer = <<>> /\ v.error = TRUE
  <2>1. NoUpdate(v, inStream)
    BY <1>1, <1>21 DEF NoUpdate
  <2> QED BY <1>1, <1>2, <1>17, <1>18, <1>19, <1>20, <1>21, <2>1 DEF StreamIInv
<1>22. CASE /\ FromStream(f, s, v, unitsRead + m) /\ WrittenTo(l, f, s, v, ex)
            /\ v.progress = IF fl THEN unitsRead + m ELSE updater.progress
            /\ fl => v.buffer = <<>>
  <2> DEFINE vp == v.progress
             vz == v.size
  <2>1. vz = z /\ vp + Len(v.buffer) = r + m
    BY <1>3, <1>22 DEF FromStream, z, r
  <2>2. (fl /\ vp = r + m) \/ (~fl /\ vp = p)
    BY <1>22 DEF r, p
  <2> HIDE DEF vp, vz
  <2>3. InSectors(v)
    <3>1. CASE ~fl
      <4>1. v.progress = updater.progress /\ v.size = updater.size
        BY <2>1, <2>2, <3>1 DEF vp, vz, p, z
      <4> QED BY <1>3, <4>1 DEF InSectors
    <3>2. CASE fl /\ p # z /\ q + m # rem
      <4>1. vp = p + SECTOR
        <5>1. over /\ q + m = SECTOR /\ vp = r + m
          BY <1>11, <1>14, <2>2, <3>2
        <5> QED BY <1>5, <1>11, <5>1
      <4>2. p % SECTOR = 0
        BY <1>3, <3>2 DEF InSectors, p, z
      <4>3. vp % SECTOR = 0
        <5>1. p \in Nat /\ SECTOR \in Nat /\ SECTOR > 0
          BY <1>5
        <5> QED BY <4>1, <4>2, <5>1, NextSector
      <4> QED BY <4>3 DEF InSectors, vp
    <3>3. CASE fl /\ (p = z \/ q + m = rem)
      <4>1. vp = vz
        BY <1>5, <1>7, <1>11, <2>1, <2>2, <3>3
      <4> QED BY <4>1 DEF InSectors, vp, vz
    <3> QED BY <3>1, <3>2, <3>3
  <2>4. LoopKnown(s, v, inStream, ex)
    <3>1. r + m <= z
      BY <1>5, <1>7, <1>11
    <3>2. v.progress + Len(v.buffer) <= v.size
      BY <2>1, <3>1 DEF vp, vz
    <3> QED BY <1>1, <3>2 DEF LoopKnown
  <2>5. Underway(streams, v, unitsRead', inStream, l, ex)
    BY <1>2, <1>3, <1>22, <2>3, <2>4 DEF Underway, s
  <2>6. v.size > 0
    BY <1>5, <2>1 DEF vz
  <2> QED BY <1>1, <1>2, <1>17, <1>18, <1>19, <1>20, <2>5, <2>6 DEF StreamIInv
<1> QED BY <1>17, <1>21, <1>22

LEMMA RunningNumbers ==
  ASSUME StreamIInv, updater.size > 0
  PROVE  /\ updater.progress \in Nat /\ Len(updater.buffer) \in Nat /\ unitsRead \in Nat
         /\ updater.size \in Nat /\ updater.size <= SIZE /\ updater.size = streams[Len(streams)].image
         /\ unitsRead = updater.progress + Len(updater.buffer)
         /\ streams[Len(streams)].len \in Nat /\ unitsRead <= streams[Len(streams)].len
         /\ streams[Len(streams)].len <= FLASH - SIZE
         /\ inStream = "no" => updater.progress + Len(updater.buffer) <= updater.size
<1>1. updater.buffer \in Seq(Units) /\ updater.progress \in Nat
  BY RunningStream DEF Updater
<1>2. Len(updater.buffer) \in Nat
  BY <1>1, LenProperties
<1>3. /\ unitsRead \in Nat /\ updater.size \in 1 .. SIZE /\ updater.size = streams[Len(streams)].image
      /\ unitsRead = updater.progress + Len(updater.buffer) /\ unitsRead <= streams[Len(streams)].len
  BY RunningStream DEF Underway, FromStream
<1>4. streams[Len(streams)].len \in Nat /\ streams[Len(streams)].len <= FLASH - SIZE
  BY RunningStream, StreamKnown
<1>5. inStream = "no" => updater.progress + Len(updater.buffer) <= updater.size
  BY RunningStream DEF Underway, LoopKnown
<1>6. updater.size \in Nat /\ updater.size <= SIZE
  BY <1>3, StreamSizes
<1> QED BY <1>1, <1>2, <1>3, <1>4, <1>5, <1>6

LEMMA WriteStreamKeeps ==
  ASSUME StreamIInv, NEW come \in BOOLEAN, writeStream(come)
  PROVE  StreamIInv'
<1> DEFINE f == Len(streams)
           s == streams[f]
           p == updater.progress
           z == updater.size
           q == Len(updater.buffer)
           r == unitsRead
           k == s.len
           rem == remainingOf(updater)
           ex == excuses \cup (IF LeftToRead + Len(updater.buffer) > remainingOf(updater) THEN {"longer"} ELSE {})
<1>1. /\ inStream = "no" /\ updater.size > 0
      /\ UNCHANGED <<streams, unitsRead, flash, bootOther>> /\ excuses' = ex
  BY DEF writeStream, UpdateCall, Running
<1>2. /\ f \in Nat /\ s \in Streams /\ updater \in Updater /\ flash \in Flashes
      /\ FromStream(f, s, updater, unitsRead) /\ WrittenTo(flash, f, s, updater, excuses) /\ InSectors(updater)
      /\ LoopKnown(s, updater, inStream, excuses) /\ streams # <<>>
  BY <1>1, RunningStream DEF Underway
<1>3. /\ p \in Nat /\ z \in Nat /\ q \in Nat /\ r \in Nat /\ k \in Nat
      /\ z <= SIZE /\ r = p + q /\ r <= k /\ p + q <= z
      /\ SIZE \in Nat /\ FLASH \in Nat /\ FLASH > SIZE
  BY <1>1, RunningNumbers, StreamSizes
<1>4. LeftToRead = k - r
  BY DEF LeftToRead
<1>5. rem = z - p
  <2> HIDE DEF p, z, q, r, k
  <2>1. p <= FLASH /\ p <= z
    BY <1>3
  <2> QED BY <1>3, <2>1, Remaining DEF p, z
<1>6. (k - r) + q > rem => "longer" \in ex
  BY <1>4 DEF LeftToRead
<1>7. excuses \subseteq ex /\ ("over" \in ex => "over" \in excuses) /\ ex \subseteq {"unchecked", "over", "longer"}
  BY DEF StreamIInv
<1> HIDE DEF p, z, q, r, k, rem, ex
<1>8. ex \cap {"unchecked", "over"} = {} => Startable(streams, flash)
  BY <1>7 DEF StreamIInv
<1>9. ex \cap {"over", "longer"} = {} => Untouched(flash)
  BY <1>7 DEF StreamIInv
<1>10. CASE _verifyHeader(come)
  <2>1. inStream' = (IF rem # 0 THEN "yes" ELSE "no") /\ updater' = updater
    BY <1>10 DEF writeStream, rem
  <2>2. rem # 0 => p # z
    BY <1>3, <1>5
  <2>3. "longer" \notin ex => k <= z
    <3> SUFFICES ASSUME "longer" \notin ex PROVE k <= z
      OBVIOUS
    <3>1. ~((k - r) + q > rem)
      BY <1>6
    <3> QED BY <1>3, <1>5, <3>1
  <2>4. LoopKnown(s, updater, inStream', ex)
    <3>1. CASE rem # 0
      BY <2>1, <2>2, <2>3, <3>1 DEF LoopKnown, p, z, k
    <3>2. CASE rem = 0
      BY <1>1, <1>2, <2>1, <3>2 DEF LoopKnown
    <3> QED BY <3>1, <3>2
  <2>5. WrittenTo(flash, f, s, updater, ex)
    BY <1>2, <1>7 DEF WrittenTo
  <2>6. Underway(streams, updater, unitsRead, inStream', flash, ex)
    BY <1>2, <2>4, <2>5 DEF Underway
  <2>7. inStream' \in {"no", "yes", "late"}
    BY <2>1
  <2> HIDE DEF s, f
  <2> QED BY <1>1, <1>7, <1>8, <1>9, <2>1, <2>6, <2>7 DEF StreamIInv
<1>11. CASE ~_verifyHeader(come)
  <2>1. updater' = Aborted(updater) /\ inStream' = inStream
    BY <1>11 DEF writeStream
  <2>2. updater' \in Updater /\ updater'.size = 0 /\ NoUpdate(updater', inStream) /\ updater'.target = updater.target
    BY <1>1, <1>2, <2>1, AbortedIs DEF NoUpdate
  <2> QED BY <1>1, <1>7, <1>8, <1>9, <2>1, <2>2 DEF StreamIInv
<1> QED BY <1>10, <1>11

LEMMA AbortKeeps ==
  ASSUME StreamIInv, abortUpdate
  PROVE  StreamIInv'
<1>1. /\ inStream = "no" /\ updater' = Aborted(updater)
      /\ UNCHANGED <<streams, unitsRead, inStream, flash, bootOther, excuses>>
  BY DEF abortUpdate, UpdateCall
<1>2. updater' \in Updater /\ updater'.size = 0 /\ NoUpdate(updater', inStream) /\ updater'.target = updater.target
  BY <1>1, AbortedIs DEF StreamIInv, NoUpdate
<1> QED BY <1>1, <1>2 DEF StreamIInv

LEMMA RollBackKeeps ==
  ASSUME StreamIInv, rollBack
  PROVE  StreamIInv'
BY DEF StreamIInv, rollBack

LEMMA SetMD5Keeps ==
  ASSUME StreamIInv, setMD5
  PROVE  StreamIInv'
<1> DEFINE f == Len(streams)
           s == streams[f]
           t == FileUnits(f, s.image)
           u == [updater EXCEPT !.target = t]
<1>1. /\ streams # <<>> /\ updater' = u
      /\ UNCHANGED <<streams, unitsRead, inStream, flash, bootOther, excuses>>
  BY DEF setMD5
<1>2. streams \in Seq(Streams) /\ updater \in Updater
  BY DEF StreamIInv
<1>3. f \in Nat /\ f \in 1 .. Len(streams) /\ s \in Streams
  <2>1. f \in Nat /\ f > 0
    BY <1>1, <1>2, LenProperties, EmptySeq
  <2>2. f \in 1 .. Len(streams)
    BY <2>1
  <2> QED BY <1>2, <2>1, <2>2, ElementOfSeq
<1>4. t \in Seq(Units)
  BY <1>3, StreamKnown, FileUnitsAre
<1> HIDE DEF t
<1>5. /\ u \in Updater /\ u.target = t /\ u.size = updater.size /\ u.progress = updater.progress
      /\ u.buffer = updater.buffer /\ u.error = updater.error /\ u.command = updater.command
      /\ u.partition = updater.partition /\ u.added = updater.added
  BY <1>2, <1>4 DEF Updater
<1> HIDE DEF u
<1>6. TargetKnown(streams, u.target)
  BY <1>3, <1>5 DEF TargetKnown, t
<1>7. CASE updater.size = 0
  <2>1. NoUpdate(u, inStream)
    BY <1>5, <1>7 DEF StreamIInv, NoUpdate
  <2> QED BY <1>1, <1>5, <1>6, <1>7, <2>1 DEF StreamIInv
<1>8. CASE updater.size > 0
  <2>1. Underway(streams, updater, unitsRead, inStream, flash, excuses)
    BY <1>8, RunningStream
  <2>2. /\ FromStream(f, s, u, unitsRead) /\ WrittenTo(flash, f, s, u, excuses) /\ InSectors(u)
        /\ LoopKnown(s, u, inStream, excuses)
    BY <1>5, <2>1 DEF Underway, FromStream, WrittenTo, InSectors, LoopKnown
  <2>3. Underway(streams, u, unitsRead, inStream, flash, excuses)
    BY <1>1, <2>2 DEF Underway
  <2> QED BY <1>1, <1>5, <1>6, <1>8, <2>3 DEF StreamIInv
<1> QED BY <1>7, <1>8 DEF StreamIInv

LEMMA BeginUpdateKeeps ==
  ASSUME StreamIInv, NEW s \in Streams, NEW command \in UpdateCommands, beginUpdate(s, command)
  PROVE  StreamIInv'
<1> DEFINE ss == Append(streams, s)
           f == Len(ss)
           r == Reset(updater)
           large == s.image > SIZE
           none == <<>>
           size == IF large THEN 0 ELSE s.image
           comm == IF large THEN "U_FLASH" ELSE command
           u == [r EXCEPT !.error = large, !.partition = command, !.added = none, !.size = size, !.command = comm]
<1>1. /\ inStream = "no" /\ streams' = ss /\ unitsRead' = 0 /\ updater' = u
      /\ UNCHANGED <<inStream, flash, bootOther, excuses>>
  BY DEF beginUpdate, UpdateCall
<1>2. streams \in Seq(Streams) /\ updater \in Updater
  BY DEF StreamIInv
<1>3. ss \in Seq(Streams) /\ f = Len(streams) + 1 /\ Len(streams) \in Nat /\ ss[f] = s
      /\ \A g \in 1 .. Len(streams) : ss[g] = streams[g]
  BY <1>2, AppendProperties, LenProperties
<1>4. s.image \in Nat /\ s.image > 0 /\ s.len \in Nat /\ SIZE \in Nat /\ SECTOR \in Nat
  BY StreamKnown, StreamSizes
<1>5. r \in Updater /\ r.progress = 0 /\ r.buffer = <<>> /\ r.target = updater.target
  BY <1>2, UpdaterReset
<1>6. none \in Seq(Units) /\ large \in BOOLEAN /\ size \in Nat /\ comm \in UpdateCommands
  BY <1>4, EmptySeq DEF UpdateCommands
<1>7. (large /\ size = 0) \/ (~large /\ size = s.image /\ size <= SIZE /\ size > 0 /\ comm = command)
  BY <1>4
<1> HIDE DEF ss, f, r, large, none, size, comm
<1>8. /\ u \in Updater /\ u.size = size /\ u.progress = 0 /\ u.buffer = <<>> /\ u.target = updater.target
      /\ u.error = large /\ u.command = comm /\ u.partition = command /\ u.added = none
  BY <1>5, <1>6 DEF Updater
<1> HIDE DEF u
<1>9. TargetKnown(ss, u.target)
  <2>1. TargetKnown(streams, updater.target)
    BY DEF StreamIInv
  <2>2. CASE updater.target = NoMD5
    BY <1>8, <2>2 DEF TargetKnown
  <2>3. CASE \E g \in 1 .. Len(streams) : updater.target = FileUnits(g, streams[g].image)
    <3>1. PICK g \in 1 .. Len(streams) : updater.target = FileUnits(g, streams[g].image)
      BY <2>3
    <3>2. g \in 1 .. Len(ss) /\ ss[g] = streams[g]
      BY <1>3 DEF f
    <3> QED BY <1>8, <3>1, <3>2 DEF TargetKnown
  <2> QED BY <2>1, <2>2, <2>3 DEF TargetKnown
<1>10. Startable(streams, flash) => Startable(ss, flash)
  <2> SUFFICES ASSUME Whole(streams, flash) PROVE Whole(ss, flash)
    BY DEF Startable
  <2>1. PICK g \in 0 .. Len(streams) :
          FileIn(streams, g).firmware
          /\ \A k \in 1 .. FileIn(streams, g).image : flash["U_FLASH"].units[k - 1] = <<g, k>>
    BY DEF Whole
  <2>2. g \in 0 .. Len(ss)
    BY <1>3 DEF f
  <2>3. FileIn(ss, g) = FileIn(streams, g)
    BY <1>3 DEF FileIn
  <2> QED BY <2>1, <2>2, <2>3 DEF Whole
<1>11. excuses \cap {"unchecked", "over"} = {} => Startable(ss, flash)
  BY <1>10 DEF StreamIInv
<1>12. CASE large
  <2>1. u.size = 0 /\ NoUpdate(u, inStream)
    BY <1>1, <1>7, <1>8, <1>12 DEF NoUpdate
  <2> QED BY <1>1, <1>3, <1>8, <1>9, <1>11, <2>1 DEF StreamIInv
<1>13. CASE ~large
  <2>1. /\ u.size = s.image /\ u.size \in 1 .. SIZE /\ u.error = FALSE /\ u.command = u.partition
        /\ u.progress = 0 /\ u.buffer = <<>> /\ u.added = <<>>
    BY <1>4, <1>6, <1>7, <1>8, <1>13 DEF none
  <2>2. Len(u.buffer) = 0 /\ f \in Nat /\ f > 0 /\ ss # <<>>
    BY <1>3, <2>1, EmptySeq DEF f
  <2>3. u.added = FileUnits(f, u.progress)
    <3>1. FileUnits(f, 0) \in Seq(Units) /\ Len(FileUnits(f, 0)) = 0
      BY <2>2, FileUnitsAre
    <3>2. FileUnits(f, 0) = <<>>
      BY <3>1, EmptySeq
    <3> QED BY <2>1, <3>2
  <2>4. FromStream(f, s, u, 0)
    BY <1>4, <2>1, <2>2, <2>3 DEF FromStream
  <2>5. WrittenTo(flash, f, s, u, excuses) /\ InSectors(u)
    BY <2>1, StreamSizes DEF WrittenTo, InSectors
  <2>6. LoopKnown(s, u, inStream, excuses)
    <3>1. u.progress + Len(u.buffer) <= u.size
      BY <1>4, <2>1, <2>2
    <3> QED BY <1>1, <3>1 DEF LoopKnown
  <2>7. Underway(ss, u, 0, inStream, flash, excuses)
    BY <1>3, <2>2, <2>4, <2>5, <2>6 DEF Underway, f
  <2>8. u.size > 0 /\ 0 \in Nat
    BY <1>4, <2>1
  <2> QED BY <1>1, <1>3, <1>8, <1>9, <1>11, <2>7, <2>8 DEF StreamIInv
<1> QED BY <1>12, <1>13

(* _verifyEnd: the update is over, and only an update of the application    *)
(* touches the Flash, its magic byte.                                       *)
LEMMA VerifyEndIs ==
  ASSUME NEW u \in Updater, NEW fl \in Flashes, NEW mishap
  PROVE  LET v == VerifyEnd(u, fl, mishap)
         IN  /\ v.u \in Updater /\ v.u.size = 0 /\ v.u.progress = 0 /\ v.u.buffer = <<>> /\ v.u.target = u.target
             /\ v.boot \in BOOLEAN
             /\ \/ v.flash = fl
                \/ u.command = "U_FLASH" /\ v.flash = [fl EXCEPT ![u.partition].magic = TRUE]
<1> DEFINE v == VerifyEnd(u, fl, mishap)
           r == Reset(u)
           a == Aborted(u)
           g == [fl EXCEPT ![u.partition].magic = TRUE]
           refused == u.partition = "U_SPIFFS" \/ mishap = "activate"
<1>1. u.command \in {"U_FLASH", "U_SPIFFS"}
  BY DEF Updater, UpdateCommands
<1>2. /\ r \in Updater /\ r.size = 0 /\ r.progress = 0 /\ r.buffer = <<>> /\ r.target = u.target
      /\ a \in Updater /\ a.size = 0 /\ a.progress = 0 /\ a.buffer = <<>> /\ a.target = u.target
  BY UpdaterReset
<1>3. /\ u.command = "U_SPIFFS" => v = [u |-> r, flash |-> fl, boot |-> FALSE]
      /\ u.command = "U_FLASH" /\ mishap = "enable" => v = [u |-> a, flash |-> fl, boot |-> FALSE]
      /\ u.command = "U_FLASH" /\ mishap # "enable" =>
           v = [u |-> IF refused THEN a ELSE r, flash |-> g, boot |-> ~refused]
  BY DEF VerifyEnd
<1> HIDE DEF v, r, a, g, refused
<1>4. CASE u.command = "U_SPIFFS"
  <2>1. v.u = r /\ v.flash = fl /\ v.boot = FALSE
    BY <1>3, <1>4
  <2> QED BY <1>2, <2>1 DEF v
<1>5. CASE u.command = "U_FLASH" /\ mishap = "enable"
  <2>1. v.u = a /\ v.flash = fl /\ v.boot = FALSE
    BY <1>3, <1>5
  <2> QED BY <1>2, <2>1 DEF v
<1>6. CASE u.command = "U_FLASH" /\ mishap # "enable"
  <2>1. v.u = (IF refused THEN a ELSE r) /\ v.flash = g /\ v.boot = ~refused
    BY <1>3, <1>6
  <2>2. v.u = a \/ v.u = r
    BY <2>1
  <2> QED BY <1>2, <1>6, <2>1, <2>2 DEF v, g
<1> QED BY <1>1, <1>4, <1>5, <1>6

LEMMA MagicSet ==
  ASSUME NEW ss, NEW fl \in Flashes, NEW c \in UpdateCommands
  PROVE  LET g == [fl EXCEPT ![c].magic = TRUE]
         IN  /\ g \in Flashes
             /\ Untouched(fl) => Untouched(g)
             /\ Startable(ss, fl) /\ c = "U_FLASH" /\ Whole(ss, fl) => Startable(ss, g)
<1> DEFINE p == [fl[c] EXCEPT !.magic = TRUE]
           g == [fl EXCEPT ![c] = p]
<1>1. [fl EXCEPT ![c].magic = TRUE] = g
  OBVIOUS
<1>2. p \in Partition /\ p.units = fl[c].units
  BY DEF Flashes, Partition
<1> HIDE DEF p
<1>3. g \in Flashes /\ g[c] = p /\ \A d \in UpdateCommands : d # c => g[d] = fl[d]
  BY <1>2 DEF Flashes
<1> HIDE DEF g
<1>4. \A d \in UpdateCommands : g[d].units = fl[d].units
  BY <1>2, <1>3
<1>5. Untouched(fl) => Untouched(g)
  BY <1>4 DEF Untouched
<1>6. Startable(ss, fl) /\ c = "U_FLASH" /\ Whole(ss, fl) => Startable(ss, g)
  <2> SUFFICES ASSUME Startable(ss, fl), c = "U_FLASH", Whole(ss, fl) PROVE Startable(ss, g)
    OBVIOUS
  <2>1. g["U_SPIFFS"] = fl["U_SPIFFS"] /\ g["U_FLASH"].units = fl["U_FLASH"].units
    BY <1>3, <1>4 DEF UpdateCommands
  <2>2. Whole(ss, g)
    BY <2>1 DEF Whole
  <2> QED BY <2>1, <2>2 DEF Startable
<1> QED BY <1>1, <1>3, <1>5, <1>6

(* An MD5 that fits the units added is the one of the image they are.       *)
LEMMA MD5IsOfImage ==
  ASSUME StreamIInv, updater.size > 0, NEW p \in Nat,
         FileUnits(Len(streams), p) = updater.target, updater.target # NoMD5
  PROVE  p = updater.size
<1>1. /\ streams \in Seq(Streams) /\ Len(streams) \in Nat /\ TargetKnown(streams, updater.target)
      /\ updater.size = streams[Len(streams)].image
  BY RunningStream DEF StreamIInv, Underway, FromStream
<1>2. PICK g \in 1 .. Len(streams) : updater.target = FileUnits(g, streams[g].image)
  BY <1>1 DEF TargetKnown
<1>3. streams[g] \in Streams /\ g \in Nat
  BY <1>1, <1>2, ElementOfSeq
<1>4. streams[g].image \in Nat /\ streams[g].image > 0
  BY <1>3, StreamKnown
<1>5. g = Len(streams) /\ p = streams[g].image
  BY <1>1, <1>2, <1>3, <1>4, SameFile
<1> QED BY <1>1, <1>5

(* The last buffer of end(true): the update goes on with it or is aborted.  *)
LEMMA LastBuffer ==
  ASSUME StreamIInv, updater.size > 0, inStream = "no", NEW even \in BOOLEAN, NEW mishap
  PROVE  LET f == Len(streams)
             w == IF even /\ updater.buffer # <<>> THEN WriteBuffer(updater, mishap)
                  ELSE [u |-> updater, flash |-> flash]
         IN  /\ w.u \in Updater /\ w.u.target = updater.target /\ w.flash \in Flashes
             /\ \/ even /\ updater.buffer # <<>> /\ w.u.added = updater.added /\ w.u.command = "U_FLASH"
                \/ FromStream(f, streams[f], w.u, unitsRead) /\ WrittenTo(w.flash, f, streams[f], w.u, excuses)
             /\ Startable(streams, flash) => Startable(streams, w.flash)
             /\ Untouched(flash) => Untouched(w.flash)
<1> DEFINE f == Len(streams)
           s == streams[f]
           w == IF even /\ updater.buffer # <<>> THEN WriteBuffer(updater, mishap)
                ELSE [u |-> updater, flash |-> flash]
           x == WriteBuffer(updater, mishap)
<1>1. /\ f \in Nat /\ s \in Streams /\ FileOf(f) = s /\ updater \in Updater /\ flash \in Flashes /\ unitsRead \in Nat
      /\ FromStream(f, s, updater, unitsRead) /\ WrittenTo(flash, f, s, updater, excuses) /\ InSectors(updater)
  BY RunningStream DEF Underway
<1>2. CASE even /\ updater.buffer # <<>>
  <2>1. w = x
    BY <1>2
  <2>2. updater.buffer \in Seq(Units)
    BY <1>1 DEF Updater
  <2>3. Len(updater.buffer) # 0
    BY <1>2, <2>2, EmptySeq
  <2>4. updater.progress < updater.size /\ updater.progress < SIZE /\ unitsRead <= SIZE
    BY <2>3, RunningNumbers, StreamSizes
  <2>5. updater.progress # updater.size
    BY <2>4, RunningNumbers
  <2>6. /\ x.flash \in Flashes
        /\ \/ x.u = Aborted(updater)
           \/ x.u = Flushed(updater) /\ FromStream(f, s, x.u, unitsRead) /\ WrittenTo(x.flash, f, s, x.u, excuses)
        /\ Startable(streams, flash) => Startable(streams, x.flash)
        /\ Untouched(flash) => Untouched(x.flash)
    BY <1>1, <1>2, <2>4, <2>5, BufferWritten
  <2> HIDE DEF w, x, s
  <2>7. CASE x.u = Aborted(updater)
    BY <1>1, <1>2, <2>1, <2>6, <2>7, AbortedIs, UpdaterReset DEF w, s
  <2>8. CASE x.u = Flushed(updater) /\ FromStream(f, s, x.u, unitsRead) /\ WrittenTo(x.flash, f, s, x.u, excuses)
    BY <1>1, <2>1, <2>6, <2>8, FlushedIs DEF w, s
  <2> QED BY <2>6, <2>7, <2>8
<1>3. CASE ~(even /\ updater.buffer # <<>>)
  <2>1. w = [u |-> updater, flash |-> flash]
    BY <1>3
  <2> HIDE DEF w
  <2>2. w.u = updater /\ w.flash = flash
    BY <2>1
  <2> QED BY <1>1, <2>2 DEF w
<1> QED BY <1>2, <1>3

LEMMA EndKeeps ==
  ASSUME StreamIInv, NEW even \in BOOLEAN, NEW mishap, endUpdate(even, mishap)
  PROVE  StreamIInv'
<1> DEFINE f == Len(streams)
           s == streams[f]
           w == IF even /\ updater.buffer # <<>> THEN WriteBuffer(updater, mishap)
                ELSE [u |-> updater, flash |-> flash]
           u == IF even THEN [w.u EXCEPT !.size = w.u.progress] ELSE w.u
           bad == (~even /\ u.progress # u.size) \/ ~MD5Fits(u)
           v == IF bad THEN [u |-> Aborted(u), flash |-> w.flash, boot |-> FALSE]
                ELSE VerifyEnd(u, w.flash, mishap)
           ex == excuses \cup (IF even /\ updater.target = NoMD5 THEN {"unchecked"} ELSE {})
<1>1. /\ inStream = "no" /\ updater.size > 0
      /\ updater' = v.u /\ flash' = v.flash /\ bootOther' = (bootOther \/ v.boot) /\ excuses' = ex
      /\ UNCHANGED <<streams, unitsRead, inStream>>
  BY DEF endUpdate, UpdateCall, Running
<1>2. /\ w.u \in Updater /\ w.u.target = updater.target /\ w.flash \in Flashes
      /\ \/ even /\ updater.buffer # <<>> /\ w.u.added = updater.added /\ w.u.command = "U_FLASH"
         \/ FromStream(f, s, w.u, unitsRead) /\ WrittenTo(w.flash, f, s, w.u, excuses)
      /\ Startable(streams, flash) => Startable(streams, w.flash)
      /\ Untouched(flash) => Untouched(w.flash)
  BY <1>1, LastBuffer
<1> DEFINE y == w.u
           l == w.flash
<1> HIDE DEF w
<1>3. /\ u \in Updater /\ u.target = updater.target /\ u.added = y.added /\ u.command = y.command
      /\ u.partition = y.partition /\ u.progress = y.progress
      /\ ~even => u = y
  <2>1. CASE even
    <3>1. u = [y EXCEPT !.size = y.progress] /\ y.progress \in Nat
      BY <1>2, <2>1 DEF Updater
    <3> HIDE DEF u, y
    <3> QED BY <1>2, <2>1, <3>1 DEF Updater, y
  <2>2. CASE ~even
    BY <1>2, <2>2
  <2> QED BY <2>1, <2>2
<1> HIDE DEF y, l, u, s
<1>4. /\ streams \in Seq(Streams) /\ f \in Nat /\ f > 0 /\ s \in Streams /\ FileOf(f) = s
      /\ TargetKnown(streams, updater.target) /\ updater.size = s.image
      /\ updater.added = FileUnits(f, updater.progress)
  BY <1>1, RunningStream DEF StreamIInv, Underway, FromStream, s
<1>5. "unchecked" \notin ex /\ even => updater.target # NoMD5
  OBVIOUS
<1>6. excuses \subseteq ex /\ ("over" \in ex <=> "over" \in excuses) /\ ("longer" \in ex <=> "longer" \in excuses)
      /\ ex \subseteq {"unchecked", "over", "longer"}
  BY DEF StreamIInv
<1> HIDE DEF ex
(* An end that does not abort is the end of a whole image.                  *)
<1>7. ASSUME ~bad, ex \cap {"unchecked", "over"} = {}, u.command = "U_FLASH"
      PROVE  u.partition = "U_FLASH" /\ Whole(streams, l)
  <2>1. MD5Fits(u) /\ (~even => u.progress = u.size) /\ "over" \notin excuses /\ "unchecked" \notin ex
    BY <1>6, <1>7
  <2>2. even => u.added = updater.target /\ updater.target # NoMD5
    BY <1>3, <1>5, <2>1 DEF MD5Fits
  <2>3. CASE even /\ updater.buffer # <<>> /\ y.added = updater.added /\ y.command = "U_FLASH"
    <3>1. FileUnits(f, updater.progress) = updater.target /\ updater.target # NoMD5
      BY <1>3, <1>4, <2>2, <2>3
    <3>2. updater.progress \in Nat /\ Len(updater.buffer) \in Nat /\ updater.size \in Nat
          /\ updater.progress + Len(updater.buffer) <= updater.size
      BY <1>1, RunningNumbers
    <3>3. updater.progress = updater.size
      BY <1>1, <3>1, <3>2, MD5IsOfImage
    <3>4. Len(updater.buffer) = 0
      BY <3>2, <3>3
    <3>5. updater.buffer \in Seq(Units)
      BY <1>1, RunningStream DEF Updater
    <3> QED BY <2>3, <3>4, <3>5, EmptySeq
  <2>4. CASE FromStream(f, s, y, unitsRead) /\ WrittenTo(l, f, s, y, excuses)
    <3>1. y.added = FileUnits(f, y.progress) /\ y.size = s.image /\ y.command = y.partition /\ y.progress \in Nat
      BY <1>2, <2>4 DEF FromStream, Updater, y
    <3>2. y.progress = s.image
      <4>1. CASE even
        <5>1. FileUnits(f, y.progress) = updater.target /\ updater.target # NoMD5
          BY <1>3, <2>2, <3>1, <4>1
        <5> QED BY <1>1, <1>4, <3>1, <5>1, MD5IsOfImage
      <4>2. CASE ~even
        BY <1>3, <2>1, <3>1, <4>2
      <4> QED BY <4>1, <4>2
    <3>3. u.partition = "U_FLASH" /\ y.partition = "U_FLASH"
      BY <1>3, <1>7, <3>1
    <3>4. s.image \in Nat /\ s.image > 0
      BY <1>4, StreamKnown
    <3>5. s.firmware /\ \A k \in 0 .. s.image - 1 : l["U_FLASH"].units[k] = <<f, k + 1>>
      BY <2>1, <2>4, <3>2, <3>3, <3>4 DEF WrittenTo
    <3>6. \A k \in 1 .. s.image : l["U_FLASH"].units[k - 1] = <<f, k>>
      <4> SUFFICES ASSUME NEW k \in 1 .. s.image PROVE l["U_FLASH"].units[k - 1] = <<f, k>>
        OBVIOUS
      <4>1. k - 1 \in 0 .. s.image - 1 /\ (k - 1) + 1 = k
        BY <3>4
      <4>2. l["U_FLASH"].units[k - 1] = <<f, (k - 1) + 1>>
        BY <3>5, <4>1
      <4> QED BY <4>1, <4>2
    <3>7. FileIn(streams, f) = s /\ f \in 0 .. Len(streams)
      BY <1>4 DEF FileIn, s
    <3> HIDE DEF f
    <3> QED BY <3>3, <3>5, <3>6, <3>7 DEF Whole
  <2> QED BY <1>2, <2>3, <2>4 DEF y, l
<1>8. /\ v.u \in Updater /\ v.u.size = 0 /\ v.u.progress = 0 /\ v.u.buffer = <<>> /\ v.u.target = updater.target
      /\ v.boot \in BOOLEAN
      /\ \/ v.flash = l
         \/ ~bad /\ u.command = "U_FLASH" /\ v.flash = [l EXCEPT ![u.partition].magic = TRUE]
  <2>1. CASE bad
    <3>1. v.u = Aborted(u) /\ v.flash = l /\ v.boot = FALSE
      BY <2>1 DEF l
    <3> HIDE DEF v
    <3> QED BY <1>3, <3>1, AbortedIs
  <2>2. CASE ~bad
    <3>1. v = VerifyEnd(u, l, mishap) /\ l \in Flashes
      BY <1>2, <2>2 DEF l
    <3> HIDE DEF v, bad
    <3> QED BY <1>3, <2>2, <3>1, VerifyEndIs
  <2> QED BY <2>1, <2>2
<1> HIDE DEF v, bad
<1>9. /\ v.flash \in Flashes
      /\ ex \cap {"unchecked", "over"} = {} => Startable(streams, v.flash)
      /\ ex \cap {"over", "longer"} = {} => Untouched(v.flash)
  <2>1. /\ l \in Flashes
        /\ ex \cap {"unchecked", "over"} = {} => Startable(streams, l)
        /\ ex \cap {"over", "longer"} = {} => Untouched(l)
    BY <1>2, <1>6 DEF StreamIInv, l
  <2>2. CASE v.flash = l
    BY <2>1, <2>2
  <2>3. CASE ~bad /\ u.command = "U_FLASH" /\ v.flash = [l EXCEPT ![u.partition].magic = TRUE]
    <3>1. u.partition \in UpdateCommands
      BY <1>3 DEF Updater
    <3>2. ex \cap {"unchecked", "over"} = {} => u.partition = "U_FLASH" /\ Whole(streams, l)
      BY <1>7, <2>3
    <3> QED BY <2>1, <2>3, <3>1, <3>2, MagicSet
  <2> QED BY <1>8, <2>2, <2>3
<1>10. bootOther' \in BOOLEAN
  BY <1>1, <1>8 DEF StreamIInv
<1>11. NoUpdate(v.u, inStream)
  BY <1>1, <1>8 DEF NoUpdate
<1> QED BY <1>1, <1>4, <1>6, <1>8, <1>9, <1>10, <1>11 DEF StreamIInv

LEMMA StreamInitial == StreamInit => StreamIInv
<1> SUFFICES ASSUME StreamInit PROVE StreamIInv
  OBVIOUS
<1> DEFINE none == <<>>
           S == Seq(Units)
           C == UpdateCommands
           part(c) == [magic |-> c = "U_FLASH", units |-> [k \in 0 .. FLASH - 1 |-> <<0, k + 1>>]]
<1>1. /\ streams = <<>> /\ unitsRead = 0 /\ inStream = "no" /\ bootOther = FALSE /\ excuses = {}
      /\ updater = [size |-> 0, progress |-> 0, buffer |-> none, error |-> FALSE,
                    command |-> "U_FLASH", partition |-> "U_FLASH", added |-> none, target |-> none]
      /\ flash = [c \in C |-> part(c)]
  BY DEF StreamInit, NoMD5
<1>2. none \in S /\ "U_FLASH" \in C /\ "U_SPIFFS" \in C /\ <<>> \in Seq(Streams) /\ Len(streams) = 0
  BY <1>1, EmptySeq DEF UpdateCommands
<1>3. Updater = [size : Nat, progress : Nat, buffer : S, error : BOOLEAN, command : C, partition : C, added : S,
                 target : S]
  BY DEF Updater
<1>4. \A k \in 0 .. FLASH - 1 : <<0, k + 1>> \in Units
  BY StreamSizes DEF Units
<1>5. \A c : part(c) \in Partition
  BY <1>4 DEF Partition
<1> HIDE DEF none, S
<1>6. updater \in Updater /\ updater.size = 0 /\ updater.progress = 0 /\ updater.buffer = none /\ updater.target = none
  BY <1>1, <1>2, <1>3
<1>7. flash \in Flashes
  BY <1>1, <1>5 DEF Flashes
<1>8. /\ flash["U_FLASH"].magic = TRUE /\ flash["U_SPIFFS"].magic = FALSE
      /\ \A c \in C : \A k \in 0 .. FLASH - 1 : flash[c].units[k] = <<0, k + 1>>
  BY <1>1, <1>2
<1>9. Untouched(flash)
  <2> SUFFICES ASSUME NEW c \in C, NEW k \in SIZE .. FLASH - 1 PROVE flash[c].units[k] = <<0, k + 1>>
    BY DEF Untouched
  <2>1. k \in 0 .. FLASH - 1
    BY StreamSizes
  <2> QED BY <1>8, <2>1
<1>10. Startable(streams, flash)
  <2>1. FileIn(streams, 0) = [len |-> 1, image |-> 1, firmware |-> TRUE]
    BY DEF FileIn, OldFile
  <2>2. FileIn(streams, 0).firmware = TRUE /\ FileIn(streams, 0).image = 1
    BY <2>1
  <2>3. flash["U_FLASH"].units[0] = <<0, 1>>
    BY <1>2, <1>8, StreamSizes
  <2>4. \A k \in 1 .. FileIn(streams, 0).image : flash["U_FLASH"].units[k - 1] = <<0, k>>
    BY <2>2, <2>3
  <2>5. 0 \in 0 .. Len(streams)
    BY <1>2
  <2> QED BY <1>8, <2>2, <2>4, <2>5 DEF Startable, Whole
<1>11. NoUpdate(updater, inStream) /\ TargetKnown(streams, updater.target)
  BY <1>1, <1>6 DEF NoUpdate, TargetKnown, NoMD5, none
<1> QED BY <1>1, <1>2, <1>6, <1>7, <1>9, <1>10, <1>11 DEF StreamIInv

LEMMA StreamKept == StreamIInv /\ [StreamNext]_streamVars => StreamIInv'
<1> SUFFICES ASSUME StreamIInv, [StreamNext]_streamVars PROVE StreamIInv'
  OBVIOUS
<1>1. ASSUME NEW s \in Streams, NEW c \in UpdateCommands, beginUpdate(s, c) PROVE StreamIInv'
  BY <1>1, BeginUpdateKeeps
<1>2. CASE setMD5
  BY <1>2, SetMD5Keeps
<1>3. CASE abortUpdate
  BY <1>3, AbortKeeps
<1>4. CASE rollBack
  BY <1>4, RollBackKeeps
<1>5. ASSUME NEW come \in BOOLEAN, writeStream(come) PROVE StreamIInv'
  BY <1>5, WriteStreamKeeps
<1>6. ASSUME NEW mishap, NEW n \in 0 .. FLASH, readStream(n, mishap) PROVE StreamIInv'
  BY <1>6, ReadStreamKeeps
<1>7. ASSUME NEW mishap, NEW n \in 0 .. FLASH, writeAvailable(n, mishap) PROVE StreamIInv'
  BY <1>7, WriteAvailableKeeps
<1>8. ASSUME NEW mishap, NEW even \in BOOLEAN, endUpdate(even, mishap) PROVE StreamIInv'
  BY <1>8, EndKeeps
<1>9. CASE UNCHANGED streamVars
  BY <1>9 DEF streamVars, StreamIInv
<1> QED BY <1>1, <1>2, <1>3, <1>4, <1>5, <1>6, <1>7, <1>8, <1>9 DEF StreamNext

LEMMA StreamImplied == StreamIInv => UpdateStreamInv
<1> SUFFICES ASSUME StreamIInv PROVE UpdateStreamInv
  OBVIOUS
<1>1. updater.size = 0 => updater.progress = 0 /\ updater.buffer = <<>>
  BY DEF StreamIInv, NoUpdate
<1>2. updater \in Updater /\ flash \in Flashes /\ (updater.size = 0 \/ updater.size > 0)
  BY DEF StreamIInv
<1>3. StreamTypeOK
  <2>1. updater.size \in 0 .. SIZE + SECTOR /\ updater.progress \in 0 .. FLASH /\ Len(updater.buffer) <= SECTOR
    <3>1. CASE updater.size = 0
      <4>1. Len(updater.buffer) = 0
        BY <1>1, <3>1, EmptySeq
      <4> QED BY <1>1, <3>1, <4>1, StreamSizes
    <3>2. CASE updater.size > 0
      <4> DEFINE p == updater.progress
                 q == Len(updater.buffer)
                 z == updater.size
                 k == streams[Len(streams)].len
      <4>1. /\ p \in Nat /\ q \in Nat /\ z \in Nat /\ z <= SIZE /\ p + q <= k /\ k \in Nat /\ k <= FLASH - SIZE
            /\ SIZE \in Nat /\ FLASH \in Nat /\ SECTOR \in Nat
        BY <3>2, RunningNumbers, StreamSizes
      <4>2. q <= SECTOR
        BY <3>2, RunningStream DEF Underway, FromStream
      <4> HIDE DEF p, q, z, k
      <4>3. z \in 0 .. SIZE + SECTOR /\ p \in 0 .. FLASH
        BY <4>1
      <4> QED BY <4>2, <4>3 DEF z, p, q
    <3> QED BY <1>2, <3>1, <3>2
  <2>2. /\ updater.command \in UpdateCommands /\ updater.partition \in UpdateCommands /\ updater.error \in BOOLEAN
    BY <1>2 DEF Updater
  <2>3. flash \in [UpdateCommands -> [magic : BOOLEAN, units : [0 .. FLASH - 1 -> Nat \X Nat]]]
    BY <1>2 DEF Flashes, Partition, Units
  <2> QED BY <2>1, <2>2, <2>3 DEF StreamTypeOK, StreamIInv
<1>4. StartsWholeImage
  <2> SUFFICES ASSUME excuses \cap {"unchecked", "over"} = {}
               PROVE  (canRollBack => \E f \in 0 .. Len(streams) : HoldsImage(f)) /\ ~flash["U_SPIFFS"].magic
    BY DEF StartsWholeImage
  <2>1. (flash["U_FLASH"].magic => Whole(streams, flash)) /\ flash["U_SPIFFS"].magic = FALSE
    BY DEF StreamIInv, Startable
  <2>2. Whole(streams, flash) => \E f \in 0 .. Len(streams) : HoldsImage(f)
    BY DEF Whole, HoldsImage, FileIn, FileOf
  <2> QED BY <2>1, <2>2 DEF canRollBack
<1>5. StreamInOrder
  <2> SUFFICES ASSUME Running, "over" \notin excuses
               PROVE  /\ unitsRead = updater.progress + Len(updater.buffer)
                      /\ updater.added = FileUnits(Len(streams), updater.progress)
                      /\ updater.added \o updater.buffer = FileUnits(Len(streams), unitsRead)
                      /\ \A k \in 0 .. updater.progress - 1 :
                           flash[updater.partition].units[k] = <<Len(streams), k + 1>>
    BY DEF StreamInOrder
  <2>1. updater.size > 0
    BY DEF Running
  <2>2. /\ FromStream(Len(streams), streams[Len(streams)], updater, unitsRead)
        /\ WrittenTo(flash, Len(streams), streams[Len(streams)], updater, excuses)
    BY <2>1, RunningStream DEF Underway
  <2>3. updater.added = FileUnits(Len(streams), updater.progress)
        /\ unitsRead = updater.progress + Len(updater.buffer)
        /\ \A k \in 1 .. Len(updater.buffer) : updater.buffer[k] = <<Len(streams), updater.progress + k>>
    BY <2>2 DEF FromStream
  <2>4. updater.buffer \in Seq(Units) /\ updater.progress \in Nat /\ Len(streams) \in Nat
    BY <2>1, RunningStream DEF Updater
  <2>5. FileUnits(Len(streams), updater.progress) \o updater.buffer
        = FileUnits(Len(streams), updater.progress + Len(updater.buffer))
    BY <2>3, <2>4, FileGoesOn
  <2> QED BY <2>2, <2>3, <2>5 DEF WrittenTo
<1>6. StaysInSize
  <2> SUFFICES ASSUME excuses \cap {"over", "longer"} = {}
               PROVE  updater.progress + Len(updater.buffer) <= updater.size /\ Untouched(flash)
    BY DEF StaysInSize, Untouched
  <2>1. Untouched(flash)
    BY DEF StreamIInv
  <2>2. CASE updater.size = 0
    <3>1. Len(updater.buffer) = 0
      BY <1>1, <2>2, EmptySeq
    <3> QED BY <1>1, <2>1, <2>2, <3>1
  <2>3. CASE updater.size > 0
    <3>1. CASE inStream = "no"
      BY <2>1, <2>3, <3>1, RunningNumbers
    <3>2. CASE inStream # "no"
      <4>1. streams[Len(streams)].len <= updater.size
        BY <2>3, <3>2, RunningStream DEF Underway, LoopKnown
      <4> QED BY <2>1, <2>3, <4>1, RunningNumbers
    <3> QED BY <3>1, <3>2
  <2> QED BY <1>2, <2>2, <2>3
<1> QED BY <1>3, <1>4, <1>5, <1>6 DEF UpdateStreamInv

(***************************************************************************)
(* The web console: the counters stay bounded however two prints            *)
(* interleave, and the pages show the lines of the ring in order.           *)
(***************************************************************************)
USE ConsoleAssumption

LEMMA ConsoleInitial == ConsoleInit => ConsoleIInv
<1> SUFFICES ASSUME ConsoleInit PROVE ConsoleIInv
  OBVIOUS
<1>1. ConsoleTypeOK
  <2>1. printweb \in [0 .. MaxConsole - 1 -> 0 .. MaxLines]
    BY DEF ConsoleInit, NoLine
  <2>2. /\ doing \in [Printers -> {"idle", "wrap", "take", "advance", "copy", "count", "grow",
                                   "from", "show", "send", "rewind", "forget"}]
        /\ line \in [Printers -> 0 .. MaxLines] /\ reg \in [Printers -> Nat]
    BY DEF ConsoleInit, NoLine
  <2> QED BY <2>1, <2>2 DEF ConsoleInit, ConsoleTypeOK
<1>2. \A t \in Printers : doing[t] = "idle"
  BY DEF ConsoleInit
<1>3. CountersKnown
  BY <1>2 DEF ConsoleInit, CountersKnown, Printing, Bound
<1>4. OneAtATime
  BY <1>2 DEF OneAtATime
<1>5. RingKnown
  BY <1>2 DEF ConsoleInit, RingKnown, RingRest, RingAt, Printing, Filled, LineOf, Counted, Indexed
<1>6. PageKnown
  BY <1>2 DEF PageKnown, Printers
<1>7. InputKnown /\ ReadOnce
  BY DEF ConsoleInit, InputKnown, ReadOnce
<1> QED BY <1>1, <1>3, <1>4, <1>5, <1>6, <1>7 DEF ConsoleIInv, Unraced

(* A step that moves one task on to another place.                          *)
LEMMA DoMoves ==
  ASSUME ConsoleTypeOK, NEW t \in Printers, NEW place, Do(t, place)
  PROVE  doing'[t] = place /\ \A u \in Printers : u # t => doing'[u] = doing[u]
BY DEF ConsoleTypeOK, Do

(* The same, when the other one is not at the console.                      *)
LEMMA MovesAlone ==
  ASSUME ConsoleTypeOK, NEW t \in Printers, NEW place, Do(t, place),
         \A u \in Printers : u # t => doing[u] = "idle"
  PROVE  /\ doing'[t] = place
         /\ \A u \in Printers : u # t => doing'[u] = "idle"
         /\ OneAtATime'
         /\ \A u \in Printers : u # t => RingAt(u)'
         /\ place \notin {"from", "show", "send"} => PageKnown'
<1>1. doing'[t] = place /\ \A u \in Printers : u # t => doing'[u] = "idle"
  BY DoMoves
<1>2. OneAtATime'
  BY <1>1 DEF OneAtATime
<1>3. ASSUME NEW u \in Printers, u # t PROVE RingAt(u)'
  <2>1. doing'[u] = "idle"
    BY <1>1, <1>3
  <2> QED BY <2>1 DEF RingAt, Printing
<1>4. ASSUME place \notin {"from", "show", "send"} PROVE PageKnown'
  <2>1. doing'["web"] \notin {"from", "show", "send"}
    BY <1>1, <1>4 DEF Printers
  <2> QED BY <2>1 DEF PageKnown
<1> QED BY <1>1, <1>2, <1>3, <1>4

(* A task that enters unraced finds the console at rest.                    *)
LEMMA EntersAlone ==
  ASSUME Unraced, NEW t \in Printers, Enter(t), ~raced'
  PROVE  /\ ~raced /\ RingRest
         /\ \A u \in Printers : doing[u] = "idle"
<1>1. ~raced /\ \A u \in Printers : doing[u] = "idle"
  BY DEF Enter, Alone
<1>2. RingKnown
  BY <1>1 DEF Unraced
<1>3. \A u \in Printers : ~Printing(u) /\ doing[u] # "rewind"
  BY <1>1 DEF Printing
<1> QED BY <1>1, <1>2, <1>3 DEF RingKnown

(* A task that is there unraced is there alone.                             *)
LEMMA StaysAlone ==
  ASSUME Unraced, ~raced, NEW t \in Printers, doing[t] # "idle"
  PROVE  RingAt(t) /\ \A u \in Printers : u # t => doing[u] = "idle"
BY DEF Unraced, OneAtATime, RingKnown

LEMMA PrintUnraced ==
  ASSUME ConsoleIInv, NEW t \in Printers, Enter(t), print(t), ~raced'
  PROVE  OneAtATime' /\ RingKnown' /\ PageKnown'
<1>1. RingRest /\ \A u \in Printers : doing[u] = "idle"
  BY EntersAlone DEF ConsoleIInv
<1> DEFINE place == IF RingIsFull THEN "wrap" ELSE "take"
<1>2. /\ UNCHANGED <<printweb, printcun, mojicount, reg, content, since>>
      /\ printed' = printed + 1 /\ line'[t] = printed + 1 /\ Do(t, place)
  BY DEF print, ring, ConsoleIInv, ConsoleTypeOK
<1>3. place \in {"wrap", "take"}
  OBVIOUS
<1>4. /\ doing'[t] = place
      /\ OneAtATime' /\ PageKnown'
      /\ \A u \in Printers : u # t => RingAt(u)'
  BY <1>1, <1>2, <1>3, MovesAlone DEF ConsoleIInv
<1>5. Printing(t)'
  BY <1>3, <1>4 DEF Printing
<1>6. printed - since \in Int /\ printcun \in Nat /\ MaxConsole \in Nat \ {0} /\ since \in Nat
      /\ printed \in Nat
  BY DEF ConsoleIInv, ConsoleTypeOK
<1>7. Filled(printed - 1, printcun)' /\ Counted(printed - since - 1)'
  <2>1. printed' - 1 = printed /\ printed' - since' - 1 = printed - since
    BY <1>2, <1>6
  <2> QED BY <1>1, <1>2, <2>1 DEF RingRest, Filled, LineOf, Counted
<1>8. since <= printed
  BY DEF ConsoleIInv, CountersKnown
<1>9. CASE RingIsFull
  <2>1. printcun = MaxConsole /\ printed - since >= MaxConsole
    BY <1>1, <1>6, <1>9 DEF RingIsFull, RingRest, Indexed
  <2>2. doing'[t] = "wrap"
    BY <1>4, <1>9
  <2>3. RingAt(t)'
    BY <1>2, <1>5, <1>6, <1>7, <1>8, <2>1, <2>2 DEF RingAt
  <2> QED BY <1>4, <1>5, <2>3 DEF RingKnown
<1>10. CASE ~RingIsFull
  <2>1. printcun < MaxConsole /\ (printed - since + 1 <= MaxConsole => printcun = printed - since)
    BY <1>1, <1>6, <1>10 DEF RingIsFull, RingRest, Indexed
  <2>2. doing'[t] = "take"
    BY <1>4, <1>10
  <2>3. RingAt(t)'
    BY <1>2, <1>5, <1>6, <1>7, <1>8, <2>1, <2>2 DEF RingAt
  <2> QED BY <1>4, <1>5, <2>3 DEF RingKnown
<1> QED BY <1>9, <1>10

LEMMA WrapUnraced ==
  ASSUME ConsoleIInv, NEW t \in Printers, Wrap(t), ~raced'
  PROVE  OneAtATime' /\ RingKnown' /\ PageKnown'
<1>1. /\ UNCHANGED <<printweb, mojicount, line, printed, reg, since>>
      /\ printcun' = 0 /\ ~raced /\ doing[t] = "wrap" /\ Do(t, "take")
  BY DEF Wrap, inputVars, printVars
<1>2. RingAt(t) /\ \A u \in Printers : u # t => doing[u] = "idle"
  BY <1>1, StaysAlone DEF ConsoleIInv
<1>3. /\ doing'[t] = "take"
      /\ OneAtATime' /\ PageKnown'
      /\ \A u \in Printers : u # t => RingAt(u)'
  BY <1>1, <1>2, MovesAlone DEF ConsoleIInv
<1>4. /\ printed \in Nat /\ since \in Nat /\ MaxConsole \in Nat \ {0} /\ mojicount \in Nat
      /\ DOMAIN printweb = 0 .. MaxConsole - 1
  BY DEF ConsoleIInv, ConsoleTypeOK
<1>5. /\ Filled(printed - 1, printcun) /\ printcun = MaxConsole
      /\ printed - since > MaxConsole /\ Counted(printed - since - 1)
      /\ printed - since > 0 /\ line[t] = printed
  BY <1>1, <1>2 DEF RingAt, Printing
<1>6. \A i \in DOMAIN printweb : LineOf(i, printed - 1, 0) = LineOf(i, printed - 1, printcun)
  BY <1>4, <1>5 DEF LineOf
<1>7. Filled(printed - 1, printcun)' /\ Counted(printed - since - 1)'
  <2>1. printed' = printed /\ printcun' = 0 /\ UNCHANGED <<printweb, since, mojicount>>
    BY <1>1
  <2>2. \A i \in DOMAIN printweb :
          LineOf(i, printed - 1, 0) > since => printweb[i] = LineOf(i, printed - 1, 0)
    BY <1>5, <1>6 DEF Filled
  <2>3. Filled(printed - 1, printcun)'
    BY <2>1, <2>2 DEF Filled, LineOf
  <2> QED BY <1>5, <2>1, <2>3 DEF Counted
<1>8. RingAt(t)'
  BY <1>1, <1>3, <1>4, <1>5, <1>7 DEF RingAt, Printing
<1>9. Printing(t)'
  BY <1>3 DEF Printing
<1> QED BY <1>3, <1>8, <1>9 DEF RingKnown

LEMMA TakeUnraced ==
  ASSUME ConsoleIInv, NEW t \in Printers, Take(t), ~raced'
  PROVE  OneAtATime' /\ RingKnown' /\ PageKnown'
<1>1. /\ UNCHANGED <<printweb, printcun, mojicount, line, printed, since>>
      /\ ~raced /\ doing[t] = "take" /\ Do(t, "advance") /\ reg'[t] = printcun
  BY DEF Take, ring, inputVars, printVars, Load, ConsoleIInv, ConsoleTypeOK
<1>2. RingAt(t) /\ \A u \in Printers : u # t => doing[u] = "idle"
  BY <1>1, StaysAlone DEF ConsoleIInv
<1>3. /\ doing'[t] = "advance"
      /\ OneAtATime' /\ PageKnown'
      /\ \A u \in Printers : u # t => RingAt(u)'
  BY <1>1, <1>2, MovesAlone DEF ConsoleIInv
<1>4. /\ Filled(printed - 1, printcun)' /\ Counted(printed - since - 1)'
      /\ printcun < MaxConsole /\ (printed - since <= MaxConsole => printcun = printed - since - 1)
      /\ printed - since > 0 /\ line[t] = printed
  BY <1>1, <1>2 DEF RingAt, Printing, Filled, LineOf, Counted
<1>5. RingAt(t)' /\ Printing(t)'
  BY <1>1, <1>3, <1>4 DEF RingAt, Printing
<1> QED BY <1>3, <1>5 DEF RingKnown

LEMMA AdvanceUnraced ==
  ASSUME ConsoleIInv, NEW t \in Printers, Advance(t), ~raced'
  PROVE  OneAtATime' /\ RingKnown' /\ PageKnown'
<1>1. /\ UNCHANGED <<printweb, mojicount, line, printed, since, reg>>
      /\ ~raced /\ doing[t] = "advance" /\ Do(t, "copy") /\ printcun' = reg[t] + 1
  BY DEF Advance, inputVars, printVars
<1>2. RingAt(t) /\ \A u \in Printers : u # t => doing[u] = "idle"
  BY <1>1, StaysAlone DEF ConsoleIInv
<1>3. /\ doing'[t] = "copy"
      /\ OneAtATime' /\ PageKnown'
      /\ \A u \in Printers : u # t => RingAt(u)'
  BY <1>1, <1>2, MovesAlone DEF ConsoleIInv
<1>4. /\ Filled(printed - 1, printcun) /\ Counted(printed - since - 1)
      /\ printcun < MaxConsole /\ (printed - since <= MaxConsole => printcun = printed - since - 1)
      /\ printed - since > 0 /\ line[t] = printed /\ reg[t] = printcun
  BY <1>1, <1>2 DEF RingAt, Printing
<1>5. /\ printed \in Nat /\ since \in Nat /\ MaxConsole \in Nat \ {0} /\ printcun \in Nat
  BY DEF ConsoleIInv, ConsoleTypeOK
<1>6. Filled(printed - 1, reg[t])' /\ Counted(printed - since - 1)'
  BY <1>1, <1>4 DEF Filled, LineOf, Counted
<1>7. Indexed(printed - since, printcun)'
  BY <1>1, <1>4, <1>5 DEF Indexed
<1>8. RingAt(t)' /\ Printing(t)'
  BY <1>1, <1>3, <1>4, <1>6, <1>7 DEF RingAt, Printing
<1> QED BY <1>3, <1>8 DEF RingKnown

(* The line copied to slot i is the newest of the ring that goes on at i+1. *)
LEMMA CopyUnraced ==
  ASSUME ConsoleIInv, NEW t \in Printers, CopyLine(t), ~raced'
  PROVE  OneAtATime' /\ RingKnown' /\ PageKnown'
<1>1. /\ UNCHANGED <<printcun, mojicount, line, printed, since, reg>>
      /\ ~raced /\ doing[t] = "copy" /\ Do(t, "count")
      /\ printweb' = [i \in DOMAIN printweb |-> IF i = reg[t] THEN line[t] ELSE printweb[i]]
  BY DEF CopyLine, inputVars, printVars
<1>2. RingAt(t) /\ \A u \in Printers : u # t => doing[u] = "idle"
  BY <1>1, StaysAlone DEF ConsoleIInv
<1>3. /\ doing'[t] = "count"
      /\ OneAtATime' /\ PageKnown'
      /\ \A u \in Printers : u # t => RingAt(u)'
  BY <1>1, <1>2, MovesAlone DEF ConsoleIInv
<1>4. /\ Filled(printed - 1, reg[t]) /\ Counted(printed - since - 1)
      /\ Indexed(printed - since, printcun) /\ printcun = reg[t] + 1
      /\ printed - since > 0 /\ line[t] = printed
  BY <1>1, <1>2 DEF RingAt, Printing
<1>5. /\ printed \in Nat /\ since \in Nat /\ MaxConsole \in Nat \ {0} /\ reg[t] \in Nat
      /\ DOMAIN printweb = 0 .. MaxConsole - 1
  BY DEF ConsoleIInv, ConsoleTypeOK
<1>6. ASSUME NEW i \in DOMAIN printweb
      PROVE  /\ i = reg[t] => LineOf(i, printed, reg[t] + 1) = printed
             /\ i # reg[t] =>
                  \/ LineOf(i, printed, reg[t] + 1) = LineOf(i, printed - 1, reg[t])
  BY <1>5 DEF LineOf
<1>7. Filled(printed, printcun)'
  <2>1. \A i \in DOMAIN printweb : LineOf(i, printed, printcun)' = LineOf(i, printed, reg[t] + 1)
    BY <1>1, <1>4 DEF LineOf
  <2>2. DOMAIN printweb' = DOMAIN printweb
    BY <1>1
  <2>3. ASSUME NEW i \in DOMAIN printweb, LineOf(i, printed, reg[t] + 1) > since
        PROVE  printweb'[i] = LineOf(i, printed, reg[t] + 1)
    <3>1. CASE i = reg[t]
      BY <1>1, <1>4, <1>6, <3>1
    <3>2. CASE i # reg[t]
      BY <1>1, <1>4, <1>6, <2>3, <3>2 DEF Filled
    <3> QED BY <3>1, <3>2
  <2>4. since' = since
    BY <1>1
  <2> QED BY <2>1, <2>2, <2>3, <2>4 DEF Filled
<1>8. Counted(printed - since - 1)' /\ Indexed(printed - since, printcun)'
  BY <1>1, <1>4 DEF Counted, Indexed
<1>9. RingAt(t)' /\ Printing(t)'
  BY <1>1, <1>3, <1>4, <1>7, <1>8 DEF RingAt, Printing
<1> QED BY <1>3, <1>9 DEF RingKnown

LEMMA CountUnraced ==
  ASSUME ConsoleIInv, NEW t \in Printers, Count(t), ~raced'
  PROVE  OneAtATime' /\ RingKnown' /\ PageKnown'
<1>1. /\ UNCHANGED <<printweb, printcun, mojicount, printed, since>>
      /\ ~raced /\ doing[t] = "count"
  BY DEF Count, ring, inputVars, printVars
<1>2. RingAt(t) /\ \A u \in Printers : u # t => doing[u] = "idle"
  BY <1>1, StaysAlone DEF ConsoleIInv
<1>3. /\ Filled(printed, printcun) /\ Counted(printed - since - 1)
      /\ Indexed(printed - since, printcun)
      /\ printed - since > 0 /\ line[t] = printed
  BY <1>1, <1>2 DEF RingAt, Printing
<1>4. /\ printed \in Nat /\ since \in Nat /\ MaxConsole \in Nat \ {0} /\ mojicount \in Nat
  BY DEF ConsoleIInv, ConsoleTypeOK
<1>5. Filled(printed, printcun)' /\ Indexed(printed - since, printcun)'
  BY <1>1, <1>3 DEF Filled, LineOf, Indexed
<1>6. CASE mojicount <= MaxConsole
  <2>1. Do(t, "grow") /\ line' = line /\ reg'[t] = mojicount
    BY <1>6 DEF Count, Load, ConsoleIInv, ConsoleTypeOK
  <2>2. /\ doing'[t] = "grow"
        /\ OneAtATime' /\ PageKnown'
        /\ \A u \in Printers : u # t => RingAt(u)'
    BY <1>2, <2>1, MovesAlone DEF ConsoleIInv
  <2>3. mojicount = printed - since - 1
    BY <1>3, <1>4, <1>6 DEF Counted
  <2>4. RingAt(t)' /\ Printing(t)'
    BY <1>1, <1>3, <1>5, <1>6, <2>1, <2>2, <2>3 DEF RingAt, Printing
  <2> QED BY <2>2, <2>4 DEF RingKnown
<1>7. CASE ~(mojicount <= MaxConsole)
  <2>1. Do(t, "idle")
    BY <1>7 DEF Count
  <2>2. /\ doing'[t] = "idle"
        /\ OneAtATime' /\ PageKnown'
        /\ \A u \in Printers : u # t => RingAt(u)'
    BY <1>2, <2>1, MovesAlone DEF ConsoleIInv
  <2>3. Counted(printed - since)
    BY <1>3, <1>4, <1>7 DEF Counted
  <2>4. RingRest'
    BY <1>1, <1>5, <2>3 DEF RingRest, Counted
  <2>5. RingAt(t)'
    BY <2>2 DEF RingAt, Printing
  <2> QED BY <2>2, <2>4, <2>5 DEF RingKnown
<1> QED BY <1>6, <1>7

LEMMA GrowUnraced ==
  ASSUME ConsoleIInv, NEW t \in Printers, Grow(t), ~raced'
  PROVE  OneAtATime' /\ RingKnown' /\ PageKnown'
<1>1. /\ UNCHANGED <<printweb, printcun, printed, since>>
      /\ ~raced /\ doing[t] = "grow" /\ Do(t, "idle") /\ mojicount' = reg[t] + 1
  BY DEF Grow, inputVars
<1>2. RingAt(t) /\ \A u \in Printers : u # t => doing[u] = "idle"
  BY <1>1, StaysAlone DEF ConsoleIInv
<1>3. /\ doing'[t] = "idle"
      /\ OneAtATime' /\ PageKnown'
      /\ \A u \in Printers : u # t => RingAt(u)'
  BY <1>1, <1>2, MovesAlone DEF ConsoleIInv
<1>4. /\ Filled(printed, printcun) /\ Indexed(printed - since, printcun)
      /\ reg[t] = printed - since - 1 /\ printed - since - 1 <= MaxConsole
  BY <1>1, <1>2 DEF RingAt
<1>5. /\ printed \in Nat /\ since \in Nat /\ MaxConsole \in Nat \ {0}
  BY DEF ConsoleIInv, ConsoleTypeOK
<1>6. Filled(printed, printcun)' /\ Indexed(printed - since, printcun)'
  BY <1>1, <1>4 DEF Filled, LineOf, Indexed
<1>7. Counted(printed - since)'
  BY <1>1, <1>4, <1>5 DEF Counted
<1>8. RingRest' /\ RingAt(t)'
  BY <1>3, <1>6, <1>7 DEF RingRest, RingAt, Printing
<1> QED BY <1>3, <1>8 DEF RingKnown

LEMMA RewindUnraced ==
  ASSUME ConsoleIInv, NEW t \in Printers, Rewind(t), ~raced'
  PROVE  OneAtATime' /\ RingKnown' /\ PageKnown'
<1>1. /\ UNCHANGED <<printweb, mojicount, printed, since>>
      /\ ~raced /\ doing[t] = "rewind" /\ Do(t, "idle") /\ printcun' = 0
  BY DEF Rewind, printVars
<1>2. RingAt(t) /\ \A u \in Printers : u # t => doing[u] = "idle"
  BY <1>1, StaysAlone DEF ConsoleIInv
<1>3. /\ doing'[t] = "idle"
      /\ OneAtATime' /\ PageKnown'
      /\ \A u \in Printers : u # t => RingAt(u)'
  BY <1>1, <1>2, MovesAlone DEF ConsoleIInv
<1>4. printed - since = 0 /\ mojicount = 0
  BY <1>1, <1>2 DEF RingAt
<1>5. /\ printed \in Nat /\ since \in Nat /\ MaxConsole \in Nat \ {0}
      /\ DOMAIN printweb = 0 .. MaxConsole - 1
  BY DEF ConsoleIInv, ConsoleTypeOK
<1>6. Filled(printed, printcun)'
  <2>1. \A i \in DOMAIN printweb : ~(LineOf(i, printed, 0) > since)
    BY <1>4, <1>5 DEF LineOf
  <2> QED BY <1>1, <2>1 DEF Filled, LineOf
<1>7. Counted(printed - since)' /\ Indexed(printed - since, printcun)'
  BY <1>1, <1>4, <1>5 DEF Counted, Indexed
<1>8. RingRest' /\ RingAt(t)'
  BY <1>3, <1>6, <1>7 DEF RingRest, RingAt, Printing
<1> QED BY <1>3, <1>8 DEF RingKnown

LEMMA ClearUnraced ==
  ASSUME ConsoleIInv, NEW t \in Printers, clearConsole(t), ~raced'
  PROVE  OneAtATime' /\ RingKnown' /\ PageKnown'
<1>1. /\ printed' = printed /\ since' = printed /\ mojicount' = 0
      /\ doing[t] = "idle" /\ Do(t, "rewind") /\ Alone(t)
  BY DEF clearConsole, printVars
<1>2. \A u \in Printers : u # t => doing[u] = "idle"
  BY <1>1 DEF Alone
<1>3. /\ doing'[t] = "rewind"
      /\ OneAtATime' /\ PageKnown'
      /\ \A u \in Printers : u # t => RingAt(u)'
  BY <1>1, <1>2, MovesAlone DEF ConsoleIInv
<1>4. printed \in Nat
  BY DEF ConsoleIInv, ConsoleTypeOK
<1>5. RingAt(t)'
  BY <1>1, <1>3, <1>4 DEF RingAt, Printing
<1> QED BY <1>3, <1>5 DEF RingKnown

(* What a page step finds: the ring at rest and the sketch elsewhere.       *)
LEMMA PageAlone ==
  ASSUME ConsoleIInv, ~raced, doing["web"] \in {"from", "show", "send"}
  PROVE  /\ RingRest /\ PageKnown
         /\ \A u \in Printers : u # "web" => doing[u] = "idle"
<1>1. \A u \in Printers : u # "web" => doing[u] = "idle"
  BY DEF ConsoleIInv, Unraced, OneAtATime, Printers
<1>2. \A u \in Printers : ~Printing(u) /\ doing[u] # "rewind"
  BY <1>1 DEF Printing, Printers
<1> QED BY <1>1, <1>2 DEF ConsoleIInv, Unraced, RingKnown

(* The ring stays as it is while a page is built, or an input is read.      *)
LEMMA RestKept ==
  ASSUME ConsoleTypeOK, NEW t \in Printers,
         NEW place \in {"idle", "from", "show", "send", "forget"}, Do(t, place),
         \A u \in Printers : u # t => doing[u] = "idle",
         RingRest, UNCHANGED <<ring, printed, since>>
  PROVE  OneAtATime' /\ RingKnown' /\ doing'[t] = place
<1>1. /\ doing'[t] = place
      /\ OneAtATime'
      /\ \A u \in Printers : u # t => RingAt(u)'
  BY MovesAlone
<1>2. RingAt(t)'
  BY <1>1 DEF RingAt, Printing
<1>3. RingRest'
  BY DEF RingRest, Filled, LineOf, Counted, Indexed, ring
<1> QED BY <1>1, <1>2, <1>3 DEF RingKnown

LEMMA OpenConsUnraced ==
  ASSUME ConsoleIInv, OpenCons, ~raced'
  PROVE  OneAtATime' /\ RingKnown' /\ PageKnown'
<1>1. "web" \in Printers
  BY DEF Printers
<1>2. RingRest /\ \A u \in Printers : doing[u] = "idle"
  BY <1>1, EntersAlone DEF OpenCons, ConsoleIInv
<1>3. /\ Do("web", "from") /\ UNCHANGED <<ring, printed, since>>
      /\ content' = <<>> /\ reg'["web"] = printcun
  BY <1>1 DEF OpenCons, Load, printVars, ConsoleIInv, ConsoleTypeOK
<1>4. OneAtATime' /\ RingKnown' /\ doing'["web"] = "from"
  BY <1>1, <1>2, <1>3, RestKept DEF ConsoleIInv
<1>5. PageKnown'
  BY <1>3, <1>4 DEF PageKnown, ring
<1> QED BY <1>4, <1>5

LEMMA ConsFromUnraced ==
  ASSUME ConsoleIInv, ConsFrom, ~raced'
  PROVE  OneAtATime' /\ RingKnown' /\ PageKnown'
<1>1. "web" \in Printers
  BY DEF Printers
<1>2. /\ ~raced /\ doing["web"] = "from" /\ Do("web", "show")
      /\ UNCHANGED <<ring, printed, since, content>>
      /\ reg'["web"] = IF mojicount < MaxConsole THEN 0 ELSE reg["web"]
  BY <1>1 DEF ConsFrom, Load, printVars, ConsoleIInv, ConsoleTypeOK
<1>3. RingRest /\ PageKnown /\ \A u \in Printers : u # "web" => doing[u] = "idle"
  BY <1>2, PageAlone
<1>4. OneAtATime' /\ RingKnown' /\ doing'["web"] = "show"
  BY <1>1, <1>2, <1>3, RestKept DEF ConsoleIInv
<1>5. content = <<>> /\ reg'["web"] = FirstSlot
  BY <1>2, <1>3 DEF PageKnown, FirstSlot
<1>6. printcun \in Nat /\ mojicount \in Nat /\ MaxConsole \in Nat \ {0} /\ printcun <= MaxConsole
  BY <1>3 DEF ConsoleIInv, ConsoleTypeOK, RingRest, Indexed
<1>7. SlotAt(FirstSlot) = ShownSlot(1)
  BY <1>6 DEF SlotAt, ShownSlot, FirstSlot
<1>8. content' = <<>> /\ Len(content') = 0 /\ DOMAIN content' = {} /\ mojicount' = mojicount
  BY <1>2, <1>5 DEF ring
<1>9. SlotAt(reg["web"])' = ShownSlot(Len(content) + 1)'
  BY <1>2, <1>5, <1>7, <1>8 DEF SlotAt, ShownSlot, FirstSlot, ring
<1>10. PageKnown'
  BY <1>4, <1>6, <1>8, <1>9 DEF PageKnown
<1> QED BY <1>4, <1>10

LEMMA ConsShowUnraced ==
  ASSUME ConsoleIInv, ConsShow, ~raced'
  PROVE  OneAtATime' /\ RingKnown' /\ PageKnown'
<1> DEFINE L == Len(content)
<1>1. "web" \in Printers
  BY DEF Printers
<1>2. ~raced /\ doing["web"] = "show" /\ UNCHANGED <<ring, printed, since>>
  BY DEF ConsShow, printVars
<1>3. RingRest /\ PageKnown /\ \A u \in Printers : u # "web" => doing[u] = "idle"
  BY <1>2, PageAlone
<1>4. /\ printcun \in Nat /\ mojicount \in Nat /\ MaxConsole \in Nat \ {0}
      /\ printcun <= MaxConsole /\ mojicount <= MaxConsole + 1 /\ L \in Nat
      /\ content \in Seq((0 .. MaxLines) \cup {Foreign}) /\ reg["web"] \in Nat
  BY <1>1, <1>3 DEF ConsoleIInv, ConsoleTypeOK, RingRest, Indexed, CountersKnown
<1>5. /\ L <= mojicount /\ SlotAt(reg["web"]) = ShownSlot(L + 1)
      /\ \A k \in DOMAIN content : content[k] = LineAt(ShownSlot(k))
  BY <1>2, <1>3 DEF PageKnown
<1>6. \A k \in Nat : ShownSlot(k)' = ShownSlot(k) /\ LineAt(ShownSlot(k))' = LineAt(ShownSlot(k))
  BY <1>2 DEF ring, ShownSlot, FirstSlot, LineAt
<1>7. CASE L < mojicount
  <2>1. /\ content' = Append(content, LineAt(SlotAt(reg["web"]))) /\ doing' = doing
        /\ reg'["web"] = SlotAt(reg["web"]) + 1
    BY <1>1, <1>7 DEF ConsShow, Load, ConsoleIInv, ConsoleTypeOK
  <2>2. Do("web", "show")
    BY <1>1, <1>2, <2>1 DEF Do, ConsoleIInv, ConsoleTypeOK
  <2>3. OneAtATime' /\ RingKnown' /\ doing'["web"] = "show"
    BY <1>1, <1>2, <1>3, <2>2, RestKept DEF ConsoleIInv
  <2>4. SlotAt(ShownSlot(L + 1) + 1) = ShownSlot(L + 2)
    BY <1>4, <1>7 DEF SlotAt, ShownSlot, FirstSlot
  <2>5. Len(content') = L + 1 /\ DOMAIN content' = 1 .. L + 1 /\ DOMAIN content = 1 .. L
        /\ content'[L + 1] = LineAt(ShownSlot(L + 1)) /\ \A k \in 1 .. L : content'[k] = content[k]
    BY <1>4, <1>5, <2>1
  <2>6. SlotAt(reg["web"])' = ShownSlot(Len(content) + 1)'
    <3>1. SlotAt(reg["web"])' = SlotAt(ShownSlot(L + 1) + 1)
      BY <1>5, <2>1 DEF SlotAt
    <3>2. ShownSlot(Len(content) + 1)' = ShownSlot(L + 2)
      BY <1>2, <1>4, <2>5 DEF ring, ShownSlot, FirstSlot
    <3> QED BY <2>4, <3>1, <3>2
  <2>7. \A k \in DOMAIN content' : content'[k] = LineAt(ShownSlot(k))'
    BY <1>4, <1>5, <1>6, <2>5
  <2>8. Len(content') <= mojicount'
    BY <1>2, <1>4, <1>7, <2>5 DEF ring
  <2> QED BY <2>3, <2>6, <2>7, <2>8 DEF PageKnown
<1>8. CASE ~(L < mojicount)
  <2>1. Do("web", "send") /\ content' = content
    BY <1>8 DEF ConsShow
  <2>2. OneAtATime' /\ RingKnown' /\ doing'["web"] = "send"
    BY <1>1, <1>2, <1>3, <2>1, RestKept DEF ConsoleIInv
  <2>3. Len(content') = mojicount'
    BY <1>2, <1>4, <1>5, <1>8, <2>1 DEF ring
  <2>4. \A k \in DOMAIN content' : content'[k] = LineAt(ShownSlot(k))'
    BY <1>4, <1>5, <1>6, <2>1
  <2> QED BY <2>2, <2>3, <2>4 DEF PageKnown
<1> QED BY <1>7, <1>8

LEMMA ConsSendUnraced ==
  ASSUME ConsoleIInv, ConsSend, ~raced'
  PROVE  OneAtATime' /\ RingKnown' /\ PageKnown'
<1>1. "web" \in Printers
  BY DEF Printers
<1>2. ~raced /\ doing["web"] = "send" /\ Do("web", "idle") /\ UNCHANGED <<ring, printed, since>>
  BY DEF ConsSend, printVars
<1>3. RingRest /\ \A u \in Printers : u # "web" => doing[u] = "idle"
  BY <1>2, PageAlone
<1>4. OneAtATime' /\ RingKnown' /\ doing'["web"] = "idle"
  BY <1>1, <1>2, <1>3, RestKept DEF ConsoleIInv
<1> QED BY <1>4 DEF PageKnown

LEMMA OpenConsoleUnraced ==
  ASSUME ConsoleIInv, OpenConsole, ~raced'
  PROVE  OneAtATime' /\ RingKnown' /\ PageKnown'
<1>1. "web" \in Printers
  BY DEF Printers
<1>2. RingRest /\ \A u \in Printers : doing[u] = "idle"
  BY <1>1, EntersAlone DEF OpenConsole, ConsoleIInv
<1>3. UNCHANGED <<ring, printed, since, doing>>
  BY DEF OpenConsole, printVars
<1>4. Do("web", "idle")
  BY <1>1, <1>2, <1>3 DEF Do, ConsoleIInv, ConsoleTypeOK
<1>5. OneAtATime' /\ RingKnown' /\ doing'["web"] = "idle"
  BY <1>1, <1>2, <1>3, <1>4, RestKept DEF ConsoleIInv
<1> QED BY <1>5 DEF PageKnown

LEMMA ReadUnraced ==
  ASSUME ConsoleIInv, Read \/ Forget, ~raced'
  PROVE  OneAtATime' /\ RingKnown' /\ PageKnown'
<1>1. "sketch" \in Printers /\ "web" \in Printers
  BY DEF Printers
<1>2. UNCHANGED <<ring, printed, since>>
  BY DEF Read, Forget, printVars
<1>3. CASE Read
  <2>1. RingRest /\ \A u \in Printers : doing[u] = "idle"
    BY <1>1, <1>3, EntersAlone DEF Read, ConsoleIInv
  <2>2. Do("sketch", "forget")
    BY <1>3 DEF Read
  <2>3. OneAtATime' /\ RingKnown' /\ doing'["sketch"] = "forget"
    BY <1>1, <1>2, <2>1, <2>2, RestKept DEF ConsoleIInv
  <2>4. PageKnown'
    BY <1>1, <2>1, <2>2, MovesAlone DEF ConsoleIInv
  <2> QED BY <2>3, <2>4
<1>4. CASE Forget
  <2>1. ~raced /\ doing["sketch"] = "forget" /\ Do("sketch", "idle")
    BY <1>4 DEF Forget
  <2>2. OneAtATime /\ RingKnown
    BY <2>1 DEF ConsoleIInv, Unraced
  <2>3. \A u \in Printers : u # "sketch" => doing[u] = "idle"
    BY <1>1, <2>1, <2>2 DEF OneAtATime
  <2>4. \A u \in Printers : ~Printing(u) /\ doing[u] # "rewind"
    BY <2>1, <2>3 DEF Printing
  <2>5. RingRest
    BY <2>2, <2>4 DEF RingKnown
  <2>6. OneAtATime' /\ RingKnown' /\ doing'["sketch"] = "idle"
    BY <1>1, <1>2, <2>1, <2>3, <2>5, RestKept DEF ConsoleIInv
  <2>7. PageKnown'
    BY <1>1, <2>1, <2>3, MovesAlone DEF ConsoleIInv
  <2> QED BY <2>6, <2>7
<1> QED BY <1>3, <1>4

LEMMA StutterUnraced ==
  ASSUME ConsoleIInv, UNCHANGED consoleVars, ~raced'
  PROVE  OneAtATime' /\ RingKnown' /\ PageKnown'
BY DEF ConsoleIInv, Unraced, consoleVars, ring, inputVars, printVars, OneAtATime, RingKnown,
       RingRest, RingAt, Filled, LineOf, Counted, Indexed, Printing, PageKnown, SlotAt, ShownSlot,
       FirstSlot, LineAt

LEMMA UnracedKept ==
  ASSUME ConsoleIInv, [ConsoleNext]_consoleVars
  PROVE  Unraced'
<1> SUFFICES ASSUME ~raced' PROVE OneAtATime' /\ RingKnown' /\ PageKnown'
  BY DEF Unraced
<1>1. ASSUME NEW t \in Printers, StartPrint(t) PROVE OneAtATime' /\ RingKnown' /\ PageKnown'
  BY <1>1, PrintUnraced DEF StartPrint
<1>2. CASE SendInput
  BY <1>2, PrintUnraced DEF SendInput, Printers
<1> QED
  BY <1>1, <1>2, WrapUnraced, TakeUnraced, AdvanceUnraced, CopyUnraced, CountUnraced, GrowUnraced,
     ClearUnraced, RewindUnraced, OpenConsUnraced, ConsFromUnraced, ConsShowUnraced,
     ConsSendUnraced, OpenConsoleUnraced, ReadUnraced, StutterUnraced
  DEF ConsoleNext

LEMMA ConsoleTypesKept ==
  ASSUME ConsoleIInv, [ConsoleNext]_consoleVars
  PROVE  ConsoleTypeOK'
<1> DEFINE Steps == {"idle", "wrap", "take", "advance", "copy", "count", "grow",
                      "from", "show", "send", "rewind", "forget"}
<1>1. ConsoleTypeOK /\ overlaps <= printed
  BY DEF ConsoleIInv, CountersKnown
<1>2. "web" \in Printers /\ "sketch" \in Printers
  BY DEF Printers
<1>3. \A t \in Printers : \A place \in Steps : Do(t, place) => doing' \in [Printers -> Steps]
  BY <1>1 DEF Do, ConsoleTypeOK
<1>4. \A t \in Printers : \A n \in Nat : Load(t, n) => reg' \in [Printers -> Nat]
  BY <1>1 DEF Load, ConsoleTypeOK
<1>5. \A t \in Printers :
        Return(t) => reg' \in [Printers -> Nat] /\ line' \in [Printers -> 0 .. MaxLines]
  BY <1>1 DEF Return, ConsoleTypeOK, NoLine
<1>6. \A t \in Printers : \A n \in 0 .. MaxConsole - 1 : LineAt(n) \in (0 .. MaxLines) \cup {Foreign}
  BY <1>1 DEF ConsoleTypeOK, LineAt
<1>7. ASSUME NEW t \in Printers, print(t) PROVE
        /\ printed' \in 0 .. MaxLines /\ overlaps' \in 0 .. MaxLines
        /\ line' \in [Printers -> 0 .. MaxLines] /\ doing' \in [Printers -> Steps]
  <2>1. printed' \in 0 .. MaxLines /\ overlaps' \in 0 .. MaxLines
    BY <1>1, <1>7 DEF print, ConsoleTypeOK
  <2>2. line' \in [Printers -> 0 .. MaxLines]
    BY <1>1, <1>7 DEF print, ConsoleTypeOK
  <2>3. doing' \in [Printers -> Steps]
    BY <1>3, <1>7 DEF print
  <2> QED BY <2>1, <2>2, <2>3
<1>8. \A t \in Printers : raced \in BOOLEAN /\ (raced \/ ~Alone(t)) \in BOOLEAN /\ (~Alone(t)) \in BOOLEAN
  BY <1>1 DEF ConsoleTypeOK
<1>9. raced' \in BOOLEAN
  BY <1>1, <1>2, <1>8 DEF ConsoleNext, StartPrint, Wrap, Take, Advance, CopyLine, Count, Grow,
     clearConsole, Rewind, OpenCons, ConsFrom, ConsShow, ConsSend, OpenConsole, SendInput, Read,
     Forget, Enter, consoleVars, ConsoleTypeOK
<1>10. ASSUME NEW t \in Printers, StartPrint(t) PROVE ConsoleTypeOK'
  BY <1>1, <1>7, <1>9, <1>10 DEF StartPrint, print, ring, inputVars, ConsoleTypeOK
<1>11. ASSUME NEW t \in Printers, Wrap(t) PROVE ConsoleTypeOK'
  BY <1>1, <1>3, <1>11 DEF Wrap, inputVars, printVars, ConsoleTypeOK
<1>12. ASSUME NEW t \in Printers, Take(t) PROVE ConsoleTypeOK'
  BY <1>1, <1>3, <1>4, <1>12 DEF Take, ring, inputVars, printVars, ConsoleTypeOK
<1>13. ASSUME NEW t \in Printers, Advance(t) PROVE ConsoleTypeOK'
  BY <1>1, <1>3, <1>13 DEF Advance, inputVars, printVars, ConsoleTypeOK
<1>14. ASSUME NEW t \in Printers, CopyLine(t) PROVE ConsoleTypeOK'
  <2>1. printweb' \in [0 .. MaxConsole - 1 -> 0 .. MaxLines]
    BY <1>1, <1>14 DEF CopyLine, ConsoleTypeOK
  <2> QED BY <1>1, <1>3, <1>14, <2>1 DEF CopyLine, inputVars, printVars, ConsoleTypeOK
<1>15. ASSUME NEW t \in Printers, Count(t) PROVE ConsoleTypeOK'
  <2>1. CASE mojicount <= MaxConsole
    BY <1>1, <1>3, <1>4, <1>15, <2>1 DEF Count, ring, inputVars, printVars, ConsoleTypeOK
  <2>2. CASE ~(mojicount <= MaxConsole)
    BY <1>1, <1>3, <1>5, <1>15, <2>2 DEF Count, ring, inputVars, printVars, ConsoleTypeOK
  <2> QED BY <2>1, <2>2
<1>16. ASSUME NEW t \in Printers, Grow(t) PROVE ConsoleTypeOK'
  BY <1>1, <1>3, <1>5, <1>16 DEF Grow, inputVars, ConsoleTypeOK
<1>17. ASSUME NEW t \in Printers, clearConsole(t) PROVE ConsoleTypeOK'
  BY <1>1, <1>3, <1>9, <1>17 DEF clearConsole, inputVars, printVars, ConsoleTypeOK
<1>18. ASSUME NEW t \in Printers, Rewind(t) PROVE ConsoleTypeOK'
  BY <1>1, <1>3, <1>18 DEF Rewind, inputVars, printVars, ConsoleTypeOK
<1>19. CASE OpenCons
  BY <1>1, <1>2, <1>3, <1>4, <1>9, <1>19 DEF OpenCons, ring, inputVars, printVars, ConsoleTypeOK
<1>20. CASE ConsFrom
  <2>1. (IF mojicount < MaxConsole THEN 0 ELSE reg["web"]) \in Nat
    BY <1>1, <1>2 DEF ConsoleTypeOK
  <2> QED BY <1>1, <1>2, <1>3, <1>4, <1>20, <2>1
          DEF ConsFrom, ring, inputVars, printVars, ConsoleTypeOK
<1>21. CASE ConsShow
  <2>1. SlotAt(reg["web"]) + 1 \in Nat /\ LineAt(SlotAt(reg["web"])) \in (0 .. MaxLines) \cup {Foreign}
    BY <1>1, <1>2 DEF SlotAt, LineAt, ConsoleTypeOK
  <2>2. content' \in Seq((0 .. MaxLines) \cup {Foreign})
    <3>1. content \in Seq((0 .. MaxLines) \cup {Foreign})
      BY <1>1 DEF ConsoleTypeOK
    <3>2. content' = content \/ content' = Append(content, LineAt(SlotAt(reg["web"])))
      BY <1>21 DEF ConsShow
    <3> QED BY <2>1, <3>1, <3>2
  <2>3. reg' \in [Printers -> Nat] /\ doing' \in [Printers -> Steps]
    BY <1>1, <1>2, <1>3, <1>4, <1>21, <2>1 DEF ConsShow, ConsoleTypeOK
  <2> QED BY <1>1, <1>21, <2>2, <2>3 DEF ConsShow, ring, inputVars, printVars, ConsoleTypeOK
<1>22. CASE ConsSend
  BY <1>1, <1>2, <1>3, <1>4, <1>22 DEF ConsSend, ring, inputVars, printVars, ConsoleTypeOK
<1>23. CASE OpenConsole
  BY <1>1, <1>9, <1>23 DEF OpenConsole, ring, printVars, ConsoleTypeOK
<1>24. CASE SendInput
  <2>1. input_console' \in 0 .. MaxInputs /\ inputs' \in 0 .. MaxInputs /\ taken' \in 0 .. MaxInputs
    BY <1>1, <1>24 DEF SendInput, ConsoleTypeOK
  <2>2. print("web")
    BY <1>24 DEF SendInput
  <2>3. /\ printed' \in 0 .. MaxLines /\ overlaps' \in 0 .. MaxLines
        /\ line' \in [Printers -> 0 .. MaxLines] /\ doing' \in [Printers -> Steps]
    BY <1>2, <1>7, <2>2
  <2>4. UNCHANGED <<printweb, printcun, mojicount, reg, content, since>>
    BY <2>2 DEF print, ring
  <2> QED BY <1>1, <1>9, <2>1, <2>3, <2>4 DEF ConsoleTypeOK
<1>25. CASE Read
  BY <1>1, <1>2, <1>3, <1>9, <1>25 DEF Read, ring, printVars, ConsoleTypeOK
<1>26. CASE Forget
  BY <1>1, <1>2, <1>3, <1>26 DEF Forget, ring, printVars, ConsoleTypeOK
<1>27. CASE UNCHANGED consoleVars
  BY <1>1, <1>27 DEF consoleVars, ring, inputVars, printVars, ConsoleTypeOK
<1> QED
  BY <1>10, <1>11, <1>12, <1>13, <1>14, <1>15, <1>16, <1>17, <1>18, <1>19, <1>20, <1>21, <1>22,
     <1>23, <1>24, <1>25, <1>26, <1>27 DEF ConsoleNext

(* Every print that begins beside another one may push the index one on.    *)
LEMMA PrintCounters ==
  ASSUME ConsoleIInv, NEW t \in Printers, doing[t] = "idle", print(t)
  PROVE  CountersKnown'
<1>1. /\ UNCHANGED <<printcun, mojicount, since, reg>> /\ printed' = printed + 1
      /\ Do(t, IF RingIsFull THEN "wrap" ELSE "take")
      /\ overlaps' = overlaps + (IF \E u \in Printers \ {t} : Printing(u) THEN 1 ELSE 0)
  BY DEF print, ring
<1>2. /\ doing'[t] = (IF RingIsFull THEN "wrap" ELSE "take")
      /\ \A u \in Printers : u # t => doing'[u] = doing[u]
  BY <1>1, DoMoves DEF ConsoleIInv
<1>3. /\ printcun \in Nat /\ mojicount \in Nat /\ MaxConsole \in Nat \ {0} /\ overlaps \in Nat
      /\ printed \in Nat /\ since \in Nat /\ reg \in [Printers -> Nat]
  BY DEF ConsoleIInv, ConsoleTypeOK
<1>4. CountersKnown
  BY DEF ConsoleIInv
<1>5. CASE \E u \in Printers \ {t} : Printing(u)
  <2>1. overlaps' = overlaps + 1
    BY <1>1, <1>5
  <2> QED BY <1>1, <1>2, <1>3, <1>4, <2>1 DEF CountersKnown, Bound, Printing, RingIsFull
<1>6. CASE ~\E u \in Printers \ {t} : Printing(u)
  <2>1. overlaps' = overlaps
    BY <1>1, <1>3, <1>6
  <2> QED BY <1>1, <1>2, <1>3, <1>4, <1>6, <2>1 DEF CountersKnown, Bound, Printing, RingIsFull
<1> QED BY <1>5, <1>6

LEMMA CountersKept ==
  ASSUME ConsoleIInv, [ConsoleNext]_consoleVars
  PROVE  CountersKnown'
<1>1. /\ printcun \in Nat /\ mojicount \in Nat /\ MaxConsole \in Nat \ {0} /\ overlaps \in Nat
      /\ printed \in Nat /\ since \in Nat /\ reg \in [Printers -> Nat] /\ CountersKnown
      /\ "web" \in Printers /\ "sketch" \in Printers /\ ConsoleTypeOK
  BY DEF ConsoleIInv, ConsoleTypeOK, Printers
<1>2. ASSUME NEW t \in Printers, StartPrint(t) PROVE CountersKnown'
  BY <1>2, PrintCounters DEF StartPrint, Enter
<1>3. CASE SendInput
  BY <1>1, <1>3, PrintCounters DEF SendInput, Enter
<1>4. ASSUME NEW t \in Printers, Wrap(t) PROVE CountersKnown'
  <2>1. /\ doing'[t] = "take" /\ \A u \in Printers : u # t => doing'[u] = doing[u]
    BY <1>1, <1>4, DoMoves DEF Wrap
  <2> QED BY <1>1, <1>4, <2>1 DEF Wrap, printVars, CountersKnown, Bound, Printing
<1>5. ASSUME NEW t \in Printers, Take(t) PROVE CountersKnown'
  <2>1. /\ doing'[t] = "advance" /\ \A u \in Printers : u # t => doing'[u] = doing[u]
    BY <1>1, <1>5, DoMoves DEF Take
  <2>2. reg'[t] = printcun /\ \A u \in Printers : u # t => reg'[u] = reg[u]
    BY <1>1, <1>5 DEF Take, Load
  <2> QED BY <1>1, <1>5, <2>1, <2>2 DEF Take, ring, printVars, CountersKnown, Bound, Printing
<1>6. ASSUME NEW t \in Printers, Advance(t) PROVE CountersKnown'
  <2>1. /\ doing'[t] = "copy" /\ \A u \in Printers : u # t => doing'[u] = doing[u]
    BY <1>1, <1>6, DoMoves DEF Advance
  <2>2. /\ UNCHANGED <<mojicount, printed, overlaps, since, reg>> /\ doing[t] = "advance"
        /\ printcun' = reg[t] + 1
    BY <1>6 DEF Advance, printVars
  <2>3. reg[t] + 1 <= Bound
        /\ \A u \in Printers : u # t /\ doing[u] \in {"wrap", "take"} => reg[t] + 2 <= Bound
    BY <1>1, <2>2 DEF CountersKnown
  <2>4. Bound' = Bound
    BY <2>2 DEF Bound
  <2>5. printcun' <= Bound' /\ \A u \in Printers : doing'[u] = "take" => printcun' + 1 <= Bound'
    BY <1>1, <2>1, <2>2, <2>3, <2>4
  <2>6. \A u, v \in Printers : u # v /\ doing'[u] = "take" => doing'[v] \notin {"wrap", "take"}
    BY <2>1 DEF Printers
  <2>7. \A u, v \in Printers : u # v => ~(Printing(u)' /\ Printing(v)') \/ overlaps' > 0
    BY <1>1, <2>1, <2>2 DEF CountersKnown, Printing
  <2> QED BY <1>1, <2>1, <2>2, <2>4, <2>5, <2>6, <2>7 DEF CountersKnown
<1>7. ASSUME NEW t \in Printers, CopyLine(t) PROVE CountersKnown'
  <2>1. /\ doing'[t] = "count" /\ \A u \in Printers : u # t => doing'[u] = doing[u]
    BY <1>1, <1>7, DoMoves DEF CopyLine
  <2> QED BY <1>1, <1>7, <2>1 DEF CopyLine, printVars, CountersKnown, Bound, Printing
<1>8. ASSUME NEW t \in Printers, Count(t) PROVE CountersKnown'
  <2>0. UNCHANGED <<printcun, mojicount, printed, overlaps, since>> /\ doing[t] = "count"
    BY <1>8 DEF Count, ring
  <2>1. CASE mojicount <= MaxConsole
    <3>1. /\ doing'[t] = "grow" /\ \A u \in Printers : u # t => doing'[u] = doing[u]
      BY <1>1, <1>8, <2>1, DoMoves DEF Count
    <3>2. reg'[t] = mojicount /\ \A u \in Printers : u # t => reg'[u] = reg[u]
      BY <1>1, <1>8, <2>1 DEF Count, Load
    <3> QED BY <1>1, <2>0, <2>1, <3>1, <3>2 DEF CountersKnown, Bound, Printing
  <2>2. CASE ~(mojicount <= MaxConsole)
    <3>1. /\ doing'[t] = "idle" /\ \A u \in Printers : u # t => doing'[u] = doing[u]
      BY <1>1, <1>8, <2>2, DoMoves DEF Count
    <3>2. \A u \in Printers : u # t => reg'[u] = reg[u]
      BY <1>1, <1>8, <2>2 DEF Count, Return
    <3> QED BY <1>1, <2>0, <3>1, <3>2 DEF CountersKnown, Bound, Printing
  <2> QED BY <2>1, <2>2
<1>9. ASSUME NEW t \in Printers, Grow(t) PROVE CountersKnown'
  <2>1. /\ doing'[t] = "idle" /\ \A u \in Printers : u # t => doing'[u] = doing[u]
    BY <1>1, <1>9, DoMoves DEF Grow
  <2>2. \A u \in Printers : u # t => reg'[u] = reg[u]
    BY <1>1, <1>9 DEF Grow, Return
  <2> QED BY <1>1, <1>9, <2>1, <2>2 DEF Grow, CountersKnown, Bound, Printing
<1>10. ASSUME NEW t \in Printers, clearConsole(t) PROVE CountersKnown'
  <2>1. /\ doing'[t] = "rewind" /\ \A u \in Printers : u # t => doing'[u] = doing[u]
    BY <1>1, <1>10, DoMoves DEF clearConsole
  <2> QED BY <1>1, <1>10, <2>1 DEF clearConsole, printVars, CountersKnown, Bound, Printing
<1>11. ASSUME NEW t \in Printers, Rewind(t) PROVE CountersKnown'
  <2>1. /\ doing'[t] = "idle" /\ \A u \in Printers : u # t => doing'[u] = doing[u]
    BY <1>1, <1>11, DoMoves DEF Rewind
  <2> QED BY <1>1, <1>11, <2>1 DEF Rewind, printVars, CountersKnown, Bound, Printing
(* Steps that no counter depends on: the place they move to is none of them. *)
<1>12. ASSUME NEW t \in Printers, NEW place \in {"idle", "from", "show", "send", "forget"},
              Do(t, place), \A u \in Printers : u # t => reg'[u] = reg[u],
              UNCHANGED <<printcun, mojicount, printed, overlaps, since>>
       PROVE  CountersKnown'
  <2>1. /\ doing'[t] = place /\ \A u \in Printers : u # t => doing'[u] = doing[u]
    BY <1>1, <1>12, DoMoves
  <2> QED BY <1>1, <1>12, <2>1 DEF CountersKnown, Bound, Printing
<1>13. ASSUME UNCHANGED <<printcun, mojicount, printed, overlaps, since, doing>>,
              \/ UNCHANGED reg
              \/ doing["web"] = "show" /\ \A u \in Printers : u # "web" => reg'[u] = reg[u]
       PROVE  CountersKnown'
  BY <1>1, <1>13 DEF CountersKnown, Bound, Printing
<1>14. CASE OpenCons
  BY <1>1, <1>12, <1>14 DEF OpenCons, Load, ring, printVars
<1>15. CASE ConsFrom
  BY <1>1, <1>12, <1>15 DEF ConsFrom, Load, ring, printVars
<1>16. CASE ConsShow
  <2>1. CASE Len(content) < mojicount
    BY <1>1, <1>13, <1>16, <2>1 DEF ConsShow, Load, ring, printVars
  <2>2. CASE ~(Len(content) < mojicount)
    BY <1>1, <1>12, <1>16, <2>2 DEF ConsShow, ring, printVars
  <2> QED BY <2>1, <2>2
<1>17. CASE ConsSend
  BY <1>1, <1>12, <1>17 DEF ConsSend, Load, ring, printVars
<1>18. CASE OpenConsole
  BY <1>1, <1>13, <1>18 DEF OpenConsole, ring, printVars
<1>19. CASE Read
  BY <1>1, <1>12, <1>19 DEF Read, ring, printVars
<1>20. CASE Forget
  BY <1>1, <1>12, <1>20 DEF Forget, ring, printVars
<1>21. CASE UNCHANGED consoleVars
  BY <1>13, <1>21 DEF consoleVars, ring, printVars
<1> QED
  BY <1>2, <1>3, <1>4, <1>5, <1>6, <1>7, <1>8, <1>9, <1>10, <1>11, <1>14, <1>15, <1>16, <1>17,
     <1>18, <1>19, <1>20, <1>21 DEF ConsoleNext

LEMMA InputsKept ==
  ASSUME ConsoleIInv, [ConsoleNext]_consoleVars
  PROVE  InputKnown' /\ ReadOnce'
<1>1. /\ input_console \in Nat /\ inputs \in Nat /\ taken \in Nat
      /\ ConsoleTypeOK /\ InputKnown /\ ReadOnce
      /\ "web" \in Printers /\ "sketch" \in Printers /\ "web" # "sketch"
  BY DEF ConsoleIInv, ConsoleTypeOK, Printers
<1>2. ASSUME UNCHANGED inputVars, doing'["sketch"] = "forget" \/ doing["sketch"] # "forget"
      PROVE  InputKnown' /\ ReadOnce'
  BY <1>1, <1>2 DEF inputVars, InputKnown, ReadOnce
<1>3. ASSUME NEW t \in Printers, NEW place, Do(t, place), doing[t] # "forget"
      PROVE  doing'["sketch"] = "forget" \/ doing["sketch"] # "forget"
  BY <1>1, <1>3, DoMoves
<1>4. ASSUME NEW t \in Printers, StartPrint(t) \/ Wrap(t) \/ Take(t) \/ Advance(t) \/ CopyLine(t)
      PROVE  InputKnown' /\ ReadOnce'
  <2>1. UNCHANGED inputVars /\ doing[t] # "forget" /\ \E place : Do(t, place)
    BY <1>4 DEF StartPrint, Enter, print, Wrap, Take, Advance, CopyLine, inputVars
  <2> QED BY <1>2, <1>3, <2>1
<1>5. ASSUME NEW t \in Printers, Count(t) \/ Grow(t) \/ clearConsole(t) \/ Rewind(t)
      PROVE  InputKnown' /\ ReadOnce'
  <2>1. UNCHANGED inputVars /\ doing[t] # "forget" /\ \E place : Do(t, place)
    BY <1>5 DEF Count, Grow, clearConsole, Rewind, inputVars
  <2> QED BY <1>2, <1>3, <2>1
<1>6. CASE OpenCons \/ ConsFrom \/ ConsSend
  <2>1. UNCHANGED inputVars /\ doing["web"] # "forget" /\ \E place : Do("web", place)
    BY <1>6 DEF OpenCons, Enter, ConsFrom, ConsSend, inputVars
  <2> QED BY <1>1, <1>2, <1>3, <2>1
<1>7. CASE ConsShow
  <2>1. UNCHANGED inputVars /\ doing["web"] # "forget" /\ (doing' = doing \/ Do("web", "send"))
    BY <1>7 DEF ConsShow, inputVars
  <2> QED BY <1>1, <1>2, <1>3, <2>1
<1>8. CASE OpenConsole
  BY <1>1, <1>8 DEF OpenConsole, InputKnown, ReadOnce
<1>9. CASE SendInput
  BY <1>1, <1>9 DEF SendInput, InputKnown, ReadOnce
<1>10. CASE Read
  <2>1. doing'["sketch"] = "forget"
    BY <1>1, <1>10, DoMoves DEF Read
  <2> QED BY <1>1, <1>10, <2>1 DEF Read, InputKnown, ReadOnce
<1>11. CASE Forget
  BY <1>1, <1>11 DEF Forget, InputKnown, ReadOnce
<1>12. CASE UNCHANGED consoleVars
  BY <1>2, <1>12 DEF consoleVars
<1> QED
  BY <1>4, <1>5, <1>6, <1>7, <1>8, <1>9, <1>10, <1>11, <1>12 DEF ConsoleNext

(* A page that is sent unraced shows the ring from its first slot on.       *)
LEMMA PagesInOrder ==
  ASSUME ConsoleIInv
  PROVE  PageInOrder
<1> SUFFICES ASSUME doing["web"] = "send", ~raced PROVE PageInOrder
  BY DEF PageInOrder
<1> DEFINE M == MaxConsole
           L == mojicount
           c == printcun
           n == printed - since
           kept == IF n < M THEN n ELSE M
<1>1. RingRest /\ PageKnown
  BY PageAlone
<1>2. /\ Len(content) = L /\ DOMAIN content = 1 .. L
      /\ \A k \in 1 .. L : content[k] = LineAt(ShownSlot(k))
  <2>1. content \in Seq((0 .. MaxLines) \cup {Foreign})
    BY DEF ConsoleIInv, ConsoleTypeOK
  <2>2. Len(content) = L /\ \A k \in DOMAIN content : content[k] = LineAt(ShownSlot(k))
    BY <1>1 DEF PageKnown
  <2> HIDE DEF L
  <2> QED BY <2>1, <2>2
<1>3. /\ M \in Nat \ {0} /\ L \in Nat /\ c \in Nat /\ printed \in Nat /\ since \in Nat
      /\ since <= printed /\ n \in Nat /\ DOMAIN printweb = 0 .. M - 1
  BY DEF ConsoleIInv, ConsoleTypeOK, CountersKnown
<1>4. /\ Filled(printed, c) /\ L = (IF n <= M THEN n ELSE M + 1)
      /\ c <= M /\ (n <= M => c = n) /\ (n > 0 => c > 0)
  BY <1>1 DEF RingRest, Counted, Indexed
<1>5. SUFFICES \E newest \in {printed, printed - 1}, gap \in 1 .. Len(content) + 1 :
        /\ LinesBehind(0, gap) >= kept - 1
        /\ \A i \in DOMAIN content :
             content[i] = IF i = gap THEN Foreign ELSE newest - LinesBehind(i, gap)
  BY DEF PageInOrder
<1>6. CASE L < M
  <2>1. n = L /\ c = L /\ kept = L
    BY <1>3, <1>4, <1>6
  <2>2. L + 1 \in 1 .. Len(content) + 1
    BY <1>2, <1>3
  <2>3. \A k \in 0 .. L : LinesBehind(k, L + 1) = L - k
    BY <1>2, <1>3 DEF LinesBehind
  <2>4. ASSUME NEW k \in 1 .. L PROVE content[k] = printed - (L - k)
    <3>1. ShownSlot(k) = k - 1 /\ k - 1 \in DOMAIN printweb
      BY <1>3, <1>6 DEF ShownSlot, FirstSlot
    <3>2. LineOf(k - 1, printed, c) = printed - (L - k) /\ printed - (L - k) > since
      BY <1>3, <2>1 DEF LineOf
    <3> QED BY <1>2, <1>4, <3>1, <3>2 DEF Filled, LineAt
  <2>5. LinesBehind(0, L + 1) >= kept - 1
    BY <1>3, <2>1, <2>3
  <2>6. \A i \in DOMAIN content :
          content[i] = IF i = L + 1 THEN Foreign ELSE printed - LinesBehind(i, L + 1)
    BY <1>2, <1>3, <2>3, <2>4
  <2> QED BY <2>2, <2>5, <2>6
<1>7. CASE L >= M
  <2> DEFINE gap == M - c + 1
             newest == printed + L - M - 1
  <2>1. n >= M /\ kept = M /\ c \in 1 .. M /\ L \in {M, M + 1} /\ gap \in 1 .. M
    BY <1>3, <1>4, <1>7
  <2>2. newest \in {printed, printed - 1} /\ gap \in 1 .. Len(content) + 1
    BY <1>2, <1>3, <1>7, <2>1
  <2>3. \A k \in 0 .. L : LinesBehind(k, gap) = IF k < gap THEN L - k - 1 ELSE L - k
    BY <1>2, <1>3, <1>7, <2>1 DEF LinesBehind
  <2>4. ASSUME NEW k \in 1 .. L, k = gap PROVE content[k] = Foreign
    <3>1. ShownSlot(k) = M /\ M \notin DOMAIN printweb
      BY <1>3, <1>7, <2>1, <2>4 DEF ShownSlot, FirstSlot
    <3> QED BY <1>2, <3>1 DEF LineAt
  <2>5. ASSUME NEW k \in 1 .. L, k < gap PROVE content[k] = newest - LinesBehind(k, gap)
    <3>1. ShownSlot(k) = c + k - 1 /\ c + k - 1 \in DOMAIN printweb
      BY <1>3, <1>7, <2>1, <2>5 DEF ShownSlot, FirstSlot
    <3>2. LineOf(c + k - 1, printed, c) = printed + k - M /\ printed + k - M > since
      BY <1>3, <2>1 DEF LineOf
    <3>3. content[k] = printed + k - M
      BY <1>2, <1>4, <3>1, <3>2 DEF Filled, LineAt
    <3> QED BY <1>3, <2>1, <2>3, <2>5, <3>3
  <2>6. ASSUME NEW k \in 1 .. L, k > gap PROVE content[k] = newest - LinesBehind(k, gap)
    <3>1. ShownSlot(k) = c + k - M - 2 /\ c + k - M - 2 \in DOMAIN printweb
      BY <1>3, <1>7, <2>1, <2>6 DEF ShownSlot, FirstSlot
    <3>2. LineOf(c + k - M - 2, printed, c) = printed + k - M - 1 /\ printed + k - M - 1 > since
      BY <1>3, <2>1, <2>6 DEF LineOf
    <3>3. content[k] = printed + k - M - 1
      BY <1>2, <1>4, <3>1, <3>2 DEF Filled, LineAt
    <3> QED BY <1>3, <2>1, <2>3, <2>6, <3>3
  <2>7. LinesBehind(0, gap) >= kept - 1
    BY <1>3, <1>7, <2>1, <2>3
  <2>8. \A i \in DOMAIN content :
          content[i] = IF i = gap THEN Foreign ELSE newest - LinesBehind(i, gap)
    BY <1>2, <1>3, <2>1, <2>4, <2>5, <2>6
  <2> HIDE DEF gap, newest
  <2> QED BY <2>2, <2>7, <2>8
<1> QED BY <1>3, <1>6, <1>7

(***************************************************************************)
(* What is known of the console in every state: the counters, the lines of  *)
(* the ring and of the page under way, and the inputs (NefryConsole.cpp:    *)
(* 33-134).                                                                *)
(***************************************************************************)
THEOREM ConsoleInvariant == ConsoleSpec => []ConsoleIInv
<1>1. ConsoleIInv /\ [ConsoleNext]_consoleVars => ConsoleIInv'
  BY ConsoleTypesKept, CountersKept, UnracedKept, InputsKept DEF ConsoleIInv
<1> QED BY ConsoleInitial, <1>1, PTL DEF ConsoleSpec

(* However the sketch and the web task interleave at the console, its index *)
(* and its count stay bounded, a page that was built unraced shows the lines *)
(* of the ring in order, and an input is read once (NefryConsole.cpp:33-134). *)
THEOREM ConsoleCorrect == ConsoleSpec => []ConsoleInv
<1>1. ConsoleIInv => ConsoleInv
  BY PagesInOrder DEF ConsoleIInv, CountersKnown, CountersBounded, Bound, ConsoleInv
<1> QED BY ConsoleInvariant, <1>1, PTL

(***************************************************************************)
(* I2C.                                                                     *)
(***************************************************************************)
Wires        == {"sda", "scl"}
Transactions == [kind : {"write", "read"}, from : Nat, length : Nat, want : Seq(Nat)]

(* The bytes of a write are in the buffer, below an end.                    *)
InBuffer(item, end) ==
  /\ item.from + item.length <= end /\ Len(item.want) = item.length
  /\ \A i \in 1 .. item.length : txBuffer[item.from + i - 1] = item.want[i]

CursorsKnown ==
  /\ txIndex = txLength /\ rxQueued = 0 /\ rxIndex <= rxLength
  /\ transmitting => txQueued <= txLength

QueueKnown ==
  /\ queued \in Seq(Transactions) /\ wanted \in Seq(Nat)
  /\ ~mislaid => \A k \in DOMAIN queued : queued[k].kind = "write" => InBuffer(queued[k], txQueued)
  /\ ~mislaid /\ transmitting => InBuffer(WriteOf(txQueued, txLength - txQueued, wanted), txLength)

WireIInv == WireTypeOK /\ CursorsKnown /\ QueueKnown /\ WritesIntact /\ ReadsLatest /\ PinsTogether

LEMMA BufferSizes ==
  /\ I2C_BUFFER_LENGTH \in Nat \ {0} /\ MaxBytes \in Nat /\ MaxRequests \in Nat
  /\ \A i : i \in Slots <=> i \in Nat /\ i < I2C_BUFFER_LENGTH
BY WireAssumption DEF Slots

LEMMA WireInitial == WireInit => WireIInv
<1> SUFFICES ASSUME WireInit PROVE WireIInv
  OBVIOUS
<1>1. queued = <<>> /\ wanted = <<>> /\ onWire = {} /\ answer = <<>> /\ ~transmitting
      /\ wires = [wire \in Wires |-> Unwired] /\ i2c = FALSE
  BY DEF WireInit, Wires
<1>2. WireTypeOK
  <2>1. txBuffer \in [Slots -> 0 .. MaxBytes]
    BY BufferSizes DEF WireInit
  <2>2. rxBuffer \in [Slots -> (0 .. MaxRequests) \X Nat]
    <3>1. Nowhere \in (0 .. MaxRequests) \X Nat
      BY BufferSizes DEF Nowhere
    <3> QED BY <3>1 DEF WireInit
  <2>3. {txIndex, txLength, txQueued} \subseteq 0 .. I2C_BUFFER_LENGTH
        /\ {rxIndex, rxLength, rxQueued} \subseteq 0 .. I2C_BUFFER_LENGTH
        /\ madeBytes \in 0 .. MaxBytes /\ requests \in 0 .. MaxRequests
    BY BufferSizes DEF WireInit
  <2>4. wires \in [Wires -> WirePins \cup {Unwired, SDA, SCL}]
    BY <1>1
  <2> QED BY <2>1, <2>2, <2>3, <2>4 DEF WireInit, WireTypeOK, Wires
<1>3. CursorsKnown /\ QueueKnown /\ WritesIntact /\ ReadsLatest
  BY <1>1 DEF WireInit, CursorsKnown, QueueKnown, WritesIntact, ReadsLatest
<1>4. PinsTogether
  BY <1>1 DEF PinsTogether, Wires
<1> QED BY <1>2, <1>3, <1>4 DEF WireIInv

LEMMA SentAsWanted ==
  ASSUME NEW item \in Transactions, NEW end, InBuffer(item, end)
  PROVE  Outgoing(item) = item.want
<1> DEFINE w == item.want
           n == item.length
<1>1. w \in Seq(Nat) /\ n \in Nat /\ Len(w) = n
  BY DEF Transactions, InBuffer
<1>2. w = [i \in 1 .. n |-> w[i]]
  BY <1>1
<1>3. \A i \in 1 .. n : txBuffer[item.from + i - 1] = w[i]
  BY DEF InBuffer
<1> QED BY <1>2, <1>3 DEF Outgoing

(* What is carried is the queue and one transaction.                        *)
LEMMA Carried ==
  ASSUME NEW item \in Transactions, queued \in Seq(Transactions),
         WireTypeOK, requests' \in 0 .. MaxRequests, NEW ok, Carry(Append(queued, item), ok)
  PROVE  /\ queued' = <<>>
         /\ rxBuffer' \in [Slots -> (0 .. MaxRequests) \X Nat]
         /\ ok /\ item.kind = "read" => \A i \in Slots : Inside(item, i) => rxBuffer'[i] = <<requests', i>>
         /\ \A e1, e2 :
              /\ \A k \in DOMAIN queued : queued[k].kind = "write" => InBuffer(queued[k], e1)
              /\ item.kind = "write" => InBuffer(item, e2)
              => \A write \in onWire' : write.got = write.want
<1> DEFINE items == Append(queued, item)
<1>1. /\ items \in Seq(Transactions) /\ Len(items) = Len(queued) + 1 /\ DOMAIN items = 1 .. Len(queued) + 1
      /\ items[Len(queued) + 1] = item
      /\ \A k \in DOMAIN queued : items[k] = queued[k]
      /\ DOMAIN queued = 1 .. Len(queued) /\ Len(queued) \in Nat
  BY AppendProperties, LenProperties
<1> HIDE DEF items
<1>2. queued' = <<>>
  BY DEF Carry
<1>3. rxBuffer' = IF ~ok THEN rxBuffer ELSE
       [i \in Slots |-> IF \E k \in DOMAIN items : items[k].kind = "read" /\ Inside(items[k], i)
                        THEN <<requests', i>> ELSE rxBuffer[i]]
  BY DEF Carry, items
<1>4. onWire' = IF ~ok THEN {} ELSE
       {[want |-> items[k].want, got |-> Outgoing(items[k])] : k \in {j \in DOMAIN items : items[j].kind = "write"}}
  BY DEF Carry, items
<1>5. rxBuffer' \in [Slots -> (0 .. MaxRequests) \X Nat]
  <2>1. \A i \in Slots : <<requests', i>> \in (0 .. MaxRequests) \X Nat
    BY BufferSizes
  <2> QED BY <1>3, <2>1 DEF WireTypeOK
<1>6. ok /\ item.kind = "read" => \A i \in Slots : Inside(item, i) => rxBuffer'[i] = <<requests', i>>
  <2> SUFFICES ASSUME ok, item.kind = "read", NEW i \in Slots, Inside(item, i)
               PROVE  rxBuffer'[i] = <<requests', i>>
    OBVIOUS
  <2>1. \E k \in DOMAIN items : items[k].kind = "read" /\ Inside(items[k], i)
    BY <1>1
  <2> QED BY <1>3, <2>1
<1>7. ASSUME NEW e1, NEW e2,
             \A k \in DOMAIN queued : queued[k].kind = "write" => InBuffer(queued[k], e1),
             item.kind = "write" => InBuffer(item, e2),
             NEW write \in onWire'
      PROVE  write.got = write.want
  <2>1. PICK k \in DOMAIN items :
           items[k].kind = "write" /\ write = [want |-> items[k].want, got |-> Outgoing(items[k])]
    BY <1>4
  <2>2. Outgoing(items[k]) = items[k].want
    <3>1. items[k] \in Transactions
      BY <1>1
    <3>2. CASE k = Len(queued) + 1
      BY <1>1, <1>7, <2>1, <3>2, SentAsWanted
    <3>3. CASE k # Len(queued) + 1
      <4>1. k \in DOMAIN queued
        BY <1>1, <3>3
      <4>2. queued[k] \in Transactions /\ InBuffer(queued[k], e1) /\ items[k] = queued[k]
        BY <1>1, <1>7, <2>1, <3>1, <4>1
      <4> QED BY <4>2, SentAsWanted
    <3> QED BY <3>2, <3>3
  <2> QED BY <2>1, <2>2
<1> QED BY <1>2, <1>5, <1>6, <1>7

(* A flush empties the queue and the buffers.                               *)
LEMMA BusFlushed ==
  ASSUME WireIInv, flush, wanted' \in Seq(Nat), answer' = <<>>,
         UNCHANGED <<bus, madeBytes>>, requests' \in 0 .. MaxRequests,
         transmitting' \in BOOLEAN, mislaid' \in BOOLEAN, transmitting' => mislaid'
  PROVE  WireIInv'
<1>1. /\ rxIndex' = 0 /\ rxLength' = 0 /\ rxQueued' = 0
      /\ txIndex' = 0 /\ txLength' = 0 /\ txQueued' = 0
      /\ queued' = <<>> /\ onWire' = {}
      /\ UNCHANGED <<txBuffer, rxBuffer>> /\ UNCHANGED <<num, wires, i2c>>
  BY DEF flush, bus
<1>2. WireTypeOK'
  <2>1. 0 \in 0 .. I2C_BUFFER_LENGTH
    BY BufferSizes
  <2> QED BY <1>1, <2>1 DEF WireIInv, WireTypeOK
<1>3. CursorsKnown' /\ WritesIntact' /\ ReadsLatest'
  BY <1>1 DEF CursorsKnown, WritesIntact, ReadsLatest
<1>4. QueueKnown'
  BY <1>1 DEF QueueKnown
<1>5. PinsTogether'
  BY <1>1 DEF WireIInv, PinsTogether
<1> QED BY <1>2, <1>3, <1>4, <1>5 DEF WireIInv

LEMMA NothingQueued ==
  ASSUME queued' = <<>>, wanted' = <<>>, mislaid' \/ ~transmitting'
  PROVE  QueueKnown'
<1>1. \A k \in DOMAIN queued' : FALSE
  OBVIOUS
<1>2. <<>> \in Seq(Transactions) /\ <<>> \in Seq(Nat)
  OBVIOUS
<1> QED BY <1>1, <1>2 DEF QueueKnown

LEMMA Requested ==
  ASSUME WireIInv, Request
  PROVE  requests' \in 0 .. MaxRequests
BY BufferSizes DEF Request, WireIInv, WireTypeOK

LEMMA BeginKept ==
  ASSUME WireIInv, NEW named \in [Wires -> WirePins \cup {Unwired}], NEW ok \in BOOLEAN, begin(named, ok)
  PROVE  WireIInv'
<1> DEFINE chosen == [wire \in DOMAIN wires |-> PinOf(named[wire], wire)]
<1>1. WireTypeOK /\ PinsTogether /\ DOMAIN wires = Wires
  BY DEF WireIInv, WireTypeOK, Wires
<1>2. /\ Request /\ PinsKnown(chosen) /\ wires' = chosen /\ i2c' = ok
      /\ IF ok THEN flush ELSE queued' = <<>> /\ onWire' = {} /\ UNCHANGED <<tx, rx>>
      /\ wanted' = <<>> /\ answer' = <<>> /\ mislaid' = (mislaid \/ transmitting)
      /\ UNCHANGED <<num, transmitting, madeBytes>>
  BY DEF begin
<1>3. \A wire \in Wires : chosen[wire] \in WirePins \cup {Unwired, SDA, SCL}
  <2> SUFFICES ASSUME NEW wire \in Wires PROVE PinOf(named[wire], wire) \in WirePins \cup {Unwired, SDA, SCL}
    BY <1>1
  <2>1. named[wire] \in WirePins \cup {Unwired} /\ wires[wire] \in WirePins \cup {Unwired, SDA, SCL}
    BY <1>1 DEF WireTypeOK, Wires
  <2> QED BY <2>1 DEF PinOf
<1>4. num = 1 => \A wire \in Wires : chosen[wire] \in WirePins \cup {Unwired}
  <2> SUFFICES ASSUME num = 1, NEW wire \in Wires PROVE PinOf(named[wire], wire) \in WirePins \cup {Unwired}
    BY <1>1
  <2>1. named[wire] \in WirePins \cup {Unwired} /\ wires[wire] \in WirePins \cup {Unwired}
    BY <1>1 DEF PinsTogether, Wires
  <2> QED BY <2>1 DEF PinOf
<1>5. chosen["sda"] # Unwired /\ chosen["scl"] # Unwired
  BY <1>1, <1>2 DEF PinsKnown, Wires
<1>6. chosen \in [Wires -> WirePins \cup {Unwired, SDA, SCL}]
  BY <1>1, <1>3
<1> HIDE DEF chosen
<1>7. PinsTogether'
  BY <1>2, <1>4, <1>5 DEF PinsTogether, Wires
<1>8. requests' \in 0 .. MaxRequests
  BY <1>2, Requested
<1>9. CASE ok
  <2>1. /\ rxIndex' = 0 /\ rxLength' = 0 /\ rxQueued' = 0
        /\ txIndex' = 0 /\ txLength' = 0 /\ txQueued' = 0
        /\ queued' = <<>> /\ onWire' = {} /\ UNCHANGED <<txBuffer, rxBuffer>>
    BY <1>2, <1>9 DEF flush
  <2>2. WireTypeOK'
    <3>1. 0 \in 0 .. I2C_BUFFER_LENGTH
      BY BufferSizes
    <3> QED BY <1>1, <1>2, <1>6, <1>8, <2>1, <3>1 DEF WireTypeOK, Wires
  <2>3. CursorsKnown' /\ WritesIntact' /\ ReadsLatest'
    BY <1>2, <2>1 DEF CursorsKnown, WritesIntact, ReadsLatest
  <2>4. QueueKnown'
    <3>1. mislaid' \/ ~transmitting'
      BY <1>2
    <3> QED BY <1>2, <2>1, <3>1, NothingQueued
  <2> QED BY <1>7, <2>2, <2>3, <2>4 DEF WireIInv
<1>10. CASE ~ok
  <2>1. queued' = <<>> /\ onWire' = {} /\ UNCHANGED <<txBuffer, txIndex, txLength, txQueued>>
        /\ UNCHANGED <<rxBuffer, rxIndex, rxLength, rxQueued>>
    BY <1>2, <1>10 DEF tx, rx
  <2>2. WireTypeOK'
    BY <1>1, <1>2, <1>6, <1>8, <2>1 DEF WireTypeOK, Wires
  <2>3. CursorsKnown' /\ WritesIntact' /\ ReadsLatest'
    BY <1>2, <2>1 DEF WireIInv, CursorsKnown, WritesIntact, ReadsLatest
  <2>4. QueueKnown'
    <3>1. mislaid' \/ ~transmitting'
      BY <1>2
    <3> QED BY <1>2, <2>1, <3>1, NothingQueued
  <2> QED BY <1>7, <2>2, <2>3, <2>4 DEF WireIInv
<1> QED BY <1>9, <1>10

LEMMA BeginTransmissionKept ==
  ASSUME WireIInv, beginTransmission
  PROVE  WireIInv'
<1>1. /\ transmitting' = TRUE /\ txIndex' = txQueued /\ txLength' = txQueued
      /\ wanted' = <<>> /\ onWire' = {} /\ mislaid' = (mislaid /\ queued # <<>>)
      /\ UNCHANGED <<num, wires, i2c, txBuffer, txQueued, rxBuffer, rxIndex, rxLength, rxQueued, queued,
                     madeBytes, requests, answer>>
  BY DEF beginTransmission, NextFree, bus, rx
<1>2. WireTypeOK /\ txQueued \in Nat
  BY BufferSizes DEF WireIInv, WireTypeOK
<1>3. WireTypeOK'
  BY <1>1, <1>2 DEF WireTypeOK
<1>4. CursorsKnown'
  BY <1>1, <1>2 DEF WireIInv, CursorsKnown
<1>5. QueueKnown'
  <2> DEFINE item == WriteOf(txQueued, txQueued - txQueued, <<>>)
  <2>1. InBuffer(item, txQueued)'
    BY <1>1, <1>2 DEF InBuffer, WriteOf
  <2>2. ~mislaid' => \A k \in DOMAIN queued : queued[k].kind = "write" => InBuffer(queued[k], txQueued)
    <3>1. CASE queued = <<>>
      BY <3>1
    <3>2. CASE queued # <<>>
      <4>1. ~mislaid' => ~mislaid
        BY <1>1, <3>2
      <4> QED BY <4>1 DEF WireIInv, QueueKnown
    <3> QED BY <3>1, <3>2
  <2> QED BY <1>1, <2>1, <2>2 DEF WireIInv, QueueKnown, InBuffer
<1>6. WritesIntact' /\ ReadsLatest' /\ PinsTogether'
  BY <1>1 DEF WireIInv, WritesIntact, ReadsLatest, PinsTogether
<1> QED BY <1>3, <1>4, <1>5, <1>6 DEF WireIInv

LEMMA WriteByteKept ==
  ASSUME WireIInv, writeByte
  PROVE  WireIInv'
<1> DEFINE byte == madeBytes + 1
           from == txQueued
           end  == txLength
<1>1. /\ transmitting /\ txLength < I2C_BUFFER_LENGTH /\ madeBytes < MaxBytes /\ madeBytes' = byte
      /\ txBuffer' = [txBuffer EXCEPT ![txIndex] = byte]
      /\ txIndex' = txIndex + 1 /\ txLength' = txIndex + 1
      /\ wanted' = Append(wanted, byte)
      /\ UNCHANGED <<num, wires, i2c, txQueued, rxBuffer, rxIndex, rxLength, rxQueued, transmitting,
                     queued, requests, onWire, answer, mislaid>>
  BY DEF writeByte, HasRoom, bus, rx
<1>2. /\ WireTypeOK /\ byte \in 1 .. MaxBytes /\ byte \in Nat /\ txIndex = end
      /\ from \in Nat /\ end \in Nat /\ from <= end /\ end < I2C_BUFFER_LENGTH /\ end \in Slots
  BY <1>1, BufferSizes DEF WireIInv, WireTypeOK, CursorsKnown
<1>3. \A i \in Slots : txBuffer'[i] = IF i = end THEN byte ELSE txBuffer[i]
  BY <1>1, <1>2 DEF WireTypeOK
<1>4. WireTypeOK'
  <2>1. txBuffer' \in [Slots -> 0 .. MaxBytes]
    BY <1>1, <1>2 DEF WireTypeOK
  <2>2. {txIndex', txLength', txQueued'} \subseteq 0 .. I2C_BUFFER_LENGTH
    BY <1>1, <1>2, BufferSizes DEF WireTypeOK
  <2>3. madeBytes' \in 0 .. MaxBytes
    BY <1>1, <1>2
  <2> QED BY <1>1, <1>2, <2>1, <2>2, <2>3 DEF WireTypeOK
<1>5. CursorsKnown'
  BY <1>1, <1>2 DEF WireIInv, CursorsKnown
<1>6. QueueKnown'
  <2>1. /\ queued \in Seq(Transactions) /\ wanted \in Seq(Nat) /\ wanted' \in Seq(Nat)
        /\ Len(wanted') = Len(wanted) + 1
        /\ \A i \in 1 .. Len(wanted) : wanted'[i] = wanted[i]
        /\ wanted'[Len(wanted) + 1] = byte /\ Len(wanted) \in Nat
    BY <1>1, <1>2, AppendProperties, LenProperties DEF WireIInv, QueueKnown
  <2>2. ASSUME ~mislaid, NEW k \in DOMAIN queued, queued[k].kind = "write"
        PROVE  InBuffer(queued[k], txQueued)'
    <3> DEFINE item == queued[k]
    <3>1. item \in Transactions /\ InBuffer(item, from)
      BY <2>1, <2>2 DEF WireIInv, QueueKnown
    <3>2. item.from \in Nat /\ item.length \in Nat /\ item.from + item.length <= from
          /\ Len(item.want) = item.length
          /\ \A i \in 1 .. item.length : txBuffer[item.from + i - 1] = item.want[i]
      BY <3>1 DEF Transactions, InBuffer
    <3>3. \A i \in 1 .. item.length : item.from + i - 1 \in Slots /\ item.from + i - 1 # end
      <4> DEFINE f == item.from
                 n == item.length
                 p == from
                 z == end
      <4>1. f \in Nat /\ n \in Nat /\ f + n <= p /\ p \in Nat /\ z \in Nat /\ p <= z /\ z < I2C_BUFFER_LENGTH
        BY <1>2, <3>2
      <4> HIDE DEF f, n, p, z
      <4>2. \A i \in 1 .. n : f + i - 1 \in Nat /\ f + i - 1 < z /\ f + i - 1 < I2C_BUFFER_LENGTH
        BY <4>1, BufferSizes
      <4>3. \A i \in 1 .. n : f + i - 1 \in Slots /\ f + i - 1 # z
        BY <4>1, <4>2, BufferSizes
      <4> QED BY <4>3 DEF f, n, z
    <3>4. \A i \in 1 .. item.length : txBuffer'[item.from + i - 1] = item.want[i]
      BY <1>3, <3>2, <3>3
    <3>5. queued'[k] = item /\ txQueued' = from
      BY <1>1
    <3> HIDE DEF item, from
    <3> QED BY <3>2, <3>4, <3>5 DEF InBuffer, item
  <2>3. ASSUME ~mislaid
        PROVE  InBuffer(WriteOf(txQueued, txLength - txQueued, wanted), txLength)'
    <3>1. InBuffer(WriteOf(from, end - from, wanted), end)
      BY <1>1, <2>3 DEF WireIInv, QueueKnown
    <3>2. Len(wanted) = end - from /\ \A i \in 1 .. end - from : txBuffer[from + i - 1] = wanted[i]
      BY <3>1 DEF InBuffer, WriteOf
    <3>3. \A i \in 1 .. end + 1 - from : txBuffer'[from + i - 1] = wanted'[i]
      <4> SUFFICES ASSUME NEW i \in 1 .. end + 1 - from PROVE txBuffer'[from + i - 1] = wanted'[i]
        OBVIOUS
      <4>1. CASE i = end + 1 - from
        <5>1. from + i - 1 = end /\ i = Len(wanted) + 1
          BY <1>2, <3>2, <4>1
        <5>2. txBuffer'[end] = byte
          BY <1>2, <1>3
        <5>3. wanted'[i] = byte
          BY <2>1, <5>1
        <5>4. txBuffer'[from + i - 1] = txBuffer'[end]
          BY <5>1
        <5> HIDE DEF from, end, byte
        <5> QED BY <5>2, <5>3, <5>4
      <4>2. CASE i # end + 1 - from
        <5>1. i \in 1 .. end - from /\ from + i - 1 \in Slots /\ from + i - 1 # end
          BY <1>2, <4>2, BufferSizes
        <5> QED BY <1>3, <2>1, <3>2, <5>1
      <4> QED BY <4>1, <4>2
    <3>4. txLength' = end + 1 /\ txQueued' = from
      BY <1>1, <1>2
    <3>5. from + (end + 1 - from) <= end + 1 /\ Len(wanted') = end + 1 - from
      BY <1>2, <2>1, <3>2
    <3>0. from \in Nat /\ end \in Nat
      BY <1>2
    <3> HIDE DEF from, end
    <3>6. \A i \in 1 .. txLength' - txQueued' : txBuffer'[txQueued' + i - 1] = wanted'[i]
      BY <3>0, <3>3, <3>4
    <3>7. txQueued' + (txLength' - txQueued') <= txLength' /\ Len(wanted') = txLength' - txQueued'
      BY <3>0, <3>4, <3>5
    <3> QED BY <3>6, <3>7 DEF InBuffer, WriteOf
  <2> QED BY <1>1, <2>1, <2>2, <2>3 DEF QueueKnown
<1>7. WritesIntact' /\ ReadsLatest' /\ PinsTogether'
  BY <1>1 DEF WireIInv, WritesIntact, ReadsLatest, PinsTogether
<1> QED BY <1>4, <1>5, <1>6, <1>7 DEF WireIInv

LEMMA EndTransmissionKept ==
  ASSUME WireIInv, NEW stop \in BOOLEAN, NEW ok \in BOOLEAN, endTransmission(stop, ok)
  PROVE  WireIInv'
<1>1. /\ Request /\ transmitting' = FALSE /\ answer' = <<>> /\ wanted' = <<>>
      /\ UNCHANGED <<num, wires, i2c, madeBytes, mislaid>>
  BY DEF endTransmission, bus
<1>2. WireTypeOK /\ requests' \in 0 .. MaxRequests
  BY <1>1, Requested DEF WireIInv
<1>3. CASE ~transmitting
  <2>1. flush
    BY <1>3 DEF endTransmission
  <2>2. <<>> \in Seq(Nat) /\ mislaid \in BOOLEAN
    BY <1>2 DEF WireTypeOK
  <2> QED BY <1>1, <1>2, <2>1, <2>2, BusFlushed DEF bus
<1>4. CASE transmitting
  <2> DEFINE item == WriteOf(txQueued, txLength - txQueued, wanted)
  <2>1. /\ IF stop THEN Carry(Append(queued, item), ok) ELSE Enqueue(item)
        /\ rxIndex' = 0 /\ rxLength' = rxQueued /\ rxQueued' = 0
        /\ txQueued' = IF stop THEN 0 ELSE txLength
        /\ txIndex' = 0 /\ txLength' = 0
        /\ UNCHANGED txBuffer
    BY <1>4 DEF endTransmission, ShowReceived
  <2>2. /\ queued \in Seq(Transactions) /\ wanted \in Seq(Nat)
        /\ txQueued \in 0 .. I2C_BUFFER_LENGTH /\ txLength \in 0 .. I2C_BUFFER_LENGTH
        /\ txQueued \in Nat /\ txLength \in Nat /\ txQueued <= txLength
        /\ rxQueued = 0
    BY <1>2, <1>4, BufferSizes DEF WireIInv, WireTypeOK, QueueKnown, CursorsKnown
  <2>3. item \in Transactions /\ item.kind = "write" /\ item.from = txQueued /\ item.length = txLength - txQueued
    BY <2>2 DEF WriteOf, Transactions
  <2>4. ~mislaid => InBuffer(item, txLength)
                    /\ \A k \in DOMAIN queued : queued[k].kind = "write" => InBuffer(queued[k], txQueued)
    BY <1>4 DEF WireIInv, QueueKnown
  <2> HIDE DEF item
  <2>5. CursorsKnown' /\ ReadsLatest' /\ PinsTogether'
    BY <1>1, <2>1, <2>2 DEF WireIInv, CursorsKnown, ReadsLatest, PinsTogether
  <2>6. {txIndex', txLength', txQueued'} \subseteq 0 .. I2C_BUFFER_LENGTH
        /\ {rxIndex', rxLength', rxQueued'} \subseteq 0 .. I2C_BUFFER_LENGTH
    BY <2>1, <2>2, BufferSizes
  <2>7. CASE stop
    <3>1. Carry(Append(queued, item), ok)
      BY <2>1, <2>7
    <3>2. queued' = <<>> /\ rxBuffer' \in [Slots -> (0 .. MaxRequests) \X Nat]
      BY <1>2, <2>2, <2>3, <3>1, Carried
    <3>3. ~mislaid => \A write \in onWire' : write.got = write.want
      BY <1>2, <2>2, <2>3, <2>4, <3>1, Carried
    <3>4. WireTypeOK'
      BY <1>1, <1>2, <2>1, <2>6, <3>2 DEF WireTypeOK
    <3>5. QueueKnown'
      BY <1>1, <3>2, NothingQueued
    <3>6. WritesIntact'
      BY <1>1, <3>3 DEF WritesIntact
    <3> QED BY <2>5, <3>4, <3>5, <3>6 DEF WireIInv
  <2>8. CASE ~stop
    <3>1. queued' = Append(queued, item) /\ UNCHANGED <<onWire, rxBuffer>> /\ txQueued' = txLength
      BY <2>1, <2>8 DEF Enqueue
    <3>2. WireTypeOK'
      BY <1>1, <1>2, <2>1, <2>6, <3>1 DEF WireTypeOK
    <3>3. WritesIntact'
      BY <1>1, <3>1 DEF WireIInv, WritesIntact
    <3>4. /\ queued' \in Seq(Transactions) /\ DOMAIN queued' = 1 .. Len(queued) + 1
          /\ DOMAIN queued = 1 .. Len(queued) /\ Len(queued) \in Nat
          /\ queued'[Len(queued) + 1] = item
          /\ \A k \in DOMAIN queued : queued'[k] = queued[k]
      BY <2>2, <2>3, <3>1, AppendProperties, LenProperties
    <3>5. QueueKnown'
      <4>1. wanted' \in Seq(Nat) /\ ~transmitting' /\ mislaid' = mislaid
        BY <1>1
      <4> SUFFICES ASSUME ~mislaid, NEW k \in DOMAIN queued', queued'[k].kind = "write"
                   PROVE  /\ queued'[k].from + queued'[k].length <= txQueued'
                          /\ Len(queued'[k].want) = queued'[k].length
                          /\ \A i \in 1 .. queued'[k].length :
                               txBuffer'[queued'[k].from + i - 1] = queued'[k].want[i]
        BY <3>4, <4>1 DEF QueueKnown, InBuffer
      <4>2. CASE k = Len(queued) + 1
        BY <2>1, <2>4, <3>1, <3>4, <4>2 DEF InBuffer
      <4>3. CASE k # Len(queued) + 1
        <5> DEFINE x == queued[k]
        <5>1. k \in DOMAIN queued /\ queued'[k] = x
          BY <3>4, <4>3
        <5>2. InBuffer(x, txQueued) /\ x \in Transactions
          BY <2>2, <2>4, <5>1
        <5> HIDE DEF x
        <5>3. /\ x.from + x.length <= txQueued /\ Len(x.want) = x.length
              /\ \A i \in 1 .. x.length : txBuffer[x.from + i - 1] = x.want[i]
              /\ x.from \in Nat /\ x.length \in Nat
          BY <5>2 DEF InBuffer, Transactions
        <5>4. x.from + x.length <= txLength
          BY <2>2, <5>3
        <5> QED BY <2>1, <3>1, <5>1, <5>3, <5>4
      <4> QED BY <3>4, <4>2, <4>3
    <3> QED BY <2>5, <3>2, <3>3, <3>5 DEF WireIInv
  <2> QED BY <2>7, <2>8
<1> QED BY <1>3, <1>4

LEMMA RequestFromKept ==
  ASSUME WireIInv, NEW size \in ReadSizes, NEW stop \in BOOLEAN, NEW ok \in BOOLEAN, requestFrom(size, stop, ok)
  PROVE  WireIInv'
<1> DEFINE fits == rxQueued < I2C_BUFFER_LENGTH - 1 /\ size + rxQueued <= I2C_BUFFER_LENGTH
<1>1. Request /\ UNCHANGED <<num, wires, i2c, transmitting, madeBytes, wanted>>
  BY DEF requestFrom, bus
<1>2. /\ WireTypeOK /\ requests' \in 0 .. MaxRequests /\ rxQueued = 0
      /\ queued \in Seq(Transactions) /\ wanted \in Seq(Nat) /\ size \in Nat
  BY <1>1, Requested, WireAssumption DEF WireIInv, CursorsKnown, QueueKnown
<1>3. CASE ~fits
  <2>1. flush /\ answer' = <<>> /\ mislaid' = (mislaid \/ transmitting)
    BY <1>3 DEF requestFrom
  <2>2. wanted' \in Seq(Nat) /\ transmitting' \in BOOLEAN /\ mislaid' \in BOOLEAN /\ (transmitting' => mislaid')
    BY <1>1, <1>2, <2>1 DEF WireTypeOK
  <2> QED BY <1>1, <1>2, <2>1, <2>2, BusFlushed DEF bus
<1>4. CASE fits
  <2> DEFINE item == ReadOf(rxQueued, size)
  <2>1. /\ IF stop THEN Carry(Append(queued, item), ok) ELSE Enqueue(item)
        /\ rxIndex' = 0 /\ rxLength' = rxQueued + size /\ rxQueued' = 0
        /\ txQueued' = 0
        /\ answer' = IF stop /\ ok THEN <<[i \in 1 .. size |-> <<requests', rxQueued + i - 1>>]>>
                     ELSE <<>>
        /\ mislaid' = (mislaid \/ ~stop \/ transmitting)
        /\ UNCHANGED <<txBuffer, txIndex, txLength>>
    BY <1>4 DEF requestFrom, Rewound
  <2>2. size <= I2C_BUFFER_LENGTH /\ rxLength' = size
    BY <1>2, <1>4, <2>1
  <2>3. item \in Transactions /\ item.kind = "read" /\ item.from = 0 /\ item.length = size
    BY <1>2 DEF ReadOf, Transactions
  <2> HIDE DEF item
  <2>4. CursorsKnown' /\ PinsTogether'
    <3>1. rxIndex' <= rxLength' /\ (transmitting' => txQueued' <= txLength')
      BY <1>2, <2>1, <2>2, BufferSizes DEF WireTypeOK
    <3> QED BY <1>1, <2>1, <3>1 DEF WireIInv, CursorsKnown, PinsTogether
  <2>5. {txIndex', txLength', txQueued'} \subseteq 0 .. I2C_BUFFER_LENGTH
        /\ {rxIndex', rxLength', rxQueued'} \subseteq 0 .. I2C_BUFFER_LENGTH
    BY <1>2, <2>1, <2>2, BufferSizes DEF WireTypeOK
  <2>6. CASE stop
    <3>1. Carry(Append(queued, item), ok)
      BY <2>1, <2>6
    <3>2. /\ queued' = <<>> /\ rxBuffer' \in [Slots -> (0 .. MaxRequests) \X Nat]
          /\ ok => \A i \in Slots : Inside(item, i) => rxBuffer'[i] = <<requests', i>>
      BY <1>2, <2>3, <3>1, Carried
    <3>3. ~mislaid /\ ~transmitting => \A write \in onWire' : write.got = write.want
      <4>1. ~mislaid => \A k \in DOMAIN queued : queued[k].kind = "write" => InBuffer(queued[k], txQueued)
        BY DEF WireIInv, QueueKnown
      <4> QED BY <1>2, <2>3, <3>1, <4>1, Carried
    <3>4. mislaid' \in BOOLEAN /\ (~mislaid' => ~mislaid /\ ~transmitting)
      BY <1>2, <2>1 DEF WireTypeOK
    <3>5. WireTypeOK'
      BY <1>1, <1>2, <2>1, <2>5, <3>2, <3>4 DEF WireTypeOK
    <3>6. QueueKnown'
      BY <1>1, <1>2, <3>2, <3>4 DEF QueueKnown
    <3>7. WritesIntact'
      BY <3>3, <3>4 DEF WritesIntact
    <3>8. ReadsLatest'
      <4>1. CASE ok
        <5>1. answer' = <<[i \in 1 .. size |-> <<requests', i - 1>>]>>
          <6>1. \A i \in 1 .. size : <<requests', rxQueued + i - 1>> = <<requests', i - 1>>
            BY <1>2
          <6>2. [i \in 1 .. size |-> <<requests', rxQueued + i - 1>>] = [i \in 1 .. size |-> <<requests', i - 1>>]
            BY <6>1
          <6>3. answer' = <<[i \in 1 .. size |-> <<requests', rxQueued + i - 1>>]>>
            BY <2>1, <2>6, <4>1
          <6> QED BY <6>2, <6>3
        <5>2. \A i \in 1 .. size : i - 1 \in Slots /\ Inside(item, i - 1)
          BY <1>2, <2>2, <2>3, BufferSizes DEF Inside
        <5>3. \A i \in 1 .. size : rxBuffer'[i - 1] = <<requests', i - 1>>
          BY <3>2, <4>1, <5>2
        <5>4. rxLength' - rxIndex' = size /\ \A i \in 1 .. size : rxIndex' + i - 1 = i - 1
          BY <1>2, <2>1, <2>2
        <5>5. [i \in 1 .. size |-> <<requests', i - 1>>] = [i \in 1 .. size |-> rxBuffer'[rxIndex' + i - 1]]
          BY <5>3, <5>4
        <5>6. DOMAIN answer' = {1} /\ answer'[1] = [i \in 1 .. size |-> <<requests', i - 1>>]
          BY <5>1
        <5> QED BY <5>4, <5>5, <5>6 DEF ReadsLatest
      <4>2. CASE ~ok
        <5>1. answer' = <<>>
          BY <2>1, <4>2
        <5> QED BY <5>1 DEF ReadsLatest
      <4> QED BY <4>1, <4>2
    <3> QED BY <2>4, <3>5, <3>6, <3>7, <3>8 DEF WireIInv
  <2>7. CASE ~stop
    <3>1. queued' = Append(queued, item) /\ UNCHANGED <<onWire, rxBuffer>> /\ mislaid' = TRUE /\ answer' = <<>>
      BY <2>1, <2>7 DEF Enqueue
    <3>2. WireTypeOK'
      BY <1>1, <1>2, <2>1, <2>5, <3>1 DEF WireTypeOK
    <3>3. QueueKnown'
      <4>1. queued' \in Seq(Transactions)
        BY <1>2, <2>3, <3>1, AppendProperties
      <4> QED BY <1>1, <1>2, <3>1, <4>1 DEF QueueKnown
    <3>4. WritesIntact' /\ ReadsLatest'
      BY <3>1 DEF WritesIntact, ReadsLatest
    <3> QED BY <2>4, <3>2, <3>3, <3>4 DEF WireIInv
  <2> QED BY <2>6, <2>7
<1> QED BY <1>3, <1>4

LEMMA WireReadKept ==
  ASSUME WireIInv, read
  PROVE  WireIInv'
<1>1. /\ rxIndex < rxLength /\ rxIndex' = rxIndex + 1
      /\ answer' = [k \in DOMAIN answer |-> SubSeq(answer[k], 2, Len(answer[k]))]
      /\ UNCHANGED <<num, wires, i2c, txBuffer, txIndex, txLength, txQueued, rxBuffer, rxLength, rxQueued,
                     transmitting, queued, madeBytes, requests, wanted, onWire, mislaid>>
  BY DEF read, bus, tx
<1>2. WireTypeOK /\ rxIndex \in Nat /\ rxLength \in Nat /\ rxLength <= I2C_BUFFER_LENGTH
  BY BufferSizes DEF WireIInv, WireTypeOK
<1>3. WireTypeOK'
  BY <1>1, <1>2, BufferSizes DEF WireTypeOK
<1>4. CursorsKnown' /\ WritesIntact' /\ PinsTogether'
  BY <1>1, <1>2 DEF WireIInv, CursorsKnown, WritesIntact, PinsTogether
<1>5. QueueKnown'
  BY <1>1 DEF WireIInv, QueueKnown, InBuffer
<1>6. ReadsLatest'
  <2> SUFFICES ASSUME NEW k \in DOMAIN answer
               PROVE  answer'[k] = [i \in 1 .. rxLength - rxIndex' |-> rxBuffer[rxIndex' + i - 1]]
    BY <1>1 DEF ReadsLatest
  <2> DEFINE a == answer[k]
             n == rxLength - rxIndex
             x == rxIndex
  <2>1. n \in Nat /\ n >= 1 /\ x \in Nat
    BY <1>1, <1>2
  <2>2. a = [i \in 1 .. n |-> rxBuffer[x + i - 1]]
    BY DEF WireIInv, ReadsLatest
  <2>3. rxLength - rxIndex' = n - 1 /\ rxIndex' = x + 1 /\ answer'[k] = SubSeq(a, 2, Len(a))
    BY <1>1, <1>2
  <2> HIDE DEF a, n, x
  <2>4. Len(a) = n
    BY <2>1, <2>2
  <2>5. SubSeq(a, 2, n) = [i \in 1 .. n - 1 |-> a[i + 1]]
    BY <2>1 DEF SubSeq
  <2>6. \A i \in 1 .. n - 1 : a[i + 1] = rxBuffer[(x + 1) + i - 1]
    <3> SUFFICES ASSUME NEW i \in 1 .. n - 1 PROVE a[i + 1] = rxBuffer[(x + 1) + i - 1]
      OBVIOUS
    <3>1. i + 1 \in 1 .. n /\ x + (i + 1) - 1 = (x + 1) + i - 1
      BY <2>1
    <3> QED BY <2>2, <3>1
  <2> QED BY <2>3, <2>4, <2>5, <2>6
<1> QED BY <1>3, <1>4, <1>5, <1>6 DEF WireIInv

LEMMA WireKept == WireIInv /\ [WireNext]_wireVars => WireIInv'
<1>1. ASSUME WireIInv, UNCHANGED wireVars
      PROVE  WireIInv'
  <2>1. UNCHANGED <<num, wires, i2c, txBuffer, txIndex, txLength, txQueued, rxBuffer, rxIndex, rxLength, rxQueued,
                    transmitting, queued, madeBytes, requests, wanted, onWire, answer, mislaid>>
    BY <1>1 DEF wireVars, bus, tx, rx
  <2> QED BY <1>1, <2>1 DEF WireIInv, WireTypeOK, CursorsKnown, QueueKnown, InBuffer, WritesIntact, ReadsLatest,
                            PinsTogether
<1>2. ASSUME WireIInv, NEW sda \in WirePins \cup {Unwired}, NEW scl \in WirePins \cup {Unwired}, NEW ok \in BOOLEAN,
             begin([wire \in DOMAIN wires |-> IF wire = "sda" THEN sda ELSE scl], ok)
      PROVE  WireIInv'
  <2> DEFINE named == [wire \in DOMAIN wires |-> IF wire = "sda" THEN sda ELSE scl]
  <2>1. named \in [Wires -> WirePins \cup {Unwired}]
    BY <1>2 DEF WireIInv, WireTypeOK, Wires
  <2>2. begin(named, ok)
    BY <1>2
  <2> HIDE DEF named
  <2> QED BY <1>2, <2>1, <2>2, BeginKept
<1> QED BY <1>1, <1>2, BeginTransmissionKept, WriteByteKept, WireReadKept, EndTransmissionKept, RequestFromKept
        DEF WireNext

(***************************************************************************)
(* Quotients.                                                               *)
(***************************************************************************)
LEMMA Monotone ==
  ASSUME NEW a \in Nat, NEW b \in Nat, NEW k \in Nat, a <= b
  PROVE  a * k <= b * k /\ k * a <= k * b
<1>1. (b - a) * k >= 0 /\ b - a \in Nat
  OBVIOUS
<1>2. (b - a) * k = b * k - a * k
  OBVIOUS
<1> QED BY <1>1, <1>2

LEMMA Quotient ==
  ASSUME NEW x \in Nat, NEW k \in Nat \ {0}
  PROVE  x \div k \in Nat /\ (x \div k) * k <= x /\ x < (x \div k + 1) * k
  OBVIOUS

LEMMA QuotientBelow ==
  ASSUME NEW x \in Nat, NEW k \in Nat \ {0}, NEW n \in Nat, x < n * k
  PROVE  x \div k < n
<1> DEFINE q == x \div k
<1>1. q \in Nat /\ q * k <= x
  BY Quotient
<1> HIDE DEF q
<1>2. n <= q => n * k <= q * k
  BY <1>1, Monotone
<1>3. n * k \in Nat /\ q * k \in Nat
  BY <1>1
<1> QED BY <1>1, <1>2, <1>3 DEF q

LEMMA QuotientExact ==
  ASSUME NEW x \in Nat, NEW k \in Nat \ {0}
  PROVE  (x * k) \div k = x
<1>1. (x * k) \div k \in Nat /\ ((x * k) \div k) * k <= x * k /\ x * k < ((x * k) \div k + 1) * k
  BY Quotient
<1> DEFINE q == (x * k) \div k
<1>2. q < x => (q + 1) * k <= x * k
  BY <1>1, Monotone
<1>3. q > x => (x + 1) * k <= q * k
  BY <1>1, Monotone
<1>4. (x + 1) * k = x * k + k
  OBVIOUS
<1> QED BY <1>1, <1>2, <1>3, <1>4

(* The arithmetic of a brightness b of k levels, 0 for the highest.         *)
LEMMA DimmedUnder ==
  ASSUME NEW k \in Nat \ {0}, NEW c \in 0 .. k - 1, NEW b \in 1 .. k - 1
  PROVE  (c * b) \div k \in Nat /\ (c * b) \div k < b
<1>1. (c + 1) * b <= k * b /\ (c + 1) * b = c * b + b /\ c * b \in Nat /\ k * b = b * k
  BY Monotone
<1>2. c * b < b * k
  BY <1>1
<1> QED BY <1>1, <1>2, QuotientBelow, Quotient

(* What a brightness allows fits a byte when it is scaled back.             *)
LEMMA RestoredUnder ==
  ASSUME NEW k \in Nat \ {0}, NEW b \in Nat \ {0}, NEW c \in Nat, c < b
  PROVE  (c * k) \div b \in Nat /\ (c * k) \div b < k
<1>1. c * k \in Nat /\ k * b \in Nat /\ (c + 1) * k <= b * k /\ (c + 1) * k = c * k + k /\ b * k = k * b
  BY Monotone
<1>2. c * k < k * b
  BY <1>1
<1> QED BY <1>1, <1>2, QuotientBelow, Quotient

(* What was not brighter than the old brightness allows is not brighter     *)
(* than the new one, m of k, allows when it is scaled.                      *)
LEMMA RescaledUnder ==
  ASSUME NEW k \in Nat \ {0, 1}, NEW b \in 0 .. k - 1, NEW m \in 1 .. k,
         NEW c \in 0 .. k - 1, b # 0 => c < b
  PROVE  LET old == (b + k - 1) % k
             s   == IF old = 0 THEN 0 ELSE (m * k - 1) \div old
         IN  /\ s \in 0 .. k * k
             /\ (c * s) \div k \in 0 .. m - 1 /\ ((c * s) \div k) % k = (c * s) \div k
<1> DEFINE old == (b + k - 1) % k
           s   == IF old = 0 THEN 0 ELSE (m * k - 1) \div old
<1>1. k \in Nat \ {0} /\ k > 1 /\ c \in Nat /\ c < k /\ b \in Nat /\ b < k /\ m \in Nat \ {0} /\ m <= k
  OBVIOUS
<1>2. old \in Nat /\ c <= old /\ old < k
  <2>1. CASE b = 0
    BY <1>1, <2>1
  <2>2. CASE b # 0
    <3>1. b + k - 1 = (b - 1) + k /\ b - 1 \in 0 .. k - 1
      BY <1>1, <2>2
    <3>2. old = b - 1
      BY <1>1, <2>2, <3>1
    <3> QED BY <1>1, <2>2, <3>2
  <2> QED BY <2>1, <2>2
<1>3. s = IF old = 0 THEN 0 ELSE (m * k - 1) \div old
  OBVIOUS
<1> HIDE DEF old, s
<1>4. m * k \in Nat /\ m * k <= k * k /\ k <= m * k /\ k * k \in Nat
  <2>1. m * k <= k * k /\ 1 * k <= m * k
    BY <1>1, Monotone
  <2> QED BY <1>1, <2>1
<1>5. s \in Nat /\ s <= k * k /\ c * s < m * k
  <2>1. CASE old = 0
    <3>1. s = 0 /\ c = 0
      BY <1>1, <1>2, <1>3, <2>1
    <3> QED BY <1>1, <1>4, <3>1
  <2>2. CASE old # 0
    <3> DEFINE n == m * k - 1
    <3>1. n \in Nat /\ n < m * k /\ n < k * k
      BY <1>1, <1>4
    <3>2. s = n \div old
      BY <1>3, <2>2
    <3> HIDE DEF n
    <3>3. s \in Nat /\ s * old <= n
      BY <1>2, <2>2, <3>1, <3>2, Quotient
    <3>4. s * 1 <= s * old /\ c * s <= old * s /\ old * s = s * old /\ s * 1 = s
      BY <1>1, <1>2, <2>2, <3>3, Monotone
    <3>5. c * s \in Nat /\ s * old \in Nat
      BY <1>1, <1>2, <3>3
    <3> QED BY <1>4, <3>1, <3>3, <3>4, <3>5
  <2> QED BY <2>1, <2>2
<1>6. (c * s) \div k \in Nat /\ (c * s) \div k < m
  <2>1. c * s \in Nat
    BY <1>1, <1>5
  <2> QED BY <1>1, <1>5, <2>1, Quotient, QuotientBelow
<1> DEFINE q == (c * s) \div k
<1> HIDE DEF q
<1>7. q \in Nat /\ q < m /\ q < k /\ q % k = q
  BY <1>1, <1>6 DEF q
<1>8. s \in 0 .. k * k /\ q \in 0 .. m - 1 /\ q % k = q
  BY <1>1, <1>4, <1>5, <1>7
<1> QED BY <1>8 DEF q, s, old

(***************************************************************************)
(* The strip.                                                               *)
(***************************************************************************)
Rescaling(t) == setting[t] \in {"scale", "keep"}
CapOf(b)     == IF b = 0 THEN Levels ELSE b

(* While the colours are scaled anew, those behind the next one keep the    *)
(* old brightness and the others the new one.                               *)
ScalingKnown ==
  \A t \in LedTasks :
    /\ setting[t] = "scale" => scaling[t].i < numLEDs
    /\ setting[t] = "keep" => scaling[t].i = numLEDs
    /\ Rescaling(t) => scaling[t].new = Stored(asked[t].bright)
    /\ Rescaling(t) /\ ~mixed =>
         scaling[t].scale = Scale((brightness + Levels - 1) % Levels, asked[t].bright)

CallsAlone ==
  ~mixed => \A t, u \in LedTasks : t # u => setting[t] = "none" \/ setting[u] = "none"

DimEnough ==
  ~mixed => \A n \in LEDs :
    /\ (\A t \in LedTasks : Rescaling(t) => scaling[t].i <= n) => pixels[n] < CapOf(brightness)
    /\ \A t \in LedTasks : Rescaling(t) /\ n < scaling[t].i => pixels[n] < CapOf(scaling[t].new)

CallKnown ==
  \A t \in LedTasks : undisturbed[t] =>
    /\ \A u \in LedTasks \ {t} : setting[u] = "none"
    /\ setting[t] \in {"paint", "light"} => brightness = Stored(asked[t].bright)
    /\ setting[t] = "light" => pixels[asked[t].led] = Dimmed(Mixed(asked[t].color))

StripIInv == StripTypeOK /\ ScalingKnown /\ CallsAlone /\ DimEnough /\ CallKnown

LEMMA StripInitial == StripInit => StripIInv
<1> SUFFICES ASSUME StripInit PROVE StripIInv
  OBVIOUS
<1>1. \A t \in LedTasks : setting[t] = "none" /\ ~undisturbed[t]
  BY DEF StripInit
<1>2. StripTypeOK
  <2>1. 0 \in LEDs /\ 0 \in ByteValues /\ 0 \in 0 .. Levels * Levels /\ 0 \in 0 .. numLEDs
    <3>1. Levels * Levels \in Nat
      BY StripAssumption
    <3> QED BY <3>1, StripAssumption DEF LEDs, ByteValues
  <2>2. Nothing \in [led : LEDs, color : ByteValues, bright : ByteValues]
    BY <2>1 DEF Nothing
  <2>3. Unscaled \in [new : ByteValues, scale : 0 .. Levels * Levels, i : 0 .. numLEDs]
    BY <2>1 DEF Unscaled
  <2>4. setLeds \in 0 .. MaxSetLeds
    BY StripAssumption DEF StripInit
  <2> QED BY <2>1, <2>2, <2>3, <2>4 DEF StripInit, StripTypeOK
<1>3. DimEnough
  BY <1>1, StripAssumption DEF DimEnough, StripInit, Rescaling, CapOf
<1> QED BY <1>1, <1>2, <1>3 DEF StripIInv, ScalingKnown, CallsAlone, CallKnown, Rescaling

LEMMA DimmedBelow ==
  ASSUME NEW color \in ByteValues, brightness \in ByteValues
  PROVE  Dimmed(color) \in ByteValues /\ Dimmed(color) < CapOf(brightness)
<1>1. CASE brightness = 0
  BY <1>1, StripAssumption DEF Dimmed, CapOf, ByteValues
<1>2. CASE brightness # 0
  <2>1. (color * brightness) \div Levels \in Nat /\ (color * brightness) \div Levels < brightness
    BY <1>2, StripAssumption, DimmedUnder DEF ByteValues
  <2>2. Dimmed(color) = (color * brightness) \div Levels /\ CapOf(brightness) = brightness
    BY <1>2 DEF Dimmed, CapOf
  <2> DEFINE d == (color * brightness) \div Levels
  <2> HIDE DEF d
  <2>3. d \in Nat /\ d < brightness /\ Dimmed(color) = d
    BY <2>1, <2>2 DEF d
  <2> QED BY <2>2, <2>3, StripAssumption DEF ByteValues
<1> QED BY <1>1, <1>2

(* Red is dimmed, by less than a step more than it should.                  *)
LEMMA MixedByte ==
  ASSUME NEW color \in ByteValues
  PROVE  /\ Mixed(color) \in ByteValues
         /\ channel = "red" => /\ Mixed(color) * (Levels - 1) <= color * RedMost
                               /\ color * RedMost < (Mixed(color) + 1) * (Levels - 1)
<1> DEFINE k == Levels - 1
           x == color * RedMost
           q == x \div k
<1>1. k \in Nat \ {0} /\ color \in Nat /\ color <= k /\ RedMost \in Nat /\ RedMost <= k
  BY StripAssumption DEF ByteValues
<1>2. x \in Nat /\ x <= k * RedMost /\ k * RedMost = RedMost * k /\ k * RedMost <= k * k
  BY <1>1, Monotone
<1>3. Mixed(color) = IF channel = "red" THEN q ELSE color
  BY DEF Mixed
<1> HIDE DEF k, x
<1>4. q \in Nat /\ q * k <= x /\ x < (q + 1) * k
  BY <1>1, <1>2, Quotient
<1> HIDE DEF q
<1>5. q <= k
  <2>1. k + 1 <= q => (k + 1) * k <= q * k
    BY <1>1, <1>4, Monotone
  <2>2. (k + 1) * k = k * k + k /\ k * k \in Nat /\ q * k \in Nat
    BY <1>1, <1>4
  <2> QED BY <1>1, <1>2, <1>4, <2>1, <2>2
<1>6. Mixed(color) \in ByteValues
  BY <1>1, <1>3, <1>4, <1>5, StripAssumption DEF ByteValues, k
<1> QED BY <1>3, <1>4, <1>6 DEF k, x

(* The colours in memory, scaled from a brightness to another.              *)
LEMMA RescaledBelow ==
  ASSUME NEW color \in ByteValues, NEW b \in ByteValues, NEW bright \in ByteValues, color < CapOf(b)
  PROVE  LET scale == Scale((b + Levels - 1) % Levels, bright)
         IN  /\ scale \in 0 .. Levels * Levels
             /\ Rescaled(color, scale) \in ByteValues
             /\ Rescaled(color, scale) < CapOf(Stored(bright))
<1> DEFINE k   == Levels
           m   == CapOf(Stored(bright))
           old == (b + k - 1) % k
           s   == IF old = 0 THEN 0 ELSE (m * k - 1) \div old
<1>1. k \in Nat \ {0, 1} /\ color \in 0 .. k - 1 /\ b \in 0 .. k - 1 /\ bright \in 0 .. k - 1 /\ (b # 0 => color < b)
  BY StripAssumption DEF ByteValues, CapOf
<1>2. m \in 1 .. k /\ m = IF bright = k - 1 THEN k ELSE Stored(bright)
  <2>1. CASE bright = k - 1
    <3>1. Stored(bright) = 0
      BY <1>1, <2>1 DEF Stored
    <3> QED BY <1>1, <2>1, <3>1 DEF CapOf
  <2>2. CASE bright # k - 1
    <3>1. Stored(bright) = bright + 1
      BY <1>1, <2>2 DEF Stored
    <3> QED BY <1>1, <2>2, <3>1 DEF CapOf
  <2> QED BY <2>1, <2>2
<1>3. s = Scale((b + Levels - 1) % Levels, bright)
  BY <1>2 DEF Scale
<1>4. /\ s \in 0 .. k * k
      /\ (color * s) \div k \in 0 .. m - 1 /\ ((color * s) \div k) % k = (color * s) \div k
  <2> HIDE DEF k, m
  <2> QED BY <1>1, <1>2, RescaledUnder
<1>5. Rescaled(color, s) = (color * s) \div k
  BY <1>4 DEF Rescaled
<1> HIDE DEF m, s
<1>6. s \in 0 .. Levels * Levels /\ Rescaled(color, s) \in ByteValues /\ Rescaled(color, s) < m
  <2> DEFINE q == (color * s) \div k
  <2> HIDE DEF q
  <2>1. q \in 0 .. m - 1 /\ Rescaled(color, s) = q
    BY <1>4, <1>5 DEF q
  <2> QED BY <1>1, <1>2, <1>4, <2>1 DEF ByteValues
<1> QED BY <1>3, <1>6 DEF m

(***************************************************************************)
(* Every step keeps the invariant.                                          *)
(***************************************************************************)
AskedFor == [led : LEDs, color : ByteValues, bright : ByteValues]
Scalings == [new : ByteValues, scale : 0 .. Levels * Levels, i : 0 .. numLEDs]

LEMMA SetLedKept ==
  ASSUME StripIInv, NEW t \in LedTasks, NEW led \in LEDs, NEW color \in LedColors, NEW bright \in Brightnesses,
         setLed(t, led, color, bright), UNCHANGED channel
  PROVE  StripIInv'
<1> DEFINE alone == \A u \in LedTasks \ {t} : setting[u] = "none"
<1>1. /\ setting[t] = "none" /\ setLeds < MaxSetLeds /\ setLeds' = setLeds + 1
      /\ setting' = [setting EXCEPT ![t] = "dark"]
      /\ asked' = [asked EXCEPT ![t] = [led |-> led, color |-> color, bright |-> bright]]
      /\ pixels' = [pixels EXCEPT ![led] = Dimmed(0)]
      /\ undisturbed' = [u \in LedTasks |-> u = t /\ alone]
      /\ mixed' = (mixed \/ ~alone)
      /\ UNCHANGED <<channel, brightness, lights, scaling>>
  BY DEF setLed, Proceed
<1>2. StripTypeOK
  BY DEF StripIInv
<1>3. 0 \in ByteValues /\ color \in ByteValues /\ bright \in ByteValues
  BY StripAssumption DEF ByteValues
<1>4. Dimmed(0) \in ByteValues /\ Dimmed(0) < CapOf(brightness)
  BY <1>2, <1>3, DimmedBelow DEF StripTypeOK
<1>5. /\ setting'[t] = "dark" /\ ~Rescaling(t) /\ ~Rescaling(t)'
      /\ \A u \in LedTasks \ {t} : setting'[u] = setting[u] /\ asked'[u] = asked[u]
                                    /\ (Rescaling(u)' <=> Rescaling(u))
  BY <1>1, <1>2 DEF StripTypeOK, Rescaling
<1>6. \A n \in LEDs : pixels'[n] = IF n = led THEN Dimmed(0) ELSE pixels[n]
  BY <1>1, <1>2 DEF StripTypeOK
<1>7. StripTypeOK'
  <2>1. pixels' \in [LEDs -> ByteValues]
    BY <1>1, <1>2, <1>4 DEF StripTypeOK
  <2>2. asked' \in [LedTasks -> AskedFor]
    BY <1>1, <1>2, <1>3 DEF StripTypeOK, AskedFor
  <2>3. setLeds' \in 0 .. MaxSetLeds
    BY <1>1, <1>2, StripAssumption DEF StripTypeOK
  <2>4. undisturbed' \in [LedTasks -> BOOLEAN] /\ mixed' \in BOOLEAN
    BY <1>1, <1>2 DEF StripTypeOK
  <2>5. setting' \in [LedTasks -> {"none", "dark", "bright", "scale", "keep", "paint", "light"}]
    BY <1>1, <1>2 DEF StripTypeOK
  <2> QED BY <1>1, <1>2, <2>1, <2>2, <2>3, <2>4, <2>5 DEF StripTypeOK, AskedFor
<1>8. ScalingKnown'
  BY <1>1, <1>5 DEF StripIInv, ScalingKnown, Rescaling
<1>9. CallsAlone'
  BY <1>1, <1>5 DEF CallsAlone
<1>10. DimEnough'
  <2> SUFFICES ASSUME ~mixed', NEW n \in LEDs
               PROVE  pixels'[n] < CapOf(brightness) /\ \A u \in LedTasks : ~Rescaling(u)'
    BY <1>1 DEF DimEnough
  <2>1. alone /\ ~mixed
    BY <1>1
  <2>2. \A u \in LedTasks : ~Rescaling(u) /\ ~Rescaling(u)'
    BY <1>1, <1>5, <2>1 DEF Rescaling
  <2> QED BY <1>4, <1>6, <2>1, <2>2 DEF StripIInv, DimEnough
<1>11. CallKnown'
  BY <1>1, <1>5 DEF CallKnown
<1> QED BY <1>7, <1>8, <1>9, <1>10, <1>11 DEF StripIInv

LEMMA ShowDarkKept ==
  ASSUME StripIInv, NEW t \in LedTasks, ShowDark(t), UNCHANGED channel
  PROVE  StripIInv'
<1>1. /\ setting[t] = "dark" /\ setting' = [setting EXCEPT ![t] = "bright"] /\ lights' = pixels
      /\ UNCHANGED <<channel, pixels, brightness, asked, scaling, setLeds, undisturbed, mixed>>
  BY DEF ShowDark, Proceed, show
<1>2. StripTypeOK
  BY DEF StripIInv
<1>3. /\ setting'[t] = "bright" /\ ~Rescaling(t) /\ ~Rescaling(t)'
      /\ \A u \in LedTasks \ {t} : setting'[u] = setting[u] /\ (Rescaling(u)' <=> Rescaling(u))
  BY <1>1, <1>2 DEF StripTypeOK, Rescaling
<1>4. StripTypeOK'
  BY <1>1, <1>2 DEF StripTypeOK
<1>5. ScalingKnown'
  BY <1>1, <1>3 DEF StripIInv, ScalingKnown, Rescaling
<1>6. CallsAlone'
  BY <1>1, <1>3 DEF StripIInv, CallsAlone
<1>7. DimEnough'
  BY <1>1, <1>3 DEF StripIInv, DimEnough
<1>8. CallKnown'
  BY <1>1, <1>3 DEF StripIInv, CallKnown, Dimmed, Mixed
<1> QED BY <1>4, <1>5, <1>6, <1>7, <1>8 DEF StripIInv

LEMMA SetBrightnessKept ==
  ASSUME StripIInv, NEW t \in LedTasks, setBrightness(t), UNCHANGED channel
  PROVE  StripIInv'
<1> DEFINE bright == asked[t].bright
           old    == (brightness + Levels - 1) % Levels
<1>1. /\ setting[t] = "bright"
      /\ UNCHANGED <<channel, pixels, brightness, lights, asked, setLeds, undisturbed, mixed>>
  BY DEF setBrightness
<1>2. StripTypeOK
  BY DEF StripIInv
<1>3. bright \in ByteValues /\ Stored(bright) \in ByteValues
  BY <1>2, StripAssumption DEF StripTypeOK, Stored, ByteValues
<1>4. CASE Stored(bright) = brightness
  <2>1. setting' = [setting EXCEPT ![t] = "paint"] /\ UNCHANGED scaling
    BY <1>4 DEF setBrightness, Proceed
  <2>2. /\ setting'[t] = "paint" /\ ~Rescaling(t) /\ ~Rescaling(t)'
        /\ \A u \in LedTasks \ {t} : setting'[u] = setting[u] /\ (Rescaling(u)' <=> Rescaling(u))
    BY <1>1, <1>2, <2>1 DEF StripTypeOK, Rescaling
  <2>3. StripTypeOK'
    BY <1>1, <1>2, <2>1 DEF StripTypeOK
  <2>4. ScalingKnown'
    BY <1>1, <2>1, <2>2 DEF StripIInv, ScalingKnown, Rescaling
  <2>5. CallsAlone'
    BY <1>1, <2>2 DEF StripIInv, CallsAlone
  <2>6. DimEnough'
    BY <1>1, <2>1, <2>2 DEF StripIInv, DimEnough
  <2>7. CallKnown'
    BY <1>1, <1>4, <2>2 DEF StripIInv, CallKnown, Dimmed, Mixed
  <2> QED BY <2>3, <2>4, <2>5, <2>6, <2>7 DEF StripIInv
<1>5. CASE Stored(bright) # brightness
  <2> DEFINE r == [new |-> Stored(bright), scale |-> Scale(old, bright), i |-> 0]
  <2>1. setting' = [setting EXCEPT ![t] = "scale"] /\ scaling' = [scaling EXCEPT ![t] = r]
    BY <1>5 DEF setBrightness, Proceed
  <2>2. r \in Scalings
    <3>1. brightness \in ByteValues /\ 0 \in ByteValues /\ 0 < CapOf(brightness)
      BY <1>2, StripAssumption DEF StripTypeOK, ByteValues, CapOf
    <3>2. Scale(old, bright) \in 0 .. Levels * Levels
      BY <1>3, <3>1, RescaledBelow
    <3>3. 0 \in 0 .. numLEDs
      BY StripAssumption
    <3> QED BY <1>3, <3>2, <3>3 DEF Scalings
  <2>3. /\ setting'[t] = "scale" /\ scaling'[t] = r /\ ~Rescaling(t)
        /\ \A u \in LedTasks \ {t} :
             setting'[u] = setting[u] /\ scaling'[u] = scaling[u] /\ (Rescaling(u)' <=> Rescaling(u))
    BY <1>1, <1>2, <2>1 DEF StripTypeOK, Rescaling
  <2>4. r.new = Stored(bright) /\ r.scale = Scale(old, bright) /\ r.i = 0
    OBVIOUS
  <2> HIDE DEF r
  <2>5. StripTypeOK'
    <3>1. scaling' \in [LedTasks -> Scalings]
      BY <1>2, <2>1, <2>2 DEF StripTypeOK, Scalings
    <3>2. setting' \in [LedTasks -> {"none", "dark", "bright", "scale", "keep", "paint", "light"}]
      BY <1>2, <2>1 DEF StripTypeOK
    <3> QED BY <1>1, <1>2, <3>1, <3>2 DEF StripTypeOK, Scalings
  <2>6. ScalingKnown'
    <3> SUFFICES ASSUME NEW u \in LedTasks
                 PROVE  /\ setting'[u] = "scale" => scaling'[u].i < numLEDs
                        /\ setting'[u] = "keep" => scaling'[u].i = numLEDs
                        /\ Rescaling(u)' => scaling'[u].new = Stored(asked[u].bright)
                        /\ Rescaling(u)' /\ ~mixed => scaling'[u].scale =
                             Scale((brightness + Levels - 1) % Levels, asked[u].bright)
      BY <1>1 DEF ScalingKnown, Stored, Scale
    <3>1. CASE u = t
      BY <2>3, <2>4, <3>1, StripAssumption
    <3>2. CASE u # t
      BY <2>3, <3>2 DEF StripIInv, ScalingKnown
    <3> QED BY <3>1, <3>2
  <2>7. CallsAlone'
    BY <1>1, <2>3 DEF StripIInv, CallsAlone
  <2>8. DimEnough'
    <3> SUFFICES ASSUME ~mixed, NEW n \in LEDs
                 PROVE  /\ pixels[n] < CapOf(brightness)
                        /\ \A u \in LedTasks : Rescaling(u)' => ~(n < scaling'[u].i)
      BY <1>1 DEF DimEnough
    <3>1. n \in Nat
      BY StripAssumption DEF LEDs
    <3>2. \A u \in LedTasks : ~Rescaling(u) /\ (u # t => ~Rescaling(u)')
      BY <1>1, <2>3 DEF StripIInv, CallsAlone, Rescaling
    <3>3. ~(n < scaling'[t].i)
      BY <2>3, <2>4, <3>1
    <3> QED BY <3>2, <3>3 DEF StripIInv, DimEnough
  <2>9. CallKnown'
    BY <1>1, <2>3 DEF StripIInv, CallKnown, Dimmed, Mixed
  <2> QED BY <2>5, <2>6, <2>7, <2>8, <2>9 DEF StripIInv
<1> QED BY <1>4, <1>5

LEMMA RescaleKept ==
  ASSUME StripIInv, NEW t \in LedTasks, RescaleNext(t), UNCHANGED channel
  PROVE  StripIInv'
<1> DEFINE i == scaling[t].i
           next == IF i + 1 = numLEDs THEN "keep" ELSE "scale"
<1>1. /\ setting[t] = "scale" /\ setting' = [setting EXCEPT ![t] = next]
      /\ pixels' = [pixels EXCEPT ![i] = Rescaled(@, scaling[t].scale)]
      /\ scaling' = [scaling EXCEPT ![t].i = i + 1]
      /\ UNCHANGED <<channel, brightness, lights, asked, setLeds, undisturbed, mixed>>
  BY DEF RescaleNext, Proceed
<1>2. StripTypeOK
  BY DEF StripIInv
<1>3. i \in Nat /\ i < numLEDs /\ i \in LEDs
  BY <1>1, <1>2, StripAssumption DEF StripIInv, ScalingKnown, StripTypeOK, LEDs
<1>4. /\ setting'[t] = next
      /\ scaling'[t].i = i + 1 /\ scaling'[t].new = scaling[t].new /\ scaling'[t].scale = scaling[t].scale
      /\ \A u \in LedTasks \ {t} : setting'[u] = setting[u] /\ scaling'[u] = scaling[u]
  BY <1>1, <1>2 DEF StripTypeOK
<1>5. Rescaling(t) /\ Rescaling(t)' /\ \A u \in LedTasks \ {t} : Rescaling(u)' <=> Rescaling(u)
  BY <1>1, <1>4 DEF Rescaling
<1>6. pixels'[i] = Rescaled(pixels[i], scaling[t].scale) /\ \A n \in LEDs \ {i} : pixels'[n] = pixels[n]
  BY <1>1, <1>2, <1>3 DEF StripTypeOK
<1>7. Rescaled(pixels[i], scaling[t].scale) \in ByteValues
  <2>1. pixels[i] \in Nat /\ scaling[t].scale \in Nat
    <3>1. scaling[t].scale \in 0 .. Levels * Levels /\ Levels * Levels \in Nat
      BY <1>2, StripAssumption DEF StripTypeOK
    <3> QED BY <1>2, <1>3, <3>1 DEF StripTypeOK, ByteValues
  <2>2. pixels[i] * scaling[t].scale \in Nat
    BY <2>1
  <2>3. (pixels[i] * scaling[t].scale) \div Levels \in Nat
    BY <2>2, StripAssumption, Quotient
  <2> QED BY <2>3, StripAssumption DEF Rescaled, ByteValues
<1> HIDE DEF i
<1>8. StripTypeOK'
  <2>1. pixels' \in [LEDs -> ByteValues]
    BY <1>1, <1>2, <1>7 DEF StripTypeOK, i
  <2>2. scaling' \in [LedTasks -> Scalings]
    BY <1>1, <1>2, <1>3, StripAssumption DEF StripTypeOK, Scalings
  <2>3. setting' \in [LedTasks -> {"none", "dark", "bright", "scale", "keep", "paint", "light"}]
    BY <1>1, <1>2 DEF StripTypeOK
  <2> QED BY <1>1, <1>2, <2>1, <2>2, <2>3 DEF StripTypeOK, Scalings
<1>9. ScalingKnown'
  <2> SUFFICES ASSUME NEW u \in LedTasks
               PROVE  /\ setting'[u] = "scale" => scaling'[u].i < numLEDs
                      /\ setting'[u] = "keep" => scaling'[u].i = numLEDs
                      /\ Rescaling(u)' => scaling'[u].new = Stored(asked[u].bright)
                      /\ Rescaling(u)' /\ ~mixed => scaling'[u].scale =
                           Scale((brightness + Levels - 1) % Levels, asked[u].bright)
    BY <1>1 DEF ScalingKnown, Stored, Scale
  <2>1. CASE u = t
    <3>1. /\ Rescaling(t) => scaling[t].new = Stored(asked[t].bright)
          /\ Rescaling(t) /\ ~mixed => scaling[t].scale = Scale((brightness + Levels - 1) % Levels, asked[t].bright)
      BY DEF StripIInv, ScalingKnown
    <3>2. setting'[t] = "scale" => i + 1 < numLEDs
      BY <1>3, <1>4, StripAssumption
    <3>3. setting'[t] = "keep" => i + 1 = numLEDs
      BY <1>4
    <3> QED BY <1>4, <1>5, <2>1, <3>1, <3>2, <3>3
  <2>2. CASE u # t
    BY <1>4, <1>5, <2>2 DEF StripIInv, ScalingKnown
  <2> QED BY <2>1, <2>2
<1>10. CallsAlone'
  BY <1>1, <1>4 DEF StripIInv, CallsAlone
<1>11. DimEnough'
  <2> SUFFICES ASSUME ~mixed, NEW n \in LEDs
               PROVE  /\ (\A u \in LedTasks : Rescaling(u)' => scaling'[u].i <= n) => pixels'[n] < CapOf(brightness)
                      /\ \A u \in LedTasks : Rescaling(u)' /\ n < scaling'[u].i => pixels'[n] < CapOf(scaling'[u].new)
    BY <1>1 DEF DimEnough, CapOf
  <2>1. n \in Nat
    BY StripAssumption DEF LEDs
  <2>2. \A u \in LedTasks \ {t} : ~Rescaling(u) /\ ~Rescaling(u)'
    BY <1>1, <1>5 DEF StripIInv, CallsAlone, Rescaling
  <2>3. (i <= n => pixels[n] < CapOf(brightness)) /\ (n < i => pixels[n] < CapOf(scaling[t].new))
    BY <1>5, <2>2 DEF StripIInv, DimEnough, i
  <2>4. CASE n = i
    <3>1. pixels[i] < CapOf(brightness)
      BY <1>3, <2>3, <2>4
    <3>2. /\ pixels[i] \in ByteValues /\ brightness \in ByteValues /\ asked[t].bright \in ByteValues
      BY <1>2, <1>3 DEF StripTypeOK
    <3>3. /\ scaling[t].new = Stored(asked[t].bright)
          /\ scaling[t].scale = Scale((brightness + Levels - 1) % Levels, asked[t].bright)
      BY <1>5 DEF StripIInv, ScalingKnown
    <3>4. pixels'[i] < CapOf(scaling[t].new)
      BY <1>6, <3>1, <3>2, <3>3, RescaledBelow
    <3>5. ~(scaling'[t].i <= n) /\ n < scaling'[t].i
      BY <1>3, <1>4, <2>4
    <3> QED BY <1>4, <1>5, <2>2, <2>4, <3>4, <3>5
  <2>5. CASE n # i
    <3>1. pixels'[n] = pixels[n] /\ (i + 1 <= n <=> i <= n) /\ (n < i + 1 <=> n < i)
      BY <1>3, <1>6, <2>1, <2>5
    <3> QED BY <1>4, <1>5, <2>2, <2>3, <3>1
  <2> QED BY <2>4, <2>5
<1>12. CallKnown'
  <2> SUFFICES ASSUME NEW u \in LedTasks, undisturbed[u]
               PROVE  /\ \A v \in LedTasks \ {u} : setting'[v] = "none"
                      /\ setting'[u] \notin {"paint", "light"}
    BY <1>1 DEF CallKnown
  <2>1. u = t
    BY <1>1 DEF StripIInv, CallKnown
  <2> QED BY <1>4, <2>1 DEF StripIInv, CallKnown
<1> QED BY <1>8, <1>9, <1>10, <1>11, <1>12 DEF StripIInv

LEMMA KeepBrightnessKept ==
  ASSUME StripIInv, NEW t \in LedTasks, KeepBrightness(t), UNCHANGED channel
  PROVE  StripIInv'
<1>1. /\ setting[t] = "keep" /\ setting' = [setting EXCEPT ![t] = "paint"]
      /\ brightness' = scaling[t].new /\ scaling' = [scaling EXCEPT ![t] = Unscaled]
      /\ UNCHANGED <<channel, pixels, lights, asked, setLeds, undisturbed, mixed>>
  BY DEF KeepBrightness, Proceed
<1>2. StripTypeOK
  BY DEF StripIInv
<1>3. /\ setting'[t] = "paint" /\ Rescaling(t) /\ ~Rescaling(t)'
      /\ \A u \in LedTasks \ {t} :
           setting'[u] = setting[u] /\ scaling'[u] = scaling[u] /\ (Rescaling(u)' <=> Rescaling(u))
  BY <1>1, <1>2 DEF StripTypeOK, Rescaling
<1>4. scaling[t].new = Stored(asked[t].bright) /\ scaling[t].i = numLEDs
  BY <1>1, <1>3 DEF StripIInv, ScalingKnown
<1>5. StripTypeOK'
  <2>1. Unscaled \in Scalings
    <3>1. Levels * Levels \in Nat
      BY StripAssumption
    <3> QED BY <3>1, StripAssumption DEF Unscaled, Scalings, ByteValues
  <2>2. scaling' \in [LedTasks -> Scalings] /\ brightness' \in ByteValues
    BY <1>1, <1>2, <2>1 DEF StripTypeOK, Scalings
  <2> QED BY <1>1, <1>2, <2>2 DEF StripTypeOK, Scalings
<1>6. mixed \/ \A u \in LedTasks \ {t} : setting[u] = "none" /\ ~Rescaling(u)'
  BY <1>1, <1>3 DEF StripIInv, CallsAlone, Rescaling
<1>7. ScalingKnown'
  <2> SUFFICES ASSUME NEW u \in LedTasks
               PROVE  /\ setting'[u] = "scale" => scaling'[u].i < numLEDs
                      /\ setting'[u] = "keep" => scaling'[u].i = numLEDs
                      /\ Rescaling(u)' => scaling'[u].new = Stored(asked[u].bright)
                      /\ ~(Rescaling(u)' /\ ~mixed)
    BY <1>1 DEF ScalingKnown, Stored
  <2> QED BY <1>3, <1>6 DEF StripIInv, ScalingKnown
<1>8. CallsAlone'
  BY <1>1, <1>3 DEF StripIInv, CallsAlone
<1>9. DimEnough'
  <2> SUFFICES ASSUME ~mixed, NEW n \in LEDs
               PROVE  pixels[n] < CapOf(brightness') /\ \A u \in LedTasks : ~Rescaling(u)'
    BY <1>1 DEF DimEnough, CapOf
  <2>1. n < scaling[t].i
    BY <1>4, StripAssumption DEF LEDs
  <2> QED BY <1>1, <1>3, <1>6, <2>1 DEF StripIInv, DimEnough
<1>10. CallKnown'
  <2> SUFFICES ASSUME NEW u \in LedTasks, undisturbed[u]
               PROVE  /\ \A v \in LedTasks \ {u} : setting'[v] = "none"
                      /\ brightness' = Stored(asked[u].bright)
                      /\ setting'[u] # "light"
    BY <1>1 DEF CallKnown, Stored
  <2>1. u = t
    BY <1>1 DEF StripIInv, CallKnown
  <2> QED BY <1>1, <1>3, <1>4, <2>1 DEF StripIInv, CallKnown
<1> QED BY <1>5, <1>7, <1>8, <1>9, <1>10 DEF StripIInv

LEMMA SetPixelColorKept ==
  ASSUME StripIInv, NEW t \in LedTasks, setPixelColor(t), UNCHANGED channel
  PROVE  StripIInv'
<1> DEFINE led   == asked[t].led
           color == Dimmed(Mixed(asked[t].color))
<1>1. /\ setting[t] = "paint" /\ setting' = [setting EXCEPT ![t] = "light"]
      /\ pixels' = [pixels EXCEPT ![led] = color]
      /\ UNCHANGED <<channel, brightness, lights, asked, scaling, setLeds, undisturbed, mixed>>
  BY DEF setPixelColor, Proceed
<1>2. StripTypeOK
  BY DEF StripIInv
<1>3. led \in LEDs /\ color \in ByteValues /\ color < CapOf(brightness)
  <2>1. Mixed(asked[t].color) \in ByteValues
    BY <1>2, MixedByte DEF StripTypeOK
  <2> QED BY <1>2, <2>1, DimmedBelow DEF StripTypeOK
<1>4. /\ setting'[t] = "light" /\ ~Rescaling(t) /\ ~Rescaling(t)'
      /\ \A u \in LedTasks \ {t} : setting'[u] = setting[u] /\ (Rescaling(u)' <=> Rescaling(u))
  BY <1>1, <1>2 DEF StripTypeOK, Rescaling
<1>5. \A n \in LEDs : pixels'[n] = IF n = led THEN color ELSE pixels[n]
  BY <1>1, <1>2 DEF StripTypeOK
<1>6. StripTypeOK'
  BY <1>1, <1>2, <1>3 DEF StripTypeOK
<1>7. ScalingKnown'
  BY <1>1, <1>4 DEF StripIInv, ScalingKnown, Rescaling, Stored, Scale
<1>8. CallsAlone'
  BY <1>1, <1>4 DEF StripIInv, CallsAlone
<1>9. DimEnough'
  <2> SUFFICES ASSUME ~mixed, NEW n \in LEDs
               PROVE  pixels'[n] < CapOf(brightness) /\ \A u \in LedTasks : ~Rescaling(u)'
    BY <1>1 DEF DimEnough, CapOf
  <2>1. \A u \in LedTasks : ~Rescaling(u) /\ ~Rescaling(u)'
    BY <1>1, <1>4 DEF StripIInv, CallsAlone, Rescaling
  <2> QED BY <1>3, <1>5, <2>1 DEF StripIInv, DimEnough
<1>10. CallKnown'
  <2> SUFFICES ASSUME NEW u \in LedTasks, undisturbed[u]
               PROVE  /\ \A v \in LedTasks \ {u} : setting'[v] = "none"
                      /\ brightness = Stored(asked[u].bright)
                      /\ pixels'[asked[u].led] = Dimmed(Mixed(asked[u].color))
    BY <1>1 DEF CallKnown, Stored, Dimmed, Mixed
  <2>1. u = t
    BY <1>1 DEF StripIInv, CallKnown
  <2> QED BY <1>1, <1>3, <1>4, <1>5, <2>1 DEF StripIInv, CallKnown
<1> QED BY <1>6, <1>7, <1>8, <1>9, <1>10 DEF StripIInv

LEMMA ShowLightKept ==
  ASSUME StripIInv, NEW t \in LedTasks, ShowLight(t), UNCHANGED channel
  PROVE  StripIInv'
<1>1. /\ setting[t] = "light" /\ setting' = [setting EXCEPT ![t] = "none"] /\ lights' = pixels
      /\ asked' = [asked EXCEPT ![t] = Nothing] /\ undisturbed' = [undisturbed EXCEPT ![t] = FALSE]
      /\ UNCHANGED <<channel, pixels, brightness, scaling, setLeds, mixed>>
  BY DEF ShowLight, Proceed, show
<1>2. StripTypeOK
  BY DEF StripIInv
<1>3. /\ setting'[t] = "none" /\ ~undisturbed'[t] /\ ~Rescaling(t) /\ ~Rescaling(t)'
      /\ \A u \in LedTasks \ {t} :
           /\ setting'[u] = setting[u] /\ asked'[u] = asked[u] /\ undisturbed'[u] = undisturbed[u]
           /\ Rescaling(u)' <=> Rescaling(u)
  BY <1>1, <1>2 DEF StripTypeOK, Rescaling
<1>4. StripTypeOK'
  <2>1. Nothing \in AskedFor
    BY StripAssumption DEF Nothing, AskedFor, LEDs, ByteValues
  <2>2. asked' \in [LedTasks -> AskedFor]
    BY <1>1, <1>2, <2>1 DEF StripTypeOK, AskedFor
  <2>3. undisturbed' \in [LedTasks -> BOOLEAN]
    BY <1>1, <1>2 DEF StripTypeOK
  <2> QED BY <1>1, <1>2, <2>2, <2>3 DEF StripTypeOK, AskedFor
<1>5. ScalingKnown'
  BY <1>1, <1>3 DEF StripIInv, ScalingKnown, Rescaling, Stored, Scale
<1>6. CallsAlone'
  BY <1>1, <1>3 DEF StripIInv, CallsAlone
<1>7. DimEnough'
  BY <1>1, <1>3 DEF StripIInv, DimEnough
<1>8. CallKnown'
  <2> SUFFICES ASSUME NEW u \in LedTasks, undisturbed'[u], u # t
               PROVE  FALSE
    BY <1>1, <1>3 DEF CallKnown
  <2> QED BY <1>1, <1>3 DEF StripIInv, CallKnown
<1> QED BY <1>4, <1>5, <1>6, <1>7, <1>8 DEF StripIInv

LEMMA HeapReusedKept ==
  ASSUME StripIInv, HeapReused, UNCHANGED channel
  PROVE  StripIInv'
<1>1. /\ mixed' = TRUE /\ pixels' \in [LEDs -> {0, Levels - 1}]
      /\ undisturbed' = [t \in LedTasks |-> FALSE]
      /\ UNCHANGED <<channel, brightness, lights, setting, asked, scaling, setLeds>>
  BY DEF HeapReused
<1>2. StripTypeOK'
  <2>1. pixels' \in [LEDs -> ByteValues]
    BY <1>1, StripAssumption DEF ByteValues
  <2> QED BY <1>1, <2>1 DEF StripIInv, StripTypeOK
<1>3. ScalingKnown'
  BY <1>1 DEF StripIInv, ScalingKnown, Rescaling, Stored, Scale
<1> QED BY <1>1, <1>2, <1>3 DEF StripIInv, CallsAlone, DimEnough, CallKnown

LEMMA StripKept == StripIInv /\ [StripNext]_stripVars => StripIInv'
<1>1. ASSUME StripIInv, UNCHANGED stripVars
      PROVE  StripIInv'
  BY <1>1 DEF stripVars, StripIInv, StripTypeOK, ScalingKnown, CallsAlone, DimEnough, CallKnown,
              Rescaling, CapOf, Stored, Scale, Dimmed, Mixed
<1> QED BY <1>1, SetLedKept, ShowDarkKept, SetBrightnessKept, RescaleKept, KeepBrightnessKept,
           SetPixelColorKept, ShowLightKept, HeapReusedKept DEF StripNext, StripStep

LEMMA StripImplied == StripIInv => StripInv
<1> SUFFICES ASSUME StripIInv PROVE StripInv
  OBVIOUS
<1>1. StripTypeOK
  BY DEF StripIInv
<1>2. CapKept
  <2> SUFFICES ASSUME ~mixed, \A t \in LedTasks : setting[t] \notin {"scale", "keep"}, NEW n \in LEDs
               PROVE  pixels[n] < Cap /\ (pixels[n] * Levels) \div Cap < Levels
    BY DEF CapKept
  <2> DEFINE p == pixels[n]
             k == Levels
             c == Cap
  <2>1. p \in Nat /\ k \in Nat \ {0} /\ c \in Nat \ {0} /\ c = CapOf(brightness)
    BY <1>1, StripAssumption DEF StripTypeOK, ByteValues, Cap, CapOf
  <2>2. p < c
    BY <2>1 DEF StripIInv, DimEnough, Rescaling
  <2> HIDE DEF p, k, c
  <2>4. (p * k) \div c < k
    BY <2>1, <2>2, RestoredUnder
  <2> QED BY <2>2, <2>4 DEF p, k, c
<1> QED BY <1>1, <1>2 DEF StripInv

(* The colour of a call nobody has disturbed, when it is shown.             *)
LEMMA ShownColor ==
  ASSUME StripIInv, NEW t \in LedTasks, undisturbed[t], setting[t] = "light"
  PROVE  pixels[asked[t].led] = (Mixed(asked[t].color) * (asked[t].bright + 1)) \div Levels
<1> DEFINE b == asked[t].bright
           c == Mixed(asked[t].color)
           k == Levels
<1>1. b \in Nat /\ b < k /\ c \in Nat /\ k \in Nat \ {0}
  <2>1. asked[t].color \in ByteValues /\ b \in ByteValues
    BY DEF StripIInv, StripTypeOK
  <2> QED BY <2>1, MixedByte, StripAssumption DEF ByteValues
<1> HIDE DEF c
<1>2. brightness = (b + 1) % k /\ pixels[asked[t].led] = Dimmed(c)
  BY DEF StripIInv, CallKnown, Stored, c
<1>3. CASE b = k - 1
  <2>1. brightness = 0
    BY <1>1, <1>2, <1>3
  <2>2. (c * k) \div k = c
    BY <1>1, QuotientExact
  <2> QED BY <1>1, <1>2, <1>3, <2>1, <2>2 DEF Dimmed, c
<1>4. CASE b # k - 1
  <2>1. brightness = b + 1 /\ brightness # 0
    BY <1>1, <1>2, <1>4
  <2> QED BY <1>2, <2>1 DEF Dimmed, c
<1> QED BY <1>3, <1>4

(* Red, rounded down twice: once when it is mixed, once when it is dimmed.  *)
LEMMA RoundedTwice ==
  ASSUME NEW k \in Nat \ {0, 1}, NEW n \in 1 .. k, NEW whole \in Nat, NEW m \in Nat,
         m * (k - 1) <= whole, whole < (m + 1) * (k - 1)
  PROVE  LET light == (m * n) \div k
         IN  light * ((k - 1) * k) <= whole * n /\ whole * n < (light + 2) * ((k - 1) * k)
<1> DEFINE light == (m * n) \div k
           top   == k - 1
<1>1. k \in Nat \ {0} /\ n \in Nat \ {0} /\ n <= k /\ top \in Nat \ {0} /\ m * n \in Nat
  OBVIOUS
<1>2. light \in Nat /\ light * k <= m * n /\ m * n < (light + 1) * k
  BY <1>1, Quotient
<1> HIDE DEF light
<1>3. m * top <= whole /\ whole < (m + 1) * top
  OBVIOUS
<1> HIDE DEF top
<1>4. light * (top * k) <= whole * n
  <2>1. (light * k) * top <= (m * n) * top
    BY <1>1, <1>2, Monotone
  <2>2. (m * top) * n <= whole * n
    BY <1>1, <1>3, Monotone
  <2>3. light * (top * k) = (light * k) * top /\ (m * n) * top = (m * top) * n
    BY <1>1, <1>2
  <2>4. /\ (light * k) * top \in Nat /\ (m * n) * top \in Nat
        /\ (m * top) * n \in Nat /\ whole * n \in Nat
    BY <1>1, <1>2
  <2> QED BY <2>1, <2>2, <2>3, <2>4
<1>5. whole * n < (light + 2) * (top * k)
  <2>1. whole + 1 <= (m + 1) * top
    BY <1>1, <1>3
  <2>2. (whole + 1) * n <= ((m + 1) * top) * n
    BY <1>1, <2>1, Monotone
  <2>3. (whole + 1) * n = whole * n + n
    BY <1>1
  <2>4. m * n + n <= (light + 2) * k
    <3>1. (light + 1) * k + k = (light + 2) * k
      BY <1>1, <1>2
    <3>2. (light + 1) * k \in Nat
      BY <1>1, <1>2
    <3> QED BY <1>1, <1>2, <3>1, <3>2
  <2>5. (m * n + n) * top <= ((light + 2) * k) * top
    BY <1>1, <1>2, <2>4, Monotone
  <2>6. ((m + 1) * top) * n = (m * n + n) * top /\ ((light + 2) * k) * top = (light + 2) * (top * k)
    BY <1>1, <1>2
  <2>7. whole * n \in Nat /\ (m * n + n) * top \in Nat /\ (light + 2) * (top * k) \in Nat
    BY <1>1, <1>2
  <2> QED BY <1>1, <2>2, <2>3, <2>5, <2>6, <2>7
<1> QED BY <1>4, <1>5 DEF light, top

LEMMA ShownMixed ==
  ASSUME StripIInv, NEW t \in LedTasks, undisturbed[t], setting[t] = "light"
  PROVE  LET light == pixels[asked[t].led] IN
           IF channel = "red" THEN RedKept(asked[t].color, asked[t].bright, light)
           ELSE light = (asked[t].color * (asked[t].bright + 1)) \div Levels
<1> DEFINE b     == asked[t].bright
           color == asked[t].color
           light == pixels[asked[t].led]
<1>1. light = (Mixed(color) * (b + 1)) \div Levels
  BY ShownColor
<1>2. color \in ByteValues /\ b \in ByteValues
  BY DEF StripIInv, StripTypeOK
<1> HIDE DEF b, color, light
<1>3. CASE channel = "red"
  <2> DEFINE m     == Mixed(color)
             whole == color * RedMost
             n     == b + 1
  <2>1. m \in Nat /\ whole \in Nat /\ n \in 1 .. Levels /\ Levels \in Nat \ {0, 1}
    BY <1>2, MixedByte, StripAssumption DEF ByteValues
  <2>2. m * (Levels - 1) <= whole /\ whole < (m + 1) * (Levels - 1)
    BY <1>2, <1>3, MixedByte
  <2>3. light = (m * n) \div Levels
    BY <1>1
  <2> HIDE DEF m, whole, n
  <2>4. light * ((Levels - 1) * Levels) <= whole * n /\ whole * n < (light + 2) * ((Levels - 1) * Levels)
    BY <2>1, <2>2, <2>3, RoundedTwice
  <2> QED BY <1>3, <2>4 DEF RedKept, whole, n, b, color, light
<1>4. CASE channel # "red"
  BY <1>1, <1>4 DEF Mixed, b, color, light
<1> QED BY <1>3, <1>4

LEMMA LightShown ==
  ASSUME StripIInv, [StripNext]_stripVars, NEW t \in LedTasks,
         setting[t] = "light", setting'[t] = "none", undisturbed[t]
  PROVE  LET light == lights'[asked[t].led] IN
           IF channel = "red" THEN RedKept(asked[t].color, asked[t].bright, light)
           ELSE light = (asked[t].color * (asked[t].bright + 1)) \div Levels
<1>1. StripStep
  BY DEF StripNext, stripVars
<1>2. setting \in [LedTasks -> {"none", "dark", "bright", "scale", "keep", "paint", "light"}]
  BY DEF StripIInv, StripTypeOK
<1>3. ASSUME NEW u \in LedTasks, NEW place, Proceed(u, place), u # t \/ place # "none"
      PROVE  FALSE
  BY <1>2, <1>3 DEF Proceed
<1>4. lights' = pixels
  <2>1. CASE HeapReused
    BY <2>1 DEF HeapReused
  <2>2. ASSUME NEW u \in LedTasks, NEW led \in LEDs, NEW color \in LedColors, NEW bright \in Brightnesses,
               setLed(u, led, color, bright)
        PROVE  FALSE
    BY <1>3, <2>2 DEF setLed
  <2>3. ASSUME NEW u \in LedTasks,
               ShowDark(u) \/ setBrightness(u) \/ RescaleNext(u) \/ KeepBrightness(u) \/ setPixelColor(u)
        PROVE  FALSE
    <3>1. setBrightness(u) => Proceed(u, "paint") \/ Proceed(u, "scale")
      BY DEF setBrightness
    <3>2. RescaleNext(u) => Proceed(u, "keep") \/ Proceed(u, "scale")
      BY DEF RescaleNext
    <3> QED BY <1>3, <2>3, <3>1, <3>2 DEF ShowDark, KeepBrightness, setPixelColor
  <2>4. ASSUME NEW u \in LedTasks, ShowLight(u)
        PROVE  lights' = pixels
    BY <2>4 DEF ShowLight, show
  <2> QED BY <1>1, <2>1, <2>2, <2>3, <2>4 DEF StripStep
<1> QED BY <1>4, ShownMixed

(***************************************************************************)
(* The memory of a strip.                                                   *)
(***************************************************************************)
Shown(order)  == IF HasWhite(order) THEN Channels ELSE Channels \ {"w"}
Bytes         == 0 .. ByteLevels - 1
LevelCap(b)   == IF b = 0 THEN ByteLevels ELSE b
Memory(n, order) == [0 .. n * BytesEach(order) - 1 -> Bytes]

(* No byte is more than the brightness allows, and those of an LED that was *)
(* given a colour are that colour's.                                        *)
BytesKnown ==
  /\ memory \in Memory(ledCount, offset)
  /\ \A i \in DOMAIN memory : memory[i] < LevelCap(level)

ColoredKnown ==
  /\ colored \in [DOMAIN colored -> PixelColors] /\ DOMAIN colored \subseteq 0 .. ledCount - 1
  /\ \A n \in DOMAIN colored, c \in Shown(offset) : ByteOf(n, c) = Scaled(colored[n][c])

PinKnown == driven \subseteq {pin} /\ (~begun => driven = {})

ColorsIInv ==
  /\ ColorsTypeOK /\ IsOrder(offset) /\ BytesKnown /\ ColoredKnown /\ PinKnown

LEMMA StripSizes ==
  /\ ByteLevels \in Nat /\ ByteLevels > 1 /\ ByteLevels \in Nat \ {0, 1} /\ ByteLevels \in Nat \ {0}
  /\ 0 \in Bytes /\ MaxStripCalls \in Nat /\ MaxStripFaults \in Nat
BY ColorsAssumption DEF Bytes

(* How many bytes there are, and where those of an LED are among them.      *)
LEMMA Places3 ==
  ASSUME NEW order \in [Channels -> 0 .. 3], IsOrder(order), NEW count \in Nat
  PROVE  /\ BytesEach(order) \in {3, 4} /\ Channels = {"w", "r", "g", "b"}
         /\ \A n \in 0 .. count - 1, c \in Channels :
              n * BytesEach(order) + order[c] \in 0 .. count * BytesEach(order) - 1
         /\ \A n, m \in Nat : \A c, d \in Shown(order) :
              n * BytesEach(order) + order[c] = m * BytesEach(order) + order[d] => n = m /\ c = d
<1>1. BytesEach(order) = 3 \/ BytesEach(order) = 4
  BY DEF BytesEach
<1>2. \A c \in Channels : order[c] \in Nat /\ order[c] < BytesEach(order)
  BY DEF IsOrder
<1>3. ASSUME NEW n \in 0 .. count - 1, NEW c \in Channels
      PROVE  n * BytesEach(order) + order[c] \in 0 .. count * BytesEach(order) - 1
  <2> DEFINE o == order[c]
             e == BytesEach(order)
  <2>1. o \in Nat /\ o < e /\ (e = 3 \/ e = 4) /\ n \in Nat /\ n + 1 <= count
    BY <1>1, <1>2
  <2> HIDE DEF o, e
  <2>2. e = 3 => n * e + o \in 0 .. count * e - 1
    BY <2>1
  <2>3. e = 4 => n * e + o \in 0 .. count * e - 1
    BY <2>1
  <2>4. n * e + o \in 0 .. count * e - 1
    BY <2>1, <2>2, <2>3
  <2> QED BY <2>4 DEF o, e
<1>4. ASSUME NEW n \in Nat, NEW m \in Nat, NEW c \in Shown(order), NEW d \in Shown(order),
             n * BytesEach(order) + order[c] = m * BytesEach(order) + order[d]
      PROVE  n = m /\ c = d
  <2> DEFINE o == order[c]
             p == order[d]
             e == BytesEach(order)
  <2>1. c \in Channels /\ d \in Channels
    BY DEF Shown
  <2>2. o \in Nat /\ p \in Nat /\ o < e /\ p < e /\ (e = 3 \/ e = 4) /\ n * e + o = m * e + p
    BY <1>1, <1>2, <1>4, <2>1
  <2> HIDE DEF o, p, e
  <2>3. n = m /\ o = p
    <3>1. CASE e = 3
      BY <2>2, <3>1
    <3>2. CASE e = 4
      BY <2>2, <3>2
    <3> QED BY <2>2, <3>1, <3>2
  <2>4. c = d \/ {c, d} = {"w", "r"}
    BY <2>1, <2>3 DEF IsOrder, o, p
  <2>5. c = d
    <3>1. CASE HasWhite(order)
      <4>1. order["w"] # order["r"] /\ order[c] = order[d]
        BY <2>3, <3>1 DEF HasWhite, o, p
      <4> QED BY <2>4, <4>1
    <3>2. CASE ~HasWhite(order)
      <4>1. c # "w" /\ d # "w"
        BY <3>2 DEF Shown
      <4> QED BY <2>4, <4>1
    <3> QED BY <3>1, <3>2
  <2> QED BY <2>3, <2>5
<1> QED BY <1>1, <1>3, <1>4 DEF Channels

LEMMA ScaledBelow ==
  ASSUME NEW shade \in Bytes, level \in Bytes
  PROVE  Scaled(shade) \in Bytes /\ Scaled(shade) < LevelCap(level)
<1>1. CASE level = 0
  BY <1>1, StripSizes DEF Scaled, LevelCap, Bytes
<1>2. CASE level # 0
  <2> DEFINE d == (shade * level) \div ByteLevels
  <2>1. d \in Nat /\ d < level
    BY <1>2, StripSizes, DimmedUnder DEF Bytes
  <2>2. Scaled(shade) = d /\ LevelCap(level) = level
    BY <1>2 DEF Scaled, LevelCap
  <2> HIDE DEF d
  <2> QED BY <2>1, <2>2, StripSizes DEF Bytes
<1> QED BY <1>1, <1>2

(* The colours in memory, scaled from a brightness to another.              *)
LEMMA LevelChanged ==
  ASSUME NEW byte \in Bytes, level \in Bytes, NEW bright \in Bytes, byte < LevelCap(level)
  PROVE  LET new == (bright + 1) % ByteLevels
             b   == ((byte * RatioTo(bright)) \div ByteLevels) % ByteLevels
         IN  new \in Bytes /\ b \in Bytes /\ b < LevelCap(new)
<1> DEFINE k   == ByteLevels
           new == (bright + 1) % k
           m   == LevelCap(new)
           old == (level + k - 1) % k
           s   == IF old = 0 THEN 0 ELSE (m * k - 1) \div old
<1>1. /\ k \in Nat \ {0, 1} /\ byte \in 0 .. k - 1 /\ level \in 0 .. k - 1 /\ bright \in 0 .. k - 1
      /\ level # 0 => byte < level
  BY StripSizes DEF Bytes, LevelCap
<1>2. m \in 1 .. k /\ m = (IF bright = k - 1 THEN k ELSE new) /\ new \in 0 .. k - 1
  <2>1. CASE bright = k - 1
    <3>1. new = 0
      BY <1>1, <2>1
    <3> QED BY <1>1, <2>1, <3>1 DEF LevelCap
  <2>2. CASE bright # k - 1
    <3>1. new = bright + 1
      BY <1>1, <2>2
    <3> QED BY <1>1, <2>2, <3>1 DEF LevelCap
  <2> QED BY <2>1, <2>2
<1>3. s = RatioTo(bright)
  BY <1>2 DEF RatioTo
<1>4. (byte * s) \div k \in 0 .. m - 1 /\ ((byte * s) \div k) % k = (byte * s) \div k
  <2> HIDE DEF k, m, new
  <2> QED BY <1>1, <1>2, RescaledUnder
<1> DEFINE q == (byte * s) \div k
<1>5. q \in 0 .. m - 1 /\ q % k = q /\ q = (byte * RatioTo(bright)) \div ByteLevels
  BY <1>3, <1>4
<1> HIDE DEF q, m, new
<1>6. q \in 0 .. k - 1 /\ q < m
  BY <1>1, <1>2, <1>5
<1> QED BY <1>2, <1>5, <1>6 DEF Bytes, m, new

LEMMA NothingColored ==
  ASSUME colored' = Nil
  PROVE  ColoredKnown'
<1>1. DOMAIN colored' = {}
  BY DEF Nil
<1>2. Nil = [n \in {} |-> 0]
  BY DEF Nil
<1>3. colored' \in [DOMAIN colored' -> PixelColors]
  BY <1>1, <1>2
<1> QED BY <1>1, <1>3 DEF ColoredKnown

LEMMA ColorsInitial == ColorsInit => ColorsIInv
<1> SUFFICES ASSUME ColorsInit PROVE ColorsIInv
  OBVIOUS
<1>1. /\ offset = [w |-> 1, r |-> 1, g |-> 0, b |-> 2] /\ memory = Nil /\ ledCount = 0 /\ level = 0
      /\ pin = NoPin /\ begun = FALSE /\ driven = {} /\ colored = Nil /\ stripCalls = 0 /\ stripFaults = 0
  BY DEF ColorsInit
<1>2. DOMAIN Nil = {} /\ Nil \in [{} -> Bytes] /\ Nil \in [{} -> PixelColors]
  BY DEF Nil
<1>3. offset \in [Channels -> 0 .. 3] /\ IsOrder(offset)
  BY <1>1 DEF Channels, IsOrder, BytesEach, HasWhite
<1>4. ColorsTypeOK
  <2>1. DOMAIN memory = {} /\ DOMAIN colored = {}
    BY <1>1, <1>2
  <2>2. level \in 0 .. ByteLevels - 1 /\ stripCalls \in 0 .. MaxStripCalls /\ stripFaults \in 0 .. MaxStripFaults
    BY <1>1, StripSizes
  <2>3. ledCount \in StripLengths \cup {0} /\ pin \in StripPins \cup {NoPin} /\ begun \in BOOLEAN
    BY <1>1
  <2> QED BY <1>3, <2>1, <2>2, <2>3 DEF ColorsTypeOK
<1>5. BytesKnown
  <2>1. BytesEach(offset) = 3
    BY <1>1 DEF BytesEach, HasWhite
  <2>2. 0 .. ledCount * BytesEach(offset) - 1 = {}
    BY <1>1, <2>1
  <2> QED BY <1>1, <1>2, <2>2 DEF BytesKnown, Memory
<1>6. ColoredKnown
  BY <1>1, <1>2 DEF ColoredKnown
<1>7. PinKnown
  BY <1>1 DEF PinKnown
<1> QED BY <1>3, <1>4, <1>5, <1>6, <1>7 DEF ColorsIInv

LEMMA StripCalled ==
  ASSUME ColorsTypeOK, StripCall
  PROVE  stripCalls' \in 0 .. MaxStripCalls
BY StripSizes DEF ColorsTypeOK, StripCall

LEMMA Allocated ==
  ASSUME ColorsTypeOK, NEW n \in StripLengths \cup {0}, NEW order \in [Channels -> 0 .. 3], IsOrder(order),
         Allocate(n, order), level' = level, offset' = order
  PROVE  /\ colored' = Nil /\ ColoredKnown' /\ BytesKnown'
         /\ ledCount' \in StripLengths \cup {0} /\ stripFaults' \in 0 .. MaxStripFaults
<1>1. n \in Nat /\ level \in Bytes
  BY ColorsAssumption DEF ColorsTypeOK, Bytes
<1>2. colored' = Nil /\ ColoredKnown'
  BY NothingColored DEF Allocate
<1>3. CASE memory' = [i \in 0 .. n * BytesEach(order) - 1 |-> 0] /\ ledCount' = n /\ UNCHANGED stripFaults
  <2>1. memory' \in Memory(n, order) /\ \A i \in DOMAIN memory' : memory'[i] = 0
    BY <1>3, StripSizes DEF Memory
  <2>2. 0 < LevelCap(level)
    BY <1>1, StripSizes DEF LevelCap, Bytes
  <2>3. Memory(ledCount, offset)' = Memory(n, order)
    BY <1>3 DEF Memory, BytesEach, HasWhite
  <2>4. BytesKnown'
    BY <2>1, <2>2, <2>3 DEF BytesKnown, LevelCap
  <2> QED BY <1>2, <1>3, <2>4 DEF ColorsTypeOK
<1>4. CASE /\ stripFaults < MaxStripFaults /\ stripFaults' = stripFaults + 1
           /\ memory' = Nil /\ ledCount' = 0
  <2>1. BytesEach(order) \in {3, 4}
    BY DEF BytesEach
  <2>2. 0 .. 0 * BytesEach(order) - 1 = {}
    BY <2>1
  <2>3. memory' \in [{} -> Bytes] /\ DOMAIN memory' = {}
    BY <1>4 DEF Nil
  <2>4. Memory(ledCount, offset)' = [{} -> Bytes]
    BY <1>4, <2>2 DEF Memory, BytesEach, HasWhite
  <2>5. BytesKnown'
    BY <2>3, <2>4 DEF BytesKnown
  <2>6. stripFaults' \in 0 .. MaxStripFaults
    BY <1>4, StripSizes DEF ColorsTypeOK
  <2> QED BY <1>2, <1>4, <2>5, <2>6
<1> QED BY <1>2, <1>3, <1>4 DEF Allocate

(* The types of the whole, once those of what has changed are known.        *)
LEMMA ColorsTyped ==
  ASSUME (offset \in [Channels -> 0 .. 3])', BytesKnown', ColoredKnown',
         (ledCount \in StripLengths \cup {0})', (level \in Bytes)', (pin \in StripPins \cup {NoPin})',
         (begun \in BOOLEAN)', (stripCalls \in 0 .. MaxStripCalls)', (stripFaults \in 0 .. MaxStripFaults)'
  PROVE  ColorsTypeOK'
<1>1. \A i \in DOMAIN memory' : memory'[i] \in Bytes
  BY DEF BytesKnown, Memory
<1>2. \A n \in DOMAIN colored' : colored'[n] \in PixelColors
  BY DEF ColoredKnown
<1> QED BY <1>1, <1>2 DEF ColorsTypeOK, Bytes

LEMMA UpdateLengthKept ==
  ASSUME ColorsIInv, NEW n \in StripLengths, updateLength(n)
  PROVE  ColorsIInv'
<1>1. StripCall /\ Allocate(n, offset) /\ UNCHANGED <<offset, level, pin, begun, driven>>
  BY DEF updateLength
<1>2. ColorsTypeOK /\ IsOrder(offset) /\ offset \in [Channels -> 0 .. 3] /\ n \in StripLengths \cup {0}
  BY DEF ColorsIInv, ColorsTypeOK
<1>3. /\ ColoredKnown' /\ BytesKnown'
      /\ ledCount' \in StripLengths \cup {0} /\ stripFaults' \in 0 .. MaxStripFaults
  BY <1>1, <1>2, Allocated
<1>4. IsOrder(offset)' /\ PinKnown'
  BY <1>1 DEF ColorsIInv, IsOrder, BytesEach, HasWhite, PinKnown
<1>5. ColorsTypeOK'
  BY <1>1, <1>2, <1>3, StripCalled, ColorsTyped DEF ColorsTypeOK, Bytes
<1> QED BY <1>3, <1>4, <1>5 DEF ColorsIInv

LEMMA UpdateTypeKept ==
  ASSUME ColorsIInv, NEW order \in StripTypes, updateType(order)
  PROVE  ColorsIInv'
<1>1. StripCall /\ offset' = order /\ UNCHANGED <<level, pin, begun, driven>>
  BY DEF updateType
<1>2. /\ ColorsTypeOK /\ order \in [Channels -> 0 .. 3] /\ IsOrder(order) /\ ledCount \in StripLengths \cup {0}
      /\ ledCount \in Nat
  BY ColorsAssumption DEF ColorsIInv, ColorsTypeOK
<1>3. IsOrder(offset)' /\ PinKnown'
  BY <1>1, <1>2 DEF ColorsIInv, IsOrder, BytesEach, HasWhite, PinKnown
<1>4. CASE Resizes(order)
  <2>1. Allocate(ledCount, order)
    BY <1>4 DEF updateType
  <2>2. /\ ColoredKnown' /\ BytesKnown'
        /\ ledCount' \in StripLengths \cup {0} /\ stripFaults' \in 0 .. MaxStripFaults
    BY <1>1, <1>2, <2>1, Allocated
  <2>3. ColorsTypeOK'
    BY <1>1, <1>2, <2>2, StripCalled, ColorsTyped DEF ColorsTypeOK, Bytes
  <2> QED BY <1>3, <2>2, <2>3 DEF ColorsIInv
<1>5. CASE ~Resizes(order)
  <2>1. colored' = (IF order = offset THEN colored ELSE Nil) /\ UNCHANGED <<memory, ledCount, stripFaults>>
    BY <1>5 DEF updateType
  <2>2. BytesKnown'
    <3>1. ledCount * BytesEach(order) = ledCount * BytesEach(offset)
      <4>1. CASE memory = Nil
        <5>1. DOMAIN memory = {} /\ DOMAIN memory = 0 .. ledCount * BytesEach(offset) - 1
          BY <4>1 DEF ColorsIInv, BytesKnown, Memory, Nil
        <5>2. BytesEach(offset) \in {3, 4} /\ BytesEach(order) \in {3, 4}
          BY DEF BytesEach
        <5>3. ~(0 \in 0 .. ledCount * BytesEach(offset) - 1)
          BY <5>1
        <5>4. ledCount = 0
          BY <1>2, <5>2, <5>3
        <5> QED BY <5>2, <5>4
      <4>2. CASE HasWhite(order) = HasWhite(offset)
        BY <4>2 DEF BytesEach
      <4> QED BY <1>5, <4>1, <4>2 DEF Resizes
    <3>2. Memory(ledCount, offset)' = Memory(ledCount, offset)
      BY <1>1, <2>1, <3>1 DEF Memory, BytesEach, HasWhite
    <3> QED BY <1>1, <2>1, <3>2 DEF ColorsIInv, BytesKnown, LevelCap
  <2>3. ColoredKnown'
    <3>1. CASE order = offset
      BY <1>1, <2>1, <3>1 DEF ColorsIInv, ColoredKnown, Shown, HasWhite, BytesEach, ByteOf, Scaled
    <3>2. CASE order # offset
      BY <2>1, <3>2, NothingColored
    <3> QED BY <3>1, <3>2
  <2>4. ColorsTypeOK'
    BY <1>1, <1>2, <2>1, <2>2, <2>3, StripCalled, ColorsTyped DEF ColorsTypeOK, Bytes
  <2> QED BY <1>3, <2>2, <2>3, <2>4 DEF ColorsIInv
<1> QED BY <1>4, <1>5

(* What depends only on the memory, the type, the level and the colours.    *)
LEMMA SameColors ==
  ASSUME ColorsIInv, UNCHANGED <<offset, memory, ledCount, level, colored>>
  PROVE  IsOrder(offset)' /\ BytesKnown' /\ ColoredKnown'
BY DEF ColorsIInv, IsOrder, BytesEach, HasWhite, BytesKnown, Memory, LevelCap, ColoredKnown, Shown, ByteOf, Scaled

LEMMA BeginStripKept ==
  ASSUME ColorsIInv, beginStrip
  PROVE  ColorsIInv'
<1>1. /\ StripCall /\ begun' = TRUE /\ driven' = driven \cup ({pin} \ {NoPin})
      /\ UNCHANGED <<offset, memory, ledCount, level, pin, colored, stripFaults>>
  BY DEF beginStrip
<1>2. IsOrder(offset)' /\ BytesKnown' /\ ColoredKnown'
  BY <1>1, SameColors
<1>3. PinKnown'
  BY <1>1 DEF ColorsIInv, PinKnown
<1>4. ColorsTypeOK'
  BY <1>1, <1>2, StripCalled, ColorsTyped DEF ColorsIInv, ColorsTypeOK, Bytes
<1> QED BY <1>2, <1>3, <1>4 DEF ColorsIInv

LEMMA SetPinKept ==
  ASSUME ColorsIInv, NEW p \in StripPins, setPin(p)
  PROVE  ColorsIInv'
<1>1. /\ StripCall /\ pin' = p
      /\ driven' = (driven \ Released) \cup (IF begun THEN {p} ELSE {})
      /\ UNCHANGED <<offset, memory, ledCount, level, begun, colored, stripFaults>>
  BY DEF setPin
<1>2. IsOrder(offset)' /\ BytesKnown' /\ ColoredKnown'
  BY <1>1, SameColors
<1>3. PinKnown'
  BY <1>1 DEF ColorsIInv, PinKnown, Released
<1>4. ColorsTypeOK'
  BY <1>1, <1>2, StripCalled, ColorsTyped DEF ColorsIInv, ColorsTypeOK, Bytes
<1> QED BY <1>2, <1>3, <1>4 DEF ColorsIInv

(* Where the bytes of an LED are, in the memory as it is.                   *)
LEMMA ByteAt ==
  ASSUME ColorsIInv
  PROVE  /\ DOMAIN memory = 0 .. ledCount * BytesEach(offset) - 1 /\ Channels = {"w", "r", "g", "b"}
         /\ \A n \in 0 .. ledCount - 1, c \in Channels : n * BytesEach(offset) + offset[c] \in DOMAIN memory
         /\ \A n, m \in Nat : \A c, d \in Shown(offset) :
              n * BytesEach(offset) + offset[c] = m * BytesEach(offset) + offset[d] => n = m /\ c = d
<1>1. /\ offset \in [Channels -> 0 .. 3] /\ IsOrder(offset) /\ ledCount \in Nat
      /\ DOMAIN memory = 0 .. ledCount * BytesEach(offset) - 1
  BY ColorsAssumption DEF ColorsIInv, ColorsTypeOK, BytesKnown, Memory
<1> QED BY <1>1, Places3

LEMMA PaintKept ==
  ASSUME ColorsIInv, NEW n \in AnyLed, NEW color \in PixelColors, PaintPixel(n, color)
  PROVE  ColorsIInv'
<1>1. StripCall /\ UNCHANGED <<offset, ledCount, level, pin, begun, driven, stripFaults>>
  BY DEF PaintPixel
<1>2. ColorsTypeOK /\ ledCount \in Nat /\ level \in Bytes /\ n \in Nat
  BY ColorsAssumption DEF ColorsIInv, ColorsTypeOK, Bytes, AnyLed
<1>3. IsOrder(offset)' /\ PinKnown'
  BY <1>1 DEF ColorsIInv, IsOrder, BytesEach, HasWhite, PinKnown
<1>4. CASE ~(n < ledCount)
  <2>1. UNCHANGED <<memory, colored>>
    BY <1>4 DEF PaintPixel
  <2>2. BytesKnown' /\ ColoredKnown'
    BY <1>1, <2>1, SameColors
  <2>3. ColorsTypeOK'
    BY <1>1, <1>2, <2>2, StripCalled, ColorsTyped DEF ColorsTypeOK, Bytes
  <2> QED BY <1>3, <2>2, <2>3 DEF ColorsIInv
<1>5. CASE n < ledCount
  <2> DEFINE at(c) == n * BytesEach(offset) + offset[c]
             shown == Shown(offset)
  <2>1. /\ memory' = [i \in DOMAIN memory |->
             IF \E c \in shown : i = at(c) THEN Scaled(color[CHOOSE c \in shown : i = at(c)]) ELSE memory[i]]
        /\ colored' = [k \in DOMAIN colored \cup {n} |-> IF k = n THEN color ELSE colored[k]]
    BY <1>5 DEF PaintPixel, PixelPainted, Shown
  <2>2. shown \subseteq Channels /\ \A c \in Channels : color[c] \in Bytes
    BY DEF Shown, PixelColors, Bytes
  <2>3. \A c \in shown : Scaled(color[c]) \in Bytes /\ Scaled(color[c]) < LevelCap(level)
    BY <1>2, <2>2, ScaledBelow
  <2>4. /\ memory \in [DOMAIN memory -> Bytes] /\ \A i \in DOMAIN memory : memory[i] < LevelCap(level)
        /\ Memory(ledCount, offset) = [DOMAIN memory -> Bytes]
    BY DEF ColorsIInv, BytesKnown, Memory
  <2>5. ASSUME NEW i \in DOMAIN memory
        PROVE  memory'[i] \in Bytes /\ memory'[i] < LevelCap(level)
    <3>1. CASE \E c \in shown : i = at(c)
      <4>1. (CHOOSE c \in shown : i = at(c)) \in shown
        BY <3>1
      <4> QED BY <2>1, <2>3, <3>1, <4>1
    <3>2. CASE ~\E c \in shown : i = at(c)
      BY <2>1, <2>4, <3>2
    <3> QED BY <3>1, <3>2
  <2>6. BytesKnown'
    <3>1. memory' \in [DOMAIN memory -> Bytes] /\ DOMAIN memory' = DOMAIN memory
      BY <2>1, <2>5
    <3>2. Memory(ledCount, offset)' = Memory(ledCount, offset)
      BY <1>1 DEF Memory, BytesEach, HasWhite
    <3> QED BY <1>1, <2>4, <2>5, <3>1, <3>2 DEF BytesKnown, LevelCap
  <2>7. ColoredKnown'
    <3>1. DOMAIN colored' = DOMAIN colored \cup {n} /\ DOMAIN colored \subseteq 0 .. ledCount - 1
          /\ \A k \in DOMAIN colored : colored[k] \in PixelColors
      BY <2>1 DEF ColorsIInv, ColoredKnown
    <3>2. colored' \in [DOMAIN colored' -> PixelColors] /\ DOMAIN colored' \subseteq 0 .. ledCount' - 1
      BY <1>1, <1>2, <1>5, <2>1, <3>1
    <3>3. ASSUME NEW k \in DOMAIN colored', NEW c \in shown
          PROVE  memory'[k * BytesEach(offset) + offset[c]] = Scaled(colored'[k][c])
      <4> DEFINE i == k * BytesEach(offset) + offset[c]
      <4>1. k \in 0 .. ledCount - 1 /\ k \in Nat /\ c \in Channels
        BY <1>1, <2>2, <3>2
      <4>2. i \in DOMAIN memory
        BY <4>1, ByteAt
      <4>3. CASE k = n
        <5>1. i = at(c) /\ \A d \in shown : i = at(d) => d = c
          BY <1>2, <4>3, ByteAt
        <5>2. (CHOOSE d \in shown : i = at(d)) = c
          BY <5>1
        <5>3. memory'[i] = Scaled(color[c])
          BY <2>1, <4>2, <5>1, <5>2
        <5>4. colored'[k] = color
          BY <2>1, <4>3
        <5> QED BY <5>3, <5>4
      <4>4. CASE k # n
        <5>1. \A d \in shown : i # at(d)
          BY <1>2, <4>1, <4>4, ByteAt
        <5>2. memory'[i] = memory[i]
          BY <2>1, <4>2, <5>1
        <5>3. k \in DOMAIN colored /\ colored'[k] = colored[k]
          BY <2>1, <3>1, <4>4
        <5>4. memory[i] = Scaled(colored[k][c])
          BY <5>3 DEF ColorsIInv, ColoredKnown, ByteOf
        <5> QED BY <5>2, <5>3, <5>4
      <4> QED BY <4>3, <4>4
    <3>4. \A k \in DOMAIN colored', c \in Shown(offset)' : ByteOf(k, c)' = Scaled(colored[k][c])'
      BY <1>1, <3>3 DEF Shown, HasWhite, ByteOf, BytesEach, Scaled
    <3> QED BY <3>2, <3>4 DEF ColoredKnown
  <2>8. ColorsTypeOK'
    BY <1>1, <1>2, <2>6, <2>7, StripCalled, ColorsTyped DEF ColorsTypeOK, Bytes
  <2> QED BY <1>3, <2>6, <2>7, <2>8 DEF ColorsIInv
<1> QED BY <1>4, <1>5

LEMMA ClearStripKept ==
  ASSUME ColorsIInv, clearStrip
  PROVE  ColorsIInv'
<1>1. /\ StripCall /\ memory' = [i \in DOMAIN memory |-> 0]
      /\ colored' = [n \in 0 .. ledCount - 1 |-> [c \in Channels |-> 0]]
      /\ UNCHANGED <<offset, ledCount, level, pin, begun, driven, stripFaults>>
  BY DEF clearStrip
<1>2. ColorsTypeOK /\ ledCount \in Nat /\ level \in Bytes
  BY ColorsAssumption DEF ColorsIInv, ColorsTypeOK, Bytes
<1>3. IsOrder(offset)' /\ PinKnown'
  BY <1>1 DEF ColorsIInv, IsOrder, BytesEach, HasWhite, PinKnown
<1>4. BytesKnown'
  <2>1. 0 < LevelCap(level)
    BY <1>2, StripSizes DEF LevelCap, Bytes
  <2>2. memory' \in [DOMAIN memory -> Bytes] /\ DOMAIN memory' = DOMAIN memory /\ \A i \in DOMAIN memory' : memory'[i] = 0
    BY <1>1, StripSizes
  <2>3. Memory(ledCount, offset)' = [DOMAIN memory -> Bytes]
    BY <1>1 DEF ColorsIInv, BytesKnown, Memory, BytesEach, HasWhite
  <2> QED BY <1>1, <2>1, <2>2, <2>3 DEF BytesKnown, LevelCap
<1>5. ColoredKnown'
  <2>1. DOMAIN colored' = 0 .. ledCount - 1 /\ \A n \in 0 .. ledCount - 1, c \in Channels : colored'[n][c] = 0
    BY <1>1
  <2>2. [c \in Channels |-> 0] \in PixelColors
    BY StripSizes DEF PixelColors, Bytes
  <2>3. colored' \in [DOMAIN colored' -> PixelColors]
    BY <1>1, <2>2
  <2>4. Scaled(0) = 0
    <3>1. level = 0 \/ (0 * level = 0 /\ 0 \div ByteLevels = 0)
      BY <1>2, StripSizes DEF Bytes
    <3> QED BY <3>1 DEF Scaled
  <2>5. \A n \in 0 .. ledCount - 1, c \in Channels : n * BytesEach(offset) + offset[c] \in DOMAIN memory
    BY ByteAt
  <2>6. \A n \in 0 .. ledCount - 1, c \in Channels : memory'[n * BytesEach(offset) + offset[c]] = 0
    BY <1>1, <2>5
  <2>7. \A c \in Shown(offset)' : c \in Channels
    BY DEF Shown
  <2>8. Scaled(0)' = 0
    BY <1>1, <2>4 DEF Scaled
  <2>9. \A n \in DOMAIN colored', c \in Shown(offset)' : ByteOf(n, c)' = Scaled(colored[n][c])'
    BY <1>1, <2>1, <2>6, <2>7, <2>8 DEF ByteOf, BytesEach, HasWhite, Scaled
  <2> QED BY <1>1, <2>1, <2>3, <2>9 DEF ColoredKnown
<1>6. ColorsTypeOK'
  BY <1>1, <1>2, <1>4, <1>5, StripCalled, ColorsTyped DEF ColorsTypeOK, Bytes
<1> QED BY <1>3, <1>4, <1>5, <1>6 DEF ColorsIInv

LEMMA SetLevelKept ==
  ASSUME ColorsIInv, NEW bright \in StripLevels, setLevel(bright)
  PROVE  ColorsIInv'
<1> DEFINE new == (bright + 1) % ByteLevels
<1>1. /\ StripCall /\ level' = new
      /\ IF new = level THEN UNCHANGED <<memory, colored>>
         ELSE /\ memory' = [i \in DOMAIN memory |-> ((memory[i] * RatioTo(bright)) \div ByteLevels) % ByteLevels]
              /\ colored' = Nil
      /\ UNCHANGED <<offset, ledCount, pin, begun, driven, stripFaults>>
  BY DEF setLevel
<1>2. ColorsTypeOK /\ level \in Bytes /\ bright \in Bytes /\ 0 \in Bytes /\ 0 < LevelCap(level)
  BY ColorsAssumption DEF ColorsIInv, ColorsTypeOK, Bytes, LevelCap
<1>3. new \in Bytes
  BY <1>2, LevelChanged
<1>4. CASE new = level
  <2>1. UNCHANGED <<offset, memory, ledCount, level, colored>>
    BY <1>1, <1>4
  <2>2. IsOrder(offset)' /\ BytesKnown' /\ ColoredKnown'
    BY <2>1, SameColors
  <2>3. PinKnown'
    BY <1>1 DEF ColorsIInv, PinKnown
  <2>4. ColorsTypeOK'
    BY <1>1, <1>2, <2>1, <2>2, StripCalled, ColorsTyped DEF ColorsTypeOK, Bytes
  <2> QED BY <2>2, <2>3, <2>4 DEF ColorsIInv
<1>5. CASE new # level
  <2>1. /\ memory' = [i \in DOMAIN memory |-> ((memory[i] * RatioTo(bright)) \div ByteLevels) % ByteLevels]
        /\ colored' = Nil
    BY <1>1, <1>5
  <2>2. \A i \in DOMAIN memory : memory[i] \in Bytes /\ memory[i] < LevelCap(level)
    BY DEF ColorsIInv, BytesKnown, Memory
  <2>3. \A i \in DOMAIN memory : memory'[i] \in Bytes /\ memory'[i] < LevelCap(new)
    <3> SUFFICES ASSUME NEW i \in DOMAIN memory
                 PROVE  memory'[i] \in Bytes /\ memory'[i] < LevelCap(new)
      OBVIOUS
    <3> DEFINE b == ((memory[i] * RatioTo(bright)) \div ByteLevels) % ByteLevels
    <3>1. b \in Bytes /\ b < LevelCap(new)
      BY <1>2, <2>2, LevelChanged
    <3>2. memory'[i] = b
      BY <2>1
    <3> HIDE DEF b, new
    <3> QED BY <3>1, <3>2
  <2>4. DOMAIN memory' = DOMAIN memory /\ memory' \in [DOMAIN memory -> Bytes]
    BY <2>1, <2>3
  <2>5. Memory(ledCount, offset)' = [DOMAIN memory -> Bytes]
    BY <1>1 DEF ColorsIInv, BytesKnown, Memory, BytesEach, HasWhite
  <2>6. BytesKnown'
    BY <1>1, <2>3, <2>4, <2>5 DEF BytesKnown, LevelCap
  <2>7. ColoredKnown'
    BY <2>1, NothingColored
  <2>8. IsOrder(offset)' /\ PinKnown'
    BY <1>1 DEF ColorsIInv, IsOrder, BytesEach, HasWhite, PinKnown
  <2>9. ColorsTypeOK'
    BY <1>1, <1>2, <1>3, <2>6, <2>7, StripCalled, ColorsTyped DEF ColorsTypeOK, Bytes
  <2> QED BY <2>6, <2>7, <2>8, <2>9 DEF ColorsIInv
<1> QED BY <1>4, <1>5

LEMMA ColorsKept == ColorsIInv /\ [ColorsNext]_colorVars => ColorsIInv'
<1>1. ASSUME ColorsIInv, UNCHANGED colorVars
      PROVE  ColorsIInv'
  <2>1. UNCHANGED <<offset, memory, ledCount, level, pin, begun, driven, colored, stripCalls, stripFaults>>
    BY <1>1 DEF colorVars
  <2>2. IsOrder(offset)' /\ BytesKnown' /\ ColoredKnown'
    BY <1>1, <2>1, SameColors
  <2>3. PinKnown' /\ ColorsTypeOK'
    BY <1>1, <2>1 DEF ColorsIInv, PinKnown, ColorsTypeOK
  <2> QED BY <2>2, <2>3 DEF ColorsIInv
<1>2. ASSUME ColorsIInv, NEW n \in AnyLed, NEW r \in Shades, NEW g \in Shades, NEW b \in Shades,
             \/ setPixelRGB(n, r, g, b)
             \/ \E w \in Shades : setPixelRGBW(n, r, g, b, w) \/ setPixelPacked(n, Color(w, r, g, b))
      PROVE  ColorsIInv'
  <2>1. \A w \in Bytes : [w |-> w, r |-> r, g |-> g, b |-> b] \in PixelColors
    BY ColorsAssumption DEF PixelColors, Channels, Bytes
  <2>2. CASE setPixelRGB(n, r, g, b)
    BY <1>2, <2>1, <2>2, PaintKept, StripSizes DEF setPixelRGB
  <2>3. ASSUME NEW w \in Shades, setPixelRGBW(n, r, g, b, w)
        PROVE  ColorsIInv'
    <3>1. w \in Bytes
      BY ColorsAssumption DEF Bytes
    <3> QED BY <1>2, <2>1, <2>3, <3>1, PaintKept DEF setPixelRGBW
  <2>4. ASSUME NEW w \in Shades, setPixelPacked(n, Color(w, r, g, b))
        PROVE  ColorsIInv'
    <3> DEFINE packed == Color(w, r, g, b)
    <3>1. packed \in Nat /\ \A c \in Channels : Shift(c) \in Nat \ {0}
      <4>1. /\ ByteLevels * ByteLevels \in Nat \ {0}
            /\ ByteLevels * ByteLevels * ByteLevels \in Nat \ {0}
        BY StripSizes
      <4>2. \A c \in Channels : Shift(c) \in Nat \ {0}
        BY <4>1, StripSizes DEF Shift, Channels
      <4>3. {w, r, g, b} \subseteq Nat
        BY ColorsAssumption
      <4>4. w * Shift("w") \in Nat /\ r * Shift("r") \in Nat /\ g * Shift("g") \in Nat
        BY <4>2, <4>3 DEF Channels
      <4> QED BY <4>2, <4>3, <4>4 DEF Color
    <3> HIDE DEF packed
    <3>2. \A c \in Channels : (packed \div Shift(c)) % ByteLevels \in 0 .. ByteLevels - 1
      BY <3>1, StripSizes, Quotient
    <3>3. Unpacked(packed) \in PixelColors
      BY <3>2 DEF Unpacked, PixelColors
    <3> QED BY <1>2, <2>4, <3>3, PaintKept DEF setPixelPacked, packed
  <2> QED BY <1>2, <2>2, <2>3, <2>4
<1> QED BY <1>1, <1>2, UpdateLengthKept, UpdateTypeKept, SetPinKept, BeginStripKept, ClearStripKept, SetLevelKept
        DEF ColorsNext

(* A number of two digits, of a base k.                                     *)
LEMMA Digit ==
  ASSUME NEW k \in Nat \ {0}, NEW q \in Nat, NEW d \in 0 .. k - 1
  PROVE  (q * k + d) \div k = q /\ (q * k + d) % k = d
<1> DEFINE n == q * k + d
           x == n \div k
<1>1. q * k \in Nat /\ n \in Nat
  OBVIOUS
<1>2. x \in Nat /\ x * k <= n /\ n < (x + 1) * k
  BY <1>1, Quotient
<1>3. x < q => (x + 1) * k <= q * k
  BY <1>2, Monotone
<1>4. q < x => (q + 1) * k <= x * k
  BY <1>2, Monotone
<1>5. (q + 1) * k = q * k + k /\ (x + 1) * k \in Nat /\ x * k \in Nat
  BY <1>2
<1>6. n = q * k + d
  OBVIOUS
<1> HIDE DEF n, x
<1>7. x = q
  BY <1>1, <1>2, <1>3, <1>4, <1>5, <1>6
<1>8. n % k = d
  <2>1. n = k * (n \div k) + (n % k)
    BY <1>1
  <2>2. k * q = q * k /\ n % k \in Nat
    BY <1>1
  <2> QED BY <1>1, <1>6, <1>7, <2>1, <2>2 DEF x
<1> QED BY <1>7, <1>8 DEF n, x

(* A packed colour has the channels it was packed from.                     *)
LEMMA Unpacks ==
  ASSUME NEW w \in Bytes, NEW r \in Bytes, NEW g \in Bytes, NEW b \in Bytes
  PROVE  LET channels == Unpacked(Color(w, r, g, b))
         IN  channels["w"] = w /\ channels["r"] = r /\ channels["g"] = g /\ channels["b"] = b
<1> DEFINE k == ByteLevels
           k2 == k * k
           k3 == k * k * k
           n  == w * k3 + r * k2 + g * k + b
<1>1. k \in Nat /\ k > 0 /\ {w, r, g, b} \subseteq 0 .. k - 1 /\ {w, r, g, b} \subseteq Nat
  BY StripSizes DEF Bytes
<1>3. Shift("w") = k3 /\ Shift("r") = k2 /\ Shift("g") = k /\ Shift("b") = 1
  BY DEF Shift
<1>2. Unpacked(Color(w, r, g, b)) = [c \in Channels |-> (n \div Shift(c)) % k]
  <2>1. Color(w, r, g, b) = n
    BY <1>3 DEF Color
  <2> HIDE DEF n
  <2> QED BY <2>1 DEF Unpacked
<1> HIDE DEF k
<1>4. k2 \in Nat /\ k2 > 0 /\ k3 \in Nat /\ k3 > 0 /\ k3 = k2 * k /\ k2 = k * k
  BY <1>1
<1>5. n = w * k3 + r * k2 + g * k + b
  OBVIOUS
<1> HIDE DEF k2, k3, n
<1>6. w * k3 = (w * k2) * k /\ w * k2 = (w * k) * k /\ r * k2 = (r * k) * k
  BY <1>1, <1>4
<1>7. {w * k3, w * k2, w * k, r * k2, r * k, g * k} \subseteq Nat
  BY <1>1, <1>4
<1>8. g * k + b < k2 /\ r * k2 + (g * k + b) < k3
  <2>1. (g + 1) * k <= k * k /\ (g + 1) * k = g * k + k
    BY <1>1, Monotone
  <2>2. g * k + b < k2
    BY <1>1, <1>4, <1>7, <2>1
  <2>3. (r + 1) * k2 <= k * k2 /\ (r + 1) * k2 = r * k2 + k2 /\ k * k2 = k2 * k
    BY <1>1, <1>4, Monotone
  <2> QED BY <1>1, <1>4, <1>7, <2>2, <2>3
<1>9. n \div 1 = n /\ n % k = b
  <2> DEFINE q == w * k2 + r * k + g
  <2>1. q \in Nat /\ q * k = w * k3 + r * k2 + g * k
    <3>1. q * k = (w * k2) * k + (r * k) * k + g * k
      BY <1>1, <1>7
    <3> QED BY <1>1, <1>6, <1>7, <3>1
  <2> HIDE DEF q
  <2>2. n = q * k + b
    BY <1>1, <1>5, <1>7, <2>1
  <2>3. (q * k + b) % k = b
    <3>1. k \in Nat \ {0} /\ b \in 0 .. k - 1
      BY <1>1
    <3> QED BY <2>1, <3>1, Digit
  <2> QED BY <1>1, <1>5, <1>7, <2>2, <2>3
<1>10. (n \div k) % k = g
  <2> DEFINE q == w * k2 + r * k + g
  <2>1. q \in Nat /\ q * k = w * k3 + r * k2 + g * k
    <3>1. q * k = (w * k2) * k + (r * k) * k + g * k
      BY <1>1, <1>7
    <3> QED BY <1>1, <1>6, <1>7, <3>1
  <2> DEFINE p == w * k + r
  <2>2. p \in Nat /\ q = p * k + g
    <3>1. p * k = (w * k) * k + r * k
      BY <1>1, <1>7
    <3> QED BY <1>1, <1>6, <1>7, <3>1
  <2> HIDE DEF q, p
  <2>3. n = q * k + b
    BY <1>1, <1>5, <1>7, <2>1
  <2>4. (q * k + b) \div k = q
    BY <1>1, <2>1, Digit
  <2>5. (p * k + g) % k = g
    <3>1. k \in Nat \ {0} /\ g \in 0 .. k - 1
      BY <1>1
    <3> QED BY <2>2, <3>1, Digit
  <2> QED BY <2>2, <2>3, <2>4, <2>5
<1>11. (n \div k2) % k = r
  <2> DEFINE p == w * k + r
             d == g * k + b
  <2>1. p \in Nat /\ d \in 0 .. k2 - 1 /\ p * k2 = w * k3 + r * k2
    <3>1. p * k2 = (w * k) * k2 + r * k2
      BY <1>1, <1>4, <1>7
    <3>2. (w * k) * k2 = w * k3
      BY <1>1, <1>4
    <3> QED BY <1>1, <1>4, <1>7, <1>8, <3>1, <3>2
  <2>2. n = p * k2 + d
    BY <1>1, <1>5, <1>7, <2>1
  <2> HIDE DEF d
  <2>3. (p * k2 + d) \div k2 = p
    <3> HIDE DEF p
    <3>1. k2 \in Nat \ {0} /\ p \in Nat /\ d \in 0 .. k2 - 1
      BY <1>4, <2>1
    <3> QED BY <3>1, Digit
  <2>4. p % k = r
    BY <1>1, Digit
  <2> HIDE DEF p
  <2> QED BY <2>2, <2>3, <2>4
<1>12. (n \div k3) % k = w
  <2> DEFINE d == r * k2 + (g * k + b)
  <2>1. d \in 0 .. k3 - 1 /\ n = w * k3 + d
    BY <1>1, <1>4, <1>5, <1>7, <1>8
  <2> HIDE DEF d
  <2>2. (w * k3 + d) \div k3 = w
    <3>1. k3 \in Nat \ {0} /\ w \in Nat /\ d \in 0 .. k3 - 1
      BY <1>1, <1>4, <2>1
    <3> QED BY <3>1, Digit
  <2>3. w % k = w
    BY <1>1
  <2> QED BY <2>1, <2>2, <2>3
<1>13. {"w", "r", "g", "b"} \subseteq Channels
  BY DEF Channels
<1> QED BY <1>2, <1>3, <1>9, <1>10, <1>11, <1>12, <1>13

(* What a channel is read back as.                                          *)
LEMMA RestoredShade ==
  ASSUME NEW shade \in Bytes, level \in Bytes
  PROVE  LET readShade == Restored(Scaled(shade))
         IN  /\ readShade \in Nat /\ readShade <= shade
             /\ IF level = 0 THEN readShade = shade ELSE (shade - readShade - 1) * level < ByteLevels
<1> DEFINE k == ByteLevels
           s == shade
           v == level
           byte == (s * v) \div k
           x == (byte * k) \div v
<1>1. CASE level = 0
  BY <1>1, StripSizes DEF Restored, Scaled, Bytes
<1>2. CASE level # 0
  <2>1. k \in Nat /\ k > 0 /\ s \in Nat /\ v \in Nat /\ v > 0
    BY <1>2, StripSizes DEF Bytes
  <2>2. Restored(Scaled(shade)) = x
    BY <1>2 DEF Restored, Scaled
  <2> HIDE DEF k, s, v
  <2>3. s * v \in Nat /\ byte \in Nat /\ byte * k <= s * v /\ s * v < (byte + 1) * k
    BY <2>1, Quotient
  <2> HIDE DEF byte
  <2>4. byte * k \in Nat /\ x \in Nat /\ x * v <= byte * k /\ byte * k < (x + 1) * v
    BY <2>1, <2>3, Quotient
  <2> HIDE DEF x
  <2>5. x <= s
    <3>1. s < x => (s + 1) * v <= x * v
      BY <2>1, <2>4, Monotone
    <3>2. (s + 1) * v = s * v + v /\ x * v \in Nat
      BY <2>1, <2>4
    <3> QED BY <2>1, <2>3, <2>4, <3>1, <3>2
  <2>6. (s - x - 1) * v < k
    <3>1. (byte + 1) * k = byte * k + k /\ (x + 1) * v = x * v + v /\ x * v \in Nat
      BY <2>1, <2>3, <2>4
    <3>2. (s - x - 1) * v = s * v - x * v - v
      BY <2>1, <2>4
    <3> QED BY <2>1, <2>3, <2>4, <3>1, <3>2
  <2>7. v # 0
    BY <2>1
  <2> QED BY <2>2, <2>4, <2>5, <2>6, <2>7 DEF s, v, k
<1> QED BY <1>1, <1>2

LEMMA ColorsImplied == ColorsIInv => ColorsInv
<1> SUFFICES ASSUME ColorsIInv PROVE ColorsInv
  OBVIOUS
<1>1. ColorsTypeOK /\ level \in Bytes /\ ledCount \in Nat
  BY ColorsAssumption DEF ColorsIInv, ColorsTypeOK, Bytes
<1>2. MemoryFits
  BY ByteAt DEF MemoryFits
<1>3. OwnPin
  BY DEF ColorsIInv, PinKnown, OwnPin
<1>4. \A i \in DOMAIN memory : Restored(memory[i]) \in Bytes
  <2> SUFFICES ASSUME NEW i \in DOMAIN memory PROVE Restored(memory[i]) \in Bytes
    OBVIOUS
  <2>1. memory[i] \in Bytes /\ memory[i] < LevelCap(level)
    BY DEF ColorsIInv, BytesKnown, Memory
  <2>2. CASE level = 0
    BY <2>1, <2>2 DEF Restored
  <2>3. CASE level # 0
    <3>1. memory[i] \in Nat /\ level \in Nat \ {0} /\ memory[i] < level
      BY <1>1, <2>1, <2>3 DEF LevelCap, Bytes
    <3>2. (memory[i] * ByteLevels) \div level \in Nat /\ (memory[i] * ByteLevels) \div level < ByteLevels
      BY <3>1, StripSizes, RestoredUnder
    <3> DEFINE x == (memory[i] * ByteLevels) \div level
    <3>3. Restored(memory[i]) = x
      BY <2>3 DEF Restored
    <3> HIDE DEF x
    <3>4. x \in Nat /\ x < ByteLevels
      BY <3>2 DEF x
    <3> QED BY <3>3, <3>4, StripSizes DEF Bytes
  <2> QED BY <2>2, <2>3
<1>5. NoCarry
  BY <1>4, StripSizes DEF NoCarry, Bytes
<1>6. ReadBack
  <2> SUFFICES ASSUME NEW n \in DOMAIN colored, NEW c \in Channels
               PROVE  LET readShade == Unpacked(getPixelColor(n))[c]
                          set == IF c = "w" /\ ~HasWhite(offset) THEN 0 ELSE colored[n][c]
                      IN  /\ readShade <= set
                          /\ IF level = 0 THEN readShade = set ELSE (set - readShade - 1) * level < ByteLevels
    BY DEF ReadBack
  <2> DEFINE back(d) == IF d = "w" /\ ~HasWhite(offset) THEN 0 ELSE Restored(ByteOf(n, d))
             set == IF c = "w" /\ ~HasWhite(offset) THEN 0 ELSE colored[n][c]
  <2>1. n \in 0 .. ledCount - 1 /\ ~(n >= ledCount) /\ colored[n] \in PixelColors
    BY <1>1 DEF ColorsIInv, ColoredKnown
  <2>2. \A d \in Channels : back(d) \in Bytes
    BY <1>4, <2>1, ByteAt, StripSizes DEF ByteOf
  <2>3. getPixelColor(n) = Color(back("w"), back("r"), back("g"), back("b"))
    BY <2>1 DEF getPixelColor
  <2>4. Unpacked(getPixelColor(n))[c] = back(c)
    <3> DEFINE w == back("w")
               r == back("r")
               g == back("g")
               b == back("b")
    <3>1. w \in Bytes /\ r \in Bytes /\ g \in Bytes /\ b \in Bytes
      BY <2>2 DEF Channels
    <3>2. getPixelColor(n) = Color(w, r, g, b)
      BY <2>3
    <3>3. c = "w" \/ c = "r" \/ c = "g" \/ c = "b"
      BY DEF Channels
    <3>4. back(c) = IF c = "w" THEN w ELSE IF c = "r" THEN r ELSE IF c = "g" THEN g ELSE b
      BY <3>3
    <3> HIDE DEF w, r, g, b, back
    <3>5. LET channels == Unpacked(Color(w, r, g, b))
          IN  channels["w"] = w /\ channels["r"] = r /\ channels["g"] = g /\ channels["b"] = b
      BY <3>1, Unpacks
    <3> QED BY <3>2, <3>3, <3>4, <3>5
  <2>6. /\ back(c) \in Nat /\ set \in Nat /\ back(c) <= set
        /\ IF level = 0 THEN back(c) = set ELSE (set - back(c) - 1) * level < ByteLevels
    <3>1. CASE c = "w" /\ ~HasWhite(offset)
      <4>1. back(c) = 0 /\ set = 0 /\ (0 - 0 - 1) * level < ByteLevels
        BY <1>1, <3>1, StripSizes DEF Bytes
      <4> QED BY <4>1
    <3>2. CASE ~(c = "w" /\ ~HasWhite(offset))
      <4>1. c \in Shown(offset)
        BY <3>2 DEF Shown
      <4>2. ByteOf(n, c) = Scaled(colored[n][c])
        BY <4>1 DEF ColorsIInv, ColoredKnown
      <4>3. colored[n][c] \in Bytes /\ colored[n][c] \in Nat
        BY <2>1 DEF PixelColors, Bytes
      <4>4. back(c) = Restored(Scaled(colored[n][c])) /\ set = colored[n][c]
        BY <3>2, <4>2
      <4> HIDE DEF back, set
      <4> QED BY <1>1, <4>3, <4>4, RestoredShade
    <3> QED BY <3>1, <3>2
  <2> HIDE DEF back
  <2> QED BY <2>4, <2>6
<1> QED BY <1>1, <1>2, <1>3, <1>5, <1>6 DEF ColorsInv
=============================================================================
