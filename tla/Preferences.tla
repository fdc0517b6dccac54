---------------------------- MODULE Preferences ----------------------------
(***************************************************************************)
(* The store of settings, Preferences.cpp: a wrapper of the non-volatile    *)
(* storage (NVS), which is external: it may fail at every call, keeps what  *)
(* is set under a name and a key, and is bound to keep it over a restart    *)
(* only once it was committed.  The tasks of the board share one object; a  *)
(* get of a string or of bytes asks twice, for the length and the contents. *)
(***************************************************************************)
EXTENDS Integers, Sequences

CONSTANTS
  Namespaces, Keys,
  Items,        (* what is put: [type |-> ..., data |-> a sequence]         *)
  NoItem,       (* no item                                                  *)
  MaxChanges,   (* bound: puts, removes and clears                          *)
  MaxRestarts   (* bound: restarts                                          *)

ASSUME PreferencesAssumption ==
  /\ \A item \in Items : item.type \in {"uchar", "int", "string", "blob"}
                         /\ item.data \in Seq(Nat) /\ (item.type # "string" => item.data # <<>>)
  /\ NoItem \notin Items \cup Seq(Nat) /\ MaxChanges \in Nat /\ MaxRestarts \in Nat

Places  == Namespaces \X Keys
(* What is asked for, and how many units there are room for.                *)
Numbers == {"uchar", "int"}
Gets    == [string |-> 0, chars |-> 2, float |-> 1, double |-> 2]
Idle    == [key |-> NoItem]

VARIABLES
  _started, _readOnly,
  namespace,    (* the one _handle was opened on last                       *)
  nvs,          (* nvs[p]: the item at place p, or NoItem                   *)
  pending,      (* pending[p]: what a restart can bring back instead of it  *)
  reading,      (* a get between its two calls: [key, get, length, seen],   *)
                (* seen (history) is what was there since it began          *)
  told,         (* history: told[p]: the item a put has reported stored,    *)
                (* NoItem after a put that has not, or a removal            *)
  changes, restarts

handle          == <<_started, _readOnly, namespace>>
storage         == <<nvs, pending>>
preferencesVars == <<handle, storage, reading, told, changes, restarts>>

PreferencesTypeOK ==
  /\ {_started, _readOnly} \subseteq BOOLEAN /\ namespace \in Namespaces
  /\ nvs \in [Places -> Items \cup {NoItem}] /\ told \in [Places -> Items \cup {NoItem}]
  /\ pending \in [Places -> SUBSET (Items \cup {NoItem})]
  /\ reading = Idle \/ (reading.key \in Keys /\ reading.get \in DOMAIN Gets /\ reading.length \in Nat)
  /\ changes \in 0 .. MaxChanges /\ restarts \in 0 .. MaxRestarts

PreferencesInit ==
  /\ _started = FALSE /\ _readOnly = FALSE /\ namespace \in Namespaces
  /\ nvs = [p \in Places |-> NoItem] /\ pending = [p \in Places |-> {}]
  /\ reading = Idle /\ told = [p \in Places |-> NoItem]
  /\ changes = 0 /\ restarts = 0

(***************************************************************************)
(* NVS.  A closed handle finds nothing.                                     *)
(***************************************************************************)
Found(key) == IF _started THEN nvs[namespace, key] ELSE NoItem

Watch == \E key \in {reading.key} :
  reading' = IF reading = Idle THEN Idle ELSE [reading EXCEPT !.seen = @ \cup {Found(key)'}]

(* The items at the places change; until they are committed a restart can   *)
(* bring back the ones before.                                              *)
Store(places, item) ==
  /\ nvs' = [p \in Places |-> IF p \in places THEN item ELSE nvs[p]]
  /\ pending' = [p \in Places |-> IF p \in places THEN pending[p] \cup {nvs[p]} ELSE pending[p]]

StoreAndCommit(place, item) ==
  /\ nvs' = [nvs EXCEPT ![place] = item]
  /\ pending' = [p \in Places |-> IF p[1] = place[1] THEN {} ELSE pending[p]]

Restart ==
  /\ restarts < MaxRestarts /\ restarts' = restarts + 1
  /\ _started' = FALSE /\ _readOnly' = FALSE /\ reading' = Idle
  /\ \E kept \in [Places -> Items \cup {NoItem}] :
       (\A p \in Places : kept[p] \in pending[p] \cup {nvs[p]}) /\ nvs' = kept
  /\ pending' = [p \in Places |-> {}]
  /\ UNCHANGED <<namespace, told, changes>>

(***************************************************************************)
(* begin and end.                                                           *)
(***************************************************************************)
beginPreferences(name, readOnly, fails) ==
  /\ ~_started
  /\ _readOnly' = readOnly /\ _started' = ~fails
  /\ namespace' = IF fails THEN namespace ELSE name
  /\ UNCHANGED <<storage, told, changes, restarts>>
  /\ Watch

endPreferences ==
  /\ _started /\ _started' = FALSE
  /\ UNCHANGED <<_readOnly, namespace, storage, told, changes, restarts>>
  /\ Watch

(***************************************************************************)
(* Changes.  A put stores and commits; it reports the length of what it has *)
(* stored, which is 0 for the empty string, as for a failure.  NVS may have *)
(* stored an item although it reports that it could not.  A removal is not  *)
(* committed.                                                               *)
(***************************************************************************)
Writable == _started /\ ~_readOnly

Change == changes < MaxChanges /\ changes' = changes + 1 /\ UNCHANGED <<handle, restarts>> /\ Watch

(* Mutant of Reported: a failing commit is not looked at.                   *)
ReportedUncommitted(item, outcome) == outcome # "set fails" /\ item.data # <<>>

Reported(item, outcome) == outcome = "done" /\ item.data # <<>>

PutItem(key, item, outcome) ==
  LET place == <<namespace, key>> IN
  /\ Writable
  /\ CASE outcome = "done"         -> StoreAndCommit(place, item)
       [] outcome = "commit fails" -> Store({place}, item)
       [] outcome = "set fails"    -> Store({place}, item) \/ UNCHANGED storage
  /\ told' = [told EXCEPT ![place] = IF Reported(item, outcome) THEN item ELSE NoItem]
  /\ Change

putNumber(key, item, outcome) == item.type \in Numbers /\ PutItem(key, item, outcome)

putString(key, item, outcome) == item.type = "string" /\ PutItem(key, item, outcome)

putBytes(key, item, outcome) == item.type = "blob" /\ PutItem(key, item, outcome)

Erase(places, fails) ==
  /\ Writable
  /\ Store(places, NoItem) \/ (fails /\ UNCHANGED storage)
  /\ told' = [p \in Places |-> IF p \in places THEN NoItem ELSE told[p]]
  /\ Change

remove(key, fails) == nvs[namespace, key] # NoItem /\ Erase({<<namespace, key>>}, fails)

clear(fails) == Erase({namespace} \X Keys, fails)

(***************************************************************************)
(* Gets.  One of a number is a single call.  The others first ask for the   *)
(* length, which for a string counts the 0 at its end, and give up when     *)
(* there is no such item or no room for it.                                 *)
(***************************************************************************)
getNumber(key, type, defaultValue) ==
  LET item == Found(key)
  IN  IF item # NoItem /\ item.type = type THEN item.data[1] ELSE defaultValue

StoredItem(get) == IF get \in {"string", "chars"} THEN "string"
               ELSE "blob"

Length(item) == Len(item.data) + (IF item.type = "string" THEN 1 ELSE 0)

NvsRoom(get, item) == get = "string" \/ Length(item) <= Gets[get]

Fits(get, item) == item # NoItem /\ item.type = StoredItem(get) /\ NvsRoom(get, item)

StartGet(key, get) ==
  /\ _started /\ reading = Idle
  /\ Fits(get, Found(key))
  /\ reading' = [key |-> key, get |-> get, length |-> Length(Found(key)), seen |-> {Found(key)}]
  /\ UNCHANGED <<handle, storage, told, changes, restarts>>

(* The contents go to the buffer, whose rest stays as it was (0 here: the   *)
(* default value, or the buffer of the caller); NoItem when the call fails. *)
(* Mutant of Contents: the length of the item is not compared.              *)
ContentsAnyLength(item) ==
  IF item # NoItem /\ item.type = StoredItem(reading.get)
  THEN [k \in 1 .. reading.length |-> IF k <= Len(item.data) THEN item.data[k] ELSE 0]
  ELSE NoItem

Contents(item) ==
  IF item # NoItem /\ item.type = StoredItem(reading.get) /\ Length(item) <= reading.length
  THEN item.data \o [k \in 1 .. Gets[reading.get] - Len(item.data) |-> 0]
  ELSE NoItem

FinishGet ==
  /\ reading # Idle /\ reading' = Idle
  /\ UNCHANGED <<handle, storage, told, changes, restarts>>

PreferencesNext ==
  \/ \E name \in Namespaces, readOnly, fails \in BOOLEAN : beginPreferences(name, readOnly, fails)
  \/ endPreferences
  \/ \E key \in Keys, item \in Items, outcome \in {"done", "commit fails", "set fails"} :
       \/ putNumber(key, item, outcome)
       \/ putString(key, item, outcome)
       \/ putBytes(key, item, outcome)
  \/ \E key \in Keys, fails \in BOOLEAN : remove(key, fails)
  \/ \E fails \in BOOLEAN : clear(fails)
  \/ \E key \in Keys, get \in DOMAIN Gets : StartGet(key, get)
  \/ FinishGet
  \/ Restart

PreferencesSpec == PreferencesInit /\ [][PreferencesNext]_preferencesVars

(***************************************************************************)
(* Properties.                                                              *)
(***************************************************************************)

(* What a put has reported stored is there from then on, whatever fails and *)
(* whenever the board restarts, until it is removed or put anew; a number   *)
(* is read back where the default would be another.                         *)
PutsKept ==
  \A p \in Places : told[p] # NoItem =>
    /\ nvs[p] = told[p] /\ pending[p] = {}
    /\ _started /\ p[1] = namespace /\ told[p].type \in Numbers =>
         getNumber(p[2], told[p].type, told[p].data[1] + 1) = told[p].data[1]

(* A get gives the whole of an item that was there while it ran, or fails;  *)
(* and it does not fail when nothing has changed meanwhile.  The one value  *)
(* that is neither is a double read where a float was put: its other half   *)
(* is the default's (Preferences.cpp:397-401, 455-469).                     *)
Padded(item) == item.data \o [k \in 1 .. Gets[reading.get] - Len(item.data) |-> 0]

GetsWhole ==
  reading # Idle =>
    LET got   == Contents(Found(reading.key))
        items == {item \in reading.seen : item # NoItem /\ item.type = StoredItem(reading.get)}
    IN  /\ got = NoItem \/ \E item \in items : got = Padded(item)
        /\ reading.seen = items /\ (\A item, other \in items : item = other) => got # NoItem

(* What holds of the settings at every step.                                *)
PreferencesInv == PreferencesTypeOK /\ PutsKept /\ GetsWhole
=============================================================================
