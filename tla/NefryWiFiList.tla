---------------------------- MODULE NefryWiFiList ----------------------------
(***************************************************************************)
(* The saved networks of a Nefry board: the list NefryWiFi.cpp keeps in     *)
(* memory (_nefryssid, _nefrypwd: N slots) and its copy in Flash (the keys  *)
(* ConnectSSID0.. and ConnectPass0.. of NefryDataStore).                    *)
(*                                                                         *)
(* Two tasks work on it: the web task runs the page handlers /set_wifi and  *)
(* /delete_wifi, the sketch calls Nefry.addWiFi, deleteWiFi and saveWiFi.   *)
(* saveWifi writes 2*N keys one after the other, each write a separate      *)
(* commit; the power can go, or the web task restart the board, between     *)
(* two of them.  An edit of the list in memory is one action; a save is one *)
(* action per key: the value written is read from the list when the         *)
(* previous write returns.                                                  *)
(***************************************************************************)
EXTENDS Integers, FiniteSets

CONSTANTS
  N,          (* slots of the list (5 in the code)                           *)
  Networks,   (* networks a user or the sketch can add; n stands for the     *)
              (* SSID of n in an ssid field, for its password in a pwd field *)
  None,       (* the empty string                                            *)
  Tasks,      (* the tasks that run                                          *)
  Web,        (* the task that serves the pages; the others run the sketch   *)
  MaxCuts,    (* bound: restarts that interrupt a save                       *)
  MaxFaults   (* bound: Flash writes that fail                               *)

ASSUME NAssumption    == N \in Nat \ {0}
ASSUME NoneAssumption == None \notin Networks
ASSUME BoundAssumption == MaxCuts \in Nat /\ MaxFaults \in Nat

VARIABLES
  list,         (* list[i]: _nefryssid[i], _nefrypwd[i] and, as history, the *)
                (* Flash slot the entry came from (N: it is not in Flash)    *)
  connectSSID,  (* Flash: the keys ConnectSSID<i>                            *)
  connectPass,  (* Flash: the keys ConnectPass<i>                            *)
  pc,           (* pc[t]: the key a save of t writes next, or "idle"         *)
  at,           (* at[t]: the slot that save has reached                     *)
  val,          (* val[t]: the string passed to the pending write            *)
  deleteFlg,    (* the handler being served will call resetTimer(2)          *)
  resetFlg,     (* resetTimer was called: the web task restarts the board    *)
  sync,         (* history, what the saves did to Flash: "calm" (every save  *)
                (* since boot ran with no edit of the list beside it),       *)
                (* "mixed" (one did not) or "resync" (a new save after that) *)
  cuts, faults  (* counters of the two bounds                                *)

flash == <<connectSSID, connectPass>>
saves == <<pc, at, val, deleteFlg>>
vars  == <<list, flash, saves, resetFlg, sync, cuts, faults>>

Slot    == 0 .. N - 1
Strings == Networks \cup {None}
Entry   == [ssid : Strings, pwd : Strings, origin : 0 .. N]
NoEntry == [ssid |-> None, pwd |-> None, origin |-> N]

(* The entry of slot i when Flash holds it.                                 *)
Stored(s, p, i) == [ssid |-> s, pwd |-> p, origin |-> IF s # None THEN i ELSE N]

TypeOK ==
  /\ list \in [Slot -> Entry]
  /\ connectSSID \in [Slot -> Strings]
  /\ connectPass \in [Slot -> Strings]
  /\ pc \in [Tasks -> {"idle", "ssid", "pass"}]
  /\ at \in [Tasks -> Slot]
  /\ val \in [Tasks -> Strings]
  /\ deleteFlg \in BOOLEAN
  /\ resetFlg \in BOOLEAN
  /\ sync \in {"calm", "mixed", "resync"}
  /\ cuts \in 0 .. MaxCuts
  /\ faults \in 0 .. MaxFaults

Init ==
  /\ list = [i \in Slot |-> NoEntry]
  /\ connectSSID = [i \in Slot |-> None]
  /\ connectPass = [i \in Slot |-> None]
  /\ pc = [t \in Tasks |-> "idle"]
  /\ at = [t \in Tasks |-> 0]
  /\ val = [t \in Tasks |-> None]
  /\ deleteFlg = FALSE
  /\ resetFlg = FALSE
  /\ sync = "calm"
  /\ cuts = 0
  /\ faults = 0

(***************************************************************************)
(* The list in memory.                                                     *)
(***************************************************************************)

Used(l) == {i \in Slot : l[i].ssid # None}

(* The slot whose entry sortWifi moves to slot i: the one with i used slots *)
(* before it (a singleton, or empty past the last network).                 *)
Sources(l, i) == {j \in Used(l) : Cardinality({k \in Used(l) : k < j}) = i}

(* sortWifi closes the gaps, keeping the order.  A slot left behind by a    *)
(* move is cleared; a gap nothing moves into keeps its stray password.      *)
sortWifi(l) ==
  [i \in Slot |->
     IF Sources(l, i) # {} THEN l[CHOOSE j \in Sources(l, i) : TRUE]
     ELSE IF i \in Used(l) THEN NoEntry
     ELSE l[i]]

deleteWifi(l, i) == IF i \in Slot THEN [l EXCEPT ![i] = NoEntry] ELSE l

(* Mutants of addWifi: the new network goes to the head of the list; a full *)
(* list drops its newest.                                                   *)
addWifiAtHead(l, s, p) ==
  LET sorted == sortWifi(l)
  IN  [i \in Slot |-> IF i = 0 THEN [ssid |-> s, pwd |-> p, origin |-> N] ELSE sorted[i - 1]]

addWifiDropsNewest(l, s, p) ==
  LET used == Cardinality(Used(l))
  IN  [sortWifi(l) EXCEPT ![IF used < N THEN used ELSE N - 1] =
         [ssid |-> s, pwd |-> p, origin |-> N]]

(* The first gap takes the new network; a full list drops its oldest.       *)
addWifi(l, s, p) ==
  LET sorted == sortWifi(l)
      new    == [ssid |-> s, pwd |-> p, origin |-> N]
  IN  IF Cardinality(Used(sorted)) < N
      THEN [sorted EXCEPT ![Cardinality(Used(sorted))] = new]
      ELSE [sortWifi(deleteWifi(sorted, 0)) EXCEPT ![N - 1] = new]

Saving(t)     == pc[t] # "idle"
OtherSaves(t) == \E u \in Tasks \ {t} : Saving(u)

(* History: the list becomes l while task t is not in a save.               *)
SyncAfterEdit(t, l) == IF OtherSaves(t) /\ l # list THEN "mixed" ELSE sync

(* Nefry.addWiFi, Nefry.deleteWiFi: memory only.                            *)
SketchAdd(t) ==
  /\ ~Saving(t)
  /\ \E s \in Strings, p \in Strings :
        /\ s = p \/ s = None
        /\ list' = addWifi(list, s, p)
  /\ sync' = SyncAfterEdit(t, list')
  /\ UNCHANGED <<flash, saves, resetFlg, cuts, faults>>

SketchDelete(t) ==
  /\ ~Saving(t)
  /\ \E id \in -1 .. N : list' = deleteWifi(list, id)
  /\ sync' = SyncAfterEdit(t, list')
  /\ UNCHANGED <<flash, saves, resetFlg, cuts, faults>>

(***************************************************************************)
(* saveWifi: sort, then ConnectSSID0, ConnectPass0, ConnectSSID1, ...       *)
(***************************************************************************)

(* Mutant of StartSave: the first SSID is read before the list is sorted.   *)
StartSaveReadsFirst(t, l) ==
  /\ list' = sortWifi(l)
  /\ pc'  = [pc EXCEPT ![t] = "ssid"]
  /\ at'  = [at EXCEPT ![t] = 0]
  /\ val' = [val EXCEPT ![t] = l[0].ssid]
  /\ sync' = IF OtherSaves(t) THEN "mixed" ELSE IF sync = "mixed" THEN "resync" ELSE sync
  /\ UNCHANGED <<flash, cuts, faults>>

(* Task t, whose list is l, calls saveWifi.                                 *)
StartSave(t, l) ==
  /\ list' = sortWifi(l)
  /\ pc'  = [pc EXCEPT ![t] = "ssid"]
  /\ at'  = [at EXCEPT ![t] = 0]
  /\ val' = [val EXCEPT ![t] = list'[0].ssid]
  /\ sync' = IF OtherSaves(t)
             THEN IF list' # list THEN "mixed" ELSE sync
             ELSE IF sync = "mixed" THEN "resync" ELSE sync
  /\ UNCHANGED <<flash, cuts, faults>>

(* Mutant of ToPass: the password is that of the slot before.               *)
ToPassOfPrevious(t) ==
  /\ pc'  = [pc EXCEPT ![t] = "pass"]
  /\ val' = [val EXCEPT ![t] = list[IF at[t] > 0 THEN at[t] - 1 ELSE 0].pwd]
  /\ UNCHANGED <<list, at, deleteFlg, resetFlg, cuts>>

(* setConnectSSID returns; setConnectPass is called for the same slot.      *)
ToPass(t) ==
  /\ pc'  = [pc EXCEPT ![t] = "pass"]
  /\ val' = [val EXCEPT ![t] = list[at[t]].pwd]
  /\ UNCHANGED <<list, at, deleteFlg, resetFlg, cuts>>

(* Mutant of ToNextSlot: the SSID is read before the slot is advanced.      *)
ToNextSlotStale(t) ==
  /\ at[t] < N - 1
  /\ pc'  = [pc EXCEPT ![t] = "ssid"]
  /\ at'  = [at EXCEPT ![t] = at[t] + 1]
  /\ val' = [val EXCEPT ![t] = list[at[t]].ssid]
  /\ UNCHANGED <<list, deleteFlg, resetFlg, cuts>>

(* setConnectPass returns: the next slot, or the save is over and the       *)
(* handler that called it, if one did, arms the restart.                    *)
ToNextSlot(t) ==
  /\ at[t] < N - 1
  /\ pc'  = [pc EXCEPT ![t] = "ssid"]
  /\ at'  = [at EXCEPT ![t] = at[t] + 1]
  /\ val' = [val EXCEPT ![t] = list[at[t] + 1].ssid]
  /\ UNCHANGED <<list, deleteFlg, resetFlg, cuts>>

(* Mutants of Finish: the loop stops one slot early; it leaves the counter   *)
(* of the loop past the last slot.                                          *)
FinishEarly(t, clean) ==
  /\ at[t] = N - 2
  /\ pc' = [pc EXCEPT ![t] = "idle"]
  /\ at' = [at EXCEPT ![t] = 0]
  /\ UNCHANGED <<list, val, resetFlg, deleteFlg, cuts>>

FinishPastEnd(t, clean) ==
  /\ at[t] = N - 1
  /\ pc' = [pc EXCEPT ![t] = "idle"]
  /\ at' = [at EXCEPT ![t] = at[t] + 1]
  /\ UNCHANGED <<list, val, resetFlg, deleteFlg, cuts>>

Finish(t, clean) ==
  /\ at[t] = N - 1
  /\ pc' = [pc EXCEPT ![t] = "idle"]
  /\ resetFlg'  = (resetFlg \/ (t = Web /\ deleteFlg))
  /\ deleteFlg' = (deleteFlg /\ t # Web)
  /\ list' = IF clean
             THEN [i \in Slot |-> Stored(list[i].ssid, list[i].pwd, i)]
             ELSE list
  /\ at'  = [at EXCEPT ![t] = 0]
  /\ val' = [val EXCEPT ![t] = None]
  /\ UNCHANGED cuts

PutSSID(t) ==
  /\ pc[t] = "ssid"
  /\ connectSSID' = [connectSSID EXCEPT ![at[t]] = val[t]]
  /\ ToPass(t)
  /\ UNCHANGED <<connectPass, sync, faults>>

PutPass(t) ==
  /\ pc[t] = "pass"
  /\ connectPass' = [connectPass EXCEPT ![at[t]] = val[t]]
  /\ \/ ToNextSlot(t) /\ sync' = sync
     \/ Finish(t, sync # "mixed") /\ sync' = IF sync = "resync" THEN "calm" ELSE sync
  /\ UNCHANGED <<connectSSID, faults>>

(* putString fails (Flash full, write error): saveWifi ignores its result.  *)
PutFails(t) ==
  /\ faults < MaxFaults
  /\ faults' = faults + 1
  /\ \/ pc[t] = "ssid" /\ ToPass(t)
     \/ pc[t] = "pass" /\ (ToNextSlot(t) \/ Finish(t, FALSE))
  /\ sync' = "mixed"
  /\ UNCHANGED flash

(***************************************************************************)
(* The callers of saveWifi.                                                *)
(***************************************************************************)

SketchSave(t) ==
  /\ ~Saving(t)
  /\ StartSave(t, list)
  /\ UNCHANGED <<deleteFlg, resetFlg>>

(* /set_wifi with a non-empty SSID (an empty one changes nothing).          *)
SetWifi ==
  /\ ~Saving(Web)
  /\ \E n \in Networks : StartSave(Web, addWifi(list, n, n))
  /\ deleteFlg' = TRUE
  /\ UNCHANGED resetFlg

(* /delete_wifi.  The page names the checkbox of slot i "i" and a form      *)
(* sends the boxes that are checked, so the request has one argument of     *)
(* value 1 per checked box; the handler reads arg(i), the i-th argument.    *)
(* The page may be older than the list: any set of boxes can arrive.        *)
DeleteWifi(checked) ==
  LET arg     == 0 .. Cardinality(checked) - 1
      deleted == {i \in Slot : i \in arg}
  IN  /\ ~Saving(Web)
      /\ StartSave(Web, [i \in Slot |-> IF i \in deleted THEN NoEntry ELSE list[i]])
      /\ deleteFlg' = (deleted \cap Used(list) # {})
      /\ UNCHANGED resetFlg

(***************************************************************************)
(* Restart: Nefry.reset() from the web task once resetTimer was called (it  *)
(* may interrupt a save of the sketch), or the power fails.  Nefry_WiFi     *)
(* begin() then reloads the list with dataCache.                            *)
(***************************************************************************)
Boot ==
  /\ list' = [i \in Slot |-> Stored(connectSSID[i], connectPass[i], i)]
  /\ pc' = [t \in Tasks |-> "idle"]
  /\ at' = [t \in Tasks |-> 0]
  /\ val' = [t \in Tasks |-> None]
  /\ deleteFlg' = FALSE
  /\ resetFlg' = FALSE
  /\ sync' = "calm"
  /\ IF \E t \in Tasks : Saving(t)
     THEN cuts < MaxCuts /\ cuts' = cuts + 1
     ELSE cuts' = cuts
  /\ UNCHANGED <<flash, faults>>

Reset   == resetFlg /\ ~Saving(Web) /\ Boot
PowerCut == Boot

Next ==
  \/ \E t \in Tasks \ {Web} : SketchAdd(t) \/ SketchDelete(t) \/ SketchSave(t)
  \/ \E t \in Tasks : PutSSID(t) \/ PutPass(t) \/ PutFails(t)
  \/ Web \in Tasks /\ (SetWifi \/ \E c \in SUBSET Slot : DeleteWifi(c))
  \/ Web \in Tasks /\ Reset
  \/ PowerCut

Spec == Init /\ [][Next]_vars

(***************************************************************************)
(* Properties.                                                             *)
(***************************************************************************)

InFlash(e, i) == connectSSID[i] = e.ssid /\ connectPass[i] = e.pwd

(* A network that was in Flash at boot or at the last save and is still in  *)
(* the list can be read back, SSID with its own password, from some slot of *)
(* Flash at every moment of the saves that move it (saveWifi after sortWifi *)
(* and addWifi), so no restart loses it, as long as no edit of the list     *)
(* overlapped a save.                                                      *)
NoSurvivorLost ==
  sync = "calm" =>
    \A i \in Slot : list[i].origin < N => \E j \in Slot : InFlash(list[i], j)

(* What a save has written so far is the list as it is now, whatever other  *)
(* saves run beside it, while no edit overlaps them (saveWifi reads the     *)
(* list between two writes).                                               *)
WrittenIsListed ==
  \A t \in Tasks : Saving(t) /\ sync # "mixed" =>
    /\ \A i \in Slot : i < at[t] => InFlash(list[i], i)
    /\ pc[t] = "pass" => connectSSID[at[t]] = list[at[t]].ssid

(* The inductive invariant behind both: the pending string is the listed    *)
(* one, an entry is never in a later slot than the Flash slot it came from, *)
(* and between saves that Flash slot still holds it.                        *)
PendingIsListed ==
  \A t \in Tasks : Saving(t) /\ sync # "mixed" =>
    val[t] = IF pc[t] = "ssid" THEN list[at[t]].ssid ELSE list[at[t]].pwd

OriginAhead == \A i \in Slot : list[i].origin >= i

OriginInFlash ==
  sync = "calm" =>
    \A i \in Slot : list[i].origin < N =>
      \/ InFlash(list[i], list[i].origin)
      \/ InFlash(list[i], i) /\ \E t \in Tasks : Saving(t)

IInv ==
  TypeOK /\ WrittenIsListed /\ PendingIsListed /\ OriginAhead /\ OriginInFlash

(* A saveWifi that no edit, failed write or torn save overlaps ends with    *)
(* Flash equal to the list, also after an earlier save went wrong.          *)
SavedAsListed ==
  [][\A t \in Tasks : (Saving(t) /\ pc'[t] = "idle" /\ sync' = "calm" /\ cuts' = cuts)
        => \A i \in Slot : connectSSID'[i] = list[i].ssid /\ connectPass'[i] = list[i].pwd]_vars

(* Every restart in a save and every failed write leaves at most one SSID   *)
(* with a password that is not its own in Flash, and later saves only move  *)
(* those pairs: saveWifi writes the two keys of a slot one right after the  *)
(* other.  (With one task: an edit beside a save can tear a pair, too.)     *)
TornPairs(ssids, pwds) ==
  {<<ssids[i], pwds[i]>> : i \in {j \in Slot : ssids[j] \notin {None, pwds[j]}}}

Torn == TornPairs(connectSSID, connectPass)

TornBounded ==
  Cardinality(Torn) <= cuts + faults + Cardinality({t \in Tasks : Saving(t)})

(* Why, with one task: the pair a save is in the middle of will be listed    *)
(* when its password is written, unless the write of its SSID failed; so    *)
(* the torn pairs of the list and of Flash as it will be are one for each   *)
(* restart in a save and each failed write.                                 *)
PendingAlways ==
  \A t \in Tasks : Saving(t) =>
    val[t] = IF pc[t] = "ssid" THEN list[at[t]].ssid ELSE list[at[t]].pwd

Awaited ==
  [i \in Slot |-> IF \E t \in Tasks : pc[t] = "pass" /\ at[t] = i
                  THEN list[i].pwd ELSE connectPass[i]]

TornListed(l) == TornPairs([i \in Slot |-> l[i].ssid], [i \in Slot |-> l[i].pwd])
TornAwaited   == TornListed(list) \cup TornPairs(connectSSID, Awaited)

TornIInv == PendingAlways /\ Cardinality(TornAwaited) <= cuts + faults

(* /delete_wifi removes only networks whose box was checked: the page says  *)
(* "Delete WiFi Select" over one box per slot (NefryWiFi.cpp:152-157).      *)
DeletesOnlyChecked ==
  [][\A checked \in SUBSET Used(list) : DeleteWifi(checked) =>
       \A i \in Used(list) \ checked :
         \E j \in Slot : list'[j].ssid = list[i].ssid /\ list'[j].pwd = list[i].pwd]_vars

(***************************************************************************)
(* What the list promises: the networks of the used slots, in slot order,   *)
(* are the abstract list.                                                  *)
(***************************************************************************)
Before(S, i) == Cardinality({j \in S : j < i})

Listed(ssids, pwds) ==
  LET used == {i \in Slot : ssids[i] # None}
      slot(k) == CHOOSE i \in used : Before(used, i) = k - 1
  IN  [k \in 1 .. Cardinality(used) |-> <<ssids[slot(k)], pwds[slot(k)]>>]

ListOf(l) == Listed([i \in Slot |-> l[i].ssid], [i \in Slot |-> l[i].pwd])

Abstract == INSTANCE NetworkList WITH
  Cap    <- N,
  New    <- {<<n, n>> : n \in Networks},
  nets   <- ListOf(list),
  stored <- Listed(connectSSID, connectPass)

(* addWifi, deleteWifi and sortWifi, with every save, restart and request   *)
(* that calls them, keep a first-in first-out list of at most N networks: a *)
(* sort or a save never drops, duplicates or reorders one.                  *)
KeepsNetworkList == Abstract!Spec

=============================================================================
