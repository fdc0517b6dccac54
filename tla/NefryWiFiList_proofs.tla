------------------------ MODULE NefryWiFiList_proofs ------------------------
(***************************************************************************)
(* Proofs about NefryWiFiList, for any number of slots, networks and tasks. *)
(***************************************************************************)
EXTENDS NefryWiFiList, FiniteSetTheorems, SequenceTheorems, TLAPS

Lists == [Slot -> Entry]

(* l2 is made from l1 by moving entries towards slot 0, dropping some and   *)
(* adding ones that are not in Flash.                                      *)
Shifted(l2, l1) ==
  \A i \in Slot : \/ l2[i].origin = N
                  \/ \E j \in Slot : j >= i /\ l2[i] = l1[j]

(***************************************************************************)
(* The operators on the list.                                              *)
(***************************************************************************)

(* sortWifi only moves an entry down: slot j has at most j used slots       *)
(* before it.                                                              *)
LEMMA SourceAhead ==
  ASSUME NEW l, NEW i \in Slot, NEW j \in Sources(l, i)
  PROVE  j \in Slot /\ j >= i
<1> DEFINE before == {k \in Used(l) : k < j}
<1>1. j \in Slot /\ j \in Nat /\ Cardinality(before) = i
  BY NAssumption DEF Sources, Used, Slot
<1>2. before \in SUBSET (0 .. j - 1)
  BY <1>1, NAssumption DEF Used, Slot
<1>3. IsFiniteSet(0 .. j - 1) /\ Cardinality(0 .. j - 1) = j
  <2>1. 0 \in Int /\ j - 1 \in Int
    BY <1>1
  <2>2. IsFiniteSet(0 .. j - 1) /\ Cardinality(0 .. j - 1) = IF 0 > j - 1 THEN 0 ELSE j - 1 - 0 + 1
    BY <2>1, FS_Interval
  <2> QED BY <1>1, <2>2
<1>4. Cardinality(before) <= j
  BY <1>2, <1>3, FS_Subset
<1> QED BY <1>1, <1>4

(* Each slot of a sorted list holds an entry from the same slot or a later  *)
(* one, or nothing.                                                        *)
LEMMA SortShifts ==
  ASSUME NEW l \in Lists
  PROVE  sortWifi(l) \in Lists /\ Shifted(sortWifi(l), l)
<1>1. NoEntry \in Entry /\ NoEntry.origin = N
  BY NAssumption DEF NoEntry, Entry, Strings
<1>2. ASSUME NEW i \in Slot
      PROVE  \/ sortWifi(l)[i] = NoEntry
             \/ \E j \in Slot : j >= i /\ sortWifi(l)[i] = l[j]
  <2>1. CASE Sources(l, i) # {}
    <3> DEFINE j == CHOOSE k \in Sources(l, i) : TRUE
    <3>1. j \in Sources(l, i)
      BY <2>1
    <3>2. j \in Slot /\ j >= i
      BY <3>1, SourceAhead
    <3>3. sortWifi(l)[i] = l[j]
      BY <2>1 DEF sortWifi
    <3> QED BY <3>2, <3>3
  <2>2. CASE Sources(l, i) = {}
    <3>1. sortWifi(l)[i] = NoEntry \/ sortWifi(l)[i] = l[i]
      BY <2>2 DEF sortWifi
    <3> QED BY <3>1, NAssumption DEF Slot
  <2> QED BY <2>1, <2>2
<1>3. \A i \in Slot : sortWifi(l)[i] \in Entry
  BY <1>1, <1>2 DEF Lists
<1>4. sortWifi(l) \in Lists
  <2>1. sortWifi(l) = [i \in Slot |-> sortWifi(l)[i]]
    BY DEF sortWifi
  <2> QED BY <1>3, <2>1 DEF Lists
<1>5. Shifted(sortWifi(l), l)
  BY <1>1, <1>2 DEF Shifted
<1> QED BY <1>4, <1>5

LEMMA ShiftedTransitive ==
  ASSUME NEW l1 \in Lists, NEW l2 \in Lists, NEW l3 \in Lists,
         Shifted(l3, l2), Shifted(l2, l1)
  PROVE  Shifted(l3, l1)
<1> SUFFICES ASSUME NEW i \in Slot, l3[i].origin # N
             PROVE  \E k \in Slot : k >= i /\ l3[i] = l1[k]
  BY DEF Shifted
<1>1. PICK j \in Slot : j >= i /\ l3[i] = l2[j]
  BY DEF Shifted
<1>2. PICK k \in Slot : k >= j /\ l2[j] = l1[k]
  BY <1>1 DEF Shifted
<1> QED BY <1>1, <1>2, NAssumption DEF Slot

(* Clearing slots, the loop of /delete_wifi.                               *)
LEMMA ClearShifts ==
  ASSUME NEW l \in Lists, NEW S
  PROVE  LET c == [i \in Slot |-> IF i \in S THEN NoEntry ELSE l[i]]
         IN  c \in Lists /\ Shifted(c, l)
BY NAssumption DEF Lists, Shifted, NoEntry, Entry, Strings, Slot

LEMMA DeleteShifts ==
  ASSUME NEW l \in Lists, NEW i \in Int
  PROVE  deleteWifi(l, i) \in Lists /\ Shifted(deleteWifi(l, i), l)
BY NAssumption DEF deleteWifi, Lists, Shifted, NoEntry, Entry, Strings, Slot

(* Putting an entry that is not in Flash into a slot.                      *)
LEMMA PlaceShifts ==
  ASSUME NEW l \in Lists, NEW s \in Strings, NEW p \in Strings, NEW k
  PROVE  LET c == [l EXCEPT ![k] = [ssid |-> s, pwd |-> p, origin |-> N]]
         IN  c \in Lists /\ Shifted(c, l)
<1> DEFINE new == [ssid |-> s, pwd |-> p, origin |-> N]
           c   == [l EXCEPT ![k] = new]
<1>1. new \in Entry /\ new.origin = N
  BY NAssumption DEF Entry
<1>2. c \in Lists /\ \A i \in Slot : c[i] = new \/ c[i] = l[i]
  BY <1>1 DEF Lists
<1>3. Shifted(c, l)
  BY <1>1, <1>2, NAssumption DEF Shifted, Slot
<1> QED BY <1>2, <1>3

LEMMA AddShifts ==
  ASSUME NEW l \in Lists, NEW s \in Strings, NEW p \in Strings
  PROVE  addWifi(l, s, p) \in Lists /\ Shifted(addWifi(l, s, p), l)
<1> DEFINE sorted == sortWifi(l)
           rest   == sortWifi(deleteWifi(sorted, 0))
           new    == [ssid |-> s, pwd |-> p, origin |-> N]
           added(m, k) == [m EXCEPT ![k] = new]
<1>1. sorted \in Lists /\ Shifted(sorted, l)
  BY SortShifts
<1>2. deleteWifi(sorted, 0) \in Lists /\ Shifted(deleteWifi(sorted, 0), sorted)
  BY <1>1, DeleteShifts
<1>3. rest \in Lists /\ Shifted(rest, deleteWifi(sorted, 0))
  BY <1>2, SortShifts
<1>4. Shifted(rest, l)
  <2>1. Shifted(rest, sorted)
    BY <1>1, <1>2, <1>3, ShiftedTransitive
  <2> QED BY <1>1, <1>3, <2>1, ShiftedTransitive
<1>5. ASSUME NEW m \in Lists, Shifted(m, l), NEW k
      PROVE  added(m, k) \in Lists /\ Shifted(added(m, k), l)
  BY <1>5, PlaceShifts, ShiftedTransitive
<1>6. \E k : addWifi(l, s, p) = added(sorted, k) \/ addWifi(l, s, p) = added(rest, k)
  BY DEF addWifi
<1> QED BY <1>1, <1>3, <1>4, <1>5, <1>6

(***************************************************************************)
(* Type correctness.                                                       *)
(***************************************************************************)

(* What StartSave leaves of the state, whatever list it starts from.        *)
LEMMA StartSaveType ==
  ASSUME TypeOK, NEW t \in Tasks, NEW l \in Lists, StartSave(t, l)
  PROVE  /\ list' \in Lists /\ Shifted(list', l)
         /\ pc' \in [Tasks -> {"idle", "ssid", "pass"}]
         /\ at' \in [Tasks -> Slot]
         /\ val' \in [Tasks -> Strings]
         /\ sync' \in {"calm", "mixed", "resync"}
         /\ UNCHANGED <<flash, cuts, faults>>
<1>1. list' \in Lists /\ Shifted(list', l)
  BY SortShifts DEF StartSave
<1>2. list'[0] \in Entry /\ 0 \in Slot
  BY <1>1, NAssumption DEF Lists, Slot
<1> QED BY <1>1, <1>2 DEF StartSave, TypeOK, Entry

LEMMA ListType == TypeOK => list \in Lists
BY DEF TypeOK, Lists

(* The lists the callers of saveWifi hand to it.                           *)
LEMMA CallerLists ==
  ASSUME TypeOK
  PROVE  /\ \A n \in Networks : addWifi(list, n, n) \in Lists /\ Shifted(addWifi(list, n, n), list)
         /\ Shifted(list, list)
<1>1. \A n \in Networks : n \in Strings
  BY DEF Strings
<1>2. Shifted(list, list)
  BY NAssumption DEF Shifted, Slot
<1> QED BY <1>1, <1>2, ListType, AddShifts

(* Every step that is not a write or a restart edits the list towards slot  *)
(* 0, and either leaves the saves alone or starts one.                      *)
LEMMA EditSteps ==
  ASSUME TypeOK,
         \/ \E t \in Tasks \ {Web} : SketchAdd(t) \/ SketchDelete(t) \/ SketchSave(t)
         \/ Web \in Tasks /\ (SetWifi \/ \E c \in SUBSET Slot : DeleteWifi(c))
  PROVE  \E t \in Tasks :
           /\ ~Saving(t)
           /\ \/ /\ list' \in Lists /\ Shifted(list', list)
                 /\ sync' = SyncAfterEdit(t, list')
                 /\ UNCHANGED <<flash, saves, resetFlg, cuts, faults>>
              \/ /\ \E l \in Lists : Shifted(l, list) /\ StartSave(t, l)
                 /\ deleteFlg' \in BOOLEAN
                 /\ UNCHANGED resetFlg
<1> USE ListType
<1>1. ASSUME NEW t \in Tasks \ {Web}, SketchAdd(t)
      PROVE  ~Saving(t) /\ list' \in Lists /\ Shifted(list', list)
  BY <1>1, AddShifts DEF SketchAdd
<1>2. ASSUME NEW t \in Tasks \ {Web}, SketchDelete(t)
      PROVE  ~Saving(t) /\ list' \in Lists /\ Shifted(list', list)
  <2>1. PICK id \in -1 .. N : list' = deleteWifi(list, id)
    BY <1>2 DEF SketchDelete
  <2>2. id \in Int
    BY NAssumption
  <2> QED BY <1>2, <2>1, <2>2, DeleteShifts DEF SketchDelete
<1>3. ASSUME NEW t \in Tasks \ {Web}, SketchSave(t)
      PROVE  ~Saving(t) /\ (\E l \in Lists : Shifted(l, list) /\ StartSave(t, l))
             /\ deleteFlg' \in BOOLEAN /\ UNCHANGED resetFlg
  BY <1>3, CallerLists DEF SketchSave, TypeOK
<1>4. ASSUME Web \in Tasks, SetWifi
      PROVE  ~Saving(Web) /\ (\E l \in Lists : Shifted(l, list) /\ StartSave(Web, l))
             /\ deleteFlg' \in BOOLEAN /\ UNCHANGED resetFlg
  BY <1>4, CallerLists DEF SetWifi
<1>5. ASSUME Web \in Tasks, NEW c \in SUBSET Slot, DeleteWifi(c)
      PROVE  ~Saving(Web) /\ (\E l \in Lists : Shifted(l, list) /\ StartSave(Web, l))
             /\ deleteFlg' \in BOOLEAN /\ UNCHANGED resetFlg
  <2> DEFINE deleted == {i \in Slot : i \in 0 .. Cardinality(c) - 1}
             l == [i \in Slot |-> IF i \in deleted THEN NoEntry ELSE list[i]]
  <2>1. l \in Lists /\ Shifted(l, list)
    BY ClearShifts
  <2>2. ~Saving(Web) /\ StartSave(Web, l) /\ deleteFlg' \in BOOLEAN /\ UNCHANGED resetFlg
    BY <1>5 DEF DeleteWifi
  <2> QED BY <2>1, <2>2
<1> QED
  BY <1>1, <1>2, <1>3, <1>4, <1>5 DEF SketchAdd, SketchDelete

LEMMA StoredType ==
  ASSUME NEW s \in Strings, NEW p \in Strings, NEW i \in Slot
  PROVE  Stored(s, p, i) \in Entry
BY NAssumption DEF Stored, Entry, Slot

LEMMA Zeros == 0 \in Slot /\ None \in Strings /\ NoEntry \in Entry
BY NAssumption DEF NoEntry, Entry, Strings, Slot

LEMMA TypeInit == Init => TypeOK
<1> SUFFICES ASSUME Init PROVE TypeOK
  OBVIOUS
<1>1. cuts \in 0 .. MaxCuts /\ faults \in 0 .. MaxFaults
  BY BoundAssumption DEF Init
<1> QED BY <1>1, Zeros DEF Init, TypeOK

LEMMA TypeNext == TypeOK /\ [Next]_vars => TypeOK'
<1> SUFFICES ASSUME TypeOK, [Next]_vars PROVE TypeOK'
  OBVIOUS
<1>1. ASSUME \/ \E t \in Tasks \ {Web} : SketchAdd(t) \/ SketchDelete(t) \/ SketchSave(t)
             \/ Web \in Tasks /\ (SetWifi \/ \E c \in SUBSET Slot : DeleteWifi(c))
      PROVE  TypeOK'
  <2>1. PICK t \in Tasks :
           \/ /\ list' \in Lists
              /\ sync' = SyncAfterEdit(t, list')
              /\ UNCHANGED <<flash, saves, resetFlg, cuts, faults>>
           \/ /\ \E l \in Lists : StartSave(t, l)
              /\ deleteFlg' \in BOOLEAN
              /\ UNCHANGED resetFlg
    BY <1>1, EditSteps
  <2>2. CASE /\ list' \in Lists
             /\ sync' = SyncAfterEdit(t, list')
             /\ UNCHANGED <<flash, saves, resetFlg, cuts, faults>>
    BY <2>2 DEF TypeOK, Lists, SyncAfterEdit, flash, saves
  <2>3. CASE /\ \E l \in Lists : StartSave(t, l)
             /\ deleteFlg' \in BOOLEAN
             /\ UNCHANGED resetFlg
    BY <2>3, StartSaveType DEF TypeOK, Lists, flash
  <2> QED BY <2>1, <2>2, <2>3
<1>2. ASSUME NEW t \in Tasks, ToPass(t)
      PROVE  /\ list' \in [Slot -> Entry] /\ at' \in [Tasks -> Slot]
             /\ pc' \in [Tasks -> {"idle", "ssid", "pass"}]
             /\ val' \in [Tasks -> Strings] /\ deleteFlg' \in BOOLEAN
             /\ resetFlg' \in BOOLEAN /\ cuts' \in 0 .. MaxCuts
  BY <1>2 DEF ToPass, TypeOK, Entry
<1>3. ASSUME NEW t \in Tasks, ToNextSlot(t)
      PROVE  /\ list' \in [Slot -> Entry] /\ at' \in [Tasks -> Slot]
             /\ pc' \in [Tasks -> {"idle", "ssid", "pass"}]
             /\ val' \in [Tasks -> Strings] /\ deleteFlg' \in BOOLEAN
             /\ resetFlg' \in BOOLEAN /\ cuts' \in 0 .. MaxCuts
  <2>1. at[t] + 1 \in Slot
    BY <1>3, NAssumption DEF ToNextSlot, TypeOK, Slot
  <2> QED BY <1>3, <2>1 DEF ToNextSlot, TypeOK, Entry
<1>4. ASSUME NEW t \in Tasks, NEW clean \in BOOLEAN, Finish(t, clean)
      PROVE  /\ list' \in [Slot -> Entry] /\ at' \in [Tasks -> Slot]
             /\ pc' \in [Tasks -> {"idle", "ssid", "pass"}]
             /\ val' \in [Tasks -> Strings] /\ deleteFlg' \in BOOLEAN
             /\ resetFlg' \in BOOLEAN /\ cuts' \in 0 .. MaxCuts
  <2>1. list' \in [Slot -> Entry]
    <3>1. \A i \in Slot : list[i].ssid \in Strings /\ list[i].pwd \in Strings
      BY DEF TypeOK, Entry
    <3>2. \A i \in Slot : Stored(list[i].ssid, list[i].pwd, i) \in Entry
      BY <3>1, StoredType
    <3> QED BY <1>4, <3>2 DEF Finish, TypeOK
  <2>2. 0 \in Slot /\ None \in Strings
    BY Zeros
  <2>3. (deleteFlg /\ t # Web) \in BOOLEAN /\ (resetFlg \/ (t = Web /\ deleteFlg)) \in BOOLEAN
    BY DEF TypeOK
  <2>4. deleteFlg' \in BOOLEAN /\ resetFlg' \in BOOLEAN
    BY <1>4, <2>3 DEF Finish
  <2> QED BY <1>4, <2>1, <2>2, <2>4 DEF Finish, TypeOK
<1>5. ASSUME NEW t \in Tasks, PutSSID(t) \/ PutPass(t) \/ PutFails(t)
      PROVE  TypeOK'
  <2>1. CASE PutSSID(t)
    BY <2>1, <1>2 DEF PutSSID, TypeOK
  <2>2. CASE PutPass(t)
    <3>1. (sync # "mixed") \in BOOLEAN
      OBVIOUS
    <3>2. ToNextSlot(t) \/ Finish(t, sync # "mixed")
      BY <2>2 DEF PutPass
    <3>3. /\ list' \in [Slot -> Entry] /\ at' \in [Tasks -> Slot]
          /\ pc' \in [Tasks -> {"idle", "ssid", "pass"}]
          /\ val' \in [Tasks -> Strings] /\ deleteFlg' \in BOOLEAN
          /\ resetFlg' \in BOOLEAN /\ cuts' \in 0 .. MaxCuts
      BY <3>1, <3>2, <1>3, <1>4
    <3> QED BY <2>2, <3>3 DEF PutPass, TypeOK
  <2>3. CASE PutFails(t)
    <3>1. ToPass(t) \/ ToNextSlot(t) \/ Finish(t, FALSE)
      BY <2>3 DEF PutFails
    <3>2. /\ list' \in [Slot -> Entry] /\ at' \in [Tasks -> Slot]
          /\ pc' \in [Tasks -> {"idle", "ssid", "pass"}]
          /\ val' \in [Tasks -> Strings] /\ deleteFlg' \in BOOLEAN
          /\ resetFlg' \in BOOLEAN /\ cuts' \in 0 .. MaxCuts
      BY <3>1, <1>2, <1>3, <1>4
    <3>3. faults' \in 0 .. MaxFaults
      BY <2>3, BoundAssumption DEF PutFails, TypeOK
    <3> QED BY <2>3, <3>2, <3>3 DEF PutFails, TypeOK, flash
  <2> QED BY <1>5, <2>1, <2>2, <2>3
<1>6. ASSUME Boot
      PROVE  TypeOK'
  <2>1. cuts' \in 0 .. MaxCuts
    BY <1>6, BoundAssumption DEF Boot, TypeOK
  <2>2. list' \in [Slot -> Entry]
    BY <1>6, StoredType DEF Boot, TypeOK
  <2>3. /\ pc' \in [Tasks -> {"idle", "ssid", "pass"}]
        /\ at' \in [Tasks -> Slot] /\ val' \in [Tasks -> Strings]
    BY <1>6, Zeros DEF Boot
  <2>4. /\ deleteFlg' \in BOOLEAN /\ resetFlg' \in BOOLEAN
        /\ sync' \in {"calm", "mixed", "resync"}
        /\ UNCHANGED <<connectSSID, connectPass, faults>>
    BY <1>6 DEF Boot, flash
  <2> QED BY <2>1, <2>2, <2>3, <2>4 DEF TypeOK
<1>7. CASE UNCHANGED vars
  BY <1>7 DEF vars, flash, saves, TypeOK
<1> QED
  BY <1>1, <1>5, <1>6, <1>7 DEF Next, Reset, PowerCut

(* Memory, Flash and the progress of every save have their types.           *)
THEOREM TypeCorrect == Spec => []TypeOK
BY TypeInit, TypeNext, PTL DEF Spec

(***************************************************************************)
(* The inductive invariant.                                                *)
(***************************************************************************)

LEMMA InvInit == Init => IInv
<1> SUFFICES ASSUME Init PROVE IInv
  OBVIOUS
<1>1. OriginAhead
  BY NAssumption DEF Init, OriginAhead, NoEntry, Slot
<1>2. OriginInFlash
  BY NAssumption DEF Init, OriginInFlash, NoEntry, Slot
<1>3. WrittenIsListed /\ PendingIsListed
  BY DEF Init, WrittenIsListed, PendingIsListed, Saving
<1> QED BY <1>1, <1>2, <1>3, TypeInit DEF IInv

(* An entry that moved towards slot 0 keeps its distance to the Flash slot  *)
(* it came from.                                                           *)
LEMMA ShiftKeepsOriginAhead ==
  ASSUME TypeOK, OriginAhead, list' \in Lists, Shifted(list', list)
  PROVE  OriginAhead'
<1> SUFFICES ASSUME NEW i \in Slot PROVE list'[i].origin >= i
  BY DEF OriginAhead
<1>1. CASE list'[i].origin = N
  BY <1>1, NAssumption DEF Slot
<1>2. CASE \E j \in Slot : j >= i /\ list'[i] = list[j]
  <2>1. PICK j \in Slot : j >= i /\ list'[i] = list[j]
    BY <1>2
  <2>2. list[j].origin \in Int /\ list[j].origin >= j
    BY DEF OriginAhead, TypeOK, Entry
  <2> QED BY <2>1, <2>2, NAssumption DEF Slot
<1> QED BY <1>1, <1>2 DEF Shifted

(* With no save running, an edit leaves every entry findable at its origin. *)
LEMMA ShiftKeepsOriginInFlash ==
  ASSUME TypeOK, OriginInFlash, list' \in Lists, Shifted(list', list),
         sync = "calm", \A t \in Tasks : ~Saving(t), UNCHANGED flash,
         NEW i \in Slot, list'[i].origin < N
  PROVE  InFlash(list[i], list[i].origin)'
<1>1. list'[i].origin # N
  BY NAssumption DEF Lists, Entry
<1>2. PICK j \in Slot : list'[i] = list[j]
  BY <1>1 DEF Shifted
<1>3. InFlash(list[j], list[j].origin)
  BY <1>2 DEF OriginInFlash
<1> QED BY <1>2, <1>3 DEF InFlash, flash

LEMMA EditKeepsInv ==
  ASSUME IInv, NEW t \in Tasks, ~Saving(t), list' \in Lists, Shifted(list', list),
         sync' = SyncAfterEdit(t, list'), UNCHANGED <<flash, saves>>
  PROVE  (WrittenIsListed /\ PendingIsListed /\ OriginAhead /\ OriginInFlash)'
<1> USE DEF IInv
<1>1. OriginAhead'
  BY ShiftKeepsOriginAhead
<1>2. sync' = "mixed" \/ (sync' = sync /\ (OtherSaves(t) => list' = list))
  BY DEF SyncAfterEdit
<1>3. ASSUME NEW u \in Tasks, Saving(u)', sync' # "mixed"
      PROVE  sync' = sync /\ list' = list /\ Saving(u)
  BY <1>2, <1>3 DEF Saving, saves, OtherSaves
<1>4. WrittenIsListed' /\ PendingIsListed'
  BY <1>3 DEF WrittenIsListed, PendingIsListed, InFlash, flash, saves
<1>5. OriginInFlash'
  <2> SUFFICES ASSUME sync' = "calm", NEW i \in Slot, list'[i].origin < N
               PROVE  \/ InFlash(list[i], list[i].origin)'
                      \/ InFlash(list[i], i)' /\ \E u \in Tasks : Saving(u)'
    BY DEF OriginInFlash
  <2>1. sync = "calm"
    BY <1>2
  <2>2. CASE OtherSaves(t)
    BY <1>2, <2>1, <2>2 DEF OriginInFlash, InFlash, flash, saves, Saving
  <2>3. CASE ~OtherSaves(t)
    BY <2>1, <2>3, ShiftKeepsOriginInFlash DEF OtherSaves
  <2> QED BY <2>2, <2>3
<1> QED BY <1>1, <1>4, <1>5

LEMMA StartSaveKeepsInv ==
  ASSUME IInv, NEW t \in Tasks, ~Saving(t), NEW l \in Lists, Shifted(l, list),
         StartSave(t, l)
  PROVE  (WrittenIsListed /\ PendingIsListed /\ OriginAhead /\ OriginInFlash)'
<1> USE DEF IInv
<1>1. list' \in Lists /\ Shifted(list', list)
  BY StartSaveType, ShiftedTransitive, ListType
<1>2. OriginAhead'
  BY <1>1, ShiftKeepsOriginAhead
<1>3. Saving(t)' /\ pc'[t] = "ssid" /\ at'[t] = 0 /\ val'[t] = list'[0].ssid
  BY DEF StartSave, Saving, TypeOK
<1>4. ASSUME NEW u \in Tasks, u # t, Saving(u)', sync' # "mixed"
      PROVE  /\ Saving(u) /\ sync' = sync /\ list' = list
             /\ pc'[u] = pc[u] /\ at'[u] = at[u] /\ val'[u] = val[u]
  BY <1>4 DEF StartSave, Saving, OtherSaves, TypeOK
<1>5. WrittenIsListed'
  <2> SUFFICES ASSUME NEW u \in Tasks, Saving(u)', sync' # "mixed"
               PROVE  /\ \A i \in Slot : i < at'[u] => InFlash(list[i], i)'
                      /\ pc'[u] = "pass" => connectSSID'[at'[u]] = list'[at'[u]].ssid
    BY DEF WrittenIsListed
  <2>1. CASE u = t
    BY <1>3, <2>1, NAssumption DEF Slot
  <2>2. CASE u # t
    BY <1>4, <2>2 DEF WrittenIsListed, InFlash, StartSave, flash
  <2> QED BY <2>1, <2>2
<1>6. PendingIsListed'
  <2> SUFFICES ASSUME NEW u \in Tasks, Saving(u)', sync' # "mixed"
               PROVE  val'[u] = IF pc'[u] = "ssid" THEN list'[at'[u]].ssid ELSE list'[at'[u]].pwd
    BY DEF PendingIsListed
  <2> QED BY <1>3, <1>4 DEF PendingIsListed
<1>7. OriginInFlash'
  <2> SUFFICES ASSUME sync' = "calm", NEW i \in Slot, list'[i].origin < N
               PROVE  \/ InFlash(list[i], list[i].origin)'
                      \/ InFlash(list[i], i)' /\ \E u \in Tasks : Saving(u)'
    BY DEF OriginInFlash
  <2>1. sync = "calm" /\ UNCHANGED flash
    BY DEF StartSave
  <2>2. CASE OtherSaves(t)
    <3>1. list' = list
      BY <2>2 DEF StartSave
    <3> QED BY <1>3, <2>1, <3>1 DEF OriginInFlash, InFlash, flash
  <2>3. CASE ~OtherSaves(t)
    BY <1>1, <2>1, <2>3, ShiftKeepsOriginInFlash DEF OtherSaves
  <2> QED BY <2>2, <2>3
<1> QED BY <1>2, <1>5, <1>6, <1>7

(* setConnectSSID returned: the slot the save has reached may have held the *)
(* last copy of an entry only if that entry was written before.            *)
LEMMA PutSSIDKeepsInv ==
  ASSUME IInv, NEW t \in Tasks, PutSSID(t)
  PROVE  (WrittenIsListed /\ PendingIsListed /\ OriginAhead /\ OriginInFlash)'
<1> USE DEF IInv
<1>1. /\ list' = list /\ sync' = sync /\ connectPass' = connectPass /\ at' = at
      /\ pc' = [pc EXCEPT ![t] = "pass"] /\ pc[t] = "ssid"
      /\ val' = [val EXCEPT ![t] = list[at[t]].pwd]
      /\ connectSSID' = [connectSSID EXCEPT ![at[t]] = val[t]]
  BY DEF PutSSID, ToPass
<1>2. at[t] \in Slot /\ Saving(t) /\ \A u \in Tasks : Saving(u)' <=> Saving(u)
  BY <1>1 DEF TypeOK, Saving
<1>3. OriginAhead'
  BY <1>1 DEF OriginAhead
<1>4. ASSUME sync # "mixed"
      PROVE  /\ val[t] = list[at[t]].ssid
             /\ \A i \in Slot : i < at[t] => InFlash(list[i], i)
             /\ \A i \in Slot : InFlash(list[i], i) => InFlash(list[i], i)'
  <2>1. val[t] = list[at[t]].ssid
    BY <1>1, <1>2, <1>4 DEF PendingIsListed
  <2>2. \A i \in Slot : i < at[t] => InFlash(list[i], i)
    BY <1>2, <1>4 DEF WrittenIsListed
  <2>3. \A i \in Slot : InFlash(list[i], i) => InFlash(list[i], i)'
    BY <1>1, <1>2, <2>1 DEF InFlash, TypeOK
  <2> QED BY <2>1, <2>2, <2>3
<1>5. WrittenIsListed'
  <2> SUFFICES ASSUME NEW u \in Tasks, Saving(u)', sync' # "mixed"
               PROVE  /\ \A i \in Slot : i < at'[u] => InFlash(list[i], i)'
                      /\ pc'[u] = "pass" => connectSSID'[at'[u]] = list'[at'[u]].ssid
    BY DEF WrittenIsListed
  <2>1. \A i \in Slot : i < at'[u] => InFlash(list[i], i)'
    BY <1>1, <1>2, <1>4 DEF WrittenIsListed
  <2>2. pc'[u] = "pass" => connectSSID'[at'[u]] = list'[at'[u]].ssid
    BY <1>1, <1>2, <1>4 DEF WrittenIsListed, TypeOK
  <2> QED BY <2>1, <2>2
<1>6. PendingIsListed'
  BY <1>1, <1>2 DEF PendingIsListed, TypeOK
<1>7. OriginInFlash'
  <2> SUFFICES ASSUME sync' = "calm", NEW i \in Slot, list'[i].origin < N
               PROVE  \/ InFlash(list[i], list[i].origin)'
                      \/ InFlash(list[i], i)' /\ \E u \in Tasks : Saving(u)'
    BY <1>1 DEF OriginInFlash
  <2> DEFINE o == list[i].origin
  <2>1. /\ sync # "mixed" /\ o \in Slot /\ o >= i
        /\ InFlash(list[i], o) \/ InFlash(list[i], i)
    BY <1>1, NAssumption DEF OriginInFlash, OriginAhead, TypeOK, Entry, Slot
  <2>2. CASE InFlash(list[i], i)
    BY <1>1, <1>2, <1>4, <2>1, <2>2 DEF InFlash
  <2>3. CASE InFlash(list[i], o) /\ o # at[t]
    BY <1>1, <2>1, <2>3 DEF InFlash, TypeOK
  <2>4. CASE o = at[t] /\ i < at[t]
    BY <1>1, <1>2, <1>4, <2>1, <2>4 DEF InFlash
  <2>5. CASE InFlash(list[i], o) /\ o = at[t] /\ i = at[t]
    BY <1>1, <1>2, <1>4, <2>1, <2>5 DEF InFlash
  <2> QED BY <2>1, <2>2, <2>3, <2>4, <2>5, NAssumption DEF Slot
<1> QED BY <1>3, <1>5, <1>6, <1>7

(* setConnectPass returned: the slot is complete; if it was the last one,   *)
(* Flash is the list.                                                      *)
LEMMA PutPassKeepsInv ==
  ASSUME IInv, NEW t \in Tasks, PutPass(t)
  PROVE  /\ (WrittenIsListed /\ PendingIsListed /\ OriginAhead /\ OriginInFlash)'
         /\ (pc'[t] = "idle" /\ sync' = "calm") =>
               \A i \in Slot : connectSSID'[i] = list[i].ssid /\ connectPass'[i] = list[i].pwd
<1> USE DEF IInv
<1>1. /\ connectSSID' = connectSSID /\ pc[t] = "pass" /\ Saving(t) /\ at[t] \in Slot
      /\ connectPass' = [connectPass EXCEPT ![at[t]] = val[t]]
      /\ sync' = "mixed" <=> sync = "mixed"
      /\ \A u \in Tasks \ {t} : pc'[u] = pc[u] /\ at'[u] = at[u] /\ val'[u] = val[u]
  BY DEF PutPass, ToNextSlot, Finish, Saving, TypeOK
<1>2. ASSUME sync # "mixed"
      PROVE  /\ connectSSID[at[t]] = list[at[t]].ssid
             /\ \A i \in Slot : i < at[t] => InFlash(list[i], i)
             /\ \A i \in Slot : InFlash(list[i], i) => connectPass'[i] = list[i].pwd
             /\ connectPass'[at[t]] = list[at[t]].pwd
  <2>1. val[t] = list[at[t]].pwd
    BY <1>1, <1>2 DEF PendingIsListed
  <2>2. connectSSID[at[t]] = list[at[t]].ssid /\ \A i \in Slot : i < at[t] => InFlash(list[i], i)
    BY <1>1, <1>2 DEF WrittenIsListed
  <2> QED BY <1>1, <2>1, <2>2 DEF InFlash, TypeOK
<1>3. CASE ToNextSlot(t)
  <2>1. /\ list' = list /\ sync' = sync /\ at'[t] = at[t] + 1 /\ pc'[t] = "ssid"
        /\ val'[t] = list[at[t] + 1].ssid
        /\ \A u \in Tasks : Saving(u)' <=> Saving(u)
    BY <1>1, <1>3 DEF PutPass, ToNextSlot, Finish, TypeOK, Saving
  <2>2. \A i \in Slot : sync # "mixed" /\ InFlash(list[i], i) => InFlash(list[i], i)'
    BY <1>1, <1>2, <2>1 DEF InFlash
  <2>3. OriginAhead'
    BY <2>1 DEF OriginAhead
  <2>4. WrittenIsListed'
    <3> SUFFICES ASSUME NEW u \in Tasks, Saving(u)', sync' # "mixed"
                 PROVE  /\ \A i \in Slot : i < at'[u] => InFlash(list[i], i)'
                        /\ pc'[u] = "pass" => connectSSID'[at'[u]] = list'[at'[u]].ssid
      BY DEF WrittenIsListed
    <3>1. CASE u = t
      <4> SUFFICES ASSUME NEW i \in Slot, i < at[t] + 1 PROVE InFlash(list[i], i)'
        BY <2>1, <3>1
      <4>1. i < at[t] \/ i = at[t]
        BY <1>1, NAssumption DEF Slot
      <4> QED BY <1>1, <1>2, <2>1, <2>2, <4>1 DEF InFlash
    <3>2. CASE u # t
      BY <1>1, <2>1, <2>2, <3>2 DEF WrittenIsListed
    <3> QED BY <3>1, <3>2
  <2>5. PendingIsListed'
    <3> SUFFICES ASSUME NEW u \in Tasks, Saving(u)', sync' # "mixed"
                 PROVE  val'[u] = IF pc'[u] = "ssid" THEN list'[at'[u]].ssid ELSE list'[at'[u]].pwd
      BY DEF PendingIsListed
    <3> QED BY <1>1, <2>1 DEF PendingIsListed
  <2>6. OriginInFlash'
    <3> SUFFICES ASSUME sync' = "calm", NEW i \in Slot, list'[i].origin < N
                 PROVE  \/ InFlash(list[i], list[i].origin)'
                        \/ InFlash(list[i], i)' /\ \E u \in Tasks : Saving(u)'
      BY DEF OriginInFlash
    <3> DEFINE o == list[i].origin
    <3>1. /\ sync # "mixed" /\ o \in Slot /\ o >= i
          /\ InFlash(list[i], o) \/ InFlash(list[i], i)
      <4>1. sync = "calm" /\ o < N /\ o \in 0 .. N
        BY <2>1 DEF TypeOK, Entry
      <4>2. o >= i /\ (InFlash(list[i], o) \/ InFlash(list[i], i))
        BY <4>1 DEF OriginInFlash, OriginAhead
      <4> QED BY <4>1, <4>2, NAssumption DEF Slot
    <3>2. CASE InFlash(list[i], i)
      BY <1>1, <2>1, <2>2, <3>1, <3>2
    <3>3. CASE InFlash(list[i], o) /\ o # at[t]
      BY <1>1, <2>1, <3>1, <3>3 DEF InFlash, TypeOK
    <3>4. CASE o = at[t] /\ i < at[t]
      BY <1>1, <1>2, <2>1, <2>2, <3>1, <3>4
    <3>5. CASE InFlash(list[i], o) /\ o = at[t] /\ i = at[t]
      BY <1>1, <2>1, <2>2, <3>1, <3>5
    <3> QED BY <3>1, <3>2, <3>3, <3>4, <3>5, NAssumption DEF Slot
  <2> QED BY <2>1, <2>3, <2>4, <2>5, <2>6
<1>4. CASE Finish(t, sync # "mixed")
  <2>1. /\ at[t] = N - 1 /\ pc'[t] = "idle" /\ ~Saving(t)'
        /\ \A u \in Tasks : Saving(u)' => Saving(u) /\ u # t
    BY <1>1, <1>4 DEF Finish, TypeOK, Saving
  <2>2. \A i \in Slot : /\ list'[i].ssid = list[i].ssid /\ list'[i].pwd = list[i].pwd
                        /\ sync # "mixed" => list'[i].origin = IF list[i].ssid # None THEN i ELSE N
                        /\ sync = "mixed" => list'[i] = list[i]
    BY <1>4 DEF Finish, Stored
  <2>3. ASSUME sync # "mixed", NEW i \in Slot
        PROVE  connectSSID'[i] = list[i].ssid /\ connectPass'[i] = list[i].pwd
    <3>1. i < at[t] \/ i = at[t]
      BY <2>1, NAssumption DEF Slot
    <3> QED BY <1>1, <1>2, <2>3, <3>1 DEF InFlash
  <2>4. OriginAhead'
    BY <2>2, NAssumption DEF OriginAhead, Slot
  <2>5. WrittenIsListed'
    BY <1>1, <2>1, <2>2, <2>3 DEF WrittenIsListed, InFlash, TypeOK
  <2>6. PendingIsListed'
    BY <1>1, <2>1, <2>2 DEF PendingIsListed, TypeOK
  <2>7. OriginInFlash'
    BY <1>1, <2>2, <2>3, NAssumption DEF OriginInFlash, InFlash, Slot
  <2> QED BY <1>1, <2>3, <2>4, <2>5, <2>6, <2>7
<1> QED BY <1>3, <1>4 DEF PutPass

LEMMA PutFailsKeepsInv ==
  ASSUME IInv, NEW t \in Tasks, PutFails(t)
  PROVE  (WrittenIsListed /\ PendingIsListed /\ OriginAhead /\ OriginInFlash)'
<1>1. sync' = "mixed" /\ list' = list
  BY DEF PutFails, ToPass, ToNextSlot, Finish
<1> QED BY <1>1 DEF IInv, WrittenIsListed, PendingIsListed, OriginAhead, OriginInFlash

LEMMA BootKeepsInv ==
  ASSUME IInv, Boot
  PROVE  (WrittenIsListed /\ PendingIsListed /\ OriginAhead /\ OriginInFlash)'
<1>1. \A t \in Tasks : ~Saving(t)'
  BY DEF Boot, Saving
<1>2. \A i \in Slot : /\ list'[i].ssid = connectSSID[i] /\ list'[i].pwd = connectPass[i]
                      /\ list'[i].origin \in {i, N}
  BY DEF Boot, Stored
<1>3. UNCHANGED <<connectSSID, connectPass>>
  BY DEF Boot, flash
<1>4. OriginAhead' /\ OriginInFlash'
  BY <1>2, <1>3, NAssumption DEF OriginAhead, OriginInFlash, InFlash, Slot
<1> QED BY <1>1, <1>4 DEF WrittenIsListed, PendingIsListed

LEMMA InvNext == IInv /\ [Next]_vars => IInv'
<1> SUFFICES ASSUME IInv, [Next]_vars PROVE IInv'
  OBVIOUS
<1>1. TypeOK /\ TypeOK'
  BY TypeNext DEF IInv
<1>2. ASSUME \/ \E t \in Tasks \ {Web} : SketchAdd(t) \/ SketchDelete(t) \/ SketchSave(t)
             \/ Web \in Tasks /\ (SetWifi \/ \E c \in SUBSET Slot : DeleteWifi(c))
      PROVE  (WrittenIsListed /\ PendingIsListed /\ OriginAhead /\ OriginInFlash)'
  BY <1>1, <1>2, EditSteps, EditKeepsInv, StartSaveKeepsInv
<1>3. ASSUME NEW t \in Tasks, PutSSID(t) \/ PutPass(t) \/ PutFails(t)
      PROVE  (WrittenIsListed /\ PendingIsListed /\ OriginAhead /\ OriginInFlash)'
  BY <1>3, PutSSIDKeepsInv, PutPassKeepsInv, PutFailsKeepsInv
<1>4. ASSUME UNCHANGED vars
      PROVE  (WrittenIsListed /\ PendingIsListed /\ OriginAhead /\ OriginInFlash)'
  BY <1>4 DEF vars, flash, saves, IInv, WrittenIsListed, PendingIsListed,
              OriginAhead, OriginInFlash, InFlash, Saving
<1> QED
  BY <1>1, <1>2, <1>3, <1>4, BootKeepsInv DEF Next, Reset, PowerCut, IInv

THEOREM InductiveInvariant == Spec => []IInv
BY InvInit, InvNext, PTL DEF Spec

(* No network that was in Flash and is still listed can be lost by a cut.   *)
THEOREM NeverLosesSurvivor == Spec => []NoSurvivorLost
<1>1. IInv => NoSurvivorLost
  <2> SUFFICES ASSUME IInv, sync = "calm", NEW i \in Slot, list[i].origin < N
               PROVE  \E j \in Slot : InFlash(list[i], j)
    BY DEF NoSurvivorLost
  <2>1. list[i].origin \in Slot
    BY NAssumption DEF IInv, TypeOK, Entry, OriginAhead, Slot
  <2> QED BY <2>1 DEF IInv, OriginInFlash
<1> QED BY <1>1, InductiveInvariant, PTL

(* What a save has written is the list, whatever save runs beside it.       *)
THEOREM WritesListed == Spec => []WrittenIsListed
<1>1. IInv => WrittenIsListed
  BY DEF IInv
<1> QED BY <1>1, InductiveInvariant, PTL

(* An undisturbed save ends with Flash equal to the list.                   *)
THEOREM SavesList == Spec => SavedAsListed
<1> DEFINE Done(t) == Saving(t) /\ pc'[t] = "idle" /\ sync' = "calm" /\ cuts' = cuts
           Equal   == \A i \in Slot : connectSSID'[i] = list[i].ssid /\ connectPass'[i] = list[i].pwd
<1>1. IInv /\ [Next]_vars => [\A t \in Tasks : Done(t) => Equal]_vars
  <2> SUFFICES ASSUME IInv, Next, NEW t \in Tasks, Done(t) PROVE Equal
    OBVIOUS
  <2>1. TypeOK
    BY DEF IInv
  <2>2. ASSUME NEW u \in Tasks, PutSSID(u) \/ PutPass(u) \/ PutFails(u)
        PROVE  Equal
    <3>1. PutPass(u) /\ u = t
      BY <2>1, <2>2 DEF PutSSID, PutPass, PutFails, ToPass, ToNextSlot, Finish, TypeOK, Saving
    <3> QED BY <3>1, PutPassKeepsInv
  <2>3. ~(\/ \E u \in Tasks \ {Web} : SketchAdd(u) \/ SketchDelete(u) \/ SketchSave(u)
          \/ Web \in Tasks /\ (SetWifi \/ \E c \in SUBSET Slot : DeleteWifi(c)))
    BY <2>1, EditSteps DEF StartSave, TypeOK, Saving, saves
  <2>4. ~Boot
    BY <2>1 DEF Boot, TypeOK
  <2> QED BY <2>2, <2>3, <2>4 DEF Next, Reset, PowerCut
<1> QED BY <1>1, InductiveInvariant, PTL DEF Spec, SavedAsListed

(***************************************************************************)
(* Pairs of an SSID with a password that is not its own.                    *)
(***************************************************************************)

(* Each entry of l2 belongs together or was in l1.                          *)
Derived(l2, l1) ==
  \A i \in Slot : \/ l2[i].ssid \in {None, l2[i].pwd}
                  \/ \E j \in Slot : l2[i].ssid = l1[j].ssid /\ l2[i].pwd = l1[j].pwd

LEMMA DerivedTransitive ==
  ASSUME NEW l1, NEW l2, NEW l3, Derived(l3, l2), Derived(l2, l1)
  PROVE  Derived(l3, l1)
BY DEF Derived

(* Sorting, deleting and adding make no pair that does not belong together. *)
LEMMA SortDerives == ASSUME NEW l PROVE Derived(sortWifi(l), l)
<1> SUFFICES ASSUME NEW i \in Slot
             PROVE  sortWifi(l)[i].ssid = None \/ \E j \in Slot : sortWifi(l)[i] = l[j]
  BY DEF Derived
<1>1. CASE Sources(l, i) # {}
  <2>1. (CHOOSE j \in Sources(l, i) : TRUE) \in Slot
    BY <1>1, SourceAhead
  <2> QED BY <1>1, <2>1 DEF sortWifi
<1>2. CASE Sources(l, i) = {}
  <2>1. sortWifi(l)[i] = NoEntry \/ sortWifi(l)[i] = l[i]
    BY <1>2 DEF sortWifi
  <2> QED BY <2>1 DEF NoEntry
<1> QED BY <1>1, <1>2

LEMMA ClearDerives ==
  ASSUME NEW l, NEW S
  PROVE  Derived([i \in Slot |-> IF i \in S THEN NoEntry ELSE l[i]], l)
BY DEF Derived, NoEntry

LEMMA DeleteDerives == ASSUME NEW l \in Lists, NEW i PROVE Derived(deleteWifi(l, i), l)
BY DEF Derived, deleteWifi, NoEntry, Lists

LEMMA AddDerives ==
  ASSUME NEW l \in Lists, NEW s \in Strings, NEW p \in Strings, s = p \/ s = None
  PROVE  Derived(addWifi(l, s, p), l)
<1> DEFINE sorted == sortWifi(l)
           rest   == sortWifi(deleteWifi(sorted, 0))
           new    == [ssid |-> s, pwd |-> p, origin |-> N]
           added(m, k) == [m EXCEPT ![k] = new]
<1>1. sorted \in Lists /\ Derived(sorted, l)
  BY SortShifts, SortDerives
<1>2. deleteWifi(sorted, 0) \in Lists /\ Derived(deleteWifi(sorted, 0), sorted)
  BY <1>1, DeleteShifts, DeleteDerives
<1>3. rest \in Lists /\ Derived(rest, deleteWifi(sorted, 0))
  BY <1>2, SortShifts, SortDerives
<1>4. Derived(rest, l)
  <2>1. Derived(rest, sorted)
    BY <1>2, <1>3, DerivedTransitive
  <2> QED BY <1>1, <2>1, DerivedTransitive
<1>5. ASSUME NEW m \in Lists, Derived(m, l), NEW k
      PROVE  Derived(added(m, k), l)
  <2>1. \A i \in Slot : added(m, k)[i] = new \/ added(m, k)[i] = m[i]
    BY DEF Lists
  <2>2. new.ssid \in {None, new.pwd}
    OBVIOUS
  <2> QED BY <1>5, <2>1, <2>2 DEF Derived
<1>6. \E k : addWifi(l, s, p) = added(sorted, k) \/ addWifi(l, s, p) = added(rest, k)
  BY DEF addWifi
<1> QED BY <1>1, <1>3, <1>4, <1>5, <1>6

(* Which pairs are torn.                                                    *)
LEMMA InTorn ==
  ASSUME NEW s, NEW p, NEW x
  PROVE  x \in TornPairs(s, p) <=> \E i \in Slot : s[i] \notin {None, p[i]} /\ x = <<s[i], p[i]>>
BY DEF TornPairs

LEMMA InTornListed ==
  ASSUME NEW l, NEW x
  PROVE  x \in TornListed(l) <=>
           \E i \in Slot : l[i].ssid \notin {None, l[i].pwd} /\ x = <<l[i].ssid, l[i].pwd>>
<1> DEFINE s == [i \in Slot |-> l[i].ssid]
           p == [i \in Slot |-> l[i].pwd]
<1>1. \A i \in Slot : s[i] = l[i].ssid /\ p[i] = l[i].pwd
  OBVIOUS
<1>2. x \in TornListed(l) <=> x \in TornPairs(s, p)
  BY DEF TornListed
<1> HIDE DEF s, p
<1> QED BY <1>1, <1>2, InTorn

LEMMA DerivedTorn ==
  ASSUME NEW l1, NEW l2, Derived(l2, l1)
  PROVE  TornListed(l2) \subseteq TornListed(l1)
<1> SUFFICES ASSUME NEW x \in TornListed(l2) PROVE x \in TornListed(l1)
  OBVIOUS
<1>1. PICK i \in Slot : l2[i].ssid \notin {None, l2[i].pwd} /\ x = <<l2[i].ssid, l2[i].pwd>>
  BY InTornListed
<1>2. PICK j \in Slot : l2[i].ssid = l1[j].ssid /\ l2[i].pwd = l1[j].pwd
  BY <1>1 DEF Derived
<1> QED BY <1>1, <1>2, InTornListed

LEMMA TornFinite == ASSUME NEW s, NEW p PROVE IsFiniteSet(TornPairs(s, p))
<1> DEFINE D == {j \in Slot : s[j] \notin {None, p[j]}}
           f == [i \in D |-> <<s[i], p[i]>>]
<1>1. IsFiniteSet(Slot)
  <2>1. 0 \in Int /\ N - 1 \in Int
    BY NAssumption
  <2> QED BY <2>1, FS_Interval DEF Slot
<1>2. IsFiniteSet(D)
  <2>1. D \in SUBSET Slot
    OBVIOUS
  <2> QED BY <1>1, <2>1, FS_Subset
<1>3. f \in Surjection(D, TornPairs(s, p))
  BY DEF Surjection, TornPairs
<1> HIDE DEF D, f
<1> QED BY <1>2, <1>3, FS_Surjection

(* A step that tears at most one more pair.                                 *)
LEMMA TornGrows ==
  /\ Cardinality(TornAwaited) \in Nat
  /\ \A S : S \subseteq TornAwaited => Cardinality(S) \in Nat /\ Cardinality(S) <= Cardinality(TornAwaited)
  /\ \A x, S : S \subseteq TornAwaited \cup {x} =>
       Cardinality(S) \in Nat /\ Cardinality(S) <= Cardinality(TornAwaited) + 1
<1>1. IsFiniteSet(TornAwaited)
  BY TornFinite, FS_Union DEF TornAwaited, TornListed
<1>2. Cardinality(TornAwaited) \in Nat
  BY <1>1, FS_CardinalityType
<1>3. ASSUME NEW S, S \subseteq TornAwaited PROVE Cardinality(S) \in Nat /\ Cardinality(S) <= Cardinality(TornAwaited)
  BY <1>1, <1>3, FS_Subset, FS_CardinalityType
<1>4. ASSUME NEW x, NEW S, S \subseteq TornAwaited \cup {x}
      PROVE  Cardinality(S) \in Nat /\ Cardinality(S) <= Cardinality(TornAwaited) + 1
  <2> DEFINE T == TornAwaited \cup {x}
  <2>1. IsFiniteSet(T) /\ Cardinality(T) <= Cardinality(TornAwaited) + 1
    BY <1>1, <1>2, FS_AddElement
  <2>2. S \in SUBSET T
    BY <1>4
  <2> HIDE DEF T
  <2>3. Cardinality(S) <= Cardinality(T) /\ IsFiniteSet(S)
    BY <2>1, <2>2, FS_Subset
  <2>4. Cardinality(S) \in Nat /\ Cardinality(T) \in Nat
    BY <2>1, <2>3, FS_CardinalityType
  <2> QED BY <1>2, <2>1, <2>3, <2>4
<1> QED BY <1>2, <1>3, <1>4

(* With one task: Flash as it will be when the pending password is written. *)
LEMMA AwaitedByOne ==
  ASSUME NEW only, Tasks = {only}
  PROVE  \A i \in Slot : Awaited[i] = IF pc[only] = "pass" /\ at[only] = i
                                     THEN list[i].pwd ELSE connectPass[i]
BY DEF Awaited

(* The pairs in Flash now are those awaited, and the one being written.     *)
LEMMA TornNow ==
  ASSUME NEW only, Tasks = {only}
  PROVE  /\ pc[only] # "pass" => Torn \subseteq TornAwaited
         /\ Torn \subseteq TornAwaited \cup {<<connectSSID[at[only]], connectPass[at[only]]>>}
<1> DEFINE y == <<connectSSID[at[only]], connectPass[at[only]]>>
<1>1. \A i \in Slot : Awaited[i] = IF pc[only] = "pass" /\ at[only] = i
                                  THEN list[i].pwd ELSE connectPass[i]
  BY AwaitedByOne
<1>2. ASSUME NEW x \in Torn PROVE x \in TornAwaited \/ (pc[only] = "pass" /\ x = y)
  <2>1. PICK i \in Slot : connectSSID[i] \notin {None, connectPass[i]}
                         /\ x = <<connectSSID[i], connectPass[i]>>
    BY InTorn DEF Torn
  <2>2. CASE pc[only] = "pass" /\ at[only] = i
    BY <2>1, <2>2
  <2>3. CASE ~(pc[only] = "pass" /\ at[only] = i)
    <3>1. Awaited[i] = connectPass[i]
      BY <1>1, <2>3
    <3>2. x \in TornPairs(connectSSID, Awaited)
      BY <2>1, <3>1, InTorn
    <3> QED BY <3>2 DEF TornAwaited
  <2> QED BY <2>2, <2>3
<1> QED BY <1>2

(* Slots of Flash that stay add nothing to the pairs awaited; slot k may.   *)
LEMMA TornElsewhere ==
  ASSUME NEW k, TornListed(list)' \subseteq TornListed(list),
         \A i \in Slot \ {k} : connectSSID'[i] = connectSSID[i] /\ Awaited'[i] = Awaited[i]
  PROVE  TornAwaited' \subseteq TornAwaited \cup {<<connectSSID'[k], Awaited'[k]>>}
<1> SUFFICES ASSUME NEW x, x \in TornPairs(connectSSID, Awaited)'
             PROVE  x \in TornPairs(connectSSID, Awaited) \/ x = <<connectSSID'[k], Awaited'[k]>>
  BY DEF TornAwaited
<1>1. PICK i \in Slot : connectSSID'[i] \notin {None, Awaited'[i]}
                       /\ x = <<connectSSID'[i], Awaited'[i]>>
  BY InTorn DEF TornPairs
<1> QED BY <1>1, InTorn

(***************************************************************************)
(* Steps of the one task.                                                  *)
(***************************************************************************)

(* The list of an edit, or of a save that starts, is made of the old one.   *)
LEMMA EditDerives ==
  ASSUME TypeOK,
         \/ \E t \in Tasks \ {Web} : SketchAdd(t) \/ SketchDelete(t) \/ SketchSave(t)
         \/ Web \in Tasks /\ (SetWifi \/ \E c \in SUBSET Slot : DeleteWifi(c))
  PROVE  Derived(list', list)
<1> USE ListType
<1>0. Derived(list, list) /\ \A n \in Networks : n \in Strings
  BY DEF Derived, Strings
<1>1. ASSUME NEW t \in Tasks, SketchAdd(t) PROVE Derived(list', list)
  BY <1>1, AddDerives DEF SketchAdd
<1>2. ASSUME NEW t \in Tasks, SketchDelete(t) PROVE Derived(list', list)
  BY <1>2, DeleteDerives DEF SketchDelete
<1>3. ASSUME NEW t \in Tasks, NEW l, Derived(l, list), StartSave(t, l)
      PROVE  Derived(list', list)
  <2>1. list' = sortWifi(l)
    BY <1>3 DEF StartSave
  <2>2. Derived(sortWifi(l), l)
    BY SortDerives
  <2> QED BY <1>3, <2>1, <2>2, DerivedTransitive
<1>4. ASSUME NEW t \in Tasks, SketchSave(t) PROVE Derived(list', list)
  BY <1>0, <1>3, <1>4 DEF SketchSave
<1>5. ASSUME Web \in Tasks, SetWifi PROVE Derived(list', list)
  BY <1>0, <1>3, <1>5, AddDerives DEF SetWifi
<1>6. ASSUME Web \in Tasks, NEW c \in SUBSET Slot, DeleteWifi(c) PROVE Derived(list', list)
  <2> DEFINE deleted == {i \in Slot : i \in 0 .. Cardinality(c) - 1}
             l == [i \in Slot |-> IF i \in deleted THEN NoEntry ELSE list[i]]
  <2>1. StartSave(Web, l)
    BY <1>6 DEF DeleteWifi
  <2> HIDE DEF deleted
  <2>2. Derived(l, list)
    BY ClearDerives
  <2> HIDE DEF l
  <2> QED BY <1>3, <1>6, <2>1, <2>2
<1> QED BY <1>1, <1>2, <1>4, <1>5, <1>6

(* An edit, or the start of a save, writes nothing.                         *)
LEMMA EditKeepsTorn ==
  ASSUME NEW only, Tasks = {only}, TypeOK, TornIInv,
         \/ \E t \in Tasks \ {Web} : SketchAdd(t) \/ SketchDelete(t) \/ SketchSave(t)
         \/ Web \in Tasks /\ (SetWifi \/ \E c \in SUBSET Slot : DeleteWifi(c))
  PROVE  TornIInv'
<1>1. Derived(list', list)
  BY EditDerives
<1>2. /\ ~Saving(only) /\ UNCHANGED <<connectSSID, connectPass, cuts, faults>>
      /\ \/ UNCHANGED saves
         \/ \E l \in Lists : StartSave(only, l)
  BY EditSteps DEF StartSave, flash
<1>3. /\ pc'[only] # "pass"
      /\ pc'[only] = "ssid" => val'[only] = list'[at'[only]].ssid
  BY <1>2 DEF StartSave, TypeOK, saves, Saving
<1>4. PendingAlways'
  <2>1. pc'[only] \in {"idle", "ssid", "pass"}
    BY <1>2 DEF StartSave, TypeOK, saves
  <2> QED BY <1>3, <2>1 DEF PendingAlways, Saving
<1>5. TornAwaited' \subseteq TornAwaited
  <2>1. TornListed(list)' \subseteq TornListed(list)
    BY <1>1, DerivedTorn
  <2>2. pc[only] # "pass"
    BY <1>2 DEF Saving
  <2>3. \A i \in Slot : Awaited'[i] = connectPass'[i] /\ Awaited[i] = connectPass[i]
    BY <1>3, <2>2 DEF Awaited
  <2>4. ASSUME NEW x, x \in TornPairs(connectSSID, Awaited)' PROVE x \in TornPairs(connectSSID, Awaited)
    BY <1>2, <2>3, <2>4 DEF TornPairs
  <2> QED BY <2>1, <2>4 DEF TornAwaited
<1>6. Cardinality(TornAwaited') <= cuts' + faults'
  <2>1. cuts \in Nat /\ faults \in Nat /\ UNCHANGED <<cuts, faults>>
    BY <1>2, BoundAssumption DEF TypeOK
  <2> DEFINE c == Cardinality(TornAwaited')
  <2>2. Cardinality(TornAwaited) \in Nat /\ c \in Nat /\ c <= Cardinality(TornAwaited)
    BY <1>5, TornGrows
  <2>3. Cardinality(TornAwaited) <= cuts + faults
    BY DEF TornIInv
  <2> HIDE DEF c
  <2>5. c <= cuts + faults
    BY <2>1, <2>2, <2>3
  <2> QED BY <2>1, <2>5 DEF c
<1> QED BY <1>4, <1>6 DEF TornIInv

(* The next write of the save, after a write that came back or failed.      *)
LEMMA NextWrite ==
  ASSUME NEW only, Tasks = {only}, TypeOK, TornIInv,
         \/ pc[only] = "ssid" /\ ToPass(only)
         \/ pc[only] = "pass" /\ (ToNextSlot(only) \/ \E clean \in BOOLEAN : Finish(only, clean))
  PROVE  /\ PendingAlways'
         /\ \A i \in Slot : list'[i].ssid = list[i].ssid /\ list'[i].pwd = list[i].pwd
         /\ pc'[only] = "pass" => pc[only] = "ssid" /\ at'[only] = at[only]
         /\ pc[only] = "ssid" => pc'[only] = "pass"
         /\ cuts' = cuts /\ at[only] \in Slot
<1>1. at[only] \in Slot /\ only \in Tasks
  BY DEF TypeOK
<1>2. CASE pc[only] = "ssid" /\ ToPass(only)
  BY <1>1, <1>2 DEF ToPass, TypeOK, PendingAlways, Saving
<1>3. CASE pc[only] = "pass" /\ ToNextSlot(only)
  BY <1>1, <1>3 DEF ToNextSlot, TypeOK, PendingAlways, Saving
<1>4. ASSUME NEW clean \in BOOLEAN, pc[only] = "pass" /\ Finish(only, clean)
      PROVE  /\ PendingAlways'
             /\ \A i \in Slot : list'[i].ssid = list[i].ssid /\ list'[i].pwd = list[i].pwd
             /\ pc'[only] = "idle" /\ cuts' = cuts
  BY <1>1, <1>4 DEF Finish, Stored, TypeOK, PendingAlways, Saving
<1> QED BY <1>1, <1>2, <1>3, <1>4

LEMMA PutKeepsTorn ==
  ASSUME NEW only, Tasks = {only}, TypeOK, TornIInv,
         PutSSID(only) \/ PutPass(only) \/ PutFails(only)
  PROVE  TornIInv'
<1> DEFINE k == at[only]
<1>1. /\ PendingAlways'
      /\ \A i \in Slot : list'[i].ssid = list[i].ssid /\ list'[i].pwd = list[i].pwd
      /\ pc'[only] = "pass" => pc[only] = "ssid" /\ at'[only] = k
      /\ pc[only] = "ssid" => pc'[only] = "pass"
      /\ cuts' = cuts /\ k \in Slot
  BY NextWrite DEF PutSSID, PutPass, PutFails
<1>2. /\ \A i \in Slot : Awaited[i] = IF pc[only] = "pass" /\ k = i THEN list[i].pwd ELSE connectPass[i]
      /\ \A i \in Slot : Awaited'[i] = IF pc'[only] = "pass" /\ at'[only] = i
                                     THEN list'[i].pwd ELSE connectPass'[i]
  BY DEF Awaited
<1>3. \A i \in Slot \ {k} : connectSSID'[i] = connectSSID[i] /\ connectPass'[i] = connectPass[i]
  BY DEF PutSSID, PutPass, PutFails, flash, TypeOK
<1>4. \A i \in Slot \ {k} : connectSSID'[i] = connectSSID[i] /\ Awaited'[i] = Awaited[i]
  BY <1>1, <1>2, <1>3
<1>5. TornListed(list)' \subseteq TornListed(list)
  <2>1. Derived(list', list)
    BY <1>1 DEF Derived
  <2> QED BY <2>1, DerivedTorn
<1>6. TornAwaited' \subseteq TornAwaited \cup {<<connectSSID'[k], Awaited'[k]>>}
  BY <1>4, <1>5, TornElsewhere
<1>7. cuts \in Nat /\ faults \in Nat /\ Cardinality(TornAwaited) <= cuts + faults
  BY BoundAssumption DEF TypeOK, TornIInv
<1> DEFINE c == Cardinality(TornAwaited')
           d == Cardinality(TornAwaited)
<1>8. CASE PutFails(only)
  <2>1. faults' = faults + 1
    BY <1>8 DEF PutFails
  <2>2. c \in Nat /\ d \in Nat /\ c <= d + 1
    BY <1>6, TornGrows
  <2> HIDE DEF c, d
  <2>3. c <= cuts + faults + 1
    BY <1>7, <2>2 DEF d
  <2>4. c <= cuts' + faults'
    BY <1>1, <1>7, <2>1, <2>3
  <2> QED BY <1>1, <2>4 DEF TornIInv, c
<1>9. CASE PutSSID(only) \/ PutPass(only)
  <2>1. faults' = faults
    BY <1>9 DEF PutSSID, PutPass
  <2>2. TornAwaited' \subseteq TornAwaited
    <3>1. CASE PutSSID(only)
      <4>1. pc[only] = "ssid" /\ connectSSID'[k] = list[k].ssid
        BY <1>1, <3>1 DEF PutSSID, TornIInv, PendingAlways, Saving, TypeOK
      <4>2. Awaited'[k] = list[k].pwd
        BY <1>1, <1>2, <4>1
      <4>3. ASSUME NEW x, x \in TornAwaited' PROVE x \in TornAwaited
        <5>1. CASE x = <<list[k].ssid, list[k].pwd>>
          <6>1. x \in TornListed(list)' \/ x \in TornPairs(connectSSID, Awaited)'
            BY <4>3 DEF TornAwaited
          <6>2. list[k].ssid \notin {None, list[k].pwd}
            <7>1. CASE x \in TornListed(list)'
              <8>1. x \in TornListed(list)
                BY <1>5, <7>1
              <8> QED BY <5>1, <8>1, InTornListed
            <7>2. CASE x \in TornPairs(connectSSID, Awaited)'
              BY <5>1, <7>2 DEF TornPairs
            <7> QED BY <6>1, <7>1, <7>2
          <6>3. x \in TornListed(list)
            BY <1>1, <5>1, <6>2, InTornListed
          <6> QED BY <6>3 DEF TornAwaited
        <5>2. CASE x # <<list[k].ssid, list[k].pwd>>
          BY <1>6, <4>1, <4>2, <4>3, <5>2
        <5> QED BY <5>1, <5>2
      <4> QED BY <4>3
    <3>2. CASE PutPass(only)
      <4>1. pc[only] = "pass" /\ connectPass'[k] = list[k].pwd /\ connectSSID'[k] = connectSSID[k]
        BY <1>1, <3>2 DEF PutPass, TornIInv, PendingAlways, Saving, TypeOK
      <4>2. Awaited'[k] = Awaited[k]
        BY <1>1, <1>2, <4>1
      <4>3. ASSUME NEW x, x \in TornPairs(connectSSID, Awaited)' PROVE x \in TornPairs(connectSSID, Awaited)
        BY <1>4, <4>1, <4>2, <4>3 DEF TornPairs
      <4> QED BY <1>5, <4>3 DEF TornAwaited
    <3> QED BY <1>9, <3>1, <3>2
  <2>3. c \in Nat /\ d \in Nat /\ c <= d
    BY <2>2, TornGrows
  <2> HIDE DEF c, d
  <2>4. c <= cuts' + faults'
    BY <1>1, <1>7, <2>1, <2>3 DEF d
  <2> QED BY <1>1, <2>4 DEF TornIInv, c
<1> QED BY <1>8, <1>9

(* A restart reads the pair it has torn into the list.                      *)
LEMMA BootKeepsTorn ==
  ASSUME NEW only, Tasks = {only}, TypeOK, TornIInv, Boot
  PROVE  TornIInv'
<1>1. pc'[only] = "idle" /\ UNCHANGED <<connectSSID, connectPass, faults>>
  BY DEF Boot, flash
<1>2. PendingAlways'
  BY <1>1 DEF PendingAlways, Saving
<1>3. \A i \in Slot : list'[i].ssid = connectSSID[i] /\ list'[i].pwd = connectPass[i]
  BY DEF Boot, Stored
<1>4. \A i \in Slot : Awaited'[i] = connectPass[i]
  BY <1>1 DEF Awaited
<1>5. TornAwaited' \subseteq Torn
  <2>1. ASSUME NEW x, x \in TornListed(list)' PROVE x \in Torn
    BY <1>3, <2>1 DEF TornListed, TornPairs, Torn
  <2>2. ASSUME NEW x, x \in TornPairs(connectSSID, Awaited)' PROVE x \in Torn
    BY <1>1, <1>4, <2>2 DEF TornPairs, Torn
  <2> QED BY <2>1, <2>2 DEF TornAwaited
<1>6. cuts \in Nat /\ faults \in Nat /\ Cardinality(TornAwaited) <= cuts + faults
  BY BoundAssumption DEF TypeOK, TornIInv
<1> DEFINE c == Cardinality(TornAwaited')
           d == Cardinality(TornAwaited)
<1>7. CASE pc[only] = "pass"
  <2>1. cuts' = cuts + 1
    BY <1>7 DEF Boot, Saving
  <2>2. TornAwaited' \subseteq TornAwaited \cup {<<connectSSID[at[only]], connectPass[at[only]]>>}
    BY <1>5, TornNow
  <2>3. c \in Nat /\ d \in Nat /\ c <= d + 1
    BY <2>2, TornGrows
  <2> HIDE DEF c, d
  <2>4. c <= cuts + 1 + faults
    BY <1>6, <2>3 DEF d
  <2>5. c <= cuts' + faults'
    BY <1>1, <1>6, <2>1, <2>4
  <2> QED BY <1>2, <2>5 DEF TornIInv, c
<1>8. CASE pc[only] # "pass"
  <2>1. cuts' = cuts \/ cuts' = cuts + 1
    BY DEF Boot
  <2>2. TornAwaited' \subseteq TornAwaited
    BY <1>5, <1>8, TornNow
  <2>3. c \in Nat /\ d \in Nat /\ c <= d
    BY <2>2, TornGrows
  <2> HIDE DEF c, d
  <2>4. c <= cuts' + faults'
    BY <1>1, <1>6, <2>1, <2>3 DEF d
  <2> QED BY <1>2, <2>4 DEF TornIInv, c
<1> QED BY <1>7, <1>8

LEMMA TornInit == Init => TornIInv
<1> SUFFICES ASSUME Init PROVE TornIInv
  OBVIOUS
<1>1. PendingAlways
  BY DEF Init, PendingAlways, Saving
<1>2. TornAwaited = {}
  BY DEF Init, NoEntry, TornAwaited, TornListed, TornPairs
<1>3. Cardinality(TornAwaited) = 0
  BY <1>2, FS_EmptySet
<1> QED BY <1>1, <1>3 DEF Init, TornIInv

LEMMA TornNext ==
  ASSUME NEW only, Tasks = {only}
  PROVE  TypeOK /\ TornIInv /\ [Next]_vars => TornIInv'
<1> SUFFICES ASSUME TypeOK, TornIInv, [Next]_vars PROVE TornIInv'
  OBVIOUS
<1>1. CASE UNCHANGED vars
  <2>1. UNCHANGED <<list, connectSSID, connectPass, pc, at, val, cuts, faults>>
    BY <1>1 DEF vars, flash, saves
  <2> QED BY <2>1 DEF TornIInv, PendingAlways, Saving, TornAwaited, TornListed, Awaited, TornPairs
<1>2. CASE \E t \in Tasks : PutSSID(t) \/ PutPass(t) \/ PutFails(t)
  BY <1>2, PutKeepsTorn
<1>3. CASE \/ \E t \in Tasks \ {Web} : SketchAdd(t) \/ SketchDelete(t) \/ SketchSave(t)
           \/ Web \in Tasks /\ (SetWifi \/ \E c \in SUBSET Slot : DeleteWifi(c))
  BY <1>3, EditKeepsTorn
<1> QED BY <1>1, <1>2, <1>3, BootKeepsTorn DEF Next, Reset, PowerCut

(* With one task, every restart in a save and every write that fails leaves *)
(* at most one SSID with a password that is not its own, for any number of  *)
(* slots, networks, restarts and failures: later saves move those pairs and *)
(* make no others (saveWifi writes the two keys of a slot one right after   *)
(* the other, NefryWiFi.cpp).                                               *)
THEOREM TornIsBounded ==
  ASSUME NEW only, Tasks = {only}
  PROVE  Spec => []TornBounded
<1>1. TypeOK /\ TornIInv => TornBounded
  <2> SUFFICES ASSUME TypeOK, TornIInv PROVE TornBounded
    OBVIOUS
  <2> DEFINE saving == {t \in Tasks : Saving(t)}
             c == Cardinality(Torn)
             d == Cardinality(TornAwaited)
             s == Cardinality(saving)
  <2>1. cuts \in Nat /\ faults \in Nat /\ d <= cuts + faults
    BY BoundAssumption DEF TypeOK, TornIInv
  <2>2. CASE pc[only] = "pass"
    <3>1. saving = {only}
      BY <2>2 DEF Saving
    <3>2. s = 1
      BY <3>1, FS_Singleton
    <3>3. c \in Nat /\ d \in Nat /\ c <= d + 1
      BY TornNow, TornGrows
    <3> HIDE DEF c, d, s, saving
    <3>4. c <= cuts + faults + s
      BY <2>1, <3>2, <3>3
    <3> QED BY <3>4 DEF TornBounded, c, s, saving
  <2>3. CASE pc[only] # "pass"
    <3>1. saving \in SUBSET {only} /\ IsFiniteSet({only})
      BY FS_Singleton
    <3>2. s \in Nat
      BY <3>1, FS_Subset, FS_CardinalityType
    <3>3. c \in Nat /\ d \in Nat /\ c <= d
      BY <2>3, TornNow, TornGrows
    <3> HIDE DEF c, d, s, saving
    <3>4. c <= cuts + faults + s
      BY <2>1, <3>2, <3>3
    <3> QED BY <3>4 DEF TornBounded, c, s, saving
  <2> QED BY <2>2, <2>3
<1>2. Init => TornIInv
  BY TornInit
<1>3. TypeOK /\ TornIInv /\ [Next]_vars => TornIInv'
  BY TornNext
<1> QED BY <1>1, <1>2, <1>3, TypeCorrect, PTL DEF Spec

(***************************************************************************)
(* The list implements NetworkList.  First: the places of slots in order.   *)
(***************************************************************************)

(* The slots of a set are numbered from 0 on, without gaps, in their order. *)
LEMMA SlotsFinite ==
  ASSUME NEW S, S \subseteq Slot
  PROVE  IsFiniteSet(S) /\ Cardinality(S) \in Nat /\ Cardinality(S) <= N
<1>1. 0 \in Int /\ N - 1 \in Int /\ ~(0 > N - 1)
  BY NAssumption
<1>2. IsFiniteSet(Slot) /\ Cardinality(Slot) = N - 1 - 0 + 1
  BY <1>1, FS_Interval DEF Slot
<1>3. N - 1 - 0 + 1 = N
  BY NAssumption
<1>4. IsFiniteSet(S) /\ Cardinality(S) <= Cardinality(Slot)
  BY <1>2, FS_Subset
<1> QED BY <1>2, <1>3, <1>4, FS_CardinalityType

LEMMA BeforeGrows ==
  ASSUME NEW S, S \subseteq Slot, NEW i \in S, NEW j \in S, i < j
  PROVE  Before(S, i) < Before(S, j)
<1> DEFINE A == {k \in S : k < i}
           B == {k \in S : k < j}
<1>1. \A k \in S : k \in Int
  BY NAssumption DEF Slot
<1>2. A \subseteq Slot /\ B \subseteq Slot /\ A \subseteq B /\ i \in B /\ i \notin A
  BY <1>1
<1>3. IsFiniteSet(A) /\ Cardinality(A) \in Nat /\ IsFiniteSet(B) /\ Cardinality(B) \in Nat
  BY <1>2, SlotsFinite
<1>4. Cardinality(A) <= Cardinality(B) /\ Cardinality(A) # Cardinality(B)
  BY <1>2, <1>3, FS_Subset
<1>5. Before(S, i) = Cardinality(A) /\ Before(S, j) = Cardinality(B)
  BY DEF Before
<1> HIDE DEF A, B
<1> QED BY <1>3, <1>4, <1>5

LEMMA BeforeIn ==
  ASSUME NEW S, S \subseteq Slot, NEW i \in S
  PROVE  Before(S, i) \in 0 .. Cardinality(S) - 1
<1> DEFINE A == {k \in S : k < i}
<1>1. \A k \in S : k \in Int
  BY NAssumption DEF Slot
<1>2. A \subseteq Slot /\ A \subseteq S /\ i \notin A
  BY <1>1
<1>3. IsFiniteSet(A) /\ Cardinality(A) \in Nat /\ IsFiniteSet(S) /\ Cardinality(S) \in Nat
  BY <1>2, SlotsFinite
<1>4. Cardinality(A) <= Cardinality(S) /\ Cardinality(A) # Cardinality(S)
  BY <1>2, <1>3, FS_Subset
<1>5. Before(S, i) = Cardinality(A)
  BY DEF Before
<1> HIDE DEF A
<1> QED BY <1>3, <1>4, <1>5

LEMMA BeforeOne ==
  ASSUME NEW S, S \subseteq Slot, NEW i \in S, NEW j \in S, Before(S, i) = Before(S, j)
  PROVE  i = j
<1>1. i \in Int /\ j \in Int
  BY NAssumption DEF Slot
<1>2. Before(S, i) \in Int
  BY SlotsFinite, BeforeIn
<1>3. ~(i < j) /\ ~(j < i)
  BY <1>2, BeforeGrows
<1> QED BY <1>1, <1>3

LEMMA BeforeAll ==
  ASSUME NEW S, S \subseteq Slot, NEW k \in 0 .. Cardinality(S) - 1
  PROVE  \E i \in S : Before(S, i) = k
<1> DEFINE T == 0 .. Cardinality(S) - 1
           f == [i \in S |-> Before(S, i)]
<1>1. IsFiniteSet(S) /\ Cardinality(S) \in Nat
  BY SlotsFinite
<1>2. f \in Injection(S, T)
  BY BeforeIn, BeforeOne DEF Injection, IsInjective
<1>3. IsFiniteSet(T) /\ Cardinality(T) = Cardinality(S)
  <2>1. 0 \in Int /\ Cardinality(S) - 1 \in Int
    BY <1>1
  <2>2. /\ IsFiniteSet(T)
        /\ Cardinality(T) = IF 0 > Cardinality(S) - 1 THEN 0 ELSE Cardinality(S) - 1 - 0 + 1
    BY <2>1, FS_Interval
  <2> HIDE DEF T
  <2> QED BY <1>1, <2>2
<1>4. f \in Surjection(S, T)
  BY <1>2, <1>3, FS_Injection
<1>5. \A t \in T : \E i \in S : f[i] = t
  BY <1>4 DEF Surjection
<1> QED BY <1>5

(* In a list without gaps a slot is its own number.                         *)
LEMMA BeforeFirst ==
  ASSUME NEW m \in 0 .. N, NEW i \in 0 .. m - 1
  PROVE  /\ 0 .. m - 1 \subseteq Slot /\ Cardinality(0 .. m - 1) = m
         /\ Before(0 .. m - 1, i) = i
<1>1. m \in Nat /\ i \in Nat /\ N \in Nat /\ i <= m - 1 /\ m <= N
  BY NAssumption
<1>2. {k \in 0 .. m - 1 : k < i} = 0 .. i - 1
  BY <1>1
<1>3. Cardinality(0 .. i - 1) = i
  <2>1. Cardinality(0 .. i - 1) = IF 0 > i - 1 THEN 0 ELSE i - 1 - 0 + 1
    BY <1>1, FS_Interval
  <2> QED BY <1>1, <2>1
<1>4. Cardinality(0 .. m - 1) = m
  <2>1. Cardinality(0 .. m - 1) = IF 0 > m - 1 THEN 0 ELSE m - 1 - 0 + 1
    BY <1>1, FS_Interval
  <2> QED BY <1>1, <2>1
<1>5. 0 .. m - 1 \subseteq Slot
  BY <1>1 DEF Slot
<1>6. Before(0 .. m - 1, i) = i
  BY <1>2, <1>3 DEF Before
<1> QED BY <1>4, <1>5, <1>6

(***************************************************************************)
(* The abstract list.                                                      *)
(***************************************************************************)
Pairs     == Strings \X Strings
Pair(l, i) == <<l[i].ssid, l[i].pwd>>

(* s is the sequence of the pairs of the slots of S, in order.              *)
IsListing(s, S, ssids, pwds) ==
  /\ s \in Seq(Pairs) /\ Len(s) = Cardinality(S)
  /\ \A i \in S : s[Before(S, i) + 1] = <<ssids[i], pwds[i]>>

LEMMA ListingIs ==
  ASSUME NEW ssids \in [Slot -> Strings], NEW pwds \in [Slot -> Strings]
  PROVE  IsListing(Listed(ssids, pwds), {i \in Slot : ssids[i] # None}, ssids, pwds)
<1> DEFINE S == {i \in Slot : ssids[i] # None}
           slot(k) == CHOOSE i \in S : Before(S, i) = k - 1
           s == Listed(ssids, pwds)
<1>1. S \subseteq Slot /\ Cardinality(S) \in Nat
  BY SlotsFinite
<1>2. s = [k \in 1 .. Cardinality(S) |-> <<ssids[slot(k)], pwds[slot(k)]>>]
  BY DEF Listed
<1>3. ASSUME NEW k \in 1 .. Cardinality(S)
      PROVE  slot(k) \in S /\ Before(S, slot(k)) = k - 1
  <2>1. k - 1 \in 0 .. Cardinality(S) - 1
    BY <1>1
  <2>2. \E i \in S : Before(S, i) = k - 1
    BY <1>1, <2>1, BeforeAll
  <2> QED BY <2>2
<1>4. \A i \in Slot : ssids[i] \in Strings /\ pwds[i] \in Strings
  OBVIOUS
<1>5. \A k \in 1 .. Cardinality(S) : <<ssids[slot(k)], pwds[slot(k)]>> \in Pairs
  <2> SUFFICES ASSUME NEW k \in 1 .. Cardinality(S)
               PROVE  <<ssids[slot(k)], pwds[slot(k)]>> \in Pairs
    OBVIOUS
  <2>1. slot(k) \in Slot
    BY <1>1, <1>3
  <2> HIDE DEF slot
  <2> QED BY <1>4, <2>1 DEF Pairs
<1> HIDE DEF S, slot, s
<1>6. s \in [1 .. Cardinality(S) -> Pairs]
  BY <1>2, <1>5
<1>7. s \in Seq(Pairs) /\ Len(s) = Cardinality(S)
  <2>1. s \in Seq(Pairs)
    BY <1>1, <1>6 DEF Seq
  <2>2. DOMAIN s = 1 .. Cardinality(S)
    BY <1>6
  <2> QED BY <1>1, <2>1, <2>2, LenProperties
<1>8. ASSUME NEW i \in S
      PROVE  s[Before(S, i) + 1] = <<ssids[i], pwds[i]>>
  <2>1. Before(S, i) \in 0 .. Cardinality(S) - 1
    BY <1>1, BeforeIn
  <2>2. Before(S, i) + 1 \in 1 .. Cardinality(S) /\ (Before(S, i) + 1) - 1 = Before(S, i)
    BY <1>1, <2>1
  <2>3. slot(Before(S, i) + 1) = i
    BY <1>1, <1>3, <2>2, BeforeOne
  <2> QED BY <1>2, <2>2, <2>3
<1> QED BY <1>7, <1>8 DEF IsListing, S, s

LEMMA ListingUnique ==
  ASSUME NEW S, S \subseteq Slot, NEW ssids, NEW pwds, NEW s1, NEW s2,
         IsListing(s1, S, ssids, pwds), IsListing(s2, S, ssids, pwds)
  PROVE  s1 = s2
<1>1. /\ s1 \in Seq(Pairs) /\ s2 \in Seq(Pairs) /\ Len(s1) = Cardinality(S) /\ Len(s2) = Cardinality(S)
      /\ Cardinality(S) \in Nat
  BY SlotsFinite DEF IsListing
<1>2. ASSUME NEW k \in 1 .. Cardinality(S) PROVE s1[k] = s2[k]
  <2>1. k - 1 \in 0 .. Cardinality(S) - 1 /\ (k - 1) + 1 = k
    BY <1>1
  <2>2. PICK i \in S : Before(S, i) = k - 1
    BY <2>1, BeforeAll
  <2> QED BY <2>1, <2>2 DEF IsListing
<1> QED BY <1>1, <1>2, SeqEqual

LEMMA ListOfIs ==
  ASSUME NEW l \in Lists
  PROVE  /\ Used(l) \subseteq Slot /\ ListOf(l) \in Seq(Pairs) /\ Len(ListOf(l)) = Cardinality(Used(l))
         /\ \A i \in Used(l) : ListOf(l)[Before(Used(l), i) + 1] = Pair(l, i)
<1> DEFINE ssids == [i \in Slot |-> l[i].ssid]
           pwds  == [i \in Slot |-> l[i].pwd]
<1>1. ssids \in [Slot -> Strings] /\ pwds \in [Slot -> Strings]
  BY DEF Lists, Entry
<1>2. {i \in Slot : ssids[i] # None} = Used(l)
  BY DEF Used
<1>3. \A i \in Used(l) : i \in Slot /\ Pair(l, i) = <<ssids[i], pwds[i]>>
  BY DEF Used, Pair
<1>4. ListOf(l) = Listed(ssids, pwds)
  BY DEF ListOf
<1> HIDE DEF ssids, pwds
<1> QED BY <1>1, <1>2, <1>3, <1>4, ListingIs DEF IsListing

(* Two sequences that list the same slots of a list are one.                *)
LEMMA ListOfUnique ==
  ASSUME NEW l \in Lists, NEW s \in Seq(Pairs), Len(s) = Cardinality(Used(l)),
         \A i \in Used(l) : s[Before(Used(l), i) + 1] = Pair(l, i)
  PROVE  s = ListOf(l)
<1> DEFINE ssids == [i \in Slot |-> l[i].ssid]
           pwds  == [i \in Slot |-> l[i].pwd]
<1>1. \A i \in Used(l) : Pair(l, i) = <<ssids[i], pwds[i]>>
  BY DEF Used, Pair
<1>2. IsListing(s, Used(l), ssids, pwds)
  BY <1>1 DEF IsListing
<1>3. IsListing(ListOf(l), Used(l), ssids, pwds) /\ Used(l) \subseteq Slot
  BY <1>1, ListOfIs DEF IsListing
<1> HIDE DEF ssids, pwds
<1> QED BY <1>2, <1>3, ListingUnique

(* The list does not depend on the Flash slots the entries came from.       *)
LEMMA SameList ==
  ASSUME NEW l1 \in Lists, NEW l2 \in Lists, Used(l1) = Used(l2),
         \A i \in Used(l1) : Pair(l1, i) = Pair(l2, i)
  PROVE  ListOf(l1) = ListOf(l2)
BY ListOfIs, ListOfUnique

(* A list without gaps.                                                     *)
LEMMA Gapless ==
  ASSUME NEW l \in Lists, NEW m \in 0 .. N, Used(l) = 0 .. m - 1
  PROVE  /\ ListOf(l) \in Seq(Pairs) /\ Len(ListOf(l)) = m
         /\ \A i \in 0 .. m - 1 : ListOf(l)[i + 1] = Pair(l, i)
<1>1. \A i \in 0 .. m - 1 : Before(Used(l), i) = i
  BY BeforeFirst
<1>2. Cardinality(0 .. m - 1) = m
  <2>1. m \in Nat
    BY NAssumption
  <2>2. Cardinality(0 .. m - 1) = IF 0 > m - 1 THEN 0 ELSE m - 1 - 0 + 1
    BY <2>1, FS_Interval
  <2> QED BY <2>1, <2>2
<1> QED BY <1>1, <1>2, ListOfIs

(* sortWifi keeps the list and closes its gaps.                             *)
LEMMA SortLists ==
  ASSUME NEW l \in Lists
  PROVE  /\ Used(sortWifi(l)) = 0 .. Cardinality(Used(l)) - 1
         /\ ListOf(sortWifi(l)) = ListOf(l)
<1> DEFINE m == Cardinality(Used(l))
           sorted == sortWifi(l)
<1>1. sorted \in Lists
  BY SortShifts
<1>2. Used(l) \subseteq Slot /\ m \in 0 .. N
  <2>1. Used(l) \subseteq Slot
    BY DEF Used
  <2>2. m \in Nat /\ m <= N
    BY <2>1, SlotsFinite
  <2> QED BY <2>1, <2>2, NAssumption
<1>3. \A i : Sources(l, i) = {j \in Used(l) : Before(Used(l), j) = i}
  BY DEF Sources, Before
<1>4. ASSUME NEW j \in Used(l)
      PROVE  /\ Before(Used(l), j) \in 0 .. m - 1
             /\ sorted[Before(Used(l), j)] = l[j]
  <2> DEFINE i == Before(Used(l), j)
  <2>1. i \in 0 .. m - 1 /\ i \in Slot
    <3>1. i \in 0 .. m - 1
      BY <1>2, BeforeIn
    <3> QED BY <1>2, <3>1, NAssumption DEF Slot
  <2>2. j \in Sources(l, i)
    BY <1>3
  <2>3. \A k \in Sources(l, i) : k = j
    BY <1>2, <1>3, BeforeOne
  <2>4. (CHOOSE k \in Sources(l, i) : TRUE) = j
    BY <2>2, <2>3
  <2> QED BY <2>1, <2>2, <2>4 DEF sortWifi
<1>5. ASSUME NEW i \in Slot, i \notin 0 .. m - 1
      PROVE  sorted[i].ssid = None
  <2>1. Sources(l, i) = {}
    BY <1>3, <1>4, <1>5
  <2>2. CASE i \in Used(l)
    BY <2>1, <2>2 DEF sortWifi, NoEntry
  <2>3. CASE i \notin Used(l)
    BY <2>1, <2>3 DEF sortWifi, Used
  <2> QED BY <2>2, <2>3
<1>6. ASSUME NEW i \in 0 .. m - 1
      PROVE  i \in Slot /\ sorted[i].ssid # None
  <2>1. PICK j \in Used(l) : Before(Used(l), j) = i
    BY <1>2, BeforeAll
  <2>2. sorted[i] = l[j] /\ l[j].ssid # None
    BY <1>4, <2>1 DEF Used
  <2> QED BY <1>2, <2>2, NAssumption DEF Slot
<1> HIDE DEF m
<1>7. Used(sorted) = 0 .. m - 1
  BY <1>5, <1>6 DEF Used
<1>8. /\ ListOf(sorted) \in Seq(Pairs) /\ Len(ListOf(sorted)) = m
      /\ \A i \in 0 .. m - 1 : ListOf(sorted)[i + 1] = Pair(sorted, i)
  BY <1>1, <1>2, <1>7, Gapless
<1>9. \A j \in Used(l) : ListOf(sorted)[Before(Used(l), j) + 1] = Pair(l, j)
  BY <1>4, <1>8 DEF Pair
<1>10. ListOf(sorted) = ListOf(l)
  BY <1>8, <1>9, ListOfUnique DEF m
<1> QED BY <1>7, <1>10 DEF m

(* Clearing slots takes their networks out of the list.                     *)
LEMMA CountedPlaces ==
  ASSUME NEW S, S \subseteq Slot, NEW V, V \subseteq S
  PROVE  Cardinality({Before(S, i) + 1 : i \in V}) = Cardinality(V)
<1> DEFINE T == {Before(S, i) + 1 : i \in V}
           f == [i \in V |-> Before(S, i) + 1]
<1>1. \A i \in V : i \in S /\ Before(S, i) \in Int
  BY SlotsFinite, BeforeIn
<1>2. \A i \in V, j \in V : Before(S, i) + 1 = Before(S, j) + 1 => i = j
  BY <1>1, BeforeOne
<1>3. f \in Injection(V, T)
  BY <1>2 DEF Injection, IsInjective
<1>4. f \in Surjection(V, T)
  BY DEF Surjection
<1>5. IsFiniteSet(V)
  BY SlotsFinite
<1> QED BY <1>3, <1>4, <1>5, FS_Surjection

LEMMA ClearDeletes ==
  ASSUME NEW l \in Lists, NEW l2 \in Lists, Used(l2) \subseteq Used(l),
         \A i \in Used(l2) : Pair(l2, i) = Pair(l, i)
  PROVE  \E positions \in SUBSET DOMAIN ListOf(l) :
           LET kept == DOMAIN ListOf(l) \ positions
           IN  /\ Len(ListOf(l2)) = Cardinality(kept)
               /\ \A p \in kept : ListOf(l2)[Cardinality({q \in kept : q <= p})] = ListOf(l)[p]
<1> DEFINE U    == Used(l)
           U2   == Used(l2)
           kept == {Before(U, i) + 1 : i \in U2}
           positions == DOMAIN ListOf(l) \ kept
<1>1. /\ U \subseteq Slot /\ ListOf(l) \in Seq(Pairs) /\ Len(ListOf(l)) = Cardinality(U)
      /\ \A i \in U : ListOf(l)[Before(U, i) + 1] = Pair(l, i)
  BY ListOfIs
<1>2. /\ U2 \subseteq Slot /\ Len(ListOf(l2)) = Cardinality(U2)
      /\ \A i \in U2 : ListOf(l2)[Before(U2, i) + 1] = Pair(l2, i)
  BY ListOfIs
<1>3. DOMAIN ListOf(l) = 1 .. Cardinality(U) /\ Cardinality(U) \in Nat
  BY <1>1, LenProperties
<1>4. U2 \subseteq U /\ \A i \in U2 : Pair(l2, i) = Pair(l, i)
  OBVIOUS
<1> HIDE DEF U, U2
<1>5. \A i \in U : Before(U, i) \in 0 .. Cardinality(U) - 1
  BY <1>1, BeforeIn
<1>6. kept \subseteq DOMAIN ListOf(l)
  <2> SUFFICES ASSUME NEW i \in U2 PROVE Before(U, i) + 1 \in 1 .. Cardinality(U)
    BY <1>3
  <2>1. Before(U, i) \in 0 .. Cardinality(U) - 1
    BY <1>4, <1>5
  <2> QED BY <1>3, <2>1
<1>7. DOMAIN ListOf(l) \ positions = kept /\ positions \in SUBSET DOMAIN ListOf(l)
  BY <1>6
<1>8. Cardinality(kept) = Cardinality(U2)
  BY <1>1, <1>4, CountedPlaces
<1>9. ASSUME NEW p \in kept
      PROVE  ListOf(l2)[Cardinality({q \in kept : q <= p})] = ListOf(l)[p]
  <2>1. PICK i \in U2 : p = Before(U, i) + 1
    OBVIOUS
  <2> DEFINE V == {j \in U2 : j <= i}
             A == {j \in U2 : j < i}
  <2>2. \A j \in U2 : j \in Int /\ j \in U /\ Before(U, j) \in Int
    BY <1>2, <1>3, <1>4, <1>5, NAssumption DEF Slot
  <2>3. \A j \in U2 : j <= i <=> Before(U, j) + 1 <= p
    <3> SUFFICES ASSUME NEW j \in U2 PROVE j <= i <=> Before(U, j) + 1 <= p
      OBVIOUS
    <3>1. j < i => Before(U, j) < Before(U, i)
      BY <1>1, <2>2, BeforeGrows
    <3>2. i < j => Before(U, i) < Before(U, j)
      BY <1>1, <2>2, BeforeGrows
    <3>3. j = i => Before(U, j) = Before(U, i)
      OBVIOUS
    <3> QED BY <2>1, <2>2, <3>1, <3>2, <3>3
  <2>4. {q \in kept : q <= p} = {Before(U, j) + 1 : j \in V}
    BY <2>3
  <2>5. V \subseteq U
    BY <1>4
  <2>6. Cardinality({q \in kept : q <= p}) = Cardinality(V)
    <3> HIDE DEF V, kept
    <3>1. Cardinality({Before(U, j) + 1 : j \in V}) = Cardinality(V)
      BY <1>1, <2>5, CountedPlaces
    <3> QED BY <2>4, <3>1
  <2>7. V = A \cup {i} /\ i \notin A /\ A \subseteq Slot
    BY <1>2, <2>2
  <2> HIDE DEF V
  <2>8. Cardinality(V) = Before(U2, i) + 1
    <3>1. IsFiniteSet(A) /\ Before(U2, i) = Cardinality(A)
      BY <2>7, SlotsFinite DEF Before
    <3> HIDE DEF A
    <3> QED BY <2>7, <3>1, FS_AddElement
  <2>9. ListOf(l2)[Before(U2, i) + 1] = Pair(l2, i) /\ ListOf(l)[p] = Pair(l, i)
    BY <1>1, <1>2, <1>4, <2>1
  <2> QED BY <1>4, <2>6, <2>8, <2>9
<1>10. Len(ListOf(l2)) = Cardinality(kept)
  BY <1>2, <1>8
<1> HIDE DEF kept, positions
<1> QED BY <1>7, <1>9, <1>10

(* Filling the first free slot of a list without gaps.                      *)
LEMMA PlaceAppends ==
  ASSUME NEW l \in Lists, NEW m \in 0 .. N - 1, Used(l) = 0 .. m - 1,
         NEW s \in Strings, NEW p \in Strings
  PROVE  LET l2 == [l EXCEPT ![m] = [ssid |-> s, pwd |-> p, origin |-> N]]
         IN  /\ l2 \in Lists
             /\ s = None => ListOf(l2) = ListOf(l)
             /\ s # None => ListOf(l2) = Append(ListOf(l), <<s, p>>)
<1> DEFINE new == [ssid |-> s, pwd |-> p, origin |-> N]
           l2  == [l EXCEPT ![m] = new]
<1>1. m \in Slot /\ m \in Nat /\ m \in 0 .. N /\ m + 1 \in 0 .. N /\ (m + 1) - 1 = m /\ m \notin 0 .. m - 1
  BY NAssumption DEF Slot
<1>2. /\ l2 \in Lists /\ l2[m].ssid = s /\ l2[m].pwd = p
      /\ \A i \in Slot : i # m => l2[i] = l[i]
  <2>1. new \in Entry
    BY NAssumption DEF Entry
  <2> QED BY <1>1, <2>1 DEF Lists
<1> HIDE DEF new, l2
<1>3. \A i \in 0 .. m - 1 : i \in Slot /\ i # m /\ i \in Used(l)
  BY <1>1, NAssumption DEF Slot
<1>4. ASSUME s = None PROVE ListOf(l2) = ListOf(l)
  <2>1. m \notin Used(l)
    BY <1>1
  <2>2. \A i \in Slot : l2[i].ssid # None <=> l[i].ssid # None
    BY <1>1, <1>2, <1>4, <2>1 DEF Used
  <2>3. Used(l2) = Used(l)
    BY <2>2 DEF Used
  <2>4. \A i \in Used(l) : Pair(l2, i) = Pair(l, i)
    BY <1>2, <1>3 DEF Pair
  <2> QED BY <1>2, <2>3, <2>4, SameList
<1>5. ASSUME s # None PROVE ListOf(l2) = Append(ListOf(l), <<s, p>>)
  <2> DEFINE more == Append(ListOf(l), <<s, p>>)
  <2>1. Used(l2) = 0 .. m
    <3>1. \A i \in Slot : l2[i].ssid # None <=> i = m \/ l[i].ssid # None
      BY <1>1, <1>2, <1>5
    <3>2. \A i \in Slot : l[i].ssid # None <=> i \in 0 .. m - 1
      BY DEF Used
    <3>3. \A i \in Slot : l2[i].ssid # None <=> i \in 0 .. m
      BY <1>1, <3>1, <3>2, NAssumption DEF Slot
    <3>4. 0 .. m \subseteq Slot
      BY NAssumption DEF Slot
    <3> QED BY <3>3, <3>4 DEF Used
  <2>2. Used(l2) = 0 .. (m + 1) - 1
    BY <1>1, <2>1
  <2>3. /\ ListOf(l) \in Seq(Pairs) /\ Len(ListOf(l)) = m
        /\ \A i \in 0 .. m - 1 : ListOf(l)[i + 1] = Pair(l, i)
    BY <1>1, Gapless
  <2>4. /\ ListOf(l2) \in Seq(Pairs) /\ Len(ListOf(l2)) = m + 1
        /\ \A i \in 0 .. (m + 1) - 1 : ListOf(l2)[i + 1] = Pair(l2, i)
    BY <1>1, <1>2, <2>2, Gapless
  <2>5. /\ more \in Seq(Pairs) /\ Len(more) = m + 1 /\ more[m + 1] = <<s, p>>
        /\ \A k \in 1 .. m : more[k] = ListOf(l)[k]
    <3>1. <<s, p>> \in Pairs
      BY DEF Pairs
    <3> QED BY <2>3, <3>1, AppendProperties
  <2> HIDE DEF more
  <2>6. ASSUME NEW k \in 1 .. m + 1 PROVE ListOf(l2)[k] = more[k]
    <3>1. k - 1 \in 0 .. (m + 1) - 1 /\ (k - 1) + 1 = k
      BY <1>1
    <3>2. ListOf(l2)[k] = Pair(l2, k - 1)
      BY <2>4, <3>1
    <3>3. CASE k = m + 1
      <4>1. k - 1 = m
        BY <1>1, <3>3
      <4> QED BY <1>2, <2>5, <3>2, <3>3, <4>1 DEF Pair
    <3>4. CASE k # m + 1
      <4>1. k \in 1 .. m /\ k - 1 \in 0 .. m - 1
        BY <1>1, <3>4
      <4>2. ListOf(l)[k] = Pair(l, k - 1) /\ l2[k - 1] = l[k - 1]
        BY <1>2, <1>3, <2>3, <3>1, <4>1
      <4> QED BY <2>5, <3>2, <4>1, <4>2 DEF Pair
    <3> QED BY <3>3, <3>4
  <2>7. ListOf(l2) = more
    BY <2>4, <2>5, <2>6, SeqEqual
  <2> QED BY <2>7 DEF more
<1> QED BY <1>2, <1>4, <1>5 DEF l2, new

(* Deleting the oldest network of a full list.                              *)
LEMMA DeleteOldest ==
  ASSUME NEW l \in Lists, Used(l) = 0 .. N - 1
  PROVE  LET l2 == deleteWifi(l, 0)
         IN  /\ l2 \in Lists /\ Cardinality(Used(l2)) = N - 1
             /\ ListOf(l2) = Tail(ListOf(l))
<1> DEFINE l2 == deleteWifi(l, 0)
<1>1. /\ N \in Nat /\ N # 0 /\ 0 \in Slot /\ N \in 0 .. N /\ 1 .. N - 1 \subseteq Slot
      /\ \A i \in Slot : i \in 1 .. N - 1 <=> i # 0
  BY NAssumption DEF Slot
<1>2. l2 \in Lists /\ l2[0] = NoEntry /\ \A i \in Slot : i # 0 => l2[i] = l[i]
  BY <1>1, Zeros DEF deleteWifi, Lists
<1>3. Used(l2) = 1 .. N - 1
  <2>1. \A i \in Slot : l[i].ssid # None
    BY DEF Used, Slot
  <2>2. \A i \in Slot : l2[i].ssid # None <=> i # 0
    BY <1>2, <2>1 DEF NoEntry
  <2> HIDE DEF l2
  <2> QED BY <1>1, <2>2 DEF Used
<1> HIDE DEF l2
<1>4. Cardinality(1 .. N - 1) = N - 1
  <2>1. Cardinality(1 .. N - 1) = IF 1 > N - 1 THEN 0 ELSE N - 1 - 1 + 1
    BY <1>1, FS_Interval
  <2> QED BY <1>1, <2>1
<1>5. ASSUME NEW i \in 1 .. N - 1 PROVE Before(1 .. N - 1, i) = i - 1
  <2>1. {k \in 1 .. N - 1 : k < i} = 1 .. i - 1
    BY <1>1
  <2>2. Cardinality(1 .. i - 1) = IF 1 > i - 1 THEN 0 ELSE i - 1 - 1 + 1
    BY <1>1, FS_Interval
  <2>3. Cardinality(1 .. i - 1) = i - 1
    BY <1>1, <2>2
  <2> QED BY <2>1, <2>3 DEF Before
<1>6. /\ ListOf(l) \in Seq(Pairs) /\ Len(ListOf(l)) = N
      /\ \A i \in 0 .. N - 1 : ListOf(l)[i + 1] = Pair(l, i)
  BY <1>1, Gapless
<1> DEFINE rest == Tail(ListOf(l))
<1>7. /\ rest \in Seq(Pairs) /\ Len(rest) = N - 1
      /\ \A k \in 1 .. N - 1 : rest[k] = ListOf(l)[k + 1]
  <2>1. ListOf(l) # <<>>
    BY <1>1, <1>6, EmptySeq
  <2> QED BY <1>6, <2>1, HeadTailProperties
<1> HIDE DEF rest
<1>8. ASSUME NEW i \in 1 .. N - 1 PROVE rest[Before(Used(l2), i) + 1] = Pair(l2, i)
  <2>1. (i - 1) + 1 = i /\ i \in 0 .. N - 1 /\ i \in Slot /\ i # 0
    BY <1>1
  <2>2. Before(Used(l2), i) + 1 = i
    BY <1>3, <1>5, <2>1
  <2>3. rest[i] = Pair(l, i) /\ l2[i] = l[i]
    BY <1>2, <1>6, <1>7, <2>1
  <2> QED BY <2>2, <2>3 DEF Pair
<1>9. ListOf(l2) = rest
  BY <1>2, <1>3, <1>4, <1>7, <1>8, ListOfUnique
<1> QED BY <1>2, <1>3, <1>4, <1>9 DEF rest, l2

(* addWifi is the abstract addition.                                        *)
LEMMA AddListed ==
  ASSUME NEW l \in Lists, NEW s \in Strings, NEW p \in Strings
  PROVE  LET nets  == ListOf(l)
             after == ListOf(addWifi(l, s, p))
         IN  /\ nets \in Seq(Pairs) /\ Len(nets) \in 0 .. N
             /\ s # None => after = Append(IF Len(nets) < N THEN nets ELSE Tail(nets), <<s, p>>)
             /\ s = None => after = nets \/ (Len(nets) = N /\ after = Tail(nets))
<1> DEFINE sorted == sortWifi(l)
           d      == deleteWifi(sorted, 0)
           rest   == sortWifi(d)
           new    == [ssid |-> s, pwd |-> p, origin |-> N]
           m      == Cardinality(Used(l))
<1>1. /\ ListOf(l) \in Seq(Pairs) /\ Len(ListOf(l)) = m /\ m \in 0 .. N /\ m \in Nat
  <2>1. Used(l) \subseteq Slot
    BY DEF Used
  <2>2. m \in Nat /\ m <= N
    BY <2>1, SlotsFinite
  <2> QED BY <2>2, ListOfIs, NAssumption
<1>2. sorted \in Lists /\ Used(sorted) = 0 .. m - 1 /\ ListOf(sorted) = ListOf(l)
  BY SortShifts, SortLists
<1>3. Cardinality(Used(sorted)) = m
  <2> HIDE DEF m
  <2>1. 0 \in Int /\ m - 1 \in Int
    BY <1>1
  <2>2. Cardinality(0 .. m - 1) = IF 0 > m - 1 THEN 0 ELSE m - 1 - 0 + 1
    BY <2>1, FS_Interval
  <2> QED BY <1>1, <1>2, <2>2
<1>4. addWifi(l, s, p) = IF m < N THEN [sorted EXCEPT ![m] = new] ELSE [rest EXCEPT ![N - 1] = new]
  BY <1>3 DEF addWifi
<1> HIDE DEF sorted, m
<1>5. CASE m < N
  <2>1. m \in 0 .. N - 1
    BY <1>1, <1>5, NAssumption
  <2>2. addWifi(l, s, p) = [sorted EXCEPT ![m] = new]
    BY <1>4, <1>5
  <2>3. /\ s = None => ListOf([sorted EXCEPT ![m] = new]) = ListOf(sorted)
        /\ s # None => ListOf([sorted EXCEPT ![m] = new]) = Append(ListOf(sorted), <<s, p>>)
    BY <1>2, <2>1, PlaceAppends
  <2> HIDE DEF new
  <2> QED BY <1>1, <1>2, <1>5, <2>2, <2>3
<1>6. CASE ~(m < N)
  <2>1. m = N /\ N \in Nat /\ N - 1 \in 0 .. N - 1
    BY <1>1, <1>6, NAssumption
  <2>2. d \in Lists /\ Cardinality(Used(d)) = N - 1 /\ ListOf(d) = Tail(ListOf(l))
    BY <1>2, <2>1, DeleteOldest
  <2> HIDE DEF d
  <2>3. rest \in Lists /\ Used(rest) = 0 .. (N - 1) - 1 /\ ListOf(rest) = Tail(ListOf(l))
    BY <2>2, SortShifts, SortLists
  <2> HIDE DEF rest
  <2>4. addWifi(l, s, p) = [rest EXCEPT ![N - 1] = new]
    BY <1>4, <1>6
  <2>5. /\ s = None => ListOf(addWifi(l, s, p)) = ListOf(rest)
        /\ s # None => ListOf(addWifi(l, s, p)) = Append(ListOf(rest), <<s, p>>)
    <3>1. /\ s = None => ListOf([rest EXCEPT ![N - 1] = new]) = ListOf(rest)
          /\ s # None => ListOf([rest EXCEPT ![N - 1] = new]) = Append(ListOf(rest), <<s, p>>)
      BY <2>1, <2>3, PlaceAppends
    <3> HIDE DEF new
    <3> QED BY <2>4, <3>1
  <2> QED BY <1>1, <1>6, <2>1, <2>3, <2>5
<1> QED BY <1>5, <1>6

(***************************************************************************)
(* The steps.                                                              *)
(***************************************************************************)
LEMMA FlashListed ==
  ASSUME NEW ssids \in [Slot -> Strings], NEW pwds \in [Slot -> Strings]
  PROVE  Len(Listed(ssids, pwds)) <= N
<1> DEFINE S == {i \in Slot : ssids[i] # None}
<1>1. Cardinality(S) <= N
  BY SlotsFinite
<1>2. IsListing(Listed(ssids, pwds), S, ssids, pwds)
  BY ListingIs
<1> QED BY <1>1, <1>2 DEF IsListing

LEMMA ListOfNext ==
  /\ ListOf(list)' = ListOf(list')
  /\ Listed(connectSSID, connectPass)' = Listed(connectSSID', connectPass')
  BY DEF ListOf, Listed, Before

(* A write or the end of a save: the list stays, whatever is in Flash then. *)
LEMMA WritesMap ==
  ASSUME TypeOK, TypeOK', NEW t \in Tasks, PutSSID(t) \/ PutPass(t) \/ PutFails(t)
  PROVE  Abstract!Store
<1>1. list' = list \/ \E clean \in BOOLEAN : Finish(t, clean)
  <2>1. (sync # "mixed") \in BOOLEAN /\ FALSE \in BOOLEAN
    OBVIOUS
  <2>2. CASE ToPass(t) \/ ToNextSlot(t)
    BY <2>2 DEF ToPass, ToNextSlot
  <2>3. CASE Finish(t, sync # "mixed") \/ Finish(t, FALSE)
    BY <2>1, <2>3
  <2> QED BY <2>2, <2>3 DEF PutSSID, PutPass, PutFails
<1>2. list \in Lists /\ list' \in Lists
  BY DEF TypeOK, Lists
<1>3. \A i \in Slot : list'[i].ssid = list[i].ssid /\ list'[i].pwd = list[i].pwd
  BY <1>1 DEF Finish, Stored
<1>4. Used(list) = Used(list') /\ \A i \in Used(list) : Pair(list, i) = Pair(list', i)
  BY <1>3 DEF Used, Pair
<1>5. ListOf(list') = ListOf(list)
  BY <1>2, <1>4, SameList
<1>6. Len(Listed(connectSSID, connectPass))' <= N
  <2>1. connectSSID' \in [Slot -> Strings] /\ connectPass' \in [Slot -> Strings]
    BY DEF TypeOK
  <2> QED BY <2>1, FlashListed, ListOfNext
<1> QED BY <1>5, <1>6, ListOfNext DEF Abstract!Store

LEMMA AddMaps ==
  ASSUME TypeOK, NEW s \in Strings, NEW p \in Strings, s = p \/ s = None,
         ListOf(list') = ListOf(addWifi(list, s, p)), UNCHANGED flash
  PROVE  [Abstract!Next]_(Abstract!vars)
<1> DEFINE nets == ListOf(list)
<1>1. UNCHANGED Listed(connectSSID, connectPass)
  BY DEF flash
<1>2. /\ s # None => ListOf(list') = Append(IF Len(nets) < N THEN nets ELSE Tail(nets), <<s, p>>)
      /\ s = None => ListOf(list') = nets \/ (Len(nets) = N /\ ListOf(list') = Tail(nets))
  BY AddListed, ListType
<1>3. CASE s # None
  <2>1. <<s, p>> \in {<<n, n>> : n \in Networks}
    BY <1>3 DEF Strings
  <2>2. Abstract!Add(<<s, p>>)
    BY <1>1, <1>2, <1>3, ListOfNext DEF Abstract!Add
  <2> QED BY <2>1, <2>2 DEF Abstract!Next
<1>4. CASE s = None
  <2>1. CASE ListOf(list') = nets
    BY <1>1, <2>1, ListOfNext DEF Abstract!vars
  <2>2. CASE Len(nets) = N /\ ListOf(list') = Tail(nets)
    <3>1. Abstract!AddUnnamed
      BY <1>1, <2>2, ListOfNext DEF Abstract!AddUnnamed
    <3> QED BY <3>1 DEF Abstract!Next
  <2> QED BY <1>2, <1>4, <2>1, <2>2
<1> QED BY <1>3, <1>4

(* The instance has a Cardinality of its own.                               *)
LEMMA SameCardinality == \A S : Abstract!Cardinality(S) = Cardinality(S)
  BY DEF Abstract!Cardinality, Cardinality, Abstract!IsFiniteSet, IsFiniteSet

LEMMA ClearMaps ==
  ASSUME TypeOK, NEW l \in Lists, Used(l) \subseteq Used(list),
         \A i \in Used(l) : Pair(l, i) = Pair(list, i),
         ListOf(list') = ListOf(l), UNCHANGED flash
  PROVE  [Abstract!Next]_(Abstract!vars)
<1>1. UNCHANGED Listed(connectSSID, connectPass)
  BY DEF flash
<1>2. PICK positions \in SUBSET DOMAIN ListOf(list) :
        LET kept == DOMAIN ListOf(list) \ positions
        IN  /\ Len(ListOf(l)) = Cardinality(kept)
            /\ \A p \in kept : ListOf(l)[Cardinality({q \in kept : q <= p})] = ListOf(list)[p]
  BY ClearDeletes, ListType
<1>3. Abstract!Delete(positions)
  <2> DEFINE kept == DOMAIN ListOf(list) \ positions
  <2>1. /\ Len(ListOf(list)') = Abstract!Cardinality(kept)
        /\ \A p \in kept : ListOf(list)'[Abstract!Cardinality({q \in kept : q <= p})] = ListOf(list)[p]
    BY <1>2, ListOfNext, SameCardinality
  <2> QED BY <1>1, <2>1, Zenon DEF Abstract!Delete
<1> QED BY <1>3 DEF Abstract!Next

(* Every step of the board is one of the abstract list, or leaves it alone. *)
LEMMA StepMaps ==
  ASSUME TypeOK, TypeOK', [Next]_vars
  PROVE  [Abstract!Next]_(Abstract!vars)
<1>1. ASSUME NEW t \in Tasks \ {Web}, SketchAdd(t) PROVE [Abstract!Next]_(Abstract!vars)
  BY <1>1, AddMaps DEF SketchAdd
<1>2. ASSUME NEW t \in Tasks \ {Web}, SketchDelete(t) PROVE [Abstract!Next]_(Abstract!vars)
  <2>1. PICK id \in -1 .. N : list' = deleteWifi(list, id)
    BY <1>2 DEF SketchDelete
  <2>2. list' \in Lists
    BY DEF TypeOK, Lists
  <2>3. \A i \in Slot : list'[i] = NoEntry \/ list'[i] = list[i]
    BY <2>1, ListType DEF deleteWifi, Lists
  <2>4. Used(list') \subseteq Used(list) /\ \A i \in Used(list') : Pair(list', i) = Pair(list, i)
    BY <2>3 DEF Used, Pair, NoEntry
  <2> QED BY <1>2, <2>2, <2>4, ClearMaps DEF SketchDelete
<1>3. ASSUME NEW t \in Tasks \ {Web}, SketchSave(t) PROVE [Abstract!Next]_(Abstract!vars)
  <2>1. ListOf(list') = ListOf(list) /\ UNCHANGED flash
    BY <1>3, ListType, SortLists DEF SketchSave, StartSave
  <2> QED BY <2>1, ListOfNext DEF Abstract!vars, flash
<1>4. ASSUME Web \in Tasks, SetWifi PROVE [Abstract!Next]_(Abstract!vars)
  <2>1. PICK n \in Networks : StartSave(Web, addWifi(list, n, n))
    BY <1>4 DEF SetWifi
  <2>2. n \in Strings /\ addWifi(list, n, n) \in Lists
    BY AddShifts, ListType DEF Strings
  <2>3. ListOf(list') = ListOf(addWifi(list, n, n)) /\ UNCHANGED flash
    BY <2>1, <2>2, SortLists DEF StartSave
  <2> QED BY <2>2, <2>3, AddMaps
<1>5. ASSUME Web \in Tasks, NEW c \in SUBSET Slot, DeleteWifi(c)
      PROVE  [Abstract!Next]_(Abstract!vars)
  <2> DEFINE deleted == {i \in Slot : i \in 0 .. Cardinality(c) - 1}
             l == [i \in Slot |-> IF i \in deleted THEN NoEntry ELSE list[i]]
  <2>1. l \in Lists
    BY ClearShifts, ListType
  <2>2. StartSave(Web, l)
    BY <1>5 DEF DeleteWifi
  <2>3. Used(l) \subseteq Used(list) /\ \A i \in Used(l) : Pair(l, i) = Pair(list, i)
    BY DEF Used, Pair, NoEntry
  <2> HIDE DEF l
  <2>4. ListOf(list') = ListOf(l) /\ UNCHANGED flash
    BY <2>1, <2>2, SortLists DEF StartSave
  <2> QED BY <2>1, <2>3, <2>4, ClearMaps
<1>6. ASSUME NEW t \in Tasks, PutSSID(t) \/ PutPass(t) \/ PutFails(t)
      PROVE  [Abstract!Next]_(Abstract!vars)
  BY <1>6, WritesMap DEF Abstract!Next
<1>7. ASSUME Boot PROVE [Abstract!Next]_(Abstract!vars)
  <2>1. list' = [i \in Slot |-> Stored(connectSSID[i], connectPass[i], i)] /\ UNCHANGED flash
    BY <1>7 DEF Boot
  <2>2. /\ [i \in Slot |-> list'[i].ssid] = connectSSID
        /\ [i \in Slot |-> list'[i].pwd] = connectPass
    BY <2>1 DEF Stored, TypeOK
  <2>3. ListOf(list') = Listed(connectSSID, connectPass)
    BY <2>2 DEF ListOf
  <2>4. Abstract!Reload
    BY <2>1, <2>3, ListOfNext DEF Abstract!Reload, flash
  <2> QED BY <2>4 DEF Abstract!Next
<1>8. CASE UNCHANGED vars
  BY <1>8, ListOfNext DEF vars, flash, Abstract!vars
<1> QED BY <1>1, <1>2, <1>3, <1>4, <1>5, <1>6, <1>7, <1>8 DEF Next, Reset, PowerCut

LEMMA InitMaps == Init => Abstract!Init
<1> SUFFICES ASSUME Init PROVE ListOf(list) = <<>> /\ Listed(connectSSID, connectPass) = <<>>
  BY DEF Abstract!Init
<1>1. \A i \in Slot : list[i].ssid = None /\ connectSSID[i] = None
  BY DEF Init, NoEntry
<1>2. TypeOK /\ list \in Lists
  BY TypeInit, ListType
<1>3. Used(list) = {} /\ {i \in Slot : connectSSID[i] # None} = {}
  BY <1>1 DEF Used
<1>4. Cardinality({}) = 0
  BY FS_EmptySet
<1>5. ListOf(list) \in Seq(Pairs) /\ Len(ListOf(list)) = 0
  BY <1>2, <1>3, <1>4, ListOfIs
<1>6. Listed(connectSSID, connectPass) \in Seq(Pairs) /\ Len(Listed(connectSSID, connectPass)) = 0
  <2>1. connectSSID \in [Slot -> Strings] /\ connectPass \in [Slot -> Strings]
    BY <1>2 DEF TypeOK
  <2> QED BY <1>3, <1>4, <2>1, ListingIs DEF IsListing
<1> QED BY <1>5, <1>6, EmptySeq

(* The list of the board implements the abstract first-in first-out list:   *)
(* additions, deletions, sorts, saves and restarts never drop, duplicate or *)
(* reorder a network that the abstract list keeps (NefryWiFi.cpp:185-275).  *)
THEOREM ImplementsNetworkList == Spec => KeepsNetworkList
<1>1. TypeOK /\ TypeOK' /\ [Next]_vars => [Abstract!Next]_(Abstract!vars)
  BY StepMaps
<1> QED BY <1>1, InitMaps, TypeCorrect, PTL DEF Spec, KeepsNetworkList, Abstract!Spec
=============================================================================
