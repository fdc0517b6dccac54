------------------------ MODULE NefryDataStore_proofs ------------------------
(***************************************************************************)
(* Proofs about NefryDataStore, for any keys, values and tasks: a get of a  *)
(* setting returns what was in Flash at boot or has been set since; and for *)
(* the keys that no two tasks were at and whose last write did not fail,    *)
(* cache and Flash agree, /set_config saves its form and /config shows what *)
(* is saved.                                                                *)
(***************************************************************************)
EXTENDS NefryDataStore, TLAPS

USE DEF Keys, Settings, Stored

LEMMA InvInit == Init => IInv
<1> SUFFICES ASSUME Init PROVE IInv
  OBVIOUS
<1> USE KeysAssumption DEF Init, ZeroedCache, NoFlags, JustFlash
<1>1. TypeOK
  BY DEF TypeOK, UserKeys
<1>2. FlashIsKnown /\ FlaggedIsKnown
  BY DEF FlashIsKnown, FlaggedIsKnown
<1>3. CallIsKnown /\ LoopBound
  BY DEF CallIsKnown, LoopBound
<1> QED
  BY <1>1, <1>2, <1>3 DEF IInv

(* A get starts, called by a page or by the sketch.                         *)
LEMMA GetKeepsInv ==
  ASSUME NEW t \in Tasks, NEW k \in Keys, IInv, Get(t, k), UNCHANGED pages,
         t = Web /\ page # "none" => at <= K
  PROVE  IInv'
<1> USE DEF IInv, TypeOK, Get, Goto, pages
<1>1. TypeOK'
  <2>1. contested' \subseteq Keys
    BY DEF Contend
  <2> QED
    BY <2>1
<1>2. (FlashIsKnown /\ FlaggedIsKnown)'
  BY DEF FlashIsKnown, FlaggedIsKnown
<1>3. CallIsKnown'
  BY KeysAssumption DEF CallIsKnown, FlaggedIsKnown
<1>4. LoopBound'
  BY DEF LoopBound
<1> QED
  BY <1>1, <1>2, <1>3, <1>4

LEMMA SetKeepsInv ==
  ASSUME NEW t \in Tasks, NEW k \in Keys, NEW v \in Stored, IInv, Set(t, k, v),
         UNCHANGED pages, t = Web /\ page # "none" => at <= K
  PROVE  IInv'
<1> DEFINE w == Written(k, v)
<1> w \in Stored
  BY KeysAssumption DEF Written
<1> HIDE DEF w
<1> USE DEF IInv, TypeOK, Goto, pages
<1>0. /\ pc[t] = "idle" /\ Goto(t, "setflag")
      /\ key' = [key EXCEPT ![t] = k] /\ val' = [val EXCEPT ![t] = w]
      /\ cache' = [cache EXCEPT ![k] = w] /\ known' = [known EXCEPT ![k] = @ \cup {w}]
      /\ UNCHANGED <<flash, flg, failed, faults, pages>>
  BY DEF Set, w
<1> USE <1>0
<1>1. TypeOK'
  <2>1. contested' \subseteq Keys
    BY DEF Set, Contend
  <2> QED
    BY <2>1
<1>2. (FlashIsKnown /\ FlaggedIsKnown)'
  BY DEF FlashIsKnown, FlaggedIsKnown
<1>3. CallIsKnown'
  BY DEF CallIsKnown
<1>4. LoopBound'
  BY DEF LoopBound
<1> QED
  BY <1>1, <1>2, <1>3, <1>4

LEMMA StepKeepsInv ==
  ASSUME NEW t \in Tasks, IInv,
         Mark(t) \/ Read(t) \/ Fill(t) \/ Flag(t) \/ SetFlag(t)
  PROVE  IInv'
<1> USE DEF IInv, TypeOK, Goto, pages
<1> key[t] \in Keys
  BY DEF CallIsKnown, Mark, Read, Fill, Flag, SetFlag
<1>1. CASE Mark(t)
  <2>1. TypeOK'
    BY <1>1 DEF Mark
  <2>2. (FlashIsKnown /\ FlaggedIsKnown /\ LoopBound)'
    BY <1>1 DEF Mark, FlashIsKnown, FlaggedIsKnown, LoopBound, CallIsKnown
  <2>3. CallIsKnown'
    BY <1>1 DEF Mark, CallIsKnown
  <2> QED
    BY <2>1, <2>2, <2>3
<1>2. CASE Read(t)
  <2>1. TypeOK'
    BY <1>2 DEF Read
  <2>2. (FlashIsKnown /\ FlaggedIsKnown /\ LoopBound)'
    BY <1>2 DEF Read, FlashIsKnown, FlaggedIsKnown, LoopBound
  <2>3. CallIsKnown'
    BY <1>2 DEF Read, CallIsKnown, FlashIsKnown
  <2> QED
    BY <2>1, <2>2, <2>3
<1>3. CASE Fill(t)
  <2>1. TypeOK'
    BY <1>3 DEF Fill
  <2>2. (FlashIsKnown /\ FlaggedIsKnown /\ LoopBound)'
    BY <1>3 DEF Fill, FlashIsKnown, FlaggedIsKnown, LoopBound, CallIsKnown
  <2>3. CallIsKnown'
    BY <1>3 DEF Fill, CallIsKnown
  <2> QED
    BY <2>1, <2>2, <2>3
<1>4. CASE Flag(t)
  <2>1. TypeOK'
    BY <1>4 DEF Flag
  <2>2. (FlashIsKnown /\ FlaggedIsKnown /\ LoopBound)'
    BY <1>4 DEF Flag, FlashIsKnown, FlaggedIsKnown, LoopBound, CallIsKnown
  <2>3. CallIsKnown'
    BY <1>4 DEF Flag, CallIsKnown
  <2> QED
    BY <2>1, <2>2, <2>3
<1>5. CASE SetFlag(t)
  <2>1. TypeOK'
    BY <1>5 DEF SetFlag
  <2>2. (FlashIsKnown /\ FlaggedIsKnown /\ LoopBound)'
    BY <1>5 DEF SetFlag, FlashIsKnown, FlaggedIsKnown, LoopBound, CallIsKnown
  <2>3. CallIsKnown'
    BY <1>5 DEF SetFlag, CallIsKnown
  <2> QED
    BY <2>1, <2>2, <2>3
<1> QED
  BY <1>1, <1>2, <1>3, <1>4, <1>5

(* The end of a call: of a get, which fills the form, and of a set, which   *)
(* writes to Flash.                                                         *)
LEMMA DoneKeepsPosition ==
  ASSUME NEW t \in Tasks, IInv, pc[t] # "idle", Done(t)
  PROVE  at' \in 1 .. K + 1
  BY KeysAssumption DEF IInv, TypeOK, Done, LoopBound

LEMMA ReturnKeepsInv ==
  ASSUME NEW t \in Tasks, IInv, Return(t)
  PROVE  IInv'
<1> USE DEF IInv, TypeOK, Return, Done, Goto
<1> key[t] \in Keys
  BY DEF CallIsKnown
<1>1. TypeOK'
  <2>1. at' \in 1 .. K + 1
    BY DoneKeepsPosition
  <2>2. form' \in [UserKeys -> Stored \cup {None}]
    OBVIOUS
  <2> QED
    BY <2>1, <2>2
<1>2. (FlashIsKnown /\ FlaggedIsKnown)'
  BY DEF FlashIsKnown, FlaggedIsKnown
<1>3. (CallIsKnown /\ LoopBound)'
  BY DEF CallIsKnown, LoopBound
<1> QED
  BY <1>1, <1>2, <1>3

LEMMA PutKeepsInv ==
  ASSUME NEW t \in Tasks, IInv, Put(t)
  PROVE  IInv'
<1> USE DEF IInv, TypeOK, Put, Done, Goto
<1> key[t] \in Keys /\ val[t] \in known[key[t]]
  BY DEF CallIsKnown
<1> ModuleID \in Settings
  BY KeysAssumption
<1>0. key[t] = ModuleID => cache[key[t]] \in known[key[t]]
  BY DEF CallIsKnown
<1>1. TypeOK'
  <2>1. at' \in 1 .. K + 1
    BY DoneKeepsPosition
  <2>2. faults' \in 0 .. MaxFaults
    BY KeysAssumption
  <2> QED
    BY <2>1, <2>2
<1>2. FlashIsKnown'
  BY <1>0 DEF FlashIsKnown
<1>3. FlaggedIsKnown'
  BY DEF FlaggedIsKnown
<1>4. (CallIsKnown /\ LoopBound)'
  BY DEF CallIsKnown, LoopBound
<1> QED
  BY <1>1, <1>2, <1>3, <1>4

LEMMA PagesKeepInv ==
  ASSUME IInv, SetStoreTitle \/ StartConfig \/ StartSetConfig \/ EndPage
  PROVE  IInv'
<1> USE KeysAssumption DEF IInv, TypeOK, calls, Serving, Unchanged
<1>1. TypeOK'
  <2>1. CASE SetStoreTitle
    BY <2>1 DEF SetStoreTitle
  <2>2. CASE StartConfig
    BY <2>2 DEF StartConfig
  <2>3. CASE StartSetConfig
    <3>1. form' \in [UserKeys -> Stored \cup {None}]
      BY <2>3 DEF StartSetConfig
    <3> QED
      BY <2>3, <3>1 DEF StartSetConfig
  <2>4. CASE EndPage
    BY <2>4 DEF EndPage
  <2> QED
    BY <2>1, <2>2, <2>3, <2>4
<1>2. (FlashIsKnown /\ FlaggedIsKnown /\ CallIsKnown)'
  BY DEF FlashIsKnown, FlaggedIsKnown, CallIsKnown, SetStoreTitle, StartConfig,
         StartSetConfig, EndPage
<1>3. LoopBound'
  BY DEF LoopBound, SetStoreTitle, StartConfig, StartSetConfig, EndPage
<1> QED
  BY <1>1, <1>2, <1>3

LEMMA RestartKeepsInv == IInv /\ Restart => IInv'
<1> SUFFICES ASSUME IInv, Restart PROVE IInv'
  OBVIOUS
<1> USE KeysAssumption DEF IInv, TypeOK, Restart, ZeroedCache, NoFlags, JustFlash
<1>1. TypeOK'
  OBVIOUS
<1>2. (FlashIsKnown /\ FlaggedIsKnown /\ CallIsKnown /\ LoopBound)'
  BY DEF FlashIsKnown, FlaggedIsKnown, CallIsKnown, LoopBound
<1> QED
  BY <1>1, <1>2

LEMMA InvNext == IInv /\ [Next]_vars => IInv'
<1> SUFFICES ASSUME IInv, [Next]_vars PROVE IInv'
  OBVIOUS
<1>1. ASSUME NEW t \in Tasks, Mark(t) \/ Read(t) \/ Fill(t) \/ Flag(t) \/ SetFlag(t)
      PROVE  IInv'
  BY <1>1, StepKeepsInv
<1>2. ASSUME NEW t \in Tasks, Return(t) \/ Put(t)
      PROVE  IInv'
  BY <1>2, ReturnKeepsInv, PutKeepsInv
<1>3. ASSUME NEW t \in Tasks, Call(t)
      PROVE  IInv'
  <2>1. PICK k \in Keys : Get(t, k) \/ \E v \in Stored : Set(t, k, v)
    BY <1>3 DEF Call
  <2>2. UNCHANGED pages /\ (t = Web => page = "none")
    BY <1>3 DEF Call
  <2> QED
    BY <2>1, <2>2, GetKeepsInv, SetKeepsInv
<1>4. CASE SetStoreTitle \/ StartConfig \/ StartSetConfig \/ EndPage
  BY <1>4, PagesKeepInv
<1>5. CASE ShowNext
  <2>1. Web \in Tasks /\ at \in UserKeys /\ at <= K
    BY <1>5 DEF ShowNext, Serving, IInv, TypeOK, UserKeys
  <2>2. CASE at \in htmlPrint
    BY <1>5, <2>1, <2>2, GetKeepsInv DEF ShowNext
  <2>3. CASE at \notin htmlPrint
    <3> USE DEF ShowNext, Serving, Unchanged, IInv, TypeOK, calls
    <3>1. TypeOK'
      <4>1. at + 1 \in 1 .. K + 1
        BY <2>1, KeysAssumption DEF UserKeys
      <4> QED
        BY <1>5, <2>3, <4>1
    <3>2. (FlashIsKnown /\ FlaggedIsKnown /\ CallIsKnown /\ LoopBound)'
      BY <1>5, <2>3 DEF FlashIsKnown, FlaggedIsKnown, CallIsKnown, LoopBound
    <3> QED
      BY <3>1, <3>2
  <2> QED
    BY <2>2, <2>3
<1>6. CASE SaveNext
  <2> DEFINE v == IF form[at] = None THEN Default ELSE form[at]
  <2>1. Web \in Tasks /\ at \in UserKeys /\ at <= K
    BY <1>6 DEF SaveNext, Serving, IInv, TypeOK, UserKeys
  <2>2. v \in Stored
    BY <2>1 DEF IInv, TypeOK
  <2>3. Set(Web, at, v) /\ UNCHANGED pages
    BY <1>6 DEF SaveNext
  <2> QED
    BY <2>1, <2>2, <2>3, SetKeepsInv
<1>7. CASE Restart
  BY <1>7, RestartKeepsInv
<1>8. CASE UNCHANGED vars
  BY <1>8 DEF vars, calls, pages, IInv, TypeOK, FlashIsKnown, FlaggedIsKnown,
              CallIsKnown, LoopBound
<1> QED
  BY <1>1, <1>2, <1>3, <1>4, <1>5, <1>6, <1>7, <1>8 DEF Next

(* The invariant holds in every state of every board: any keys, any tasks.  *)
THEOREM InductiveInvariant == Spec => []IInv
<1>1. Init => IInv
  BY InvInit
<1>2. IInv /\ [Next]_vars => IInv'
  BY InvNext
<1> QED
  BY <1>1, <1>2, PTL DEF Spec

(* A get of a setting (getModuleID, getBootSelector, getUser, ...) returns  *)
(* what Flash held at boot or a value set since, whatever runs beside it.   *)
THEOREM SettingsAreKnown == Spec => []SettingsReturnKnown
<1>1. IInv => SettingsReturnKnown
  BY DEF IInv, CallIsKnown, SettingsReturnKnown, ReturnsKnown
<1> QED
  BY <1>1, InductiveInvariant, PTL

(* Nothing is in the cache or on a page at first.                           *)
LEMMA QuietInit == Init => QuietIInv
<1> SUFFICES ASSUME Init PROVE QuietIInv
  OBVIOUS
<1>1. Exclusive /\ CallInStep
  BY DEF Init, Exclusive, CallInStep
<1>2. QuietAgrees
  BY DEF Init, NoFlags, QuietAgrees
<1>3. PageInStep /\ PageShows
  BY DEF Init, PageInStep, PageShows, PassedBy
<1> QED
  BY <1>1, <1>2, <1>3 DEF QuietIInv

(* A task starts to work on a key: alone, or the key is contested.          *)
LEMMA StartIsExclusive ==
  ASSUME NEW t \in Tasks, NEW k \in Keys, IInv, Exclusive, pc[t] = "idle", Contend(t, k),
         key' = [key EXCEPT ![t] = k], NEW place, pc' = [pc EXCEPT ![t] = place]
  PROVE  /\ Exclusive'
         /\ contested \subseteq contested'
         /\ k \notin contested' => \A u \in Tasks \ {t} : pc[u] # "idle" => key[u] # k
         /\ t # Web /\ page # "none" /\ k \in UserKeys => k \in contested'
<1>1. contested \subseteq contested'
  BY DEF Contend
<1>2. k \notin contested' => \A u \in Tasks \ {t} : pc[u] # "idle" => key[u] # k
  BY DEF Contend
<1>3. t # Web /\ page # "none" /\ k \in UserKeys => k \in contested'
  BY DEF Contend
<1>4. ASSUME NEW u \in Tasks, u # t PROVE key'[u] = key[u] /\ pc'[u] = pc[u]
  BY <1>4 DEF IInv, TypeOK
<1>5. key'[t] = k
  BY DEF IInv, TypeOK
<1>6. Exclusive'
  BY <1>1, <1>2, <1>4, <1>5 DEF Exclusive
<1> QED
  BY <1>1, <1>2, <1>3, <1>6

LEMMA GetKeepsQuiet ==
  ASSUME NEW t \in Tasks, NEW k \in Keys, IInv, QuietIInv, Get(t, k), UNCHANGED pages,
         t = Web /\ page # "none" => page = "config" /\ k = at
  PROVE  QuietIInv'
<1> DEFINE place == IF flg[k] THEN "return" ELSE IF k \in UserKeys THEN "mark" ELSE "read"
<1>1. /\ pc[t] = "idle" /\ Contend(t, k) /\ key' = [key EXCEPT ![t] = k]
      /\ pc' = [pc EXCEPT ![t] = place]
      /\ UNCHANGED <<flash, cache, flg, val, failed, page, at, form>>
  BY DEF Get, Goto, pages
<1>2. /\ Exclusive' /\ contested \subseteq contested'
      /\ k \notin contested' => \A u \in Tasks \ {t} : pc[u] # "idle" => key[u] # k
      /\ t # Web /\ page # "none" /\ k \in UserKeys => k \in contested'
  <2> HIDE DEF place
  <2> QED
    BY <1>1, StartIsExclusive DEF QuietIInv
<1>3. key'[t] = k /\ pc'[t] = place
  BY <1>1 DEF IInv, TypeOK
<1>4. \A u \in Tasks \ {t} : key'[u] = key[u] /\ pc'[u] = pc[u]
  BY <1>1 DEF IInv, TypeOK
<1>5. place \in {"return", "mark", "read"} /\ (place = "return" => flg[k])
  OBVIOUS
<1> HIDE DEF place
<1>6. CallInStep'
  <2>1. k \notin Disturbed' /\ flg[k] => cache[k] = flash[k]
    BY <1>1, <1>2 DEF QuietIInv, QuietAgrees, Busy, Disturbed
  <2> QED
    BY <1>1, <1>2, <1>3, <1>4, <1>5, <2>1 DEF QuietIInv, CallInStep, Disturbed
<1>7. QuietAgrees'
  <2>1. Busy \subseteq Busy'
    <3> SUFFICES ASSUME NEW u \in Tasks, pc[u] # "idle"
                 PROVE  \E w \in Tasks : pc'[w] # "idle" /\ key[u] = key'[w]
      BY DEF Busy
    <3> QED
      BY <1>1, <1>4
  <2> QED
    BY <1>1, <1>2, <2>1 DEF QuietIInv, QuietAgrees, Disturbed
<1>8. PageInStep'
  BY <1>1, <1>2, <1>3, <1>4, <1>5 DEF QuietIInv, PageInStep, PassedBy, Sent, Disturbed
<1>9. PageShows'
  BY <1>1, <1>2 DEF QuietIInv, PageShows, Disturbed
<1> QED
  BY <1>2, <1>6, <1>7, <1>8, <1>9 DEF QuietIInv

LEMMA SetKeepsQuiet ==
  ASSUME NEW t \in Tasks, NEW k \in Keys, NEW v \in Stored, IInv, QuietIInv, Set(t, k, v),
         UNCHANGED pages,
         t = Web /\ page # "none" => page = "set_config" /\ k = at /\ k \in UserKeys /\ v = Sent(at)
  PROVE  QuietIInv'
<1> DEFINE w == Written(k, v)
<1>0. k \in UserKeys => w = v
  BY KeysAssumption DEF Written
<1>1. /\ pc[t] = "idle" /\ Contend(t, k) /\ key' = [key EXCEPT ![t] = k]
      /\ pc' = [pc EXCEPT ![t] = "setflag"] /\ val' = [val EXCEPT ![t] = w]
      /\ cache' = [cache EXCEPT ![k] = w]
      /\ UNCHANGED <<flash, flg, failed, page, at, form>>
  BY DEF Set, Goto, pages
<1> HIDE DEF w
<1>2. /\ Exclusive' /\ contested \subseteq contested'
      /\ k \notin contested' => \A u \in Tasks \ {t} : pc[u] # "idle" => key[u] # k
      /\ t # Web /\ page # "none" /\ k \in UserKeys => k \in contested'
  BY <1>1, StartIsExclusive DEF QuietIInv
<1>3. key'[t] = k /\ pc'[t] = "setflag" /\ val'[t] = w /\ cache'[k] = w
  BY <1>1 DEF IInv, TypeOK
<1>4. \A u \in Tasks \ {t} : key'[u] = key[u] /\ pc'[u] = pc[u] /\ val'[u] = val[u]
  BY <1>1 DEF IInv, TypeOK
<1>5. \A j \in Keys \ {k} : cache'[j] = cache[j]
  BY <1>1 DEF IInv, TypeOK
<1>6. CallInStep'
  <2>1. ASSUME NEW u \in Tasks, u # t, pc[u] # "idle", key[u] \notin contested'
        PROVE  cache'[key[u]] = cache[key[u]]
    <3>1. key[u] \in Keys /\ key[u] # k
      BY <1>2, <2>1 DEF IInv, CallIsKnown
    <3> QED
      BY <1>5, <3>1
  <2> QED
    BY <1>1, <1>2, <1>3, <1>4, <2>1 DEF QuietIInv, CallInStep, Disturbed
<1>7. QuietAgrees'
  <2>1. Busy \subseteq Busy' /\ k \in Busy'
    <3>1. ASSUME NEW u \in Tasks, pc[u] # "idle"
          PROVE  \E x \in Tasks : pc'[x] # "idle" /\ key[u] = key'[x]
      BY <1>1, <1>4, <3>1
    <3>2. pc'[t] # "idle" /\ key'[t] = k
      BY <1>3
    <3> QED
      BY <3>1, <3>2 DEF Busy
  <2> QED
    BY <1>1, <1>2, <1>5, <2>1 DEF QuietIInv, QuietAgrees, Disturbed
<1>8. PageInStep'
  <2>1. t = Web /\ page # "none" => page = "set_config" /\ k = at /\ w = Sent(at)
    BY <1>0
  <2>2. UNCHANGED <<page, at, form, flash, failed>>
    BY <1>1
  <2> QED
    BY <1>1, <1>2, <1>3, <1>4, <2>1, <2>2 DEF QuietIInv, PageInStep, PassedBy, Sent, Disturbed
<1>9. PageShows'
  BY <1>1, <1>2 DEF QuietIInv, PageShows, Disturbed
<1> QED
  BY <1>2, <1>6, <1>7, <1>8, <1>9 DEF QuietIInv

(* A step within a call changes what belongs to its key only.               *)
LEMMA StepKeepsExclusive ==
  ASSUME NEW t \in Tasks, IInv, QuietIInv, pc[t] # "idle", UNCHANGED <<key, contested>>,
         NEW place \in {"read", "fill", "flag", "return", "put"}, pc' = [pc EXCEPT ![t] = place]
  PROVE  /\ Exclusive' /\ Busy' = Busy
         /\ pc'[t] = place /\ \A u \in Tasks \ {t} : pc'[u] = pc[u]
         /\ key[t] \in Keys
         /\ key[t] \notin contested => \A u \in Tasks \ {t} : pc[u] # "idle" => key[u] # key[t]
<1>1. pc'[t] = place /\ \A u \in Tasks \ {t} : pc'[u] = pc[u]
  BY DEF IInv, TypeOK
<1>2. \A u \in Tasks : pc'[u] # "idle" <=> pc[u] # "idle"
  BY <1>1
<1>3. Exclusive'
  BY <1>2 DEF QuietIInv, Exclusive
<1>4. Busy' = Busy
  BY <1>2 DEF Busy
<1>5. key[t] \in Keys
  BY DEF IInv, CallIsKnown
<1>6. key[t] \notin contested => \A u \in Tasks \ {t} : pc[u] # "idle" => key[u] # key[t]
  BY DEF QuietIInv, Exclusive
<1> QED
  BY <1>1, <1>3, <1>4, <1>5, <1>6

LEMMA StepKeepsQuiet ==
  ASSUME NEW t \in Tasks, IInv, QuietIInv,
         Mark(t) \/ Read(t) \/ Fill(t) \/ Flag(t) \/ SetFlag(t)
  PROVE  QuietIInv'
<1> DEFINE k == key[t]
<1>1. UNCHANGED <<flash, key, page, at, form, failed, contested>>
  BY DEF Mark, Read, Fill, Flag, SetFlag, pages
<1>2. PICK place \in {"read", "fill", "flag", "return", "put"} :
        /\ pc' = [pc EXCEPT ![t] = place]
        /\ place = "put" <=> SetFlag(t)
        /\ place = "fill" <=> Read(t)
        /\ place = "read" <=> Mark(t)
  BY DEF Mark, Read, Fill, Flag, SetFlag, Goto
<1>3. pc[t] # "idle" /\ (place = "put" => pc[t] = "setflag")
  BY <1>2 DEF Mark, Read, Fill, Flag, SetFlag
<1>4. /\ Exclusive' /\ Busy' = Busy
      /\ pc'[t] = place /\ \A u \in Tasks \ {t} : pc'[u] = pc[u]
      /\ k \in Keys
      /\ k \notin contested => \A u \in Tasks \ {t} : pc[u] # "idle" => key[u] # k
  BY <1>1, <1>2, <1>3, StepKeepsExclusive
<1>5. /\ \A j \in Keys \ {k} : flg'[j] = flg[j] /\ cache'[j] = cache[j]
      /\ \A u \in Tasks \ {t} : val'[u] = val[u]
  BY <1>4 DEF Mark, Read, Fill, Flag, SetFlag, IInv, TypeOK
<1>6. k \in Busy
  BY <1>3 DEF Busy
<1>7. CallInStep'
  <2>1. ASSUME NEW u \in Tasks, u # t, pc[u] # "idle", key[u] \notin contested
        PROVE  cache'[key[u]] = cache[key[u]]
    <3>1. key[u] \in Keys /\ key[u] # k
      BY <1>4, <2>1 DEF IInv, CallIsKnown
    <3> QED
      BY <1>5, <3>1
  <2>2. place = "fill" => val'[t] = flash[k]
    BY <1>2, <1>4 DEF Read, IInv, TypeOK
  <2>3. place \in {"flag", "return"} /\ k \notin Disturbed => cache'[k] = flash[k]
    <3>1. CASE Fill(t)
      BY <1>4, <3>1 DEF Fill, IInv, TypeOK, QuietIInv, CallInStep
    <3>2. CASE Flag(t)
      BY <3>2 DEF Flag, QuietIInv, CallInStep
    <3> QED
      BY <1>2, <3>1, <3>2
  <2>4. place = "put" /\ k \notin contested => cache'[k] = val'[t]
    BY <1>2 DEF SetFlag, QuietIInv, CallInStep
  <2>5. ASSUME NEW u \in Tasks, u # t
        PROVE  /\ pc'[u] = "fill" /\ key'[u] \notin Disturbed' => val'[u] = flash'[key'[u]]
               /\ pc'[u] \in {"flag", "return"} /\ key'[u] \notin Disturbed' =>
                    cache'[key'[u]] = flash'[key'[u]]
               /\ pc'[u] \in {"setflag", "put"} /\ key'[u] \notin contested' =>
                    cache'[key'[u]] = val'[u]
    BY <1>1, <1>4, <1>5, <2>1, <2>5 DEF QuietIInv, CallInStep, Disturbed
  <2>6. /\ pc'[t] = "fill" /\ key'[t] \notin Disturbed' => val'[t] = flash'[key'[t]]
        /\ pc'[t] \in {"flag", "return"} /\ key'[t] \notin Disturbed' =>
             cache'[key'[t]] = flash'[key'[t]]
        /\ pc'[t] \in {"setflag", "put"} /\ key'[t] \notin contested' => cache'[key'[t]] = val'[t]
    BY <1>1, <1>4, <2>2, <2>3, <2>4 DEF Disturbed
  <2> QED
    BY <2>5, <2>6 DEF CallInStep
<1>8. QuietAgrees'
  BY <1>1, <1>4, <1>5, <1>6 DEF QuietIInv, QuietAgrees, Disturbed
<1>9. PageInStep'
  <2>1. pc'[Web] # "idle" => pc[Web] # "idle"
    BY <1>2, <1>3 DEF IInv, TypeOK
  <2>2. page # "none" => Web \in Tasks
    BY DEF IInv, LoopBound
  <2>3. page = "config" => pc'[Web] \notin {"setflag", "put"}
    BY <1>3, <1>4, <2>2 DEF QuietIInv, PageInStep
  <2>4. page = "set_config" => pc'[Web] \in {"idle", "setflag", "put"} /\ val'[Web] = val[Web]
    <3>1. CASE t = Web
      BY <1>2, <1>4, <3>1 DEF QuietIInv, PageInStep, Mark, Read, Fill, Flag, SetFlag
    <3>2. CASE t # Web
      BY <1>4, <1>5, <2>2, <3>2 DEF QuietIInv, PageInStep
    <3> QED
      BY <3>1, <3>2
  <2>5. ASSUME NEW u \in Tasks \ {Web}, pc'[u] # "idle" PROVE pc[u] # "idle"
    BY <1>3, <1>4, <2>5
  <2> QED
    BY <1>1, <2>1, <2>3, <2>4, <2>5 DEF QuietIInv, PageInStep, PassedBy, Sent, Disturbed
<1>10. PageShows'
  BY <1>1 DEF QuietIInv, PageShows, Disturbed
<1> QED
  BY <1>4, <1>7, <1>8, <1>9, <1>10 DEF QuietIInv

(* The end of a call leaves its key to the others.                          *)
LEMMA DoneKeepsExclusive ==
  ASSUME NEW t \in Tasks, IInv, QuietIInv, pc[t] # "idle", Done(t), UNCHANGED <<contested, page>>
  PROVE  /\ Exclusive' /\ Busy \subseteq Busy' \cup {key[t]}
         /\ pc'[t] = "idle"
         /\ \A u \in Tasks \ {t} : pc'[u] = pc[u] /\ key'[u] = key[u] /\ val'[u] = val[u]
         /\ key[t] \in Keys
         /\ key[t] \notin contested => \A u \in Tasks \ {t} : pc[u] # "idle" => key[u] # key[t]
<1>1. /\ pc'[t] = "idle"
      /\ \A u \in Tasks \ {t} : pc'[u] = pc[u] /\ key'[u] = key[u] /\ val'[u] = val[u]
  BY DEF IInv, TypeOK, Done, Goto
<1>2. Exclusive'
  BY <1>1 DEF QuietIInv, Exclusive
<1>3. Busy \subseteq Busy' \cup {key[t]}
  <2> SUFFICES ASSUME NEW u \in Tasks, pc[u] # "idle", key[u] # key[t]
               PROVE  \E x \in Tasks : pc'[x] # "idle" /\ key[u] = key'[x]
    BY DEF Busy
  <2> QED
    BY <1>1
<1>4. key[t] \in Keys
  BY DEF IInv, CallIsKnown
<1>5. key[t] \notin contested => \A u \in Tasks \ {t} : pc[u] # "idle" => key[u] # key[t]
  BY DEF QuietIInv, Exclusive
<1> QED
  BY <1>1, <1>2, <1>3, <1>4, <1>5

LEMMA ReturnKeepsQuiet == ASSUME NEW t \in Tasks, IInv, QuietIInv, Return(t) PROVE QuietIInv'
<1> DEFINE k == key[t]
<1>1. /\ pc[t] = "return" /\ Done(t)
      /\ UNCHANGED <<flash, cache, flg, page, failed, contested>>
  BY DEF Return
<1>2. /\ Exclusive' /\ Busy \subseteq Busy' \cup {k}
      /\ pc'[t] = "idle"
      /\ \A u \in Tasks \ {t} : pc'[u] = pc[u] /\ key'[u] = key[u] /\ val'[u] = val[u]
      /\ k \in Keys
      /\ k \notin contested => \A u \in Tasks \ {t} : pc[u] # "idle" => key[u] # k
  BY <1>1, DoneKeepsExclusive
<1>3. k \notin Disturbed => cache[k] = flash[k]
  BY <1>1 DEF QuietIInv, CallInStep
<1>4. CallInStep'
  BY <1>1, <1>2 DEF QuietIInv, CallInStep, Disturbed
<1>5. QuietAgrees'
  BY <1>1, <1>2, <1>3 DEF QuietIInv, QuietAgrees, Disturbed
<1>6. page = "set_config" => t # Web
  BY <1>1 DEF QuietIInv, PageInStep
<1>7. page = "set_config" => UNCHANGED <<at, form>>
  BY <1>1, <1>6 DEF Return, Done
<1>8. CASE page = "config" /\ t = Web
  <2>1. k = at /\ at \in UserKeys
    BY <1>1, <1>8 DEF QuietIInv, PageInStep, IInv, TypeOK, LoopBound, UserKeys
  <2>2. form' = [form EXCEPT ![at] = cache[k]]
    BY <1>8 DEF Return
  <2>3. form'[at] = cache[k] /\ \A j \in UserKeys \ {at} : form'[j] = form[j]
    BY <2>1, <2>2 DEF IInv, TypeOK
  <2>4. PageShows'
    BY <1>1, <1>3, <2>1, <2>3 DEF QuietIInv, PageShows, Disturbed
  <2>5. ASSUME NEW u \in Tasks \ {Web}, pc'[u] # "idle", key'[u] \in UserKeys, PassedBy(key[u])'
        PROVE  key'[u] \in contested'
    <3>1. pc[u] # "idle" /\ key'[u] = key[u] /\ form'[key[u]] # None
      BY <1>1, <1>2, <1>8, <2>5 DEF PassedBy
    <3>2. CASE key[u] = at
      BY <1>1, <1>2, <1>8, <2>1, <3>1, <3>2
    <3>3. CASE key[u] # at
      BY <1>1, <1>8, <2>3, <2>5, <3>1, <3>3 DEF QuietIInv, PageInStep, PassedBy
    <3> QED
      BY <3>2, <3>3
  <2>6. PageInStep'
    BY <1>1, <1>2, <1>8, <2>5 DEF PageInStep
  <2> QED
    BY <1>2, <1>4, <1>5, <2>4, <2>6 DEF QuietIInv
<1>9. CASE ~(page = "config" /\ t = Web)
  <2>1. page # "none" => UNCHANGED <<at, form>> /\ t # Web
    BY <1>1, <1>6, <1>7, <1>9 DEF Return, Done, IInv, TypeOK
  <2>2. page # "none" => Web \in Tasks
    BY DEF IInv, LoopBound
  <2>3. PageShows'
    BY <1>1, <2>1 DEF QuietIInv, PageShows, Disturbed
  <2>4. ASSUME NEW u \in Tasks \ {Web}, pc'[u] # "idle" PROVE pc[u] # "idle" /\ key'[u] = key[u]
    BY <1>2, <2>4
  <2>5. PageInStep'
    BY <1>1, <1>2, <2>1, <2>2, <2>4 DEF QuietIInv, PageInStep, PassedBy, Sent, Disturbed
  <2> QED
    BY <1>2, <1>4, <1>5, <2>3, <2>5 DEF QuietIInv
<1> QED
  BY <1>8, <1>9

LEMMA PutKeepsQuiet == ASSUME NEW t \in Tasks, IInv, QuietIInv, Put(t) PROVE QuietIInv'
<1> DEFINE k == key[t]
<1>1. /\ pc[t] = "put" /\ Done(t)
      /\ UNCHANGED <<cache, flg, page, form, contested>>
  BY DEF Put
<1>2. /\ Exclusive' /\ Busy \subseteq Busy' \cup {k}
      /\ pc'[t] = "idle"
      /\ \A u \in Tasks \ {t} : pc'[u] = pc[u] /\ key'[u] = key[u] /\ val'[u] = val[u]
      /\ k \in Keys
      /\ k \notin contested => \A u \in Tasks \ {t} : pc[u] # "idle" => key[u] # k
  BY <1>1, DoneKeepsExclusive
<1>3. /\ \A j \in Keys \ {k} : flash'[j] = flash[j] /\ (j \in failed' <=> j \in failed)
      /\ k \notin failed' => flash'[k] = IF k = ModuleID THEN cache[k] ELSE val[t]
  BY <1>2 DEF Put, IInv, TypeOK
<1>4. k \notin contested => cache[k] = val[t]
  BY <1>1 DEF QuietIInv, CallInStep
<1>5. k \notin Disturbed' => cache[k] = flash'[k]
  BY <1>1, <1>3, <1>4 DEF Disturbed
<1>6. ASSUME NEW u \in Tasks, u # t, pc[u] # "idle", key[u] \notin contested
      PROVE  key[u] \in Keys \ {k}
  BY <1>2, <1>6 DEF IInv, CallIsKnown
<1>7. CallInStep'
  <2>1. ASSUME NEW u \in Tasks, pc'[u] # "idle"
        PROVE  u # t /\ pc[u] # "idle" /\ pc'[u] = pc[u] /\ key'[u] = key[u] /\ val'[u] = val[u]
    BY <1>2, <2>1
  <2> QED
    BY <1>1, <1>3, <1>6, <2>1 DEF QuietIInv, CallInStep, Disturbed
<1>8. QuietAgrees'
  BY <1>1, <1>2, <1>3, <1>5 DEF QuietIInv, QuietAgrees, Disturbed
<1>9. page = "config" => t # Web
  BY <1>1 DEF QuietIInv, PageInStep
<1>10. ASSUME t # Web, k \in UserKeys, PassedBy(k) PROVE k \in contested
  BY <1>1, <1>10 DEF QuietIInv, PageInStep
<1>11. page # "none" => Web \in Tasks
  BY DEF IInv, LoopBound
<1>12. at \in 1 .. K + 1 /\ K \in Nat
  BY KeysAssumption DEF IInv, TypeOK
<1>13. ModuleID \notin UserKeys
  BY KeysAssumption
<1>14. PageShows'
  <2> SUFFICES ASSUME page = "config", NEW j \in UserKeys, j \notin Disturbed'
               PROVE  form[j] \in {None, flash'[j]}
    BY <1>1 DEF PageShows
  <2>1. CASE j = k
    BY <1>1, <1>9, <1>10, <2>1 DEF PassedBy, Disturbed
  <2>2. CASE j # k
    BY <1>1, <1>3, <2>2 DEF QuietIInv, PageShows, Disturbed
  <2> QED
    BY <2>1, <2>2
<1>15. CASE page = "set_config" /\ t = Web
  <2>1. k = at /\ at \in UserKeys /\ val[t] = Sent(at) /\ at' = at + 1
    BY <1>1, <1>12, <1>15 DEF QuietIInv, PageInStep, IInv, LoopBound, Done, UserKeys
  <2>2. ASSUME NEW j \in UserKeys, j \notin Disturbed', j < at' PROVE flash'[j] = Sent(j)'
    <3>1. Sent(j)' = Sent(j)
      BY <1>1 DEF Sent
    <3>2. CASE j = k
      BY <1>3, <1>13, <2>1, <2>2, <3>1, <3>2 DEF Disturbed
    <3>3. CASE j # k
      <4>1. j < at /\ j \notin Disturbed
        BY <1>1, <1>3, <1>12, <2>1, <2>2, <3>3 DEF UserKeys, Disturbed
      <4> QED
        BY <1>3, <1>15, <2>2, <3>1, <3>3, <4>1 DEF QuietIInv, PageInStep
    <3> QED
      BY <3>2, <3>3
  <2>3. ASSUME NEW u \in Tasks \ {Web}, pc'[u] # "idle", key'[u] \in UserKeys, PassedBy(key[u])'
        PROVE  key'[u] \in contested'
    <3>1. pc[u] # "idle" /\ key'[u] = key[u] /\ key[u] < at'
      BY <1>1, <1>2, <1>15, <2>3 DEF PassedBy
    <3>2. CASE key[u] = at
      BY <1>1, <1>2, <1>15, <2>1, <3>1, <3>2
    <3>3. CASE key[u] # at
      <4>1. key[u] < at
        BY <1>12, <2>1, <2>3, <3>1, <3>3 DEF UserKeys
      <4> QED
        BY <1>1, <1>15, <2>3, <3>1, <4>1 DEF QuietIInv, PageInStep, PassedBy
    <3> QED
      BY <3>2, <3>3
  <2>4. PageInStep'
    BY <1>1, <1>2, <1>15, <2>2, <2>3 DEF PageInStep
  <2> QED
    BY <1>2, <1>7, <1>8, <1>14, <2>4 DEF QuietIInv
<1>16. CASE ~(page = "set_config" /\ t = Web)
  <2>1. page # "none" => at' = at /\ t # Web
    BY <1>1, <1>9, <1>16 DEF Done, IInv, TypeOK
  <2>2. ASSUME NEW u \in Tasks \ {Web}, pc'[u] # "idle" PROVE pc[u] # "idle" /\ key'[u] = key[u]
    BY <1>2, <2>2
  <2>3. ASSUME page = "set_config", NEW j \in UserKeys, j \notin Disturbed', j < at
        PROVE  flash'[j] = Sent(j)
    <3>1. j # k
      BY <1>1, <1>10, <2>1, <2>3 DEF PassedBy, Disturbed
    <3> QED
      BY <1>1, <1>3, <2>3, <3>1 DEF QuietIInv, PageInStep, Disturbed
  <2>4. page = "set_config" => \A j \in UserKeys \ Disturbed' : j < at' => flash'[j] = Sent(j)'
    BY <1>1, <2>1, <2>3 DEF Sent
  <2>5. page # "none" => pc'[Web] = pc[Web] /\ key'[Web] = key[Web] /\ val'[Web] = val[Web]
    BY <1>2, <1>11, <2>1
  <2>6. \A u \in Tasks \ {Web} :
          pc'[u] # "idle" /\ key'[u] \in UserKeys /\ PassedBy(key[u])' => key'[u] \in contested'
    BY <1>1, <2>1, <2>2 DEF QuietIInv, PageInStep, PassedBy
  <2>7. PageInStep'
    BY <1>1, <2>1, <2>4, <2>5, <2>6 DEF QuietIInv, PageInStep, Sent
  <2> QED
    BY <1>2, <1>7, <1>8, <1>14, <2>7 DEF QuietIInv
<1> QED
  BY <1>15, <1>16

(* A page starts with nothing passed, and ends with nothing left to keep;   *)
(* /config skips the values it does not show.                               *)
LEMMA PagesKeepQuiet ==
  ASSUME IInv, QuietIInv,
         \/ SetStoreTitle \/ StartConfig \/ StartSetConfig \/ EndPage
         \/ ShowNext /\ at \notin htmlPrint
  PROVE  QuietIInv'
<1>1. UNCHANGED <<flash, cache, flg, pc, key, val, failed, contested>>
  BY DEF SetStoreTitle, StartConfig, StartSetConfig, EndPage, ShowNext, Unchanged, calls
<1>2. (Exclusive /\ CallInStep /\ QuietAgrees)'
  BY <1>1 DEF QuietIInv, Exclusive, CallInStep, QuietAgrees, Busy, Disturbed
<1>3. CASE SetStoreTitle
  <2>1. UNCHANGED <<page, at, form>>
    BY <1>3 DEF SetStoreTitle
  <2> QED
    BY <1>1, <1>2, <2>1 DEF QuietIInv, PageInStep, PageShows, PassedBy, Sent, Disturbed
<1>4. CASE StartConfig
  <2>1. page' = "config" /\ pc[Web] = "idle" /\ form' = [j \in UserKeys |-> None]
    BY <1>4 DEF StartConfig, Serving
  <2> QED
    BY <1>1, <1>2, <2>1 DEF QuietIInv, PageInStep, PageShows, PassedBy
<1>5. CASE StartSetConfig
  <2>1. page' = "set_config" /\ pc[Web] = "idle" /\ at' = 1
    BY <1>5 DEF StartSetConfig, Serving
  <2>2. \A j \in UserKeys : ~(j < at')
    BY <2>1 DEF UserKeys
  <2> QED
    BY <1>1, <1>2, <2>1, <2>2 DEF QuietIInv, PageInStep, PageShows, PassedBy
<1>6. CASE EndPage
  <2>1. page' = "none"
    BY <1>6 DEF EndPage
  <2> QED
    BY <1>1, <1>2, <2>1 DEF QuietIInv, PageInStep, PageShows, PassedBy
<1>7. CASE ShowNext /\ at \notin htmlPrint
  <2>1. page = "config" /\ pc[Web] = "idle" /\ UNCHANGED <<page, form>>
    BY <1>7 DEF ShowNext, Serving
  <2> QED
    BY <1>1, <1>2, <2>1 DEF QuietIInv, PageInStep, PageShows, PassedBy, Disturbed
<1> QED
  BY <1>3, <1>4, <1>5, <1>6, <1>7

(* A restart leaves no call, no flag and no page.                           *)
LEMMA RestartKeepsQuiet == Restart => QuietIInv'
<1> SUFFICES ASSUME Restart PROVE QuietIInv'
  OBVIOUS
<1>1. (Exclusive /\ CallInStep)'
  BY DEF Restart, Exclusive, CallInStep
<1>2. (QuietAgrees /\ PageInStep /\ PageShows)'
  BY DEF Restart, NoFlags, QuietAgrees, PageInStep, PageShows, PassedBy
<1> QED
  BY <1>1, <1>2 DEF QuietIInv

LEMMA QuietNext == IInv /\ QuietIInv /\ [Next]_vars => QuietIInv'
<1> SUFFICES ASSUME IInv, QuietIInv, [Next]_vars PROVE QuietIInv'
  OBVIOUS
<1>1. ASSUME NEW t \in Tasks, Mark(t) \/ Read(t) \/ Fill(t) \/ Flag(t) \/ SetFlag(t)
      PROVE  QuietIInv'
  BY <1>1, StepKeepsQuiet
<1>2. ASSUME NEW t \in Tasks, Return(t) \/ Put(t)
      PROVE  QuietIInv'
  BY <1>2, ReturnKeepsQuiet, PutKeepsQuiet
<1>3. ASSUME NEW t \in Tasks, Call(t)
      PROVE  QuietIInv'
  <2>1. PICK k \in Keys : Get(t, k) \/ \E v \in Stored : Set(t, k, v)
    BY <1>3 DEF Call
  <2>2. UNCHANGED pages /\ (t = Web => page = "none")
    BY <1>3 DEF Call
  <2> QED
    BY <2>1, <2>2, GetKeepsQuiet, SetKeepsQuiet
<1>4. CASE \/ SetStoreTitle \/ StartConfig \/ StartSetConfig \/ EndPage
           \/ ShowNext /\ at \notin htmlPrint
  BY <1>4, PagesKeepQuiet
<1>5. CASE ShowNext /\ at \in htmlPrint
  <2>1. Web \in Tasks /\ at \in UserKeys /\ page = "config"
    BY <1>5 DEF ShowNext, Serving, IInv, TypeOK, UserKeys
  <2>2. Get(Web, at) /\ UNCHANGED pages
    BY <1>5 DEF ShowNext
  <2> QED
    BY <2>1, <2>2, GetKeepsQuiet
<1>6. CASE SaveNext
  <2>1. Web \in Tasks /\ at \in UserKeys /\ page = "set_config"
    BY <1>6 DEF SaveNext, Serving, IInv, TypeOK, UserKeys
  <2>2. Sent(at) \in Stored
    BY <2>1 DEF IInv, TypeOK, Sent
  <2>3. Set(Web, at, Sent(at)) /\ UNCHANGED pages
    BY <1>6 DEF SaveNext, Sent
  <2> QED
    BY <2>1, <2>2, <2>3, SetKeepsQuiet
<1>7. CASE Restart
  BY <1>7, RestartKeepsQuiet
<1>8. CASE UNCHANGED vars
  <2>1. UNCHANGED <<flash, cache, flg, pc, key, val, page, at, form, failed, contested>>
    BY <1>8 DEF vars, calls, pages
  <2> QED
    BY <2>1 DEF QuietIInv, Exclusive, CallInStep, QuietAgrees, PageInStep, PageShows, Busy,
                Disturbed, PassedBy, Sent
<1> QED
  BY <1>1, <1>2, <1>3, <1>4, <1>5, <1>6, <1>7, <1>8 DEF Next

(* What makes cache, Flash and pages agree holds at every step of every     *)
(* call, whatever two tasks do to other keys.                               *)
THEOREM QuietInvariant == Spec => []QuietIInv
<1> QED
  BY QuietInit, QuietNext, InductiveInvariant, PTL DEF Spec

(* A key no task is at, that no two were at and whose last write did not    *)
(* fail, has the value of Flash in the cache if it is flagged: the sets     *)
(* write through (NefryDataStore.cpp) and a restart changes nothing.        *)
THEOREM CacheAgrees == Spec => []QuietAgrees
<1>1. QuietIInv => QuietAgrees
  BY DEF QuietIInv
<1> QED
  BY <1>1, QuietInvariant, PTL

(* /set_config, when it is over, has saved the form it was sent, for any    *)
(* number of user values and also a form from before a restart, except the  *)
(* values another task was at or whose write failed (NefryConfig.cpp).      *)
THEOREM FormIsSaved == Spec => []PageSaved
<1>1. IInv /\ QuietIInv => PageSaved
  <2> SUFFICES ASSUME IInv, QuietIInv, page = "set_config", at > K, NEW k \in UserKeys \ Disturbed
               PROVE  flash[k] = Sent(k)
    BY DEF PageSaved, Serving
  <2>1. k < at
    BY KeysAssumption DEF IInv, TypeOK, UserKeys
  <2> QED
    BY <2>1 DEF QuietIInv, PageInStep
<1> QED
  BY <1>1, QuietInvariant, InductiveInvariant, PTL

(* /config shows what a restart would bring back, of the values no other    *)
(* task was at.                                                             *)
THEOREM FormShowsFlash == Spec => []PageShows
<1>1. QuietIInv => PageShows
  BY DEF QuietIInv
<1> QED
  BY <1>1, QuietInvariant, PTL

=============================================================================
