--------------------------- MODULE NefryDataStore ---------------------------
(***************************************************************************)
(* The data store of a Nefry board: settings and user values in Flash (NVS) *)
(* with a cache in memory, NefryDataStore.cpp, and the pages /config and    *)
(* /set_config that show and save the user values, NefryConfig.cpp.         *)
(*                                                                         *)
(* Every get and set can be called by the web task and by the sketch, with  *)
(* no lock: each access to the cache, to a flag or to Flash is an action.   *)
(***************************************************************************)
EXTENDS Integers

CONSTANTS
  K,          (* user values 1..K (StorageStr, StorageValue: 20 in the code) *)
  LateKeys,   (* settings a get flags as cached once it has read them        *)
              (* (ModuleID, BootSelector)                                    *)
  PlainKeys,  (* settings a get never flags (User, UserPass, ModuleClass,    *)
              (* ModulePass)                                                 *)
  ModuleID,   (* the setting that is never stored empty ...                  *)
  DefaultModuleID, (* ... but as getDefaultModuleId(), made of the MAC address *)
  Values,     (* what can be stored                                          *)
  Default,    (* the empty string or 0: what a get of an unset key returns,  *)
              (* and what the cache holds before it is filled                *)
  None,       (* no such field in the form; no key                           *)
  Tasks,      (* the tasks that run                                          *)
  Web,        (* the task that serves the pages                              *)
  MaxFaults   (* bound: Flash writes that fail                               *)

UserKeys == 1 .. K
Settings == LateKeys \cup PlainKeys
Keys     == UserKeys \cup Settings
Stored   == Values \cup {Default}

ASSUME KeysAssumption ==
  /\ K \in Nat /\ MaxFaults \in Nat
  /\ UserKeys \cap Settings = {} /\ LateKeys \cap PlainKeys = {}
  /\ ModuleID \in Settings
  /\ None \notin Stored \cup Keys
  /\ DefaultModuleID \in Values

VARIABLES
  flash,   (* the keys in NVS                                                *)
  cache,   (* _readCacheStr, _readCacheLong                                  *)
  flg,     (* _readCacheFlg                                                  *)
  pc,      (* pc[t]: where task t is in a get or a set                       *)
  key,     (* key[t]: its key                                                *)
  val,     (* val[t]: the value it read from Flash, or is to write           *)
  htmlPrint, (* the user values /config shows: all in write mode, otherwise  *)
             (* those given a title                                          *)
  page,    (* the handler the web task is in                                 *)
  at,      (* the user value its loop has reached                            *)
  form,    (* the fields of the page as served, or as submitted              *)
  known,   (* history: what a key held at boot and was set to since          *)
  failed,  (* history: the keys whose last write to Flash failed             *)
  contested, (* history: the keys two tasks worked on at once since boot, a   *)
             (* page counting as work on the user values as long as it runs   *)
  faults   (* counter of the bound                                           *)

calls == <<pc, key, val>>
pages == <<htmlPrint, page, at, form>>
vars  == <<flash, cache, flg, calls, pages, known, failed, contested, faults>>

TypeOK ==
  /\ flash \in [Keys -> Stored] /\ cache \in [Keys -> Stored]
  /\ flg \in [Keys -> BOOLEAN]
  /\ pc \in [Tasks -> {"idle", "mark", "read", "fill", "flag", "return", "setflag", "put"}]
  /\ key \in [Tasks -> Keys \cup {None}] /\ val \in [Tasks -> Stored]
  /\ htmlPrint \subseteq UserKeys
  /\ page \in {"none", "config", "set_config"}
  /\ at \in 1 .. K + 1
  /\ form \in [UserKeys -> Stored \cup {None}]
  /\ known \in [Keys -> SUBSET Stored]
  /\ failed \subseteq Keys /\ contested \subseteq Keys /\ faults \in 0 .. MaxFaults

ZeroedCache == [k \in Keys |-> Default]
NoFlags     == [k \in Keys |-> FALSE]
JustFlash   == [k \in Keys |-> {flash[k]}]

Init ==
  /\ flash = [k \in Keys |-> Default]
  /\ cache = ZeroedCache /\ flg = NoFlags
  /\ pc = [t \in Tasks |-> "idle"]
  /\ key = [t \in Tasks |-> None] /\ val = [t \in Tasks |-> Default]
  /\ htmlPrint \in {{}, UserKeys}
  /\ page = "none" /\ at = 1
  /\ form = [k \in UserKeys |-> None]
  /\ known = JustFlash
  /\ failed = {} /\ contested = {} /\ faults = 0

Goto(t, place) == pc' = [pc EXCEPT ![t] = place]

(* Task t starts to work on k: does another one, too?                       *)
Contend(t, k) ==
  LET others == {key[u] : u \in {v \in Tasks \ {t} : pc[v] # "idle"}}
      onPage == IF t # Web /\ page # "none" THEN UserKeys ELSE {}
  IN  contested' = contested \cup ({k} \cap (others \cup onPage))

(* A call of task t is over; a page handler goes on to its next value.      *)
Done(t) ==
  /\ Goto(t, "idle")
  /\ key' = [key EXCEPT ![t] = None] /\ val' = [val EXCEPT ![t] = Default]
  /\ at' = IF t = Web /\ page # "none" THEN at + 1 ELSE at

(***************************************************************************)
(* get...(): the flag, then Flash, then the cache, which is returned.       *)
(***************************************************************************)

(* Mutant of Get: the settings are flagged before they are read, too.       *)
GetMarksAll(t, k) ==
  /\ pc[t] = "idle"
  /\ Contend(t, k)
  /\ key' = [key EXCEPT ![t] = k]
  /\ Goto(t, IF flg[k] THEN "return" ELSE "mark")
  /\ UNCHANGED <<flash, cache, flg, val, known, failed, faults>>

Get(t, k) ==
  /\ pc[t] = "idle"
  /\ Contend(t, k)
  /\ key' = [key EXCEPT ![t] = k]
  /\ Goto(t, IF flg[k] THEN "return" ELSE IF k \in UserKeys THEN "mark" ELSE "read")
  /\ UNCHANGED <<flash, cache, flg, val, known, failed, faults>>

(* getStorageStr and getStorageValue set the flag before they read.         *)
Mark(t) ==
  /\ pc[t] = "mark"
  /\ flg' = [flg EXCEPT ![key[t]] = TRUE]
  /\ Goto(t, "read")
  /\ UNCHANGED <<flash, cache, key, val, pages, known, failed, contested, faults>>

Read(t) ==
  /\ pc[t] = "read"
  /\ val' = [val EXCEPT ![t] = flash[key[t]]]
  /\ Goto(t, "fill")
  /\ UNCHANGED <<flash, cache, flg, key, pages, known, failed, contested, faults>>

Fill(t) ==
  /\ pc[t] = "fill"
  /\ cache' = [cache EXCEPT ![key[t]] = val[t]]
  /\ Goto(t, IF key[t] \in LateKeys THEN "flag" ELSE "return")
  /\ UNCHANGED <<flash, flg, key, val, pages, known, failed, contested, faults>>

Flag(t) ==
  /\ pc[t] = "flag"
  /\ flg' = [flg EXCEPT ![key[t]] = TRUE]
  /\ Goto(t, "return")
  /\ UNCHANGED <<flash, cache, key, val, pages, known, failed, contested, faults>>

(* The caller gets the cache; /config puts it into the form.                *)
Return(t) ==
  /\ pc[t] = "return"
  /\ Done(t)
  /\ form' = IF t = Web /\ page = "config" THEN [form EXCEPT ![at] = cache[key[t]]] ELSE form
  /\ UNCHANGED <<flash, cache, flg, htmlPrint, page, known, failed, contested, faults>>

(***************************************************************************)
(* set...(): the cache, the flag, then Flash.                               *)
(***************************************************************************)

Written(k, v) == IF k = ModuleID /\ v = Default THEN DefaultModuleID ELSE v

(* Mutant of Set: the cache is left to the next get.                        *)
SetFlashOnly(t, k, v) ==
  /\ pc[t] = "idle"
  /\ Contend(t, k)
  /\ key' = [key EXCEPT ![t] = k]
  /\ val' = [val EXCEPT ![t] = v]
  /\ known' = [known EXCEPT ![k] = @ \cup {v}]
  /\ Goto(t, "put")
  /\ UNCHANGED <<flash, cache, flg, failed, faults>>

Set(t, k, v) ==
  /\ pc[t] = "idle"
  /\ Contend(t, k)
  /\ key' = [key EXCEPT ![t] = k]
  /\ val' = [val EXCEPT ![t] = Written(k, v)]
  /\ cache' = [cache EXCEPT ![k] = Written(k, v)]
  /\ known' = [known EXCEPT ![k] = @ \cup {Written(k, v)}]
  /\ Goto(t, "setflag")
  /\ UNCHANGED <<flash, flg, failed, faults>>

SetFlag(t) ==
  /\ pc[t] = "setflag"
  /\ flg' = [flg EXCEPT ![key[t]] = TRUE]
  /\ Goto(t, "put")
  /\ UNCHANGED <<flash, cache, key, val, pages, known, failed, contested, faults>>

(* setModuleID writes what the cache holds by now, the others their value.  *)
Put(t) ==
  /\ pc[t] = "put"
  /\ \/ /\ flash' = [flash EXCEPT ![key[t]] = IF key[t] = ModuleID THEN cache[key[t]] ELSE val[t]]
        /\ failed' = failed \ {key[t]}
        /\ UNCHANGED faults
     \/ /\ faults < MaxFaults /\ faults' = faults + 1
        /\ failed' = failed \cup {key[t]}
        /\ UNCHANGED flash
  /\ Done(t)
  /\ UNCHANGED <<cache, flg, htmlPrint, page, form, known, contested>>

(* Calls of the sketch, and of pages such as / and /setmodule, which work   *)
(* on the settings.                                                         *)
Call(t) ==
  /\ t = Web => page = "none"
  /\ \E k \in IF t = Web THEN Settings ELSE Keys : Get(t, k) \/ \E v \in Stored : Set(t, k, v)
  /\ UNCHANGED pages

(***************************************************************************)
(* The pages of the user values.                                           *)
(***************************************************************************)

(* setStoreTitle, called by the sketch.                                     *)
SetStoreTitle ==
  /\ \E k \in UserKeys : htmlPrint' = htmlPrint \cup {k}
  /\ UNCHANGED <<flash, cache, flg, calls, page, at, form, known, failed, contested, faults>>

Serving(handler) == Web \in Tasks /\ pc[Web] = "idle" /\ page = handler
Unchanged        == UNCHANGED <<flash, cache, flg, calls, htmlPrint, known, failed, contested, faults>>

StartConfig ==
  /\ Serving("none")
  /\ page' = "config" /\ at' = 1
  /\ form' = [k \in UserKeys |-> None]
  /\ Unchanged

(* /set_config: the fields of the last page, one of them edited or none.    *)
StartSetConfig ==
  /\ Serving("none")
  /\ page' = "set_config" /\ at' = 1
  /\ \/ form' = form
     \/ \E k \in UserKeys, v \in Values :
          form[k] # None /\ form' = [form EXCEPT ![k] = v]
  /\ Unchanged

(* The loops: /config gets the values it shows, /set_config sets all of     *)
(* them; a field that is not in the request reads as the empty string.      *)
ShowNext ==
  /\ Serving("config") /\ at <= K
  /\ IF at \in htmlPrint
     THEN Get(Web, at) /\ UNCHANGED pages
     ELSE at' = at + 1 /\ Unchanged /\ UNCHANGED <<page, form>>

(* Mutant of SaveNext: a field the request does not have is left alone.     *)
SaveNextIfSent ==
  /\ Serving("set_config") /\ at <= K
  /\ IF form[at] # None
     THEN Set(Web, at, form[at]) /\ UNCHANGED pages
     ELSE at' = at + 1 /\ Unchanged /\ UNCHANGED <<page, form>>

SaveNext ==
  /\ Serving("set_config") /\ at <= K
  /\ Set(Web, at, IF form[at] = None THEN Default ELSE form[at])
  /\ UNCHANGED pages

EndPage ==
  /\ Web \in Tasks /\ pc[Web] = "idle" /\ page # "none" /\ at > K
  /\ page' = "none" /\ at' = 1
  /\ Unchanged /\ UNCHANGED form

(* A restart, by the timer /set_config arms or a power cut: begin() clears  *)
(* the flags, the cache is zeroed, NefryConfig.begin shows the user values  *)
(* in write mode.  The browser keeps its page.                              *)
Restart ==
  /\ cache' = ZeroedCache /\ flg' = NoFlags
  /\ pc' = [t \in Tasks |-> "idle"]
  /\ key' = [t \in Tasks |-> None] /\ val' = [t \in Tasks |-> Default]
  /\ htmlPrint' \in {{}, UserKeys}
  /\ page' = "none" /\ at' = 1
  /\ known' = JustFlash
  /\ failed' = {} /\ contested' = {}
  /\ UNCHANGED <<flash, form, faults>>

Next ==
  \/ \E t \in Tasks :
       \/ Mark(t) \/ Read(t) \/ Fill(t) \/ Flag(t) \/ Return(t)
       \/ SetFlag(t) \/ Put(t) \/ Call(t)
  \/ SetStoreTitle
  \/ StartConfig \/ StartSetConfig \/ ShowNext \/ SaveNext \/ EndPage
  \/ Restart

Spec == Init /\ [][Next]_vars

(***************************************************************************)
(* Properties.                                                             *)
(***************************************************************************)

(* What a get hands out was in Flash at boot or has been set since: true of *)
(* the settings whatever the tasks do, because their gets raise the flag    *)
(* after the cache is filled, or not at all.                                *)
ReturnsKnown(keys) ==
  \A t \in Tasks : pc[t] = "return" /\ key[t] \in keys => cache[key[t]] \in known[key[t]]

SettingsReturnKnown == ReturnsKnown(Settings)

(* The inductive invariant behind it: Flash and the flagged settings hold   *)
(* known values, and so does what a call is about to store or to return;    *)
(* only the user values are flagged ahead of the read.                      *)
FlashIsKnown   == \A k \in Keys : flash[k] \in known[k]
FlaggedIsKnown == \A k \in Settings : flg[k] => cache[k] \in known[k]

CallIsKnown ==
  \A t \in Tasks :
    /\ pc[t] # "idle" => key[t] \in Keys
    /\ pc[t] = "mark" => key[t] \notin Settings
    /\ pc[t] \in {"fill", "setflag", "put"} => val[t] \in known[key[t]]
    /\ pc[t] \in {"flag", "setflag", "put", "return"} /\ key[t] \in Settings =>
         cache[key[t]] \in known[key[t]]

LoopBound == page # "none" => Web \in Tasks /\ (pc[Web] # "idle" => at <= K)

IInv == TypeOK /\ FlashIsKnown /\ FlaggedIsKnown /\ CallIsKnown /\ LoopBound

(* The same of the user values, which /config is to "show and edit"         *)
(* (NefryConfig.cpp:26): their gets raise the flag first.                   *)
UserValuesReturnKnown == ReturnsKnown(UserKeys)

(* A key nobody is working on has the value of Flash in the cache if it is  *)
(* flagged, unless its last write failed or two tasks were at it at once:   *)
(* the sets write through and the gets that leave the flag alone read again.*)
Busy      == {key[t] : t \in {u \in Tasks : pc[u] # "idle"}}
Disturbed == failed \cup contested

QuietAgrees == \A k \in Keys \ (Busy \cup Disturbed) : flg[k] => cache[k] = flash[k]

(* When /set_config is over, Flash has the values of the submitted form,    *)
(* also one from before a restart, and the empty value for each field the   *)
(* form does not have.                                                      *)
Sent(k) == IF form[k] = None THEN Default ELSE form[k]

PageSaved ==
  Serving("set_config") /\ at > K => \A k \in UserKeys \ Disturbed : flash[k] = Sent(k)

(* /config shows, of the values it shows, what a restart would bring back.  *)
PageShows ==
  page = "config" => \A k \in UserKeys \ Disturbed : form[k] \in {None, flash[k]}

(* Why these three hold.  A key two tasks are at is contested; a key one    *)
(* task is at has, at each step of the call, the values that make cache and *)
(* Flash agree at its end; and a page that has passed a key has the last    *)
(* word on it.                                                              *)
Exclusive ==
  \A t, u \in Tasks :
    t # u /\ pc[t] # "idle" /\ pc[u] # "idle" /\ key[t] = key[u] => key[t] \in contested

CallInStep ==
  \A t \in Tasks :
    /\ pc[t] = "fill" /\ key[t] \notin Disturbed => val[t] = flash[key[t]]
    /\ pc[t] \in {"flag", "return"} /\ key[t] \notin Disturbed => cache[key[t]] = flash[key[t]]
    /\ pc[t] \in {"setflag", "put"} /\ key[t] \notin contested => cache[key[t]] = val[t]

PassedBy(k) == (page = "set_config" /\ k < at) \/ (page = "config" /\ form[k] # None)

PageInStep ==
  /\ page # "none" /\ pc[Web] # "idle" => key[Web] = at
  /\ page = "config" => pc[Web] \notin {"setflag", "put"}
  /\ page = "set_config" => pc[Web] \in {"idle", "setflag", "put"}
  /\ page = "set_config" /\ pc[Web] # "idle" => val[Web] = Sent(at)
  /\ page = "set_config" => \A k \in UserKeys \ Disturbed : k < at => flash[k] = Sent(k)
  /\ \A t \in Tasks \ {Web} :
       pc[t] # "idle" /\ key[t] \in UserKeys /\ PassedBy(key[t]) => key[t] \in contested

QuietIInv == Exclusive /\ CallInStep /\ QuietAgrees /\ PageInStep /\ PageShows

=============================================================================
