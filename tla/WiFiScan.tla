------------------------------ MODULE WiFiScan ------------------------------
(***************************************************************************)
(* Scans for networks, WiFiScan.cpp.  The main task scans in                *)
(* WiFiMulti::run, the web task in the handler of /wifiReload; both share   *)
(* the static flags of WiFiScanClass with _scanDone, which the task of the  *)
(* network events runs when the radio has finished.                         *)
(***************************************************************************)
EXTENDS Integers

CONSTANTS
  MaxScans,    (* bound: calls of scanNetworks                               *)
  Found        (* the numbers of networks a scan can find                    *)

ASSUME ScanAssumption == MaxScans \in Nat /\ Found \subseteq Nat

Scanners == {"main", "web"}
Unset    == -3          (* a count nobody has read, no records               *)
RUNNING  == -1
FAILED   == -2

VARIABLES
  scanStarted, scanComplete, scanAsync, scanCount,
  scanResult,   (* the number of records allocated, Unset if there are none  *)
  filled,       (* the records hold what the radio found                     *)
  radio,        (* "idle", "scanning", or "done": the event is queued        *)
  inAir,        (* the number of networks the scan finds, 0 when it is told  *)
  at,           (* at[t]: the next step of task t                            *)
  background,   (* the main task is in its second call, scanNetworks(true)   *)
  founds,       (* founds[t]: the value scanNetworks has returned            *)
  done,         (* the next step of _scanDone                                *)
  scans,
  contended,    (* history: the two tasks were scanning at once since the    *)
                (* last time both were idle                                  *)
  outrun,       (* history: a scan was over before scanNetworks had set its  *)
                (* flags                                                     *)
  early         (* early[t]: history: t read the count before it was stored  *)

flags    == <<scanStarted, scanComplete, scanAsync>>
results  == <<scanCount, scanResult, filled>>
air      == <<radio, inAir>>
history  == <<contended, outrun, early>>
scanVars == <<flags, results, air, at, background, founds, done, scans, history>>

ScanTypeOK ==
  /\ {scanStarted, scanComplete, scanAsync, filled, background, contended, outrun} \subseteq BOOLEAN
  /\ scanCount \in Found \cup {0} /\ scanResult \in Found \cup {Unset}
  /\ radio \in {"idle", "scanning", "done"} /\ inAir \in Found \cup {0}
  /\ at \in [Scanners -> {"idle", "again", "delete", "start", "reset", "mark", "async",
                          "wait", "result", "read"}]
  /\ founds \in [Scanners -> Found \cup {0, Unset}]
  /\ done \in {"idle", "complete", "started", "count", "alloc", "records"}
  /\ scans \in 0 .. MaxScans /\ early \in [Scanners -> BOOLEAN]

ScanInit ==
  /\ scanStarted = FALSE /\ scanComplete = FALSE /\ scanAsync = FALSE
  /\ scanCount = 0 /\ scanResult = Unset /\ filled = FALSE
  /\ radio = "idle" /\ inAir = 0
  /\ at = [t \in Scanners |-> "idle"] /\ background = FALSE
  /\ founds = [t \in Scanners |-> Unset]
  /\ done = "idle" /\ scans = 0
  /\ contended = FALSE /\ outrun = FALSE /\ early = [t \in Scanners |-> FALSE]

GoTo(t, there) == at' = [at EXCEPT ![t] = there]

(* The call returns n.  WiFiMulti::run goes on to scan in the background    *)
(* when its own scan has failed or found nothing.                           *)
Return(t, n) ==
  /\ founds' = [founds EXCEPT ![t] = IF n > 0 /\ ~(t = "main" /\ background) THEN n ELSE Unset]
  /\ GoTo(t, IF t = "main" /\ background THEN "idle"
             ELSE IF n > 0 THEN "read"
             ELSE IF t = "main" /\ n # RUNNING THEN "again" ELSE "idle")
  /\ background' = (background /\ t # "main")

(***************************************************************************)
(* scanNetworks() of task t.  One that finds a scan running returns at once.*)
(***************************************************************************)
Called(t, async) ==
  IF scanStarted THEN Return(t, RUNNING) /\ UNCHANGED scanAsync
  ELSE GoTo(t, "delete") /\ scanAsync' = async /\ UNCHANGED founds
       /\ background' = IF t = "main" THEN async ELSE background

scanNetworks(t) ==
  /\ at[t] = "idle" /\ scans < MaxScans /\ scans' = scans + 1
  /\ Called(t, FALSE)
  /\ contended' = IF \E u \in Scanners \ {t} : at[u] # "idle" THEN TRUE
                  ELSE contended /\ (radio # "idle" \/ done # "idle")
  /\ UNCHANGED <<scanStarted, scanComplete, results, air, done, outrun, early>>

scanAgain ==
  /\ at["main"] = "again" /\ Called("main", TRUE)
  /\ UNCHANGED <<scanStarted, scanComplete, results, air, done, scans, history>>

scanDelete ==
  /\ scanComplete' = FALSE
  /\ IF scanResult # Unset THEN scanResult' = Unset /\ scanCount' = 0 /\ filled' = FALSE
                           ELSE UNCHANGED results
  /\ UNCHANGED <<scanStarted, scanAsync>>

DeleteOld(t) ==
  /\ at[t] = "delete" /\ GoTo(t, "start")
  /\ scanDelete
  /\ UNCHANGED <<air, background, founds, done, scans, history>>

(* esp_wifi_scan_start fails while the radio scans.                         *)
StartRadio(t, n) ==
  /\ at[t] = "start"
  /\ IF radio = "scanning" THEN Return(t, FAILED) /\ UNCHANGED air
     ELSE radio' = "scanning" /\ inAir' = n /\ GoTo(t, "reset") /\ UNCHANGED <<background, founds>>
  /\ UNCHANGED <<flags, results, done, scans, history>>

ResetFlag(t) ==
  /\ at[t] = "reset" /\ GoTo(t, "mark")
  /\ scanComplete' = FALSE
  /\ UNCHANGED <<scanStarted, scanAsync, results, air, background, founds, done, scans, history>>

MarkStarted(t) ==
  /\ at[t] = "mark" /\ GoTo(t, "async")
  /\ scanStarted' = TRUE
  /\ UNCHANGED <<scanComplete, scanAsync, results, air, background, founds, done, scans, history>>

TestAsync(t) ==
  /\ at[t] = "async"
  /\ IF scanAsync THEN Return(t, RUNNING) ELSE GoTo(t, "wait") /\ UNCHANGED <<background, founds>>
  /\ UNCHANGED <<flags, results, air, done, scans, history>>

(* while (!_scanComplete) delay(10), without a bound.                       *)
Awake(t) ==
  /\ at[t] = "wait" /\ scanComplete /\ GoTo(t, "result")
  /\ UNCHANGED <<flags, results, air, background, founds, done, scans, history>>

ReturnCount(t) ==
  /\ at[t] = "result" /\ Return(t, scanCount)
  /\ early' = [early EXCEPT ![t] = (done # "idle" /\ scanCount > 0)]
  /\ UNCHANGED <<flags, results, air, done, scans, contended, outrun>>

(* The records are read one by one, by WiFiMulti::run and by the page; the  *)
(* former deletes them then.                                                *)
ReadRecords(t) ==
  /\ at[t] = "read" /\ GoTo(t, "idle") /\ founds' = [founds EXCEPT ![t] = Unset]
  /\ IF t = "main" THEN scanDelete ELSE UNCHANGED <<flags, results>>
  /\ early' = [early EXCEPT ![t] = FALSE]
  /\ UNCHANGED <<air, background, done, scans, contended, outrun>>

(* What is found at index i of the records: nothing, a record, one that has *)
(* not been filled, or what lies behind the array: i = _scanCount passes.   *)
_getScanInfoByIndex(i) ==
  CASE scanResult = Unset \/ i > scanCount -> "none"
    [] scanResult # Unset /\ i <= scanCount /\ i >= scanResult -> "beyond"
    [] OTHER -> IF filled THEN "record" ELSE "empty"

(* getNetworkInfo(), for WiFiMulti::run, which goes on with what its        *)
(* variables were when there is nothing; and the getters of the page.       *)
getNetworkInfo(i) == IF _getScanInfoByIndex(i) = "none" THEN "unset" ELSE _getScanInfoByIndex(i)
Getter(i)         == IF _getScanInfoByIndex(i) = "none" THEN "default" ELSE _getScanInfoByIndex(i)

(***************************************************************************)
(* The radio, and _scanDone() in the task of the network events.            *)
(***************************************************************************)
RadioDone ==
  /\ radio = "scanning" /\ done = "idle" /\ radio' = "done"
  /\ UNCHANGED <<flags, results, inAir, at, background, founds, done, scans, history>>

ScanDoneEvent ==
  /\ radio = "done" /\ done = "idle" /\ radio' = "idle" /\ done' = "complete"
  /\ outrun' = (outrun \/ \E t \in Scanners : at[t] \in {"reset", "mark"})
  /\ UNCHANGED <<flags, results, inAir, at, background, founds, scans, contended, early>>

(* Mutant of AfterComplete: the flag that a scan is running is left alone.  *)
AfterCompleteCount == "count"

AfterComplete == "started"

(* Mutant of Announced: a scan that has found nothing is not announced.     *)
AnnouncedIfFound == scanComplete \/ inAir > 0

Announced == TRUE

SetComplete ==
  /\ done = "complete" /\ done' = AfterComplete
  /\ scanComplete' = Announced
  /\ UNCHANGED <<scanStarted, scanAsync, results, air, at, background, founds, scans, history>>

ClearStarted ==
  /\ done = "started" /\ done' = "count"
  /\ scanStarted' = FALSE
  /\ UNCHANGED <<scanComplete, scanAsync, results, air, at, background, founds, scans, history>>

StoreCount ==
  /\ done = "count" /\ done' = IF inAir > 0 THEN "alloc" ELSE "idle"
  /\ scanCount' = inAir
  /\ inAir' = IF radio = "idle" THEN 0 ELSE inAir
  /\ UNCHANGED <<flags, scanResult, filled, radio, at, background, founds, scans, history>>

(* Mutant of CountWithout: the count stays although the records are missing.*)
CountKept == scanCount

(* With no memory for the records the count is set back to 0.               *)
CountWithout == 0

Allocate ==
  /\ done = "alloc" /\ filled' = FALSE
  /\ \/ done' = "records" /\ scanResult' = scanCount /\ UNCHANGED scanCount
     \/ done' = "idle" /\ scanResult' = Unset /\ scanCount' = CountWithout
  /\ UNCHANGED <<flags, air, at, background, founds, scans, history>>

FillRecords ==
  /\ done = "records" /\ done' = "idle"
  /\ filled' = (scanResult # Unset)
  /\ UNCHANGED <<flags, scanCount, scanResult, air, at, background, founds, scans, history>>

ScanTask(t) ==
  \/ DeleteOld(t) \/ (\E n \in Found : StartRadio(t, n)) \/ ResetFlag(t) \/ MarkStarted(t)
  \/ TestAsync(t) \/ Awake(t) \/ ReturnCount(t) \/ ReadRecords(t)
  \/ (t = "main" /\ scanAgain)
ScanEvents ==
  \/ RadioDone \/ ScanDoneEvent
  \/ SetComplete \/ ClearStarted \/ StoreCount \/ Allocate \/ FillRecords

ScanNext == (\E t \in Scanners : scanNetworks(t) \/ ScanTask(t)) \/ ScanEvents

ScanFairness == WF_scanVars(ScanEvents) /\ \A t \in Scanners : WF_scanVars(ScanTask(t))
ScanSpec == ScanInit /\ [][ScanNext]_scanVars /\ ScanFairness

(***************************************************************************)
(* Properties.                                                             *)
(***************************************************************************)

(* _scanStarted never says that a scan is running when none is: it would    *)
(* say so for ever, and every later scan would be refused.  It can only     *)
(* happen when the radio is done before WiFiScan.cpp:84 has set the flag.   *)
StartedIsBacked ==
  ~outrun /\ scanStarted =>
    radio # "idle" \/ done \in {"complete", "started"} \/ \E t \in Scanners : at[t] = "mark"

(* Each of the records a task goes on to read is there and filled, and      *)
(* there are as many as it counts, unless the other task scans beside it or *)
(* it has read the count before _scanDone had stored all of it: the index   *)
(* is compared with the count only (WiFiScan.cpp:128), which can be that of *)
(* a scan whose records have not been allocated.                            *)
RecordsThere ==
  \A t \in Scanners :
    at[t] = "read" /\ ~contended /\ ~outrun /\ ~early[t] =>
      \A i \in 0 .. founds[t] - 1 :
        (IF t = "main" THEN getNetworkInfo(i) ELSE Getter(i)) = "record"

(* A scan of one task alone comes back.  With a second task at it the flag  *)
(* can be taken away between _scanDone and the next look at it              *)
(* (WiFiScan.cpp:89, 165), and the task waits for a scan nobody starts.     *)
ScanEnds ==
  \A t \in Scanners :
    at[t] = "wait" /\ ~contended /\ ~outrun ~> at[t] # "wait" \/ contended \/ outrun

(* What holds of the flags and the records at every step, and that a scan   *)
(* comes to its end (WiFiScan.cpp:57-119).                                  *)
ScanCorrect == [](ScanTypeOK /\ StartedIsBacked /\ RecordsThere) /\ ScanEnds
=============================================================================
