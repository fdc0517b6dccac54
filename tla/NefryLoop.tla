----------------------------- MODULE NefryLoop -----------------------------
(***************************************************************************)
(* The main task between the calls of a sketch: nefry_loop() (Nefry.cpp),   *)
(* which looks after the connection every so many rounds and reports the    *)
(* board once to a server, and ndelay(), which waits and goes round         *)
(* meanwhile.  millis() is unsigned and wraps.  The connection itself is    *)
(* module NefryConnect: its run() takes some time here.                     *)
(***************************************************************************)
EXTENDS Naturals, Sequences

CONSTANTS
  WAIT,       (* rounds between two calls of run(): 1000 in the code         *)
  CLOCK,      (* millis() is counted modulo this: 2^32 in the code           *)
  ANSWER,     (* how long an answer is waited for: 5000 in the code          *)
  Delays,     (* what ndelay() is called with                                *)
  RunTime,    (* bound: how long run() takes                                 *)
  MaxReply    (* bound: lines the server sends to one request                *)

ASSUME LoopAssumption ==
  /\ {WAIT, CLOCK, ANSWER, RunTime, MaxReply} \subseteq Nat /\ Delays \subseteq Nat
  /\ CLOCK > ANSWER + RunTime + MaxReply + 8

VARIABLES
  _wifiEnableFlg, _nefryWifiWait, connectAnFlg,
  loopAt,       (* where nefry_loop() is, "idle" outside it                  *)
  timeout,      (* millis() when the request was sent                        *)
  answer,       (* lines that have come and are not read                     *)
  answered,     (* lines the server has sent to this request                 *)
  delaying, beforetime, ms,   (* ndelay(), and its arguments                 *)
  millis,
  looked,       (* the task has made a step since millis() has moved         *)
  waited, wrapped,            (* history: the time since then, and millis()  *)
  accepted      (* history: requests answered with 200                       *)

loopFlags == <<_wifiEnableFlg, _nefryWifiWait, connectAnFlg>>
hit   == <<timeout, answer, answered>>
delay   == <<delaying, beforetime, ms>>
clockVars      == <<millis, waited, wrapped>>
loopVars  == <<loopFlags, loopAt, hit, delay, clockVars, looked, accepted>>

Longest == CHOOSE n \in Delays \cup {0} : \A d \in Delays : d <= n

LoopTypeOK ==
  /\ {_wifiEnableFlg, connectAnFlg, delaying, looked, wrapped} \subseteq BOOLEAN
  /\ _nefryWifiWait \in 0 .. WAIT /\ {millis, timeout, beforetime} \subseteq 0 .. CLOCK - 1
  /\ loopAt \in {"idle", "run", "report", "waiting", "reading"}
  /\ answer \in Seq({"200", "other code", "header"}) /\ answered \in 0 .. MaxReply
  /\ ms \in Delays \cup {0} /\ waited \in 0 .. Longest /\ accepted \in 0 .. 2

LoopInit ==
  /\ _wifiEnableFlg \in BOOLEAN /\ _nefryWifiWait = 0 /\ connectAnFlg = FALSE /\ loopAt = "idle"
  /\ timeout = 0 /\ answer = <<>> /\ answered = 0
  /\ delaying = FALSE /\ beforetime = 0 /\ ms = 0 /\ millis \in 0 .. CLOCK - 1
  /\ looked = TRUE /\ waited = 0 /\ wrapped = FALSE /\ accepted = 0

Since(t) == (millis + CLOCK - t) % CLOCK

(* Time goes on by d.                                                       *)
ClockOn(d) ==
  /\ millis' = (millis + d) % CLOCK
  /\ waited' = IF ~delaying THEN 0 ELSE IF waited + d > Longest THEN Longest ELSE waited + d
  /\ wrapped' = (delaying /\ (wrapped \/ millis + d >= CLOCK))

(* A unit is long against a round of the task.                              *)
LoopTick ==
  /\ (looked \/ (loopAt = "idle" /\ ~delaying)) /\ looked' = FALSE
  /\ ClockOn(1)
  /\ UNCHANGED <<loopFlags, loopAt, hit, delay, accepted>>

enableWifi ==
  /\ loopAt = "idle" /\ ~delaying /\ _wifiEnableFlg' = TRUE
  /\ UNCHANGED <<_nefryWifiWait, connectAnFlg, loopAt, hit, delay, clockVars, looked, accepted>>

disableWifi ==
  /\ loopAt = "idle" /\ ~delaying /\ _wifiEnableFlg' = FALSE
  /\ UNCHANGED <<_nefryWifiWait, connectAnFlg, loopAt, hit, delay, clockVars, looked, accepted>>

(***************************************************************************)
(* nefry_loop().                                                            *)
(***************************************************************************)
NextRound ==
  IF ~_wifiEnableFlg THEN UNCHANGED <<_nefryWifiWait, loopAt>>
  ELSE IF _nefryWifiWait + 1 > WAIT THEN _nefryWifiWait' = 0 /\ loopAt' = "run"
       ELSE _nefryWifiWait' = _nefryWifiWait + 1 /\ UNCHANGED loopAt

nefry_loop ==
  /\ loopAt = "idle" /\ ~delaying /\ NextRound /\ looked' = TRUE
  /\ UNCHANGED <<_wifiEnableFlg, connectAnFlg, hit, delay, clockVars, accepted>>

(* Mutant of Reports: the board is reported again and again.                *)
ReportsAlways == TRUE

Reports == ~connectAnFlg

callRun ==
  /\ loopAt = "run" /\ loopAt' = IF Reports THEN "report" ELSE "idle"
  /\ \E d \in 0 .. RunTime : ClockOn(d)
  /\ looked' = TRUE
  /\ UNCHANGED <<loopFlags, hit, delay, accepted>>

(***************************************************************************)
(* setAnalyticsData().                                                      *)
(***************************************************************************)
Reported(state) ==
  /\ loopAt' = "idle" /\ connectAnFlg' = state /\ timeout' = 0 /\ answer' = <<>> /\ answered' = 0
  /\ accepted' = IF state /\ accepted < 2 THEN accepted + 1 ELSE accepted

(* The station has no connection, the server cannot be reached, or the      *)
(* request is sent.                                                         *)
setAnalyticsData ==
  /\ loopAt = "report" /\ looked' = TRUE
  /\ \/ Reported(FALSE)
     \/ /\ loopAt' = "waiting" /\ timeout' = millis
        /\ UNCHANGED <<answer, answered, connectAnFlg, accepted>>
  /\ UNCHANGED <<_wifiEnableFlg, _nefryWifiWait, delay, clockVars>>

ServerSends(line) ==
  /\ loopAt \in {"waiting", "reading"} /\ answered < MaxReply
  /\ answer' = Append(answer, line) /\ answered' = answered + 1
  /\ UNCHANGED <<loopFlags, loopAt, timeout, delay, clockVars, looked, accepted>>

(* Mutant of TooLate: the time is compared as if it never wrapped.          *)
TooLateFrom == millis > timeout + ANSWER

TooLate == Since(timeout) > ANSWER

AwaitReply ==
  /\ loopAt = "waiting" /\ looked' = TRUE
  /\ IF answer # <<>> THEN loopAt' = "reading" /\ UNCHANGED <<hit, connectAnFlg, accepted>>
     ELSE IF TooLate THEN Reported(FALSE)
     ELSE UNCHANGED <<loopAt, hit, connectAnFlg, accepted>>
  /\ UNCHANGED <<_wifiEnableFlg, _nefryWifiWait, delay, clockVars>>

ReadLine ==
  /\ loopAt = "reading" /\ looked' = TRUE
  /\ IF answer = <<>> THEN Reported(FALSE)
     ELSE IF Head(answer) = "header"
     THEN answer' = Tail(answer) /\ UNCHANGED <<loopAt, timeout, answered, connectAnFlg, accepted>>
     ELSE Reported(Head(answer) = "200")
  /\ UNCHANGED <<_wifiEnableFlg, _nefryWifiWait, delay, clockVars>>

(***************************************************************************)
(* ndelay().                                                                *)
(***************************************************************************)
ndelay(length) ==
  /\ loopAt = "idle" /\ ~delaying /\ delaying' = TRUE /\ looked' = TRUE
  /\ beforetime' = millis /\ ms' = length
  /\ UNCHANGED <<waited, wrapped>>
  /\ UNCHANGED <<loopFlags, loopAt, hit, millis, accepted>>

(* Mutant of DelayGoesOn: the end is reckoned, and wraps, instead.          *)
DelayGoesOnUntil == millis < (beforetime + ms) % CLOCK

DelayGoesOn == Since(beforetime) < ms /\ ~(millis < beforetime)

DelayRound ==
  /\ loopAt = "idle" /\ delaying /\ looked' = TRUE
  /\ IF DelayGoesOn
     THEN NextRound /\ UNCHANGED <<delay, waited, wrapped>>
     ELSE /\ delaying' = FALSE /\ beforetime' = 0 /\ ms' = 0 /\ waited' = 0 /\ wrapped' = FALSE
          /\ UNCHANGED <<_nefryWifiWait, loopAt>>
  /\ UNCHANGED <<_wifiEnableFlg, connectAnFlg, hit, millis, accepted>>

LoopTask == callRun \/ setAnalyticsData \/ AwaitReply \/ ReadLine \/ DelayRound

LoopNext ==
  \/ LoopTask \/ nefry_loop \/ enableWifi \/ disableWifi \/ LoopTick
  \/ \E length \in Delays : ndelay(length)
  \/ \E line \in {"200", "other code", "header"} : ServerSends(line)

LoopFairness == WF_loopVars(LoopTask) /\ WF_loopVars(LoopTick)

LoopSpec == LoopInit /\ [][LoopNext]_loopVars /\ LoopFairness

(***************************************************************************)
(* Properties.                                                              *)
(***************************************************************************)

(* The board is reported once: a request is sent again and again until one  *)
(* is answered with 200, and never after it (Nefry.cpp:97-99).              *)
ReportedOnce ==
  /\ connectAnFlg = (accepted = 1) /\ accepted <= 1
  /\ connectAnFlg => loopAt \in {"idle", "run"}

(* ndelay() returns only when its time has passed, or when millis() has     *)
(* wrapped in it: the test in Nefry.cpp:203 ends it then, however much of   *)
(* the time is left.                                                        *)
DelayKept == [][delaying /\ ~delaying' => waited >= ms \/ wrapped]_loopVars

(* nefry_loop() comes back from a server that is slow, silent or sends      *)
(* something else, also when millis() wraps while it waits; so does         *)
(* ndelay() (Nefry.cpp:496, 202).                                           *)
LoopGoesOn == loopAt # "idle" \/ delaying ~> loopAt = "idle" /\ ~delaying

(* What holds of the main loop: the report, the delays, and their ends.     *)
LoopCorrect == [](LoopTypeOK /\ ReportedOnce) /\ DelayKept /\ LoopGoesOn
=============================================================================
