------------------------------ MODULE NefryBoot ------------------------------
(***************************************************************************)
(* How a Nefry board starts and restarts: nefry_init in the main task, the  *)
(* switch polled by its own task (pollingSW, readSW), the BootSelector key  *)
(* in Flash that asks the next start for write mode, and the restart timer  *)
(* of the web task (resetTimer, run) with the pages that arm it.            *)
(***************************************************************************)
EXTENDS Integers

CONSTANTS
  Delay,           (* runs of the web task until a restart (200: two seconds) *)
  MaxAsks,         (* bound: pages served per start                           *)
  MaxPresses,      (* bound: releases of the switch per start                 *)
  MaxCuts,         (* bound: power cuts                                       *)
  MaxFailedWrites  (* bound: writes of BootSelector that fail                 *)

ASSUME BootAssumption ==
  /\ Delay \in Nat \ {0} /\ MaxAsks \in Nat /\ MaxPresses \in Nat
  /\ MaxCuts \in Nat /\ MaxFailedWrites \in Nat

VARIABLES
  initStep,   (* what nefry_init does next; "run": it is over                 *)
  bootMode,   (* _bootMode: -1 before init, 0 starting, 1 normal, 2 write     *)
  wifi,       (* _wifiEnableFlg, set by the sketch before nefry_init          *)
  ap,         (* the access point: "off", "open", or with the ModulePass      *)
  pin,        (* the switch: "LOW" while it is pressed                        *)
  poll,       (* pollingSW: before its first or its second digitalRead        *)
  swEnable, swPushing, swflg,  (* _swEnableFlg, _swPushingflg, _swflg         *)
  selector,   (* the key BootSelector in Flash                                *)
  resetFlg, countdown,         (* Nefry_webserver                             *)
  asks,       (* counter of the bound: pages this start has served            *)
  asked,      (* history: /onreset stored its request, no start has ended in  *)
              (* write mode since, and no cut came after a start cleared it   *)
  releases, reads, (* history: releases of the switch, presses readSW reported*)
  cuts, failedWrites (* counters of the bounds                                *)

switch  == <<poll, swEnable, swPushing, swflg, reads>>
button  == <<pin, releases>>
timer   == <<resetFlg, countdown, asks>>
init    == <<initStep, bootMode, wifi, ap>>
bootVars == <<switch, button, timer, init, selector, asked, cuts, failedWrites>>

InitSteps == {"start", "first", "wifi", "second", "clear", "write", "disable"}

(* The pages that call resetTimer: for this module, /set_config, /setmodule *)
(* and the pages of the Wi-Fi list do what /Reset does.                     *)
Pages == {"/Reset", "/onreset"}

BootTypeOK ==
  /\ initStep \in InitSteps \cup {"run"}
  /\ bootMode \in -1 .. 2 /\ wifi \in BOOLEAN /\ ap \in {"off", "open", "password"}
  /\ pin \in {"LOW", "HIGH"} /\ poll \in {"first", "second"}
  /\ swEnable \in BOOLEAN /\ swPushing \in BOOLEAN /\ swflg \in BOOLEAN
  /\ selector \in {0, 1}
  /\ resetFlg \in BOOLEAN /\ countdown \in 0 .. Delay
  /\ asks \in 0 .. MaxAsks /\ asked \in BOOLEAN
  /\ releases \in 0 .. MaxPresses /\ reads \in 0 .. MaxPresses
  /\ cuts \in 0 .. MaxCuts /\ failedWrites \in 0 .. MaxFailedWrites

BootInit ==
  /\ initStep = "start" /\ bootMode = -1 /\ wifi \in BOOLEAN /\ ap = "off"
  /\ pin \in {"LOW", "HIGH"} /\ releases = 0
  /\ poll = "first" /\ swEnable = FALSE /\ swPushing = FALSE /\ swflg = FALSE /\ reads = 0
  /\ selector = 0
  /\ resetFlg = FALSE /\ countdown = 0 /\ asks = 0
  /\ asked = FALSE
  /\ cuts = 0 /\ failedWrites = 0

(***************************************************************************)
(* The switch.                                                             *)
(***************************************************************************)

Press ==
  /\ pin = "HIGH" /\ pin' = "LOW"
  /\ UNCHANGED <<releases, switch, timer, init, selector, asked, cuts, failedWrites>>

Release ==
  /\ pin = "LOW" /\ pin' = "HIGH"
  /\ releases < MaxPresses /\ releases' = releases + 1
  /\ UNCHANGED <<switch, timer, init, selector, asked, cuts, failedWrites>>

(* pollingSW reads the pin twice.                                           *)
PollFirst ==
  /\ poll = "first" /\ swEnable /\ ~swflg
  /\ poll' = "second"
  /\ swPushing' = (swPushing \/ pin = "LOW")
  /\ UNCHANGED <<swEnable, swflg, reads, button, timer, init, selector, asked, cuts, failedWrites>>

PollSecond ==
  /\ poll = "second"
  /\ poll' = "first"
  /\ swflg' = (swflg \/ (pin = "HIGH" /\ swPushing))
  /\ swPushing' = (swPushing /\ pin # "HIGH")
  /\ UNCHANGED <<swEnable, reads, button, timer, init, selector, asked, cuts, failedWrites>>

(* Mutant of readSW: a reported press is not cleared.                       *)
readSWKeepsPress(pressed) ==
  /\ pressed = IF swEnable THEN swflg ELSE pin = "LOW"
  /\ reads' = IF swEnable /\ swflg THEN reads + 1 ELSE reads
  /\ UNCHANGED <<poll, swPushing, swflg>>

(* readSW reports a press, once, or the pin when the switch is disabled.    *)
readSW(pressed) ==
  /\ pressed = IF swEnable THEN swflg ELSE pin = "LOW"
  /\ swflg' = (swflg /\ ~swEnable)
  /\ reads' = IF swEnable /\ swflg THEN reads + 1 ELSE reads
  /\ UNCHANGED <<poll, swPushing>>

(* Calls of the sketch.                                                     *)
SketchSW ==
  /\ initStep = "run"
  /\ \/ \E pressed \in BOOLEAN : readSW(pressed) /\ UNCHANGED swEnable
     \/ swEnable' \in BOOLEAN /\ UNCHANGED <<poll, swPushing, swflg, reads>>
  /\ UNCHANGED <<button, timer, init, selector, asked, cuts, failedWrites>>

(***************************************************************************)
(* nefry_init.                                                             *)
(***************************************************************************)

(* What the step does besides the switch and the position of nefry_init.    *)
Elsewhere == UNCHANGED <<wifi, button, timer, cuts>>

enableSW ==
  /\ initStep = "start"
  /\ swEnable' = TRUE /\ bootMode' = 0
  /\ initStep' = IF wifi THEN "first" ELSE "second"
  /\ UNCHANGED <<poll, swPushing, swflg, reads, ap, selector, asked, failedWrites>> /\ Elsewhere

FirstRead ==
  /\ initStep = "first" /\ initStep' = "wifi"
  /\ \E pressed \in BOOLEAN :
       readSW(pressed) /\ bootMode' = IF pressed THEN 2 ELSE bootMode
  /\ UNCHANGED <<swEnable, ap, selector, asked, failedWrites>> /\ Elsewhere

(* NefryWiFi.begin sets up the access point (the board has a ModulePass).   *)
WiFiBegin ==
  /\ initStep = "wifi" /\ initStep' = "second"
  /\ ap' = IF bootMode = 2 THEN "open" ELSE "password"
  /\ UNCHANGED <<switch, bootMode, selector, asked, failedWrites>> /\ Elsewhere

(* Mutant of SecondRead: only the switch is looked at.                      *)
SecondReadSwitchOnly ==
  /\ initStep = "second"
  /\ \E pressed \in BOOLEAN :
       /\ readSW(pressed)
       /\ initStep' = IF pressed THEN "clear" ELSE "disable"
       /\ bootMode' = IF pressed THEN bootMode ELSE 1
  /\ UNCHANGED <<swEnable, ap, selector, asked, failedWrites>> /\ Elsewhere

(* getBootSelector() == 1 || readSW()                                       *)
SecondRead ==
  /\ initStep = "second"
  /\ \/ selector = 1 /\ initStep' = "clear" /\ UNCHANGED <<poll, swPushing, swflg, reads, bootMode>>
     \/ /\ selector # 1
        /\ \E pressed \in BOOLEAN :
             /\ readSW(pressed)
             /\ initStep' = IF pressed THEN "clear" ELSE "disable"
             /\ bootMode' = IF pressed THEN bootMode ELSE 1
  /\ UNCHANGED <<swEnable, ap, selector, asked, failedWrites>> /\ Elsewhere

(* setBootSelector: the write can fail, its result is ignored.              *)
PutSelector(mode) ==
  \/ selector' = mode /\ UNCHANGED failedWrites
  \/ failedWrites < MaxFailedWrites /\ failedWrites' = failedWrites + 1 /\ UNCHANGED selector

(* Mutant of ClearSelector: the key is left set.                            *)
ClearNothing ==
  /\ initStep = "clear" /\ initStep' = "write"
  /\ UNCHANGED <<switch, bootMode, ap, selector, asked, failedWrites>> /\ Elsewhere

ClearSelector ==
  /\ initStep = "clear" /\ initStep' = "write"
  /\ PutSelector(0)
  /\ UNCHANGED <<switch, bootMode, ap, asked>> /\ Elsewhere

WriteMode ==
  /\ initStep = "write" /\ initStep' = "disable"
  /\ bootMode' = 2
  /\ UNCHANGED <<switch, ap, selector, asked, failedWrites>> /\ Elsewhere

disableSW ==
  /\ initStep = "disable" /\ initStep' = "run"
  /\ swEnable' = FALSE
  /\ asked' = (asked /\ bootMode # 2)
  /\ UNCHANGED <<poll, swPushing, swflg, reads, bootMode, ap, selector, failedWrites>> /\ Elsewhere

InitStep ==
  \/ enableSW \/ FirstRead \/ WiFiBegin \/ SecondRead \/ ClearSelector \/ WriteMode \/ disableSW

(***************************************************************************)
(* The web task and restarts.                                              *)
(***************************************************************************)

(* A start: memory is cleared, the keys in Flash stay.                      *)
Restart ==
  /\ initStep' = "start" /\ bootMode' = -1 /\ wifi' \in BOOLEAN /\ ap' = "off"
  /\ poll' = "first" /\ swEnable' = FALSE /\ swPushing' = FALSE /\ swflg' = FALSE /\ reads' = 0
  /\ resetFlg' = FALSE /\ countdown' = 0 /\ asks' = 0
  /\ releases' = 0

(* Mutant of Tick: the timer starts again with every run.                   *)
TickRearms(armed, left, served) ==
  /\ resetFlg' = armed /\ countdown' = Delay /\ asks' = served
  /\ UNCHANGED <<init, switch, button>>

(* The end of run(): the timer, armed or not, with that many runs left.     *)
Tick(armed, left, served) ==
  \/ /\ armed /\ left <= 1
     /\ Restart /\ UNCHANGED pin
  \/ /\ ~(armed /\ left <= 1)
     /\ resetFlg' = armed
     /\ countdown' = IF armed THEN left - 1 ELSE left
     /\ asks' = served
     /\ UNCHANGED <<init, switch, button>>

(* run() without a request, and with one: handleClient calls the handler of *)
(* the URI, which sends its page and calls resetTimer(2).                   *)
Run ==
  /\ initStep = "run"
  /\ Tick(resetFlg, countdown, asks)
  /\ UNCHANGED <<selector, asked, cuts, failedWrites>>

Serve(uri) ==
  /\ initStep = "run" /\ asks < MaxAsks
  /\ Tick(TRUE, Delay, asks + 1)
  /\ IF uri = "/onreset"
     THEN PutSelector(1) /\ asked' = (asked \/ selector' = 1)
     ELSE UNCHANGED <<selector, asked, failedWrites>>
  /\ UNCHANGED cuts

CutPower ==
  /\ cuts < MaxCuts /\ cuts' = cuts + 1
  /\ Restart /\ pin' \in {"LOW", "HIGH"}
  /\ asked' = (asked /\ initStep \notin {"write", "disable"})
  /\ UNCHANGED <<selector, failedWrites>>

BootNext ==
  \/ Press \/ Release \/ PollFirst \/ PollSecond \/ SketchSW
  \/ InitStep
  \/ Run \/ \E uri \in Pages : Serve(uri)
  \/ CutPower

(* The scheduler runs the main task and the web task.                       *)
Fairness == WF_bootVars(InitStep) /\ WF_bootVars(Run)

BootSpec == BootInit /\ [][BootNext]_bootVars /\ Fairness

(***************************************************************************)
(* Properties.                                                             *)
(***************************************************************************)

(* readSW reports a press at most once, and never one that was not made:    *)
(* pollingSW and readSW share _swflg without a lock, and pollingSW reads    *)
(* the pin twice.                                                           *)
PressReportedOnce == reads <= releases

(* The inductive invariant behind it: a press that is on its way to readSW  *)
(* has been released and not yet reported, and pollingSW is between its two *)
(* reads only while no press is waiting.                                    *)
OnItsWay ==
  (IF swflg THEN 1 ELSE 0) + (IF swPushing /\ pin = "HIGH" THEN 1 ELSE 0)

IInv ==
  /\ BootTypeOK
  /\ reads + OnItsWay <= releases
  /\ poll = "second" => ~swflg

(* A start ends in write mode only if /onreset asked for it or a press was  *)
(* read during this start (Nefry.cpp:69), unless a write of the key failed. *)
WriteModeHasCause ==
  initStep = "disable" /\ bootMode = 2 => asked \/ reads > 0 \/ failedWrites > 0

(* Why: while nefry_init runs, write mode and the steps that lead to it have *)
(* a cause, and the key is set only for a request that is due, or after a    *)
(* write that failed.                                                       *)
Caused == asked \/ reads > 0 \/ failedWrites > 0

CauseIInv ==
  /\ selector = 1 => asked \/ failedWrites > 0
  /\ initStep \in {"write", "disable"} => selector = 0 \/ failedWrites > 0
  /\ initStep \notin {"start", "run"} => swEnable
  /\ initStep \in {"start", "first"} => bootMode # 2
  /\ initStep \in {"wifi", "second"} /\ bootMode = 2 => reads > 0
  /\ initStep \in {"clear", "write"} => Caused
  /\ WriteModeHasCause

(* A stored request for write mode decides the next start that comes to its *)
(* end, whatever cuts come before that start has cleared it.                *)
AskDecides == initStep = "disable" /\ asked => bootMode = 2

(* Why: until a start has cleared the key, a request that is due is in      *)
(* Flash.                                                                   *)
AskKept == asked => selector = 1 \/ initStep \in {"write", "disable"}

AskIInv == AskKept /\ AskDecides

(* A board told to restart restarts (NefryWebServer.cpp:24-31).             *)
RestartComes == resetFlg ~> ~resetFlg

(* A board asked for write mode comes to write mode, or its request is lost *)
(* to a cut.                                                                *)
AskServed == asked ~> ~asked

(* The access point a start has set up is the one of its mode: open in      *)
(* write mode, with the ModulePass, "the Wi-Fi password Nefry sends out     *)
(* with" (Nefry.cpp:12), otherwise (NefryWiFi.cpp:49).                      *)
BootModeAgrees == initStep = "run" /\ wifi => (ap = "open") = (bootMode = 2)

=============================================================================
