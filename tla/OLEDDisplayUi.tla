--------------------------- MODULE OLEDDisplayUi ---------------------------
(***************************************************************************)
(* The frame user interface of the display, OLEDDisplayUi.cpp: frames that  *)
(* follow each other in transitions, started by the clock or by calls of    *)
(* the sketch.  The sketch calls update() from its loop; update() compares  *)
(* the time with the last tick in eight bits and ticks when one is due.     *)
(***************************************************************************)
EXTENDS Integers, FiniteSets

CONSTANTS
  FrameCounts,  (* sizes of the arrays of frames passed to setFrames        *)
  Hiding,       (* the frames that hide the indicator when drawn            *)
  updateInterval, (* milliseconds between two ticks, 33 by default          *)
  Gap, LongGap, (* milliseconds between two calls of update()               *)
  ticksPerFrame, ticksPerTransition,
  MaxCalls,     (* bound: calls of the sketch that change the state         *)
  MaxSleeps     (* bound: calls of update() that come LongGap late          *)

ASSUME UiAssumption ==
  /\ FrameCounts \subseteq 1 .. 127 /\ updateInterval \in 1 .. 255
  /\ Gap \in Nat \ {0} /\ LongGap \in Nat \ {0}
  /\ ticksPerFrame \in Nat /\ ticksPerTransition \in Nat
  /\ MaxCalls \in Nat /\ MaxSleeps \in Nat

NoFrame    == -1
Frame      == 0 .. 126
Directions == {1, -1}

VARIABLES
  frameCount, autoTransition,
  frameState, currentFrame, nextFrameNumber, ticks,
  frameTransitionDirection, lastTransitionDirection, manuelControll,
  isIndicatorDrawen, indicatorDrawState,
  elapsed,      (* milliseconds since lastUpdate, modulo 2^8; 0 after a tick*)
  started,      (* lastUpdate # 0                                           *)
  calls, sleeps,
  goal,         (* history: the frame the transition was started for        *)
  autoWay,      (* history: the direction the sketch has set                *)
  crossed,      (* history: "target": a call ended a transition and left its*)
              (* target behind; "frame": the frame shown is such a target;  *)
              (* "no": neither                                              *)
  stacked,      (* history: a transition of the sketch began before the     *)
              (* direction was set back after the one before                *)
  settled,      (* history: no call came into the transition under way, and *)
              (* a frame at rest was drawn before it                         *)
  slept         (* history: more time has passed since lastUpdate than eight*)
              (* bits can hold                                              *)

position  == <<frameState, currentFrame, nextFrameNumber>>
direction == <<frameTransitionDirection, lastTransitionDirection, manuelControll>>
indicator == <<isIndicatorDrawen, indicatorDrawState>>
clock     == <<elapsed, started, sleeps, slept>>
uiHistory == <<goal, autoWay, crossed, stacked, settled>>
uiVars    == <<frameCount, autoTransition, position, ticks, direction, indicator, clock,
               calls, uiHistory>>

UiTypeOK ==
  /\ frameCount \in FrameCounts /\ autoTransition \in BOOLEAN
  /\ frameState \in {"FIXED", "IN_TRANSITION"}
  /\ currentFrame \in Frame /\ nextFrameNumber \in Frame \cup {NoFrame}
  /\ ticks \in 0 .. 2^16 - 1
  /\ frameTransitionDirection \in Directions /\ lastTransitionDirection \in Directions
  /\ manuelControll \in BOOLEAN /\ isIndicatorDrawen \in BOOLEAN
  /\ indicatorDrawState \in 0 .. 3
  /\ elapsed \in 0 .. 255 /\ started \in BOOLEAN
  /\ calls \in 0 .. MaxCalls /\ sleeps \in 0 .. MaxSleeps
  /\ goal \in Frame \cup {NoFrame} /\ autoWay \in Directions
  /\ crossed \in {"no", "target", "frame"} /\ stacked \in BOOLEAN
  /\ settled \in BOOLEAN /\ slept \in BOOLEAN

(* The state after the first setFrames.                                     *)
UiInit ==
  /\ frameCount \in FrameCounts
  /\ autoTransition = TRUE
  /\ frameState = "FIXED" /\ currentFrame = 0 /\ nextFrameNumber = NoFrame /\ ticks = 0
  /\ frameTransitionDirection = 1 /\ lastTransitionDirection = 1 /\ manuelControll = FALSE
  /\ isIndicatorDrawen = TRUE /\ indicatorDrawState = 1
  /\ elapsed = 0 /\ started = FALSE
  /\ calls = 0 /\ sleeps = 0
  /\ goal = NoFrame /\ autoWay = 1 /\ crossed = "no" /\ stacked = FALSE
  /\ settled = FALSE /\ slept = TRUE

(* Mutant of Neighbour: the frames end at the last one.                     *)
NeighbourOrStay(f, way) == IF f + way \in 0 .. frameCount - 1 THEN f + way ELSE f

Neighbour(f, way) == (f + frameCount + way) % frameCount

(* Mutants of getNextFrameNumber: no wrap-around; the direction is left out.*)
NextPastEnd(upcoming, f, way) == IF upcoming # NoFrame THEN upcoming ELSE f + way
NextForwards(upcoming, f, way) == IF upcoming # NoFrame THEN upcoming ELSE Neighbour(f, 1)

getNextFrameNumber(upcoming, f, way) == IF upcoming # NoFrame THEN upcoming ELSE Neighbour(f, way)

(***************************************************************************)
(* Calls of the sketch.                                                     *)
(***************************************************************************)
Call == calls < MaxCalls /\ calls' = calls + 1

(* A call that changes the frames of the transition under way.              *)
Unsettle == settled' = (settled /\ frameState = "FIXED")

setAutoTransition(way) ==
  /\ Call
  /\ frameTransitionDirection' = way /\ lastTransitionDirection' = way
  /\ autoWay' = way /\ stacked' = FALSE /\ Unsettle
  /\ goal' = IF frameState = "IN_TRANSITION" /\ nextFrameNumber = NoFrame
             THEN Neighbour(currentFrame, way) ELSE goal
  /\ UNCHANGED <<frameCount, autoTransition, position, ticks, manuelControll, indicator, clock,
                 crossed>>

enableAutoTransition(on) ==
  /\ Call /\ autoTransition # on
  /\ autoTransition' = on
  /\ UNCHANGED <<frameCount, position, ticks, direction, indicator, clock, uiHistory>>

(* What a call that ends a transition leaves behind.                        *)
LeftBehind == IF nextFrameNumber # NoFrame THEN "target" ELSE "no"

(* resetState keeps nextFrameNumber, the directions and manuelControll.     *)
(* lastUpdate = 0: the time since then is the time since the start.         *)
setFrames(n) ==
  /\ Call /\ n # frameCount
  /\ frameCount' = n
  /\ frameState' = "FIXED" /\ currentFrame' = 0 /\ ticks' = 0
  /\ isIndicatorDrawen' = TRUE
  /\ started' = FALSE
  /\ elapsed' \in {0, LongGap % 256} /\ slept' = TRUE
  /\ goal' = NoFrame /\ crossed' = LeftBehind /\ Unsettle
  /\ UNCHANGED <<autoTransition, nextFrameNumber, direction, indicatorDrawState, sleeps,
                 autoWay, stacked>>

StartManual(way) ==
  /\ frameState' = "IN_TRANSITION" /\ ticks' = 0
  /\ manuelControll' = TRUE
  /\ lastTransitionDirection' = frameTransitionDirection
  /\ frameTransitionDirection' = way
  /\ stacked' = (stacked \/ manuelControll) /\ Unsettle
  /\ UNCHANGED <<frameCount, autoTransition, currentFrame, indicator, clock, autoWay>>

(* nextFrame() and previousFrame().                                         *)
stepFrame(way) ==
  /\ Call /\ frameState # "IN_TRANSITION"
  /\ goal' = Neighbour(currentFrame, way)
  /\ StartManual(way)
  /\ UNCHANGED <<nextFrameNumber, crossed>>

switchToFrame(f) ==
  /\ Call /\ f < frameCount
  /\ ticks' = 0
  /\ IF f = currentFrame THEN UNCHANGED <<position, isIndicatorDrawen, goal, crossed, settled>>
     ELSE /\ frameState' = "FIXED" /\ currentFrame' = f
          /\ isIndicatorDrawen' = TRUE
          /\ goal' = NoFrame
          /\ crossed' = LeftBehind /\ Unsettle
          /\ UNCHANGED nextFrameNumber
  /\ UNCHANGED <<frameCount, autoTransition, direction, indicatorDrawState, clock,
                 autoWay, stacked>>

transitionToFrame(f) ==
  /\ Call /\ f < frameCount
  /\ IF f = currentFrame
     THEN /\ ticks' = 0
          /\ UNCHANGED <<frameCount, autoTransition, position, direction, indicator, clock,
                         uiHistory>>
     ELSE /\ nextFrameNumber' = f /\ goal' = f
          /\ crossed' = IF crossed = "target" THEN "no" ELSE crossed
          /\ StartManual(IF f < currentFrame THEN -1 ELSE 1)

(***************************************************************************)
(* tick().                                                                  *)
(***************************************************************************)
FinishTransition ==
  /\ frameState = "IN_TRANSITION" /\ ticks' = 0
  /\ frameState' = "FIXED"
  /\ currentFrame' = getNextFrameNumber(nextFrameNumber, currentFrame, frameTransitionDirection)
  /\ nextFrameNumber' = NoFrame
  /\ goal' = NoFrame
  /\ crossed' = IF crossed = "target" /\ nextFrameNumber # NoFrame THEN "frame" ELSE "no"
  /\ UNCHANGED direction

(* Mutant of RevertControl: the direction of the sketch stays.              *)
KeepControl ==
  /\ manuelControll' = FALSE /\ UNCHANGED <<frameTransitionDirection, lastTransitionDirection>>

RevertControl ==
  /\ frameTransitionDirection' =
       (IF manuelControll THEN lastTransitionDirection ELSE frameTransitionDirection)
  /\ manuelControll' = FALSE /\ UNCHANGED lastTransitionDirection

(* The time of a frame is over; with no automatic transition it begins anew.*)
FinishFrame ==
  /\ frameState = "FIXED" /\ ticks' = 0
  /\ RevertControl
  /\ frameState' = IF autoTransition THEN "IN_TRANSITION" ELSE "FIXED"
  /\ goal' = IF autoTransition
             THEN Neighbour(currentFrame, frameTransitionDirection') ELSE NoFrame
  /\ UNCHANGED <<currentFrame, nextFrameNumber, crossed>>

(* Mutant of GoOn: only automatic transitions count ticks.                  *)
GoOnByItself(t) ==
  /\ ticks' = IF autoTransition THEN t ELSE ticks
  /\ IF frameState = "FIXED" THEN RevertControl ELSE UNCHANGED direction
  /\ UNCHANGED <<position, goal, crossed>>

GoOn(t) ==
  /\ ticks' = t
  /\ IF frameState = "FIXED" THEN RevertControl ELSE UNCHANGED direction
  /\ UNCHANGED <<position, goal, crossed>>

(* drawFrame(): each frame function is drawn with the indicator enabled and *)
(* may hide it.  When both frames of a transition draw it, the state is     *)
(* left as it was.                                                          *)
drawFrame(state, f, upcoming) ==
  LET now  == f \notin Hiding
      then == upcoming \notin Hiding
  IN  IF state = "FIXED" THEN isIndicatorDrawen' = now /\ indicatorDrawState' = 0
      ELSE /\ isIndicatorDrawen' = (now /\ then)
           /\ indicatorDrawState' = CASE now  /\ ~then -> 2
                                      [] ~now /\ then  -> 1
                                      [] ~now /\ ~then -> 3
                                      [] OTHER         -> indicatorDrawState

tick(skipped) ==
  LET t == (ticks + skipped + 1) % 2^16
  IN  /\ \/ frameState = "IN_TRANSITION" /\ t >= ticksPerTransition /\ FinishTransition
         \/ frameState = "FIXED" /\ t >= ticksPerFrame /\ FinishFrame
         \/ /\ t < (IF frameState = "FIXED" THEN ticksPerFrame ELSE ticksPerTransition)
            /\ GoOn(t)
      /\ drawFrame(frameState', currentFrame',
                   getNextFrameNumber(nextFrameNumber', currentFrame', frameTransitionDirection'))
      /\ settled' = (settled \/ frameState' = "FIXED")

(***************************************************************************)
(* drawIndicator(), at the end of every tick: one symbol for every frame,   *)
(* the active one for the frame to highlight, pushed off the display while  *)
(* the indicator slides in or out.                                          *)
(***************************************************************************)
Sides == {"TOP", "RIGHT", "BOTTOM", "LEFT"}

NextFrame == getNextFrameNumber(nextFrameNumber, currentFrame, frameTransitionDirection)

(* Mutant of IndicatorShown: the flag of the last frame drawn decides alone.*)
ShownByFlag == isIndicatorDrawen

IndicatorShown ==
  indicatorDrawState # 3 /\ (isIndicatorDrawen \/ frameState = "IN_TRANSITION")

(* Mutant of frameToHighlight: the frame that slides out, always.           *)
HighlightCurrent == currentFrame

frameToHighlight == IF indicatorDrawState = 1 THEN NextFrame ELSE currentFrame

(* From right to left the place of frame 0 is past the last symbol.         *)
posOfHighlightFrame(way) ==
  IF way = "LEFT_RIGHT" THEN frameToHighlight ELSE frameCount - frameToHighlight

(* Mutant of Fade: it slides in the way it slides out.                      *)
FadeOut ==
  IF indicatorDrawState \in {1, 2} THEN (8 * ticks) \div ticksPerTransition ELSE 0

(* indicatorFadeProgress in pixels.                                         *)
Fade == CASE indicatorDrawState = 1 -> (8 * (ticksPerTransition - ticks)) \div ticksPerTransition
          [] indicatorDrawState = 2 -> (8 * ticks) \div ticksPerTransition
          [] OTHER                  -> 0

SymbolPlace(side, i) ==
  LET along == 12 * i - (12 * frameCount) \div 2
  IN  CASE side = "TOP"    -> [x |-> 64 + along, y |-> -Fade]
        [] side = "BOTTOM" -> [x |-> 64 + along, y |-> 56 + Fade]
        [] side = "RIGHT"  -> [x |-> 120 + Fade, y |-> 34 + along]
        [] side = "LEFT"   -> [x |-> -Fade,      y |-> 34 + along]

drawIndicator(side, way) ==
  {[i |-> i, place |-> SymbolPlace(side, i), active |-> i = posOfHighlightFrame(way)] :
     i \in {j \in 0 .. frameCount - 1 : IndicatorShown}}

(***************************************************************************)
(* update(): timeBudget = updateInterval - (now - lastUpdate) as int8_t.    *)
(* The frames that were skipped count only when the interface has ticked    *)
(* before and advances by itself.                                           *)
(***************************************************************************)
Int8(n) == ((n + 128) % 256) - 128

(* Mutant of timeBudget: a tick that is just due waits.                     *)
laxBudget(e) == Int8(updateInterval + 1 - e)

timeBudget(e) == Int8(updateInterval - e)

update(gap) ==
  LET e == (elapsed + gap) % 256
  IN  /\ IF timeBudget(e) <= 0
         THEN /\ tick(IF autoTransition /\ started THEN (-timeBudget(e)) \div updateInterval
                                                   ELSE 0)
              /\ elapsed' = 0 /\ started' = TRUE /\ slept' = FALSE
         ELSE /\ elapsed' = e
              /\ slept' = (slept \/ elapsed + gap > updateInterval + 128)
              /\ UNCHANGED <<position, ticks, direction, indicator, started, goal, crossed, settled>>
      /\ UNCHANGED <<frameCount, autoTransition, calls, autoWay, stacked>>

Update == update(Gap) /\ UNCHANGED sleeps
Sleep  == sleeps < MaxSleeps /\ sleeps' = sleeps + 1 /\ update(LongGap)

UiNext ==
  \/ \E way \in Directions : setAutoTransition(way) \/ stepFrame(way)
  \/ \E on \in BOOLEAN : enableAutoTransition(on)
  \/ \E n \in FrameCounts : setFrames(n)
  \/ \E f \in Frame : f < frameCount /\ (switchToFrame(f) \/ transitionToFrame(f))
  \/ Update \/ Sleep

UiFairness == WF_uiVars(Update)
UiSpec == UiInit /\ [][UiNext]_uiVars /\ UiFairness

(***************************************************************************)
(* Properties.                                                              *)
(***************************************************************************)

(* The frame on the display and the one that slides in are frames of the    *)
(* array: their functions are called through it.  switchToFrame and         *)
(* setFrames end a transition and keep its target (OLEDDisplayUi.cpp:165,   *)
(* 105), which may be past a new array: nothing is promised from there on   *)
(* until a transition with a target of its own has ended.                   *)
FramesExist ==
  crossed = "no" =>
    /\ currentFrame < frameCount
    /\ getNextFrameNumber(nextFrameNumber, currentFrame, frameTransitionDirection) < frameCount

(* A transition ends on the frame it was started for, whoever started it    *)
(* and whatever came between, unless its target was crossed.                *)
ReachesGoal ==
  [][frameState = "IN_TRANSITION" /\ frameState' = "FIXED" /\ calls' = calls /\ crossed = "no"
       => currentFrame' = goal]_uiVars

(* When the sketch has had its frame, the automatic transitions go on in    *)
(* the direction it has set, unless one call of its came before the tick    *)
(* that ends the control of the call before (OLEDDisplayUi.cpp:150).        *)
DirectionKept ==
  frameState = "FIXED" /\ ~manuelControll /\ ~stacked => frameTransitionDirection = autoWay

(* As long as update() comes within 128 ms of a due tick, no update() goes  *)
(* by without the tick that is due.                                         *)
TicksInTime == ~slept => elapsed < updateInterval

(* What the indicator shows after a tick.  At rest it is there when the     *)
(* frame shows it; in a transition when one of the two frames does.  It     *)
(* stands still on the display when it is there before and after, slides    *)
(* out when only the old frame shows it and in when only the new one does,  *)
(* and lights the symbol of a frame that shows it.  indicatorDrawState is   *)
(* not set by a transition between two frames that show it                  *)
(* (OLEDDisplayUi.cpp:306): one whose frames a call has changed draws with  *)
(* what was left over, and nothing is promised until a frame is at rest.    *)
Shows(f) == f \notin Hiding

OnDisplay(xy) == xy.x \in 0 .. 120 /\ xy.y \in 0 .. 56

IndicatorFits ==
  LET moving  == frameState = "IN_TRANSITION"
      Wanted  == Shows(currentFrame) \/ (moving /\ Shows(NextFrame))
      Still   == Shows(currentFrame) /\ (moving => Shows(NextFrame))
      Lit     == IF Shows(currentFrame) THEN currentFrame ELSE NextFrame
  IN  (~moving \/ settled) /\ crossed = "no" =>
        \A side \in Sides :
          LET symbols == drawIndicator(side, "LEFT_RIGHT")
          IN  /\ Cardinality(symbols) = (IF Wanted THEN frameCount ELSE 0)
              /\ \A s \in symbols : s.active <=> s.i = Lit
              /\ Still => \A s \in symbols : OnDisplay(s.place)
              /\ ticks = 0 /\ ~Shows(currentFrame) => \A s \in symbols : ~OnDisplay(s.place)
              /\ Cardinality({s.place : s \in symbols}) = Cardinality(symbols)

IndicatorCorrect ==
  [][started' /\ ~slept' /\ elapsed' = 0 /\ calls' = calls => IndicatorFits']_uiVars

(* Every transition ends, however late update() was called in between.      *)
TransitionEnds == frameState = "IN_TRANSITION" ~> frameState = "FIXED"

(* With automatic transitions every frame is shown again and again.         *)
AllFramesShown ==
  \A f \in 0 .. 2 : <>[](autoTransition /\ f < frameCount) => []<>(currentFrame = f)

(* Why: only a frame left behind as a target can be past the array, and it  *)
(* is shown at most once; unless two calls of the sketch came too close, its*)
(* direction is in force or kept for later; and a transition leads to the   *)
(* frame it was started for.                                                *)
FramesKnown ==
  /\ crossed # "frame" => currentFrame < frameCount
  /\ crossed # "target" => nextFrameNumber = NoFrame \/ nextFrameNumber < frameCount

DirectionKnown ==
  ~stacked =>
    autoWay = IF manuelControll THEN lastTransitionDirection ELSE frameTransitionDirection

GoalKnown ==
  /\ crossed = "no" /\ frameState = "FIXED" => nextFrameNumber = NoFrame
  /\ crossed = "no" /\ frameState = "IN_TRANSITION" => goal = NextFrame

UiIInv == UiTypeOK /\ FramesKnown /\ DirectionKnown /\ GoalKnown /\ TicksInTime

(* What holds of the frames at every step (OLEDDisplayUi.cpp:146-240).      *)
UiInv == UiTypeOK /\ FramesExist /\ DirectionKept /\ TicksInTime
=============================================================================
