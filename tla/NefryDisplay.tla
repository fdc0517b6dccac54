---------------------------- MODULE NefryDisplay ----------------------------
(***************************************************************************)
(* The print dialog of the display, NefryDisplay.cpp: three lines that      *)
(* print() of the sketch moves up, and that autoScrollTask, which the       *)
(* sketch runs as a task of its own, draws one after the other.  A line is  *)
(* the number of the print it comes from, 0 the empty string.  A String is  *)
(* assigned and read in one step here; that the code does so without a lock *)
(* can do worse than these properties say.                                  *)
(***************************************************************************)
EXTENDS Integers

CONSTANT MaxPrints   (* bound: calls of print()                              *)

ASSUME PrintsAssumption == MaxPrints \in Nat

VARIABLES
  nefryPrintDisplay,       (* _nefryPrintDisplay1 .. 3                       *)
  nefryPrintDisplayValue,  (* the lines in use                               *)
  moving,                  (* the line print() assigns next, 0 outside print *)
  prints,                  (* counter of the prints that have begun          *)
  func,                    (* _func is set                                   *)
  drawing,                 (* the line autoScrollTask draws next, 0: none    *)
  canvas, shown,           (* the lines in the frame buffer, on the panel    *)
  calm                     (* history: no print ran since the task began to  *)
                           (* draw                                           *)

dialogVars == <<nefryPrintDisplay, nefryPrintDisplayValue, moving, prints, func, drawing,
                canvas, shown, calm>>

Triples == [1 .. 3 -> 0 .. MaxPrints]

DialogTypeOK ==
  /\ nefryPrintDisplay \in Triples /\ canvas \in Triples /\ shown \in Triples
  /\ nefryPrintDisplayValue \in 0 .. 3 /\ moving \in 0 .. 4 /\ prints \in 0 .. MaxPrints
  /\ func \in BOOLEAN /\ drawing \in 0 .. 4 /\ calm \in BOOLEAN

Empty == [i \in 1 .. 3 |-> 0]

DialogInit ==
  /\ nefryPrintDisplay = Empty /\ nefryPrintDisplayValue = 0 /\ moving = 0 /\ prints = 0
  /\ func = FALSE /\ drawing = 0 /\ canvas = Empty /\ shown = Empty /\ calm = FALSE

printDialog(n) ==
  /\ moving = 0 /\ n = prints + 1 /\ n <= MaxPrints /\ prints' = n
  /\ moving' = IF nefryPrintDisplayValue < 3 THEN nefryPrintDisplayValue + 1 ELSE 1
  /\ calm' = FALSE
  /\ UNCHANGED <<nefryPrintDisplay, nefryPrintDisplayValue, func, drawing, canvas, shown>>

(* Mutant of Moved: the lines move down.                                    *)
MovedDown(l, i) == IF i = 1 THEN l[1] ELSE l[i - 1]

(* What line i becomes: the line below it, the last one the new line.       *)
Moved(l, i) == IF i = 3 THEN prints ELSE l[i + 1]

(* With fewer than three lines in use the new one takes the next; otherwise *)
(* line by line, from the top.                                              *)
moveLine ==
  /\ moving \in 1 .. 3
  /\ IF nefryPrintDisplayValue < 3
     THEN /\ nefryPrintDisplay' = [nefryPrintDisplay EXCEPT ![moving] = prints]
          /\ nefryPrintDisplayValue' = nefryPrintDisplayValue + 1 /\ moving' = 4
     ELSE /\ nefryPrintDisplay' = [nefryPrintDisplay EXCEPT ![moving] = Moved(nefryPrintDisplay, moving)]
          /\ moving' = moving + 1 /\ UNCHANGED nefryPrintDisplayValue
  /\ UNCHANGED <<prints, func, drawing, canvas, shown, calm>>

(* setAutoScrollFlg and autoScrollFunc.                                     *)
endPrint ==
  /\ moving = 4 /\ moving' = 0 /\ func' = TRUE
  /\ UNCHANGED <<nefryPrintDisplay, nefryPrintDisplayValue, prints, drawing, canvas, shown, calm>>

autoScrollTask ==
  /\ drawing = 0 /\ func
  /\ drawing' = 1 /\ canvas' = Empty /\ calm' = (moving = 0)
  /\ UNCHANGED <<nefryPrintDisplay, nefryPrintDisplayValue, moving, prints, func, shown>>

(* Mutant of LineDrawn: setPrintDialogDisplay draws from the bottom.        *)
LineFromBottom(n) == 4 - n

LineDrawn(n) == n

drawLineString ==
  /\ drawing \in 1 .. 3 /\ drawing' = drawing + 1
  /\ canvas' = [canvas EXCEPT ![LineDrawn(drawing)] = nefryPrintDisplay[LineDrawn(drawing)]]
  /\ UNCHANGED <<nefryPrintDisplay, nefryPrintDisplayValue, moving, prints, func, shown, calm>>

endDraw ==
  /\ drawing = 4 /\ drawing' = 0 /\ shown' = canvas
  /\ UNCHANGED <<nefryPrintDisplay, nefryPrintDisplayValue, moving, prints, func, canvas, calm>>

DialogNext ==
  \/ printDialog(prints + 1) \/ moveLine \/ endPrint
  \/ autoScrollTask \/ drawLineString \/ endDraw

DialogSpec == DialogInit /\ [][DialogNext]_dialogVars

(***************************************************************************)
(* Properties.                                                             *)
(***************************************************************************)

(* A print that moves the lines while they are drawn can show a line twice  *)
(* or leave one out, but never shows a line below a newer one: print()      *)
(* assigns from the top and the task draws from the top.                    *)
ShownInOrder ==
  \A i \in 1 .. 3 : \A j \in i .. 3 : shown[j] # 0 => shown[i] <= shown[j]

(* When no print ran while the task drew them, the last three lines are     *)
(* shown, in order.                                                         *)
LatestShown ==
  drawing = 0 /\ calm =>
    \A i \in 1 .. 3 : shown[i] = IF prints >= 3 THEN prints - 3 + i
                                 ELSE IF i <= prints THEN i ELSE 0

(* What holds of the three lines and what is drawn of them.                 *)
DialogInv == DialogTypeOK /\ ShownInOrder /\ LatestShown
=============================================================================
