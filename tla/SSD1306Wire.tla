---------------------------- MODULE SSD1306Wire ----------------------------
(***************************************************************************)
(* display() of the SSD1306 (SSD1306Wire.h): it compares the frame buffer   *)
(* with buffer_back, the copy of what the panel shows, and sends the box    *)
(* around the bytes that have changed.  One task calls it; the drawing      *)
(* functions of another one can change a byte between any two of its steps. *)
(* begin() has sent the whole buffer once.                                  *)
(***************************************************************************)
EXTENDS Integers, FiniteSetsExt

CONSTANTS
  PanelWidth, PanelPages,  (* 128 and 8 in the code                          *)
  Patterns,                (* values of a byte, with 0                       *)
  MaxPaints,               (* bound: bytes that are changed                  *)
  MaxDisplays              (* bound: calls of display()                      *)

ASSUME PanelAssumption ==
  /\ PanelWidth \in 1 .. 255 /\ PanelPages \in 1 .. 255 /\ 0 \in Patterns
  /\ MaxPaints \in Nat /\ MaxDisplays \in Nat

Area == PanelWidth * PanelPages
Pos  == 0 .. Area - 1            (* pos = x + y * DISPLAY_WIDTH               *)
X(p) == p % PanelWidth
Y(p) == p \div PanelWidth

VARIABLES
  frame,        (* buffer                                                    *)
  buffer_back, panel,
  displaying,   (* the next step of display()                                *)
  pos,          (* the byte it has reached                                   *)
  changed,      (* the bytes found changed: they span the box                *)
  paints, displays,
  drawn,        (* history: the bytes drawn since the last display() began   *)
  touched       (* history: bytes drawn between their comparison and their   *)
                (* turn to be sent, and not compared and sent in peace since *)

panelBuffers == <<frame, buffer_back, panel>>
panelVars    == <<panelBuffers, displaying, pos, changed, paints, displays, drawn, touched>>

PanelTypeOK ==
  /\ frame \in [Pos -> Patterns] /\ buffer_back \in [Pos -> Patterns] /\ panel \in [Pos -> Patterns]
  /\ displaying \in {"no", "compare", "copy", "send"} /\ pos \in 0 .. Area
  /\ changed \subseteq Pos /\ drawn \subseteq Pos /\ touched \subseteq Pos
  /\ paints \in 0 .. MaxPaints /\ displays \in 0 .. MaxDisplays

PanelInit ==
  /\ frame = [p \in Pos |-> 0] /\ buffer_back = frame /\ panel = frame
  /\ displaying = "no" /\ pos = 0 /\ changed = {}
  /\ paints = 0 /\ displays = 0 /\ drawn = {} /\ touched = {}

(* Mutant of Box: its width is that of the last changed byte's row only.    *)
BoxNarrow ==
  {p \in Pos : /\ \E a, b \in changed : Y(a) <= Y(p) /\ Y(p) <= Y(b)
               /\ \E a, b \in changed : X(a) <= X(p) /\ X(p) <= X(b)
                                        /\ Y(a) = Max({Y(c) : c \in changed}) /\ Y(b) = Y(a)}

(* minBoundX .. maxBoundX, minBoundY .. maxBoundY.                          *)
Box ==
  {p \in Pos : /\ \E a, b \in changed : Y(a) <= Y(p) /\ Y(p) <= Y(b)
               /\ \E a, b \in changed : X(a) <= X(p) /\ X(p) <= X(b)}

(***************************************************************************)
(* The sketch: a byte of the buffer changes, or clear() empties it.         *)
(***************************************************************************)
AtRisk ==   (* compared, but not sent yet                                    *)
  CASE displaying = "no"      -> {}
    [] displaying = "compare" -> {p \in Pos : p < pos}
    [] displaying = "copy"    -> {p \in Pos : p <= pos}
    [] displaying = "send"    -> {p \in Box : p >= pos}

Repaint(f) ==
  /\ paints < MaxPaints /\ paints' = paints + 1
  /\ frame' = f
  /\ LET new == {p \in Pos : f[p] # frame[p]}
     IN  drawn' = drawn \cup new /\ touched' = touched \cup (new \cap AtRisk)
  /\ UNCHANGED <<buffer_back, panel, displaying, pos, changed, displays>>

drawByte(p, v) == v # frame[p] /\ Repaint([frame EXCEPT ![p] = v])
clearFrame     == (\E p \in Pos : frame[p] # 0) /\ Repaint([p \in Pos |-> 0])

(***************************************************************************)
(* display(), byte by byte.                                                *)
(***************************************************************************)
startDisplay ==
  /\ displaying = "no" /\ displays < MaxDisplays
  /\ displays' = displays + 1
  /\ displaying' = "compare" /\ pos' = 0 /\ changed' = {} /\ drawn' = {}
  /\ UNCHANGED <<panelBuffers, paints, touched>>

compareByte ==
  /\ displaying = "compare" /\ pos < Area
  /\ displaying' = "copy"
  /\ changed' = IF frame[pos] # buffer_back[pos] THEN changed \cup {pos} ELSE changed
  /\ UNCHANGED <<panelBuffers, pos, paints, displays, drawn, touched>>

copyByte ==
  /\ displaying = "copy" /\ displaying' = "compare" /\ pos' = pos + 1
  /\ buffer_back' = [buffer_back EXCEPT ![pos] = frame[pos]]
  /\ UNCHANGED <<frame, panel, changed, paints, displays, drawn, touched>>

openBox ==
  /\ displaying = "compare" /\ pos = Area
  /\ IF changed = {} THEN displaying' = "no" /\ pos' = 0
                     ELSE displaying' = "send" /\ pos' = Min(Box)
  /\ UNCHANGED <<panelBuffers, changed, paints, displays, drawn, touched>>

sendByte ==
  /\ displaying = "send"
  /\ panel' = [panel EXCEPT ![pos] = frame[pos]]
  /\ touched' = IF pos \in drawn THEN touched ELSE touched \ {pos}
  /\ IF \E p \in Box : p > pos
     THEN pos' = Min({p \in Box : p > pos}) /\ UNCHANGED <<displaying, changed>>
     ELSE displaying' = "no" /\ pos' = 0 /\ changed' = {}
  /\ UNCHANGED <<frame, buffer_back, paints, displays, drawn>>

PanelNext ==
  \/ \E p \in Pos, v \in Patterns : drawByte(p, v)
  \/ clearFrame
  \/ startDisplay \/ compareByte \/ copyByte \/ openBox \/ sendByte

PanelSpec == PanelInit /\ [][PanelNext]_panelVars

(***************************************************************************)
(* Properties.                                                             *)
(***************************************************************************)

(* Between two displays the panel shows the frame buffer as it was when the *)
(* last one began, except for the bytes drawn while it ran, and those a     *)
(* drawing function hit in an earlier one between comparison and sending:   *)
(* buffer_back and the panel differ there, and display() looks at           *)
(* buffer_back only (SSD1306Wire.h:67-79, 101).                            *)
PanelShowsFrame ==
  displaying = "no" /\ displays > 0 => \A p \in Pos \ (drawn \cup touched) : panel[p] = frame[p]

(* What holds of the buffers and the panel (SSD1306Wire.h:56-113).          *)
PanelInv == PanelTypeOK /\ PanelShowsFrame
=============================================================================
