---------------------------- MODULE NefryConsole ----------------------------
(***************************************************************************)
(* The web console of a Nefry board, NefryConsole.cpp: a ring of lines that *)
(* the sketch and the pages print to, /cons that shows it, /consc that      *)
(* clears it, and the input line that /console stores and the sketch reads. *)
(*                                                                         *)
(* The sketch and the web task use the ring and its two counters with no    *)
(* lock: every access to them is an action.                                 *)
(***************************************************************************)
EXTENDS Integers, Sequences

CONSTANTS
  MaxConsole,  (* max_console, the lines of printweb: 30 in the code         *)
  Foreign,     (* what lies in memory behind printweb                        *)
  MaxLines,    (* bound: lines printed                                       *)
  MaxInputs    (* bound: inputs sent                                         *)

ASSUME ConsoleAssumption ==
  MaxConsole \in Nat \ {0} /\ MaxLines \in Nat /\ MaxInputs \in Nat /\ Foreign \notin Nat

Printers == {"sketch", "web"}
NoLine   == 0

VARIABLES
  printweb,      (* the ring; a line is the number of the print it comes from *)
  printcun,      (* the slot of the next line                                *)
  mojicount,     (* the lines of the page                                    *)
  input_console, (* the input nobody has read yet, 0 if there is none        *)
  doing,         (* doing[t]: the next access of task t                      *)
  line,          (* line[t]: the line t prints                               *)
  reg,           (* reg[t]: the value t has loaded of a counter, its index i *)
  content,       (* the page /cons has built so far                          *)
  printed,       (* counter: prints so far                                   *)
  since,         (* history: the last print before the console was cleared   *)
  overlaps,      (* history: prints that began while the other task printed  *)
  raced,         (* history: the two tasks were at the console at once since *)
                 (* it was last cleared by one of them alone                 *)
  inputs,        (* counter: inputs sent                                     *)
  taken          (* history: the last input the sketch has read              *)

ring        == <<printweb, printcun, mojicount>>
inputVars   == <<input_console, inputs, taken>>
printVars   == <<line, printed, overlaps>>
consoleVars == <<ring, inputVars, printVars, doing, reg, content, since, raced>>

ConsoleTypeOK ==
  /\ printweb \in [0 .. MaxConsole - 1 -> 0 .. MaxLines]
  /\ printcun \in Nat /\ mojicount \in Nat
  /\ input_console \in 0 .. MaxInputs /\ inputs \in 0 .. MaxInputs /\ taken \in 0 .. MaxInputs
  /\ doing \in [Printers -> {"idle", "wrap", "take", "advance", "copy", "count", "grow",
                             "from", "show", "send", "rewind", "forget"}]
  /\ line \in [Printers -> 0 .. MaxLines] /\ reg \in [Printers -> Nat]
  /\ content \in Seq((0 .. MaxLines) \cup {Foreign})
  /\ printed \in 0 .. MaxLines /\ since \in 0 .. MaxLines /\ overlaps \in 0 .. MaxLines
  /\ raced \in BOOLEAN

ConsoleInit ==
  /\ printweb = [i \in 0 .. MaxConsole - 1 |-> NoLine]
  /\ printcun = 0 /\ mojicount = 0 /\ input_console = 0
  /\ doing = [t \in Printers |-> "idle"]
  /\ line = [t \in Printers |-> NoLine] /\ reg = [t \in Printers |-> 0]
  /\ content = <<>>
  /\ printed = 0 /\ since = 0 /\ overlaps = 0 /\ raced = FALSE
  /\ inputs = 0 /\ taken = 0

Do(t, place) == doing' = [doing EXCEPT ![t] = place]
Return(t)    == line' = [line EXCEPT ![t] = NoLine] /\ reg' = [reg EXCEPT ![t] = 0]
Load(t, n)   == reg' = [reg EXCEPT ![t] = n]
Alone(t)     == \A u \in Printers \ {t} : doing[u] = "idle"
Enter(t)     == doing[t] = "idle" /\ raced' = (raced \/ ~Alone(t))

(***************************************************************************)
(* print(): if (printcun >= max_console) printcun = 0; the line goes to     *)
(* printweb[printcun++]; if (mojicount <= max_console) mojicount++.         *)
(***************************************************************************)
Printing(t) == doing[t] \in {"wrap", "take", "advance", "copy", "count", "grow"}

(* Mutant of RingIsFull: the test is missing.                               *)
RingNeverFull  == FALSE

RingIsFull == printcun >= MaxConsole

print(t) ==
  /\ printed < MaxLines /\ printed' = printed + 1
  /\ line' = [line EXCEPT ![t] = printed + 1]
  /\ Do(t, IF RingIsFull THEN "wrap" ELSE "take")
  /\ overlaps' = overlaps + (IF \E u \in Printers \ {t} : Printing(u) THEN 1 ELSE 0)
  /\ UNCHANGED <<ring, reg, content, since>>

StartPrint(t) == Enter(t) /\ print(t) /\ UNCHANGED inputVars

Wrap(t) ==
  /\ doing[t] = "wrap" /\ Do(t, "take")
  /\ printcun' = 0
  /\ UNCHANGED <<printweb, mojicount, inputVars, printVars, reg, content, since, raced>>

Take(t) ==
  /\ doing[t] = "take" /\ Do(t, "advance")
  /\ Load(t, printcun)
  /\ UNCHANGED <<ring, inputVars, printVars, content, since, raced>>

Advance(t) ==
  /\ doing[t] = "advance" /\ Do(t, "copy")
  /\ printcun' = reg[t] + 1
  /\ UNCHANGED <<printweb, mojicount, inputVars, printVars, reg, content, since, raced>>

(* A line whose index is past the end is lost: it goes to foreign memory.   *)
CopyLine(t) ==
  /\ doing[t] = "copy" /\ Do(t, "count")
  /\ printweb' = [i \in DOMAIN printweb |-> IF i = reg[t] THEN line[t] ELSE printweb[i]]
  /\ UNCHANGED <<printcun, mojicount, inputVars, printVars, reg, content, since, raced>>

Count(t) ==
  /\ doing[t] = "count"
  /\ IF mojicount <= MaxConsole THEN Do(t, "grow") /\ Load(t, mojicount) /\ UNCHANGED line
                                ELSE Do(t, "idle") /\ Return(t)
  /\ UNCHANGED <<ring, inputVars, printed, overlaps, content, since, raced>>

Grow(t) ==
  /\ doing[t] = "grow" /\ Do(t, "idle") /\ Return(t)
  /\ mojicount' = reg[t] + 1
  /\ UNCHANGED <<printweb, printcun, inputVars, printed, overlaps, content, since, raced>>

(***************************************************************************)
(* /cons: from printcun on when the ring has gone round, from the first     *)
(* slot otherwise, mojicount lines; the index is set back to 0 one past the *)
(* end, behind a line that is none.                                         *)
(***************************************************************************)
OpenCons ==
  /\ Enter("web") /\ Do("web", "from")
  /\ Load("web", printcun) /\ content' = <<>>
  /\ UNCHANGED <<ring, inputVars, printVars, since>>

ConsFrom ==
  /\ doing["web"] = "from" /\ Do("web", "show")
  /\ Load("web", IF mojicount < MaxConsole THEN 0 ELSE reg["web"])
  /\ UNCHANGED <<ring, inputVars, printVars, content, since, raced>>

(* Mutant of SlotAt: the index goes back one slot too early.                *)
SlotAtEnd(i) == IF i >= MaxConsole THEN 0 ELSE i

SlotAt(i) == IF i > MaxConsole THEN 0 ELSE i

LineAt(i) == IF i \in DOMAIN printweb THEN printweb[i] ELSE Foreign

ConsShow ==
  /\ doing["web"] = "show"
  /\ IF Len(content) < mojicount
     THEN /\ content' = Append(content, LineAt(SlotAt(reg["web"])))
          /\ Load("web", SlotAt(reg["web"]) + 1) /\ UNCHANGED doing
     ELSE Do("web", "send") /\ UNCHANGED <<content, reg>>
  /\ UNCHANGED <<ring, inputVars, printVars, since, raced>>

ConsSend ==
  /\ doing["web"] = "send" /\ Do("web", "idle")
  /\ content' = <<>> /\ Load("web", 0)
  /\ UNCHANGED <<ring, inputVars, printVars, since, raced>>

(***************************************************************************)
(* clearConsole(), by /consc, by an upload, or by the sketch.  A task that  *)
(* is alone leaves the counters as they were at the start.                  *)
(***************************************************************************)
clearConsole(t) ==
  /\ doing[t] = "idle" /\ Do(t, "rewind")
  /\ mojicount' = 0
  /\ since' = printed /\ raced' = ~Alone(t)
  /\ UNCHANGED <<printweb, printcun, inputVars, printVars, reg, content>>

Rewind(t) ==
  /\ doing[t] = "rewind" /\ Do(t, "idle")
  /\ printcun' = 0
  /\ UNCHANGED <<printweb, mojicount, inputVars, printVars, reg, content, since, raced>>

(***************************************************************************)
(* The input line: /console stores the argument of the request, which is    *)
(* empty when the page is just opened, and prints it; read() by the sketch  *)
(* copies it and then empties it.                                           *)
(***************************************************************************)
OpenConsole ==
  /\ Enter("web")
  /\ input_console' = 0
  /\ UNCHANGED <<ring, printVars, doing, reg, content, since, inputs, taken>>

SendInput ==
  /\ Enter("web") /\ inputs < MaxInputs
  /\ inputs' = inputs + 1 /\ input_console' = inputs + 1
  /\ print("web")
  /\ UNCHANGED taken

(* Mutant of Read: the input is not emptied.                                *)
ReadAgain ==
  /\ Enter("sketch") /\ input_console # 0
  /\ taken' = input_console
  /\ UNCHANGED <<ring, printVars, doing, reg, content, since, inputs, input_console>>

Read ==
  /\ Enter("sketch") /\ input_console # 0
  /\ taken' = input_console /\ Do("sketch", "forget")
  /\ UNCHANGED <<ring, printVars, reg, content, since, inputs, input_console>>

Forget ==
  /\ doing["sketch"] = "forget" /\ Do("sketch", "idle")
  /\ input_console' = 0
  /\ UNCHANGED <<ring, printVars, reg, content, since, raced, inputs, taken>>

ConsoleNext ==
  \/ \E t \in Printers :
       \/ StartPrint(t) \/ Wrap(t) \/ Take(t) \/ Advance(t) \/ CopyLine(t) \/ Count(t) \/ Grow(t)
       \/ clearConsole(t) \/ Rewind(t)
  \/ OpenCons \/ ConsFrom \/ ConsShow \/ ConsSend
  \/ OpenConsole \/ SendInput \/ Read \/ Forget

ConsoleSpec == ConsoleInit /\ [][ConsoleNext]_consoleVars

(***************************************************************************)
(* Properties.                                                             *)
(***************************************************************************)

(* However two prints interleave, the index runs past the ring by one slot  *)
(* at most for each print that began while the other task was printing:     *)
(* NefryConsole.cpp:34 tests the counter long before line 37 counts it up.  *)
CountersBounded == printcun <= MaxConsole + overlaps /\ mojicount <= MaxConsole + 1

(* A page that was built while nobody else was at the console, and nobody   *)
(* has raced since it was cleared, shows consecutive lines in the order     *)
(* they were printed, with one row of foreign memory between them at most;  *)
(* the last one is the newest or the one before, and no more than one line  *)
(* that still is in the ring is missing.                                    *)
LinesBehind(i, gap) == Len(content) - i - (IF i < gap /\ gap <= Len(content) THEN 1 ELSE 0)

PageInOrder ==
  doing["web"] = "send" /\ ~raced =>
    LET kept == IF printed - since < MaxConsole THEN printed - since ELSE MaxConsole
    IN  \E newest \in {printed, printed - 1}, gap \in 1 .. Len(content) + 1 :
          /\ LinesBehind(0, gap) >= kept - 1
          /\ \A i \in DOMAIN content :
               content[i] = IF i = gap THEN Foreign ELSE newest - LinesBehind(i, gap)

(* The sketch reads an input once, and inputs in the order they were sent,  *)
(* although read() copies and empties the string in two steps: what it can  *)
(* do is lose the one that comes in between.                                *)
ReadOnce == doing["sketch"] # "forget" /\ input_console # 0 => input_console > taken

(* Why the counters are bounded: a task between its test and its store adds *)
(* one at most to what it has seen; two of them, two, but then one of them  *)
(* has begun while the other was printing.                                  *)
Bound == MaxConsole + overlaps

CountersKnown ==
  /\ printcun <= Bound /\ mojicount <= MaxConsole + 1
  /\ overlaps <= printed /\ since <= printed
  /\ \A t \in Printers :
       /\ doing[t] = "grow" => reg[t] <= MaxConsole
       /\ doing[t] = "take" => printcun + 1 <= Bound
       /\ doing[t] = "advance" => reg[t] + 1 <= Bound
  /\ \A t, u \in Printers : t # u =>
       /\ Printing(t) /\ Printing(u) => overlaps > 0
       /\ doing[t] = "take" /\ doing[u] \in {"wrap", "take"} => printcun + 2 <= Bound
       /\ doing[t] = "advance" /\ doing[u] \in {"wrap", "take"} => reg[t] + 2 <= Bound

(* Why pages are in order: as long as nobody has raced one task at most is  *)
(* at the console, and the ring holds, from the index backwards and round   *)
(* the end, the newest lines since it was cleared.                          *)
OneAtATime == \A t, u \in Printers : t # u => doing[t] = "idle" \/ doing[u] = "idle"

LineOf(i, newest, c) == newest - (c - 1 - i) - (IF i < c THEN 0 ELSE MaxConsole)

Filled(newest, c) ==
  \A i \in DOMAIN printweb :
    LineOf(i, newest, c) > since => printweb[i] = LineOf(i, newest, c)

Counted(n) == mojicount = IF n <= MaxConsole THEN n ELSE MaxConsole + 1

Indexed(n, c) == c <= MaxConsole /\ (n <= MaxConsole => c = n) /\ (n > 0 => c > 0)

RingRest ==
  Filled(printed, printcun) /\ Counted(printed - since) /\ Indexed(printed - since, printcun)

RingAt(t) ==
  LET n == printed - since
  IN  /\ doing[t] = "rewind" => n = 0 /\ mojicount = 0
      /\ Printing(t) => n > 0 /\ line[t] = printed
      /\ doing[t] \in {"wrap", "take", "advance", "copy", "count"} => Counted(n - 1)
      /\ doing[t] = "wrap" =>
           Filled(printed - 1, printcun) /\ printcun = MaxConsole /\ n > MaxConsole
      /\ doing[t] \in {"take", "advance"} =>
           Filled(printed - 1, printcun) /\ printcun < MaxConsole
           /\ (n <= MaxConsole => printcun = n - 1)
      /\ doing[t] = "advance" => reg[t] = printcun
      /\ doing[t] = "copy" => Filled(printed - 1, reg[t]) /\ printcun = reg[t] + 1
      /\ doing[t] \in {"count", "grow"} => Filled(printed, printcun)
      /\ doing[t] \in {"copy", "count", "grow"} => Indexed(n, printcun)
      /\ doing[t] = "grow" => reg[t] = n - 1 /\ mojicount = n - 1 /\ n - 1 <= MaxConsole

RingKnown ==
  /\ (\A t \in Printers : ~Printing(t) /\ doing[t] # "rewind") => RingRest
  /\ \A t \in Printers : RingAt(t)

(* The slot the k-th row of the page comes from.                            *)
FirstSlot   == IF mojicount < MaxConsole THEN 0 ELSE printcun
ShownSlot(k) == IF FirstSlot + k - 1 <= MaxConsole THEN FirstSlot + k - 1
                                                   ELSE FirstSlot + k - 1 - (MaxConsole + 1)

PageKnown ==
  /\ doing["web"] = "from" => content = <<>> /\ reg["web"] = printcun
  /\ doing["web"] = "show" =>
       Len(content) <= mojicount /\ SlotAt(reg["web"]) = ShownSlot(Len(content) + 1)
  /\ doing["web"] = "send" => Len(content) = mojicount
  /\ doing["web"] \in {"show", "send"} =>
       \A k \in DOMAIN content : content[k] = LineAt(ShownSlot(k))

Unraced == ~raced => OneAtATime /\ RingKnown /\ PageKnown

InputKnown == taken <= inputs /\ input_console <= inputs

ConsoleIInv == ConsoleTypeOK /\ CountersKnown /\ Unraced /\ InputKnown /\ ReadOnce

(* What holds of the console at every step: its counters, its pages, its    *)
(* inputs (NefryConsole.cpp:33-134).                                        *)
ConsoleInv == ConsoleTypeOK /\ CountersBounded /\ PageInOrder /\ ReadOnce
=============================================================================
