----------------------------- MODULE WiFiEvents -----------------------------
(***************************************************************************)
(* Who is told of the network events, WiFiGeneric.cpp: onEvent and          *)
(* removeEvent keep a list of callbacks, which the task of the events goes  *)
(* through by index.  A callback may itself register and remove callbacks.  *)
(* What other tasks change in the list while it is gone through is a data   *)
(* race on a vector and left out.                                           *)
(***************************************************************************)
EXTENDS Integers, Sequences, SequencesExt

CONSTANTS
  Handlers,     (* callbacks, of the type of one of the three overloads     *)
  NetEvents,    (* events                                                   *)
  AllEvents,    (* SYSTEM_EVENT_MAX: registered for every event             *)
  MaxAdds,      (* bound: registrations                                     *)
  MaxDispatches (* bound: events that arrive                                *)

ASSUME EventsAssumption == AllEvents \notin NetEvents /\ MaxAdds \in Nat /\ MaxDispatches \in Nat

Registrations == [cb : Handlers, event : NetEvents \cup {AllEvents}]
Done          == [event |-> AllEvents]

VARIABLES
  cbEventList,  (* registrations [to, id]; the ids (history) number them    *)
  dispatch,     (* the event that is told of: [event, i], or Done           *)
  called,       (* history: the ids of the registrations it was told to     *)
  removing,     (* history: one was removed since that began                *)
  unregistered, (* history: registrations that were removed, none of them   *)
                (* twice in a row in the list, and not made again           *)
  adds, dispatches

eventVars == <<cbEventList, dispatch, called, removing, unregistered, adds, dispatches>>

EventsTypeOK ==
  /\ \A i \in DOMAIN cbEventList :
       cbEventList[i].to \in Registrations /\ cbEventList[i].id \in 1 .. adds
  /\ dispatch = Done \/ (dispatch.event \in NetEvents /\ dispatch.i \in 1 .. adds + 1)
  /\ adds \in 0 .. MaxAdds
  /\ removing \in BOOLEAN /\ unregistered \subseteq Registrations /\ dispatches \in 0 .. MaxDispatches

EventsInit ==
  /\ cbEventList = <<>> /\ dispatch = Done /\ called = <<>> /\ adds = 0
  /\ removing = FALSE /\ unregistered = {} /\ dispatches = 0

(***************************************************************************)
(* Registering and removing.                                                *)
(***************************************************************************)
onEvent(entry) ==
  /\ adds < MaxAdds /\ adds' = adds + 1
  /\ cbEventList' = Append(cbEventList, [to |-> entry, id |-> adds + 1])
  /\ unregistered' = unregistered \ {entry}
  /\ UNCHANGED removing

(* The index goes on after an erasure, past the element that has moved up:  *)
(* Erasing(list, entry)[i] is the list when i has been looked at.           *)
EraseAt(list, i, entry) ==
  IF i <= Len(list) /\ list[i].to = entry THEN RemoveAt(list, i) ELSE list

Erasing(list, entry) ==
  LET after[i \in 0 .. Len(list)] == IF i = 0 THEN list ELSE EraseAt(after[i - 1], i, entry)
  IN  after

Erased(list, entry) == Erasing(list, entry)[Len(list)]

Repeated(entry) ==
  \E i \in DOMAIN Tail(cbEventList) : cbEventList[i].to = entry /\ cbEventList[i + 1].to = entry

(* Mutant of removeEvent: the first registration only.                      *)
removeEventFirst(entry) ==
  /\ \E i \in DOMAIN cbEventList : cbEventList[i].to = entry
  /\ cbEventList' = RemoveAt(cbEventList, CHOOSE i \in DOMAIN cbEventList :
                      cbEventList[i].to = entry /\ \A j \in 1 .. i - 1 : cbEventList[j].to # entry)
  /\ removing' = TRUE
  /\ unregistered' = IF Repeated(entry) THEN unregistered ELSE unregistered \cup {entry}
  /\ UNCHANGED adds

removeEvent(entry) ==
  /\ \E i \in DOMAIN cbEventList : cbEventList[i].to = entry
  /\ cbEventList' = Erased(cbEventList, entry)
  /\ removing' = TRUE
  /\ unregistered' = IF Repeated(entry) THEN unregistered ELSE unregistered \cup {entry}
  /\ UNCHANGED adds

ChangeList ==
  \/ \E entry \in Registrations : onEvent(entry) \/ removeEvent(entry)
  \/ UNCHANGED <<cbEventList, removing, unregistered, adds>>

SketchRegisters ==
  /\ dispatch = Done /\ dispatches < MaxDispatches
  /\ \E entry \in Registrations : onEvent(entry) \/ removeEvent(entry)
  /\ UNCHANGED <<dispatch, called, dispatches>>

(***************************************************************************)
(* An event is told to the list.                                            *)
(***************************************************************************)
EventArrives ==
  /\ dispatch = Done /\ dispatches < MaxDispatches /\ dispatches' = dispatches + 1
  /\ \E event \in NetEvents : dispatch' = [event |-> event, i |-> 1]
  /\ called' = <<>> /\ removing' = FALSE
  /\ UNCHANGED <<cbEventList, unregistered, adds>>

Concerns(entry, event) == entry.event \in {event, AllEvents}

(* Mutant of TellNext: what is registered for every event is passed over.   *)
TellNextExact ==
  /\ dispatch # Done /\ dispatch.i <= Len(cbEventList)
  /\ dispatch' = [dispatch EXCEPT !.i = @ + 1]
  /\ LET entry == cbEventList[dispatch.i] IN
     IF entry.to.event = dispatch.event
     THEN called' = Append(called, entry.id) /\ ChangeList
     ELSE UNCHANGED <<called, cbEventList, removing, unregistered, adds>>
  /\ UNCHANGED dispatches

TellNext ==
  /\ dispatch # Done /\ dispatch.i <= Len(cbEventList)
  /\ dispatch' = [dispatch EXCEPT !.i = @ + 1]
  /\ LET entry == cbEventList[dispatch.i] IN
     IF Concerns(entry.to, dispatch.event)
     THEN called' = Append(called, entry.id) /\ ChangeList
     ELSE UNCHANGED <<called, cbEventList, removing, unregistered, adds>>
  /\ UNCHANGED dispatches

ToldAll ==
  /\ dispatch # Done /\ dispatch.i > Len(cbEventList) /\ dispatch' = Done
  /\ UNCHANGED <<cbEventList, called, removing, unregistered, adds, dispatches>>

EventsNext == SketchRegisters \/ EventArrives \/ TellNext \/ ToldAll

EventsSpec == EventsInit /\ [][EventsNext]_eventVars

(***************************************************************************)
(* Properties.                                                              *)
(***************************************************************************)
(* In one event no registration is called twice, and when none was removed  *)
(* meanwhile every one for it, the new ones too, has been called in the end.*)
CalledAsRegistered ==
  /\ IsInjective(called)
  /\ dispatch # Done /\ dispatch.i > Len(cbEventList) /\ ~removing =>
       \A i \in DOMAIN cbEventList : Concerns(cbEventList[i].to, dispatch.event) =>
         cbEventList[i].id \in Range(called)

(* A callback that was removed is not in the list any more, unless it had   *)
(* been registered twice in a row.                                          *)
RemovedIsGone == \A i \in DOMAIN cbEventList : cbEventList[i].to \notin unregistered

(* What holds of the list of callbacks at every step.                       *)
EventsInv == EventsTypeOK /\ CalledAsRegistered /\ RemovedIsGone
=============================================================================
