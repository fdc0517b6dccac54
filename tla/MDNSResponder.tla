---------------------------- MODULE MDNSResponder ----------------------------
(***************************************************************************)
(* Multicast DNS, ESPmDNS.cpp: services that are announced with their texts *)
(* and queries whose results are kept for the getters.  The responder in    *)
(* ESP-IDF is external: it knows a service by name and protocol, both with  *)
(* a leading underscore, refuses a second one of a name and anything while  *)
(* it does not run, and may fail; a query answers what hosts announce.      *)
(***************************************************************************)
EXTENDS Integers, Sequences, SequencesExt

CONSTANTS
  ServiceNames, (* names without their underscore                           *)
  Ports, TextValues,
  ServiceLists, (* what hosts may announce: sequences of [host, port]       *)
  MaxMdnsCalls, MaxMdnsFaults (* bounds                                     *)

ASSUME MdnsAssumption ==
  /\ {"arduino", "workstation"} \cap ServiceNames = {} /\ MaxMdnsCalls \in Nat /\ MaxMdnsFaults \in Nat
  /\ ServiceLists \subseteq Seq([host : STRING, port : Nat])

NoResults == <<>>
Nobody    == [host |-> "", port |-> 0]

VARIABLES
  responder,    (* of ESP-IDF: [runs, services], services by their name     *)
  queryResults, (* results, NULL is the empty list                          *)
  sysEvents,    (* how often _on_sys_event is registered                    *)
  offered,      (* history: the services the sketch has been told it has    *)
  counted,      (* history: what the last query for a service has returned, *)
  answered,     (* what it was answered, and whether it was one             *)
  mdnsCalls, mdnsFaults

mdnsVars == <<responder, queryResults, sysEvents, offered, counted, answered, mdnsCalls, mdnsFaults>>

(* A name is written with or without its underscore.                        *)
Spellings     == [name : ServiceNames, underscore : BOOLEAN]
(* Mutant of Canonical: an underscore more is put before every name.        *)
CanonicalMore(s) == IF s.underscore THEN <<"_", "_", s.name>> ELSE <<"_", s.name>>

Canonical(s)  == <<"_", s.name>>

MdnsTypeOK ==
  /\ responder.runs \in BOOLEAN /\ queryResults \in ServiceLists \cup {NoResults}
  /\ counted \in Nat /\ sysEvents \in 0 .. MaxMdnsCalls
  /\ mdnsCalls \in 0 .. MaxMdnsCalls /\ mdnsFaults \in 0 .. MaxMdnsFaults

NoServices == [n \in {} |-> [port |-> 0, text |-> 0]]

MdnsInit ==
  /\ responder = [runs |-> FALSE, services |-> NoServices] /\ queryResults = NoResults /\ sysEvents = 0
  /\ offered = NoServices /\ counted = 0 /\ answered = NoResults
  /\ mdnsCalls = 0 /\ mdnsFaults = 0

CallMdns(failed) ==
  /\ mdnsCalls < MaxMdnsCalls /\ mdnsCalls' = mdnsCalls + 1
  /\ failed => mdnsFaults < MaxMdnsFaults
  /\ mdnsFaults' = mdnsFaults + (IF failed THEN 1 ELSE 0)

(* mdns_init is done once; the name may be refused after it, and the        *)
(* callback is registered each time.                                        *)
beginMdns(failed) ==
  /\ CallMdns(failed)
  /\ responder' = [responder EXCEPT !.runs = TRUE] /\ sysEvents' = sysEvents + 1
  /\ UNCHANGED <<queryResults, offered, counted, answered>>

beginFails ==
  /\ ~responder.runs /\ CallMdns(TRUE)
  /\ UNCHANGED <<responder, queryResults, sysEvents, offered, counted, answered>>

endMdns ==
  /\ CallMdns(FALSE) /\ responder' = [runs |-> FALSE, services |-> NoServices] /\ offered' = NoServices
  /\ UNCHANGED <<queryResults, sysEvents, counted, answered>>

With(services, key, service) ==
  [k \in DOMAIN services \cup {key} |-> IF k = key THEN service ELSE services[k]]

(* mdns_service_add, mdns_service_txt_item_set and mdns_service_remove.     *)
Added(key, port, txt, failed) ==
  IF failed \/ ~responder.runs \/ key \in DOMAIN responder.services THEN responder
  ELSE [responder EXCEPT !.services = With(@, key, [port |-> port, text |-> txt])]

WithText(state, key, txt, failed) ==
  IF failed \/ ~state.runs \/ key \notin DOMAIN state.services THEN state
  ELSE [state EXCEPT !.services[key].text = txt]

Removed(key) ==
  [responder EXCEPT !.services = [k \in DOMAIN @ \ {key} |-> @[k]]]

(* addService() and addServiceTxt(), for both of which the sketch spells    *)
(* the name as it likes.                                                    *)
addService(spelling, port, failed) ==
  /\ CallMdns(failed)
  /\ responder' = Added(Canonical(spelling), port, 0, failed)
  /\ offered' = IF responder' = responder THEN offered
               ELSE With(offered, spelling.name, [port |-> port, text |-> 0])
  /\ UNCHANGED <<queryResults, sysEvents, counted, answered>>

addServiceTxt(spelling, txt, failed) ==
  /\ CallMdns(failed)
  /\ responder' = WithText(responder, Canonical(spelling), txt, failed)
  /\ offered' = IF failed \/ spelling.name \notin DOMAIN offered THEN offered
               ELSE [offered EXCEPT ![spelling.name].text = txt]
  /\ UNCHANGED <<queryResults, sysEvents, counted, answered>>

(* enableArduino() says "yes" for a password afterwards, disableArduino()   *)
(* takes the service away.                                                  *)
enableArduino(port, auth, failed) ==
  LET added == Added(<<"_", "arduino">>, port, 0, failed)
      finished  == IF auth THEN WithText(added, <<"_", "arduino">>, 1, FALSE) ELSE added
  IN  /\ CallMdns(failed) /\ responder' = finished
      /\ offered' = IF added # responder THEN With(offered, "arduino", finished.services[<<"_", "arduino">>])
                    ELSE IF finished # added THEN [offered EXCEPT !["arduino"].text = 1]
                    ELSE offered
      /\ UNCHANGED <<queryResults, sysEvents, counted, answered>>

(* enableWorkstation(); what its instance is called is left out.            *)
enableWorkstation(failed) ==
  LET key == <<"_", "workstation">>
  IN  /\ CallMdns(failed) /\ responder' = Added(key, 9, 0, failed)
      /\ offered' = IF responder' = responder THEN offered
                    ELSE With(offered, "workstation", responder'.services[key])
      /\ UNCHANGED <<queryResults, sysEvents, counted, answered>>

Disable(name) ==
  /\ CallMdns(FALSE) /\ responder' = Removed(<<"_", name>>)
  /\ offered' = [k \in DOMAIN offered \ {name} |-> offered[k]]
  /\ UNCHANGED <<queryResults, sysEvents, counted, answered>>

disableArduino     == Disable("arduino")
disableWorkstation == Disable("workstation")

(***************************************************************************)
(* queryService(), which frees the results of the query before, unless its  *)
(* parameters are empty; and the getters.                                   *)
(***************************************************************************)
(* Mutant of Kept: the results before stay when there are none.             *)
KeptBefore(list, failed) == IF failed \/ list = <<>> THEN queryResults ELSE list

Kept(list, failed) == IF failed THEN NoResults ELSE list

queryService(list, failed) ==
  /\ CallMdns(failed)
  /\ responder.runs \/ failed
  /\ queryResults' = Kept(list, failed)
  /\ answered' = IF failed THEN NoResults ELSE list
  /\ counted' = Len(queryResults')
  /\ UNCHANGED <<responder, sysEvents, offered>>

queryNothing ==
  /\ CallMdns(FALSE) /\ counted' = 0
  /\ UNCHANGED <<responder, queryResults, sysEvents, offered, answered>>

getResult(idx) == IF idx + 1 \in DOMAIN queryResults THEN queryResults[idx + 1] ELSE Nobody

MdnsNext ==
  \/ beginFails \/ endMdns \/ disableArduino \/ disableWorkstation \/ queryNothing
  \/ \E failed \in BOOLEAN :
       \/ beginMdns(failed) \/ enableWorkstation(failed)
       \/ \E s \in Spellings : \/ \E port \in Ports : addService(s, port, failed)
                               \/ \E txt \in TextValues : addServiceTxt(s, txt, failed)
       \/ \E port \in Ports, auth \in BOOLEAN : enableArduino(port, auth, failed)
       \/ \E list \in ServiceLists : queryService(list, failed)

MdnsSpec == MdnsInit /\ [][MdnsNext]_mdnsVars

(***************************************************************************)
(* Properties.                                                              *)
(***************************************************************************)

(* What is announced is what the sketch has asked for with success, its     *)
(* texts with it, however it has spelled the names (ESPmDNS.cpp:125-163).   *)
ServicesAsAsked ==
  /\ DOMAIN responder.services = {<<"_", name>> : name \in DOMAIN offered}
  /\ \A name \in DOMAIN offered : responder.services[<<"_", name>>] = offered[name]

(* Below the number the last query has returned every result is one of its  *)
(* own, whatever the queries before it have left.                           *)
ResultsOfLast ==
  /\ counted \in {0, Len(answered)}
  /\ \A idx \in 0 .. counted - 1 : getResult(idx) = answered[idx + 1]

MdnsInv == MdnsTypeOK /\ ServicesAsAsked /\ ResultsOfLast
=============================================================================
