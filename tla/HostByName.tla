----------------------------- MODULE HostByName -----------------------------
(***************************************************************************)
(* Looking up a name, WiFiGenericClass::hostByName: it waits for the answer *)
(* of the resolver (lwIP, external) by looking at _dns_busy, which all the  *)
(* tasks share.  The resolver answers each request it has taken once, with  *)
(* the address or without; it writes it where the request has said, whoever *)
(* may use that memory by then - a further look-up of the same task, say.   *)
(***************************************************************************)
EXTENDS Integers

CONSTANTS
  Resolvers,    (* tasks that look up names                                 *)
  MaxLookups    (* bound: lookups                                           *)

ASSUME HostAssumption == MaxLookups \in Nat

NoAddress == 0
Address   == 1

VARIABLES
  _dns_busy,
  lookup,       (* lookup[t]: "idle", "asking" or "waiting"                 *)
  aResult,      (* aResult[t]: where the answer for t goes                  *)
  lookupResult, (* what its last lookup has returned                        *)
  pending,      (* pending[t]: requests of t the resolver has taken         *)
  lookupFailed, (* history: the last request of t was answered without an   *)
                (* address                                                  *)
  lateAnswers,  (* history: an answer was written after its lookup returned *)
  overlapped,   (* history: two lookups ran at once                         *)
  lookups

hostVars == <<_dns_busy, lookup, aResult, lookupResult, pending, lookupFailed, lateAnswers, overlapped, lookups>>

HostTypeOK ==
  /\ _dns_busy \in BOOLEAN /\ lookup \in [Resolvers -> {"idle", "asking", "waiting"}]
  /\ aResult \in [Resolvers -> {NoAddress, Address}] /\ lookupResult \in [Resolvers -> {0, 1}]
  /\ pending \in [Resolvers -> 0 .. MaxLookups] /\ lookupFailed \in [Resolvers -> BOOLEAN]
  /\ {lateAnswers, overlapped} \subseteq BOOLEAN /\ lookups \in 0 .. MaxLookups

HostInit ==
  /\ _dns_busy = FALSE /\ lookup = [t \in Resolvers |-> "idle"]
  /\ aResult = [t \in Resolvers |-> NoAddress] /\ lookupResult = [t \in Resolvers |-> 0]
  /\ pending = [t \in Resolvers |-> 0] /\ lookupFailed = [t \in Resolvers |-> FALSE]
  /\ lateAnswers = FALSE /\ overlapped = FALSE /\ lookups = 0

hostByName(t) ==
  /\ lookup[t] = "idle"
  /\ lookups < MaxLookups /\ lookups' = lookups + 1
  /\ aResult' = [aResult EXCEPT ![t] = NoAddress] /\ _dns_busy' = TRUE
  /\ lookup' = [lookup EXCEPT ![t] = "asking"] /\ lookupFailed' = [lookupFailed EXCEPT ![t] = FALSE]
  /\ overlapped' = (overlapped \/ \E s \in Resolvers : pending[s] > 0 \/ lookup[s] # "idle")
  /\ UNCHANGED <<lookupResult, pending, lateAnswers>>

(* dns_gethostbyname: the address is known, will be asked for, or never     *)
(* will be.                                                                 *)
Known(t) ==
  /\ aResult' = [aResult EXCEPT ![t] = Address] /\ _dns_busy' = FALSE
  /\ lookup' = [lookup EXCEPT ![t] = "idle"] /\ lookupResult' = [lookupResult EXCEPT ![t] = 1]
  /\ UNCHANGED pending

InProgress(t) ==
  /\ pending' = [pending EXCEPT ![t] = @ + 1] /\ lookup' = [lookup EXCEPT ![t] = "waiting"]
  /\ UNCHANGED <<_dns_busy, aResult, lookupResult>>

(* Mutant of LookupRefused: the flag stays up.                              *)
LookupRefusedBusy(t) ==
  /\ lookup' = [lookup EXCEPT ![t] = "waiting"] /\ lookupResult' = [lookupResult EXCEPT ![t] = 0]
  /\ UNCHANGED <<_dns_busy, aResult, pending>>

LookupRefused(t) ==
  /\ _dns_busy' = FALSE
  /\ lookup' = [lookup EXCEPT ![t] = "idle"] /\ lookupResult' = [lookupResult EXCEPT ![t] = 0]
  /\ UNCHANGED <<aResult, pending>>

dns_gethostbyname(t) ==
  /\ lookup[t] = "asking"
  /\ Known(t) \/ InProgress(t) \/ LookupRefused(t)
  /\ UNCHANGED <<lookupFailed, lateAnswers, overlapped, lookups>>

wifi_dns_found_callback(t) ==
  /\ pending[t] > 0 /\ pending' = [pending EXCEPT ![t] = @ - 1] /\ _dns_busy' = FALSE
  /\ \E ipaddr \in {NoAddress, Address} :
       /\ aResult' = IF ipaddr = NoAddress THEN aResult ELSE [aResult EXCEPT ![t] = ipaddr]
       /\ lookupFailed' = [lookupFailed EXCEPT ![t] = ipaddr = NoAddress]
       /\ lateAnswers' = (lateAnswers \/ (ipaddr # NoAddress /\ lookup[t] # "waiting"))
  /\ UNCHANGED <<lookup, lookupResult, overlapped, lookups>>

(* Mutant of StopWaiting: the flag is not looked at.                        *)
StopWaitingEarly(t) ==
  /\ lookup[t] = "waiting"
  /\ lookup' = [lookup EXCEPT ![t] = "idle"] /\ lookupResult' = [lookupResult EXCEPT ![t] = 1]
  /\ UNCHANGED <<_dns_busy, aResult, pending, lookupFailed, lateAnswers, overlapped, lookups>>

StopWaiting(t) ==
  /\ lookup[t] = "waiting" /\ ~_dns_busy
  /\ lookup' = [lookup EXCEPT ![t] = "idle"] /\ lookupResult' = [lookupResult EXCEPT ![t] = 1]
  /\ UNCHANGED <<_dns_busy, aResult, pending, lookupFailed, lateAnswers, overlapped, lookups>>

Lookup(t) == dns_gethostbyname(t) \/ StopWaiting(t)

HostNext == \E t \in Resolvers : hostByName(t) \/ Lookup(t) \/ wifi_dns_found_callback(t)

HostFairness ==
  \A t \in Resolvers : WF_hostVars(Lookup(t)) /\ WF_hostVars(wifi_dns_found_callback(t))

HostSpec == HostInit /\ [][HostNext]_hostVars /\ HostFairness

(***************************************************************************)
(* Properties.                                                              *)
(***************************************************************************)

(* While lookups do not overlap, one that has returned 1 has the address,   *)
(* or the resolver found none; and nothing is written after it has returned.*)
AnswersOfOne ==
  ~overlapped =>
    /\ ~lateAnswers
    /\ \A t \in Resolvers : lookup[t] = "idle" /\ lookupResult[t] = 1 => aResult[t] = Address \/ lookupFailed[t]

(* Every lookup ends when no further one begins, also of two whose answers  *)
(* have lowered the flag for each other.                                    *)
LookupsEnd == \A t \in Resolvers : lookup[t] # "idle" ~> lookup[t] = "idle"

HostCorrect == [](HostTypeOK /\ AnswersOfOne) /\ LookupsEnd
=============================================================================
