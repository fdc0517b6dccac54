---------------------------- MODULE NetworkList ----------------------------
(***************************************************************************)
(* What the saved-network list of a Nefry board promises: a list of at most *)
(* Cap networks in the order they were added, in which a new network pushes *)
(* out the oldest one of a full list, and which a restart replaces by what  *)
(* was stored.  Nothing else changes it or its order.                       *)
(***************************************************************************)
EXTENDS Integers, Sequences, FiniteSets

CONSTANTS Cap, New   (* the length of the list; the networks one can add *)

VARIABLES nets, stored

vars == <<nets, stored>>

Init == nets = <<>> /\ stored = <<>>

Add(n) ==
  /\ nets' = Append(IF Len(nets) < Cap THEN nets ELSE Tail(nets), n)
  /\ UNCHANGED stored

(* A network without a name takes a place in a full list and is not listed. *)
AddUnnamed ==
  /\ Len(nets) = Cap
  /\ nets' = Tail(nets)
  /\ UNCHANGED stored

(* The others close up in their order.                                      *)
Delete(positions) ==
  LET kept == DOMAIN nets \ positions
  IN  /\ Len(nets') = Cardinality(kept)
      /\ \A p \in kept : nets'[Cardinality({q \in kept : q <= p})] = nets[p]
      /\ UNCHANGED stored

Store  == Len(stored') <= Cap /\ UNCHANGED nets
Reload == nets' = stored /\ UNCHANGED stored

Next ==
  \/ \E n \in New : Add(n)
  \/ AddUnnamed
  \/ \E positions \in SUBSET DOMAIN nets : Delete(positions)
  \/ Store
  \/ Reload

Spec == Init /\ [][Next]_vars

=============================================================================
