-------------------------- MODULE MCNefryWiFiList --------------------------
(***************************************************************************)
(* TLC instances of NefryWiFiList: the networks are interchangeable model   *)
(* values.                                                                 *)
(***************************************************************************)
EXTENDS NefryWiFiList, TLC

NetworkSymmetry == Permutations(Networks)

=============================================================================
