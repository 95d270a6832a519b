----------------------------- MODULE MCTwoLevel -----------------------------
(* Small instances of TwoLevel for TLC. *)
EXTENDS TwoLevel

=============================================================================
