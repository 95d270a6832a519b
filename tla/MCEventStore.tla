---------------------------- MODULE MCEventStore ----------------------------
(* Small instances of EventStore for TLC. *)
EXTENDS EventStore, TLC

(* Events and goroutines are interchangeable. *)
Symmetry == Permutations(Ids) \cup Permutations(Procs)

=============================================================================
