----------------------------- MODULE RecordLife -----------------------------
(***************************************************************************)
(* What the event store promises of one serial: it is handed out once, its *)
(* event can be read from the moment it is stored until it is removed, it  *)
(* may be reduced to a stub and restored from another store any number of  *)
(* times, and once it is gone it never comes back.                         *)
(***************************************************************************)
CONSTANTS Serials

VARIABLES life

States == {"unused", "full", "stub", "gone"}

(* Where a serial may be after one transaction of the store. *)
Successors ==
    [unused |-> {"unused", "full", "gone"},
     full   |-> {"full", "stub", "gone"},
     stub   |-> {"stub", "full", "gone"},
     gone   |-> {"gone"}]

Init == life = [s \in Serials |-> "unused"]

Next == life' \in [Serials -> States]
        /\ \A s \in Serials : life'[s] \in Successors[life[s]]

Spec == Init /\ [][Next]_life

=============================================================================
