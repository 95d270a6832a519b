-------------------------- MODULE MCRelaySessions --------------------------
(* Small instances of RelaySessions for TLC: a note anyone may read and a  *)
(* direct message from alice, who may be one of the clients, to carol, who *)
(* is not; the client bob is no party to it.                               *)
EXTENDS RelaySessions, TLC

CONSTANTS alice, bob, carol, note, dm

MCAuthor == (note :> bob) @@ (dm :> alice)
MCRecipients == (note :> {}) @@ (dm :> {carol})
OpenAuthor == note :> bob
OpenRecipients == note :> {}

(* A filter by ids, one for direct messages of alice, one that is turned   *)
(* down and one the store cannot answer.                                   *)
ByIds == [matches |-> Events, names |-> {}, kinds |-> FALSE, fate |-> "ok"]
FromAlice == [matches |-> Privileged, names |-> {alice}, kinds |-> TRUE, fate |-> "ok"]
Empty == [matches |-> Events, names |-> {}, kinds |-> FALSE, fate |-> "blocked"]
BadHex == [matches |-> {}, names |-> {}, kinds |-> FALSE, fate |-> "fails"]

AuthFilters == {<<ByIds>>, <<FromAlice>>, <<ByIds, Empty>>}
OpenFilters == {<<ByIds>>, <<BadHex, BadHex>>}
OneFilter == {<<ByIds>>}

=============================================================================
