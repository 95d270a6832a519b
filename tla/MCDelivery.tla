----------------------------- MODULE MCDelivery -----------------------------
(* The results of a query on their way, each stretch on its own: part says   *)
(* whether it is the store's goroutines, the messages as they are written    *)
(* and read, or the client's goroutines.                                     *)
(*                                                                           *)
(* Texts are made of x, ", \, {, }, a comma, a line feed and the byte 1.     *)
EXTENDS QueryPipeline, Envelopes, ClientSubscription

CONSTANTS querier, counter
VARIABLE part

MCContent == <<
    [id |-> "a", author |-> "p", kind |-> 1, tag |-> "t", date |-> 5],
    [id |-> "b", author |-> "p", kind |-> 2, tag |-> "t", date |-> 3],
    [id |-> "a", author |-> "p", kind |-> 1, tag |-> "t", date |-> 5]>>

MCStores == {<<"full", "full", "full">>, <<"full", "hollow", "stub">>}

Filter == [ids |-> <<>>, authors |-> <<>>, kinds |-> <<>>, tags |-> <<>>,
           since |-> Unset, until |-> Unset, limit |-> 0]
MCById == {[Filter EXCEPT !.ids = <<"b", "a">>]}
MCByDate == {[Filter EXCEPT !.kinds = <<1, 2>>, !.since = 2]}
MCAsked == MCById \cup MCByDate \cup
    {[Filter EXCEPT !.ids = <<"a", "b">>, !.limit = 1, !.until = 1],
     [Filter EXCEPT !.authors = <<"p">>, !.kinds = <<1, 2>>, !.tags = <<"t">>],
     [Filter EXCEPT !.tags = <<"t">>, !.kinds = <<1>>, !.until = 4],
     Filter}

MCWorkloads == {{querier}, {counter, Publishing}}
MCChallenged == {{counter, Publishing}}

Upto(k) == UNION {[1..i -> {120, Quote, Backslash, OpenBrace, CloseBrace, Comma, LineFeed, 1}] :
                    i \in 0..k}
WireSub == <<115>>
WireEvents ==
    {[id |-> <<105>>, sig |-> <<103>>, tags |-> <<>>, content |-> c] : c \in Upto(2)}
    \cup {[id |-> <<105>>, sig |-> <<103>>, tags |-> t, content |-> c] :
            t \in {<<<<>>>>} \cup {<<<<a, b>>, <<<<120>>>>>> : a \in Upto(1), b \in Upto(1)},
            c \in {<<>>, <<Quote>>, <<CloseBrace>>}}
WireFilters ==
    {[tags |-> t, search |-> s] :
        t \in {<<>>, 122 :> <<WireSub>>, (97 :> <<WireSub>>) @@ (65 :> <<<<120>>, <<121>>>>)}
              \cup {97 :> <<a>> : a \in Upto(1)},
        s \in Upto(1)}
WireFilterLists ==
    {<<f>> : f \in WireFilters}
    \cup {<<f, [tags |-> <<>>, search |-> s]>> : f \in WireFilters, s \in {<<>>, WireSub}}

MCMessages ==
    [type : {"NOTICE"}, text : Upto(3) \cup {<<c>> : c \in 0..255}]
    \cup [type : {"CHALLENGE"}, text : Upto(2)]
    \cup [type : {"OK"}, id : {<<97, 49>>}, ok : BOOLEAN, text : Upto(2)]
    \cup [type : {"EOSE", "CLOSE"}, sub : Upto(2) \ {<<>>}]
    \cup [type : {"CLOSED"}, sub : Upto(1) \ {<<>>}, text : Upto(2)]
    \cup [type : {"EVENT"}, sub : {<<>>, WireSub}, event : WireEvents]
    \cup [type : {"RESPONSE"}, event : WireEvents]
    \cup [type : {"REQ", "COUNT"}, sub : {WireSub}, filters : WireFilterLists]
    \cup [type : {"COUNTED"}, sub : {WireSub}, count : 0..9]

Init ==
    \/ part = "query" /\ QueryInit /\ ClientIdle /\ WireIdle
    \/ part = "wire" /\ WireInit /\ ClientIdle /\ QueryIdle
    \/ part = "client" /\ ClientInit /\ QueryIdle /\ WireIdle

Next ==
    /\ \/ part = "query" /\ QueryNext /\ UNCHANGED <<wireVars, clientVars>>
       \/ part = "wire" /\ WireNext /\ UNCHANGED <<queryVars, clientVars>>
       \/ part = "client" /\ ClientNext /\ UNCHANGED <<queryVars, wireVars>>
    /\ UNCHANGED part

allVars == <<part, queryVars, wireVars, clientVars>>

Spec == Init /\ [][Next]_allVars /\ QueryFairness /\ ClientFairness

AskedSpec == part = "query" /\ QueryInit /\ ClientIdle /\ WireIdle /\ [][Next]_allVars

=============================================================================
