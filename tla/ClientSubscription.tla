-------------------------- MODULE ClientSubscription --------------------------
(***************************************************************************)
(* The client's end of a connection to a relay (client/relay.go and        *)
(* subscription/subscription.go): QuerySync, Count and Publish, the loop   *)
(* that reads the relay's messages, and the goroutines of a subscription.  *)
(* Each event is dispatched by a goroutine of its own under the            *)
(* subscription's mutex, the end of stored events waits for those that     *)
(* came before it, and whoever ends a subscription goes through Unsub: the *)
(* caller, Start when the context is done, and the loss of the connection. *)
(*                                                                         *)
(* The relay answers a REQ with events and an EOSE, a COUNT with a number, *)
(* an EVENT with an OK, and may ask for AUTH, which nobody here waits for. *)
(* A write on a connection that is up succeeds or fails at once; on one    *)
(* that is down Write sends its error to a channel only its caller could   *)
(* read, and never returns.                                                *)
(*                                                                         *)
(* A definition marked "seeded fault" is a mistake one could make in the   *)
(* definition after it; no action uses it.                                 *)
(***************************************************************************)
EXTENDS Naturals, Sequences, FiniteSets

CONSTANTS
    Queriers,    \* the subscriptions of calls of QuerySync
    Counters,    \* the subscriptions of calls of Count
    Events,      \* what the relay may send, all valid and asked for
    Publishing,  \* the call of Publish
    Workloads,   \* bound: the calls that are made side by side
    InboxLimit,  \* bound: messages on their way
    Challenged,  \* bound: the workloads in which the relay asks for AUTH
    NoOne        \* nobody holds a mutex

ASSUME ClientAssumption == NoOne \notin [event : Events, added : {0, 1}]

Subs == Queriers \cup Counters
Actors == {"caller", "start", "drop"}

VARIABLES
    calls,   \* the calls that are made
    conn,    \* "up" or "down": the ConnectionContext
    inbox,   \* messages from the relay
    readLoop,  \* MessageReadLoop
    call,    \* per subscription: where its caller is
    got,     \* the events QuerySync has collected
    sub,     \* the subscription
    disp,    \* goroutines of DispatchEvent that wait for the mutex
    holder,  \* the one that has it
    unsub,   \* per subscription and actor: where its Unsub is
    pub,     \* Publish: where it is, and what the callback has set
    wire,    \* per subscription: what the relay has seen and sent
    auths    \* AUTH challenges sent, at most one

clientVars == <<calls, conn, inbox, readLoop, call, got, sub, disp, holder, unsub, pub, wire, auths>>

NewSub == [registered |-> FALSE, live |-> FALSE, eosed |-> FALSE, done |-> FALSE,
           closed |-> FALSE, wg |-> 0, eose |-> "none", early |-> FALSE]
NewWire == [asked |-> FALSE, closes |-> 0, stored |-> {}, later |-> {}, eose |-> FALSE,
            answered |-> FALSE]
NewPub == [at |-> "idle", gotOk |-> FALSE, err |-> "nil", accepted |-> "no",
           result |-> "none", timedOut |-> FALSE]

ClientIdle ==
    /\ calls = {} /\ conn = "idle" /\ inbox = <<>> /\ readLoop = "idle" /\ auths = 0
    /\ call = [s \in Subs |-> "idle"] /\ got = [s \in Subs |-> {}]
    /\ sub = [s \in Subs |-> NewSub] /\ disp = [s \in Subs |-> {}]
    /\ holder = [s \in Subs |-> NoOne]
    /\ unsub = [s \in Subs |-> [a \in Actors |-> "no"]]
    /\ pub = NewPub /\ wire = [s \in Subs |-> NewWire]

ClientInit ==
    /\ calls \in Workloads /\ conn = "up" /\ inbox = <<>> /\ readLoop = "reading" /\ auths = 0
    /\ call = [s \in Subs |-> "idle"] /\ got = [s \in Subs |-> {}]
    /\ sub = [s \in Subs |-> NewSub] /\ disp = [s \in Subs |-> {}]
    /\ holder = [s \in Subs |-> NoOne]
    /\ unsub = [s \in Subs |-> [a \in Actors |-> "no"]]
    /\ pub = NewPub /\ wire = [s \in Subs |-> NewWire]

-----------------------------------------------------------------------------
(***************************************************************************)
(* The relay.                                                              *)
(***************************************************************************)
RelayRest == UNCHANGED <<calls, conn, readLoop, call, got, sub, disp, holder, unsub, pub>>

Send(m) ==
    /\ conn = "up" /\ Len(inbox) < InboxLimit
    /\ inbox' = Append(inbox, m)
    /\ RelayRest

RelayEvent(s, e) ==
    /\ wire[s].asked /\ s \in Queriers
    /\ e \notin wire[s].stored \cup wire[s].later
    /\ Send([type |-> "EVENT", sub |-> s, event |-> e])
    /\ wire' = IF wire[s].eose THEN [wire EXCEPT ![s].later = @ \cup {e}]
               ELSE [wire EXCEPT ![s].stored = @ \cup {e}]
    /\ UNCHANGED auths

RelayEose(s) ==
    /\ wire[s].asked /\ s \in Queriers /\ ~wire[s].eose
    /\ Send([type |-> "EOSE", sub |-> s])
    /\ wire' = [wire EXCEPT ![s].eose = TRUE]
    /\ UNCHANGED auths

RelayCount(s) ==
    /\ wire[s].asked /\ s \in Counters /\ ~wire[s].answered
    /\ Send([type |-> "COUNT", sub |-> s])
    /\ wire' = [wire EXCEPT ![s].answered = TRUE]
    /\ UNCHANGED auths

RelayAuth ==
    /\ calls \in Challenged /\ auths = 0
    /\ Send([type |-> "AUTH"])
    /\ auths' = auths + 1
    /\ UNCHANGED wire

RelayOk ==
    /\ pub.at \in {"waiting", "over"} /\ pub.accepted = "no"
    /\ conn = "up" /\ Len(inbox) < InboxLimit
    /\ \E ok \in {"true", "false"} : /\ inbox' = Append(inbox, [type |-> "OK", ok |-> ok])
                                     /\ pub' = [pub EXCEPT !.accepted = ok]
    /\ UNCHANGED <<calls, conn, readLoop, call, got, sub, disp, holder, unsub, wire, auths>>

(***************************************************************************)
(* MessageReadLoop and what it starts.                                     *)
(***************************************************************************)
Message == Head(inbox)
Take == readLoop = "reading" /\ conn = "up" /\ inbox # <<>> /\ inbox' = Tail(inbox)
ReadRest == UNCHANGED <<calls, conn, call, got, holder, unsub, wire, auths>>

(* Seeded fault: events are counted by the goroutine that sends them. *)
AddedLate(s) == 0

(* An event that is not after the EOSE is added to the WaitGroup. *)
Added(s) == IF sub[s].eosed THEN 0 ELSE 1

ReadEvent ==
    /\ Take /\ Message.type = "EVENT"
    /\ LET s == Message.sub
           e == Message.event
       IN  IF sub[s].registered
           THEN /\ disp' = [disp EXCEPT ![s] = @ \cup {[event |-> e, added |-> Added(s)]}]
                /\ sub' = [sub EXCEPT ![s].wg = @ + Added(s)]
           ELSE UNCHANGED <<disp, sub>>
    /\ UNCHANGED <<readLoop, pub>> /\ ReadRest

ReadEose ==
    /\ Take /\ Message.type = "EOSE"
    /\ LET s == Message.sub
       IN  sub' = IF sub[s].registered /\ ~sub[s].eosed
                  THEN [sub EXCEPT ![s].eosed = TRUE, ![s].eose = "wait"] ELSE sub
    /\ UNCHANGED <<readLoop, disp, pub>> /\ ReadRest

(* The number in answer to a COUNT is read as a COUNT request (see          *)
(* Envelopes), which the loop has no case for.                             *)
ReadCount ==
    /\ Take /\ Message.type = "COUNT"
    /\ UNCHANGED <<readLoop, sub, disp, pub>> /\ ReadRest

(* Nobody receives from AuthRequired on a connection made by Connect. *)
ReadAuth ==
    /\ Take /\ Message.type = "AUTH"
    /\ readLoop' = "auth"
    /\ UNCHANGED <<sub, disp, pub>> /\ ReadRest

(* The callback of Publish sets gotOk, then its error, then cancels. *)
ReadOk ==
    /\ Take /\ Message.type = "OK"
    /\ IF pub.at = "waiting"
       THEN /\ pub' = [pub EXCEPT !.gotOk = TRUE]
            /\ readLoop' = IF Message.ok = "true" THEN "cancel" ELSE "fail"
       ELSE UNCHANGED <<pub, readLoop>>
    /\ UNCHANGED <<sub, disp>> /\ ReadRest

CallbackFails ==
    /\ readLoop = "fail"
    /\ pub' = [pub EXCEPT !.err = "refused"]
    /\ readLoop' = "cancel"
    /\ UNCHANGED <<inbox, sub, disp>> /\ ReadRest

Return(err) == [pub EXCEPT !.at = "over", !.result = err]

CallbackCancels ==
    /\ readLoop = "cancel"
    /\ pub' = IF pub.at = "waiting" THEN [pub EXCEPT !.at = "canceled"] ELSE pub
    /\ readLoop' = "reading"
    /\ UNCHANGED <<inbox, sub, disp>> /\ ReadRest

Reader == \/ ReadEvent \/ ReadEose \/ ReadCount \/ ReadAuth \/ ReadOk
          \/ CallbackFails \/ CallbackCancels

(***************************************************************************)
(* The goroutines of a subscription.                                       *)
(***************************************************************************)
SubRest == UNCHANGED <<calls, conn, inbox, readLoop, pub, wire, auths>>

Finish(s, d) == sub' = [sub EXCEPT ![s].wg = @ - d.added]

DispatchLock(s) ==
    /\ holder[s] = NoOne
    /\ \E d \in disp[s] :
          /\ disp' = [disp EXCEPT ![s] = @ \ {d}]
          /\ IF sub[s].live
             THEN holder' = [holder EXCEPT ![s] = d] /\ UNCHANGED sub
             ELSE Finish(s, d) /\ UNCHANGED holder
    /\ UNCHANGED <<call, got, unsub>> /\ SubRest

(* The holder of the mutex waits for a receiver or for the context. *)
Deliver(s) ==
    /\ holder[s] # NoOne /\ call[s] = "reading"
    /\ ~sub[s].closed
    /\ got' = [got EXCEPT ![s] = @ \cup {holder[s].event}]
    /\ Finish(s, holder[s])
    /\ holder' = [holder EXCEPT ![s] = NoOne]
    /\ UNCHANGED <<call, disp, unsub>> /\ SubRest

GiveUp(s) ==
    /\ holder[s] # NoOne /\ sub[s].done
    /\ Finish(s, holder[s])
    /\ holder' = [holder EXCEPT ![s] = NoOne]
    /\ UNCHANGED <<call, got, disp, unsub>> /\ SubRest

EoseWaited(s) ==
    /\ sub[s].eose = "wait" /\ sub[s].wg = 0
    /\ sub' = [sub EXCEPT ![s].eose = "send"]
    /\ UNCHANGED <<call, got, disp, holder, unsub>> /\ SubRest

(* Unsub by an actor: cancel, the one CLOSE, and out of the map. *)
CancelContext(s, a) ==
    /\ sub' = [sub EXCEPT ![s].done = TRUE]
    /\ unsub' = [unsub EXCEPT ![s][a] = "swap"]

WasLive(s) == sub[s].live

SwapLive(s, a) ==
    /\ unsub[s][a] = "swap"
    /\ sub' = [sub EXCEPT ![s].live = FALSE]
    /\ unsub' = [unsub EXCEPT ![s][a] =
                    IF WasLive(s) /\ conn = "up" THEN "write" ELSE "delete"]
    /\ UNCHANGED <<call, got, disp, holder>> /\ SubRest

WriteClose(s, a) ==
    /\ unsub[s][a] = "write"
    /\ IF conn = "up"
       THEN /\ wire' = [wire EXCEPT ![s].asked = FALSE, ![s].closes = @ + 1]
            /\ unsub' = [unsub EXCEPT ![s][a] = "delete"]
       ELSE /\ unsub' = [unsub EXCEPT ![s][a] = "stuck"]
            /\ UNCHANGED wire
    /\ UNCHANGED <<calls, conn, inbox, readLoop, call, got, sub, disp, holder, pub, auths>>

DeleteSub(s, a) ==
    /\ unsub[s][a] = "delete"
    /\ sub' = [sub EXCEPT ![s].registered = FALSE]
    /\ unsub' = [unsub EXCEPT ![s][a] = "end"]
    /\ call' = [call EXCEPT ![s] = IF a = "caller" THEN "over" ELSE @]
    /\ UNCHANGED <<got, disp, holder>> /\ SubRest

(* Start: when the context is done, Unsub, and close the channel of events *)
(* under the mutex.                                                        *)
StartUnsub(s) ==
    /\ call[s] # "idle" /\ sub[s].done /\ unsub[s]["start"] = "no"
    /\ CancelContext(s, "start")
    /\ UNCHANGED <<call, got, disp, holder>> /\ SubRest

(* Seeded fault: the channel is closed without the mutex. *)
FreeOrNot(s) == TRUE

Free(s) == holder[s] = NoOne

CloseEvents(s) ==
    /\ unsub[s]["start"] = "end" /\ ~sub[s].closed
    /\ Free(s)
    /\ sub' = [sub EXCEPT ![s].closed = TRUE]
    /\ UNCHANGED <<call, got, disp, holder, unsub>> /\ SubRest

UnsubStep(s) == \E a \in Actors : SwapLive(s, a) \/ WriteClose(s, a) \/ DeleteSub(s, a)

(***************************************************************************)
(* The callers.                                                            *)
(***************************************************************************)
CallRest == UNCHANGED <<calls, conn, inbox, readLoop, disp, holder, pub, auths>>

Prepare(s) ==
    /\ conn = "up" /\ call[s] = "idle" /\ s \in calls
    /\ call' = [call EXCEPT ![s] = "prepared"]
    /\ sub' = [sub EXCEPT ![s].registered = TRUE]
    /\ UNCHANGED <<got, unsub, wire>> /\ CallRest

(* Fire marks the subscription live and writes the REQ or COUNT. *)
Fire(s) ==
    /\ call[s] = "prepared"
    /\ sub' = [sub EXCEPT ![s].live = TRUE, ![s].early = sub[s].done]
    /\ call' = [call EXCEPT ![s] = "firing"]
    /\ UNCHANGED <<got, unsub, wire>> /\ CallRest

WriteReq(s) ==
    /\ call[s] = "firing" /\ conn = "up"
    /\ call' = [call EXCEPT ![s] = IF s \in Counters THEN "counting" ELSE "reading"]
    /\ wire' = [wire EXCEPT ![s].asked = TRUE]
    /\ UNCHANGED <<got, sub, unsub>> /\ CallRest

(* A write that fails cancels the subscription; one on a connection that   *)
(* is down never returns.                                                  *)
FireFails(s) ==
    /\ call[s] = "firing"
    /\ IF conn = "up"
       THEN /\ call' = [call EXCEPT ![s] = "over"]
            /\ sub' = [sub EXCEPT ![s].done = TRUE]
       ELSE /\ call' = [call EXCEPT ![s] = "stuck"]
            /\ UNCHANGED sub
    /\ UNCHANGED <<got, unsub, wire>> /\ CallRest

(* QuerySync returns at the EOSE, at the close of the channel, or when its *)
(* time is over or its context done; Count at its time, since no number    *)
(* comes.                                                                  *)
Returns(s, how) ==
    /\ call' = [call EXCEPT ![s] = how]
    /\ UNCHANGED <<got, unsub, wire>>

ReturnsAtEose(s) ==
    /\ call[s] = "reading" /\ sub[s].eose = "send"
    /\ sub' = [sub EXCEPT ![s].eose = "sent"]
    /\ Returns(s, "eose") /\ CallRest

ReturnsAtClose(s) ==
    /\ call[s] = "reading" /\ sub[s].closed
    /\ Returns(s, "closed") /\ UNCHANGED sub /\ CallRest

(* Seeded fault: Count sets no time of its own. *)
TimedQuery(s) == call[s] = "reading"

Timed(s) == call[s] \in {"reading", "counting"}

ReturnsAtTime(s) ==
    /\ Timed(s)
    /\ Returns(s, "time") /\ UNCHANGED sub /\ CallRest

CallerUnsub(s) ==
    /\ call[s] \in {"eose", "closed", "time"} /\ unsub[s]["caller"] = "no"
    /\ CancelContext(s, "caller")
    /\ UNCHANGED <<call, got, disp, holder>> /\ SubRest

Returning(s) == ReturnsAtEose(s) \/ ReturnsAtClose(s) \/ ReturnsAtTime(s)

(* The context of the caller may be done at any time. *)
CancelCall(s) ==
    /\ call[s] # "idle" /\ ~sub[s].done
    /\ sub' = [sub EXCEPT ![s].done = TRUE]
    /\ UNCHANGED <<got, unsub, wire, call>> /\ CallRest

PublishRest == UNCHANGED <<calls, conn, inbox, readLoop, call, got, sub, disp, holder, unsub, wire, auths>>

Publish ==
    /\ pub.at = "idle" /\ Publishing \in calls
    /\ pub' = [pub EXCEPT !.at = IF conn = "up" THEN "waiting" ELSE "stuck"]
    /\ PublishRest

PublishTime ==
    /\ pub.at = "waiting"
    /\ pub' = [pub EXCEPT !.at = "canceled", !.timedOut = TRUE]
    /\ PublishRest

(* Seeded fault: what the callback left is returned in any case. *)
OkAnyway == pub.err

(* The error of a context that is done, if no OK came. *)
OkOrError == IF pub.gotOk THEN pub.err ELSE "deadline"

(* With the connection lost it returns the error of the write, which is nil. *)
PublishReturns ==
    \/ pub.at = "canceled" /\ pub' = Return(OkOrError) /\ PublishRest
    \/ pub.at \in {"waiting", "canceled"} /\ conn = "down" /\ pub' = Return(pub.err) /\ PublishRest

(* The connection is lost: every subscription in the map is ended. *)
Drop ==
    /\ conn = "up"
    /\ conn' = "down" /\ UNCHANGED calls
    /\ readLoop' = "stopped"
    /\ sub' = [s \in Subs |-> [sub[s] EXCEPT !.done = @ \/ sub[s].registered]]
    /\ unsub' = [s \in Subs |-> [unsub[s] EXCEPT !["drop"] =
                    IF sub[s].registered THEN "swap" ELSE @]]
    /\ UNCHANGED <<inbox, call, got, disp, holder, pub, wire, auths>>

ClientStep(s) ==
    \/ DispatchLock(s) \/ Deliver(s) \/ GiveUp(s) \/ EoseWaited(s)
    \/ UnsubStep(s) \/ StartUnsub(s) \/ CloseEvents(s)
    \/ Fire(s) \/ WriteReq(s) \/ FireFails(s) \/ Returning(s) \/ CallerUnsub(s)

Relay ==
    \/ \E s \in Subs : RelayEose(s) \/ RelayCount(s) \/ \E e \in Events : RelayEvent(s, e)
    \/ RelayAuth \/ RelayOk

ClientNext ==
    \/ Reader \/ Relay \/ Drop
    \/ Publish \/ PublishTime \/ PublishReturns
    \/ \E s \in Subs : ClientStep(s) \/ Prepare(s) \/ CancelCall(s)

(* The goroutines and the timers of the client; nothing of the relay. *)
ClientFairness == \A s \in Subs : WF_clientVars(ClientStep(s))

-----------------------------------------------------------------------------
(* Nobody sends to the channel of events once it is closed, and the relay  *)
(* is sent one CLOSE for a subscription, whoever ends it: the caller, its  *)
(* context or the connection.  A context that was done before Fire made    *)
(* the subscription live is excepted: then it is not so                    *)
(* (subscription.go:80-116, :142-154).                                     *)
ClosedOnce ==
    \A s \in Subs :
        /\ sub[s].closed /\ ~sub[s].early => holder[s] = NoOne
        /\ wire[s].closes <= 1

(* A query that returned at the EOSE with its context alive has every      *)
(* event the relay sent before the EOSE, though each is dispatched   *)
(* by a goroutine of its own (subscription.go:93-130, relay.go:540-556).   *)
EoseComplete ==
    \A s \in Queriers :
        call[s] = "eose" /\ ~sub[s].done => wire[s].stored \subseteq got[s]

(* Publish reports success only for an event the relay has accepted, as    *)
(* long as the connection is up and its time is not over while the OK is   *)
(* handled (relay.go:397-459).                                             *)
PublishedIsAccepted ==
    pub.result = "nil" => pub.accepted = "true" \/ conn = "down" \/ (pub.timedOut /\ pub.gotOk)

(* While the connection is up, a call ends in time, and the channel of     *)
(* events is closed then, even with events in hand that nobody takes       *)
(* (subscription.go:80-91, :100-111).                                      *)
CallsEnd ==
    (\E s \in Subs : call[s] = "prepared") ~>
        \/ conn = "down"
        \/ \A s \in Subs \cap calls : call[s] = "over" /\ sub[s].closed
=============================================================================
