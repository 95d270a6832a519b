------------------------------ MODULE TwoLevel ------------------------------
(***************************************************************************)
(* The two level store (pkg/nostr/eventstore/l2): a badger store (L1) that *)
(* is pruned in front of a store (L2) that other relays write to as well.  *)
(* A save goes to both levels, a query merges both, and a poller fetches   *)
(* what others have put in the L2, saves it in the L1 and hands it to the  *)
(* relay to broadcast.                                                     *)
(*                                                                         *)
(* The relay is wired in two ways.  "ic": the L2 is a canister; its agent  *)
(* never closes a channel and reports no error of a query, there is a      *)
(* poller, and pruning deletes event records.  "badgerbadger": the L2 is a *)
(* badger store; channels are closed, nothing is polled, and pruning       *)
(* leaves stubs.                                                           *)
(*                                                                         *)
(* Of the L1 there is one state per event, of the L2 the events it holds;  *)
(* a badger store may lose results of a query before they are read.        *)
(* One unit of time is the period of the poller's ticker.                  *)
(*                                                                         *)
(* A definition marked "seeded fault" is a mistake one could make in the   *)
(* definition after it; no action uses it.                                 *)
(***************************************************************************)
EXTENDS Integers, Sequences, FiniteSets

CONSTANTS
    Events,
    Foreign,     \* the events that other relays put in the L2, if they can
    Modes,       \* how the relay may be wired
    Savers,      \* readers that store an event
    Queried,     \* bound: the ways of wiring in which a query is asked
    PollOverlap, \* in periods of the ticker
    MaxLag,      \* bound: periods from an event's date until it is in the L2
    MaxMisses,   \* bound: polls in a row the canister fails to answer
    MaxTime,     \* bound: periods
    LastSave,    \* bound: the last period in which a reader stores an event
    MaxFaults,   \* bound: restarts and saves that fail
    NoEvent      \* nil

ASSUME TwoLevelAssumption ==
    /\ Foreign \subseteq Events
    /\ Modes \subseteq {"ic", "badgerbadger"}
    /\ Modes # {}
    /\ Queried \subseteq Modes
    /\ PollOverlap \in Nat /\ MaxLag \in Nat /\ MaxMisses \in Nat
    /\ MaxLag + MaxMisses <= PollOverlap
    /\ MaxTime \in Nat /\ LastSave \in Nat /\ MaxFaults \in Nat
    /\ NoEvent \notin Events

Never == -1

VARIABLES
    mode,      \* how the relay is wired
    l1,        \* per event: "none", "full", "stub" or "hollow" (durable)
    made,      \* created_at of the events there are, or Never
    l2,        \* the events in the L2 (durable)
    now, start,    \* the time, and when the relay was started
    last, ticked,  \* the poller: its next Since, and whether it has ticked now
    polls,     \* the polls since the start, each with its goroutine
    save,      \* per saver: where it is, and its event
    q,         \* the query's goroutine and the channels it reads
    reader,    \* who reads the query: handleFilter
    saver,     \* the SaveLoop of the query
    faults,
    told,      \* ghost: the events a client was told are accepted
    owed,      \* ghost: the events a poll was answered with or could have been
    fetched,   \* ghost: the events polls were answered with
    cast       \* ghost: the polled events that were broadcast

pollVars == <<start, last, ticked, polls, owed, fetched, cast>>
queryVars == <<q, reader, saver>>
saveVars == <<save, told>>
vars == <<mode, l1, made, l2, now, start, last, ticked, polls, save, q, reader,
          saver, faults, told, owed, fetched, cast>>

HasL2 == mode = "badgerbadger"
Polling == mode = "ic"
Closes == mode = "badgerbadger"
Others == IF mode = "ic" THEN Foreign ELSE {}

NoSave == [at |-> "idle", event |-> NoEvent]
NoQuery == [at |-> "none", whole |-> {}, bare |-> {}, cur |-> NoEvent,
            ch2 |-> "asked", left2 |-> {}]

Init ==
    /\ mode \in Modes
    /\ l1 = [e \in Events |-> "none"]
    /\ made = [e \in Events |-> Never]
    /\ l2 = {}
    /\ now = 0 /\ start = 0
    /\ last = 0 /\ ticked = TRUE /\ polls = <<>>
    /\ save = [p \in Savers |-> NoSave]
    /\ q = NoQuery
    /\ reader = "none"
    /\ saver = [at |-> "none", event |-> NoEvent]
    /\ faults = 0
    /\ told = {} /\ owed = {} /\ fetched = {} /\ cast = {}

-----------------------------------------------------------------------------
(***************************************************************************)
(* The levels.                                                             *)
(***************************************************************************)
(* SaveEvent of the L1: a new event is stored, a stub made whole, and an   *)
(* event whose record was deleted is passed over without an error.         *)
Stored(e) == [l1 EXCEPT ![e] = IF @ = "hollow" THEN @ ELSE "full"]

(* The garbage collector of the L1 prunes an event... *)
Prune(e) ==
    /\ l1[e] = "full"
    /\ l1' = [l1 EXCEPT ![e] = IF HasL2 THEN "stub" ELSE "hollow"]
    /\ UNCHANGED <<mode, made, l2, now, faults, pollVars, queryVars, saveVars>>

(* ... and removes what is left of it. *)
PruneIndexes(e) ==
    /\ l1[e] = "stub"
    /\ l1' = [l1 EXCEPT ![e] = "none"]
    /\ UNCHANGED <<mode, made, l2, now, faults, pollVars, queryVars, saveVars>>

(* Another relay accepts an event; the L2 has it some time later. *)
Publish(e) ==
    /\ e \in Others
    /\ made[e] = Never
    /\ made' = [made EXCEPT ![e] = now]
    /\ UNCHANGED <<mode, l1, l2, now, faults, pollVars, queryVars, saveVars>>

Arrive(e) ==
    /\ e \in Others \ l2
    /\ made[e] # Never
    /\ l2' = l2 \cup {e}
    /\ UNCHANGED <<mode, l1, made, now, faults, pollVars, queryVars, saveVars>>

-----------------------------------------------------------------------------
(***************************************************************************)
(* SaveEvent: the L1, then the L2 whatever the L1 said.                    *)
(***************************************************************************)
SaveL1(p, e) ==
    /\ save[p].at = "idle"
    /\ e \notin Others
    /\ now <= LastSave
    /\ made' = [made EXCEPT ![e] = IF @ = Never THEN now ELSE @]
    /\ save' = [save EXCEPT ![p] = [at |-> "l2", event |-> e]]
    /\ l1' = Stored(e)
    /\ UNCHANGED <<mode, l2, now, faults, pollVars, queryVars, told>>

SaveL1Fails(p, e) ==
    /\ save[p].at = "idle"
    /\ e \notin Others
    /\ now <= LastSave
    /\ faults < MaxFaults
    /\ faults' = faults + 1
    /\ made' = [made EXCEPT ![e] = IF @ = Never THEN now ELSE @]
    /\ save' = [save EXCEPT ![p] = [at |-> "l2", event |-> e]]
    /\ UNCHANGED <<mode, l1, l2, now, pollVars, queryVars, told>>

(* What the client is told: ok is true since the check of the signature,   *)
(* and no error of a level makes it false.                                 *)
Tell(e) == told' = told \cup {e}

SaveL2(p) ==
    LET e == save[p].event IN
    /\ save[p].at = "l2"
    /\ l2' = l2 \cup {e}
    /\ Tell(e)
    /\ save' = [save EXCEPT ![p] = NoSave]
    /\ UNCHANGED <<mode, l1, made, now, faults, pollVars, queryVars>>

SaveL2Fails(p) ==
    /\ save[p].at = "l2"
    /\ faults < MaxFaults
    /\ faults' = faults + 1
    /\ Tell(save[p].event)
    /\ save' = [save EXCEPT ![p] = NoSave]
    /\ UNCHANGED <<mode, l1, made, l2, now, pollVars, queryVars>>

-----------------------------------------------------------------------------
(***************************************************************************)
(* The poller.  Every tick starts a query of the L2 and a goroutine that   *)
(* saves and signals what it returns.                                      *)
(***************************************************************************)
SinceNow(until) == until  \* seeded fault: no overlap

SinceLater(until) == until + 1  \* seeded fault: no event is fetched twice

NextSince(until) == until - PollOverlap

Poll ==
    /\ Polling
    /\ ~ticked
    /\ ticked' = TRUE
    /\ polls' = Append(polls, [at |-> "asked", since |-> last, until |-> now,
                               left |-> {}, cur |-> NoEvent])
    /\ last' = NextSince(now)
    /\ UNCHANGED <<mode, l1, made, l2, now, start, faults, owed, fetched, cast,
                   queryVars, saveVars>>

Window(i) == {e \in Events : made[e] \in polls[i].since .. polls[i].until}

(* The canister answers with what it holds by then. *)
PollAnswered(i) ==
    /\ polls[i].at = "asked"
    /\ polls' = [polls EXCEPT ![i].at = "sending", ![i].left = l2 \cap Window(i)]
    /\ fetched' = fetched \cup (l2 \cap Window(i))
    /\ owed' = owed \cup {e \in l2 \cap Others : made[e] \in start .. polls[i].until}
    /\ UNCHANGED <<mode, l1, made, l2, now, start, last, ticked, faults, cast,
                   queryVars, saveVars>>

(* The call fails after QueryEvents has returned: nobody hears of it. *)
Fails(i) == i \in DOMAIN polls /\ polls[i].at = "failed"

PollUnanswered(i) ==
    /\ polls[i].at = "asked"
    /\ \A j \in 0 .. MaxMisses :
          \E k \in (i - j) .. (i - j + MaxMisses) : k # i /\ ~Fails(k)
    /\ polls' = [polls EXCEPT ![i].at = "failed"]
    /\ UNCHANGED <<mode, l1, made, l2, now, start, last, ticked, faults, owed,
                   fetched, cast, queryVars, saveVars>>

(* One event is received and saved in the L1, whatever comes of it... *)
PollSave(i) ==
    /\ polls[i].at = "sending"
    /\ \E e \in polls[i].left :
          /\ polls' = [polls EXCEPT ![i].at = "signal", ![i].cur = e,
                                    ![i].left = @ \ {e}]
          /\ l1' = Stored(e)
    /\ UNCHANGED <<mode, made, l2, now, start, last, ticked, faults, owed,
                   fetched, cast, queryVars, saveVars>>

SignalOnce == "done"  \* seeded fault: the goroutine returns

AfterSignal == "sending"

(* ... and sent to the goroutine that broadcasts. *)
EventSignal(i) ==
    /\ polls[i].at = "signal"
    /\ cast' = cast \cup {polls[i].cur}
    /\ polls' = [polls EXCEPT ![i].at = AfterSignal, ![i].cur = NoEvent]
    /\ UNCHANGED <<mode, l1, made, l2, now, start, last, ticked, faults, owed,
                   fetched, queryVars, saveVars>>

(* Time passes, as far as the poller looks at it.  The ticker is on time,  *)
(* and no event takes longer than MaxLag to get to the L2.                 *)
Tick ==
    /\ Polling
    /\ now < MaxTime
    /\ ticked
    /\ \A e \in Others \ l2 : made[e] # Never => now - made[e] < MaxLag
    /\ now' = now + 1
    /\ ticked' = FALSE
    /\ UNCHANGED <<mode, l1, made, l2, start, last, polls, faults, owed, fetched,
                   cast, queryVars, saveVars>>

-----------------------------------------------------------------------------
(***************************************************************************)
(* QueryEvents: one goroutine reads the L1 and then the L2.                *)
(***************************************************************************)
QueryEvents ==
    /\ mode \in Queried
    /\ q.at = "none"
    /\ \E R \in SUBSET {e \in Events : l1[e] = "full"},
          S \in SUBSET {e \in Events : l1[e] = "stub"} :
          q' = [NoQuery EXCEPT !.at = "l1", !.whole = R, !.bare = S]
    /\ reader' = "reads"
    /\ saver' = [at |-> "wait", event |-> NoEvent]
    /\ UNCHANGED <<mode, l1, made, l2, now, faults, pollVars, saveVars>>

(* What the L2 returns: a badger store may lose some of it, the canister   *)
(* may not answer.                                                         *)
AnswerL2 ==
    /\ q.ch2 = "asked" /\ q.at \notin {"none", "closed"}
    /\ \E R \in IF Closes THEN SUBSET l2 ELSE {{}, l2} :
          q' = [q EXCEPT !.ch2 = "sending", !.left2 = R]
    /\ UNCHANGED <<mode, l1, made, l2, now, faults, reader, saver,
                   pollVars, saveVars>>

(* A result of the L1 that is whole is sent, and a stub (an event without  *)
(* a signature) must be fetched from the L2 first.                         *)
TakeL1 ==
    /\ q.at = "l1"
    /\ \/ \E e \in q.whole :
             q' = [q EXCEPT !.at = "send1", !.cur = e, !.whole = @ \ {e}]
       \/ \E e \in q.bare :
             q' = [q EXCEPT !.at = "revive", !.cur = e, !.bare = @ \ {e}]
    /\ UNCHANGED <<mode, l1, made, l2, now, faults, reader, saver,
                   pollVars, saveVars>>

L1Closed ==
    /\ q.at = "l1"
    /\ q.whole = {} /\ q.bare = {}
    /\ q' = [q EXCEPT !.at = "l2"]
    /\ UNCHANGED <<mode, l1, made, l2, now, faults, reader, saver,
                   pollVars, saveVars>>

(* Revive: the first answer of the L2 is taken, which is nil when its      *)
(* channel is closed without one.                                          *)
Revive ==
    /\ q.at = "revive"
    /\ \/ q.cur \in l2 /\ q' = [q EXCEPT !.at = "send3"]
       \/ Closes /\ q' = [q EXCEPT !.at = "send3", !.cur = NoEvent]
    /\ UNCHANGED <<mode, l1, made, l2, now, faults, reader, saver,
                   pollVars, saveVars>>

TakeL2 ==
    /\ q.at = "l2"
    /\ q.ch2 = "sending"
    /\ \E e \in q.left2 :
          q' = [q EXCEPT !.at = "send2", !.cur = e, !.left2 = @ \ {e}]
    /\ UNCHANGED <<mode, l1, made, l2, now, faults, reader, saver,
                   pollVars, saveVars>>

(* Both levels are read, or the context is done: the channel is closed. *)
CloseQuery ==
    /\ \/ q.at = "l2" /\ q.ch2 = "sending" /\ q.left2 = {} /\ Closes
       \/ q.at \in {"l1", "l2", "revive"} /\ reader \in {"canceled", "gone"}
    /\ q' = [NoQuery EXCEPT !.at = "closed"]
    /\ UNCHANGED <<mode, l1, made, l2, now, faults, reader, saver,
                   pollVars, saveVars>>

(* The send to the reader and its receive.  A nil event ends the reader,   *)
(* which does not cancel the context.                                      *)
Deliver ==
    /\ q.at \in {"send1", "send2", "send3"}
    /\ reader \in {"reads", "canceled"}
    /\ reader' = IF q.cur = NoEvent THEN "ended" ELSE reader
    /\ q' = IF q.at = "send3" THEN [q EXCEPT !.at = "hand"]
            ELSE [q EXCEPT !.at = IF q.at = "send1" THEN "l1" ELSE "l2",
                           !.cur = NoEvent]
    /\ UNCHANGED <<mode, l1, made, l2, now, faults, saver, pollVars, saveVars>>

(* handleFilter: it returns when the channel is closed or its context done. *)
ReaderReturns ==
    /\ \/ reader = "reads" /\ q.at = "closed" /\ reader' = "ended"
       \/ reader = "canceled" /\ reader' = "gone"
    /\ UNCHANGED <<mode, l1, made, l2, now, faults, q, saver, pollVars, saveVars>>

CancelQuery ==
    /\ reader \in {"reads", "ended"}
    /\ reader' = IF reader = "reads" THEN "canceled" ELSE "gone"
    /\ UNCHANGED <<mode, l1, made, l2, now, faults, q, saver, pollVars, saveVars>>

(* The revived event goes to SaveLoop, which saves it in the L1. *)
HandOver ==
    /\ q.at = "hand"
    /\ saver.at = "wait"
    /\ saver' = IF q.cur = NoEvent THEN [saver EXCEPT !.at = "gone"]
                ELSE [at |-> "save", event |-> q.cur]
    /\ q' = [q EXCEPT !.at = "l1", !.cur = NoEvent]
    /\ UNCHANGED <<mode, l1, made, l2, now, faults, reader, pollVars, saveVars>>

SaveOnce == "gone"  \* seeded fault: the loop ends after one event

SaveAgain == "wait"

SaveLoop ==
    /\ saver.at = "save"
    /\ l1' = Stored(saver.event)
    /\ saver' = [at |-> SaveAgain, event |-> NoEvent]
    /\ UNCHANGED <<mode, made, l2, now, faults, q, reader, pollVars, saveVars>>

SaveLoopReturns ==
    /\ saver.at = "wait"
    /\ reader \in {"canceled", "gone"}
    /\ saver' = [saver EXCEPT !.at = "gone"]
    /\ UNCHANGED <<mode, l1, made, l2, now, faults, q, reader, pollVars,
                   saveVars>>

(* The process ends and is started again. *)
Restart ==
    /\ faults < MaxFaults
    /\ faults' = faults + 1
    /\ start' = now /\ last' = now /\ ticked' = TRUE /\ polls' = <<>>
    /\ save' = [p \in Savers |-> NoSave]
    /\ q' = NoQuery /\ reader' = "none"
    /\ saver' = [at |-> "none", event |-> NoEvent]
    /\ owed' = {} /\ fetched' = {} /\ cast' = {}
    /\ UNCHANGED <<mode, l1, made, l2, now, told>>

-----------------------------------------------------------------------------
Save(p) ==
    \/ \E e \in Events : SaveL1(p, e) \/ SaveL1Fails(p, e)
    \/ SaveL2(p) \/ SaveL2Fails(p)

PollGoroutine(i) == PollSave(i) \/ EventSignal(i)

Query ==
    \/ TakeL1 \/ L1Closed \/ Revive \/ TakeL2 \/ CloseQuery \/ Deliver
    \/ HandOver \/ SaveLoop

Next ==
    \/ \E e \in Events : Prune(e) \/ PruneIndexes(e) \/ Publish(e) \/ Arrive(e)
    \/ \E p \in Savers : Save(p)
    \/ Poll \/ Tick
    \/ \E i \in DOMAIN polls :
          PollAnswered(i) \/ PollUnanswered(i) \/ PollGoroutine(i)
    \/ QueryEvents \/ AnswerL2 \/ Query
    \/ ReaderReturns \/ CancelQuery \/ SaveLoopReturns
    \/ Restart

Spec == Init /\ [][Next]_vars

(* The goroutines of polls and queries run when they can, and a badger L2  *)
(* answers.  Nothing is assumed of the canister, nor of clients and time.  *)
Fairness ==
    /\ \A i \in 1 .. MaxTime : WF_vars(i \in DOMAIN polls /\ PollGoroutine(i))
    /\ WF_vars(Query)
    /\ WF_vars(Closes /\ AnswerL2)

FairSpec == Spec /\ Fairness

-----------------------------------------------------------------------------
(* The type invariant. *)
TypeOK ==
    /\ mode \in Modes
    /\ l1 \in [Events -> {"none", "full", "stub", "hollow"}]
    /\ made \in [Events -> {Never} \cup 0 .. MaxTime]
    /\ now \in 0 .. MaxTime /\ start \in 0 .. now
    /\ last \in (0 - PollOverlap) .. now
    /\ ticked \in BOOLEAN
    /\ \A i \in DOMAIN polls :
          /\ polls[i].at \in {"asked", "failed", "sending", "signal", "done"}
          /\ polls[i].left \subseteq Events
          /\ polls[i].cur \in Events \cup {NoEvent}
    /\ \A p \in Savers : save[p].at \in {"idle", "l2"}
    /\ q.at \in {"none", "l1", "l2", "send1", "send2", "send3", "revive", "hand",
                 "closed"}
    /\ reader \in {"none", "reads", "canceled", "ended", "gone"}
    /\ saver.at \in {"none", "wait", "save", "gone"}
    /\ faults \in 0 .. MaxFaults
    /\ UNION {l2, told, owed, fetched, cast, q.whole, q.bare, q.left2}
          \subseteq Events

(* "PollOverlap is the multiple of the PollFrequency within which polling  *)
(* the L2 is done to ensure any slow synchrony on the L2 is covered"       *)
(* (l2.go:38): an event of another relay that is in the L2 when a poll is  *)
(* answered has been fetched by then, or is in the window of a poll that   *)
(* has yet to be answered, although the answer of a poll that failed is    *)
(* never asked for again.                                                  *)
PollMissesNothing ==
    \A e \in owed \ fetched :
        \E i \in DOMAIN polls : polls[i].at = "asked" /\ e \in Window(i)

(* An OK message is there "to indicate acceptance (OK is true), rejection" *)
(* (okenvelope.go:39), and a save stores the event "to the local badger    *)
(* store and the L2" (l2.go:263): a client told OK can rely on one of the  *)
(* levels, through pruning and restarts.                                   *)
AckedBacked == \A e \in told : l1[e] = "full" \/ e \in l2

(* Every event a poll was answered with is broadcast, also while other     *)
(* polls, queries and saves are under way, unless the process ends.        *)
FetchedIsCast ==
    \A e \in Foreign : (e \in fetched) ~> (e \in cast \/ e \notin fetched)

(* A query whose reader goes on reading comes to its end when the L2       *)
(* closes its channels: the reader is never left waiting by the goroutine  *)
(* that merges, SaveLoop, and Revive, which wait for each other.           *)
QueryCloses ==
    (Closes /\ reader = "reads") ~> (q.at = "closed" \/ reader # "reads")

=============================================================================
