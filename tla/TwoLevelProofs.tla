--------------------------- MODULE TwoLevelProofs ---------------------------
(***************************************************************************)
(* Theorems about TwoLevel, for any events, savers and bounds: its types,  *)
(* and that the overlap of the polls covers what is late and what fails.   *)
(*                                                                         *)
(* The argument about the polls counts: poll number i is made at start+i,  *)
(* so an event made d periods after the start is in the windows of the     *)
(* polls d to d+1+PollOverlap.  Those after d+MaxLag find it in the L2,    *)
(* and of the MaxMisses+1 first of these one is not a failure.             *)
(***************************************************************************)
EXTENDS TwoLevel, TLAPS

PollType == [at : {"asked", "failed", "sending", "signal", "done"},
             since : Int, until : Int, left : SUBSET Events,
             cur : Events \cup {NoEvent}]

SaveType == [at : {"idle", "l2"}, event : Events \cup {NoEvent}]

QueryType == [at : {"none", "l1", "l2", "send1", "send2", "send3", "revive", "hand",
                    "closed"},
              whole : SUBSET Events, bare : SUBSET Events,
              cur : Events \cup {NoEvent}, ch2 : {"asked", "sending"},
              left2 : SUBSET Events]

(* Who saves or signals, has an event. *)
Typing ==
    /\ mode \in Modes
    /\ l1 \in [Events -> {"none", "full", "stub", "hollow"}]
    /\ made \in [Events -> {Never} \cup 0 .. now]
    /\ now \in 0 .. MaxTime /\ start \in 0 .. now
    /\ ticked \in BOOLEAN
    /\ polls \in Seq(PollType)
    /\ \A i \in DOMAIN polls : polls[i].at = "signal" => polls[i].cur \in Events
    /\ save \in [Savers -> SaveType]
    /\ \A p \in Savers : save[p].at = "l2" => save[p].event \in Events
    /\ q \in QueryType
    /\ reader \in {"none", "reads", "canceled", "ended", "gone"}
    /\ saver \in [at : {"none", "wait", "save", "gone"}, event : Events \cup {NoEvent}]
    /\ faults \in 0 .. MaxFaults
    /\ l2 \subseteq Events /\ told \subseteq Events
    /\ owed \subseteq Events /\ fetched \subseteq Events /\ cast \subseteq Events

(* Poll number i is made i periods after the start, and asks from where    *)
(* the one before it stopped, with the overlap.                            *)
Numbered ==
    /\ ticked => Len(polls) = now - start
    /\ ~ticked => Len(polls) = (now - start) - 1
    /\ last = IF Len(polls) = 0 THEN start ELSE start + Len(polls) - PollOverlap
    /\ \A i \in DOMAIN polls :
          /\ polls[i].until = start + i
          /\ polls[i].since = IF i = 1 THEN start ELSE start + i - 1 - PollOverlap

(* What others have made is in the L2 after MaxLag periods. *)
Lagging == \A e \in Others \ l2 : made[e] # Never => now - made[e] <= MaxLag

(* Of MaxMisses+1 polls in a row one does not fail. *)
Missing == \A i \in Int : \E k \in i .. (i + MaxMisses) : ~Fails(k)

(* A poll that was answered late enough for an event in its window has     *)
(* fetched it.                                                             *)
Fetching ==
    \A k \in DOMAIN polls : \A e \in Others :
        /\ polls[k].at \notin {"asked", "failed"}
        /\ made[e] >= start
        /\ (made[e] - start) + MaxLag < k
        /\ e \in Window(k)
        => e \in fetched

(* What is owed was fetched, or the polls have gone past its windows. *)
Owing ==
    \A e \in owed :
        /\ e \in Others
        /\ made[e] >= start
        /\ e \in fetched \/ Len(polls) > (made[e] - start) + 1 + PollOverlap

Polled == Numbered /\ Lagging /\ Missing /\ Fetching /\ Owing

-----------------------------------------------------------------------------
(* A sequence with one element replaced. *)
LEMMA OnePoll ==
    ASSUME NEW s \in Seq(PollType), NEW i \in DOMAIN s, NEW x \in PollType
    PROVE  LET t == [s EXCEPT ![i] = x] IN
           /\ t \in Seq(PollType) /\ Len(t) = Len(s) /\ DOMAIN t = DOMAIN s
           /\ t[i] = x /\ \A j \in DOMAIN s \ {i} : t[j] = s[j]
  OBVIOUS

(* A sequence with one element more. *)
LEMMA MorePolls ==
    ASSUME NEW s \in Seq(PollType), NEW x \in PollType
    PROVE  LET t == Append(s, x) IN
           /\ t \in Seq(PollType) /\ Len(t) = Len(s) + 1
           /\ DOMAIN t = DOMAIN s \cup {Len(s) + 1}
           /\ t[Len(s) + 1] = x /\ \A j \in DOMAIN s : t[j] = s[j]
  OBVIOUS

(* What a step of a poll makes of its record. *)
LEMMA PollChanged ==
    ASSUME NEW y \in PollType, NEW a \in {"failed", "sending", "signal"},
           NEW L \in SUBSET Events, NEW e \in Events \cup {NoEvent}
    PROVE  /\ [y EXCEPT !.at = a] \in PollType
           /\ [y EXCEPT !.at = a, !.left = L] \in PollType
           /\ [y EXCEPT !.at = a, !.cur = e] \in PollType
           /\ [y EXCEPT !.at = a, !.cur = e, !.left = L] \in PollType
  BY DEF PollType

(* What taking a result makes of the query. *)
LEMMA QueryChanged ==
    ASSUME NEW y \in QueryType, NEW e \in Events, NEW S \in SUBSET Events
    PROVE  /\ [y EXCEPT !.at = "send1", !.cur = e, !.whole = S] \in QueryType
           /\ [y EXCEPT !.at = "revive", !.cur = e, !.bare = S] \in QueryType
           /\ [y EXCEPT !.at = "send2", !.cur = e, !.left2 = S] \in QueryType
  BY DEF QueryType

(* A new relay. *)
LEMMA InitTyping == Init => Typing /\ Polled
<1> SUFFICES ASSUME Init PROVE Typing /\ Polled
  OBVIOUS
<1> USE TwoLevelAssumption DEF Init
<1>1. polls \in Seq(PollType) /\ Len(polls) = 0 /\ DOMAIN polls = {}
  OBVIOUS
<1>2. Typing
  BY <1>1 DEF Typing, SaveType, QueryType, NoSave, NoQuery, Never
<1>3. Numbered
  <2>1. now = 0 /\ start = 0 /\ last = 0 /\ ticked
    OBVIOUS
  <2>2. ticked => Len(polls) = now - start
    BY <1>1, <2>1
  <2>3. last = IF Len(polls) = 0 THEN start ELSE start + Len(polls) - PollOverlap
    BY <1>1, <2>1
  <2> QED
    BY <1>1, <2>1, <2>2, <2>3 DEF Numbered
<1>4. Lagging
  BY DEF Lagging, Others
<1>5. Missing
  <2> SUFFICES ASSUME NEW i \in Int PROVE \E k \in i .. (i + MaxMisses) : ~Fails(k)
    BY DEF Missing
  <2>1. i \in i .. (i + MaxMisses) /\ ~Fails(i)
    BY <1>1 DEF Fails
  <2> QED
    BY <2>1
<1>6. Fetching /\ Owing
  BY <1>1 DEF Fetching, Owing
<1> QED
  BY <1>2, <1>3, <1>4, <1>5, <1>6 DEF Polled

-----------------------------------------------------------------------------
(* Steps that leave the poller and the canister's clock alone. *)
PollerStands ==
    UNCHANGED <<mode, now, start, last, ticked, polls, owed, fetched>>

(* The L2 may have more, and an event of others keeps its date. *)
LEMMA PolledStands ==
    ASSUME Typing, Polled, PollerStands, l2 \subseteq l2',
           \A e \in Others : made'[e] = made[e]
    PROVE  Polled'
<1> USE DEF PollerStands, Polled
<1>1. Others' = Others /\ Others \subseteq Events
  BY TwoLevelAssumption DEF Others
<1>2. Numbered'
  BY DEF Numbered
<1>3. Lagging'
  BY <1>1 DEF Lagging
<1>4. Missing'
  BY DEF Missing, Fails
<1>5. \A k \in DOMAIN polls : \A e \in Others : e \in Window(k)' <=> e \in Window(k)
  BY <1>1 DEF Window
<1>6. Fetching'
  BY <1>1, <1>5 DEF Fetching
<1>7. Owing'
  BY <1>1 DEF Owing
<1> QED
  BY <1>2, <1>3, <1>4, <1>6, <1>7

(* What the collector and the goroutines of a query do. *)
LocalStep ==
    \/ \E e \in Events : Prune(e) \/ PruneIndexes(e)
    \/ QueryEvents \/ AnswerL2 \/ Query
    \/ ReaderReturns \/ CancelQuery \/ SaveLoopReturns

(* The poller and the clients' saves are not touched by it. *)
LEMMA LocalStands ==
    ASSUME LocalStep
    PROVE  PollerStands /\ UNCHANGED <<made, l2, save, told, faults, cast>>
  BY DEF LocalStep, PollerStands, Prune, PruneIndexes, QueryEvents, AnswerL2, Query,
     TakeL1, L1Closed, Revive, TakeL2, CloseQuery, Deliver, HandOver, SaveLoop,
     ReaderReturns, CancelQuery, SaveLoopReturns, pollVars, saveVars

(* The record of the query, changed in some fields. *)
LEMMA LocalTyping ==
    ASSUME Typing, LocalStep
    PROVE  Typing'
<1> USE DEF Typing
<1>0. PollerStands /\ UNCHANGED <<made, l2, save, told, faults, cast>>
  BY LocalStands
<1>1. ASSUME NEW e \in Events, Prune(e) \/ PruneIndexes(e)
      PROVE  Typing'
  BY <1>0, <1>1 DEF PollerStands, Prune, PruneIndexes, queryVars
<1>2. CASE QueryEvents
  BY <1>0, <1>2 DEF PollerStands, QueryEvents, QueryType, NoQuery
<1>3. CASE AnswerL2
  <2>1. PICK R \in SUBSET Events : q' = [q EXCEPT !.ch2 = "sending", !.left2 = R]
    <3>1. l2 \in SUBSET Events /\ {} \in SUBSET Events /\ SUBSET l2 \subseteq SUBSET Events
      OBVIOUS
    <3>2. (IF Closes THEN SUBSET l2 ELSE {{}, l2}) \subseteq SUBSET Events
      BY <3>1
    <3> QED
      BY <1>3, <3>2 DEF AnswerL2
  <2>2. q' \in QueryType
    BY <2>1 DEF QueryType
  <2> QED
    BY <1>0, <1>3, <2>2 DEF PollerStands, AnswerL2
<1>4. CASE TakeL1 \/ L1Closed \/ Revive \/ TakeL2
  <2>1. CASE TakeL1
    <3>1. q' \in QueryType
      <4>0. q.whole \subseteq Events /\ q.bare \subseteq Events
        BY DEF QueryType
      <4>1. CASE \E e \in q.whole :
                    q' = [q EXCEPT !.at = "send1", !.cur = e, !.whole = q.whole \ {e}]
        <5>1. PICK e \in q.whole :
                 q' = [q EXCEPT !.at = "send1", !.cur = e, !.whole = q.whole \ {e}]
          BY <4>1
        <5>2. e \in Events /\ q.whole \ {e} \in SUBSET Events
          BY <4>0
        <5> QED
          BY <5>1, <5>2, QueryChanged
      <4>2. CASE \E e \in q.bare :
                    q' = [q EXCEPT !.at = "revive", !.cur = e, !.bare = q.bare \ {e}]
        <5>1. PICK e \in q.bare :
                 q' = [q EXCEPT !.at = "revive", !.cur = e, !.bare = q.bare \ {e}]
          BY <4>2
        <5>2. e \in Events /\ q.bare \ {e} \in SUBSET Events
          BY <4>0
        <5> QED
          BY <5>1, <5>2, QueryChanged
      <4> QED
        BY <2>1, <4>1, <4>2 DEF TakeL1
    <3> QED
      BY <1>0, <2>1, <3>1 DEF PollerStands, TakeL1
  <2>2. CASE L1Closed
    BY <1>0, <2>2 DEF PollerStands, L1Closed, QueryType
  <2>3. CASE Revive
    BY <1>0, <2>3 DEF PollerStands, Revive, QueryType
  <2>4. CASE TakeL2
    <3>0. q.left2 \subseteq Events
      BY DEF QueryType
    <3>1. q' \in QueryType
      <4>1. PICK e \in q.left2 :
               q' = [q EXCEPT !.at = "send2", !.cur = e, !.left2 = q.left2 \ {e}]
        BY <2>4 DEF TakeL2
      <4>2. e \in Events /\ q.left2 \ {e} \in SUBSET Events
        BY <3>0
      <4> QED
        BY <4>1, <4>2, QueryChanged
    <3> QED
      BY <1>0, <2>4, <3>1 DEF PollerStands, TakeL2
  <2> QED
    BY <1>4, <2>1, <2>2, <2>3, <2>4
<1>5. CASE CloseQuery \/ Deliver
  BY <1>0, <1>5 DEF PollerStands, CloseQuery, Deliver, QueryType, NoQuery
<1>6. CASE HandOver
  BY <1>0, <1>6 DEF PollerStands, HandOver, QueryType
<1>7. CASE SaveLoop
  BY <1>0, <1>7 DEF PollerStands, SaveLoop, SaveAgain, Stored
<1>8. CASE ReaderReturns \/ CancelQuery \/ SaveLoopReturns
  BY <1>0, <1>8 DEF PollerStands, ReaderReturns, CancelQuery, SaveLoopReturns
<1> QED
  BY <1>1, <1>2, <1>3, <1>4, <1>5, <1>6, <1>7, <1>8 DEF LocalStep, Query

(* A client's save: an event of this relay gets its date, the L2 gets the  *)
(* event or refuses it, and the client is told.                            *)
LEMMA SaveStep ==
    ASSUME Typing, NEW p \in Savers, Save(p)
    PROVE  /\ Typing' /\ PollerStands /\ l2 \subseteq l2'
           /\ \A e \in Others : made'[e] = made[e]
<1> USE DEF Typing
<1>0. PollerStands /\ UNCHANGED <<mode, q, reader, saver, cast>>
  BY DEF PollerStands, Save, SaveL1, SaveL1Fails, SaveL2, SaveL2Fails, pollVars, queryVars
<1>1. ASSUME NEW e \in Events, SaveL1(p, e) \/ SaveL1Fails(p, e)
      PROVE  /\ Typing' /\ l2 \subseteq l2'
             /\ \A d \in Others : made'[d] = made[d]
  <2>1. /\ made' = [made EXCEPT ![e] = IF @ = Never THEN now ELSE @]
        /\ UNCHANGED <<l2, told, now, start, ticked, polls>>
        /\ e \notin Others
    BY <1>0, <1>1 DEF PollerStands, SaveL1, SaveL1Fails
  <2>2. made' \in [Events -> {Never} \cup 0 .. now]
    BY <2>1, TwoLevelAssumption
  <2>3. /\ save' \in [Savers -> SaveType]
        /\ \A r \in Savers : save'[r].at = "l2" => save'[r].event \in Events
    <3>1. save' = [save EXCEPT ![p] = [at |-> "l2", event |-> e]]
      BY <1>1 DEF SaveL1, SaveL1Fails
    <3>2. [at |-> "l2", event |-> e] \in SaveType
      BY DEF SaveType
    <3> QED
      BY <3>1, <3>2
  <2>4. l1' \in [Events -> {"none", "full", "stub", "hollow"}] /\ faults' \in 0 .. MaxFaults
    BY <1>1, TwoLevelAssumption DEF SaveL1, SaveL1Fails, Stored
  <2>5. Typing'
    BY <1>0, <2>1, <2>2, <2>3, <2>4 DEF PollerStands
  <2>6. \A d \in Others : made'[d] = made[d]
    BY <2>1, TwoLevelAssumption DEF Others
  <2> QED
    BY <2>1, <2>5, <2>6
<1>2. CASE SaveL2(p) \/ SaveL2Fails(p)
  <2>1. save[p].event \in Events
    BY <1>2 DEF SaveL2, SaveL2Fails
  <2>2. save' \in [Savers -> SaveType] /\ \A r \in Savers : save'[r].at = "l2" => save'[r].event \in Events
    BY <1>2 DEF SaveL2, SaveL2Fails, SaveType, NoSave
  <2>3. /\ l2' \subseteq Events /\ told' \subseteq Events
        /\ l2 \subseteq l2'
        /\ faults' \in 0 .. MaxFaults
        /\ UNCHANGED <<made, l1>>
    BY <1>2, <2>1, TwoLevelAssumption DEF SaveL2, SaveL2Fails, Tell
  <2> QED
    BY <1>0, <2>2, <2>3 DEF PollerStands
<1> QED
  BY <1>0, <1>1, <1>2 DEF Save

(* The event of another relay is made, and comes to the L2. *)
LEMMA OthersStep ==
    ASSUME Typing, Polled, NEW e \in Events, Publish(e) \/ Arrive(e)
    PROVE  Typing' /\ Polled'
<1> USE DEF Typing
<1>1. CASE Arrive(e)
  <2>1. /\ PollerStands /\ l2 \subseteq l2' /\ l2' \subseteq Events
        /\ UNCHANGED <<made, l1, faults, save, told, q, reader, saver, cast>>
    BY <1>1 DEF Arrive, PollerStands, pollVars, queryVars, saveVars
  <2> QED
    BY <2>1, PolledStands DEF PollerStands
<1>2. CASE Publish(e)
  <2>1. /\ PollerStands /\ made[e] = Never /\ made' = [made EXCEPT ![e] = now]
        /\ UNCHANGED <<l1, l2, faults, save, told, q, reader, saver, cast>>
    BY <1>2 DEF Publish, PollerStands, pollVars, queryVars, saveVars
  <2>2. Typing'
    BY <2>1, TwoLevelAssumption DEF PollerStands
  <2>3. /\ Others' = Others /\ Others \subseteq Events /\ made'[e] = now
        /\ \A d \in Events \ {e} : made'[d] = made[d]
    BY <2>1, TwoLevelAssumption DEF PollerStands, Others
  <2>4. Numbered' /\ Missing'
    BY <2>1 DEF PollerStands, Polled, Numbered, Missing, Fails
  <2>5. Lagging'
    BY <2>1, <2>3, TwoLevelAssumption DEF PollerStands, Polled, Lagging
  <2>6. \A k \in DOMAIN polls : k <= now - start
    BY DEF Polled, Numbered
  <2>7. Fetching'
    <3> SUFFICES ASSUME NEW k \in DOMAIN polls, NEW d \in Others,
                        polls[k].at \notin {"asked", "failed"}, made'[d] >= start,
                        (made'[d] - start) + MaxLag < k, d \in Window(k)'
                 PROVE  d \in fetched
      BY <2>1, <2>3 DEF PollerStands, Fetching
    <3>1. d # e
      BY <2>3, <2>6, TwoLevelAssumption
    <3>2. made'[d] = made[d] /\ d \in Window(k)
      BY <2>1, <2>3, <3>1 DEF PollerStands, Window
    <3> QED
      BY <3>2 DEF Polled, Fetching
  <2>8. Owing'
    <3>1. e \notin owed
      BY <2>1, TwoLevelAssumption DEF Polled, Owing, Never
    <3> QED
      BY <2>1, <2>3, <3>1 DEF PollerStands, Polled, Owing
  <2> QED
    BY <2>2, <2>4, <2>5, <2>7, <2>8 DEF Polled
<1> QED
  BY <1>1, <1>2

(* A poll is made: it gets the next number, and asks from last. *)
LEMMA PollStep ==
    ASSUME Typing, Polled, Poll
    PROVE  Typing' /\ Polled'
<1> USE DEF Typing
<1> DEFINE n == Len(polls) + 1
           x == [at |-> "asked", since |-> last, until |-> now, left |-> {}, cur |-> NoEvent]
<1>1. /\ ~ticked /\ ticked' /\ last' = now - PollOverlap
      /\ polls' = Append(polls, x)
      /\ UNCHANGED <<mode, l1, made, l2, now, start, faults, owed, fetched, cast,
                     q, reader, saver, save, told>>
  BY DEF Poll, NextSince, queryVars, saveVars
<1>2. Len(polls) = (now - start) - 1 /\ n = now - start
  BY <1>1, TwoLevelAssumption DEF Polled, Numbered
<1>3. last = IF Len(polls) = 0 THEN start ELSE start + Len(polls) - PollOverlap
  BY DEF Polled, Numbered
<1>4. last \in Int /\ x \in PollType
  BY <1>3, TwoLevelAssumption DEF PollType
<1>5. /\ polls' \in Seq(PollType) /\ Len(polls') = n /\ DOMAIN polls' = DOMAIN polls \cup {n}
      /\ polls'[n] = x /\ \A j \in DOMAIN polls : polls'[j] = polls[j]
  BY <1>1, <1>4, MorePolls
<1>6. x.at = "asked" /\ x.since = last /\ x.until = now
  OBVIOUS
<1> HIDE DEF x
<1>7. Typing'
  BY <1>1, <1>5, <1>6
<1>8. Numbered'
  <2>1. /\ polls'[n].until = start + n
        /\ polls'[n].since = IF n = 1 THEN start ELSE start + n - 1 - PollOverlap
    BY <1>2, <1>3, <1>5, <1>6, TwoLevelAssumption
  <2>2. last' = start + Len(polls') - PollOverlap /\ Len(polls') # 0
    BY <1>1, <1>2, <1>5, TwoLevelAssumption
  <2>3. \A i \in DOMAIN polls' :
          /\ polls'[i].until = start + i
          /\ polls'[i].since = IF i = 1 THEN start ELSE start + i - 1 - PollOverlap
    BY <1>5, <2>1 DEF Polled, Numbered
  <2> QED
    BY <1>1, <1>2, <1>5, <2>2, <2>3 DEF Numbered
<1>9. Lagging'
  BY <1>1 DEF Polled, Lagging, Others
<1>10. Missing'
  BY <1>5, <1>6 DEF Polled, Missing, Fails
<1>11. Fetching'
  <2> SUFFICES ASSUME NEW k \in DOMAIN polls, NEW d \in Others,
                      polls[k].at \notin {"asked", "failed"}, made[d] >= start,
                      (made[d] - start) + MaxLag < k, d \in Window(k)'
               PROVE  d \in fetched
    BY <1>1, <1>5, <1>6 DEF Fetching, Others
  <2>1. d \in Window(k)
    BY <1>1, <1>5 DEF Window
  <2> QED
    BY <2>1 DEF Polled, Fetching
<1>12. Owing'
  <2> SUFFICES ASSUME NEW e \in owed
               PROVE  /\ e \in Others /\ made[e] >= start
                      /\ e \in fetched \/ n > (made[e] - start) + 1 + PollOverlap
    BY <1>1, <1>5 DEF Owing, Others
  <2>1. made[e] \in Int
    BY DEF Never
  <2> QED
    BY <1>2, <2>1, TwoLevelAssumption DEF Polled, Owing
<1> QED
  BY <1>7, <1>8, <1>9, <1>10, <1>11, <1>12 DEF Polled

(* The poll i is at another place, with its window as it was. *)
PollMoves(i, at) ==
    /\ polls' \in Seq(PollType) /\ Len(polls') = Len(polls) /\ DOMAIN polls' = DOMAIN polls
    /\ \A j \in DOMAIN polls :
          /\ polls'[j].since = polls[j].since /\ polls'[j].until = polls[j].until
          /\ polls'[j].at = IF j = i THEN at ELSE polls[j].at
          /\ polls'[j].at = "signal" => polls'[j].cur \in Events
    /\ UNCHANGED <<mode, made, l2, now, start, last, ticked, faults, q, reader,
                   saver, save, told>>

(* The windows of all polls stay. *)
LEMMA MovesKeep ==
    ASSUME Typing, Polled, NEW i \in DOMAIN polls, NEW at, PollMoves(i, at)
    PROVE  /\ Numbered' /\ Lagging' /\ Others' = Others
           /\ \A k \in DOMAIN polls : Window(k)' = Window(k)
<1>1. Numbered'
  BY DEF PollMoves, Polled, Numbered
<1>2. Lagging'
  BY DEF PollMoves, Polled, Lagging, Others
<1>3. \A k \in DOMAIN polls : Window(k)' = Window(k)
  BY DEF PollMoves, Window
<1> QED
  BY <1>1, <1>2, <1>3 DEF PollMoves, Others

(* What a window is. *)
LEMMA InWindow ==
    ASSUME NEW i, NEW d \in Events, made[d] \in polls[i].since .. polls[i].until
    PROVE  d \in Window(i)
  BY DEF Window

(* The canister answers: what has been there for long is in the answer. *)
LEMMA AnsweredStep ==
    ASSUME Typing, Polled, NEW i \in DOMAIN polls, PollAnswered(i)
    PROVE  Typing' /\ Polled'
<1> USE DEF Typing
<1> DEFINE x == [polls[i] EXCEPT !.at = "sending", !.left = l2 \cap Window(i)]
<1>1. /\ polls[i].at = "asked"
      /\ polls' = [polls EXCEPT ![i] = x]
      /\ fetched' = fetched \cup (l2 \cap Window(i))
      /\ owed' = owed \cup {e \in l2 \cap Others : made[e] \in start .. polls[i].until}
      /\ UNCHANGED <<mode, l1, made, l2, now, start, last, ticked, faults, cast,
                     q, reader, saver, save, told>>
  BY DEF PollAnswered, queryVars, saveVars, PollType
<1>2. polls[i] \in PollType /\ x \in PollType
  <2>1. polls[i] \in PollType /\ l2 \cap Window(i) \in SUBSET Events /\ NoEvent \in Events \cup {NoEvent}
    OBVIOUS
  <2> QED
    BY <2>1, PollChanged
<1>3. x.at = "sending" /\ x.since = polls[i].since /\ x.until = polls[i].until
  BY <1>2 DEF PollType
<1> HIDE DEF x
<1>4. PollMoves(i, "sending")
  BY <1>1, <1>2, <1>3, OnePoll DEF PollMoves
<1>5. Typing'
  BY <1>1, <1>4 DEF PollMoves
<1>6. Missing'
  BY <1>4 DEF PollMoves, Polled, Missing, Fails
<1>7. \A k \in DOMAIN polls : Window(k)' = Window(k)
  BY <1>4, MovesKeep
<1>8. polls[i].until = start + i /\ i <= now - start /\ i \in Nat
  BY TwoLevelAssumption DEF Polled, Numbered
<1>9. Fetching'
  <2> SUFFICES ASSUME NEW k \in DOMAIN polls, NEW d \in Others,
                      polls'[k].at \notin {"asked", "failed"}, made[d] >= start,
                      (made[d] - start) + MaxLag < k, d \in Window(k)
               PROVE  d \in fetched'
    <3>1. Others' = Others /\ made' = made /\ start' = start
      BY <1>1, <1>4, MovesKeep
    <3>2. DOMAIN polls' = DOMAIN polls
      BY <1>4 DEF PollMoves
    <3> QED
      BY <1>7, <3>1, <3>2 DEF Fetching
  <2>1. CASE k = i
    <3>1. d \in Events
      BY TwoLevelAssumption DEF Others
    <3>2. d \in l2
      BY <1>8, <2>1, <3>1, TwoLevelAssumption DEF Polled, Lagging, Never
    <3> QED
      BY <1>1, <2>1, <3>2
  <2>2. CASE k # i
    BY <1>1, <1>4, <2>2 DEF PollMoves, Polled, Fetching
  <2> QED
    BY <2>1, <2>2
<1>10. Owing'
  <2> SUFFICES ASSUME NEW e \in owed'
               PROVE  /\ e \in Others /\ made[e] >= start
                      /\ e \in fetched' \/ Len(polls) > (made[e] - start) + 1 + PollOverlap
    BY <1>1, <1>4, MovesKeep DEF Owing, PollMoves
  <2>1. CASE e \in owed
    BY <1>1, <2>1 DEF Polled, Owing
  <2>2. CASE e \notin owed
    <3>1. /\ e \in l2 /\ e \in Others /\ e \in Events
          /\ made[e] \in Int /\ made[e] >= start /\ made[e] <= start + i
      BY <1>1, <1>8, <2>2, TwoLevelAssumption DEF Never
    <3>2. polls[i].since = IF i = 1 THEN start ELSE start + i - 1 - PollOverlap
      BY DEF Polled, Numbered
    <3>3. i <= Len(polls) /\ Len(polls) \in Nat
      OBVIOUS
    <3>4. ASSUME made[e] >= polls[i].since
          PROVE  e \in Window(i)
      <4>1. polls[i].since \in Int
        BY <1>8, <3>2, TwoLevelAssumption
      <4> QED
        <5>1. start \in Int /\ polls[i].until \in Int /\ made[e] <= polls[i].until
          BY <1>8, <3>1, TwoLevelAssumption
        <5>2. made[e] \in polls[i].since .. polls[i].until
          BY <3>1, <3>4, <4>1, <5>1
        <5> QED
          BY <3>1, <5>2, InWindow
    <3>5. ASSUME ~(made[e] >= polls[i].since)
          PROVE  Len(polls) > (made[e] - start) + 1 + PollOverlap
      BY <1>8, <3>1, <3>2, <3>3, <3>5, TwoLevelAssumption
    <3>6. e \in Window(i) \/ Len(polls) > (made[e] - start) + 1 + PollOverlap
      BY <3>4, <3>5
    <3> QED
      BY <1>1, <3>1, <3>6
  <2> QED
    BY <2>1, <2>2
<1> QED
  BY <1>4, <1>5, <1>6, <1>9, <1>10, MovesKeep DEF Polled

(* The call fails: of the polls around it one did not. *)
LEMMA UnansweredStep ==
    ASSUME Typing, Polled, NEW i \in DOMAIN polls, PollUnanswered(i)
    PROVE  Typing' /\ Polled'
<1> USE DEF Typing
<1> DEFINE x == [polls[i] EXCEPT !.at = "failed"]
<1>1. /\ polls' = [polls EXCEPT ![i] = x]
      /\ \A j \in 0 .. MaxMisses :
            \E k \in (i - j) .. (i - j + MaxMisses) : k # i /\ ~Fails(k)
      /\ UNCHANGED <<mode, l1, made, l2, now, start, last, ticked, faults, owed, fetched,
                     cast, q, reader, saver, save, told>>
  BY DEF PollUnanswered, queryVars, saveVars, PollType
<1>2. polls[i] \in PollType /\ x \in PollType
  <2>1. polls[i] \in PollType /\ l2 \cap Window(i) \in SUBSET Events /\ NoEvent \in Events \cup {NoEvent}
    OBVIOUS
  <2> QED
    BY <2>1, PollChanged
<1>3. x.at = "failed" /\ x.since = polls[i].since /\ x.until = polls[i].until
  BY <1>2 DEF PollType
<1> HIDE DEF x
<1>4. PollMoves(i, "failed")
  BY <1>1, <1>2, <1>3, OnePoll DEF PollMoves
<1>5. Typing'
  BY <1>1, <1>4 DEF PollMoves
<1>6. Missing'
  <2> SUFFICES ASSUME NEW w \in Int
               PROVE  \E k \in w .. (w + MaxMisses) : ~Fails(k)'
    BY <1>4 DEF Missing
  <2>1. \A k \in Int : k # i /\ ~Fails(k) => ~Fails(k)'
    BY <1>4 DEF PollMoves, Fails
  <2>2. i \in Int /\ MaxMisses \in Nat
    BY TwoLevelAssumption
  <2>3. CASE i \in w .. (w + MaxMisses)
    <3>1. (i - w) \in 0 .. MaxMisses /\ i - (i - w) = w
      BY <2>2, <2>3
    <3>2. PICK k \in w .. (w + MaxMisses) : k # i /\ ~Fails(k)
      BY <1>1, <3>1
    <3> QED
      BY <2>1, <3>2
  <2>4. CASE i \notin w .. (w + MaxMisses)
    <3>1. PICK k \in w .. (w + MaxMisses) : ~Fails(k)
      BY DEF Polled, Missing
    <3>2. k # i /\ k \in Int
      BY <2>2, <2>4
    <3> QED
      BY <2>1, <3>1, <3>2
  <2> QED
    BY <2>3, <2>4
<1>7. Others' = Others /\ \A k \in DOMAIN polls : Window(k)' = Window(k)
  BY <1>4, MovesKeep
<1>8. Fetching'
  BY <1>1, <1>4, <1>7 DEF PollMoves, Polled, Fetching
<1>9. Owing'
  BY <1>1, <1>4, <1>7 DEF PollMoves, Polled, Owing
<1> QED
  BY <1>4, <1>5, <1>6, <1>8, <1>9, MovesKeep DEF Polled

(* An event of a poll is saved in the L1, and then signalled. *)
LEMMA GoroutineStep ==
    ASSUME Typing, Polled, NEW i \in DOMAIN polls, PollGoroutine(i)
    PROVE  Typing' /\ Polled'
<1> USE DEF Typing
<1>1. PICK at \in {"sending", "signal"}, x \in PollType :
         /\ polls[i].at \in {"sending", "signal"}
         /\ x.at = at /\ x.since = polls[i].since /\ x.until = polls[i].until
         /\ x.at = "signal" => x.cur \in Events
         /\ polls' = [polls EXCEPT ![i] = x]
         /\ l1' \in [Events -> {"none", "full", "stub", "hollow"}]
         /\ cast' \subseteq Events
         /\ UNCHANGED <<mode, made, l2, now, start, last, ticked, faults, owed, fetched,
                        q, reader, saver, save, told>>
  <2>0. polls[i] \in PollType /\ polls[i].left \subseteq Events
    <3>1. polls[i] \in PollType
      OBVIOUS
    <3> QED
      BY <3>1 DEF PollType
  <2>1. CASE PollSave(i)
    <3>1. PICK e \in polls[i].left :
             /\ polls' = [polls EXCEPT ![i].at = "signal", ![i].cur = e,
                                       ![i].left = @ \ {e}]
             /\ l1' = Stored(e)
      BY <2>1 DEF PollSave
    <3> DEFINE x == [polls[i] EXCEPT !.at = "signal", !.cur = e, !.left = polls[i].left \ {e}]
    <3>2. polls' = [polls EXCEPT ![i] = x]
      BY <2>0, <3>1 DEF PollType
    <3>3. x \in PollType
      BY <2>0, PollChanged
    <3>4. x.at = "signal" /\ x.cur = e /\ x.since = polls[i].since /\ x.until = polls[i].until
      BY <2>0 DEF PollType
    <3> HIDE DEF x
    <3>5. l1' \in [Events -> {"none", "full", "stub", "hollow"}]
      BY <3>1 DEF Stored
    <3> QED
      BY <2>0, <2>1, <3>2, <3>3, <3>4, <3>5 DEF PollSave, queryVars, saveVars
  <2>2. CASE EventSignal(i)
    <3> DEFINE x == [polls[i] EXCEPT !.at = "sending", !.cur = NoEvent]
    <3>2. polls' = [polls EXCEPT ![i] = x]
      BY <2>0, <2>2 DEF PollType, EventSignal, AfterSignal
    <3>3. x \in PollType
      BY <2>0, PollChanged
    <3>4. x.at = "sending" /\ x.since = polls[i].since /\ x.until = polls[i].until
      BY <2>0 DEF PollType
    <3> HIDE DEF x
    <3>5. polls[i].cur \in Events
      BY <2>2 DEF EventSignal
    <3> QED
      BY <2>2, <3>2, <3>3, <3>4, <3>5 DEF EventSignal, queryVars, saveVars
  <2> QED
    BY <2>1, <2>2 DEF PollGoroutine
<1>2. PollMoves(i, at)
  BY <1>1, OnePoll DEF PollMoves
<1>3. Typing'
  BY <1>1, <1>2 DEF PollMoves
<1>4. Missing'
  BY <1>1, <1>2 DEF PollMoves, Polled, Missing, Fails
<1>5. Others' = Others /\ \A k \in DOMAIN polls : Window(k)' = Window(k)
  BY <1>2, MovesKeep
<1>6. Fetching'
  BY <1>1, <1>2, <1>5 DEF PollMoves, Polled, Fetching
<1>7. Owing'
  BY <1>1, <1>2, <1>5 DEF PollMoves, Polled, Owing
<1> QED
  BY <1>2, <1>3, <1>4, <1>6, <1>7, MovesKeep DEF Polled

(* Time passes: what is late is not too late, and a poll is to come. *)
LEMMA TickStep ==
    ASSUME Typing, Polled, Tick
    PROVE  Typing' /\ Polled'
<1> USE TwoLevelAssumption DEF Typing
<1>1. /\ now < MaxTime /\ ticked /\ now' = now + 1 /\ ticked' = FALSE
      /\ \A e \in Others \ l2 : made[e] # Never => now - made[e] < MaxLag
      /\ UNCHANGED <<mode, l1, made, l2, start, last, polls, faults, owed, fetched,
                     cast, q, reader, saver, save, told>>
  BY DEF Tick, queryVars, saveVars
<1>2. made' \in [Events -> {Never} \cup 0 .. now']
  BY <1>1
<1>3. Typing'
  <2>1. now' \in 0 .. MaxTime /\ start' \in 0 .. now'
    BY <1>1
  <2>2. /\ l1' = l1 /\ polls' = polls /\ save' = save /\ q' = q /\ reader' = reader
        /\ saver' = saver /\ faults' = faults /\ mode' = mode /\ ticked' \in BOOLEAN
        /\ l2' = l2 /\ told' = told /\ owed' = owed
        /\ fetched' = fetched /\ cast' = cast
    BY <1>1
  <2> QED
    BY <1>2, <2>1, <2>2
<1>4. Numbered'
  BY <1>1 DEF Polled, Numbered
<1>5. Lagging'
  BY <1>1 DEF Lagging, Others, Never
<1>6. Missing' /\ Fetching' /\ Owing'
  BY <1>1 DEF Polled, Missing, Fetching, Owing, Fails, Window, Others
<1> QED
  BY <1>3, <1>4, <1>5, <1>6 DEF Polled

(* The process starts again, and polls from then on. *)
LEMMA RestartStep ==
    ASSUME Typing, Polled, Restart
    PROVE  Typing' /\ Polled'
<1> USE TwoLevelAssumption DEF Typing
<1>1. /\ polls' = <<>> /\ start' = now /\ last' = now /\ now' = now /\ ticked'
      /\ owed' = {} /\ UNCHANGED <<mode, made, l2>>
  BY DEF Restart
<1>2. polls' \in Seq(PollType) /\ Len(polls') = 0 /\ DOMAIN polls' = {}
  BY <1>1
<1>3. Typing'
  BY <1>1, <1>2 DEF Restart, SaveType, QueryType, NoSave, NoQuery
<1>4. Numbered'
  BY <1>1, <1>2 DEF Numbered
<1>5. Lagging'
  BY <1>1 DEF Polled, Lagging, Others
<1>6. Missing'
  <2> SUFFICES ASSUME NEW i \in Int PROVE \E k \in i .. (i + MaxMisses) : ~Fails(k)'
    BY <1>1 DEF Missing
  <2>1. i \in i .. (i + MaxMisses) /\ ~Fails(i)'
    BY <1>2 DEF Fails
  <2> QED
    BY <2>1
<1>7. Fetching' /\ Owing'
  BY <1>1, <1>2 DEF Fetching, Owing
<1> QED
  BY <1>3, <1>4, <1>5, <1>6, <1>7 DEF Polled

-----------------------------------------------------------------------------
(* Every step keeps the types and the counting of polls. *)
LEMMA StepKeeps ==
    ASSUME Typing, Polled, [Next]_vars
    PROVE  Typing' /\ Polled'
<1>1. ASSUME NEW e \in Events, Publish(e) \/ Arrive(e)
      PROVE  Typing' /\ Polled'
  BY <1>1, OthersStep
<1>2. ASSUME NEW p \in Savers, Save(p)
      PROVE  Typing' /\ Polled'
  BY <1>2, SaveStep, PolledStands
<1>3. CASE Poll
  BY <1>3, PollStep
<1>4. CASE Tick
  BY <1>4, TickStep
<1>5. ASSUME NEW i \in DOMAIN polls,
             PollAnswered(i) \/ PollUnanswered(i) \/ PollGoroutine(i)
      PROVE  Typing' /\ Polled'
  BY <1>5, AnsweredStep, UnansweredStep, GoroutineStep
<1>6. CASE LocalStep
  <2>1. PollerStands /\ UNCHANGED <<made, l2, told>>
    BY <1>6, LocalStands
  <2>2. Others' = Others
    BY <2>1 DEF PollerStands, Others
  <2> QED
    BY <1>6, <2>1, <2>2, LocalTyping, PolledStands
<1>7. CASE Restart
  BY <1>7, RestartStep
<1>8. CASE UNCHANGED vars
  <2>1. PollerStands /\ UNCHANGED <<made, l2, told>> /\ Typing'
    BY <1>8 DEF vars, PollerStands, Typing
  <2> QED
    BY <2>1, PolledStands
<1> QED
  BY <1>1, <1>2, <1>3, <1>4, <1>5, <1>6, <1>7, <1>8 DEF Next, LocalStep

(* The types, the numbers of the polls and their windows hold in every     *)
(* state.                                                                  *)
THEOREM PollsCounted == Spec => [](Typing /\ Polled)
<1>1. Typing /\ Polled /\ [Next]_vars => (Typing /\ Polled)'
  BY StepKeeps
<1> QED
  BY <1>1, InitTyping, PTL DEF Spec

(* The state is well typed, and the poller's next Since is never later     *)
(* than now: the windows of two polls leave no time between them out       *)
(* (l2.go:66-81).                                                          *)
THEOREM StoreTyped == Spec => []TypeOK
<1>1. Typing /\ Polled => TypeOK
  <2> SUFFICES ASSUME Typing, Polled PROVE TypeOK
    OBVIOUS
  <2> USE TwoLevelAssumption DEF Typing
  <2>1. last \in (0 - PollOverlap) .. now
    <3>1. last = IF Len(polls) = 0 THEN start ELSE start + Len(polls) - PollOverlap
      BY DEF Polled, Numbered
    <3>2. Len(polls) <= now - start /\ Len(polls) \in Nat
      BY DEF Polled, Numbered
    <3> QED
      BY <3>1, <3>2
  <2>2. made \in [Events -> {Never} \cup 0 .. MaxTime]
    OBVIOUS
  <2>3. \A i \in DOMAIN polls :
          /\ polls[i].at \in {"asked", "failed", "sending", "signal", "done"}
          /\ polls[i].left \subseteq Events
          /\ polls[i].cur \in Events \cup {NoEvent}
    <3>1. \A i \in DOMAIN polls : polls[i] \in PollType
      OBVIOUS
    <3> QED
      BY <3>1 DEF PollType
  <2>4. \A p \in Savers : save[p].at \in {"idle", "l2"}
    BY DEF SaveType
  <2>5. /\ q.at \in {"none", "l1", "l2", "send1", "send2", "send3", "revive", "hand", "closed"}
        /\ q.whole \subseteq Events /\ q.bare \subseteq Events /\ q.left2 \subseteq Events
    BY DEF QueryType
  <2>6. UNION {l2, told, owed, fetched, cast, q.whole, q.bare, q.left2}
           \subseteq Events
    BY <2>5
  <2> QED
    BY <2>1, <2>2, <2>3, <2>4, <2>5, <2>6 DEF TypeOK
<1> QED
  BY <1>1, PollsCounted, PTL

(* The overlap of the polls is enough: no event of another relay is missed *)
(* as long as its way to the L2 and the failures in a row together take no *)
(* longer than the overlap (l2.go:38, :74-81).                             *)
THEOREM OverlapSuffices == Spec => []PollMissesNothing
<1>1. Typing /\ Polled => PollMissesNothing
  <2> SUFFICES ASSUME Typing, Polled, NEW e \in owed \ fetched
               PROVE  \E i \in DOMAIN polls : polls[i].at = "asked" /\ e \in Window(i)
    BY DEF PollMissesNothing
  <2> USE TwoLevelAssumption DEF Typing
  <2> DEFINE d == made[e] - start
             w == d + MaxLag + 1
  <2>1. /\ e \in Others /\ e \in Events /\ made[e] \in Int /\ d \in Nat
        /\ Len(polls) > d + 1 + PollOverlap
    BY DEF Polled, Owing, Never
  <2>2. PICK k \in w .. (w + MaxMisses) : ~Fails(k)
    <3>1. w \in Int
      BY <2>1
    <3> QED
      BY <3>1 DEF Polled, Missing
  <2>3. k \in Nat /\ k >= 1 /\ k > d + MaxLag /\ k <= d + 1 + PollOverlap /\ k <= Len(polls)
    <3>1. Len(polls) \in Nat
      OBVIOUS
    <3>2. k \in Int /\ d + MaxLag + 1 <= k /\ k <= d + MaxLag + 1 + MaxMisses
      BY <2>1, <2>2
    <3> HIDE DEF Typing, d, w
    <3>3. d \in Nat
      BY <2>1
    <3> QED
      BY <2>1, <3>1, <3>2, <3>3
  <2>4. k \in DOMAIN polls
    BY <2>3
  <2>5. e \in Window(k)
    <3>1. /\ polls[k].until = start + k
          /\ polls[k].since = IF k = 1 THEN start ELSE start + k - 1 - PollOverlap
      BY <2>4 DEF Polled, Numbered
    <3>2. start \in Int /\ made[e] = start + d
      BY <2>1
    <3> HIDE DEF d
    <3>3. start <= made[e] /\ made[e] <= start + k /\ start + k - 1 - PollOverlap <= made[e]
      BY <2>1, <2>3, <3>2
    <3>4. /\ polls[k].until \in Int /\ polls[k].since \in Int
          /\ polls[k].since <= made[e] /\ made[e] <= polls[k].until
      BY <2>1, <2>3, <3>1, <3>2, <3>3
    <3>5. made[e] \in polls[k].since .. polls[k].until
      BY <2>1, <3>4
    <3> QED
      BY <2>1, <3>5, InWindow
  <2>6. polls[k].at \in {"asked", "failed"}
    <3>1. made[e] >= start /\ (made[e] - start) + MaxLag < k
      BY <2>1, <2>3
    <3>2. Fetching
      BY DEF Polled
    <3> QED
      BY <2>1, <2>4, <2>5, <3>1, <3>2 DEF Fetching
  <2>7. polls[k].at = "asked"
    BY <2>2, <2>4, <2>6 DEF Fails
  <2> QED
    BY <2>4, <2>5, <2>7
<1> QED
  BY <1>1, PollsCounted, PTL

=============================================================================
