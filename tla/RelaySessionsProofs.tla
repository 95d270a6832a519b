------------------------ MODULE RelaySessionsProofs ------------------------
(***************************************************************************)
(* Proofs about RelaySessions, for every set of connections, keys, events  *)
(* and filters.  Bounds, the inductive invariant, says where every number  *)
(* in the state comes from: readers, listeners and broadcasts refer to     *)
(* REQs that were received, and a reader that handles a REQ has counted no *)
(* more offenses than filters it has come to.                              *)
(***************************************************************************)
EXTENDS RelaySessions, SequenceTheorems, TLAPS

ConnType ==
    [sock : {"none", "open", "broken"}, watch : {"off", "on", "kill"},
     ctx : BOOLEAN, key : Keys \cup {NoKey}, offenses : Nat]

ReaderType ==
    [at : {"none", "read", "filter", "add", "cast", "gone"},
     req : ReqNos \cup {None}, event : SUBSET Events, todo : SUBSET Slots,
     hit : SUBSET ReqNos]

ReqType ==
    [conn : Conns, sub : Subs, filters : ReqFilters, queries : Seq(QueryType),
     wg : Nat, canceled : BOOLEAN]

Types ==
    /\ saved \in SUBSET Events
    /\ conn \in [Conns -> ConnType]
    /\ reader \in [Conns -> ReaderType]
    /\ listeners \in [Conns -> [Subs -> ReqNos \cup {None}]]
    /\ reqs \in Seq(ReqType)
    /\ Len(reqs) <= MaxReqs
    /\ sent \in [Conns -> SUBSET (Subs \X Events)]
    /\ steady \in [Conns -> SUBSET ReqNos]
    /\ due \in [ReqNos -> SUBSET Events]

(* Readers, listeners and broadcasts refer to REQs that were received. *)
Received ==
    \A c \in Conns :
        /\ reader[c].req \in Reqs \cup {None}
        /\ reader[c].hit \subseteq Reqs
        /\ steady[c] \subseteq Reqs
        /\ \A s \in Subs : listeners[c][s] \in Reqs \cup {None}

(* A reader works on a REQ of its own, one query per filter. *)
Handled ==
    \A c \in Conns : reader[c].at = "filter" =>
        /\ reader[c].req \in Reqs
        /\ reqs[reader[c].req].conn = c
        /\ Len(reqs[reader[c].req].queries) <= Len(reqs[reader[c].req].filters)

Muted ==
    \A c \in Conns :
        conn[c].offenses <= IgnoreAfter + (IF reader[c].at = "filter"
                              THEN Len(reqs[reader[c].req].queries)
                              ELSE MaxFilters)

Bounds == Types /\ Received /\ Handled /\ Muted

-----------------------------------------------------------------------------
(* What is stored in a REQ that was received. *)
LEMMA ReqFacts ==
    ASSUME Types, NEW r \in Reqs
    PROVE  /\ r \in ReqNos /\ r \in Nat /\ r # None
           /\ reqs[r] \in ReqType
           /\ reqs[r].filters \in Seq(FilterType)
           /\ Len(reqs[r].filters) \in 1..MaxFilters
           /\ reqs[r].queries \in Seq(QueryType)
           /\ Len(reqs[r].queries) \in Nat
           /\ DOMAIN reqs[r].queries = 1..Len(reqs[r].queries)
<1>1. reqs \in Seq(ReqType) /\ r \in 1..Len(reqs) /\ Len(reqs) \in Nat
  BY LenProperties DEF Types, Reqs
<1>2. reqs[r] \in ReqType
  BY <1>1, ElementOfSeq
<1>3. reqs[r].queries \in Seq(QueryType) /\ reqs[r].filters \in ReqFilters
  BY <1>2 DEF ReqType
<1>4. r \in ReqNos /\ r \in Nat /\ r # None
  BY <1>1, SessionAssumption DEF Types, ReqNos, None
<1> QED
  BY <1>2, <1>3, <1>4, SessionAssumption, LenProperties

(* A REQ that is stored in place of itself. *)
LEMMA ReqSet ==
    ASSUME Types, NEW r \in Reqs, NEW x \in ReqType,
           reqs' = [reqs EXCEPT ![r] = x]
    PROVE  /\ reqs' \in Seq(ReqType)
           /\ Len(reqs') = Len(reqs)
           /\ Reqs' = Reqs
           /\ reqs'[r] = x
           /\ \A q \in Reqs : q # r => reqs'[q] = reqs[q]
<1>1. reqs \in Seq(ReqType) /\ r \in 1..Len(reqs) /\ Reqs = 1..Len(reqs)
  BY LenProperties DEF Types, Reqs
<1>2. /\ reqs' \in Seq(ReqType) /\ Len(reqs') = Len(reqs)
      /\ \A j \in 1..Len(reqs) : reqs'[j] = IF j = r THEN x ELSE reqs[j]
  BY <1>1, ExceptSeq
<1> QED
  BY <1>1, <1>2, LenProperties DEF Reqs

(* One query of a REQ moves on. *)
LEMMA QuerySet ==
    ASSUME Types, NEW r \in Reqs, NEW k \in DOMAIN reqs[r].queries,
           NEW q \in QueryType, SetQuery(r, k, q)
    PROVE  /\ reqs' \in Seq(ReqType)
           /\ Len(reqs') = Len(reqs)
           /\ Reqs' = Reqs
           /\ Len(reqs'[r].queries) = Len(reqs[r].queries)
           /\ DOMAIN reqs'[r].queries = DOMAIN reqs[r].queries
           /\ reqs'[r].queries[k] = q
           /\ \A j \in DOMAIN reqs[r].queries :
                 j # k => reqs'[r].queries[j] = reqs[r].queries[j]
           /\ reqs'[r] = [reqs[r] EXCEPT !.queries = reqs'[r].queries]
           /\ \A p \in Reqs : p # r => reqs'[p] = reqs[p]
<1> DEFINE qs == [reqs[r].queries EXCEPT ![k] = q]
           x == [reqs[r] EXCEPT !.queries = qs]
<1>1. /\ qs \in Seq(QueryType) /\ Len(qs) = Len(reqs[r].queries)
      /\ DOMAIN qs = DOMAIN reqs[r].queries
      /\ \A j \in 1..Len(reqs[r].queries) :
            qs[j] = IF j = k THEN q ELSE reqs[r].queries[j]
  BY ReqFacts, ExceptSeq
<1>2. x \in ReqType /\ x.queries = qs
  BY <1>1, ReqFacts DEF ReqType
<1>3. reqs' = [reqs EXCEPT ![r] = x]
  BY DEF SetQuery
<1>4. /\ reqs' \in Seq(ReqType) /\ Len(reqs') = Len(reqs) /\ Reqs' = Reqs
      /\ reqs'[r] = x /\ \A p \in Reqs : p # r => reqs'[p] = reqs[p]
  <2> HIDE DEF x
  <2> QED
    BY <1>2, <1>3, ReqSet
<1> QED
  BY <1>1, <1>2, <1>4, ReqFacts

(* What has been put in the place of a query is there. *)
LEMMA QueryPut ==
    ASSUME Types, NEW r \in Reqs, NEW k \in DOMAIN reqs[r].queries,
           NEW q \in QueryType, SetQuery(r, k, q)
    PROVE  reqs'[r].queries[k] = q
<1> DEFINE qs == [reqs[r].queries EXCEPT ![k] = q]
           x == [reqs[r] EXCEPT !.queries = qs]
<1>1. qs \in Seq(QueryType) /\ qs[k] = q
  BY ReqFacts, ExceptSeq
<1>2. x \in ReqType /\ x.queries = qs
  BY <1>1, ReqFacts DEF ReqType
<1>3. reqs' = [reqs EXCEPT ![r] = x]
  BY DEF SetQuery
<1>4. reqs'[r] = x
  <2> HIDE DEF x
  <2> QED
    BY <1>2, <1>3, ReqSet
<1> QED
  BY <1>1, <1>2, <1>4

-----------------------------------------------------------------------------
(* A relay that has just started is within the bounds. *)
LEMMA InitBounds == Init => Bounds
<1> SUFFICES ASSUME Init PROVE Bounds
  OBVIOUS
<1>1. reqs \in Seq(ReqType) /\ Len(reqs) = 0 /\ Reqs = {}
  BY DEF Init, Reqs
<1>2. Types
  BY <1>1, SessionAssumption DEF Init, Types, ConnType, ReaderType, NoConn, Reader,
     NoListener, None
<1>3. Received /\ Handled /\ Muted
  BY SessionAssumption DEF Init, Received, Handled, Muted, NoConn, Reader, NoListener
<1> QED
  BY <1>2, <1>3 DEF Bounds

(* A restart leaves nothing behind that is not typed. *)
LEMMA RestartBounds == ASSUME Bounds, Restart PROVE Bounds'
<1>1. reqs' \in Seq(ReqType) /\ Len(reqs') = 0 /\ Reqs' = {}
  BY DEF Restart, Reqs
<1>2. Types'
  BY <1>1, SessionAssumption DEF Restart, Bounds, Types, ConnType, ReaderType, NoConn,
     Reader, NoListener, None
<1>3. Received' /\ Handled' /\ Muted'
  BY SessionAssumption DEF Restart, Received, Handled, Muted, NoConn, Reader, NoListener
<1> QED
  BY <1>2, <1>3 DEF Bounds

(* Only connection c and its reader are touched. *)
Touches(c) ==
    /\ \A d \in Conns \ {c} : conn'[d] = conn[d] /\ reader'[d] = reader[d]
    /\ conn' \in [Conns -> ConnType]
    /\ reader' \in [Conns -> ReaderType]

(* One record stored in a function in place of another. *)
LEMMA Stored ==
    ASSUME NEW S, NEW T, NEW f \in [S -> T], NEW x \in S, NEW y \in T
    PROVE  /\ [f EXCEPT ![x] = y] \in [S -> T]
           /\ [f EXCEPT ![x] = y][x] = y
           /\ \A z \in S \ {x} : [f EXCEPT ![x] = y][z] = f[z]
  OBVIOUS

(* An assignment to one connection's record touches no other. *)
LEMMA ConnSet ==
    ASSUME Types, NEW c \in Conns, NEW x \in ConnType,
           conn' = [conn EXCEPT ![c] = x], UNCHANGED reader
    PROVE  Touches(c) /\ conn'[c] = x
  BY Stored DEF Types, Touches

(* An assignment to one reader touches no other. *)
LEMMA ReaderSet ==
    ASSUME Types, NEW c \in Conns, NEW x \in ReaderType,
           reader' = [reader EXCEPT ![c] = x], UNCHANGED conn
    PROVE  Touches(c) /\ reader'[c] = x
  BY Stored DEF Types, Touches

(* A step that touches one connection and no REQ. *)
LEMMA TouchBounds ==
    ASSUME Bounds, NEW c \in Conns, Touches(c), UNCHANGED reqs,
           saved' \in SUBSET Events,
           listeners' \in [Conns -> [Subs -> ReqNos \cup {None}]],
           \A d \in Conns, s \in Subs : listeners'[d][s] \in Reqs \cup {None},
           sent' \in [Conns -> SUBSET (Subs \X Events)],
           steady' \in [Conns -> SUBSET ReqNos],
           \A d \in Conns : steady'[d] \subseteq Reqs,
           due' \in [ReqNos -> SUBSET Events],
           reader'[c].req \in Reqs \cup {None},
           reader'[c].hit \subseteq Reqs,
           reader'[c].at = "filter" => reader'[c] = reader[c],
           \/ reader'[c].at = reader[c].at /\ conn'[c].offenses = conn[c].offenses
           \/ reader'[c].at # "filter" /\ conn'[c].offenses <= IgnoreAfter + MaxFilters
    PROVE  Bounds'
<1>1. Reqs' = Reqs
  BY DEF Reqs
<1>2. Types'
  BY DEF Bounds, Types, Touches
<1>3. Received'
  BY <1>1 DEF Bounds, Received, Touches
<1>4. Handled'
  BY <1>1 DEF Bounds, Handled, Touches
<1>5. Muted'
  BY DEF Bounds, Muted, Touches
<1> QED
  BY <1>2, <1>3, <1>4, <1>5 DEF Bounds

(* What handling filters adds to the offenses stays within the bound. *)
LEMMA OffensesBounded ==
    ASSUME Bounds, NEW c \in Conns
    PROVE  conn[c].offenses \in Nat /\ conn[c].offenses <= IgnoreAfter + MaxFilters
<1>1. conn[c].offenses \in Nat
  BY DEF Bounds, Types, ConnType
<1>2. CASE reader[c].at = "filter"
  BY <1>1, <1>2, ReqFacts, SessionAssumption DEF Bounds, Muted, Handled
<1>3. CASE reader[c].at # "filter"
  BY <1>1, <1>3 DEF Bounds, Muted
<1> QED
  BY <1>1, <1>2, <1>3

(* The steps that leave the REQs alone. *)
LEMMA LifeBounds ==
    ASSUME Bounds, NEW c \in Conns,
           \/ Connect(c) \/ Breaks(c) \/ ReaderReturns(c) \/ Watcher(c)
           \/ \E k \in Keys : Auth(c, k)
    PROVE  Bounds'
<1> DEFINE old == conn[c]  r == reader[c]
<1>0. /\ old \in ConnType /\ r \in ReaderType
      /\ r.req \in Reqs \cup {None} /\ r.hit \subseteq Reqs
      /\ old.offenses <= IgnoreAfter + MaxFilters
      /\ Types /\ Received
  BY OffensesBounded DEF Bounds, Types, Received
<1>1. CASE Connect(c)
  <2>1. NewConn \in ConnType /\ Reader("read") \in ReaderType
    BY DEF NewConn, ConnType, Reader, ReaderType, None
  <2>2. /\ Touches(c) /\ conn'[c] = NewConn /\ reader'[c] = Reader("read")
        /\ UNCHANGED <<saved, listeners, reqs, sent, ghosts>>
    BY <1>0, <1>1, <2>1, Stored DEF Connect, Types, Touches
  <2>3. reader'[c].req = None /\ reader'[c].hit = {} /\ reader'[c].at # "filter"
    BY <2>2 DEF Reader
  <2>4. conn'[c].offenses <= IgnoreAfter + MaxFilters
    BY <2>2, SessionAssumption DEF NewConn
  <2> QED
    BY <1>0, <2>2, <2>3, <2>4, TouchBounds DEF Types, Received, ghosts
<1>2. ASSUME NEW x \in ConnType, conn' = [conn EXCEPT ![c] = x],
             x.offenses = old.offenses,
             UNCHANGED <<saved, reader, reqs, sent, ghosts>>,
             listeners' = listeners \/ listeners' = [listeners EXCEPT ![c] = NoListener]
      PROVE  Bounds'
  <2>1. Touches(c) /\ conn'[c] = x
    BY <1>0, <1>2, ConnSet
  <2>2. /\ listeners' \in [Conns -> [Subs -> ReqNos \cup {None}]]
        /\ \A d \in Conns, s \in Subs : listeners'[d][s] \in Reqs \cup {None}
    <3>1. NoListener \in [Subs -> ReqNos \cup {None}] /\ \A s \in Subs : NoListener[s] = None
      BY DEF NoListener
    <3>2. CASE listeners' = listeners
      BY <1>0, <3>2 DEF Types, Received
    <3>3. CASE listeners' = [listeners EXCEPT ![c] = NoListener]
      BY <1>0, <3>1, <3>3 DEF Types, Received
    <3> QED
      BY <1>2, <3>2, <3>3
  <2> QED
    BY <1>0, <1>2, <2>1, <2>2, TouchBounds DEF Types, Received, ghosts
<1>3. CASE Breaks(c)
  <2>1. /\ [old EXCEPT !.sock = "broken"] \in ConnType
        /\ [old EXCEPT !.sock = "broken"].offenses = old.offenses
    BY <1>0 DEF ConnType
  <2> QED
    BY <1>2, <1>3, <2>1 DEF Breaks
<1>4. CASE PingFails(c)
  <2>1. /\ [old EXCEPT !.watch = "kill", !.ctx = FALSE] \in ConnType
        /\ [old EXCEPT !.watch = "kill", !.ctx = FALSE].offenses = old.offenses
    BY <1>0 DEF ConnType
  <2> QED
    BY <1>2, <1>4, <2>1 DEF PingFails
<1>5. CASE RemoveListener(c)
  <2>1. /\ [old EXCEPT !.watch = "off"] \in ConnType
        /\ [old EXCEPT !.watch = "off"].offenses = old.offenses
    BY <1>0 DEF ConnType
  <2> QED
    BY <1>2, <1>5, <2>1 DEF RemoveListener
<1>6. ASSUME NEW k \in Keys, Auth(c, k)
      PROVE  Bounds'
  <2>1. /\ [old EXCEPT !.key = k] \in ConnType
        /\ [old EXCEPT !.key = k].offenses = old.offenses
    BY <1>0 DEF ConnType
  <2> QED
    BY <1>2, <1>6, <2>1 DEF Auth
<1>7. CASE ReaderReturns(c)
  <2>1. Reader("gone") \in ReaderType
    BY DEF Reader, ReaderType, None
  <2>2. Touches(c) /\ reader'[c] = Reader("gone")
    BY <1>0, <1>7, <2>1, ReaderSet DEF ReaderReturns
  <2>3. reader'[c].req = None /\ reader'[c].hit = {} /\ reader'[c].at # "filter"
    BY <2>2 DEF Reader
  <2> QED
    BY <1>0, <1>7, <2>2, <2>3, TouchBounds DEF Types, Received, ReaderReturns, ghosts
<1> QED
  BY <1>1, <1>3, <1>4, <1>5, <1>6, <1>7 DEF Watcher

(* EVENT, up to the return of its broadcast. *)
LEMMA EventBounds ==
    ASSUME Bounds, NEW c \in Conns,
           \/ \E e \in Events : SaveEvent(c, e)
           \/ BroadcastEvent(c) \/ Visit(c) \/ Serve(c) \/ BroadcastReturns(c)
    PROVE  Bounds'
<1> DEFINE r == reader[c]
<1>0. /\ r \in ReaderType
      /\ r.req \in Reqs \cup {None} /\ r.hit \subseteq Reqs
      /\ conn[c].offenses <= IgnoreAfter + MaxFilters
      /\ Types /\ Received
  BY OffensesBounded DEF Bounds, Types, Received
<1>1. ASSUME NEW x \in ReaderType, reader' = [reader EXCEPT ![c] = x],
             x.req = r.req \/ x.req = None, x.hit \subseteq Reqs, x.at # "filter",
             UNCHANGED <<conn, listeners, reqs>>,
             saved' \in SUBSET Events, sent' \in [Conns -> SUBSET (Subs \X Events)],
             steady' \in [Conns -> SUBSET ReqNos],
             \A d \in Conns : steady'[d] \subseteq Reqs,
             due' \in [ReqNos -> SUBSET Events]
      PROVE  Bounds'
  <2>1. Touches(c) /\ reader'[c] = x
    BY <1>0, <1>1, ReaderSet
  <2> QED
    BY <1>0, <1>1, <2>1, TouchBounds DEF Types, Received
<1>2. /\ saved \in SUBSET Events /\ sent \in [Conns -> SUBSET (Subs \X Events)]
      /\ steady \in [Conns -> SUBSET ReqNos] /\ due \in [ReqNos -> SUBSET Events]
      /\ \A d \in Conns : steady[d] \subseteq Reqs
  BY <1>0 DEF Types, Received
<1>3. ASSUME NEW e \in Events, SaveEvent(c, e)
      PROVE  Bounds'
  <2> DEFINE x == [r EXCEPT !.at = "add", !.event = {e}]
  <2>1. x \in ReaderType /\ x.req = r.req /\ x.hit = r.hit /\ x.at # "filter"
    BY <1>0 DEF ReaderType
  <2>2. reader' = [reader EXCEPT ![c] = x] /\ saved' = saved \cup {e}
    BY <1>3 DEF SaveEvent
  <2> HIDE DEF x
  <2> QED
    BY <1>0, <1>1, <1>2, <1>3, <2>1, <2>2 DEF SaveEvent, ghosts
<1>4. CASE BroadcastEvent(c)
  <2> DEFINE x == [r EXCEPT !.at = "cast", !.todo = Audience(c)]
  <2>1. x \in ReaderType /\ x.req = r.req /\ x.hit = r.hit /\ x.at # "filter"
    BY <1>0 DEF ReaderType, Audience
  <2>2. reader' = [reader EXCEPT ![c] = x]
    BY <1>4 DEF BroadcastEvent
  <2>3. \A slot \in Slots : listeners[slot[1]][slot[2]] \in (Reqs \cap ReqNos) \cup {None}
    BY <1>0, ReqFacts DEF Received, Slots
  <2>4. PICK st \in SUBSET (Reqs \cap ReqNos) : steady' = [steady EXCEPT ![c] = st]
    BY <1>4, <2>3 DEF BroadcastEvent
  <2>5. steady' \in [Conns -> SUBSET ReqNos] /\ \A d \in Conns : steady'[d] \subseteq Reqs
    BY <1>2, <2>4
  <2> HIDE DEF x
  <2> QED
    BY <1>0, <1>1, <1>2, <1>4, <2>1, <2>2, <2>5 DEF BroadcastEvent
<1>5. CASE Visit(c)
  <2>1. PICK slot \in r.todo : reader' = [reader EXCEPT
              ![c].todo = @ \ {slot},
              ![c].hit = {listeners[slot[1]][slot[2]]} \ {None}]
    BY <1>5 DEF Visit
  <2> DEFINE h == {listeners[slot[1]][slot[2]]} \ {None}
             x == [r EXCEPT !.todo = @ \ {slot}, !.hit = h]
  <2>2. slot[1] \in Conns /\ slot[2] \in Subs
    BY <1>0, <2>1 DEF ReaderType, Slots
  <2>3. h \subseteq Reqs /\ h \subseteq ReqNos
    BY <1>0, <2>2, ReqFacts DEF Received
  <2>4. reader' = [reader EXCEPT ![c] = x]
    BY <2>1
  <2> HIDE DEF h
  <2>5. x \in ReaderType /\ x.req = r.req /\ x.hit = h /\ x.at = r.at
    BY <1>0, <2>3 DEF ReaderType
  <2> HIDE DEF x
  <2> QED
    BY <1>0, <1>1, <1>2, <1>5, <2>3, <2>4, <2>5 DEF Visit, ghosts
<1>6. CASE Serve(c)
  <2> DEFINE x == [r EXCEPT !.hit = {}]
  <2>1. x \in ReaderType /\ x.req = r.req /\ x.hit = {} /\ x.at = r.at
    BY <1>0 DEF ReaderType
  <2>2. reader' = [reader EXCEPT ![c] = x]
    BY <1>6 DEF Serve
  <2>3. sent' \in [Conns -> SUBSET (Subs \X Events)]
    <3>1. PICK q \in r.hit, e \in r.event :
            Write(reqs[q].conn, reqs[q].sub, e) \/ UNCHANGED sent
      BY <1>6 DEF Serve
    <3>2. q \in Reqs /\ e \in Events
      BY <1>0, <3>1 DEF ReaderType
    <3>3. reqs[q].conn \in Conns /\ reqs[q].sub \in Subs
      BY <1>0, <3>2, ReqFacts DEF ReqType
    <3> QED
      BY <1>2, <3>1, <3>2, <3>3 DEF Write
  <2> HIDE DEF x
  <2> QED
    BY <1>0, <1>1, <1>2, <1>6, <2>1, <2>2, <2>3 DEF Serve, ghosts
<1>7. CASE BroadcastReturns(c)
  <2>1. /\ Reader("read") \in ReaderType /\ Reader("read").req = None
        /\ Reader("read").hit = {} /\ Reader("read").at # "filter"
    BY DEF Reader, ReaderType, None
  <2>2. due' \in [ReqNos -> SUBSET Events]
    BY <1>0, <1>2, <1>7 DEF BroadcastReturns, ReaderType
  <2>3. steady' \in [Conns -> SUBSET ReqNos] /\ \A d \in Conns : steady'[d] \subseteq Reqs
    BY <1>2, <1>7 DEF BroadcastReturns
  <2> QED
    BY <1>0, <1>1, <1>2, <1>7, <2>1, <2>2, <2>3 DEF BroadcastReturns
<1> QED
  BY <1>3, <1>4, <1>5, <1>6, <1>7

(* What a query goroutine does to its REQ. *)
LEMMA QueryMoves ==
    ASSUME Bounds, NEW r \in Reqs, NEW k \in DOMAIN reqs[r].queries, RunQuery(r, k)
    PROVE  \E q \in QueryType : SetQuery(r, k, q)
<1> USE DEF Bounds
<1>0. /\ Types /\ Query(r, k) \in QueryType
  BY ReqFacts, ElementOfSeq DEF Query
<1>1. \A e \in Query(r, k).left : [Query(r, k) EXCEPT !.left = @ \ {e}] \in QueryType
  BY <1>0 DEF QueryType
<1>2. [at |-> "cut", left |-> {}] \in QueryType
  BY DEF QueryType
<1>3. [at |-> "drained", left |-> {}] \in QueryType
  BY DEF QueryType
<1>4. [at |-> "send", left |-> saved \cap reqs[r].filters[k].matches] \in QueryType
  BY <1>0 DEF Types, QueryType
<1>5. CASE SendResult(r, k)
  BY <1>1, <1>2, <1>5 DEF SendResult
<1> QED
  BY <1>2, <1>3, <1>4, <1>5 DEF RunQuery, Search, QueryDrained, QueryCanceled

(* A query goroutine moves on. *)
LEMMA QueryBounds ==
    ASSUME Bounds, NEW r \in Reqs, NEW k \in DOMAIN reqs[r].queries, RunQuery(r, k)
    PROVE  Bounds'
<1> USE DEF Bounds
<1>0. /\ Types /\ reqs[r] \in ReqType /\ Query(r, k) \in QueryType
      /\ Query(r, k) = reqs[r].queries[k]
  BY ReqFacts, ElementOfSeq DEF Query
<1>1. PICK q \in QueryType : SetQuery(r, k, q)
  BY QueryMoves
<1>2. /\ reqs' \in Seq(ReqType) /\ Len(reqs') = Len(reqs) /\ Reqs' = Reqs
      /\ Len(reqs'[r].queries) = Len(reqs[r].queries)
      /\ reqs'[r] = [reqs[r] EXCEPT !.queries = reqs'[r].queries]
      /\ \A p \in Reqs : p # r => reqs'[p] = reqs[p]
  BY <1>0, <1>1, QuerySet
<1>3. /\ UNCHANGED <<saved, conn, reader, listeners, steady, due>>
      /\ sent' \in [Conns -> SUBSET (Subs \X Events)]
  <2>1. CASE SendResult(r, k)
    <3>1. /\ UNCHANGED <<saved, conn, reader, listeners, steady, due>>
          /\ \/ UNCHANGED sent
             \/ \E e \in Query(r, k).left : Write(reqs[r].conn, reqs[r].sub, e)
      BY <2>1 DEF SendResult, ghosts
    <3>2. Query(r, k).left \subseteq Events /\ reqs[r].conn \in Conns /\ reqs[r].sub \in Subs
      BY <1>0 DEF QueryType, ReqType
    <3> QED
      BY <3>1, <3>2 DEF Write, Types
  <2> QED
    BY <2>1 DEF RunQuery, Search, QueryDrained, QueryCanceled, ghosts, Types
<1>4. \A p \in Reqs : /\ reqs'[p].conn = reqs[p].conn
                      /\ reqs'[p].filters = reqs[p].filters
                      /\ Len(reqs'[p].queries) = Len(reqs[p].queries)
  BY <1>0, <1>2 DEF ReqType
<1>5. Types'
  BY <1>2, <1>3 DEF Types
<1>6. Received'
  BY <1>2, <1>3 DEF Received
<1>7. Handled'
  BY <1>2, <1>3, <1>4 DEF Handled
<1>8. Muted'
  BY <1>3, <1>4 DEF Muted, Handled
<1> QED
  BY <1>5, <1>6, <1>7, <1>8

(* CLOSE. *)
LEMMA CloseBounds ==
    ASSUME Bounds, NEW c \in Conns, NEW s \in Subs, RemoveListenerId(c, s)
    PROVE  Bounds'
<1> USE DEF Bounds
<1> DEFINE r == listeners[c][s]  x == [reqs[r] EXCEPT !.canceled = TRUE]
<1>0. r \in Reqs /\ Types
  BY DEF RemoveListenerId, Received
<1>1. /\ x \in ReqType /\ reqs' = [reqs EXCEPT ![r] = x]
      /\ x.conn = reqs[r].conn /\ x.filters = reqs[r].filters
      /\ x.queries = reqs[r].queries
  BY <1>0, ReqFacts DEF RemoveListenerId, ReqType
<1> HIDE DEF x
<1>2. /\ reqs' \in Seq(ReqType) /\ Len(reqs') = Len(reqs) /\ Reqs' = Reqs
      /\ reqs'[r] = x /\ \A p \in Reqs : p # r => reqs'[p] = reqs[p]
  BY <1>0, <1>1, ReqSet
<1>3. /\ UNCHANGED <<saved, conn, reader, sent, steady, due>>
      /\ listeners' = [listeners EXCEPT ![c][s] = None]
  BY DEF RemoveListenerId, ghosts
<1>4. Types'
  BY <1>2, <1>3 DEF Types
<1>5. Received'
  BY <1>2, <1>3 DEF Received, Types
<1>6. \A p \in Reqs : /\ reqs'[p].conn = reqs[p].conn
                      /\ reqs'[p].filters = reqs[p].filters
                      /\ reqs'[p].queries = reqs[p].queries
  BY <1>1, <1>2
<1>7. Handled'
  BY <1>2, <1>3, <1>6 DEF Handled
<1>8. Muted'
  BY <1>3, <1>6 DEF Muted, Handled
<1> QED
  BY <1>4, <1>5, <1>7, <1>8

(* REQ, up to its listener. *)
LEMMA ReqArrives ==
    ASSUME Bounds, NEW c \in Conns, NEW s \in Subs, NEW fs \in ReqFilters, Req(c, s, fs)
    PROVE  /\ Bounds'
           /\ Reqs' = Reqs \cup {Len(reqs) + 1} /\ Len(reqs) + 1 \notin Reqs
           /\ \A p \in Reqs : reqs'[p] = reqs[p]
           /\ reqs'[Len(reqs) + 1] = [conn |-> c, sub |-> s, filters |-> fs,
                queries |-> <<>>, wg |-> 0, canceled |-> FALSE]
<1> USE DEF Bounds
<1> DEFINE n == Len(reqs) + 1
           x == [conn |-> c, sub |-> s, filters |-> fs, queries |-> <<>>,
                 wg |-> 0, canceled |-> FALSE]
           y == [reader[c] EXCEPT !.at = "filter", !.req = n]
<1>0. Types /\ Len(reqs) \in Nat /\ reqs \in Seq(ReqType) /\ Reqs = 1..Len(reqs)
  BY LenProperties DEF Types, Reqs
<1>1. x \in ReqType /\ Len(x.queries) = 0 /\ x.conn = c /\ x.queries = <<>> /\ x.filters = fs
  BY DEF ReqType
<1>11. n \in ReqNos /\ n <= MaxReqs
  BY <1>0, SessionAssumption DEF Req, ReqNos
<1>2. /\ reqs' = Append(reqs, x) /\ reader' = [reader EXCEPT ![c] = y]
      /\ due' = [due EXCEPT ![n] = saved]
      /\ UNCHANGED <<saved, conn, listeners, sent, steady>>
      /\ conn[c].offenses <= IgnoreAfter
  BY DEF Req, Hears
<1>3. y \in ReaderType /\ y.at = "filter" /\ y.req = n /\ y.hit = reader[c].hit
  BY <1>0, <1>11 DEF Types, ReaderType
<1> HIDE DEF x, y
<1>4. /\ reqs' \in Seq(ReqType) /\ Len(reqs') = n /\ Reqs' = 1..n
      /\ reqs'[n] = x /\ \A p \in Reqs : reqs'[p] = reqs[p]
  BY <1>0, <1>1, <1>2 DEF Reqs
<1>5. Touches(c) /\ reader'[c] = y
  BY <1>0, <1>2, <1>3, ReaderSet
<1>6. Types'
  BY <1>0, <1>2, <1>4, <1>5, <1>11 DEF Types, Touches
<1>7. Received'
  BY <1>0, <1>2, <1>3, <1>4, <1>5 DEF Received, Touches
<1>8. Len(fs) \in 1..MaxFilters
  BY SessionAssumption
<1>9. Handled'
  BY <1>0, <1>1, <1>3, <1>4, <1>5, <1>8 DEF Handled, Touches
<1>10. Muted'
  <2>1. conn[c].offenses <= IgnoreAfter + 0
    BY <1>0, <1>2, SessionAssumption DEF Types, ConnType
  <2>2. \A d \in Conns \ {c} : reader[d].at = "filter" => reqs'[reader[d].req] = reqs[reader[d].req]
    BY <1>4 DEF Handled
  <2>3. conn[c].offenses <= IgnoreAfter + (IF reader'[c].at = "filter"
                  THEN Len(reqs'[reader'[c].req].queries) ELSE MaxFilters)
    BY <1>1, <1>3, <1>4, <1>5, <2>1
  <2> QED
    BY <1>2, <1>5, <2>2, <2>3 DEF Muted, Touches
<1> QED
  BY <1>0, <1>4, <1>6, <1>7, <1>9, <1>10 DEF x

(* The handling of one filter after the other counts the offenses of the    *)
(* filters handled, and stops where the REQ ends.                           *)
LEMMA FilterBounds ==
    ASSUME Bounds, NEW c \in Conns,
           HandleFilter(c) \/ RejectFilter(c) \/ SetListener(c)
    PROVE  Bounds'
<1> USE DEF Bounds
<1> DEFINE r == reader[c].req
<1>0. /\ Types /\ Received /\ reader[c].at = "filter" /\ r \in Reqs /\ reqs[r].conn = c
      /\ reqs[r] \in ReqType /\ conn[c] \in ConnType
      /\ Len(reqs[r].filters) \in 1..MaxFilters /\ Len(reqs[r].queries) \in Nat
      /\ conn[c].offenses <= IgnoreAfter + Len(reqs[r].queries)
      /\ conn[c].offenses <= IgnoreAfter + MaxFilters
  BY ReqFacts, OffensesBounded
     DEF HandleFilter, RejectFilter, SetListener, Handled, Muted, Types, Received
<1>1. /\ Reader("read") \in ReaderType /\ Reader("read").req = None
      /\ Reader("read").hit = {} /\ Reader("read").at = "read"
  BY DEF Reader, ReaderType, None
<1>2. \A d \in Conns \ {c} : reader[d].at = "filter" =>
            reader[d].req \in Reqs /\ reader[d].req # r
  BY <1>0 DEF Handled
<1>3. CASE HandleFilter(c)
  <2> DEFINE f == reqs[r].filters[Len(reqs[r].queries) + 1]
             q == [at |-> IF f.fate = "fails" THEN "cut" ELSE "search", left |-> {}]
             add == IF f.fate = "fails" THEN 1 ELSE 0
             qs == Append(reqs[r].queries, q)
             x == [reqs[r] EXCEPT !.queries = qs, !.wg = @ + 1]
             y == [conn[c] EXCEPT !.offenses = @ + add]
  <2>1. /\ reqs' = [reqs EXCEPT ![r] = x]
        /\ conn' = [conn EXCEPT ![c] = y]
        /\ Len(reqs[r].queries) < Len(reqs[r].filters)
        /\ UNCHANGED <<saved, reader, listeners, sent, steady, due>>
    BY <1>3 DEF HandleFilter, ghosts
  <2>2. q \in QueryType /\ add \in 0..1
    BY DEF QueryType
  <2> HIDE DEF q, add
  <2>3. qs \in Seq(QueryType) /\ Len(qs) = Len(reqs[r].queries) + 1
    BY <1>0, <2>2 DEF ReqType
  <2> HIDE DEF qs
  <2>4. x \in ReqType /\ x.conn = c /\ x.queries = qs /\ x.filters = reqs[r].filters
    <3>1. reqs[r].wg + 1 \in Nat
      BY <1>0 DEF ReqType
    <3> QED
      BY <1>0, <2>3, <3>1 DEF ReqType
  <2>5. y \in ConnType /\ y.offenses = conn[c].offenses + add
    BY <1>0, <2>2 DEF ConnType
  <2> HIDE DEF x, y
  <2>6. /\ reqs' \in Seq(ReqType) /\ Len(reqs') = Len(reqs) /\ Reqs' = Reqs
        /\ reqs'[r] = x /\ \A p \in Reqs : p # r => reqs'[p] = reqs[p]
    BY <1>0, <2>1, <2>4, ReqSet
  <2>7. Touches(c) /\ conn'[c] = y
    BY <1>0, <2>1, <2>5, ConnSet
  <2>8. Types'
    BY <1>0, <2>1, <2>6, <2>7 DEF Types, Touches
  <2>9. Received'
    BY <2>1, <2>6 DEF Received
  <2>12. Len(qs) <= Len(reqs[r].filters)
    BY <1>0, <2>1, <2>3
  <2>10. Handled'
    <3> SUFFICES ASSUME NEW d \in Conns, reader[d].at = "filter"
                 PROVE  /\ reader[d].req \in Reqs /\ reqs'[reader[d].req].conn = d
                        /\ Len(reqs'[reader[d].req].queries)
                             <= Len(reqs'[reader[d].req].filters)
      BY <2>1, <2>6 DEF Handled
    <3>1. CASE d = c
      BY <1>0, <2>4, <2>6, <2>12, <3>1
    <3>2. CASE d # c
      BY <1>2, <2>6, <3>2 DEF Handled
    <3> QED
      BY <3>1, <3>2
  <2>11. Muted'
    <3>2. conn[c].offenses \in Nat /\ IgnoreAfter \in Nat
      BY <1>0, SessionAssumption DEF ConnType
    <3>1. y.offenses <= IgnoreAfter + Len(qs)
      <4>1. /\ conn[c].offenses <= IgnoreAfter + Len(reqs[r].queries)
            /\ Len(reqs[r].queries) \in Nat
        BY <1>0
      <4>2. add <= 1 /\ add \in Nat
        BY <2>2
      <4>3. y.offenses = conn[c].offenses + add
        BY <2>5
      <4> QED
        BY <2>3, <3>2, <4>1, <4>2, <4>3
    <3> QED
      BY <1>0, <1>2, <2>1, <2>4, <2>6, <2>7, <3>1 DEF Muted, Touches
  <2> QED
    BY <2>8, <2>9, <2>10, <2>11
<1>4. CASE RejectFilter(c)
  <2> DEFINE f == reqs[r].filters[Len(reqs[r].queries) + 1]
             x == [reqs[r] EXCEPT !.canceled = f.fate # "blocked"]
  <2>1. /\ reqs' = [reqs EXCEPT ![r] = x]
        /\ reader' = [reader EXCEPT ![c] = Reader("read")]
        /\ UNCHANGED <<saved, conn, listeners, sent, steady, due>>
    BY <1>4 DEF RejectFilter, ghosts
  <2>2. /\ x \in ReqType /\ x.conn = c /\ x.queries = reqs[r].queries
        /\ x.filters = reqs[r].filters
    BY <1>0 DEF ReqType
  <2> HIDE DEF x
  <2>3. /\ reqs' \in Seq(ReqType) /\ Len(reqs') = Len(reqs) /\ Reqs' = Reqs
        /\ reqs'[r] = x /\ \A p \in Reqs : p # r => reqs'[p] = reqs[p]
    BY <1>0, <2>1, <2>2, ReqSet
  <2>4. Touches(c) /\ reader'[c] = Reader("read")
    BY <1>0, <1>1, <2>1, ReaderSet
  <2>5. Types'
    BY <1>0, <2>1, <2>3, <2>4 DEF Types, Touches
  <2>6. Received'
    BY <1>1, <2>1, <2>3, <2>4 DEF Received, Touches
  <2>7. Handled'
    BY <1>1, <1>2, <2>3, <2>4 DEF Handled, Touches
  <2>8. Muted'
    BY <1>0, <1>1, <1>2, <2>1, <2>3, <2>4 DEF Muted, Touches
  <2> QED
    BY <2>5, <2>6, <2>7, <2>8
<1>5. CASE SetListener(c)
  <2>1. Touches(c) /\ reader'[c] = Reader("read")
    BY <1>0, <1>1, <1>5, ReaderSet DEF SetListener
  <2>2. /\ listeners' \in [Conns -> [Subs -> ReqNos \cup {None}]]
        /\ \A d \in Conns, s \in Subs : listeners'[d][s] \in Reqs \cup {None}
    <3>1. listeners' = [listeners EXCEPT ![c][reqs[r].sub] = r]
      BY <1>5 DEF SetListener
    <3>2. r \in ReqNos /\ reqs[r].sub \in Subs
      BY <1>0, ReqFacts DEF ReqType
    <3> QED
      BY <1>0, <3>1, <3>2 DEF Types, Received
  <2> QED
    BY <1>0, <1>1, <1>5, <2>1, <2>2, TouchBounds DEF SetListener, Types, Received, ghosts
<1> QED
  BY <1>3, <1>4, <1>5

(* Every step preserves Bounds. *)
LEMMA StepBounds == ASSUME Bounds, [Next]_vars PROVE Bounds'
<1>1. ASSUME NEW c \in Conns, Message(c)
      PROVE  Bounds'
  BY <1>1, LifeBounds, EventBounds, CloseBounds, ReqArrives, RestartBounds
     DEF Message, AuthPanics
<1>2. ASSUME NEW c \in Conns, Handle(c)
      PROVE  Bounds'
  BY <1>2, FilterBounds, EventBounds DEF Handle
<1>3. CASE UNCHANGED vars
  BY <1>3 DEF vars, ghosts, Bounds, Types, Received, Handled, Muted, Reqs
<1> QED
  BY <1>1, <1>2, <1>3, LifeBounds, QueryBounds, RestartBounds DEF Next

(* Types, the REQ a reader is at, and the limit of offenses hold in every   *)
(* state (envelopes.go:133-182, wsprocess.go:28).                           *)
THEOREM BoundsInvariant == Spec => []Bounds
<1>1. Init => Bounds
  BY InitBounds
<1>2. Bounds /\ [Next]_vars => Bounds'
  BY StepBounds
<1> QED
  BY <1>1, <1>2, PTL DEF Spec

(* The state is well typed; in particular a client's offenses stop         *)
(* counting once its messages are dropped, however many filters a REQ      *)
(* carries (wsprocess.go:28, handlefilter.go:62).                          *)
THEOREM Typed == Spec => []TypeOK
<1>1. Bounds => TypeOK
  <2> SUFFICES ASSUME Bounds PROVE TypeOK
    OBVIOUS
  <2>1. Types /\ Received
    BY DEF Bounds
  <2>2. \A c \in Conns : conn[c].offenses \in 0..(IgnoreAfter + MaxFilters)
    BY OffensesBounded, SessionAssumption
  <2>3. \A c \in Conns :
          /\ conn[c] \in ConnType /\ reader[c] \in ReaderType
          /\ listeners[c] \in [Subs -> Reqs \cup {None}]
    BY <2>1 DEF Types, Received
  <2>4. \A c \in Conns : conn[c].sock \in {"none", "open", "broken"}
          /\ conn[c].watch \in {"off", "on", "kill"}
          /\ conn[c].ctx \in BOOLEAN
          /\ conn[c].key \in Keys \cup {NoKey}
    BY <2>3 DEF ConnType
  <2>5. \A c \in Conns :
          /\ reader[c].at \in {"none", "read", "filter", "add", "cast", "gone"}
          /\ reader[c].event \in SUBSET Events
          /\ reader[c].todo \in SUBSET Slots
    BY <2>3 DEF ReaderType
  <2>6. \A r \in Reqs :
          /\ reqs[r].conn \in Conns /\ reqs[r].sub \in Subs
          /\ reqs[r].filters \in ReqFilters /\ reqs[r].queries \in Seq(QueryType)
          /\ reqs[r].wg \in Nat /\ reqs[r].canceled \in BOOLEAN
    BY <2>1, ReqFacts DEF ReqType
  <2> QED
    BY <2>1, <2>2, <2>3, <2>4, <2>5, <2>6 DEF TypeOK, Types, Received
<1> QED
  BY <1>1, BoundsInvariant, PTL

-----------------------------------------------------------------------------
(***************************************************************************)
(* What no step takes back, short of a restart.                            *)
(***************************************************************************)
Lasting ==
    /\ Reqs \subseteq Reqs' /\ saved \subseteq saved'
    /\ \A r \in Reqs : /\ reqs'[r].conn = reqs[r].conn
                       /\ reqs'[r].sub = reqs[r].sub
                       /\ reqs'[r].filters = reqs[r].filters
    /\ \A c \in Conns :
          /\ sent[c] \subseteq sent'[c]
          /\ conn[c].sock # "none" => conn'[c].sock # "none"
          /\ conn'[c].sock = "open" => conn[c].sock \in {"open", "none"}
          /\ conn[c].sock # "none" /\ conn[c].key # NoKey => conn'[c].key = conn[c].key

(* A step that leaves the REQs and what was sent alone, and may connect.   *)
LEMMA LifeLasts ==
    ASSUME Bounds, NEW c \in Conns,
           \/ Connect(c) \/ Breaks(c) \/ ReaderReturns(c) \/ Watcher(c)
           \/ \E k \in Keys : Auth(c, k)
    PROVE  Lasting /\ UNCHANGED <<reqs, sent, saved, due, steady>>
<1>1. /\ UNCHANGED <<reqs, sent, saved, due, steady>> /\ Reqs' = Reqs
  BY DEF Connect, Breaks, ReaderReturns, Watcher, PingFails, RemoveListener, Auth, ghosts, Reqs
<1>2. conn \in [Conns -> ConnType] /\ conn[c] \in ConnType
  BY DEF Bounds, Types
<1>3. \A d \in Conns :
          /\ conn[d].sock # "none" => conn'[d].sock # "none"
          /\ conn'[d].sock = "open" => conn[d].sock \in {"open", "none"}
          /\ conn[d].sock # "none" /\ conn[d].key # NoKey => conn'[d].key = conn[d].key
  <2>1. CASE Connect(c)
    BY <1>2, <2>1 DEF Connect, NewConn
  <2>2. CASE Breaks(c)
    BY <1>2, <2>2 DEF Breaks, ConnType
  <2>3. CASE ReaderReturns(c)
    BY <1>2, <2>3 DEF ReaderReturns, ConnType
  <2>4. CASE Watcher(c)
    BY <1>2, <2>4 DEF Watcher, PingFails, RemoveListener, ConnType
  <2>5. CASE \E k \in Keys : Auth(c, k)
    BY <1>2, <2>5 DEF Auth, ConnType
  <2> QED
    BY <2>1, <2>2, <2>3, <2>4, <2>5
<1> QED
  BY <1>1, <1>3 DEF Lasting

(* A step that leaves the connections alone. *)
LEMMA LastsIf ==
    ASSUME \A c \in Conns :
              conn'[c].sock = conn[c].sock /\ conn'[c].key = conn[c].key,
           Reqs \subseteq Reqs', saved \subseteq saved', Bounds,
           \A r \in Reqs : /\ reqs'[r].conn = reqs[r].conn
                           /\ reqs'[r].sub = reqs[r].sub
                           /\ reqs'[r].filters = reqs[r].filters,
           \A c \in Conns : sent[c] \subseteq sent'[c]
    PROVE  Lasting
  BY DEF Lasting, Bounds, Types, ConnType

(* An EVENT changes no REQ, no connection and no listener, and takes        *)
(* nothing back (adding.go:14-64, broadcasting.go:16-57).                   *)
LEMMA EventLasts ==
    ASSUME Bounds, NEW c \in Conns,
           \/ \E e \in Events : SaveEvent(c, e)
           \/ BroadcastEvent(c) \/ Visit(c) \/ Serve(c) \/ BroadcastReturns(c)
    PROVE  Lasting /\ UNCHANGED <<reqs, conn, listeners>>
<1>1. UNCHANGED <<reqs, conn, listeners>> /\ Reqs' = Reqs /\ saved \subseteq saved'
  BY DEF SaveEvent, BroadcastEvent, Visit, Serve, BroadcastReturns, Reqs
<1>2. \A d \in Conns : sent[d] \subseteq sent'[d]
  <2>1. CASE Serve(c)
    <3>1. PICK r \in reader[c].hit, e \in reader[c].event :
            Write(reqs[r].conn, reqs[r].sub, e) \/ UNCHANGED sent
      BY <2>1 DEF Serve
    <3> QED
      BY <3>1 DEF Write, Bounds, Types
  <2>2. CASE ~Serve(c)
    BY <2>2 DEF SaveEvent, BroadcastEvent, Visit, BroadcastReturns, ghosts
  <2> QED
    BY <2>1, <2>2
<1> QED
  BY <1>1, <1>2, LastsIf

(* A query's goroutine changes its own query and what its client was sent   *)
(* (handlefilter.go:71-137).                                                *)
LEMMA QueryLasts ==
    ASSUME Bounds, NEW r \in Reqs, NEW k \in DOMAIN reqs[r].queries, RunQuery(r, k)
    PROVE  /\ Lasting /\ UNCHANGED <<saved, conn, reader, listeners, steady, due>>
           /\ Reqs' = Reqs
           /\ \A p \in Reqs : /\ p # r => reqs'[p] = reqs[p]
                              /\ Len(reqs'[p].queries) = Len(reqs[p].queries)
           /\ \A j \in DOMAIN reqs[r].queries :
                 j # k => reqs'[r].queries[j] = reqs[r].queries[j]
           /\ SendResult(r, k) \/ UNCHANGED sent
<1> USE DEF Bounds
<1>0. /\ Types /\ reqs[r] \in ReqType /\ Query(r, k) \in QueryType
      /\ Query(r, k) = reqs[r].queries[k]
  BY ReqFacts, ElementOfSeq DEF Query
<1>1. PICK q \in QueryType : SetQuery(r, k, q)
  BY QueryMoves
<1>2. /\ Reqs' = Reqs
      /\ Len(reqs'[r].queries) = Len(reqs[r].queries)
      /\ \A j \in DOMAIN reqs[r].queries :
            j # k => reqs'[r].queries[j] = reqs[r].queries[j]
      /\ reqs'[r] = [reqs[r] EXCEPT !.queries = reqs'[r].queries]
      /\ \A p \in Reqs : p # r => reqs'[p] = reqs[p]
  BY <1>0, <1>1, QuerySet
<1>3. /\ UNCHANGED <<saved, conn, reader, listeners, steady, due>>
      /\ SendResult(r, k) \/ UNCHANGED sent
  BY DEF RunQuery, Search, SendResult, QueryDrained, QueryCanceled, ghosts
<1>4. \A d \in Conns : sent[d] \subseteq sent'[d]
  <2>1. CASE SendResult(r, k)
    <3>1. \/ UNCHANGED sent
          \/ \E e \in Query(r, k).left : Write(reqs[r].conn, reqs[r].sub, e)
      BY <2>1 DEF SendResult
    <3> QED
      BY <3>1 DEF Write, Types
  <2> QED
    BY <1>3, <2>1
<1>5. \A p \in Reqs : /\ reqs'[p].conn = reqs[p].conn
                      /\ reqs'[p].sub = reqs[p].sub
                      /\ reqs'[p].filters = reqs[p].filters
                      /\ Len(reqs'[p].queries) = Len(reqs[p].queries)
  BY <1>0, <1>2 DEF ReqType
<1> QED
  BY <1>2, <1>3, <1>4, <1>5, LastsIf

(* A CLOSE empties one slot of the listeners and takes nothing back         *)
(* (listener.go:58-69).                                                     *)
LEMMA CloseLasts ==
    ASSUME Bounds, NEW c \in Conns, NEW s \in Subs, RemoveListenerId(c, s)
    PROVE  /\ Lasting /\ UNCHANGED <<saved, conn, reader, sent, steady, due>>
           /\ Reqs' = Reqs
           /\ \A p \in Reqs : reqs'[p].queries = reqs[p].queries
           /\ listeners' = [listeners EXCEPT ![c][s] = None]
<1> DEFINE r == listeners[c][s]  x == [reqs[r] EXCEPT !.canceled = TRUE]
<1>0. r \in Reqs /\ Types
  BY DEF RemoveListenerId, Bounds, Received
<1>1. /\ x \in ReqType /\ reqs' = [reqs EXCEPT ![r] = x]
      /\ x.conn = reqs[r].conn /\ x.filters = reqs[r].filters
      /\ x.queries = reqs[r].queries /\ x.sub = reqs[r].sub
  BY <1>0, ReqFacts DEF RemoveListenerId, ReqType
<1> HIDE DEF x
<1>2. /\ Reqs' = Reqs
      /\ reqs'[r] = x /\ \A p \in Reqs : p # r => reqs'[p] = reqs[p]
  BY <1>0, <1>1, ReqSet
<1>3. /\ UNCHANGED <<saved, conn, reader, sent, steady, due>>
      /\ listeners' = [listeners EXCEPT ![c][s] = None]
  BY DEF RemoveListenerId, ghosts
<1> QED
  BY <1>1, <1>2, <1>3, LastsIf

(* A new REQ leaves the others as they are (envelopes.go:133-144). *)
LEMMA ReqLasts ==
    ASSUME Bounds, NEW c \in Conns, NEW s \in Subs, NEW fs \in ReqFilters, Req(c, s, fs)
    PROVE  /\ Lasting /\ UNCHANGED <<saved, conn, listeners, sent, steady>>
           /\ due' = [due EXCEPT ![Len(reqs) + 1] = saved]
           /\ Touches(c) /\ reader'[c].at = "filter"
           /\ reader'[c].req = Len(reqs) + 1 /\ reader'[c].hit = reader[c].hit
<1>1. /\ UNCHANGED <<saved, conn, listeners, sent, steady>>
      /\ due' = [due EXCEPT ![Len(reqs) + 1] = saved]
      /\ reader' = [reader EXCEPT ![c].at = "filter", ![c].req = Len(reqs) + 1]
  BY DEF Req
<1>2. reader \in [Conns -> ReaderType] /\ reader' \in [Conns -> ReaderType]
      /\ conn' \in [Conns -> ConnType]
  BY ReqArrives DEF Bounds, Types
<1>3. Touches(c) /\ reader'[c].at = "filter"
           /\ reader'[c].req = Len(reqs) + 1 /\ reader'[c].hit = reader[c].hit
  BY <1>1, <1>2 DEF Touches, ReaderType
<1>4. Lasting
  BY <1>1, ReqArrives, LastsIf
<1> QED
  BY <1>1, <1>3, <1>4

(* A filter adds at most a query to the REQ being handled                   *)
(* (handlefilter.go:28-72).                                                 *)
LEMMA FilterLasts ==
    ASSUME Bounds, NEW c \in Conns,
           HandleFilter(c) \/ RejectFilter(c)
    PROVE  LET r == reader[c].req IN
           /\ Lasting /\ UNCHANGED <<saved, listeners, sent, steady, due>>
           /\ Reqs' = Reqs /\ r \in Reqs
           /\ \A p \in Reqs : p # r => reqs'[p] = reqs[p]
           /\ \A d \in Conns : conn'[d].sock = conn[d].sock /\ conn'[d].key = conn[d].key
           /\ \/ /\ HandleFilter(c) /\ UNCHANGED reader
                 /\ \E q \in QueryType :
                      /\ q.at \in {"search", "cut"}
                      /\ reqs'[r].queries = Append(reqs[r].queries, q)
              \/ /\ reader' = [reader EXCEPT ![c] = Reader("read")]
                 /\ reqs'[r].queries = reqs[r].queries
<1> DEFINE r == reader[c].req
           f == reqs[r].filters[Len(reqs[r].queries) + 1]
<1>0. Types /\ r \in Reqs /\ reqs[r] \in ReqType /\ conn \in [Conns -> ConnType]
  BY ReqFacts DEF HandleFilter, RejectFilter, Bounds, Handled, Types
<1>1. CASE HandleFilter(c)
  <2> DEFINE q == [at |-> IF f.fate = "fails" THEN "cut" ELSE "search", left |-> {}]
             add == IF f.fate = "fails" THEN 1 ELSE 0
             qs == Append(reqs[r].queries, q)
             x == [reqs[r] EXCEPT !.queries = qs, !.wg = @ + 1]
  <2>1. /\ reqs' = [reqs EXCEPT ![r] = x]
        /\ conn' = [conn EXCEPT ![c].offenses = @ + add]
        /\ UNCHANGED <<saved, reader, listeners, sent, steady, due>>
    BY <1>1 DEF HandleFilter, ghosts
  <2>2. q \in QueryType /\ q.at \in {"search", "cut"}
    BY DEF QueryType
  <2> HIDE DEF q, add
  <2>3. qs \in Seq(QueryType)
    BY <1>0, <2>2 DEF ReqType
  <2>4. x \in ReqType /\ x.conn = reqs[r].conn /\ x.sub = reqs[r].sub
        /\ x.filters = reqs[r].filters /\ x.queries = qs
    <3>1. reqs[r].wg + 1 \in Nat
      BY <1>0 DEF ReqType
    <3> HIDE DEF qs
    <3> QED
      BY <1>0, <2>3, <3>1 DEF ReqType
  <2> HIDE DEF x, qs
  <2>5. /\ Reqs' = Reqs /\ reqs'[r] = x /\ \A p \in Reqs : p # r => reqs'[p] = reqs[p]
    BY <1>0, <2>1, <2>4, ReqSet
  <2>6. \A d \in Conns : conn'[d].sock = conn[d].sock /\ conn'[d].key = conn[d].key
    BY <1>0, <2>1 DEF ConnType
  <2>7. Lasting
    BY <2>1, <2>4, <2>5, <2>6, LastsIf
  <2>8. \E z \in QueryType : z.at \in {"search", "cut"}
                  /\ reqs'[r].queries = Append(reqs[r].queries, z)
    BY <2>2, <2>4, <2>5 DEF qs
  <2> QED
    BY <1>0, <1>1, <2>1, <2>5, <2>6, <2>7, <2>8
<1>2. CASE RejectFilter(c)
  <2> DEFINE x == [reqs[r] EXCEPT !.canceled = f.fate # "blocked"]
  <2>1. /\ reqs' = [reqs EXCEPT ![r] = x]
        /\ reader' = [reader EXCEPT ![c] = Reader("read")]
        /\ UNCHANGED <<saved, conn, listeners, sent, steady, due>>
    BY <1>2 DEF RejectFilter, ghosts
  <2>2. /\ x \in ReqType /\ x.conn = reqs[r].conn /\ x.sub = reqs[r].sub
        /\ x.filters = reqs[r].filters /\ x.queries = reqs[r].queries
    BY <1>0 DEF ReqType
  <2> HIDE DEF x
  <2>3. /\ Reqs' = Reqs /\ reqs'[r] = x /\ \A p \in Reqs : p # r => reqs'[p] = reqs[p]
    BY <1>0, <2>1, <2>2, ReqSet
  <2>4. Lasting
    BY <2>1, <2>2, <2>3, LastsIf
  <2> QED
    BY <1>0, <2>1, <2>2, <2>3, <2>4
<1> QED
  BY <1>1, <1>2

-----------------------------------------------------------------------------
(***************************************************************************)
(* Who takes part: a connection that was never opened has no reader and    *)
(* got nothing; a REQ is that of an authorized client; a REQ listens once  *)
(* all its filters were handled, and is never handled again.               *)
(***************************************************************************)
Handling(r) == \E c \in Conns : reader[c].at = "filter" /\ reader[c].req = r

Connected ==
    \A c \in Conns :
        /\ conn[c].sock = "none" => reader[c].at = "none" /\ sent[c] = {}
        /\ reader[c].at # "cast" => reader[c].hit = {}
        /\ reader[c].at \in {"add", "cast"} => \E e \in Events : reader[c].event = {e}
        /\ \A q, r \in reader[c].hit : q = r

Authorized ==
    \A r \in Reqs : conn[reqs[r].conn].sock # "none" /\ IsAuthed(reqs[r].conn)

Listened ==
    \A c \in Conns, s \in Subs, r \in Reqs : listeners[c][s] = r =>
        /\ reqs[r].conn = c /\ reqs[r].sub = s
        /\ Len(reqs[r].queries) = Len(reqs[r].filters)
        /\ ~Handling(r)

Past == \A c \in Conns : \A r \in steady[c] : ~Handling(r)

Standing == Connected /\ Authorized /\ Listened /\ Past

(* The client of a REQ stays authorized. *)
LEMMA AuthorizedLasts ==
    ASSUME Bounds, Authorized, Lasting, Reqs' = Reqs
    PROVE  Authorized'
  BY ReqFacts DEF Authorized, Lasting, IsAuthed, Bounds, ReqType

(* A step after which nobody handles a REQ that was not handled before.    *)
LEMMA ListenedLasts ==
    ASSUME Bounds, Listened, Past, Lasting, Reqs' = Reqs,
           \A p \in Reqs : Len(reqs'[p].queries) = Len(reqs[p].queries),
           \A d \in Conns : reader'[d].at = "filter" =>
                reader[d].at = "filter" /\ reader'[d].req = reader[d].req,
           \A d \in Conns, s \in Subs : listeners'[d][s] \in {listeners[d][s], None},
           \A d \in Conns : \A r \in steady'[d] :
                \/ r \in steady[d]
                \/ r # None /\ \E x \in Conns, s \in Subs : listeners[x][s] = r
    PROVE  Listened' /\ Past'
<1>1. \A r : Handling(r)' => Handling(r)
  BY DEF Handling
<1>2. \A d \in Conns, s \in Subs, r \in Reqs : listeners'[d][s] = r => listeners[d][s] = r
  BY ReqFacts DEF Bounds
<1>4. Listened'
  <2> SUFFICES ASSUME NEW d \in Conns, NEW s \in Subs, NEW r \in Reqs, listeners'[d][s] = r
               PROVE  /\ reqs'[r].conn = d /\ reqs'[r].sub = s
                      /\ Len(reqs'[r].queries) = Len(reqs'[r].filters)
                      /\ ~Handling(r)'
    BY DEF Listened
  <2>1. /\ reqs[r].conn = d /\ reqs[r].sub = s /\ ~Handling(r)
        /\ Len(reqs[r].queries) = Len(reqs[r].filters)
    BY <1>2 DEF Listened
  <2>2. /\ reqs'[r].conn = d /\ reqs'[r].sub = s /\ reqs'[r].filters = reqs[r].filters
    BY <2>1 DEF Lasting
  <2> QED
    BY <1>1, <2>1, <2>2
<1>3. Past'
  BY <1>1 DEF Past, Listened, Bounds, Received
<1> QED
  BY <1>3, <1>4

(* Connects, kills and AUTH keep listeners and keys in agreement. *)
LEMMA LifeStanding ==
    ASSUME Bounds, Standing, NEW c \in Conns,
           \/ Connect(c) \/ Breaks(c) \/ ReaderReturns(c) \/ Watcher(c)
           \/ \E k \in Keys : Auth(c, k)
    PROVE  Standing'
<1> USE DEF Standing
<1>0. /\ Lasting /\ UNCHANGED <<reqs, sent, saved, due, steady>> /\ Reqs' = Reqs
      /\ conn \in [Conns -> ConnType] /\ reader \in [Conns -> ReaderType]
      /\ listeners \in [Conns -> [Subs -> ReqNos \cup {None}]]
  BY LifeLasts DEF Reqs, Bounds, Types
<1>1. CASE Connect(c)
  <2>1. /\ \A d \in Conns \ {c} : conn'[d] = conn[d] /\ reader'[d] = reader[d]
        /\ conn'[c].sock = "open" /\ reader'[c] = Reader("read")
        /\ UNCHANGED listeners
    BY <1>0, <1>1 DEF Connect, NewConn
  <2>2. reader'[c].at = "read" /\ reader'[c].hit = {}
    BY <2>1 DEF Reader
  <2>3. Connected'
    BY <1>0, <2>1, <2>2 DEF Connected
  <2>4. Listened' /\ Past'
    BY <1>0, <2>1, <2>2, ListenedLasts
  <2> QED
    BY <1>0, <2>3, <2>4, AuthorizedLasts
<1>2. CASE ReaderReturns(c)
  <2>1. /\ UNCHANGED <<conn, listeners>>
        /\ \A d \in Conns \ {c} : reader'[d] = reader[d]
        /\ reader'[c] = Reader("gone") /\ reader[c].at = "read"
    BY <1>0, <1>2 DEF ReaderReturns
  <2>2. reader'[c].at = "gone" /\ reader'[c].hit = {}
    BY <2>1 DEF Reader
  <2>3. Connected'
    <3>1. UNCHANGED sent
      BY <1>0
    <3>2. conn[c].sock # "none"
      BY <2>1 DEF Connected
    <3> QED
      BY <2>1, <2>2, <3>1, <3>2 DEF Connected
  <2>4. Listened' /\ Past'
    BY <1>0, <2>1, <2>2, ListenedLasts
  <2> QED
    BY <1>0, <2>3, <2>4, AuthorizedLasts
<1>3. CASE Breaks(c) \/ Watcher(c) \/ \E k \in Keys : Auth(c, k)
  <2>1. UNCHANGED reader /\ \A d \in Conns : conn'[d].sock = "none" => conn[d].sock = "none"
    BY <1>0, <1>3 DEF Breaks, Watcher, PingFails, RemoveListener, Auth, ConnType
  <2>2. Connected'
    BY <1>0, <2>1 DEF Connected
  <2>3. \A d \in Conns, s \in Subs : listeners'[d][s] \in {listeners[d][s], None}
    BY <1>0, <1>3 DEF Breaks, Watcher, PingFails, RemoveListener, Auth, NoListener
  <2>4. Listened' /\ Past'
    BY <1>0, <2>1, <2>3, ListenedLasts
  <2> QED
    BY <1>0, <2>2, <2>4, AuthorizedLasts
<1> QED
  BY <1>1, <1>2, <1>3

(* The steps of a broadcast keep its place and its listener in agreement    *)
(* with what it has passed.                                                 *)
LEMMA EventStanding ==
    ASSUME Bounds, Standing, NEW c \in Conns,
           \/ \E e \in Events : SaveEvent(c, e)
           \/ BroadcastEvent(c) \/ Visit(c) \/ Serve(c) \/ BroadcastReturns(c)
    PROVE  Standing'
<1> USE DEF Standing
<1>0. /\ Lasting /\ UNCHANGED <<reqs, conn, listeners>> /\ Reqs' = Reqs
      /\ reader \in [Conns -> ReaderType] /\ steady \in [Conns -> SUBSET ReqNos]
      /\ sent \in [Conns -> SUBSET (Subs \X Events)]
  BY EventLasts DEF Reqs, Bounds, Types
<1>1. /\ \A d \in Conns \ {c} : reader'[d] = reader[d]
      /\ reader[c].at \in {"read", "add", "cast"} /\ reader'[c].at \in {"read", "add", "cast"}
  <2>1. CASE \E e \in Events : SaveEvent(c, e)
    BY <1>0, <2>1 DEF SaveEvent, Hears, ReaderType
  <2>2. CASE BroadcastEvent(c) \/ Serve(c)
    BY <1>0, <2>2 DEF BroadcastEvent, Serve, ReaderType
  <2>3. CASE Visit(c)
    <3>1. PICK todo, hit : reader' = [reader EXCEPT ![c].todo = todo, ![c].hit = hit]
      BY <2>3 DEF Visit
    <3> QED
      BY <1>0, <2>3, <3>1 DEF Visit, ReaderType
  <2>4. CASE BroadcastReturns(c)
    BY <1>0, <2>4 DEF BroadcastReturns, Reader
  <2> QED
    BY <2>1, <2>2, <2>3, <2>4
<1>2. /\ reader'[c].at # "cast" => reader'[c].hit = {}
      /\ reader'[c].at \in {"add", "cast"} => \E e \in Events : reader'[c].event = {e}
      /\ \A q, r \in reader'[c].hit : q = r
  <2>1. ASSUME NEW e \in Events, SaveEvent(c, e)
        PROVE  reader'[c].at = "add" /\ reader'[c].event = {e} /\ reader'[c].hit = {}
    BY <1>0, <2>1 DEF Connected, SaveEvent, Hears, ReaderType
  <2>2. CASE BroadcastEvent(c)
    BY <1>0, <2>2 DEF Connected, BroadcastEvent, ReaderType
  <2>3. CASE Visit(c)
    <3>1. PICK slot \in reader[c].todo : reader' = [reader EXCEPT
              ![c].todo = @ \ {slot},
              ![c].hit = {listeners[slot[1]][slot[2]]} \ {None}]
      BY <2>3 DEF Visit
    <3>2. reader'[c].at = "cast" /\ reader'[c].event = reader[c].event /\ reader[c].at = "cast"
          /\ reader'[c].hit = {listeners[slot[1]][slot[2]]} \ {None}
      BY <1>0, <2>3, <3>1 DEF Visit, ReaderType
    <3> QED
      BY <3>2 DEF Connected
  <2>4. CASE Serve(c)
    BY <1>0, <2>4 DEF Connected, Serve, ReaderType
  <2>5. CASE BroadcastReturns(c)
    BY <1>0, <2>5 DEF BroadcastReturns, Reader
  <2> QED
    BY <2>1, <2>2, <2>3, <2>4, <2>5
<1>3. \A d \in Conns : conn[d].sock = "none" => sent'[d] = sent[d]
  <2>1. CASE Serve(c)
    <3>1. PICK r \in reader[c].hit, e \in reader[c].event :
            Write(reqs[r].conn, reqs[r].sub, e) \/ UNCHANGED sent
      BY <2>1 DEF Serve
    <3> QED
      BY <1>0, <3>1 DEF Write
  <2>2. CASE ~Serve(c)
    BY <2>2 DEF SaveEvent, BroadcastEvent, Visit, BroadcastReturns, ghosts
  <2> QED
    BY <2>1, <2>2
<1>4. Connected'
  BY <1>0, <1>1, <1>2, <1>3 DEF Connected
<1>5. \A d \in Conns : \A r \in steady'[d] :
                \/ r \in steady[d]
                \/ r # None /\ \E x \in Conns, s \in Subs : listeners[x][s] = r
  <2>1. CASE BroadcastEvent(c)
    BY <1>0, <2>1 DEF BroadcastEvent, Slots
  <2>2. CASE ~BroadcastEvent(c)
    BY <1>0, <2>2 DEF SaveEvent, Visit, Serve, BroadcastReturns, ghosts
  <2> QED
    BY <2>1, <2>2
<1>6. Listened' /\ Past'
  BY <1>0, <1>1, <1>5, ListenedLasts
<1> QED
  BY <1>0, <1>4, <1>6, AuthorizedLasts

(* The goroutines of queries do not touch what stands. *)
LEMMA QueryStanding ==
    ASSUME Bounds, Standing, NEW r \in Reqs, NEW k \in DOMAIN reqs[r].queries,
           RunQuery(r, k)
    PROVE  Standing'
<1> USE DEF Standing
<1>0. /\ Lasting /\ UNCHANGED <<saved, conn, reader, listeners, steady, due>>
      /\ Reqs' = Reqs
      /\ \A p \in Reqs : Len(reqs'[p].queries) = Len(reqs[p].queries)
      /\ SendResult(r, k) \/ UNCHANGED sent
  BY QueryLasts
<1>1. \A d \in Conns : conn[d].sock = "none" => sent'[d] = sent[d]
  <2>1. CASE SendResult(r, k)
    <3>1. \/ UNCHANGED sent
          \/ \E e \in Query(r, k).left : Write(reqs[r].conn, reqs[r].sub, e)
      BY <2>1 DEF SendResult
    <3> QED
      BY <3>1 DEF Write, Bounds, Types
  <2> QED
    BY <1>0, <2>1
<1>2. Connected'
  BY <1>0, <1>1 DEF Connected
<1>3. Listened' /\ Past'
  BY <1>0, ListenedLasts
<1> QED
  BY <1>0, <1>2, <1>3, AuthorizedLasts

(* A CLOSE takes a listener away, and what a broadcast holds of it stays    *)
(* right.                                                                   *)
LEMMA CloseStanding ==
    ASSUME Bounds, Standing, NEW c \in Conns, NEW s \in Subs, RemoveListenerId(c, s)
    PROVE  Standing'
<1> USE DEF Standing
<1>0. /\ Lasting /\ UNCHANGED <<saved, conn, reader, sent, steady, due>>
      /\ Reqs' = Reqs
      /\ \A p \in Reqs : reqs'[p].queries = reqs[p].queries
      /\ listeners' = [listeners EXCEPT ![c][s] = None]
  BY CloseLasts
<1>1. Connected'
  BY <1>0 DEF Connected
<1>2. \A d \in Conns, t \in Subs : listeners'[d][t] \in {listeners[d][t], None}
  BY <1>0 DEF Bounds, Types
<1>3. Listened' /\ Past'
  BY <1>0, <1>2, ListenedLasts
<1> QED
  BY <1>0, <1>1, <1>3, AuthorizedLasts

(* A REQ that arrives sets no listener yet. *)
LEMMA ReqStanding ==
    ASSUME Bounds, Standing, NEW c \in Conns, NEW s \in Subs, NEW fs \in ReqFilters,
           Req(c, s, fs)
    PROVE  Standing'
<1> USE DEF Standing
<1> DEFINE n == Len(reqs) + 1
<1>0. /\ Lasting /\ UNCHANGED <<saved, conn, listeners, sent, steady>>
      /\ Touches(c) /\ reader'[c].at = "filter"
      /\ reader'[c].req = n /\ reader'[c].hit = reader[c].hit
  BY ReqLasts
<1>1. /\ Reqs' = Reqs \cup {n} /\ n \notin Reqs
      /\ \A p \in Reqs : reqs'[p] = reqs[p]
      /\ reqs'[n] = [conn |-> c, sub |-> s, filters |-> fs, queries |-> <<>>,
                     wg |-> 0, canceled |-> FALSE]
  BY ReqArrives
<1>2. conn[c].sock # "none" /\ IsAuthed(c) /\ reader[c].at = "read"
  BY DEF Req, Hears, Connected
<1>3. Connected'
  BY <1>0, <1>2 DEF Connected, Touches
<1>4. Authorized'
  BY <1>0, <1>1, <1>2, ReqFacts DEF Authorized, IsAuthed
<1>5. \A r \in Reqs : Handling(r)' => Handling(r)
  BY <1>0, <1>1 DEF Handling, Touches
<1>6. Listened'
  <2> SUFFICES ASSUME NEW d \in Conns, NEW t \in Subs, NEW r \in Reqs', listeners'[d][t] = r
               PROVE  /\ reqs'[r].conn = d /\ reqs'[r].sub = t
                      /\ Len(reqs'[r].queries) = Len(reqs'[r].filters)
                      /\ ~Handling(r)'
    BY DEF Listened
  <2>3. n # None
    BY LenProperties DEF Bounds, Types, None
  <2>1. r \in Reqs /\ listeners[d][t] = r
    BY <1>0, <1>1, <2>3 DEF Bounds, Received
  <2>2. /\ reqs[r].conn = d /\ reqs[r].sub = t /\ ~Handling(r)
        /\ Len(reqs[r].queries) = Len(reqs[r].filters)
    BY <2>1 DEF Listened
  <2> QED
    BY <1>1, <1>5, <2>1, <2>2
<1>7. Past'
  BY <1>0, <1>5 DEF Past, Bounds, Received
<1> QED
  BY <1>3, <1>4, <1>6, <1>7

(* The filters of a REQ are handled, and its listener is set, on a          *)
(* connection whose key is settled.                                         *)
LEMMA FilterStanding ==
    ASSUME Bounds, Standing, NEW c \in Conns,
           HandleFilter(c) \/ RejectFilter(c) \/ SetListener(c)
    PROVE  Standing'
<1> USE DEF Standing
<1> DEFINE r == reader[c].req
<1>0. /\ reader[c].at = "filter" /\ r \in Reqs /\ reqs[r].conn = c /\ Handling(r)
      /\ reader \in [Conns -> ReaderType] /\ Reader("read").at = "read"
      /\ Reader("read").hit = {}
  BY DEF HandleFilter, RejectFilter, SetListener, Bounds, Handled, Types, Handling, Reader
<1>1. CASE HandleFilter(c) \/ RejectFilter(c)
  <2>1. /\ Lasting /\ UNCHANGED <<saved, listeners, sent, steady, due>> /\ Reqs' = Reqs
        /\ \A p \in Reqs : p # r => reqs'[p] = reqs[p]
        /\ \A d \in Conns : conn'[d].sock = conn[d].sock
        /\ UNCHANGED reader \/ reader' = [reader EXCEPT ![c] = Reader("read")]
    BY <1>1, FilterLasts
  <2>2. Connected'
    BY <1>0, <2>1 DEF Connected
  <2>3. \A p : Handling(p)' => Handling(p)
    BY <1>0, <2>1 DEF Handling
  <2>4. Listened'
    BY <1>0, <2>1, <2>3 DEF Listened, Bounds, Received
  <2>5. Past'
    BY <2>1, <2>3 DEF Past
  <2> QED
    BY <2>1, <2>2, <2>4, <2>5, AuthorizedLasts
<1>2. CASE SetListener(c)
  <2>1. /\ UNCHANGED <<saved, conn, reqs, sent, steady, due>> /\ Reqs' = Reqs
        /\ reader' = [reader EXCEPT ![c] = Reader("read")]
        /\ listeners' = [listeners EXCEPT ![c][reqs[r].sub] = r]
        /\ Len(reqs[r].queries) = Len(reqs[r].filters)
    BY <1>2 DEF SetListener, ghosts, Reqs
  <2>2. Connected'
    BY <1>0, <2>1 DEF Connected
  <2>3. \A p : Handling(p)' => Handling(p) /\ p # r
    BY <1>0, <2>1 DEF Handling, Bounds, Handled
  <2>4. Listened'
    BY <1>0, <2>1, <2>3 DEF Listened, Bounds, Types
  <2>5. Past'
    BY <2>1, <2>3 DEF Past
  <2>6. Authorized'
    BY <2>1 DEF Authorized, IsAuthed
  <2> QED
    BY <2>2, <2>4, <2>5, <2>6
<1> QED
  BY <1>1, <1>2

(* Every step keeps what stands. *)
LEMMA StandingStep == ASSUME Bounds, Standing, [Next]_vars PROVE Standing'
<1>1. CASE Restart
  BY <1>1, SessionAssumption DEF Restart, Standing, Connected, Authorized, Listened, Past, NoConn,
     Reader, NoListener, Reqs
<1>2. ASSUME NEW c \in Conns, Message(c)
      PROVE  Standing'
  BY <1>1, <1>2, LifeStanding, EventStanding, CloseStanding, ReqStanding
     DEF Message, AuthPanics
<1>3. ASSUME NEW c \in Conns, Handle(c)
      PROVE  Standing'
  BY <1>3, FilterStanding, EventStanding DEF Handle
<1>4. CASE UNCHANGED vars
  BY <1>4 DEF vars, ghosts, Standing, Connected, Authorized, Listened, Past, Handling,
     IsAuthed, Reqs
<1> QED
  BY <1>1, <1>2, <1>3, <1>4, LifeStanding, QueryStanding DEF Next

(* Connections, keys, listeners and broadcasts agree in every state         *)
(* (listener.go:50-69, broadcasting.go:16-42).                              *)
THEOREM StandingInvariant == Spec => []Standing
<1>1. Init => Standing
  BY SessionAssumption DEF Init, Standing, Connected, Authorized, Listened, Past, NoConn,
     Reader, NoListener, Reqs
<1>2. Bounds /\ Standing /\ [Next]_vars => Standing'
  BY StandingStep
<1> QED
  BY <1>1, <1>2, BoundsInvariant, PTL DEF Spec

(* No step but a restart takes anything back. *)
LEMMA StepLasts == ASSUME Bounds, [Next]_vars, ~Restart PROVE Lasting
<1>1. ASSUME NEW c \in Conns, Message(c)
      PROVE  Lasting
  BY <1>1, LifeLasts, EventLasts, CloseLasts, ReqLasts DEF Message, AuthPanics
<1>2. ASSUME NEW c \in Conns, SetListener(c)
      PROVE  Lasting
  BY <1>2, LastsIf DEF SetListener, ghosts, Reqs
<1>3. ASSUME NEW c \in Conns, Handle(c)
      PROVE  Lasting
  BY <1>2, <1>3, FilterLasts, EventLasts DEF Handle
<1>4. CASE UNCHANGED vars
  BY <1>4, LastsIf DEF vars, ghosts, Reqs
<1> QED
  BY <1>1, <1>3, <1>4, LifeLasts, QueryLasts DEF Next

-----------------------------------------------------------------------------
(***************************************************************************)
(* Private events.                                                         *)
(***************************************************************************)
Party(c, e) == conn[c].key # NoKey /\ conn[c].key \in Parties(e)

PartiesOnly ==
    \A c \in Conns : \A m \in sent[c] :
        AuthRequired /\ m[2] \in Privileged => c \in AllowIPs \/ Party(c, m[2])

(* A write adds at most the one event to the one client                     *)
(* (websocket.go:88-113).                                                   *)
LEMMA WriteFacts ==
    ASSUME sent \in [Conns -> SUBSET (Subs \X Events)],
           NEW c, NEW s, NEW e, Write(c, s, e)
    PROVE  \A d \in Conns : \A m \in sent'[d] : m \in sent[d] \/ (d = c /\ m[2] = e)
<1>1. CASE UNCHANGED sent
  BY <1>1
<1>2. CASE sent' = [sent EXCEPT ![c] = @ \cup {<<s, e>>}]
  <2> SUFFICES ASSUME NEW d \in Conns, NEW m \in sent'[d], m \notin sent[d]
               PROVE  d = c /\ m[2] = e
    OBVIOUS
  <2>1. d = c /\ sent'[d] = sent[d] \cup {<<s, e>>}
    BY <1>2
  <2>2. m = <<s, e>>
    BY <2>1
  <2> QED
    BY <2>1, <2>2
<1> QED
  BY <1>1, <1>2 DEF Write

(* Whatever is sent passed the check of BroadcastEvent, or goes to an      *)
(* address of Config.AllowIPs.                                             *)
LEMMA SentFacts ==
    ASSUME Bounds, [Next]_vars, ~Restart
    PROVE  \A c \in Conns : \A m \in sent'[c] :
              \/ m \in sent[c]
              \/ UNCHANGED conn /\ (Broadcasts(c, m[2]) \/ c \in AllowIPs)
<1>0. sent \in [Conns -> SUBSET (Subs \X Events)]
  BY DEF Bounds, Types
<1>1. ASSUME NEW c \in Conns, Serve(c)
      PROVE  \A d \in Conns : \A m \in sent'[d] :
                m \in sent[d] \/ (UNCHANGED conn /\ Broadcasts(d, m[2]))
  <2>1. PICK r \in reader[c].hit, e \in reader[c].event :
            \/ Broadcasts(reqs[r].conn, e) /\ Write(reqs[r].conn, reqs[r].sub, e)
            \/ UNCHANGED sent
    BY <1>1 DEF Serve
  <2>2. UNCHANGED conn
    BY <1>1 DEF Serve
  <2> QED
    BY <1>0, <2>1, <2>2, WriteFacts
<1>2. ASSUME NEW r \in Reqs, NEW k \in DOMAIN reqs[r].queries, SendResult(r, k)
      PROVE  \A d \in Conns : \A m \in sent'[d] :
                \/ m \in sent[d]
                \/ UNCHANGED conn /\ (Broadcasts(d, m[2]) \/ d \in AllowIPs)
  <2>1. \/ UNCHANGED sent
        \/ \E e \in Query(r, k).left :
              /\ Broadcasts(reqs[r].conn, e) \/ reqs[r].conn \in AllowIPs
              /\ Write(reqs[r].conn, reqs[r].sub, e)
    BY <1>2 DEF SendResult
  <2>2. UNCHANGED conn
    BY <1>2 DEF SendResult
  <2> QED
    BY <1>0, <2>1, <2>2, WriteFacts
<1>3. \/ \E c \in Conns : Serve(c)
      \/ \E r \in Reqs : \E k \in DOMAIN reqs[r].queries : SendResult(r, k)
      \/ UNCHANGED sent
  BY DEF Next, Message, Handle, Watcher, RunQuery, Connect, Breaks, ReaderReturns,
     PingFails, RemoveListener, Auth, AuthPanics, RemoveListenerId, Req, HandleFilter,
     RejectFilter, SetListener, Search, QueryDrained, QueryCanceled, SaveEvent,
     BroadcastEvent, Visit, BroadcastReturns, vars, ghosts
<1> QED
  BY <1>1, <1>2, <1>3

(* No step sends a private event past its parties: a query's reader and a   *)
(* broadcast each look at the key that the connection keeps.                *)
LEMMA PartiesOnlyStep ==
    ASSUME Bounds, Standing, PartiesOnly, [Next]_vars
    PROVE  PartiesOnly'
<1>1. CASE Restart
  BY <1>1 DEF Restart, PartiesOnly
<1>2. CASE ~Restart
  <2> SUFFICES ASSUME NEW c \in Conns, NEW m \in sent'[c], AuthRequired, m[2] \in Privileged,
                      c \notin AllowIPs
               PROVE  conn'[c].key # NoKey /\ conn'[c].key \in Parties(m[2])
    BY DEF PartiesOnly, Party
  <2>1. CASE m \in sent[c]
    <3>1. conn[c].sock # "none" /\ conn[c].key # NoKey /\ conn[c].key \in Parties(m[2])
      BY <2>1 DEF PartiesOnly, Party, Standing, Connected
    <3> QED
      BY <1>2, <3>1, StepLasts DEF Lasting
  <2>2. CASE UNCHANGED conn /\ Broadcasts(c, m[2])
    BY <2>2 DEF Broadcasts, IsAuthed
  <2> QED
    BY <1>2, <2>1, <2>2, SentFacts
<1> QED
  BY <1>1, <1>2

(* A private event is sent to its parties only (filterpriv.go:18), on every *)
(* connection that is not in Config.AllowIPs.                               *)
THEOREM PrivateStays == Spec => []PrivateToParties
<1>1. Init => PartiesOnly
  BY DEF Init, PartiesOnly
<1>2. Bounds /\ Standing /\ PartiesOnly /\ [Next]_vars => PartiesOnly'
  BY PartiesOnlyStep
<1>3. PartiesOnly => PrivateToParties
  BY DEF PartiesOnly, PrivateToParties, Party, Parties
<1> QED
  BY <1>1, <1>2, <1>3, BoundsInvariant, StandingInvariant, PTL DEF Spec

-----------------------------------------------------------------------------
(***************************************************************************)
(* What a client is due.  Found: an event that is due for a REQ was sent,  *)
(* or is still to come from each query that matches it, or that query was  *)
(* cut short.  Served: a broadcast under way has yet to come to a REQ that *)
(* listened when it began, or has sent it the event.                       *)
(***************************************************************************)
Owed(r, e) == MayHave(reqs[r].conn, e) /\ conn[reqs[r].conn].sock = "open"

Got(r, e) == <<reqs[r].sub, e>> \in sent[reqs[r].conn]

ToCome(q, e) ==
    \/ q.at = "search" /\ e \in saved
    \/ q.at = "send" /\ e \in q.left
    \/ q.at = "cut"

Promised(r, k, e) == ToCome(reqs[r].queries[k], e)

Coming(r, k, e) ==
    \/ k \notin DOMAIN reqs[r].queries /\ e \in saved
    \/ k \in DOMAIN reqs[r].queries /\ Promised(r, k, e)

Found ==
    \A r \in Reqs : \A e \in due[r], k \in DOMAIN reqs[r].filters :
        e \in reqs[r].filters[k].matches /\ Owed(r, e) => Got(r, e) \/ Coming(r, k, e)

Served ==
    \A c \in Conns : reader[c].at = "cast" =>
        \A r \in steady[c], e \in reader[c].event :
            Listens(r) /\ FiltersMatch(r, e) /\ Owed(r, e) =>
                \/ <<reqs[r].conn, reqs[r].sub>> \in reader[c].todo
                \/ r \in reader[c].hit
                \/ Got(r, e)

(* What is owed was owed before, and what was sent stays sent. *)
LEMMA OwedLasts ==
    ASSUME Bounds, Authorized, Lasting, NEW r \in Reqs, NEW e
    PROVE  /\ Owed(r, e)' => Owed(r, e)
           /\ Got(r, e) => Got(r, e)'
           /\ FiltersMatch(r, e)' <=> FiltersMatch(r, e)
<1>1. /\ reqs[r].conn \in Conns /\ reqs'[r].conn = reqs[r].conn
      /\ reqs'[r].sub = reqs[r].sub /\ reqs'[r].filters = reqs[r].filters
      /\ conn[reqs[r].conn].sock # "none" /\ IsAuthed(reqs[r].conn)
  BY ReqFacts DEF Bounds, Lasting, Authorized, ReqType
<1>2. AuthRequired => conn'[reqs[r].conn].key = conn[reqs[r].conn].key
  BY <1>1 DEF Lasting, IsAuthed
<1>3. conn'[reqs[r].conn].sock = "open" => conn[reqs[r].conn].sock = "open"
  BY <1>1 DEF Lasting
<1>4. Owed(r, e)' => Owed(r, e)
  BY <1>1, <1>2, <1>3 DEF Owed, MayHave
<1>5. Got(r, e) => Got(r, e)'
  BY <1>1 DEF Got, Lasting
<1>6. FiltersMatch(r, e)' <=> FiltersMatch(r, e)
  BY <1>1 DEF FiltersMatch
<1> QED
  BY <1>4, <1>5, <1>6

(* A query that is left alone has as much to come as before. *)
LEMMA ToComeLasts ==
    ASSUME saved \subseteq saved', NEW q, NEW e, ToCome(q, e)
    PROVE  ToCome(q, e)'
  BY DEF ToCome

(* What a query owes stays found or to come while queries and keys stay. *)
LEMMA FoundLasts ==
    ASSUME Bounds, Authorized, Found, Lasting, Reqs' = Reqs,
           \A r \in Reqs : reqs'[r].queries = reqs[r].queries,
           \A r \in Reqs : \A e \in due'[r] :
              \/ e \in due[r]
              \/ FiltersMatch(r, e) /\ Owed(r, e) => Got(r, e)
    PROVE  Found'
<1> SUFFICES ASSUME NEW r \in Reqs, NEW e \in due'[r], NEW k \in DOMAIN reqs'[r].filters,
                    e \in reqs'[r].filters[k].matches, Owed(r, e)'
             PROVE  Got(r, e)' \/ Coming(r, k, e)'
  BY DEF Found
<1>1. /\ reqs'[r].filters = reqs[r].filters /\ reqs'[r].queries = reqs[r].queries
      /\ Owed(r, e) /\ (Got(r, e) => Got(r, e)') /\ saved \subseteq saved'
  BY OwedLasts DEF Lasting
<1>2. CASE e \in due[r]
  <2>1. Got(r, e) \/ Coming(r, k, e)
    BY <1>1, <1>2 DEF Found
  <2> QED
    BY <1>1, <2>1, ToComeLasts DEF Coming, Promised
<1>3. CASE FiltersMatch(r, e) /\ Owed(r, e) => Got(r, e)
  <2>1. FiltersMatch(r, e)
    BY <1>1 DEF FiltersMatch
  <2> QED
    BY <1>1, <1>3, <2>1
<1> QED
  BY <1>2, <1>3

(* What a broadcast owes stays so while it and its listeners stay. *)
LEMMA ServedLasts ==
    ASSUME Bounds, Authorized, Served, Lasting, UNCHANGED steady,
           \A d \in Conns : reader'[d].at = "cast" => reader'[d] = reader[d],
           \A d \in Conns : \A r \in steady[d] : Listens(r)' => Listens(r)
    PROVE  Served'
<1> SUFFICES ASSUME NEW c \in Conns, reader'[c].at = "cast", NEW r \in steady[c],
                    NEW e \in reader'[c].event,
                    Listens(r)', FiltersMatch(r, e)', Owed(r, e)'
             PROVE  \/ <<reqs'[r].conn, reqs'[r].sub>> \in reader'[c].todo
                    \/ r \in reader'[c].hit
                    \/ Got(r, e)'
  BY DEF Served
<1>1. r \in Reqs
  BY DEF Bounds, Received
<1>2. /\ Listens(r) /\ FiltersMatch(r, e) /\ Owed(r, e) /\ reader'[c] = reader[c]
      /\ Got(r, e) => Got(r, e)'
      /\ reqs'[r].conn = reqs[r].conn /\ reqs'[r].sub = reqs[r].sub
  BY <1>1, OwedLasts DEF Lasting
<1> QED
  BY <1>2 DEF Served

(* Connects, kills and AUTH owe nothing new. *)
LEMMA LifeServed ==
    ASSUME Bounds, Standing, Found, Served, NEW c \in Conns,
           \/ Connect(c) \/ Breaks(c) \/ ReaderReturns(c) \/ Watcher(c)
           \/ \E k \in Keys : Auth(c, k)
    PROVE  Found' /\ Served'
<1> USE DEF Standing
<1>0. /\ Lasting /\ UNCHANGED <<reqs, sent, saved, due, steady>> /\ Reqs' = Reqs
      /\ reader \in [Conns -> ReaderType]
      /\ listeners \in [Conns -> [Subs -> ReqNos \cup {None}]]
  BY LifeLasts DEF Reqs, Bounds, Types
<1>1. Found'
  BY <1>0, FoundLasts
<1>2. \A d \in Conns : reader'[d].at = "cast" => reader'[d] = reader[d]
  BY <1>0 DEF Connect, Breaks, ReaderReturns, Watcher, PingFails, RemoveListener, Auth, Reader
<1>3. \A d \in Conns, s \in Subs : listeners'[d][s] \in {listeners[d][s], None}
  BY <1>0 DEF Connect, Breaks, ReaderReturns, Watcher, PingFails, RemoveListener, Auth,
     NoListener
<1>4. \A r \in Reqs : Listens(r)' => Listens(r)
  BY <1>0, <1>3, ReqFacts DEF Listens, Bounds, ReqType
<1>5. Served'
  BY <1>0, <1>2, <1>4, ServedLasts DEF Bounds, Received
<1> QED
  BY <1>1, <1>5

(* A CLOSE ends what its listener is owed. *)
LEMMA CloseServed ==
    ASSUME Bounds, Standing, Found, Served, NEW c \in Conns, NEW s \in Subs,
           RemoveListenerId(c, s)
    PROVE  Found' /\ Served'
<1> USE DEF Standing
<1>0. /\ Lasting /\ UNCHANGED <<saved, conn, reader, sent, steady, due>>
      /\ Reqs' = Reqs
      /\ \A p \in Reqs : reqs'[p].queries = reqs[p].queries
      /\ listeners' = [listeners EXCEPT ![c][s] = None]
      /\ listeners \in [Conns -> [Subs -> ReqNos \cup {None}]]
  BY CloseLasts DEF Bounds, Types
<1>1. Found'
  BY <1>0, FoundLasts
<1>2. \A d \in Conns, t \in Subs : listeners'[d][t] \in {listeners[d][t], None}
  BY <1>0
<1>3. \A r \in Reqs : /\ reqs'[r].conn = reqs[r].conn /\ reqs'[r].sub = reqs[r].sub
                      /\ reqs[r].conn \in Conns /\ reqs[r].sub \in Subs /\ r # None
  BY <1>0, ReqFacts DEF Lasting, Bounds, ReqType
<1>4. \A r \in Reqs : Listens(r)' => Listens(r)
  BY <1>2, <1>3 DEF Listens
<1>5. Served'
  BY <1>0, <1>4, ServedLasts DEF Bounds, Received
<1> QED
  BY <1>1, <1>5

(* A new REQ is owed what is stored, and its queries are still to come. *)
LEMMA ReqServed ==
    ASSUME Bounds, Standing, Found, Served, NEW c \in Conns, NEW s \in Subs,
           NEW fs \in ReqFilters, Req(c, s, fs)
    PROVE  Found' /\ Served'
<1> USE DEF Standing
<1> DEFINE n == Len(reqs) + 1
<1>0. /\ Lasting /\ UNCHANGED <<saved, conn, listeners, sent, steady>>
      /\ due' = [due EXCEPT ![n] = saved]
      /\ Touches(c) /\ reader'[c].at = "filter"
  BY ReqLasts
<1>1. /\ Reqs' = Reqs \cup {n} /\ n \notin Reqs
      /\ \A p \in Reqs : reqs'[p] = reqs[p]
      /\ reqs'[n] = [conn |-> c, sub |-> s, filters |-> fs, queries |-> <<>>,
                     wg |-> 0, canceled |-> FALSE]
      /\ Types'
  BY ReqArrives DEF Bounds
<1>2. due \in [ReqNos -> SUBSET Events] /\ \A p \in Reqs : p \in ReqNos
  BY ReqFacts DEF Bounds, Types
<1>3. n \in ReqNos
  BY LenProperties, SessionAssumption DEF Req, Bounds, Types, ReqNos
<1>4. Found'
  <2> SUFFICES ASSUME NEW r \in Reqs', NEW e \in due'[r], NEW k \in DOMAIN reqs'[r].filters,
                      e \in reqs'[r].filters[k].matches, Owed(r, e)'
               PROVE  Got(r, e)' \/ Coming(r, k, e)'
    BY DEF Found
  <2>1. CASE r \in Reqs
    <3>1. /\ reqs'[r] = reqs[r] /\ due'[r] = due[r] /\ Owed(r, e)
          /\ Got(r, e) => Got(r, e)'
      BY <1>0, <1>1, <1>2, <2>1, OwedLasts
    <3>2. Got(r, e) \/ Coming(r, k, e)
      BY <2>1, <3>1 DEF Found
    <3> QED
      BY <1>0, <3>1, <3>2 DEF Coming, Promised, ToCome
  <2>2. CASE r = n
    <3>1. reqs'[r].queries = <<>> /\ due'[r] = saved
      BY <1>0, <1>1, <1>2, <1>3, <2>2
    <3>2. DOMAIN reqs'[r].queries = {}
      BY <3>1
    <3> QED
      BY <1>0, <3>1, <3>2 DEF Coming
  <2> QED
    BY <1>1, <2>1, <2>2
<1>5. \A r \in Reqs : Listens(r)' => Listens(r)
  BY <1>0, <1>1 DEF Listens
<1>6. Served'
  <2>1. \A d \in Conns : reader'[d].at = "cast" => reader'[d] = reader[d]
    BY <1>0 DEF Touches
  <2> QED
    BY <1>0, <1>5, <2>1, ServedLasts DEF Bounds, Received
<1> QED
  BY <1>4, <1>6

(* Each filter's query starts over the whole store, and the listener is set *)
(* when all have started.                                                   *)
LEMMA FilterServed ==
    ASSUME Bounds, Standing, Found, Served, NEW c \in Conns,
           HandleFilter(c) \/ RejectFilter(c) \/ SetListener(c)
    PROVE  Found' /\ Served'
<1> USE DEF Standing
<1> DEFINE r == reader[c].req
<1>0. /\ reader[c].at = "filter" /\ r \in Reqs /\ reqs[r].conn = c /\ Handling(r)
      /\ reader \in [Conns -> ReaderType] /\ Reader("read").at = "read"
  BY DEF HandleFilter, RejectFilter, SetListener, Bounds, Handled, Types, Handling, Reader
<1>1. CASE HandleFilter(c) \/ RejectFilter(c)
  <2>1. /\ Lasting /\ UNCHANGED <<saved, listeners, sent, steady, due>> /\ Reqs' = Reqs
        /\ \A p \in Reqs : p # r => reqs'[p] = reqs[p]
        /\ \/ UNCHANGED reader
           \/ reader' = [reader EXCEPT ![c] = Reader("read")]
        /\ \/ reqs'[r].queries = reqs[r].queries
           \/ \E q \in QueryType :
                 /\ q.at \in {"search", "cut"}
                 /\ reqs'[r].queries = Append(reqs[r].queries, q)
    BY <1>1, FilterLasts
  <2>2. Served'
    <3>1. \A d \in Conns : reader'[d].at = "cast" => reader'[d] = reader[d]
      BY <1>0, <2>1
    <3>2. \A p \in Reqs : Listens(p)' => Listens(p)
      BY <2>1 DEF Listens, Lasting
    <3> QED
      BY <2>1, <3>1, <3>2, ServedLasts DEF Bounds, Received
  <2>3. ASSUME NEW q \in QueryType, q.at \in {"search", "cut"},
               reqs'[r].queries = Append(reqs[r].queries, q)
        PROVE  Found'
    <3>1. /\ reqs[r].queries \in Seq(QueryType) /\ Len(reqs[r].queries) \in Nat
          /\ DOMAIN reqs[r].queries = 1..Len(reqs[r].queries)
      BY <1>0, ReqFacts DEF Bounds
    <3>2. /\ DOMAIN reqs'[r].queries = 1..(Len(reqs[r].queries) + 1)
          /\ \A k \in DOMAIN reqs[r].queries : reqs'[r].queries[k] = reqs[r].queries[k]
          /\ reqs'[r].queries[Len(reqs[r].queries) + 1] = q
      BY <2>3, <3>1
    <3> SUFFICES ASSUME NEW p \in Reqs, NEW e \in due[p],
                        NEW k \in DOMAIN reqs'[p].filters,
                        e \in reqs'[p].filters[k].matches, Owed(p, e)'
                 PROVE  Got(p, e)' \/ Coming(p, k, e)'
      BY <2>1 DEF Found
    <3>3. /\ reqs'[p].filters = reqs[p].filters /\ Owed(p, e)
          /\ Got(p, e) => Got(p, e)'
      BY <2>1, OwedLasts DEF Lasting
    <3>4. Got(p, e) \/ Coming(p, k, e)
      BY <3>3 DEF Found
    <3>5. CASE p # r
      BY <2>1, <3>3, <3>4, <3>5 DEF Coming, Promised, ToCome
    <3>6. CASE p = r /\ k \in DOMAIN reqs[r].queries
      <4>1. k \in DOMAIN reqs'[r].queries /\ reqs'[r].queries[k] = reqs[r].queries[k]
        BY <3>1, <3>2, <3>6
      <4> QED
        BY <2>1, <3>3, <3>4, <3>6, <4>1 DEF Coming, Promised, ToCome
    <3>7. CASE p = r /\ k \notin DOMAIN reqs[r].queries
      <4>1. Got(r, e) \/ e \in saved
        BY <3>4, <3>7 DEF Coming
      <4>2. k \in DOMAIN reqs'[r].queries => reqs'[r].queries[k] = q
        BY <3>1, <3>2, <3>7
      <4> QED
        BY <2>1, <2>3, <3>3, <3>7, <4>1, <4>2 DEF Coming, Promised, ToCome
    <3> QED
      BY <3>5, <3>6, <3>7
  <2>4. CASE reqs'[r].queries = reqs[r].queries
    <3>1. \A p \in Reqs : reqs'[p].queries = reqs[p].queries
      BY <2>1, <2>4
    <3>2. Lasting /\ Reqs' = Reqs /\ due' = due
      BY <2>1
    <3>3. \A p \in Reqs : \A e \in due'[p] : e \in due[p]
      BY <3>2
    <3>4. Authorized
      BY DEF Standing
    <3> QED
      BY <2>2, <3>1, <3>2, <3>3, <3>4, FoundLasts
  <2> QED
    BY <2>1, <2>2, <2>3, <2>4
<1>2. CASE SetListener(c)
  <2>1. /\ UNCHANGED <<saved, conn, reqs, sent, steady, due>> /\ Reqs' = Reqs
        /\ reader' = [reader EXCEPT ![c] = Reader("read")]
        /\ listeners' = [listeners EXCEPT ![c][reqs[r].sub] = r]
    BY <1>2 DEF SetListener, ghosts, Reqs
  <2>2. Lasting
    BY <2>1, LastsIf
  <2>3. Found'
    BY <2>1, <2>2, FoundLasts
  <2>4. \A d \in Conns : reader'[d].at = "cast" => reader'[d] = reader[d]
    BY <1>0, <2>1
  <2>5. \A d \in Conns : \A p \in steady[d] : Listens(p)' => Listens(p)
    <3> SUFFICES ASSUME NEW d \in Conns, NEW p \in steady[d], Listens(p)'
                 PROVE  Listens(p)
      OBVIOUS
    <3>1. p # r
      BY <1>0 DEF Past
    <3> QED
      BY <2>1, <3>1 DEF Listens, Bounds, Types
  <2> QED
    BY <2>1, <2>2, <2>3, <2>4, <2>5, ServedLasts
<1> QED
  BY <1>1, <1>2

(* A query sends what it found, or ends, and then owes nothing more. *)
LEMMA QueryServed ==
    ASSUME Bounds, Standing, Found, Served,
           NEW r \in Reqs, NEW k \in DOMAIN reqs[r].queries, RunQuery(r, k)
    PROVE  Found' /\ Served'
<1> USE DEF Standing
<1>0. /\ Lasting /\ UNCHANGED <<saved, conn, reader, listeners, steady, due>>
      /\ Reqs' = Reqs
      /\ \A p \in Reqs : p # r => reqs'[p] = reqs[p]
      /\ \A j \in DOMAIN reqs[r].queries :
            j # k => reqs'[r].queries[j] = reqs[r].queries[j]
      /\ DOMAIN reqs[r].queries = 1..Len(reqs[r].queries)
      /\ Types
  BY QueryLasts, ReqFacts DEF Bounds
<1>1. /\ Query(r, k) = reqs[r].queries[k] /\ Query(r, k) \in QueryType
      /\ reqs[r].conn \in Conns /\ reqs[r].sub \in Subs
      /\ reqs'[r].conn = reqs[r].conn /\ reqs'[r].sub = reqs[r].sub
      /\ reqs'[r].filters = reqs[r].filters
  BY <1>0, ReqFacts, ElementOfSeq DEF Query, ReqType, Lasting
<1>2. DOMAIN reqs'[r].queries = DOMAIN reqs[r].queries
  BY <1>0, QueryMoves, QuerySet
<1>3. Served'
  <2>1. \A p \in Reqs : Listens(p)' => Listens(p)
    BY <1>0 DEF Listens, Lasting
  <2> QED
    BY <1>0, <2>1, ServedLasts DEF Bounds, Received
<1>4. ASSUME NEW e, e \in reqs[r].filters[k].matches, Owed(r, e), ToCome(Query(r, k), e)
      PROVE  Got(r, e)' \/ Promised(r, k, e)'
  <2>1. CASE Search(r, k)
    <3> DEFINE z == [at |-> "send", left |-> saved \cap reqs[r].filters[k].matches]
    <3>1. z \in QueryType /\ SetQuery(r, k, z) /\ Query(r, k).at = "search"
      BY <1>0, <2>1 DEF Search, QueryType, Types
    <3> HIDE DEF z
    <3>2. reqs'[r].queries[k] = z
      BY <1>0, <3>1, QueryPut
    <3>3. z.at = "send" /\ e \in z.left
      BY <1>4, <3>1 DEF z, ToCome
    <3> QED
      BY <3>2, <3>3 DEF Promised, ToCome
  <2>2. CASE SendResult(r, k)
    <3>1. PICK x \in Query(r, k).left :
            \/ /\ Write(reqs[r].conn, reqs[r].sub, x)
               /\ SetQuery(r, k, [Query(r, k) EXCEPT !.left = @ \ {x}])
            \/ SetQuery(r, k, [at |-> "cut", left |-> {}])
      BY <2>2 DEF SendResult
    <3>2. Query(r, k).at = "send" /\ e \in Query(r, k).left
      BY <1>4, <2>2 DEF SendResult, ToCome
    <3>3. CASE SetQuery(r, k, [at |-> "cut", left |-> {}])
      <4> DEFINE z == [at |-> "cut", left |-> {}]
      <4>1. z \in QueryType /\ z.at = "cut" /\ SetQuery(r, k, z)
        BY <3>3 DEF QueryType
      <4> HIDE DEF z
      <4>2. reqs'[r].queries[k] = z
        BY <1>0, <4>1, QueryPut
      <4> QED
        BY <4>1, <4>2 DEF Promised, ToCome
    <3>4. CASE /\ Write(reqs[r].conn, reqs[r].sub, x)
               /\ SetQuery(r, k, [Query(r, k) EXCEPT !.left = @ \ {x}])
      <4> DEFINE z == [Query(r, k) EXCEPT !.left = @ \ {x}]
      <4>1. z \in QueryType /\ z.at = "send" /\ z.left = Query(r, k).left \ {x}
        BY <1>1, <3>2 DEF QueryType
      <4>5. SetQuery(r, k, z)
        BY <3>4
      <4> HIDE DEF z
      <4>2. reqs'[r].queries[k] = z
        <5>1. z \in QueryType /\ SetQuery(r, k, z)
          BY <4>1, <4>5
        <5>2. Types
          BY <1>0
        <5> QED
          BY <5>1, <5>2, QueryPut
      <4>3. CASE e # x
        BY <3>2, <4>1, <4>2, <4>3 DEF Promised, ToCome
      <4>4. CASE e = x
        <5>1. sent' = [sent EXCEPT ![reqs[r].conn] = @ \cup {<<reqs[r].sub, x>>}]
          BY <1>4, <3>4 DEF Write, Owed
        <5> QED
          BY <1>0, <1>1, <4>4, <5>1 DEF Got, Types
      <4> QED
        BY <4>3, <4>4
    <3> QED
      BY <3>1, <3>3, <3>4
  <2>3. CASE QueryDrained(r, k)
    BY <1>4, <2>3 DEF QueryDrained, ToCome
  <2>4. CASE QueryCanceled(r, k)
    <3> DEFINE z == [at |-> "cut", left |-> {}]
    <3>1. z \in QueryType /\ z.at = "cut" /\ SetQuery(r, k, z)
      BY <2>4 DEF QueryType, QueryCanceled
    <3> HIDE DEF z
    <3>2. reqs'[r].queries[k] = z
      BY <1>0, <3>1, QueryPut
    <3> QED
      BY <3>1, <3>2 DEF Promised, ToCome
  <2> QED
    BY <2>1, <2>2, <2>3, <2>4 DEF RunQuery
<1>5. Found'
  <2> SUFFICES ASSUME NEW p \in Reqs, NEW e \in due[p], NEW j \in DOMAIN reqs'[p].filters,
                      e \in reqs'[p].filters[j].matches, Owed(p, e)'
               PROVE  Got(p, e)' \/ Coming(p, j, e)'
    BY <1>0 DEF Found
  <2>1. /\ reqs'[p].filters = reqs[p].filters /\ Owed(p, e)
        /\ Got(p, e) => Got(p, e)'
    BY <1>0, OwedLasts DEF Lasting
  <2>2. Got(p, e) \/ Coming(p, j, e)
    BY <2>1 DEF Found
  <2>3. CASE p # r
    BY <1>0, <2>1, <2>2, <2>3 DEF Coming, Promised, ToCome
  <2>4. CASE p = r /\ j # k
    BY <1>0, <1>2, <2>1, <2>2, <2>4 DEF Coming, Promised, ToCome
  <2>5. CASE p = r /\ j = k
    <3>1. Got(r, e) \/ ToCome(Query(r, k), e)
      BY <1>1, <2>2, <2>5 DEF Coming, Promised
    <3>2. Got(r, e)' \/ Promised(r, k, e)'
      BY <1>4, <2>1, <2>5, <3>1
    <3> QED
      BY <1>2, <2>5, <3>2 DEF Coming
  <2> QED
    BY <2>3, <2>4, <2>5
<1> QED
  BY <1>3, <1>5

(* A broadcast owes its event to who listens at its start and has visited   *)
(* every one of them at its end.                                            *)
LEMMA EventServed ==
    ASSUME Bounds, Standing, Found, Served, NEW c \in Conns,
           \/ \E e \in Events : SaveEvent(c, e)
           \/ BroadcastEvent(c) \/ Visit(c) \/ Serve(c) \/ BroadcastReturns(c)
    PROVE  Found' /\ Served'
<1> USE DEF Standing
<1>0. /\ Lasting /\ UNCHANGED <<reqs, conn, listeners>> /\ Reqs' = Reqs
      /\ reader \in [Conns -> ReaderType] /\ steady \in [Conns -> SUBSET ReqNos]
      /\ due \in [ReqNos -> SUBSET Events] /\ sent \in [Conns -> SUBSET (Subs \X Events)]
  BY EventLasts DEF Reqs, Bounds, Types
<1>1. \A r \in Reqs : Listens(r)' <=> Listens(r)
  BY <1>0 DEF Listens
<1>2. CASE \E e \in Events : SaveEvent(c, e)
  <2>1. /\ UNCHANGED <<steady, due, sent>>
        /\ \A d \in Conns \ {c} : reader'[d] = reader[d]
        /\ reader'[c].at = "add"
    BY <1>0, <1>2 DEF SaveEvent, ghosts, ReaderType
  <2>2. Found'
    BY <1>0, <2>1, FoundLasts
  <2>3. Served'
    <3>1. \A d \in Conns : reader'[d].at = "cast" => reader'[d] = reader[d]
      BY <2>1
    <3>2. \A d \in Conns : \A r \in steady[d] : Listens(r)' => Listens(r)
      BY <1>1 DEF Bounds, Received
    <3> QED
      BY <1>0, <2>1, <3>1, <3>2, ServedLasts
  <2> QED
    BY <2>2, <2>3
<1>3. ASSUME UNCHANGED due, \A d \in Conns \ {c} : reader'[d] = reader[d] /\ steady'[d] = steady[d],
             reader'[c].at = "cast" => \A r \in steady'[c], e \in reader'[c].event :
                Listens(r) /\ FiltersMatch(r, e) /\ Owed(r, e) =>
                \/ <<reqs[r].conn, reqs[r].sub>> \in reader'[c].todo
                \/ r \in reader'[c].hit
                \/ Got(r, e)',
             steady'[c] \subseteq Reqs
      PROVE  Found' /\ Served'
  <2>1. Found'
    BY <1>0, <1>3, FoundLasts
  <2>2. Served'
    <3> SUFFICES ASSUME NEW d \in Conns, reader'[d].at = "cast", NEW r \in steady'[d],
                        NEW e \in reader'[d].event,
                        Listens(r)', FiltersMatch(r, e)', Owed(r, e)'
                 PROVE  \/ <<reqs'[r].conn, reqs'[r].sub>> \in reader'[d].todo
                        \/ r \in reader'[d].hit
                        \/ Got(r, e)'
      BY DEF Served
    <3>1. r \in Reqs
      BY <1>3 DEF Bounds, Received
    <3>2. /\ Listens(r) /\ FiltersMatch(r, e) /\ Owed(r, e) /\ reqs'[r] = reqs[r]
          /\ Got(r, e) => Got(r, e)'
      BY <1>0, <1>1, <3>1, OwedLasts
    <3>3. CASE d = c
      BY <1>3, <3>2, <3>3
    <3>4. CASE d # c
      BY <1>3, <3>2, <3>4 DEF Served
    <3> QED
      BY <3>3, <3>4
  <2> QED
    BY <2>1, <2>2
<1>4. CASE BroadcastEvent(c)
  <2>1. /\ UNCHANGED due /\ steady'[c] \subseteq Reqs /\ reader'[c].todo = Slots
        /\ \A d \in Conns \ {c} : reader'[d] = reader[d] /\ steady'[d] = steady[d]
    BY <1>0, <1>4, EventBounds DEF BroadcastEvent, Audience, ReaderType, Bounds, Received
  <2>2. \A r \in Reqs : <<reqs[r].conn, reqs[r].sub>> \in Slots
    BY ReqFacts DEF Bounds, ReqType, Slots
  <2> QED
    BY <1>3, <2>1, <2>2
<1>5. CASE Visit(c)
  <2>1. PICK slot \in reader[c].todo : reader' = [reader EXCEPT
              ![c].todo = @ \ {slot},
              ![c].hit = {listeners[slot[1]][slot[2]]} \ {None}]
    BY <1>5 DEF Visit
  <2>2. /\ reader'[c].todo = reader[c].todo \ {slot}
        /\ reader'[c].hit = {listeners[slot[1]][slot[2]]} \ {None}
        /\ reader'[c].event = reader[c].event
        /\ reader[c].at = "cast" /\ reader[c].hit = {}
        /\ \A d \in Conns \ {c} : reader'[d] = reader[d]
        /\ UNCHANGED <<sent, steady, due>>
    BY <1>0, <1>5, <2>1 DEF Visit, ReaderType, ghosts
  <2>3. ASSUME NEW r \in Reqs, Listens(r), slot = <<reqs[r].conn, reqs[r].sub>>
        PROVE  r \in reader'[c].hit
    BY <2>2, <2>3, ReqFacts DEF Listens, Bounds
  <2>4. \A r \in steady[c], e \in reader[c].event :
                Listens(r) /\ FiltersMatch(r, e) /\ Owed(r, e) =>
                \/ <<reqs[r].conn, reqs[r].sub>> \in reader'[c].todo
                \/ r \in reader'[c].hit
                \/ Got(r, e)'
    <3> SUFFICES ASSUME NEW r \in steady[c], NEW e \in reader[c].event,
                        Listens(r), FiltersMatch(r, e), Owed(r, e)
                 PROVE  \/ <<reqs[r].conn, reqs[r].sub>> \in reader'[c].todo
                        \/ r \in reader'[c].hit
                        \/ Got(r, e)'
      OBVIOUS
    <3>1. r \in Reqs
      BY DEF Bounds, Received
    <3>2. <<reqs[r].conn, reqs[r].sub>> \in reader[c].todo \/ Got(r, e)
      BY <2>2 DEF Served
    <3> QED
      BY <1>0, <2>2, <2>3, <3>1, <3>2, OwedLasts
  <2> QED
    BY <1>3, <2>2, <2>4 DEF Bounds, Received
<1>6. CASE Serve(c)
  <2>1. /\ reader' = [reader EXCEPT ![c].hit = {}]
        /\ UNCHANGED <<steady, due>> /\ reader[c].at = "cast"
    BY <1>6 DEF Serve, ghosts
  <2>2. /\ reader'[c].todo = reader[c].todo /\ reader'[c].event = reader[c].event
        /\ \A d \in Conns \ {c} : reader'[d] = reader[d]
    BY <1>0, <2>1 DEF ReaderType
  <2>3. PICK q \in reader[c].hit, x \in reader[c].event :
            IF FiltersMatch(q, x) /\ Broadcasts(reqs[q].conn, x)
              THEN Write(reqs[q].conn, reqs[q].sub, x)
              ELSE UNCHANGED sent
    BY <1>6 DEF Serve
  <2>4. ASSUME NEW r \in reader[c].hit, NEW e \in reader[c].event,
               FiltersMatch(r, e), Owed(r, e)
        PROVE  Got(r, e)'
    <3>1. r = q /\ e = x /\ r \in Reqs
      BY <2>1, <2>3 DEF Connected, Bounds, Received
    <3>2. reqs[r].conn \in Conns /\ reqs[r].sub \in Subs
      BY <3>1, ReqFacts DEF Bounds, ReqType
    <3>3. Broadcasts(reqs[r].conn, e)
      BY <2>4, <3>1 DEF Broadcasts, Owed, MayHave, Authorized, Parties
    <3>4. sent' = [sent EXCEPT ![reqs[r].conn] = @ \cup {<<reqs[r].sub, e>>}]
      BY <2>3, <2>4, <3>1, <3>3 DEF Write, Owed
    <3> QED
      BY <1>0, <3>2, <3>4 DEF Got
  <2>5. \A r \in steady[c], e \in reader[c].event :
                Listens(r) /\ FiltersMatch(r, e) /\ Owed(r, e) =>
                \/ <<reqs[r].conn, reqs[r].sub>> \in reader'[c].todo
                \/ r \in reader'[c].hit
                \/ Got(r, e)'
    <3> SUFFICES ASSUME NEW r \in steady[c], NEW e \in reader[c].event,
                        Listens(r), FiltersMatch(r, e), Owed(r, e)
                 PROVE  <<reqs[r].conn, reqs[r].sub>> \in reader'[c].todo \/ Got(r, e)'
      OBVIOUS
    <3>1. r \in Reqs
      BY DEF Bounds, Received
    <3>2. \/ <<reqs[r].conn, reqs[r].sub>> \in reader[c].todo
          \/ r \in reader[c].hit \/ Got(r, e)
      BY <2>1 DEF Served
    <3> QED
      BY <1>0, <2>2, <2>4, <3>1, <3>2, OwedLasts
  <2> QED
    BY <1>3, <2>1, <2>2, <2>5 DEF Bounds, Received
<1>7. CASE BroadcastReturns(c)
  <2>1. /\ reader[c].at = "cast" /\ reader[c].todo = {} /\ reader[c].hit = {}
        /\ reader'[c] = Reader("read")
        /\ \A d \in Conns \ {c} : reader'[d] = reader[d] /\ steady'[d] = steady[d]
        /\ steady'[c] = {}
        /\ due' = [r \in ReqNos |-> IF r \in steady[c] /\ Listens(r)
                                  THEN due[r] \cup reader[c].event ELSE due[r]]
    BY <1>0, <1>7 DEF BroadcastReturns
  <2>2. \A r \in Reqs : \A e \in due'[r] :
              \/ e \in due[r]
              \/ FiltersMatch(r, e) /\ Owed(r, e) => Got(r, e)
    <3> SUFFICES ASSUME NEW r \in Reqs, NEW e \in due'[r], e \notin due[r],
                        FiltersMatch(r, e), Owed(r, e)
                 PROVE  Got(r, e)
      OBVIOUS
    <3>1. r \in steady[c] /\ Listens(r) /\ e \in reader[c].event
      BY <2>1, ReqFacts DEF Bounds
    <3> QED
      BY <2>1, <3>1 DEF Served
  <2>3. Found'
    BY <1>0, <2>2, FoundLasts
  <2>4. Served'
    <3> SUFFICES ASSUME NEW d \in Conns, reader'[d].at = "cast", NEW r \in steady'[d],
                        NEW e \in reader'[d].event,
                        Listens(r)', FiltersMatch(r, e)', Owed(r, e)'
                 PROVE  \/ <<reqs'[r].conn, reqs'[r].sub>> \in reader'[d].todo
                        \/ r \in reader'[d].hit
                        \/ Got(r, e)'
      BY DEF Served
    <3>1. d # c /\ r \in Reqs
      BY <2>1 DEF Bounds, Received, Reader
    <3>2. /\ Listens(r) /\ FiltersMatch(r, e) /\ Owed(r, e) /\ reqs'[r] = reqs[r]
          /\ Got(r, e) => Got(r, e)'
      BY <1>0, <1>1, <3>1, OwedLasts
    <3> QED
      BY <2>1, <3>1, <3>2 DEF Served
  <2> QED
    BY <2>3, <2>4
<1> QED
  BY <1>2, <1>4, <1>5, <1>6, <1>7

(* Every step keeps what is owed. *)
LEMMA ServedStep ==
    ASSUME Bounds, Standing, Found, Served, [Next]_vars
    PROVE  Found' /\ Served'
<1>1. CASE Restart
  BY <1>1 DEF Restart, Found, Served, Reader, Reqs
<1>2. ASSUME NEW c \in Conns, Message(c)
      PROVE  Found' /\ Served'
  BY <1>1, <1>2, LifeServed, EventServed, CloseServed, ReqServed DEF Message, AuthPanics
<1>3. ASSUME NEW c \in Conns, Handle(c)
      PROVE  Found' /\ Served'
  BY <1>3, FilterServed, EventServed DEF Handle
<1>4. CASE UNCHANGED vars
  <2>1. /\ UNCHANGED <<saved, conn, reader, listeners, reqs, sent, steady, due>>
        /\ Reqs' = Reqs
    BY <1>4 DEF vars, ghosts, Reqs
  <2>2. Lasting
    BY <2>1, LastsIf
  <2>3. \A r : Listens(r)' => Listens(r)
    BY <2>1 DEF Listens
  <2> QED
    BY <2>1, <2>2, <2>3, FoundLasts, ServedLasts DEF Standing
<1> QED
  BY <1>1, <1>2, <1>3, <1>4, LifeServed, QueryServed DEF Next

(* A standing subscription whose queries ran to their end has sent its     *)
(* client every event it was due (broadcasting.go:14, handlefilter.go:73), *)
(* for any number of clients, REQs, filters and broadcasts at a time.      *)
THEOREM DueComes == Spec => []DueDelivered
<1>1. Init => Found /\ Served
  BY DEF Init, Found, Served, Reader, Reqs
<1>2. Bounds /\ Standing /\ Found /\ Served /\ [Next]_vars => Found' /\ Served'
  BY ServedStep
<1>3. Bounds /\ Standing /\ Found => DueDelivered
  <2> SUFFICES ASSUME Bounds, Standing, Found, NEW r \in Reqs, Listens(r),
                      conn[reqs[r].conn].sock = "open", Drained(r),
                      NEW e \in due[r], FiltersMatch(r, e), MayHave(reqs[r].conn, e)
               PROVE  Got(r, e)
    BY DEF DueDelivered, Got
  <2>1. PICK k \in DOMAIN reqs[r].filters : e \in reqs[r].filters[k].matches
    BY DEF FiltersMatch
  <2>2. k \in DOMAIN reqs[r].queries
    <3>1. Len(reqs[r].queries) = Len(reqs[r].filters)
      BY ReqFacts DEF Standing, Listened, Listens, Bounds, ReqType
    <3>2. DOMAIN reqs[r].filters = 1..Len(reqs[r].filters)
      BY ReqFacts, LenProperties DEF Bounds
    <3> QED
      BY <2>1, <3>1, <3>2, ReqFacts DEF Bounds
  <2>3. reqs[r].queries[k].at = "drained"
    BY <2>2 DEF Drained, Query
  <2>4. Got(r, e) \/ Coming(r, k, e)
    BY <2>1 DEF Found, Owed
  <2> QED
    BY <2>2, <2>3, <2>4 DEF Coming, Promised, ToCome
<1> QED
  BY <1>1, <1>2, <1>3, BoundsInvariant, StandingInvariant, PTL DEF Spec

=============================================================================
