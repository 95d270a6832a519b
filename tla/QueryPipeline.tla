---------------------------- MODULE QueryPipeline ----------------------------
(***************************************************************************)
(* How the badger store answers a filter (query.go, preparequeries.go,     *)
(* access.go, count.go).  A filter becomes index prefixes; one goroutine   *)
(* searches each of them and puts what it finds in a channel; a loop merges *)
(* the channels by date and sends each event to the reader, and its serial *)
(* to the goroutine that counts accesses.  A count runs the same searches  *)
(* and returns a number.                                                   *)
(*                                                                         *)
(* The records are what EventStore leaves in the store: a serial's index   *)
(* keys with a whole event, a stub, or no record ("hollow").  Ids and      *)
(* public keys in a filter are taken as well formed.                       *)
(*                                                                         *)
(* A definition marked "seeded fault" is a mistake one could make in the   *)
(* definition after it; no action uses it.                                 *)
(***************************************************************************)
EXTENDS Integers, Sequences, FiniteSets, SequencesExt

CONSTANTS
    Serials,    \* of the events in the store
    Content,    \* per serial: id, author, kind, tag and date of its event
    Asked,      \* the filters
    Stores,     \* bound: the states of the records when a filter is asked
    StoreLimit, \* Backend.MaxLimit
    Buffer,     \* capacity of a results channel
    Infinity,   \* the largest integer; no date and no serial reaches it
    MaxQueries, \* bound: the searches of a query
    MaxChanges  \* bound: records evicted or removed while a query runs

IsList(list) == list \in Seq(ToSet(list))

\* An id is the hash of an event: events of one id have one date (event.go).
ASSUME QueryAssumption ==
    /\ Serials \subseteq Int
    /\ \A s \in Serials : Content[s].date \in Int
    /\ \A s, t \in Serials : Content[s].id = Content[t].id => Content[s].date = Content[t].date
    /\ StoreLimit \in Nat \ {0}
    /\ \A f \in Asked :
          /\ f.limit \in Int
          /\ IsList(f.ids) /\ IsList(f.authors) /\ IsList(f.kinds) /\ IsList(f.tags)

Unset == -1
NoEntry == [q |-> 0, ser |-> 0, whole |-> FALSE, date |-> 0]

VARIABLES
    asked,     \* the filter
    store,     \* per serial: "full", "stub", "hollow" or "none"
    changes,
    loop,      \* QueryEventsLoop: where it is, the query it is at, the event
    queue,     \* emitQueue
    search,    \* per query: its goroutine, the serials left, what it sends
    results,   \* per query: the channel...
    closed,    \* ... and whether it is closed
    ch,        \* the reader's channel
    reader,
    access,    \* AccessLoop
    bumped,    \* the serials whose access counter was written
    canceled,  \* the context of the query or of the store is done
    count,     \* CountEvents: where it is, the variable, what it returned
    emitted    \* ghost: what the loop has sent to the reader

recordVars == <<store, changes>>
loopVars == <<loop, queue, emitted>>
searchVars == <<search, results, closed>>
accessVars == <<access, bumped>>
queryVars == <<asked, recordVars, loopVars, searchVars, ch, reader, accessVars,
               canceled, count>>

-----------------------------------------------------------------------------
(***************************************************************************)
(* From a filter to index scans.                                           *)
(***************************************************************************)
SearchPrefixes(f) ==
    CASE f.ids # <<>> -> [i \in DOMAIN f.ids |-> <<"Id", f.ids[i]>>]
      [] f.ids = <<>> /\ f.authors # <<>> /\ f.kinds = <<>> ->
            [i \in DOMAIN f.authors |-> <<"Pubkey", f.authors[i]>>]
      [] f.ids = <<>> /\ f.authors # <<>> /\ f.kinds # <<>> ->
            [i \in 1..(Len(f.authors) * Len(f.kinds)) |->
                <<"PubkeyKind", f.authors[((i - 1) \div Len(f.kinds)) + 1],
                  f.kinds[((i - 1) % Len(f.kinds)) + 1]>>]
      [] f.ids = <<>> /\ f.authors = <<>> /\ f.tags # <<>> ->
            [i \in DOMAIN f.tags |-> <<"Tag", f.tags[i]>>]
      [] f.ids = <<>> /\ f.authors = <<>> /\ f.tags = <<>> ->
            [i \in DOMAIN f.kinds |-> <<"Kind", f.kinds[i]>>]

KeysOf(s) ==
    LET e == Content[s]
    IN  {<<"Id", e.id>>, <<"Pubkey", e.author>>, <<"Kind", e.kind>>,
         <<"PubkeyKind", e.author, e.kind>>, <<"Tag", e.tag>>}

SkipTS(p) == p[1] = "Id"

(* What the prefix does not look at and the event is checked for: the tags *)
(* of a filter with authors, the kinds of a filter with tags.              *)
PassesExtra(f, s) ==
    /\ f.ids = <<>> /\ f.authors # <<>> /\ f.tags # <<>>
          => Content[s].tag \in ToSet(f.tags)
    /\ f.ids = <<>> /\ f.authors = <<>> /\ f.tags # <<>> /\ f.kinds # <<>>
          => Content[s].kind \in ToSet(f.kinds)

HasExtra(f) == f.ids = <<>> /\ f.tags # <<>>

Until(f) == IF f.until = Unset THEN Infinity ELSE f.until + 1
Since(f) == IF f.since > Infinity THEN f.since ELSE Infinity

(* FromKey reads the last eight bytes of the key, which are the serial; a  *)
(* count reads the date.                                                   *)
DateRead == [s \in Serials |-> s]
DateInKey == [s \in Serials |-> Content[s].date]

(* A scan starts at the prefix with Until and goes down, until a key is *)
(* too old.                                                             *)
Below(f, p, s) == IF SkipTS(p) THEN s <= Until(f) ELSE Content[s].date < Until(f)

Above(p, s, t) ==
    \/ (~SkipTS(p) /\ Content[s].date > Content[t].date)
    \/ (SkipTS(p) \/ Content[s].date = Content[t].date) /\ s > t

IndexScan(f, p, date) ==
    LET found == {s \in Serials : /\ store[s] # "none"
                                  /\ p \in KeysOf(s)
                                  /\ Below(f, p, s)}
        Young(s) == SkipTS(p) \/ date[s] >= Since(f)
    IN  {s \in found : \A t \in found : t = s \/ Above(p, t, s) => Young(t)}

(* The semantics of a filter, event by event. *)
Matches(f, s) ==
    LET e == Content[s]
    IN  /\ f.ids # <<>> => e.id \in ToSet(f.ids)
        /\ f.kinds # <<>> => e.kind \in ToSet(f.kinds)
        /\ f.authors # <<>> => e.author \in ToSet(f.authors)
        /\ f.tags # <<>> => e.tag \in ToSet(f.tags)
        /\ f.since # Unset => e.date >= f.since
        /\ f.until # Unset => e.date <= f.until

Limit == IF asked.limit > 0 /\ asked.limit < StoreLimit THEN asked.limit ELSE StoreLimit

Queries == DOMAIN search

-----------------------------------------------------------------------------
NotAsked == [at |-> "idle", k |-> 0, latest |-> NoEntry]
NoSearch == [at |-> "idle", keys |-> {}, item |-> NoEntry, sum |-> 0]
NoAccess == [at |-> "idle", ser |-> 0]
NoCount == [at |-> "idle", k |-> 0, var |-> 0, answer |-> 0]

QueryIdle ==
    /\ asked = <<>> /\ store = <<>> /\ changes = 0
    /\ loop = NotAsked /\ queue = {} /\ emitted = <<>>
    /\ search = <<>> /\ results = <<>> /\ closed = <<>>
    /\ ch = <<>> /\ reader = "idle"
    /\ access = NoAccess /\ bumped = {} /\ canceled = FALSE
    /\ count = NoCount

(* A filter is asked, for its events or for their count. *)
QueryInit ==
    /\ asked \in Asked
    /\ store \in Stores
    /\ changes = 0
    /\ queue = {} /\ emitted = <<>>
    /\ search = [q \in DOMAIN SearchPrefixes(asked) |-> NoSearch]
    /\ results = [q \in DOMAIN search |-> <<>>]
    /\ closed = [q \in DOMAIN search |-> FALSE]
    /\ ch = <<>> /\ bumped = {} /\ canceled = FALSE
    /\ \/ /\ loop = [NotAsked EXCEPT !.at = "spawn", !.k = 1]
          /\ access = [NoAccess EXCEPT !.at = "waiting"] /\ reader = "reading"
          /\ count = NoCount
       \/ /\ loop = NotAsked
          /\ access = NoAccess /\ reader = "idle"
          /\ count = [NoCount EXCEPT !.at = "spawn", !.k = 1]

(***************************************************************************)
(* QueryEventsLoop.                                                        *)
(***************************************************************************)
LoopRest == UNCHANGED <<asked, recordVars, reader, canceled, count>>

End == loop' = [loop EXCEPT !.at = "done"]

(* A search is started for each query, unless the context is done. *)
StartSearch ==
    /\ loop.at = "spawn" /\ loop.k \in Queries /\ ~canceled
    /\ search' = [search EXCEPT ![loop.k].at = "scan"]
    /\ loop' = [loop EXCEPT !.k = @ + 1]
    /\ UNCHANGED <<queue, emitted, results, closed, ch, accessVars>> /\ LoopRest

StartCanceled ==
    /\ loop.at = "spawn" /\ loop.k \in Queries /\ canceled
    /\ End
    /\ UNCHANGED <<queue, emitted, searchVars, ch, accessVars>> /\ LoopRest

AllStarted ==
    /\ loop.at = "spawn" /\ loop.k \notin Queries
    /\ loop' = [loop EXCEPT !.at = "first", !.k = 1]
    /\ UNCHANGED <<queue, emitted, searchVars, ch, accessVars>> /\ LoopRest

(* The first result of each query, waiting for it or for the close. *)
Ready(q) == results[q] # <<>> \/ closed[q]

FirstResult ==
    /\ loop.at = "first" /\ loop.k \in Queries
    /\ Ready(loop.k)
    /\ IF results[loop.k] # <<>>
       THEN /\ queue' = queue \cup {Head(results[loop.k])}
            /\ results' = [results EXCEPT ![loop.k] = Tail(@)]
       ELSE UNCHANGED <<queue, results>>
    /\ loop' = [loop EXCEPT !.k = @ + 1]
    /\ UNCHANGED <<emitted, search, closed, ch, accessVars>> /\ LoopRest

(* Seeded fault: the heap puts the oldest event on top. *)
Earliest(e) == e \in queue /\ \A d \in queue : d.date >= e.date

Latest(e) == e \in queue /\ \A d \in queue : d.date <= e.date

ChooseLatest ==
    /\ (loop.at = "first" /\ loop.k \notin Queries) \/ loop.at = "emit"
    /\ IF queue = {} \/ canceled
       THEN End
       ELSE \E e \in queue : /\ Latest(e)
                              /\ loop' = [loop EXCEPT !.at = "send", !.latest = e]
    /\ UNCHANGED <<queue, emitted, searchVars, ch, accessVars>> /\ LoopRest

(* ch <- latest.T: the reader's channel holds one event. *)
SendEvent ==
    /\ loop.at = "send" /\ ch = <<>>
    /\ ch' = <<loop.latest.ser>>
    /\ emitted' = Append(emitted, loop.latest)
    /\ loop' = [loop EXCEPT !.at = "count"]
    /\ UNCHANGED <<queue, searchVars, accessVars>> /\ LoopRest

AtLimit == Len(emitted) = Limit

AfterAccess == loop' = [loop EXCEPT !.at = IF AtLimit THEN "done" ELSE "refill"]

(* accessChan <- ae: AccessLoop takes it, and the loop counts the event. *)
SendAccess ==
    /\ loop.at = "count" /\ access.at = "waiting"
    /\ access' = [at |-> "writing", ser |-> loop.latest.ser]
    /\ AfterAccess
    /\ UNCHANGED <<queue, emitted, searchVars, ch, bumped>> /\ LoopRest

(* The next result of the query whose event was sent takes its place. *)
Refill ==
    LET q == loop.latest.q
    IN  /\ loop.at = "refill"
        /\ Ready(q)
        /\ IF results[q] # <<>>
           THEN /\ queue' = (queue \ {loop.latest}) \cup {Head(results[q])}
                /\ results' = [results EXCEPT ![q] = Tail(@)]
           ELSE /\ queue' = queue \ {loop.latest}
                /\ UNCHANGED results
        /\ loop' = [loop EXCEPT !.at = IF queue' = {} THEN "done" ELSE "emit"]
        /\ UNCHANGED <<emitted, search, closed, ch, accessVars>> /\ LoopRest

Loop == \/ StartSearch \/ StartCanceled \/ AllStarted \/ FirstResult \/ ChooseLatest
        \/ SendEvent \/ SendAccess \/ Refill

(***************************************************************************)
(* QueryEventsSearch, the goroutine of query q.                            *)
(***************************************************************************)
SearchRest == UNCHANGED <<asked, recordVars, loopVars, ch, reader, accessVars, canceled, count>>

ScanKeys(q) ==
    /\ search[q].at = "scan"
    /\ search' = [search EXCEPT ![q].at = "fetch",
                                ![q].keys = IndexScan(asked, SearchPrefixes(asked)[q], DateRead)]
    /\ UNCHANGED <<results, closed>> /\ SearchRest

Entry(q, s) == [q |-> q, ser |-> s, whole |-> store[s] = "full",
                date |-> IF store[s] = "full" THEN Content[s].date ELSE 0]

(* The record of the next serial, read in a transaction of its own: an     *)
(* event that passes and a stub are results, unless the context is done    *)
(* when a stub is met.                                                     *)
Fetch(q) ==
    \E s \in search[q].keys :
        /\ search[q].at = "fetch"
        /\ \A t \in search[q].keys \ {s} : Above(SearchPrefixes(asked)[q], s, t)
        /\ search' = [search EXCEPT ![q].keys = @ \ {s},
                ![q].at = IF \/ (store[s] = "full" /\ PassesExtra(asked, s))
                             \/ (store[s] = "stub" /\ ~canceled)
                          THEN "put" ELSE "fetch",
                ![q].item = Entry(q, s)]
        /\ UNCHANGED <<results, closed>> /\ SearchRest

Put(q) ==
    /\ search[q].at = "put" /\ Len(results[q]) < Buffer
    /\ results' = [results EXCEPT ![q] = Append(@, search[q].item)]
    /\ search' = [search EXCEPT ![q].at = "fetch"]
    /\ UNCHANGED closed /\ SearchRest

(* Seeded fault: the search goes without closing its channel. *)
LeaveOpen(q) ==
    /\ search[q].at = "fetch" /\ search[q].keys = {}
    /\ search' = [search EXCEPT ![q].at = "gone"]
    /\ UNCHANGED <<results, closed>> /\ SearchRest

(* The channel is closed, and the search takes what is still in it. *)
CloseResults(q) ==
    /\ search[q].at = "fetch" /\ search[q].keys = {}
    /\ closed' = [closed EXCEPT ![q] = TRUE]
    /\ search' = [search EXCEPT ![q].at = "drain"]
    /\ UNCHANGED results /\ SearchRest

Drain(q) ==
    /\ search[q].at = "drain"
    /\ results' = [results EXCEPT ![q] = IF @ = <<>> THEN @ ELSE Tail(@)]
    /\ search' = [search EXCEPT ![q].at = IF results[q] = <<>> THEN "gone" ELSE @]
    /\ UNCHANGED closed /\ SearchRest

Search(q) == ScanKeys(q) \/ Fetch(q) \/ Put(q) \/ CloseResults(q) \/ Drain(q)

(***************************************************************************)
(* AccessLoop, the reader, and what happens around a query.                *)
(***************************************************************************)
AccessRest == UNCHANGED <<asked, recordVars, loopVars, searchVars, ch, reader, canceled, count>>

(* A record that has no counter any more is passed over. *)
Bump ==
    /\ access.at = "writing"
    /\ bumped' = bumped \cup {access.ser}
    /\ access' = [access EXCEPT !.at = "waiting"] /\ AccessRest

AccessEnds ==
    /\ access.at = "waiting"
    /\ canceled \/ loop.at = "done"
    /\ access' = [access EXCEPT !.at = "gone"]
    /\ UNCHANGED bumped /\ AccessRest

Read ==
    /\ reader = "reading"
    /\ IF ch # <<>> THEN ch' = Tail(ch) /\ UNCHANGED reader
       ELSE loop.at = "done" /\ reader' = "ended" /\ UNCHANGED ch
    /\ UNCHANGED <<asked, recordVars, loopVars, searchVars, accessVars, canceled, count>>

(* handleFilter stops reading when its context is done, and when it meets *)
(* an event the client may not see.                                       *)
Leave ==
    /\ reader = "reading"
    /\ \/ canceled /\ UNCHANGED ch
       \/ ch # <<>> /\ ch' = Tail(ch)
    /\ reader' = "left"
    /\ UNCHANGED <<asked, recordVars, loopVars, searchVars, accessVars, canceled, count>>

Cancel ==
    /\ ~canceled
    /\ canceled' = TRUE
    /\ UNCHANGED <<asked, recordVars, loopVars, searchVars, ch, reader, accessVars, count>>

Change(s, to) ==
    /\ changes < MaxChanges
    /\ store[s] # "none"
    /\ store' = [store EXCEPT ![s] = to]
    /\ changes' = changes + 1
    /\ UNCHANGED <<asked, loopVars, searchVars, ch, reader, accessVars, canceled, count>>

Evict(s) == store[s] = "full" /\ (Change(s, "stub") \/ Change(s, "hollow"))
Erase(s) == Change(s, "none")

(***************************************************************************)
(* CountEvents.  Its goroutines write the variable it returns, and nothing *)
(* makes it wait for them.                                                 *)
(***************************************************************************)
CountRest == UNCHANGED <<asked, recordVars, loopVars, results, ch, reader, accessVars, canceled>>

CountStart ==
    /\ count.at = "spawn" /\ count.k \in Queries /\ ~canceled
    /\ search' = [search EXCEPT ![count.k].at = "counting"]
    /\ count' = [count EXCEPT !.k = @ + 1]
    /\ UNCHANGED closed /\ CountRest

CountReturns ==
    /\ count.at = "spawn"
    /\ count.k \notin Queries \/ canceled
    /\ count' = [count EXCEPT !.at = "returned", !.answer = count.var]
    /\ UNCHANGED <<search, closed>> /\ CountRest

(* The first key counts one for the query, if there is nothing else to     *)
(* check; what there is to check is looked up from the wrong end of the    *)
(* store and never counted.                                                *)
Counted(q) ==
    IF \/ canceled \/ HasExtra(asked)
       \/ IndexScan(asked, SearchPrefixes(asked)[q], DateInKey) = {}
    THEN 0 ELSE 1

(* count++ reads the variable... *)
CountScan(q) ==
    /\ search[q].at = "counting"
    /\ search' = [search EXCEPT ![q].at = IF Counted(q) > 0 THEN "adding" ELSE "counted",
                                ![q].sum = count.var + Counted(q)]
    /\ UNCHANGED <<closed, count>> /\ CountRest

(* ... and writes it. *)
CountAdd(q) ==
    /\ search[q].at = "adding"
    /\ count' = [count EXCEPT !.var = search[q].sum]
    /\ search' = [search EXCEPT ![q].at = "counted"]
    /\ UNCHANGED closed /\ CountRest

CountClose(q) ==
    /\ search[q].at = "counted"
    /\ closed' = [closed EXCEPT ![q] = TRUE]
    /\ search' = [search EXCEPT ![q].at = "gone"]
    /\ UNCHANGED count /\ CountRest

Count == CountStart \/ CountReturns \/ \E q \in Queries : CountScan(q) \/ CountAdd(q) \/ CountClose(q)

QueryNext ==
    \/ Loop \/ Bump \/ AccessEnds \/ Read \/ Leave \/ Cancel \/ Count
    \/ \E q \in Queries : Search(q)
    \/ \E s \in Serials : Evict(s) \/ Erase(s)

(* Goroutines that can go on do; the reader reads while it has not left. *)
QueryFairness ==
    /\ WF_queryVars(Loop) /\ WF_queryVars(Bump \/ AccessEnds) /\ WF_queryVars(Read)
    /\ \A q \in 1..MaxQueries : WF_queryVars(q \in DOMAIN search /\ Search(q))

QuerySpec == QueryInit /\ [][QueryNext]_queryVars

-----------------------------------------------------------------------------
(* The loop sends no more than the limit of the filter and of the store,    *)
(* each result of a search once, nothing the filter does not name, and     *)
(* whole events newest first, whichever search is slow, as long as their   *)
(* search has found no stub, which carries no date.  A count is never      *)
(* above the number of ids asked for, in whatever order its goroutines     *)
(* write (query.go:36-39, :67-124, priority/queue, count.go:67-71).        *)
NewestUpToLimit ==
    /\ asked # <<>> => Len(emitted) <= Limit
    /\ IsInjective(emitted)
    /\ \A i \in DOMAIN emitted : SearchPrefixes(asked)[emitted[i].q] \in KeysOf(emitted[i].ser)
    /\ asked # <<>> => count.answer <= Len(SearchPrefixes(asked))
    /\ \A i, j \in DOMAIN emitted :
        /\ i < j /\ emitted[i].whole /\ emitted[j].whole
        /\ \A k \in 1..j : emitted[k].q = emitted[j].q => emitted[k].whole
        => emitted[i].date >= emitted[j].date

(* When the reader reads on and nothing is canceled, a query ends with all *)
(* its goroutines and with the access of every event it sent counted,      *)
(* though a search may have more results than the channel has room for     *)
(* once the limit stopped the loop: then it ends only if they fit          *)
(* (query.go:102-125, :202-211, access.go:56-73).                          *)
EndsWhenRead ==
    loop.at = "spawn" ~>
        \/ canceled \/ reader = "left"
        \/ /\ loop.at = "done" /\ reader = "ended" /\ access.at = "gone"
           /\ \A i \in DOMAIN emitted : emitted[i].ser \in bumped
           /\ \A q \in DOMAIN search :
                  search[q].at = "gone" \/ (search[q].at = "put" /\ AtLimit)

(* A query that ended by itself, with its reader reading to the end, has   *)
(* sent every event of the store the filter matches, up to the limit: "the *)
(* channel should be closed after the events are all delivered"            *)
(* (store_interface.go:23).                                                *)
AllDelivered ==
    /\ loop.at = "done" /\ ~canceled /\ changes = 0 /\ asked.limit = 0
    => \A s \in Serials :
          store[s] = "full" /\ Matches(asked, s) => \E i \in DOMAIN emitted : emitted[i].ser = s
=============================================================================
