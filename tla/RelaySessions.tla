--------------------------- MODULE RelaySessions ---------------------------
(***************************************************************************)
(* The websocket side of the relay (app/).  Every connection has a reader  *)
(* goroutine, which handles the client's messages one after the other, and *)
(* a watcher goroutine, which pings the client and kills the connection    *)
(* when a ping fails.  A REQ starts one query goroutine per filter, which  *)
(* sends what the store returns, and registers a listener for the          *)
(* subscription id; an accepted EVENT is stored and broadcast to the       *)
(* listeners of all connections by the reader that received it.            *)
(*                                                                         *)
(* The store is what eventstore.Store promises: a saved event is found by  *)
(* every later query.  Events are those the checks before AddEvent let     *)
(* pass (date, id, signature) and are not ephemeral, which are neither     *)
(* stored nor broadcast; deletions are vetoed and change nothing.  A       *)
(* message that is answered without any change of state (a COUNT, a REQ of *)
(* a client that has yet to authenticate) is no step.                      *)
(*                                                                         *)
(* A definition marked "seeded fault" is a mistake one could make in the   *)
(* definition after it; no action uses it.                                 *)
(***************************************************************************)
EXTENDS Integers, Sequences, FiniteSets

CONSTANTS
    Conns,        \* connections
    Subs,         \* subscription ids
    Keys,         \* the public keys clients authenticate with
    Events,       \* events the relay accepts
    Author,       \* Author[e]: the public key that signed event e
    Recipients,   \* Recipients[e]: the keys in its "p" tags
    Privileged,   \* the events of a privileged kind
    ReqFilters,   \* the filter lists a REQ may carry
    AuthRequired, \* Info.Limitation.AuthRequired
    AllowIPs,     \* the connections whose address is in Config.AllowIPs
    IgnoreAfter,  \* messages are dropped after more offenses than this
    Publishers,   \* bound: the connections on which events are sent
    Subscribers,  \* bound: the connections on which REQs are sent
    MaxFilters,   \* bound: filters of one REQ
    MaxReqs,      \* bound: REQs of one life of the relay process
    NoKey         \* AuthPubKey of a client that has not authenticated

(***************************************************************************)
(* A filter as far as it is told apart here: the events it matches, the    *)
(* keys in its authors and "#p" tags, whether it asks for privileged kinds *)
(* by name, and whether it is accepted ("ok"), turned down by one of the   *)
(* checks whose reason becomes "blocked", or makes the store's query fail. *)
(***************************************************************************)
FilterType ==
    [matches : SUBSET Events, names : SUBSET Keys, kinds : BOOLEAN,
     fate : {"ok", "blocked", "fails"}]

ASSUME SessionAssumption ==
    /\ DOMAIN Author = Events /\ DOMAIN Recipients = Events
    /\ Privileged \subseteq Events
    /\ \A fs \in ReqFilters : fs \in Seq(FilterType) /\ Len(fs) \in 1..MaxFilters
    /\ AuthRequired \in BOOLEAN
    /\ AllowIPs \subseteq Conns
    /\ IgnoreAfter \in Nat
    /\ Publishers \subseteq Conns /\ Subscribers \subseteq Conns
    /\ MaxFilters \in Nat
    /\ MaxReqs \in Nat
    /\ NoKey \notin Keys

None == 0

VARIABLES
    saved,     \* the events in the store (durable)
    conn,      \* per connection: its socket, watcher, context, key, offenses
    reader,    \* per connection: where its reader is and what it works on
    listeners, \* listeners[c][s]: the REQ that listens there, or None
    reqs,      \* the REQs received, each with its query goroutines
    sent,      \* ghost: sent[c]: the events sent, with their subscription
    steady,    \* ghost: the listeners there were when a broadcast began
    due        \* ghost: due[r]: the events the client of REQ r must get

ghosts == <<steady, due>>
vars == <<saved, conn, reader, listeners, reqs, sent, ghosts>>

Slots == Conns \X Subs
ReqNos == 1..MaxReqs
Reqs == DOMAIN reqs

-----------------------------------------------------------------------------
PartiesButAuthor(e) == Recipients[e]  \* seeded fault: the author is left out

(* The parties of a private event. *)
Parties(e) == {Author[e]} \cup Recipients[e]

DoneAlone(r) == reqs[r].canceled  \* seeded fault: not derived from the connection

(* The context of a REQ is done: it was canceled, or its connection was. *)
Done(r) == reqs[r].canceled \/ ~conn[reqs[r].conn].ctx

FiltersMatch(r, e) ==
    \E k \in DOMAIN reqs[r].filters : e \in reqs[r].filters[k].matches

IsAuthed(c) == AuthRequired => conn[c].key # NoKey

BroadcastsToAll(c, e) == IsAuthed(c)  \* seeded fault: whoever has a key

(* The check of BroadcastEvent: a private event goes to its parties only. *)
Broadcasts(c, e) ==
    /\ IsAuthed(c)
    /\ AuthRequired /\ e \in Privileged => conn[c].key \in Parties(e)

(* FilterPrivileged: a filter that asks for privileged kinds must name the *)
(* client among its authors or recipients.                                 *)
Restricted(c, f) ==
    /\ AuthRequired /\ c \notin AllowIPs
    /\ f.kinds /\ conn[c].key \notin f.names

HearsAlways(c) == reader[c].at = "read"  \* seeded fault: offenses do not count

(* The reader is about to handle a message of the client. *)
Hears(c) == reader[c].at = "read" /\ conn[c].offenses <= IgnoreAfter

(* WriteEnvelope: an event for the subscription s of connection c. *)
Write(c, s, e) ==
    sent' = IF conn[c].sock = "open" THEN [sent EXCEPT ![c] = @ \cup {<<s, e>>}]
                                     ELSE sent

NoConn == [sock |-> "none", watch |-> "off", ctx |-> FALSE, key |-> NoKey,
           offenses |-> 0]
NewConn == [sock |-> "open", watch |-> "on", ctx |-> TRUE, key |-> NoKey,
            offenses |-> 0]
Reader(at) == [at |-> at, req |-> None, event |-> {}, todo |-> {}, hit |-> {}]
NoListener == [s \in Subs |-> None]

Init ==
    /\ saved = {}
    /\ conn = [c \in Conns |-> NoConn]
    /\ reader = [c \in Conns |-> Reader("none")]
    /\ listeners = [c \in Conns |-> NoListener]
    /\ reqs = <<>>
    /\ sent = [c \in Conns |-> {}]
    /\ steady = [c \in Conns |-> {}]
    /\ due = [r \in ReqNos |-> {}]

(* The process ends and is started again: only the store is left. *)
Restart ==
    /\ conn' = [c \in Conns |-> NoConn]
    /\ reader' = [c \in Conns |-> Reader("none")]
    /\ listeners' = [c \in Conns |-> NoListener]
    /\ reqs' = <<>>
    /\ sent' = [c \in Conns |-> {}]
    /\ steady' = [c \in Conns |-> {}]
    /\ due' = [r \in ReqNos |-> {}]
    /\ UNCHANGED saved

-----------------------------------------------------------------------------
(***************************************************************************)
(* The life of a connection.                                               *)
(***************************************************************************)
Connect(c) ==
    /\ conn[c].sock = "none"
    /\ conn' = [conn EXCEPT ![c] = NewConn]
    /\ reader' = [reader EXCEPT ![c] = Reader("read")]
    /\ UNCHANGED <<saved, listeners, reqs, sent, ghosts>>

(* The client leaves, or no longer takes what is written to it; messages   *)
(* it has sent before may still be read.                                   *)
Breaks(c) ==
    /\ conn[c].sock = "open"
    /\ conn' = [conn EXCEPT ![c].sock = "broken"]
    /\ UNCHANGED <<saved, reader, listeners, reqs, sent, ghosts>>

(* ReadMessage fails, also because no pong came in time: the reader        *)
(* returns and leaves the rest to the watcher.                             *)
ReaderReturns(c) ==
    /\ reader[c].at = "read"
    /\ reader' = [reader EXCEPT ![c] = Reader("gone")]
    /\ UNCHANGED <<saved, conn, listeners, reqs, sent, ghosts>>

(* A ping fails and the watcher calls kill, which cancels the context...   *)
PingFails(c) ==
    /\ conn[c].watch = "on"
    /\ conn[c].sock = "broken"
    /\ conn' = [conn EXCEPT ![c].watch = "kill", ![c].ctx = FALSE]
    /\ UNCHANGED <<saved, reader, listeners, reqs, sent, ghosts>>

(* ... and then removes the listeners of the connection. *)
RemoveListener(c) ==
    /\ conn[c].watch = "kill"
    /\ conn' = [conn EXCEPT ![c].watch = "off"]
    /\ listeners' = [listeners EXCEPT ![c] = NoListener]
    /\ UNCHANGED <<saved, reader, reqs, sent, ghosts>>

-----------------------------------------------------------------------------
(***************************************************************************)
(* AUTH: the first key is taken.  The same key again is ignored.  Another  *)
(* key is taken as well, but then Authed is closed a second time: the      *)
(* panic ends the process.                                                 *)
(***************************************************************************)
Auth(c, k) ==
    /\ Hears(c)
    /\ conn[c].key = NoKey
    /\ conn' = [conn EXCEPT ![c].key = k]
    /\ UNCHANGED <<saved, reader, listeners, reqs, sent, ghosts>>

AuthPanics(c, k) ==
    /\ Hears(c)
    /\ conn[c].key \notin {NoKey, k}
    /\ Restart

(* CLOSE: the listener goes, and with it the REQ that was stored last.     *)
RemoveListenerId(c, s) ==
    LET r == listeners[c][s] IN
    /\ Hears(c)
    /\ r # None
    /\ listeners' = [listeners EXCEPT ![c][s] = None]
    /\ reqs' = [reqs EXCEPT ![r].canceled = TRUE]
    /\ UNCHANGED <<saved, conn, reader, sent, ghosts>>

-----------------------------------------------------------------------------
(***************************************************************************)
(* REQ: the filters one after the other, each with a query goroutine that  *)
(* starts at once, and the listener last.                                  *)
(***************************************************************************)
Req(c, s, fs) ==
    /\ Hears(c) /\ IsAuthed(c)
    /\ c \in Subscribers /\ Len(reqs) < MaxReqs
    /\ reqs' = Append(reqs, [conn |-> c, sub |-> s, filters |-> fs,
                             queries |-> <<>>, wg |-> 0, canceled |-> FALSE])
    /\ reader' = [reader EXCEPT ![c].at = "filter", ![c].req = Len(reqs) + 1]
    /\ due' = [due EXCEPT ![Len(reqs) + 1] = saved]
    /\ UNCHANGED <<saved, conn, listeners, sent, steady>>

(* What handleFilter makes of one filter that is not rejected: the         *)
(* WaitGroup is told before the store is asked, and nothing ever tells it  *)
(* that the query has ended.                                               *)
HandleFilter(c) ==
    LET r == reader[c].req
        f == reqs[r].filters[Len(reqs[r].queries) + 1]
        fails == f.fate = "fails"
        q == [at |-> IF fails THEN "cut" ELSE "search", left |-> {}]
    IN  /\ reader[c].at = "filter"
        /\ Len(reqs[r].queries) < Len(reqs[r].filters)
        /\ f.fate # "blocked" /\ ~Restricted(c, f)
        /\ reqs' = [reqs EXCEPT ![r].queries = Append(@, q), ![r].wg = @ + 1]
        /\ conn' = [conn EXCEPT ![c].offenses = @ + IF fails THEN 1 ELSE 0]
        /\ UNCHANGED <<saved, reader, listeners, sent, ghosts>>

(* A filter is rejected and so is the REQ.  Its context is canceled unless *)
(* the reason begins with "blocked".                                       *)
RejectFilter(c) ==
    LET r == reader[c].req
        f == reqs[r].filters[Len(reqs[r].queries) + 1]
    IN  /\ reader[c].at = "filter"
        /\ Len(reqs[r].queries) < Len(reqs[r].filters)
        /\ f.fate = "blocked" \/ Restricted(c, f)
        /\ reqs' = [reqs EXCEPT ![r].canceled = f.fate # "blocked"]
        /\ reader' = [reader EXCEPT ![c] = Reader("read")]
        /\ UNCHANGED <<saved, conn, listeners, sent, ghosts>>

(* All filters were handled.  A goroutine is left waiting for wg (what it  *)
(* does when the counter is 0 again never comes and is no action), and the *)
(* listener takes the place of an earlier one.                             *)
SetListener(c) ==
    LET r == reader[c].req IN
    /\ reader[c].at = "filter"
    /\ Len(reqs[r].queries) = Len(reqs[r].filters)
    /\ listeners' = [listeners EXCEPT ![c][reqs[r].sub] = r]
    /\ reader' = [reader EXCEPT ![c] = Reader("read")]
    /\ UNCHANGED <<saved, conn, reqs, sent, ghosts>>

(***************************************************************************)
(* A query goroutine, with the store's own behind the channel.             *)
(***************************************************************************)
Query(r, k) == reqs[r].queries[k]
SetQuery(r, k, q) == reqs' = [reqs EXCEPT ![r].queries[k] = q]

Search(r, k) ==
    /\ Query(r, k).at = "search"
    /\ SetQuery(r, k, [at |-> "send",
                       left |-> saved \cap reqs[r].filters[k].matches])
    /\ UNCHANGED <<saved, conn, reader, listeners, sent, ghosts>>

(* One result.  A client that is not a party of a private event does not   *)
(* get it, nor anything after it: the goroutine returns.                   *)
SendResult(r, k) ==
    LET c == reqs[r].conn IN
    /\ Query(r, k).at = "send"
    /\ \E e \in Query(r, k).left :
          IF Broadcasts(c, e) \/ c \in AllowIPs
            THEN /\ Write(c, reqs[r].sub, e)
                 /\ SetQuery(r, k, [Query(r, k) EXCEPT !.left = @ \ {e}])
            ELSE /\ SetQuery(r, k, [at |-> "cut", left |-> {}])
                 /\ UNCHANGED sent
    /\ UNCHANGED <<saved, conn, reader, listeners, ghosts>>

(* The channel is closed after the last result, by a store that does so:   *)
(* the IC agent never does.                                                *)
QueryDrained(r, k) ==
    /\ Query(r, k).at = "send"
    /\ Query(r, k).left = {}
    /\ SetQuery(r, k, [at |-> "drained", left |-> {}])
    /\ UNCHANGED <<saved, conn, reader, listeners, sent, ghosts>>

(* Where several cases are ready the select takes any of them. *)
QueryCanceled(r, k) ==
    /\ Query(r, k).at \in {"search", "send"}
    /\ Done(r)
    /\ SetQuery(r, k, [at |-> "cut", left |-> {}])
    /\ UNCHANGED <<saved, conn, reader, listeners, sent, ghosts>>

-----------------------------------------------------------------------------
(***************************************************************************)
(* EVENT: AddEvent stores and broadcasts.  A duplicate the store reports   *)
(* changes nothing; a stub it made whole again is broadcast once more.     *)
(***************************************************************************)
SaveEvent(c, e) ==
    /\ Hears(c) /\ IsAuthed(c)
    /\ c \in Publishers
    /\ saved' = saved \cup {e}
    /\ reader' = [reader EXCEPT ![c].at = "add", ![c].event = {e}]
    /\ UNCHANGED <<conn, listeners, reqs, sent, ghosts>>

AudienceButSender(c) == Slots \ ({c} \X Subs)  \* seeded fault: not the sender

(* listeners.Range: whoever is there all the time is visited, once. *)
Audience(c) == Slots

BroadcastEvent(c) ==
    /\ reader[c].at = "add"
    /\ reader' = [reader EXCEPT ![c].at = "cast", ![c].todo = Audience(c)]
    /\ steady' = [steady EXCEPT ![c] =
                    {listeners[slot[1]][slot[2]] : slot \in Slots} \ {None}]
    /\ UNCHANGED <<saved, conn, listeners, reqs, sent, due>>

Visit(c) ==
    /\ reader[c].at = "cast" /\ reader[c].hit = {}
    /\ \E slot \in reader[c].todo :
          reader' = [reader EXCEPT
              ![c].todo = @ \ {slot},
              ![c].hit = {listeners[slot[1]][slot[2]]} \ {None}]
    /\ UNCHANGED <<saved, conn, listeners, reqs, sent, ghosts>>

(* The listener may have been removed by now; it is served all the same. *)
Serve(c) ==
    /\ reader[c].at = "cast"
    /\ \E r \in reader[c].hit, e \in reader[c].event :
          IF FiltersMatch(r, e) /\ Broadcasts(reqs[r].conn, e)
            THEN Write(reqs[r].conn, reqs[r].sub, e)
            ELSE UNCHANGED sent
    /\ reader' = [reader EXCEPT ![c].hit = {}]
    /\ UNCHANGED <<saved, conn, listeners, reqs, ghosts>>

Listens(r) == listeners[reqs[r].conn][reqs[r].sub] = r

BroadcastReturns(c) ==
    /\ reader[c].at = "cast"
    /\ reader[c].todo = {} /\ reader[c].hit = {}
    /\ due' = [r \in ReqNos |-> IF r \in steady[c] /\ Listens(r)
                                  THEN due[r] \cup reader[c].event ELSE due[r]]
    /\ reader' = [reader EXCEPT ![c] = Reader("read")]
    /\ steady' = [steady EXCEPT ![c] = {}]
    /\ UNCHANGED <<saved, conn, listeners, reqs, sent>>

-----------------------------------------------------------------------------
Message(c) ==
    \/ \E k \in Keys : Auth(c, k) \/ AuthPanics(c, k)
    \/ \E s \in Subs : RemoveListenerId(c, s)
    \/ \E s \in Subs, fs \in ReqFilters : Req(c, s, fs)
    \/ \E e \in Events : SaveEvent(c, e)

(* What a reader does on its own, once it has a message. *)
Handle(c) ==
    \/ HandleFilter(c) \/ RejectFilter(c) \/ SetListener(c)
    \/ BroadcastEvent(c) \/ Visit(c) \/ Serve(c) \/ BroadcastReturns(c)

Watcher(c) == PingFails(c) \/ RemoveListener(c)

RunQuery(r, k) ==
    \/ Search(r, k) \/ SendResult(r, k) \/ QueryDrained(r, k)
    \/ QueryCanceled(r, k)

Next ==
    \/ \E c \in Conns : \/ Connect(c) \/ Breaks(c) \/ ReaderReturns(c)
                        \/ Message(c) \/ Handle(c) \/ Watcher(c)
    \/ \E r \in Reqs : \E k \in DOMAIN reqs[r].queries : RunQuery(r, k)
    \/ Restart

Spec == Init /\ [][Next]_vars

(* Goroutines that can run are scheduled, and the ping ticker ticks.       *)
(* Nothing is assumed of the clients, nor of the store closing a channel.  *)
HasQuery(r, k) == r \in Reqs /\ k \in DOMAIN reqs[r].queries

Fairness ==
    /\ \A c \in Conns : WF_vars(Handle(c)) /\ WF_vars(Watcher(c))
    /\ \A r \in ReqNos, k \in 1..MaxFilters :
          WF_vars(/\ HasQuery(r, k)
                  /\ Search(r, k) \/ SendResult(r, k) \/ QueryCanceled(r, k))

FairSpec == Spec /\ Fairness

-----------------------------------------------------------------------------
(* The type invariant.  A client's offenses stop counting soon after the   *)
(* limit: its messages are dropped from then on.                           *)
QueryType == [at : {"search", "send", "drained", "cut"}, left : SUBSET Events]

TypeOK ==
    /\ saved \in SUBSET Events
    /\ \A c \in Conns :
          /\ conn[c].sock \in {"none", "open", "broken"}
          /\ conn[c].watch \in {"off", "on", "kill"}
          /\ conn[c].ctx \in BOOLEAN
          /\ conn[c].key \in Keys \cup {NoKey}
          /\ conn[c].offenses \in 0..(IgnoreAfter + MaxFilters)
          /\ reader[c].at \in {"none", "read", "filter", "add", "cast", "gone"}
          /\ reader[c].req \in Reqs \cup {None}
          /\ reader[c].event \in SUBSET Events
          /\ reader[c].todo \in SUBSET Slots
          /\ reader[c].hit \in SUBSET Reqs
          /\ listeners[c] \in [Subs -> Reqs \cup {None}]
          /\ sent[c] \in SUBSET (Subs \X Events)
          /\ steady[c] \in SUBSET Reqs
    /\ Len(reqs) <= MaxReqs
    /\ \A r \in Reqs :
          /\ reqs[r].conn \in Conns
          /\ reqs[r].sub \in Subs
          /\ reqs[r].filters \in ReqFilters
          /\ reqs[r].queries \in Seq(QueryType)
          /\ reqs[r].wg \in Nat
          /\ reqs[r].canceled \in BOOLEAN
    /\ due \in [ReqNos -> SUBSET Events]

(* "only authenticated users may get these events who also match one of    *)
(* the parties in the conversation" (filterpriv.go:18), whether they come  *)
(* from a query by id, a query by kind or a broadcast.                     *)
PrivateToParties ==
    \A c \in Conns : \A m \in sent[c] :
        AuthRequired /\ m[2] \in Privileged =>
            \/ conn[c].key = Author[m[2]]
            \/ conn[c].key \in Recipients[m[2]]
            \/ c \in AllowIPs

(* A client with a standing subscription has what it is due: every         *)
(* matching event that was stored when its REQ came in, and every one      *)
(* whose broadcast began after its listener was set, unless one of its     *)
(* queries was cut short or the event is private to others.  (An event     *)
(* that is stored while the REQ is handled may miss both.)                 *)
Drained(r) ==
    \A k \in DOMAIN reqs[r].queries : Query(r, k).at = "drained"

MayHave(c, e) ==
    AuthRequired /\ e \in Privileged =>
        conn[c].key = Author[e] \/ conn[c].key \in Recipients[e]

DueDelivered ==
    \A r \in Reqs :
        LET c == reqs[r].conn IN
        Listens(r) /\ conn[c].sock = "open" /\ Drained(r) =>
            \A e \in due[r] : FiltersMatch(r, e) /\ MayHave(c, e)
                                => <<reqs[r].sub, e>> \in sent[c]

(* No query outlives a broken connection for ever, not even one whose      *)
(* store never closes its channel: "all inherited from the main connection *)
(* context" (listener.go:72).                                              *)
Running(r, k) == HasQuery(r, k) /\ Query(r, k).at \in {"search", "send"}

QueriesEnd ==
    \A r \in ReqNos, k \in 1..MaxFilters :
        (Running(r, k) /\ conn[reqs[r].conn].sock = "broken") ~> ~Running(r, k)

(* "when all events have been loaded from databases and dispatched we can  *)
(* cancel the context and fire the EOSE message" (envelopes.go:173): the   *)
(* WaitGroup of a standing REQ comes to 0 once its queries have ended.     *)
Loaded(r) == r \in Reqs /\ Listens(r) /\ Drained(r)

EoseComes ==
    \A r \in ReqNos : Loaded(r) ~> (Loaded(r) => reqs[r].wg = 0)

=============================================================================
