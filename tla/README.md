# A TLA+ model of replicatr

replicatr is a nostr relay in Go. Clients send it signed *events* over
websockets and ask for events with *filters*. The relay keeps events in a
badger database that may be the first level (L1) of a two level store, whose
second level (L2) is a canister on the Internet Computer that several relays
share. A garbage collector keeps the first level within a size.

This directory models the parts of that program where the order of steps
matters (which goroutine runs first, what a transaction has seen, what a crash
leaves behind) and those where a value does (carries between words, bytes that
are written and read, a key that several parties combine). The models are
written from the code under `src/`; line numbers below are lines of it.

## 1. Inventory

| Component | State | Operations | Who calls it | Hard behaviour | What makes it correct |
|---|---|---|---|---|---|
| **Badger event store** `pkg/nostr/eventstore/badger` (save, delete, access, lib, wipe) | per event: a record, one key per index, an access counter, all under one serial; the sequence of serials; a stub in place of a record | `SaveEvent`, `DeleteEvent`, `IncrementAccesses`, `Wipe`, `Init`, `SerialKey` | readers of all connections, query goroutines, the poller of the L2 | lookup and update are two transactions; counters are written after the query; serials are leased | a whole record has all its keys; nothing else is left behind; what was acknowledged is stored; one record per event; a serial is never used twice |
| **Garbage collector** (garbagecollector, gccount, gcmark, gcsweep) | what is marked, a write batch | count and mark; sweep stream by stream; ticker | one goroutine | works from marks that are old by then; its batch never conflicts and may commit in parts | the store comes back within the high water mark and nothing is torn by a sweep |
| **Query pipeline** (query, preparequeries, count) | results channels, a heap of one result per search, limits | `QueryEvents`, search per index, merge by date, `AccessLoop`, `CountEvents` | `handleFilter`, the L2 store | channels closed and drained by the same goroutine, sends without a select, a counter read while it is written | every match up to the limit, newest first, and all goroutines end |
| **Migrations, export, import, rescan** | files | read, rewrite | the command line | none while serving | - |
| **Two level store** `l2`, `IC`, `IConly`, `badgerbadger` | the two stores, the time of the last poll, `EventSignal` | merged queries, `Revive` of stubs, polling, saving on both levels | the relay's hooks | partial failure, duplicates, overlap of polls, a channel nobody reads | an event is returned once, whole, whichever level holds it; an event of another relay is broadcast once |
| **Internet Computer agent** `pkg/ic/agent` | - | query, update and their streams | the L2 store | its channel is never closed | - |
| **Canister** `cmd/canister` | access list, event table | methods, one message at a time | agents of several relays | roles that remove each other | a role does what its rank allows |
| **Connections** `app/wshandler`, `wsread`, `wswatcher`, `wsprocess` | socket, context, key, offenses | connect, read loop, ping, `kill`, AUTH | clients | reader and watcher run at once; kill races with a REQ | no goroutine or listener outlives its connection; a noisy client is muted |
| **Subscriptions and queries** `app/envelopes`, `handlefilter`, `listener`, `filterpriv`, `policiesfilters` | listener map, one context and WaitGroup per REQ, query goroutines | REQ, CLOSE, EOSE | readers | REQ takes several steps, broadcasts of others run in between | nothing due is missed; private events reach parties only; rejected REQs stop; EOSE is sent |
| **Adding and broadcasting** `app/adding`, `broadcasting`, `policiesevents` | - (store and listener map) | `AddEvent`, `BroadcastEvent` | readers, the poller's broadcaster | iterates over a map that changes | as above |
| **Deletion requests** `app/handledelete` | - | kind 5 events | readers | every deletion is vetoed in the shipped relay (`OverrideDelete`) | - |
| **Counts** `app/handlecount` | - | COUNT | readers | a data race in the store | - |
| **Chat and access control** `app/chat`, `chatcommands`, `app/acl` | list of roles, stored as events | add, remove, restore | readers | each change names the event it replaces | the list in memory and the list restored from the store agree |
| **Start, shutdown, configuration** | - | wiring of hooks, end of the process | `main` | - | - |
| **Client library** `client`, `subscription`, `pool`, `connection` | the subscriptions of a connection, the goroutines of each, callbacks that wait for an OK | `QuerySync`, `Count`, `Publish`, `Fire`, `Unsub`, the read loop | tools | a mutex held over a channel send; three actors may end a subscription; a write on a lost connection never returns | nobody sends on a closed channel; EOSE comes after the events before it; a call returns |
| **Events, filters, envelopes, wire format** `wire/text`, `wire/array`, `wire/object`, `envelopes`, `event`, `filter`, `tag` | a buffer with its cursor | write, identify, read each message | relay and client | quotes and backslashes in texts; white space; escapes undone in place | what is read is what was sent |
| **Cryptography** `pkg/ec` (`secp256k1`, `ecdsa`, `schnorr`, `musig2`) | words of a number; contexts and sessions of MuSig2 | field and scalar arithmetic, points, signatures, signing by several parties | events, AUTH | carries that are put off; points at infinity; nonces that must not be used twice | results are those of the definitions; a signature made is accepted, an altered one is not |
| **Tools, support libraries** | - | loops and helpers | everything | - | - |

How they interact: a connection's reader calls `AddEvent`, which calls the
store's `SaveEvent` and, on success, sends the event itself to every listener
of every connection. A REQ starts a goroutine per filter that ranges over a
channel a goroutine of the store fills. That goroutine passes the serials of
what it has emitted to `AccessLoop`, which writes access counters. The watcher
of a connection cancels the context all of these inherit. The collector shares
only the database with them.

`PROJECT.json` lists every component with its status, and under `hazards` what
can go wrong in this code that a test would hardly reach, each at its line and
with the properties that would catch it (or why none does).

## 2. Modules

| Module | Models |
|---|---|
| `EventStore` | the badger store: save, delete, query accesses, wipe, collector, crash |
| `RecordLife` | abstract: what the store promises of one serial |
| `EventStoreProofs` | theorems about `EventStore`, and that it implements `RecordLife` |
| `MCEventStore` | symmetry for the runs `store_*` |
| `RelaySessions` | readers, watchers, REQs, queries, listeners, broadcasts, AUTH, restart |
| `RelaySessionsProofs` | theorems about `RelaySessions` |
| `MCRelaySessions` | events, filters and keys for the runs `sessions_*` |
| `TwoLevel` | the two level store: saves and queries on both levels, the poller, restarts |
| `TwoLevelProofs` | theorems about `TwoLevel` |
| `MCTwoLevel` | instance of the run `twolevel` |
| `QueryPipeline` | from a filter to index scans, their merge, access counting, counts |
| `WireText`, `Envelopes` | texts as bytes; every message as it is written, told apart and read |
| `ClientSubscription` | a client's connection: `QuerySync`, `Count`, `Publish` |
| `DeliveryProofs` | theorems about `QueryPipeline` and `ClientSubscription` |
| `MCDelivery` | the way of results, from the store through the wire to the client |
| `FieldVal`, `ModNScalar`, `FieldChains` | arithmetic modulo the field prime and the group order; the chains for roots and inverses |
| `ArithmeticProofs` | theorems about `FieldChains` and `ModNScalar`, and the lemmas about numerals they rest on |
| `FieldProofs` | theorems about `FieldVal` |
| `MCArith` | the three on scaled down numbers, the chains on the real ones |
| `CurveFormulas`, `CurveArith` | points in Jacobian coordinates; one point and the calls on it |
| `Signatures` | secret keys, nonces, ECDSA, Schnorr and the bytes of both |
| `MuSig` | MuSig2 contexts and sessions |
| `CurveProofs` | the theorem about `CurveArith`, and the lemmas about congruences and points it rests on |
| `SignatureProofs` | theorems about `Signatures` and `MuSig`, about the bytes of signatures, and about sums of keys, nonces and partial signatures |
| `MCCrypto` | the three on a curve of 31 points |

Composition: `MCDelivery`, `MCArith` and `MCCrypto` each hold several parts in
one state space, of which a behaviour runs one. `QueryPipeline` starts from the
records `EventStore` can leave (a whole event, a stub, keys without a record),
`TwoLevel` sees of the first level one of these states per event, and
`ClientSubscription` gets the messages `RelaySessions` sends, in any order the
protocol allows.

### EventStore

**One action is one badger transaction.** An `Update` reads and writes
atomically or fails: badger detects conflicts on the keys it has read. A
`View` sees one state. A write batch reads nothing, never conflicts and commits
whenever a transaction is full, so it may commit in any prefix of its
operations.

State: `keys[f]` is the set of serials that have a key with prefix `f` (the
event record, the CreatedAt index, the Id index, the other filter indexes as
one, the access counter); `stub` the records reduced to an event id; `owner`
the event a serial belongs to; `next` the sequence. Per goroutine `pc`, `arg`
and `ser` say which transaction comes next and for what. `gcpc`, `evs`, `idxs`,
`stubs`, `dels` are the collector, its mark lists and its batch. Everything but
the first four is lost in a `Crash`.

| Actions | Code |
|---|---|
| `SaveLookup`, then `SaveRestore` or `SaveSerial` and `SaveCommit`; `SaveFails` | `SaveEvent`: the `View`, then one of the two `Update`s. A stub is made whole with its counter; a whole record is a duplicate; a missing record is passed over |
| `DeleteEvent` | `DeleteEvent` |
| `SearchIndex`, `FetchRecord`, `IncrementAccesses`, `QueryCanceled` | the three transactions of a query, as far as they meet the records |
| `GCMark`, `SweepEvents`, `SweepPrefix`, `FlushBatch`, `SweepDone`, `GCReturn`, `SweepFails` | `GCCount` with `GCMark`, and `GCSweep`: one stream for the events, with an L2 one per prefix for the stubs, and the commits of the batch in between |
| `Crash`, `Wipe` | end of the process with its lease of serials; the wipe command |

Ghosts, which no guard reads: `acked` (events whose client was told OK and that
were not evicted or deleted since), `overtaken` (saves whose record was removed
about the time they looked it up), `torn` (index sweeps that stopped half way)
and `fresh` (records written since the last mark). `faults` bounds crashes and
failures. `acked` is what `SaveEvent` reported; what the client of the relay is
then told does not depend on it and is in `TwoLevel` (`Tell`).

Two goroutines that look an event up before either has saved it both save it:
the two transactions of one have no key in common with those of the other. What
does hold, with two goroutines, is `NoLateDuplicate`: once
an event has a serial, only a save that looked it up before that gives it one
more, so copies never come from publishing again, evicting or restarting.
`SweepReclaims` asks of a sweep that has marked something that it gets below the
low water mark (`Reaches`), which is where `GCMark` stops; that it stops one
event later than it must is what the code does, and no property forbids it.

What the data is reduced to: bytes of keys are a prefix and a serial; every
event counts one unit and every stub one unit; the freshness the collector
sorts by is that of an empty buffer for all events in the code, so it leaves any
order, and a mark may be any set of the right size.

### RelaySessions

Goroutines: a reader and a watcher per connection, a query goroutine per filter
of a REQ (with the store's goroutine behind it). State: the store as the set
`saved`, per connection its socket, context, key and offenses (`conn`) and its
reader's position (`reader`), the listener map, and the REQs received with
their queries and their WaitGroup counter.

| Actions | Code |
|---|---|
| `Connect`, `Breaks`, `ReaderReturns`, `PingFails`, `RemoveListener` | `HandleWebsocket`, the read loop, the ping loop and `kill`, which cancels the context first and removes the listeners after |
| `Auth`, `AuthPanics` | AUTH; a second key closes a closed channel, the panic ends the process |
| `Req`, `HandleFilter`, `RejectFilter`, `SetListener` | REQ, one filter at a time, each with its goroutine; the listener is set last |
| `RemoveListenerId` | CLOSE |
| `Search`, `SendResult`, `QueryDrained`, `QueryCanceled` | the goroutine of `handleFilter` |
| `SaveEvent`, `BroadcastEvent`, `Visit`, `Serve`, `BroadcastReturns` | EVENT: the store, then `listeners.Range`, which reads a listener and serves it in two steps, so a listener that was just removed may still be served |
| `Restart` | the process ends and starts again with its store |

Ghosts: `sent` (what went out to each client), `steady` and `due` (what a
standing subscription has a right to), `rejected`. The code after `wg.Wait()`
that sends EOSE is no action because it cannot be reached: every filter adds to
the WaitGroup and nothing calls `Done` on it.

Looking at the code for this model showed behaviour worth knowing that no
property speaks about, since nothing in the repository says otherwise: a reader
that handles a REQ while the watcher kills the connection sets a listener nobody
removes; an event saved while a REQ is handled may be in neither its query nor
its broadcasts; a private event of others ends a query, and results after it are
lost (`handlefilter.go:120`); a REQ under a subscription id in use takes the
listener's place without canceling the earlier REQ; a REQ whose second filter is
blocked leaves the query of the first one running (`envelopes.go:155`).

### TwoLevel

The relay is wired in one of two ways, `mode`. "ic": the second level is a
canister behind an agent, there is a poller, and pruning deletes records.
`main.go` sets `HasL2` on the badger store only for "badgerbadger" (line 422),
so in "ic" a pruned event keeps its indexes and loses its record (`"hollow"`).
"badgerbadger": the second level is a badger store, pruning leaves stubs,
nothing is polled. Time is counted in periods of the poller's ticker, which is
fixed at 5 seconds whatever `PollFrequency` says.

| Actions | Code |
|---|---|
| `Save` | `SaveEvent`: the L1, then the L2, each of which may fail; then `Tell`, `processEventEnvelope`: `ok` is true since the check of the signature and stays true whatever the levels return, so the client is told OK (`twolevel_ack`) |
| `Poll`, `PollAnswered`, `PollUnanswered`, `PollGoroutine` | the ticker, the query of the L2 since the last poll less the overlap, and the goroutine that saves and signals each event. The agent sets its error in a goroutine after it has returned, so a failed poll looks like an empty one |
| `QueryEvents`, `AnswerL2`, `Query` | the two channels, merged by one goroutine; `Revive` of what has no record, `SaveLoop` |
| `ReaderReturns`, `CancelQuery`, `SaveLoopReturns` | the goroutines that read |
| `Publish`, `Arrive`, `Prune`, `PruneIndexes`, `Tick`, `Restart` | other relays, the collector, time, the process |

Behaviour the model has and no property forbids: the set of events already
returned is keyed by a pointer, so an event that both levels hold comes twice
(`l2.go:145`, `:169`, `:203`, against the comment at `:147`); polled events the
relay knows are signaled again (against `:41`); a stub the L2 does not have is
returned as nil; the sends to `ch`, `saveChan` and `EventSignal` have no select,
so goroutines stay after a cancel; events published while the relay is down are
never polled. The canister ignores the limit of a filter.

### QueryPipeline

`SearchPrefixes` and the operators before it are `PrepareQueries`: which index a
filter uses and with which prefixes. `ScanKeys`, and the fetches and sends after
it, are `QueryEventsSearch`, one goroutine per prefix; `Loop` is the merge by
date with its limit, `Bump` and `AccessEnds` are `AccessLoop`, `Read` and
`Leave` the reader. `Count` is `CountEvents`, whose goroutine reads and writes
the variable without waiting for anyone. `Evict` and `Erase` change records
meanwhile. The keys an index has for an event are a set, and a search goes
through them from the last. `QuerySpec` is the pipeline without fairness, about
which the theorems are; `AskedSpec` of `MCDelivery` is the same in its state
space, for `query_drained`.

What the code does, and the model with it: `createdat.FromKey` reads the last
eight bytes of a key, which are the serial, and `since` starts at the largest
integer and is only ever raised, so a search by date stops at its first key;
a search closes its channel and takes out of it what the
merge has not read (`query_drained`); an ID query with `until` compares it with serials; a filter
that names nothing makes no queries; the text tag prefix is overwritten by the
bare one; results beyond `Buffer` leave the search goroutine blocked once the
limit is reached (`query.go:201`); a reader that stops at a private event leaves
the loop blocked (`handlefilter.go:120`); a count with an extra filter is 0.

### WireText and Envelopes

A message is a sequence of bytes. `WireText` escapes a text into JSON, moves the
cursor of a `Buffer` (position 0 is the end of the input), and undoes escapes.
`Envelopes` writes an envelope (`sent`), with white space around its brackets
and commas or without, finds its label (`Identify`) and reads the rest
(`ReadMatched`). Labels and keys are shortened to the letters that tell them
apart. Objects are read by `encoding/json`, which is external; it is modelled
for the bytes that matter.

`Readable` names what the code does read back. It leaves out, and the model
computes, what it does not: a quote after a backslash never ends a text, so a
text that ends in a backslash is misread (the `inQuotes` of `Buffer.Scan` has no
effect, against its comment); subscription ids are escaped when they are written
and not unescaped when read; an answer to COUNT is read as a request
(`read.go:108-122`, against `process.go:14-15`); a COUNT whose first filter is
empty fails; tags are not escaped in the canonical form an id is the hash of;
`#z` and `#Z` are dropped from filters.

### ClientSubscription

Per subscription its caller, the goroutine of `Start`, its dispatchers, the
mutex with its `holder`, and `unsub`, which tells for each of caller, `Start`
and lost connection how far its `Unsub` is. `Reader` is `MessageReadLoop`,
`Relay` what the relay sends, `Drop` the loss of the connection, `CancelCall` a
context that ends at any step, and `ClientStep` what a subscription's goroutines
do next. A write on a connection that is down sends its error to a channel only
its caller could read (`relay.go:388-391`), so `Fire`, `Unsub` and `Publish`
wait for ever there, and the model with them. `Publish` returns nil when the
connection is lost before the OK (`:454-456`); an AUTH challenge stops the read
loop where nobody waits for it; the number a COUNT asks for never arrives, as
its answer is read as a request.

### FieldVal, ModNScalar, FieldChains

`FieldVal` is one number modulo the prime with the calls made on it; words have
room for more bits than they need, and `magnitude` counts how much of it the
documentation says is used. A call is made where the documented preconditions
allow it; `exact` is what the calls should give. `ModNScalar` is the same for
the order, with full words and a three word accumulator. All words wrap at their
width, so a carry that is lost shows. `FieldChains` runs the addition chains of
`SquareRootVal` and `Inverse` on the exponents (260 bits, in 26 digits of base
1024).

`field.go` says that a product has magnitude 1 and that 64 may be multiplied in;
the third word of a product may be a little above 2^26, so `MulInt(64)` of an
unnormalized product may overflow. No caller does this: `CallerMax` is the
largest magnitude callers use, and `CarrySlack` what a product may leave in that
word above its bits. `RoomAssumption` is what the widths must satisfy for the
column sums, the carries and the folded excess: one inequality per place where
the code says that something fits. The real parameters satisfy it (ten words of
26 bits, the top one of 22, in words of 32; 977 and 64 as the prime's distance
from 2^256; factors up to magnitude 8, negations up to 62 and other callers up
to 63; `CarrySlack` = 2^18 + 1), and so does the instance of `arith`.

### CurveFormulas, CurveArith, Signatures, MuSig

The formulas of `curve.go` are straight-line programs; each register carries its
value, its magnitude, and whether the preconditions held on the way to it.
`result` is the point that is kept, `exact` what the chord and tangent rule
gives. Multiples are computed as the code does:
the endomorphism splits the number, both halves in non-adjacent form; the
generator by windows of bytes.

`Signatures` goes from a key and a stream of nonce candidates (RFC 6979, whose
hash is not modelled: any stream, always the same for the same key) to ECDSA and
Schnorr signatures, the bytes of DER, compact and Schnorr form, bytes altered or
cut, and the party that parses and verifies. `drawn` counts the candidates HMAC
has given, `nonces` are those of them that may be nonces. `schnorr.ParseSignature`
reduces an s that is the order or more, against its comments
(`signature.go:64-68`, `:83-86`): `ReadExactly` says that this, and nothing
else, makes other bytes of a Schnorr signature.

`MuSig` has per party a context (keys known, sorted, tweaked) and sessions
`ses[i][k]` (nonces, partial signatures), with the messages of a session in any order, each
once. A session takes the early nonce of its context if that still has one, or
else one its caller gives it (`externalNonce`, for `WithPreGeneratedNonce`), or
else draws one. The scenarios say which nonces callers give, the same one to
two sessions among them; the code takes it twice, against
`context.go:426-427`, and `NonceUsedOnce` says that there is no other way to use a nonce twice. Partial
signatures that arrive before a party has signed leave it without
a final signature when they were all it waited for (`context.go:604`); with keys
registered one by one and not sorted, each party has its own order, against the
precondition of `context.go:328`, so the scenarios sort there. The sorted keys
are any order of the listed ones without a descent, since `sort.Sort` promises
no more. A key that combines to infinity is left out.

## 3. Runs

Bounds are constants named in the modules. The longest runs (`delivery`,
`twolevel`, `crypto`) take two to three minutes with two workers.

| Run | Instance | Question and answer |
|---|---|---|
| `store_l2` | 2 events, 2 goroutines, 2 serials, 2 faults, L2, no deletions, marks from the first record on | the relay as shipped: indexes, acknowledgements, debris, the bound a sweep leaves, and refinement of `RecordLife` hold |
| `store_nol2` | 2 events, 2 goroutines, 2 serials, 2 faults, no L2, deletions and wipe, both water marks 1, fair collector | a single store: indexes come and go as one; an event that has a serial gets no other but from a save that looked it up before; a sweep gets below the low water mark; the store settles within the high water mark |
| `store_ack` | 2 events, 1 client, no L2 | **violated**: an event that was evicted and is published again is accepted and not stored |
| `sessions_auth` | 2 connections, one publishing and one subscribing, 1 REQ of up to 2 filters, a note and a direct message, AUTH required | private events reach parties only; standing subscriptions get what they are due |
| `sessions_live` | 1 connection that does both, 2 subscription ids, 2 REQs, failing filters, fair goroutines | replaced REQs lose nothing, offenses are bounded, every query of a broken connection ends |
| `sessions_eose` | 1 REQ, fair goroutines | **violated**: the WaitGroup that EOSE waits for never comes to 0 |
| `twolevel` | both ways of wiring, 2 events of which another relay may make one, 1 saver (which stores before the first tick), 3 periods, overlap 2, lag 1, 1 failed poll, 1 fault | polls miss nothing within the overlap; what was fetched is cast; a query of two badger stores closes |
| `twolevel_ack` | 1 event, 1 saver, 2 faults | **violated**: a save fails at both levels, its client is told OK and no level has the event |
| `delivery` | 3 serials (two of one event), 6 filters, limit 3, channels of 1, up to 2 searches, 1 eviction; every kind of message; one `QuerySync` or one `Count` beside a `Publish`, 2 events, 1 message on its way | results are the newest up to the limit; messages are read back; channels are closed once and unused; EOSE is complete; calls end |
| `query_drained` | the store of `delivery`, a filter of two ids | **violated**: a search drains a result the merge has not read, and it is never sent |
| `arith` | prime 2^22 - 131 in 4 words of 6 bits with 3 to spare, order 4013 in 4 words of base 8, up to 3 calls on any of 12 and all 4096 inputs; the real exponents for the chains | values are kept, reductions are exact, chains end at the exponents of root and inverse |
| `crypto` | y^2 = x^3 + 7 over 43 elements, order 31; streams of 3 candidates, 1 altered byte; MuSig2 of 2 or 3 parties in 1 or 2 sessions, with nonces early, given or drawn | points, multiples, signatures and MuSig2 are right |

Why the bounds are enough. Two goroutines and the collector are all the parties
the store's races have: a race is about one serial, and any third goroutine
repeats what the second does. Two events let a mark choose one and leave the
other, and let a serial of one event stand beside that of another. With two
serials an event can be stored, removed and stored again, or stored by both
goroutines. A water mark of 0 or 1 makes the collector run from the first or
the second record on. Two faults let a sweep fail and the process crash after
it. For the sessions, a race is between one subscriber and one publisher, who
are on two connections in `sessions_auth` and on the same one in
`sessions_live`; two filters are needed for one to be rejected after the other
was started; two REQs for one to replace the other.

For `twolevel`, one event of this relay and one of another make every pair of
save, poll, prune and query; a save that begins in the first period may end in
any later one, before or after each poll; three periods fit a poll that fails, the one after
it and one more. For `delivery`, two searches are what a merge needs, a channel
of 1 fills where one of 128 would, and one eviction can fall between a key and
its record; texts are up to three bytes long where the escape and scan rules
look at neighbours (two elsewhere). The arithmetic keeps the layout that makes
it work: more than one word, a shorter top word, a complement of words below a
1, and room for carries; the order is odd and the prime just below a power of
two. The curve has what the code relies on: a prime order below the prime, a
square root by one power, the endomorphism. Hash values may exceed the order,
and candidates for nonces include 0 and the order.

For `EventStore`, `RelaySessions`, `TwoLevel`, `ClientSubscription`,
`QueryPipeline`, `FieldVal`, `ModNScalar`, `FieldChains`, `Signatures` and
`MuSig`, and for the sums of points of `CurveArith`, the theorems below remove
the bounds from the safety properties.

`CHECK_DEADLOCK FALSE` is in every configuration: serials, REQs, calls, time and
faults are bounded, and a relay whose clients are silent stops.

### Fairness

- `EventStore!FairSpec` assumes `WF_vars(Collector)`. `GarbageCollector` is a
  goroutine in a loop over a ticker that only the end of the process leaves;
  a failed sweep goes back to the loop. Crashes and failures are bounded by
  `MaxFaults`. Nothing is assumed of clients.
- `RelaySessions!FairSpec` assumes weak fairness of each reader once it has a
  message (`Handle`), of each watcher, whose ping ticker ticks, and of each
  query goroutine: it can run when it has a result or when its context is done.
  It does **not** assume that a store closes its channel (`QueryDrained`): the
  agent of the Internet Computer never does. Clients may do nothing for ever.
- `TwoLevel!FairSpec` assumes weak fairness of the goroutines of polls and of
  the query, and that a badger L2 answers. Nothing is assumed of the canister,
  of other relays, of clients, or that time passes.
- `QueryPipeline!QueryFairness`: the merge, `AccessLoop` and each search run
  when they can, and the reader reads while it has not left.
- `ClientSubscription!ClientFairness`: a subscription's own goroutines and
  timers run. The relay may never answer.

### Findings

Each is a run of its own with one property; `PROJECT.json` quotes the line of
the repository that says otherwise.

1. `store_ack`: without an L2 the sweep deletes event records and leaves their
   indexes. `SaveEvent` then finds the id, does not find the record, and returns
   success with nothing written.
2. `twolevel_ack`: a client is told OK whatever error its save ends with, since
   nothing sets `ok` back to false.
3. `query_drained`: a search closes its channel of results and drains it while
   the merge reads it, so results are lost.
4. `sessions_eose`: EOSE is never sent for a REQ.

Other disagreements were met with the models and have no run of their own. The
property named is what holds in spite of them, and is checked:

- `SaveEvent` is to "query event by id to ensure we don't try to save
  duplicates" (`save.go:26`), but looks up and writes in two transactions that
  have no key in common, so two goroutines that save one event at the same time
  store it twice, with two serials (`NoLateDuplicate`);
- `createdat.FromKey` "expects to find a datestamp in the 8 bytes before a
  serial in a key" (`createdat.go:41`) and reads the serial; with `since`
  starting at the largest integer (`preparequeries.go:52`, `:179-182`), a search
  that looks at dates ends at its first key and returns nothing
  (`NewestUpToLimit`);
- "Errors are returned when unsafe behavior such as nonce re-use is attempted"
  (`context.go:426-427`): a nonce given to two sessions signs two messages and
  no call fails (`NonceUsedOnce`);
- "The s component must be in the valid range for secp256k1 scalars"
  (`schnorr/signature.go:68`): an s of the order or more is read, reduced
  (`ReadExactly`);
- with deletions under an L2, a deletion between the stream and the flush of a
  sweep brings back a stub without indexes (`FullRecordReachable`; the shipped
  relay vetoes deletions);
- and those named per module above.

## 4. Proofs

The theorems hold for every value of the constants that the assumptions of the
modules allow. `StoreAssumption`, `SessionAssumption`, `TwoLevelAssumption` and
`ClientAssumption` are types, and where a property depends on it, one
inequality. `QueryAssumption` gives events their dates (equal ids, equal dates)
and filters their limits. `CurveArith`, `Signatures` and `MuSig` take from
mathematics and from the choice of the curve:

- `CurveAssumption`: the prime P is 3 modulo 4 and 1 modulo 3, the order N is a
  prime with N < P < 2N, and the points are N (secp256k1 is such a curve);
- `GroupAssumption`: the multiples of the generator are the points, and add as
  their numbers do modulo N. This is the group law of an elliptic curve, which
  is not proved here;
- `RootAssumption`: the power (P + 1) / 4 of a square is a root of it (Fermat);
- `WireAssumption`, `PowerAssumption`, `HashAssumption`: a number of the field
  fits into `Width` bytes, a DER signature is shorter than a byte can count, the
  powers of the base are its powers, and a hash is a number;
- `AddedAssumption`: what is added to a point of `CurveArith` is a point.

`PointsAddUp` takes from the group law only that sums of points are points and
that no point but infinity is its own negation; that the formulas give the sums
is proved.

`MuSig` adds three:

- `ScenariosAssumption`: each party has a secret key, tweaks are numbers, a
  taproot tweak is there, keys are sorted or known to all from the start, and
  a caller gives a session a nonce of its own, by number, or none;
- `TaggedHashes`: hashes of what the parties of a scenario hash are numbers of
  any size, and a nonce is a pair of scalars, which may be 0;
- `KeysCombine`: no scenario's keys, each times its coefficient, sum to infinity
  (the coefficients are hashes of all keys; the code does not look).

The arithmetic asks for what its layout rests on:

- `FieldAssumption`, `RoomAssumption`: more than three words, a modulus
  2^Bits - C1 * Base - C0 of small C0 and C1, and the room described above;
- `ScalarAssumption`: an order just below the power of the base, the complement
  of which takes at most half of the words; `OrderAssumption`: it is prime, which
  only the inverse needs;
- `OperandsAssumption`: inputs are numbers of the width, operands are reduced;
- `ChainAssumption`: the digits have room for 256 bits;
- `FieldPowerAssumption`, `ScalarPowerAssumption`: powers are powers.

TLC evaluates each of them on the instances of the runs.

| Module | Theorem | Statement | Further assumptions |
|---|---|---|---|
| `EventStoreProofs` | `Invariance` | `Spec => []IInv` | `Vetoed` |
| | `TypeCorrect` | `Spec => []TypeOK`, with "no key has a serial still to come" | `Vetoed` |
| | `RecordsReachable` | `Spec => []FullRecordReachable` | `Vetoed` |
| | `KeysConsistent`, `IndexesConsistent` | `NoDebris`, `IndexesAgree` | `Vetoed` |
| | `AckedStays` | `Spec => []AckedIsStored` | `Vetoed`, `HasL2` |
| | `SweepsReclaim` | `Spec => []SweepReclaims` | `Vetoed` |
| | `CopiesAreFew` | `Spec => NoLateDuplicate` | `Vetoed` |
| | `Implements` | `Spec => LifeSpec` | `Vetoed` |
| `RelaySessionsProofs` | `BoundsInvariant`, `Typed` | `Spec => []TypeOK` and its invariant | - |
| | `StandingInvariant` | connections, keys, listeners and broadcasts agree | - |
| | `PrivateStays` | `Spec => []PrivateToParties` | - |
| | `DueComes` | `Spec => []DueDelivered` | - |
| `TwoLevelProofs` | `StoreTyped` | `Spec => []TypeOK` | - |
| | `PollsCounted`, `OverlapSuffices` | `Spec => []PollMissesNothing` and its invariant | `MaxLag + MaxMisses <= PollOverlap` |
| `DeliveryProofs` | `SubscriptionsEnd` | `ClientSpec => []ClosedOnce` | - |
| | `EoseWaits` | `ClientSpec => []EoseComplete` | - |
| | `PublishTrue` | `ClientSpec => []PublishedIsAccepted` | - |
| | `QueriesInOrder`, `QueriesSendNewest` | `QuerySpec => []NewestUpToLimit` and its invariant | - |
| `CurveProofs` | `PointsAddUp` | `CurveSpec => []PointIsSum` | - |
| `SignatureProofs` | `SignedIsAccepted` | `SigSpec => []SignaturesHold` | - |
| | `ReadsExactly` | `SigSpec => []ReadExactly` | - |
| | `SortedAlike`, `PartialVerifies`, `FinalSum` | any order of the keys is sorted to one; what a party signs satisfies the others' equation; the sum of all is a Schnorr signature | - |
| | `NoncesAreNumbered`, `NeverReused` | `MuSigSpec => []NonceUsedOnce` and its invariant | - |
| | `PartiesKeepAgreement` | the inductive invariant of the next two | - |
| | `KeysAndSigsAgree` | `MuSigSpec => []PartiesAgree` | - |
| | `CombinedIsValid` | `MuSigSpec => []FinalIsValid` | - |
| `ArithmeticProofs` | `ChainsAreRight` | `ChainSpec => []ChainsEndRight` | - |
| | `ScalarsAreReduced` | `ScalarSpec => []ReducedExactly` | - |
| `FieldProofs` | `ValuesAreKept` | `FieldSpec => []ValueKept` | - |

### EventStore

`Vetoed == HasL2 => ~Deletes` says that a store with an L2 gets no deletion,
which is how the relay wires it (`OverrideDelete`). `AckedStays` needs `HasL2`:
`store_ack` refutes it without.

None of the invariants is inductive alone. The inductive invariant `IInv` adds
what the transactions rely on without reading it:

- `RecordsIndexed`: a record, whole or stub, has all its keys, so a restore need
  not write them;
- `SerialsOwned`: a serial that was handed out and is not committed is in no key
  and on no list of the collector, so the commit of one goroutine cannot meet a
  sweep of the same serial;
- `BatchBounded`: the batch holds nothing but what was marked, and what is to
  become a stub has a record;
- `StreamsComplete`: what the streams of an index sweep have passed, they have
  missed no key of. With the order of the prefixes (record first) this gives
  that a batch committed in part removes records before their keys;
- `SaveFinds`: a save that has looked a record up finds it again, unless it is
  marked as overtaken.

There is one lemma per action. The lemmas on `FlushBatch` (a cut at any point of
the batch) and on `Rank` and `After` (the order of the prefixes) carry the
argument; `Implements` then maps each step to one of `RecordLife` or a stutter.
`SweepsReclaim` counts: of the whole events nobody has written since the mark,
those not marked are as few as the mark was to leave (`Reaches`), and those
marked are in the batch as soon as the records were streamed. `CopiesAreFew` is
an action property: by `IInv` the serial that a save holds belongs to its event
and is in no index yet, and a lookup that finds a serial leads to no insert.

### RelaySessions

The first invariant (`Types`, `Received`, `Handled`, `Muted`) ties where a
reader stands to the REQ it handles and to the offenses of its client. The
second (`Connected`, `Authorized`, `Listened`, `Past`) says that every REQ is
that of an authorized client, whose key then lasts as long as the process; that
a listener belongs to a REQ of its connection and id that was handled to its
end; and that a REQ with a right to broadcasts is handled no more. `PrivateStays`
adds `PartiesOnly`: whatever was sent to a connection went to a party by its
key, or to an address the configuration exempts, and a key that was sent a
private event does not change. `DueComes` adds two conjuncts: what is due was
sent or a query has it still to send (`Found`), and a broadcast under way has
served a listener or has it still on its list (`Served`).

### TwoLevel

`PollMissesNothing` is a count. Poll number i is made i periods after the start
(`PollsCounted`), and asks for the events since the one before less the overlap.
An event made d periods after the start is in the windows of the polls d to
d + 1 + `PollOverlap`; the polls more than `MaxLag` after d find it in the L2;
of `MaxMisses` + 1 polls in a row one does not fail. So one of those windows is
answered with the event in it if `MaxLag + MaxMisses <= PollOverlap`, which is
an assumption of the module, since an operator chooses the overlap.

### ClientSubscription

The invariant has per subscription three parts and one for `Publish`. `Ended`:
of the three that end a subscription one takes it from live and writes the
CLOSE, and once `Start` has closed the channel nobody holds the mutex.
`GroupCounts`: the wait group is never below the number of dispatchers the EOSE
waits for. `Arriving`: each event the relay has sent before the EOSE is in the
inbox before it, with a dispatcher, or collected. `Publishes`: the callback has
judged an OK the relay has sent before it cancels.

### QueryPipeline

`QueryInvariant` follows a result from the index to the reader:

- `SearchesInOrder`: what is in a search's channel, what it holds and what it
  has still to read follow each other in the order of the index, and nothing is
  left to come of a closed search;
- `TakenInOrder`: what was taken from a search, whether it waits to be sent or
  was sent, comes before all that is still to come of it, and at most one result
  of each search waits;
- `EmittedOnce`: what was sent of a search comes before what waits of it, so
  nothing is sent twice;
- `LoopAt`: from the first result on, every search has a result waiting unless
  it is at its end, and what is sent is the newest of those; the loop goes on
  only below the limit;
- `NewestFirst`: of a search that has found no stub, nothing that waits or is to
  come is newer than a whole event that was sent;
- `CountBound`: a count is at most the number of its goroutines that have ended.

Stubs are what makes the order hard: they carry no date, so one at the head of a
search lets it be taken at any time, and what follows it may be newer than what
was sent. The property and the invariant speak of the searches without stubs.

### MuSig

`NonceInvariant` numbers the nonces of a party. `ContextNonces`: an early nonce
that a context still holds is its first and only one, and no session was made.
`SessionNonces`: a session's nonce is the early one, the one
its caller gave it, or one drawn for it, whose number is the session's, so two
sessions have the same only if it was given to both; the session holds the nonce
or has given it up. `UsedNonces`: a nonce that was used is that of the session it was used in,
which holds it no more, and a session has used one at most.

The other two properties are first a matter of sums. The functions that add up a sequence are recursive; induction over the numbers up to
its length gives the laws of sums: a sum of multiples of the generator is the
multiple by the sum, a sum does not depend on the order (`SumInAnyOrder`), and
what is a combination term by term is one in sum. So the combined key is the
multiple by w, the sum of coefficients times secret keys, in whatever order the
keys are listed; after tweaks it is the multiple by
`parityAcc * w + tweakAcc`, which `tweakKey` keeps (`TweakOnce`). A partial
signature is `f (k1 + b k2) + e a g d` with f and g the signs of nonce and key;
summed over the parties and with the tweaks' product this is
`f k + e f' l`, where k and l are the numbers of nonce and tweaked key, and that
is what `schnorrVerify` asks for (`FinalSum`). For the order of keys, sequences
without a descent that are orders of the same keys are equal: at each place
neither is below the other (`SortedBelow`, by counting).

Then it is a matter of states. `FinalIsValid` is about what a party computes
from its own context and the messages of others, so it needs that these agree:
`AgreementInvariant` says

- `KeysGathered`: a context has some of the keys, each once, or all of them in
  the agreed order with the agreed combined key. A list of as many different
  parties as there are is an order of all (`ListedIsOrder`);
- `SessionsNumbered`: a session is made when its context has all keys, and the
  nonces of others that it has are those they hold, or will hold, for that
  session, early, given or drawn;
- `SessionsSigned`: a session without its nonce has all nonces of others, and
  either one of its own is zero and it has no signature, or it has the one that
  `PartialSig` gives for the agreed key and nonces. What it has of others'
  signatures they have made. A final signature that is wrong is of different
  messages, or the nonces cancel.

That a session changes leaves what others say of it, because a signature that
was made stays (`OthersSound`).

### CurveArith

`PointIsSum` is proved from `StandsForSum`: the exact point is one of the curve,
and the result *represents* it: normalized numbers (x', y', z) with z not 0 such
that x' is x z^2 and y' is y z^3, or nothing for infinity. A formula is a
program on registers, so there are two steps for each:

- what the instructions leave: one lemma per kind of instruction says that the
  register then holds a number congruent to a polynomial in the numbers before,
  of a magnitude that the next one allows. This follows the code line by line,
  with the names that operand and result share when one is stored over the
  other;
- what the polynomials are: over the third coordinate of the sum, those of the
  chord or of the tangent. With h the difference of the first coordinates and r
  that of the second, an identity of polynomials over the integers gives each
  coordinate, and that h has an inverse modulo the prime gives the slope. Where
  the first coordinates agree the points are the same or cancel each other,
  since a square has two roots.

### Signatures

`SignInvariant` says of each variable where it comes from: the key and the hash
are drawn from their sets, `nonces` are scalars other than 0, each one up to
`iteration` gave no signature, and `made` is what the scheme made of the next
one, or of a custom nonce. `WireInvariant` says that what is on the wire are
bytes. The work is in the lemmas on values, in the order of the file:

- congruence: its laws, the inverse modulo a prime (by the least positive
  combination of the two), from which products have no zero divisors;
- points: what is scaled by another third coordinate is the same point; a
  multiple is the one by the group's law; the root of a square is one of two;
- `VerifyExact`: a signature is accepted if and only if r is the remainder of x
  of the point u1 G + u2 Q. Then `s k = h + r d` gives that what was signed is
  accepted, that its negation is, and that the code of a compact signature leads
  back to the key; for Schnorr the oddness of key and nonce is carried through
  the same argument;
- bytes: a number is written in digits and read from them, both ways and for any
  width; the DER form of an integer is canonical, so that what is parsed is
  written as the same bytes again. The parser's checks are used one by one: each
  rules out one other way to write a signature;
- keys: each of the forms is read as the point it was made from, and what is
  read is written as the same bytes, but for the oddness of a hybrid key.

`ReadsExactly` is about altered bytes too, so it does not follow from what was
made: it says of **any** bytes on the wire what being accepted means.

### FieldVal, ModNScalar, FieldChains

The three invariants say what the variables stand for. `ChainInvariant`: each
register holds, after so many steps, the exponent that the comments of the code
name. `ScalarInvariant`: the words are those of the exact number.
`FieldInvariant`: no word exceeds the magnitude times its bits (with
`CarrySlack` for the third), the words stand for a number congruent to the
exact one, and normalized words are those of the exact one. The work is in
what the calls compute, by folds over words:

- numerals: the words of a number determine it, words below the base exist for
  every number below the power, and a carry moved one place up leaves the value;
- columns: the sum over columns of a product is the product; a column of what is
  allowed stays below `ColumnMax`, which a double word holds with the carry into
  it (three words of an accumulator, for scalars);
- reductions: what is above the top word times the complement is congruent to
  it; each of the passes is so, and its bound is what the next one needs: the
  last fold of a scalar leaves less than twice the order, and the one of a
  product at most `CarrySlack` above the third word;
- `Normalize`: the first pass leaves less than 2P, and the test for P or more
  looks at exactly the words that decide it;
- negation: of words within the magnitude, that many times the prime is larger
  in every word.

TLC had checked each property on the instances of the runs before it was proved.

**Only model-checked**: what is about liveness (`Reclaimed`, `QueriesEnd`,
`FetchedIsCast`, `QueryCloses`, `EndsWhenRead`, `CallsEnd`), since the prover has
no rules for fairness and `ENABLED`; and what is about the value of a
computation over data of any length: `ReadBack` (a recursive scan of texts) and
`MultiplesAreRight` (windows and non-adjacent forms).

## 5. Not modelled

- Two event ids with the same first 8 bytes, which the Id index and stubs of
  other ids would confuse.
- Loss of writes in a crash of the operating system (badger is opened without
  synchronous writes): a `Crash` here is the end of the process.
- The sizes and sums of `GCCount` and the order by freshness.
- Migrations, export, import and rescan, which run when no client is served;
  tools; command line and configuration.
- Chat and access control. `pkg/nostr/acl` is used when the relay starts, and
  the chat commands that would change it are stubs. Reading it showed:
  `DeleteEntry` never shortens its slice (`ae.entries[:len(ae.entries)]`), so
  deleting the last entry has no effect and others leave a duplicate;
  `FromEvent` requires an expiry tag that `ToEvent` writes only for a positive
  one; the entry an event replaces is looked up by its author.
- Deletion requests, which the relay vetoes; the canister's access list and the
  filters it evaluates beyond dates.
- Of the two level store, counts (the larger of two) and deletions; `IConly`
  hands calls on.
- Of the sessions: the IP whitelist, message size and syntax, the chat's own
  way to authenticate, the check of offenses when a connection opens.
- Of the client: the pool over several relays, notices, reconnecting after AUTH.
- Of the wire format: nson and the binary record format, bech32 entities,
  `unquoteBytes`, and the older escaping that nothing calls. `encoding/json` is
  external.
- Of the cryptography: SHA-256 and HMAC (streams and stand-in functions), AES,
  base58, side channels. A multiple with third coordinate `AnyZ` stands for any,
  which `MultiplesAreRight` justifies.

## 6. Plan

Done: the store with its abstraction and proofs, the sessions, the two level
store, the client, queries, arithmetic, single signatures and MuSig2 with
proofs, points with the proof that they add up, multiples of points and wire
format by model checking. Left, most important first:

1. The composition of `RelaySessions` with `TwoLevel` through the hooks of the
   relay, and an abstract subscription service that it implements.
2. `GCCount` and the head room as functions checked against a definition by
   sets.
3. The canister's access list with several relays; the pool of the client.
