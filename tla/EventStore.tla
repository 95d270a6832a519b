----------------------------- MODULE EventStore -----------------------------
(***************************************************************************)
(* The badger event store (pkg/nostr/eventstore/badger): the layer 1 cache *)
(* of the relay.  Every event has a serial, an event record under that     *)
(* serial, index keys and an access counter that end in it.  Goroutines of *)
(* the relay save, delete and query events while the garbage collector     *)
(* marks events by size and sweeps them later.  When a layer 2 store backs *)
(* the cache (HasL2) a sweep replaces an event record by a stub that holds *)
(* the event id only, and a later sweep removes the stub with its indexes; *)
(* without one the event record is deleted and its indexes stay.           *)
(*                                                                         *)
(* One action is one badger transaction.  badger detects conflicts on the  *)
(* keys a transaction has read, so an Update is atomic or fails; a write   *)
(* batch reads nothing, never conflicts and may commit in several pieces.  *)
(*                                                                         *)
(* A definition marked "seeded fault" is a mistake one could make in the   *)
(* definition after it; no action uses it.                                 *)
(***************************************************************************)
EXTENDS Integers, FiniteSets

CONSTANTS
    Ids,         \* event ids
    Procs,       \* goroutines that call the store
    HasL2,       \* Backend.HasL2: a layer 2 store holds every event
    Deletes,     \* some caller may delete (rl.OverrideDeletion vetoes it all)
    CollectorOn, \* DBSizeLimit > 0: the garbage collector was started
    EventHigh, EventLow, \* GetEventHeadroom, in events of one size
    IndexHigh, IndexLow, \* GetIndexHeadroom, in stubs of one size
    MaxSerial,   \* bound: serials handed out
    MaxFaults,   \* bound: crashes, failed commits and failed sweeps
    NoId         \* owner of a serial that was never handed out

ASSUME StoreAssumption ==
    /\ HasL2 \in BOOLEAN
    /\ Deletes \in BOOLEAN
    /\ CollectorOn \in BOOLEAN
    /\ EventHigh \in Nat /\ EventLow \in 0..EventHigh
    /\ IndexHigh \in Nat /\ IndexLow \in 0..IndexHigh
    /\ MaxSerial \in Nat
    /\ MaxFaults \in Nat
    /\ NoId \notin Ids

Serials == 1..MaxSerial

RankRecordLast ==  \* seeded fault: the records are streamed after the indexes
    [event |-> 5, created_at |-> 1, id |-> 2, filter |-> 3, counter |-> 4]

(***************************************************************************)
(* The key prefixes, in the order a sweep streams them: the event record,  *)
(* then index.FilterPrefixes (the CreatedAt index, the Id index, and as    *)
(* "filter" the Kind, Pubkey, PubkeyKind and tag indexes), then the access *)
(* counter.                                                                *)
(***************************************************************************)
Rank == [event |-> 1, created_at |-> 2, id |-> 3, filter |-> 4, counter |-> 5]

Prefixes == {"event", "created_at", "id", "filter", "counter"}

IndexPrefixes == {"created_at", "id", "filter"}

After ==
    [event |-> "created_at", created_at |-> "id", id |-> "filter",
     filter |-> "counter", counter |-> "flush"]

VARIABLES
    keys,   \* keys[f]: the serials that have a key with prefix f (durable)
    stub,   \* the serials whose event record holds the id only (durable)
    owner,  \* owner[s]: the event the serial s was handed out for
    next,   \* the next serial of badger's sequence (durable)
    pc, arg, ser,           \* per goroutine: where it is, its event, its serial
    gcpc, evs, idxs,        \* the collector: where it is, what it has marked
    stubs, dels,            \* its write batch: records to stub, keys to delete
    faults,                 \* crashes and failures so far
    acked,  \* ghost: saved with success since it was last evicted or deleted
    overtaken, \* ghost: saves whose record was removed about their lookup
    torn,   \* ghost: index sweeps that stopped half way
    fresh   \* ghost: records written since the last mark

durable == <<keys, stub, owner, next>>
procVars == <<pc, arg, ser>>
batch == <<stubs, dels>>
gcVars == <<gcpc, evs, idxs, stubs, dels>>
ghosts == <<faults, acked, overtaken, torn, fresh>>
vars == <<keys, stub, owner, next, pc, arg, ser,
          gcpc, evs, idxs, stubs, dels, faults, acked, overtaken, torn, fresh>>

-----------------------------------------------------------------------------
(* Event records that hold the whole event. *)
Full == keys["event"] \ stub

(* The index sweep in progress, and what it has left without a record. *)
Sweeping == IF gcpc \in {"idle", "done"} THEN {} ELSE idxs
HalfSwept == Sweeping \ keys["event"]

SerialsOfRecords(i) ==  \* seeded fault: an index key without a record is ignored
    {s \in keys["id"] \cap keys["event"] : owner[s] = i}

(* The serials the Id index holds for event i: more than one when it was   *)
(* saved twice.                                                            *)
SerialsOf(i) == {s \in keys["id"] : owner[s] = i}

(* Iterator.Seek stops at the smallest key with the prefix. *)
SeekId(i, s) == s \in SerialsOf(i) /\ \A t \in SerialsOf(i) : s <= t

(* The call returns; its variables are gone. *)
Return(p) ==
    /\ pc' = [pc EXCEPT ![p] = "idle"]
    /\ arg' = [arg EXCEPT ![p] = NoId]
    /\ ser' = [ser EXCEPT ![p] = 0]
    /\ overtaken' = overtaken \ {p}

(* The saves that have found one of the serials S and not come back to it. *)
Overtakes(S) ==
    overtaken' = overtaken \cup {p \in Procs : pc[p] = "restore" /\ ser[p] \in S}

NoDels == [f \in Prefixes |-> {}]

Init ==
    /\ keys = [f \in Prefixes |-> {}]
    /\ stub = {}
    /\ owner = [s \in Serials |-> NoId]
    /\ next = 1
    /\ pc = [p \in Procs |-> "idle"]
    /\ arg = [p \in Procs |-> NoId]
    /\ ser = [p \in Procs |-> 0]
    /\ gcpc = "idle" /\ evs = {} /\ idxs = {}
    /\ stubs = {} /\ dels = NoDels
    /\ faults = 0
    /\ acked = {} /\ overtaken = {} /\ torn = {} /\ fresh = {}

-----------------------------------------------------------------------------
(***************************************************************************)
(* SaveEvent.  A View looks the id up; what it found decides which Update  *)
(* follows, in a second transaction.                                       *)
(***************************************************************************)
SaveLookup(p, i) ==
    /\ pc[p] = "idle"
    /\ arg' = [arg EXCEPT ![p] = i]
    /\ \/ /\ \E s \in SerialsOf(i) :
                /\ SeekId(i, s)
                /\ ser' = [ser EXCEPT ![p] = s]
                /\ overtaken' = overtaken \cup (IF s \in HalfSwept THEN {p} ELSE {})
          /\ pc' = [pc EXCEPT ![p] = "restore"]
       \/ /\ SerialsOf(i) = {}
          /\ pc' = [pc EXCEPT ![p] = "insert"]
          /\ UNCHANGED <<ser, overtaken>>
    /\ UNCHANGED <<durable, gcVars, faults, acked, torn, fresh>>

NeedsRestoreToo(s) == s \notin Full  \* seeded fault: a missing record as well

NeedsRestore(s) == s \in keys["event"] \cap stub

RestoreCounter(s) ==  \* seeded fault: only the counter is written
    /\ keys' = [keys EXCEPT !["counter"] = @ \cup {s}]
    /\ UNCHANGED <<stub, fresh>>

RestoreRecord(s) ==
    /\ keys' = [keys EXCEPT !["event"] = @ \cup {s}, !["counter"] = @ \cup {s}]
    /\ stub' = stub \ {s}
    /\ fresh' = fresh \cup {s}

(* The Id index had the event: a stub is made whole again and its counter  *)
(* written, a whole record is a duplicate, and a missing record is passed  *)
(* over in silence.  The client gets OK true in each case.                 *)
SaveRestore(p) ==
    /\ pc[p] = "restore"
    /\ IF NeedsRestore(ser[p]) THEN RestoreRecord(ser[p])
                               ELSE UNCHANGED <<keys, stub, fresh>>
    /\ acked' = IF p \in overtaken THEN acked ELSE acked \cup {arg[p]}
    /\ Return(p)
    /\ UNCHANGED <<owner, next, gcVars, faults, torn>>

(* A new event: SerialKey draws a serial inside the Update... *)
SaveSerial(p) ==
    /\ pc[p] = "insert"
    /\ next \in Serials
    /\ owner' = [owner EXCEPT ![next] = arg[p]]
    /\ ser' = [ser EXCEPT ![p] = next]
    /\ next' = next + 1
    /\ pc' = [pc EXCEPT ![p] = "commit"]
    /\ UNCHANGED <<keys, stub, arg, gcVars, ghosts>>

(* ... and the commit makes the record, all index keys and the counter     *)
(* visible at once.                                                        *)
SaveCommit(p) ==
    LET s == ser[p] IN
    /\ pc[p] = "commit"
    /\ keys' = [f \in Prefixes |-> keys[f] \cup {s}]
    /\ stub' = stub \ {s}
    /\ fresh' = fresh \cup {s}
    /\ acked' = acked \cup {arg[p]}
    /\ Return(p)
    /\ UNCHANGED <<owner, next, gcVars, faults, torn>>

(* An Update that fails (a conflict, a full disk) changes nothing and the  *)
(* error goes to the client.                                               *)
SaveFails(p) ==
    /\ pc[p] \in {"restore", "commit"}
    /\ faults < MaxFaults
    /\ faults' = faults + 1
    /\ Return(p)
    /\ UNCHANGED <<durable, gcVars, acked, torn, fresh>>

ErasedButCounter(s) ==  \* seeded fault: the access counter stays
    [f \in Prefixes |-> IF f = "counter" THEN keys[f] ELSE keys[f] \ {s}]

Erased(s) == [f \in Prefixes |-> keys[f] \ {s}]

(* DeleteEvent: one Update that finds the first serial of the id and       *)
(* deletes every key of that serial.  Nothing changes for an unknown id.   *)
DeleteEvent(p, i) ==
    /\ Deletes
    /\ pc[p] = "idle"
    /\ \E s \in SerialsOf(i) :
          /\ SeekId(i, s)
          /\ keys' = Erased(s)
          /\ stub' = stub \ {s}
          /\ Overtakes({s})
    /\ acked' = acked \ {i}
    /\ UNCHANGED <<owner, next, procVars, gcVars, faults, torn, fresh>>

-----------------------------------------------------------------------------
(***************************************************************************)
(* A query: QueryEventsSearch collects serials from an index in one View,  *)
(* reads each event record in a View of its own, and AccessLoop writes the *)
(* access counter of what was emitted in a third transaction.              *)
(***************************************************************************)
SearchIndex(p) ==
    /\ pc[p] = "idle"
    /\ \E f \in IndexPrefixes : \E s \in keys[f] : ser' = [ser EXCEPT ![p] = s]
    /\ pc' = [pc EXCEPT ![p] = "fetch"]
    /\ UNCHANGED <<durable, arg, gcVars, ghosts>>

(* A missing record is skipped; a whole event or a stub is emitted. *)
FetchRecord(p) ==
    /\ pc[p] = "fetch"
    /\ \/ /\ ser[p] \in keys["event"]
          /\ pc' = [pc EXCEPT ![p] = "access"]
          /\ UNCHANGED <<arg, ser, overtaken>>
       \/ /\ ser[p] \notin keys["event"]
          /\ Return(p)
    /\ UNCHANGED <<durable, gcVars, faults, acked, torn, fresh>>

BumpCounterAlways(s) ==  \* seeded fault: the counter is not read first
    [keys EXCEPT !["counter"] = @ \cup {s}]

(* The transaction IncrementAccesses runs: a counter is written only where *)
(* there is one.                                                           *)
BumpCounter(s) ==
    IF s \in keys["counter"]
      THEN [keys EXCEPT !["counter"] = @ \cup {s}]
      ELSE keys

IncrementAccesses(p) ==
    /\ pc[p] = "access"
    /\ keys' = BumpCounter(ser[p])
    /\ Return(p)
    /\ UNCHANGED <<stub, owner, next, gcVars, faults, acked, torn, fresh>>

(* The context of the query is canceled. *)
QueryCanceled(p) ==
    /\ pc[p] \in {"fetch", "access"}
    /\ Return(p)
    /\ UNCHANGED <<durable, gcVars, faults, acked, torn, fresh>>

-----------------------------------------------------------------------------
OverHighWaterLate(n) == n > EventHigh + 1  \* seeded fault: off by one

(***************************************************************************)
(* GCMark.  Every record counts one unit.  The freshness GCCount fills in  *)
(* is that of an empty buffer for every event, so the sort leaves any      *)
(* order and any set of the right size may be marked.                      *)
(***************************************************************************)
OverHighWater(n) == n > EventHigh

MarkEventsShort(U) ==  \* seeded fault: the loop stops one event early
    LET off == Cardinality(U) - EventLow IN
    IF OverHighWater(Cardinality(U))
      THEN {E \in SUBSET U : Cardinality(E) = off}
      ELSE {{}}

MarkEvents(U) ==
    LET off == Cardinality(U) - EventLow IN
    IF OverHighWater(Cardinality(U))
      THEN {E \in SUBSET U : /\ Cardinality(E) > off \/ E = U
                             /\ Cardinality(E) - 1 <= off}
      ELSE {{}}

(* The loop stops at the first index where the space is below the low      *)
(* water mark, and that item is marked as well.                            *)
MarkIndexes(P) ==
    LET n == Cardinality(P)
        stops == {k \in 0..(n - 1) : n - k < IndexLow}
        last == IF stops = {} THEN n - 1
                ELSE CHOOSE k \in stops : \A j \in stops : k <= j
    IN  IF HasL2 /\ n > IndexHigh
          THEN {I \in SUBSET P : Cardinality(I) = last + 1}
          ELSE {{}}

(* A run of the collector: nothing is swept when nothing was marked. *)
GCMark ==
    /\ CollectorOn
    /\ gcpc = "idle"
    /\ \E E \in MarkEvents(Full), I \in MarkIndexes(stub) :
          /\ E # {} \/ I # {}
          /\ evs' = E
          /\ idxs' = I
    /\ gcpc' = "sweep"
    /\ fresh' = {}
    /\ UNCHANGED <<durable, procVars, batch, faults, acked, overtaken, torn>>

ToPruneStubs == evs \cap stub  \* seeded fault: the size test is inverted

(* The first stream of GCSweep: records that are whole become stubs when   *)
(* there is an L2, and are deleted, alone, when there is none.             *)
ToPrune == evs \cap Full

ToDelete == evs \cap keys["event"]

SweepEvents ==
    /\ gcpc = "sweep"
    /\ IF HasL2
         THEN stubs' = ToPrune /\ UNCHANGED dels
         ELSE dels' = [dels EXCEPT !["event"] = ToDelete]
              /\ UNCHANGED stubs
    /\ gcpc' = IF HasL2 /\ idxs # {} THEN "event" ELSE "flush"
    /\ UNCHANGED <<durable, procVars, evs, idxs, ghosts>>

(* One stream per prefix; each sees the store as it is when it starts. *)
SweepPrefix ==
    /\ gcpc \in Prefixes
    /\ dels' = [dels EXCEPT ![gcpc] = idxs \cap keys[gcpc]]
    /\ gcpc' = After[gcpc]
    /\ UNCHANGED <<durable, procVars, evs, idxs, stubs, ghosts>>

(* What was put in the batch before some point of the stream of prefix f. *)
Cut(f, D) ==
    [g \in Prefixes |-> IF Rank[g] < Rank[f] THEN dels[g]
                        ELSE IF g = f THEN D ELSE {}]

(* Records T become stubs, keys cut are deleted. *)
Commit(T, cut) ==
    /\ keys' = [g \in Prefixes |->
                  (keys[g] \cup IF g = "event" THEN T ELSE {}) \ cut[g]]
    /\ stub' = (stub \cup T) \ cut["event"]
    /\ stubs' = stubs \ T
    /\ dels' = [g \in Prefixes |-> dels[g] \ cut[g]]
    /\ acked' = acked \ {owner[s] : s \in T \cup cut["event"]}
    /\ fresh' = fresh \ (T \cup cut["event"])
    /\ Overtakes(cut["event"])

(* The write batch commits whenever a transaction is full, and at Flush. *)
FlushBatch ==
    /\ gcpc \notin {"idle", "sweep", "done"}
    /\ \E f \in Prefixes : \E D \in SUBSET dels[f], T \in SUBSET stubs :
          /\ f # "event" => T = stubs
          /\ T # {} \/ \E g \in Prefixes : Cut(f, D)[g] # {}
          /\ Commit(T, Cut(f, D))
    /\ UNCHANGED <<owner, next, procVars, gcpc, evs, idxs, faults, torn>>

SweepDone ==
    /\ gcpc = "flush"
    /\ stubs = {} /\ dels = NoDels
    /\ gcpc' = "done"
    /\ UNCHANGED <<durable, procVars, evs, idxs, batch, ghosts>>

(* GCRun returns; the ticker starts the next one. *)
GCReturn ==
    /\ gcpc = "done"
    /\ gcpc' = "idle"
    /\ evs' = {} /\ idxs' = {}
    /\ UNCHANGED <<durable, procVars, batch, ghosts>>

StopCollector ==
    /\ gcpc' = "idle"
    /\ evs' = {} /\ idxs' = {}
    /\ stubs' = {} /\ dels' = NoDels

(* A stream or a commit fails: GCSweep returns and cancels its batch. *)
SweepFails ==
    /\ gcpc \notin {"idle", "done"}
    /\ faults < MaxFaults
    /\ faults' = faults + 1
    /\ StopCollector
    /\ torn' = torn \cup HalfSwept
    /\ UNCHANGED <<durable, procVars, acked, overtaken, fresh>>

-----------------------------------------------------------------------------
RestartSequence == next' = 1  \* seeded fault: serials are handed out again

SkipLease == next' \in {n \in 1..(MaxSerial + 1) : next <= n}

(* All that is in memory is gone.  What was leased from the sequence and   *)
(* not used is skipped.                                                    *)
Restart ==
    /\ pc' = [p \in Procs |-> "idle"]
    /\ arg' = [p \in Procs |-> NoId]
    /\ ser' = [p \in Procs |-> 0]
    /\ overtaken' = {}
    /\ StopCollector
    /\ SkipLease
    /\ UNCHANGED owner

Crash ==
    /\ faults < MaxFaults
    /\ faults' = faults + 1
    /\ Restart
    /\ torn' = torn \cup HalfSwept
    /\ UNCHANGED <<keys, stub, acked, fresh>>

(* The wipe command runs before the relay serves clients and exits after   *)
(* it.  The collector that Init started may still flush stubs in between.  *)
Wipe ==
    /\ Deletes
    /\ \A p \in Procs : pc[p] = "idle"
    /\ \E T \in SUBSET stubs :
          /\ keys' = [f \in Prefixes |-> IF f = "event" THEN T ELSE {}]
          /\ stub' = T
    /\ Restart
    /\ acked' = {} /\ torn' = {} /\ fresh' = {}
    /\ UNCHANGED faults

-----------------------------------------------------------------------------
Client(p) ==
    \/ \E i \in Ids : SaveLookup(p, i) \/ DeleteEvent(p, i)
    \/ SaveRestore(p) \/ SaveSerial(p) \/ SaveCommit(p) \/ SaveFails(p)
    \/ SearchIndex(p) \/ FetchRecord(p) \/ IncrementAccesses(p)
    \/ QueryCanceled(p)

Collector ==
    \/ GCMark \/ SweepEvents \/ SweepPrefix \/ FlushBatch \/ SweepDone
    \/ GCReturn

Next ==
    \/ \E p \in Procs : Client(p)
    \/ Collector
    \/ SweepFails
    \/ Crash
    \/ Wipe

Spec == Init /\ [][Next]_vars

(* The collector's goroutine is always scheduled and its ticker never      *)
(* stops; nothing is assumed of the clients.                               *)
FairSpec == Spec /\ WF_vars(Collector)

-----------------------------------------------------------------------------
(* The type invariant.  Serials are handed out in order, and only once,    *)
(* also after a crash: no key has a serial that is still to come.          *)
TypeOK ==
    /\ keys \in [Prefixes -> SUBSET {s \in Serials : s < next}]
    /\ stub \in SUBSET Serials
    /\ owner \in [Serials -> Ids \cup {NoId}]
    /\ next \in 1..(MaxSerial + 1)
    /\ pc \in [Procs -> {"idle", "restore", "insert", "commit", "fetch", "access"}]
    /\ arg \in [Procs -> Ids \cup {NoId}]
    /\ ser \in [Procs -> 0..MaxSerial]
    /\ gcpc \in {"idle", "sweep", "flush", "done"} \cup Prefixes
    /\ evs \in SUBSET Serials /\ idxs \in SUBSET Serials
    /\ stubs \in SUBSET Serials
    /\ dels \in [Prefixes -> SUBSET Serials]
    /\ faults \in 0..MaxFaults
    /\ acked \in SUBSET Ids
    /\ overtaken \in SUBSET Procs
    /\ torn \in SUBSET Serials
    /\ fresh \in SUBSET Serials

(* A whole event can be found: every index that serves queries has its key *)
(* and its access counter exists.  SaveEvent restores a stub by writing    *)
(* the record and the counter only (save.go:60) and relies on this.        *)
FullRecordReachable ==
    \A s \in Full : \A f \in IndexPrefixes \cup {"counter"} : s \in keys[f]

(* With an L2, no index key or counter is left without an event record,    *)
(* except by an index sweep that is under way or was cut short: such a key *)
(* is what makes SaveEvent pass an event over in silence, and nothing      *)
(* collects it (GCCount only sees event records).                          *)
NoDebris ==
    HasL2 => \A f \in Prefixes :
                keys[f] \subseteq keys["event"] \cup Sweeping \cup torn

(* Without an L2, the indexes and the counter of a serial come and go as   *)
(* one, whatever the collector does to the record.                         *)
IndexesAgree ==
    ~HasL2 => \A f \in IndexPrefixes \cup {"counter"} : keys[f] = keys["id"]

(* What a client was told is saved, or is a duplicate, can be found until  *)
(* it is deleted or the collector evicts it, unless a removal of the same  *)
(* event overtook the save or an index sweep stopped half way over it.     *)
(* "if the event is found but it has been replaced with the event ID ...   *)
(* we need to restore it, or otherwise return that the event exists"       *)
(* (save.go:45).                                                           *)
AckedIsStored ==
    \A i \in acked :
        \/ \E s \in Full \cap keys["id"] : owner[s] = i
        \/ \E s \in torn : owner[s] = i

Copies(i) == {s \in keys["id"] : owner[s] = i}

(* The saves that have looked event i up and found nothing. *)
Savers(i) == {p \in Procs : pc[p] \in {"insert", "commit"} /\ arg[p] = i}

(* Once an event has a serial, only a save that looked it up before that   *)
(* gives it one more, and no more than one: however often it is published  *)
(* again, evicted in between and restarted, its copies do not grow beyond  *)
(* those of the saves that ran side by side.  "query event by id to ensure *)
(* we don't try to save duplicates" (save.go:26) says that there are none; *)
(* two goroutines that look an event up before either has saved it both    *)
(* save it.                                                                *)
NoLateDuplicate ==
    [][\A i \in Ids : Copies(i) # {} =>
          /\ Savers(i)' \subseteq Savers(i)
          /\ Copies(i)' \ Copies(i) \subseteq {ser[p] : p \in Savers(i) \ Savers(i)'}]_vars

(* What a mark aims at: to stay within the high water mark, or, once it is *)
(* exceeded, to get below the low water mark.                              *)
Reaches(n) ==
    IF evs = {} THEN n <= EventHigh ELSE n < EventLow \/ n = 0

(* When a sweep completes, the events nobody has written since the mark    *)
(* are as few as the mark was to leave, whatever ran in between            *)
(* (gcmark.go:22-38).                                                      *)
SweepReclaims == gcpc = "done" => Reaches(Cardinality(Full \ fresh))

(* When new events stop arriving, the collector brings the store within    *)
(* the high water mark and it stays there.                                 *)
Reclaimed ==
    (next > MaxSerial) ~> [](Cardinality(Full) <= EventHigh)

(* The life of a serial, as RecordLife tells it: "gone" when no Id key     *)
(* leads to a record any more.                                             *)
Pending(s) == \E p \in Procs : pc[p] = "commit" /\ ser[p] = s

LifeOf(s) ==
    IF s >= next \/ Pending(s) THEN "unused"
    ELSE IF s \notin keys["event"] \cap keys["id"] THEN "gone"
    ELSE IF s \in stub THEN "stub" ELSE "full"

Life == INSTANCE RecordLife WITH life <- [s \in Serials |-> LifeOf(s)]

(* The store implements RecordLife: no race of saves, queries, deletions   *)
(* and sweeps, and no crash, brings back a serial that is gone.            *)
LifeSpec == Life!Spec

=============================================================================
