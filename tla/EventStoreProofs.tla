-------------------------- MODULE EventStoreProofs --------------------------
(***************************************************************************)
(* Proofs about EventStore for any number of events, goroutines, serials   *)
(* and faults and any water marks.  The one hypothesis is that a store     *)
(* with a layer 2 is not asked to delete (Vetoed), which is how the relay  *)
(* is shipped.                                                             *)
(***************************************************************************)
EXTENDS EventStore, FiniteSetTheorems, TLAPS

Vetoed == HasL2 => ~Deletes

(***************************************************************************)
(* The inductive invariant.                                                *)
(***************************************************************************)

(* A record, whole or a stub, has all of its keys. *)
RecordsIndexed ==
    /\ stub \subseteq keys["event"]
    /\ \A f \in Prefixes : keys["event"] \subseteq keys[f]

(* A serial that was handed out and not committed is nobody else's, and is *)
(* in no key and in no list of the collector.                              *)
SerialsOwned ==
    /\ \A p \in Procs : pc[p] = "commit" =>
          /\ ser[p] \in Serials /\ ser[p] < next
          /\ owner[ser[p]] = arg[p] /\ arg[p] \in Ids
          /\ \A f \in Prefixes : ser[p] \notin keys[f] \cup dels[f]
          /\ ser[p] \notin evs \cup idxs \cup stubs
          /\ \A q \in Procs : q # p /\ pc[q] = "commit" => ser[q] # ser[p]
    /\ \A p \in Procs : pc[p] \in {"restore", "insert"} => arg[p] \in Ids
    /\ \A p \in Procs : pc[p] = "restore" =>
          /\ ser[p] \in Serials /\ ser[p] < next
          /\ owner[ser[p]] = arg[p]
    /\ \A p \in Procs : pc[p] \in {"fetch", "access"} => ser[p] \in Serials

(* What the collector has marked and batched. *)
BatchBounded ==
    /\ evs \cap idxs = {}
    /\ \A s \in evs \cup idxs \cup torn : s < next
    /\ stubs \subseteq evs
    /\ gcpc \in {"idle", "sweep", "done"} => stubs = {} /\ \A f \in Prefixes : dels[f] = {}
    /\ HasL2 => /\ stubs \subseteq keys["event"]
                /\ \A f \in Prefixes : dels[f] \subseteq idxs
    /\ ~HasL2 => /\ stub = {} /\ stubs = {} /\ idxs = {}
                 /\ dels["event"] \subseteq evs
                 /\ \A f \in Prefixes \ {"event"} : dels[f] = {}

(* The streams of an index sweep miss no key: one that has run has put     *)
(* every key of its prefix that is still there in the batch, one that has  *)
(* not has put none.                                                       *)
Streamed(f) == gcpc = "flush" \/ (gcpc \in Prefixes /\ Rank[f] < Rank[gcpc])

StreamsComplete ==
    /\ \A f \in Prefixes : Streamed(f) => idxs \cap keys[f] \subseteq dels[f]
    /\ HasL2 /\ gcpc \in Prefixes =>
          \A f \in Prefixes : ~Streamed(f) => dels[f] = {}

(* A save that found a record finds it again, unless it was overtaken. *)
SaveFinds ==
    HasL2 => \A p \in Procs :
        pc[p] = "restore" /\ p \notin overtaken =>
            ser[p] \in keys["event"] \cup torn

AckInv == HasL2 => AckedIsStored

IInv ==
    /\ TypeOK
    /\ RecordsIndexed
    /\ SerialsOwned
    /\ BatchBounded
    /\ StreamsComplete
    /\ NoDebris
    /\ IndexesAgree
    /\ SaveFinds
    /\ AckInv

-----------------------------------------------------------------------------
(* The event record is streamed before every other prefix. *)
LEMMA RankFacts ==
    /\ Rank["event"] = 1
    /\ \A f \in Prefixes : Rank[f] \in 1..5
    /\ \A f \in Prefixes : f # "event" => Rank[f] > 1
  BY DEF Rank, Prefixes

(* After follows the order of Rank. *)
LEMMA AfterFacts ==
    ASSUME NEW f \in Prefixes, NEW g \in Prefixes
    PROVE  /\ After[g] \in Prefixes \cup {"flush"}
           /\ After[g] # "event"
           /\ (After[g] = "flush" \/ Rank[f] < Rank[After[g]])
                 <=> (Rank[f] < Rank[g] \/ f = g)
  BY DEF Rank, Prefixes, After


(* What a flush does to the store, the parts of the batch it commits named *)
(* T and cut: it takes no key from a record it leaves in place.            *)
Flushes(T, cut) ==
    /\ T \subseteq keys["event"]
    /\ \A g \in Prefixes : cut[g] \subseteq dels[g]
    /\ \A g \in Prefixes : keys["event"] \cap cut[g] \subseteq cut["event"]
    /\ keys' \in [Prefixes -> SUBSET Serials]
    /\ \A g \in Prefixes : keys'[g] = keys[g] \ cut[g]
    /\ dels' \in [Prefixes -> SUBSET Serials]
    /\ \A g \in Prefixes : dels'[g] = dels[g] \ cut[g]
    /\ Commit(T, cut)

(* Every step of FlushBatch is such a flush. *)
LEMMA FlushFacts ==
    ASSUME Vetoed, IInv, FlushBatch
    PROVE  \E T \in SUBSET stubs, cut \in [Prefixes -> SUBSET Serials] : Flushes(T, cut)
<1> USE RankFacts DEF IInv, TypeOK, Prefixes
<1>1. PICK f \in Prefixes : \E D \in SUBSET dels[f], T \in SUBSET stubs :
          Commit(T, Cut(f, D))
  BY Zenon DEF FlushBatch
<1>2. PICK D \in SUBSET dels[f], T \in SUBSET stubs : Commit(T, Cut(f, D))
  BY <1>1
<1> DEFINE cut == Cut(f, D)
<1>3. cut \in [Prefixes -> SUBSET Serials] /\ \A g \in Prefixes : cut[g] \subseteq dels[g]
  BY <1>2 DEF Cut
<1>4. ASSUME NEW g \in Prefixes, g # "event", cut[g] # {}
      PROVE  cut["event"] = dels["event"]
  <2>1. Rank[g] < Rank[f] \/ g = f
    BY <1>4 DEF Cut
  <2>2. Rank["event"] < Rank[f]
    BY <1>4, <2>1
  <2> QED
    BY <2>2 DEF Cut
<1>5. ASSUME NEW g \in Prefixes, NEW s \in keys["event"] \cap cut[g]
      PROVE  s \in cut["event"]
  <2>1. CASE g = "event"
    BY <1>5, <2>1
  <2>2. CASE g # "event"
    <3>1. HasL2 /\ s \in dels[g] /\ s \in idxs
      BY <1>3, <1>5, <2>2 DEF BatchBounded
    <3>2. Streamed("event")
      <4>1. gcpc = "flush" \/ (gcpc \in Prefixes /\ Streamed(g))
        BY <3>1 DEF FlushBatch, StreamsComplete
      <4> QED
        BY <4>1, <2>2 DEF Streamed
    <3>3. s \in dels["event"]
      BY <1>5, <3>1, <3>2 DEF StreamsComplete
    <3> QED
      BY <1>4, <1>5, <2>2, <3>3
  <2> QED
    BY <2>1, <2>2
<1>6. T \subseteq keys["event"]
  BY DEF BatchBounded
<1>7. /\ keys' \in [Prefixes -> SUBSET Serials]
      /\ \A g \in Prefixes : keys'[g] = keys[g] \ cut[g]
      /\ dels' \in [Prefixes -> SUBSET Serials]
      /\ \A g \in Prefixes : dels'[g] = dels[g] \ cut[g]
  BY <1>2, <1>3, <1>6 DEF Commit
<1>8. Flushes(T, cut)
  BY <1>2, <1>3, <1>5, <1>6, <1>7 DEF Flushes
<1> QED
  BY <1>3, <1>8

(* SaveLookup finds a serial whose Id key exists: its record exists too, or *)
(* an index sweep is half way through it and the save counts as overtaken. *)
LEMMA SaveLookupStep ==
    ASSUME Vetoed, IInv, NEW p \in Procs, NEW i \in Ids, SaveLookup(p, i)
    PROVE  IInv'
<1> USE StoreAssumption, RankFacts
      DEF IInv, Vetoed, TypeOK, Serials, Prefixes, SaveLookup, SeekId,
          SerialsOf, HalfSwept, Sweeping, durable, procVars, batch, gcVars,
          ghosts
<1>1. TypeOK'
  <2>1. keys' \in [Prefixes -> SUBSET {s \in Serials : s < next'}]
    OBVIOUS
  <2>2. /\ stub' \in SUBSET Serials
        /\ owner' \in [Serials -> Ids \cup {NoId}]
        /\ next' \in 1..(MaxSerial + 1)
    OBVIOUS
  <2>3. /\ pc' \in [Procs -> {"idle", "restore", "insert", "commit", "fetch", "access"}]
        /\ arg' \in [Procs -> Ids \cup {NoId}]
        /\ ser' \in [Procs -> 0..MaxSerial]
    <3>1. CASE pc'[p] = "restore"
      <4>1. PICK s \in SerialsOf(i) : ser' = [ser EXCEPT ![p] = s]
        BY <3>1
      <4>2. s \in 0..MaxSerial
        BY <4>1
      <4>3. QED
        BY <4>1, <4>2
    <3>2. CASE pc'[p] # "restore"
      BY <3>2
    <3> QED
      BY <3>1, <3>2
  <2>4. /\ gcpc' \in {"idle", "sweep", "flush", "done"} \cup Prefixes
        /\ evs' \in SUBSET Serials /\ idxs' \in SUBSET Serials
        /\ stubs' \in SUBSET Serials
    OBVIOUS
  <2>5. dels' \in [Prefixes -> SUBSET Serials]
    OBVIOUS
  <2>6. /\ faults' \in 0..MaxFaults
        /\ acked' \in SUBSET Ids
        /\ overtaken' \in SUBSET Procs
        /\ torn' \in SUBSET Serials
        /\ fresh' \in SUBSET Serials
    OBVIOUS
  <2> QED
    BY <2>1, <2>2, <2>3, <2>4, <2>5, <2>6 DEF TypeOK
<1>2. RecordsIndexed'
  BY DEF RecordsIndexed
<1>3. SerialsOwned'
  <2>1. CASE pc'[p] = "restore"
    <3>1. PICK s \in keys["id"] : owner[s] = i /\ ser' = [ser EXCEPT ![p] = s]
      BY <2>1
    <3>2. /\ pc' = [pc EXCEPT ![p] = "restore"]
          /\ arg' = [arg EXCEPT ![p] = i]
      BY <2>1
    <3>3. s \in Serials /\ s < next
      OBVIOUS
    <3> QED
      BY <3>1, <3>2, <3>3 DEF SerialsOwned
  <2>2. CASE pc'[p] # "restore"
    BY <2>2 DEF SerialsOwned
  <2> QED
    BY <2>1, <2>2
<1>4. BatchBounded'
  BY DEF BatchBounded
<1>5. StreamsComplete'
  BY DEF StreamsComplete, Streamed
<1>6. NoDebris'
  BY DEF NoDebris, Sweeping
<1>7. IndexesAgree'
  BY DEF IndexesAgree, IndexPrefixes
<1>8. SaveFinds'
  <2> SUFFICES ASSUME HasL2, NEW q \in Procs, pc'[q] = "restore", q \notin overtaken'
               PROVE  ser'[q] \in keys["event"] \cup torn
    BY DEF SaveFinds
  <2>1. CASE q = p
    <3>1. PICK s \in keys["id"] : /\ ser' = [ser EXCEPT ![p] = s]
                                  /\ overtaken' = overtaken \cup (IF s \in HalfSwept THEN {p} ELSE {})
      BY <2>1
    <3>2. ser'[q] = s /\ s \notin HalfSwept
      BY <2>1, <3>1
    <3>3. s \in keys["event"] \cup Sweeping \cup torn
      BY <3>1 DEF NoDebris
    <3> QED
      BY <3>2, <3>3 DEF HalfSwept
  <2>2. CASE q # p
    <3>1. pc[q] = "restore" /\ q \notin overtaken /\ ser'[q] = ser[q]
      BY <2>2
    <3> QED
      BY <3>1 DEF SaveFinds
  <2> QED
    BY <2>1, <2>2
<1>9. AckInv'
  BY DEF AckInv, AckedIsStored, Full
<1> QED
  BY <1>1, <1>2, <1>3, <1>4, <1>5, <1>6, <1>7, <1>8, <1>9

(* SaveRestore writes a counter that is there already, and acknowledges an *)
(* event whose record SaveFinds says is still there.                       *)
LEMMA SaveRestoreStep ==
    ASSUME Vetoed, IInv, NEW p \in Procs, SaveRestore(p)
    PROVE  IInv'
<1> USE StoreAssumption, RankFacts
      DEF IInv, Vetoed, TypeOK, Serials, Prefixes, SaveRestore, NeedsRestore,
          RestoreRecord, Return, durable, procVars, batch, gcVars, ghosts
<1>1. TypeOK'
  <2>1. keys' \in [Prefixes -> SUBSET {s \in Serials : s < next'}]
    OBVIOUS
  <2>2. /\ stub' \in SUBSET Serials
        /\ owner' \in [Serials -> Ids \cup {NoId}]
        /\ next' \in 1..(MaxSerial + 1)
    OBVIOUS
  <2>3. /\ pc' \in [Procs -> {"idle", "restore", "insert", "commit", "fetch", "access"}]
        /\ arg' \in [Procs -> Ids \cup {NoId}]
        /\ ser' \in [Procs -> 0..MaxSerial]
    OBVIOUS
  <2>4. /\ gcpc' \in {"idle", "sweep", "flush", "done"} \cup Prefixes
        /\ evs' \in SUBSET Serials /\ idxs' \in SUBSET Serials
        /\ stubs' \in SUBSET Serials
    OBVIOUS
  <2>5. dels' \in [Prefixes -> SUBSET Serials]
    OBVIOUS
  <2>6. /\ faults' \in 0..MaxFaults
        /\ acked' \in SUBSET Ids
        /\ overtaken' \in SUBSET Procs
        /\ torn' \in SUBSET Serials
        /\ fresh' \in SUBSET Serials
    <3>1. ser[p] \in Serials /\ arg[p] \in Ids
      BY DEF SerialsOwned
    <3> QED
      BY <3>1
  <2> QED
    BY <2>1, <2>2, <2>3, <2>4, <2>5, <2>6 DEF TypeOK
<1>2. RecordsIndexed'
  <2>1. /\ \A f \in Prefixes : f # "counter" => keys'[f] = keys[f]
        /\ keys["counter"] \subseteq keys'["counter"]
        /\ stub' \subseteq stub
    <3>1. CASE NeedsRestore(ser[p])
      <4>1. keys["event"] \cup {ser[p]} = keys["event"]
        BY <3>1 DEF NeedsRestore
      <4>2. /\ keys' = [keys EXCEPT !["event"] = @ \cup {ser[p]},
                                   !["counter"] = @ \cup {ser[p]}]
            /\ stub' = stub \ {ser[p]}
        BY <3>1 DEF SaveRestore, RestoreRecord
      <4> QED
        BY <4>1, <4>2
    <3>2. CASE ~NeedsRestore(ser[p])
      BY <3>2
    <3> QED
      BY <3>1, <3>2
  <2> QED
    BY <2>1 DEF RecordsIndexed
<1>3. SerialsOwned'
  BY DEF SerialsOwned
<1>4. BatchBounded'
  <2>1. /\ \A f \in Prefixes : f # "counter" => keys'[f] = keys[f]
        /\ keys["counter"] \subseteq keys'["counter"]
        /\ stub' \subseteq stub
    <3>1. CASE NeedsRestore(ser[p])
      <4>1. keys["event"] \cup {ser[p]} = keys["event"]
        BY <3>1 DEF NeedsRestore
      <4>2. /\ keys' = [keys EXCEPT !["event"] = @ \cup {ser[p]},
                                   !["counter"] = @ \cup {ser[p]}]
            /\ stub' = stub \ {ser[p]}
        BY <3>1 DEF SaveRestore, RestoreRecord
      <4> QED
        BY <4>1, <4>2
    <3>2. CASE ~NeedsRestore(ser[p])
      BY <3>2
    <3> QED
      BY <3>1, <3>2
  <2> QED
    BY <2>1 DEF BatchBounded
<1>5. StreamsComplete'
  <2>1. \A f \in Prefixes : idxs \cap keys'[f] \subseteq idxs \cap keys[f]
    BY DEF RecordsIndexed
  <2>2. \A f \in Prefixes : Streamed(f)' <=> Streamed(f)
    BY DEF Streamed
  <2> QED
    BY <2>1, <2>2 DEF StreamsComplete
<1>6. NoDebris'
  BY DEF NoDebris, Sweeping
<1>7. IndexesAgree'
  <2>1. ~HasL2 => UNCHANGED keys
    BY DEF BatchBounded
  <2> QED
    BY <2>1 DEF IndexesAgree
<1>8. SaveFinds'
  BY DEF SaveFinds
<1>9. AckInv'
  <2> SUFFICES ASSUME HasL2, NEW i \in acked'
               PROVE  \/ \E s \in Full' \cap keys'["id"] : owner[s] = i
                      \/ \E s \in torn : owner[s] = i
    BY DEF AckInv, AckedIsStored
  <2>1. /\ Full \subseteq Full' /\ keys["id"] \subseteq keys'["id"]
        /\ ser[p] \in keys["event"] => ser[p] \in Full'
    BY DEF Full
  <2>2. CASE i \in acked
    BY <2>1, <2>2 DEF AckInv, AckedIsStored
  <2>3. CASE i \notin acked
    <3>1. i = arg[p] /\ p \notin overtaken
      BY <2>3
    <3>2. owner[ser[p]] = i /\ ser[p] \in keys["event"] \cup torn
      BY <3>1 DEF SerialsOwned, SaveFinds
    <3>3. ser[p] \in keys["event"] => ser[p] \in keys'["id"]
      BY <2>1 DEF RecordsIndexed
    <3> QED
      BY <2>1, <3>2, <3>3
  <2> QED
    BY <2>2, <2>3
<1> QED
  BY <1>1, <1>2, <1>3, <1>4, <1>5, <1>6, <1>7, <1>8, <1>9

(* The serial SaveSerial draws is next: beyond every key and every list.   *)
LEMMA SaveSerialStep ==
    ASSUME Vetoed, IInv, NEW p \in Procs, SaveSerial(p)
    PROVE  IInv'
<1> USE StoreAssumption, RankFacts
      DEF IInv, Vetoed, TypeOK, Serials, Prefixes, SaveSerial, durable,
          procVars, batch, gcVars, ghosts
<1>1. TypeOK'
  BY DEF TypeOK
<1>2. RecordsIndexed'
  BY DEF RecordsIndexed
<1>3. SerialsOwned'
  <2> SUFFICES ASSUME NEW q \in Procs
               PROVE  /\ pc'[q] = "commit" =>
                           /\ ser'[q] \in Serials /\ ser'[q] < next'
                           /\ owner'[ser'[q]] = arg[q] /\ arg[q] \in Ids
                           /\ \A f \in Prefixes : ser'[q] \notin keys[f] \cup dels[f]
                           /\ ser'[q] \notin evs \cup idxs \cup stubs
                           /\ \A r \in Procs : r # q /\ pc'[r] = "commit" => ser'[r] # ser'[q]
                      /\ pc'[q] \in {"restore", "insert"} => arg[q] \in Ids
                      /\ pc'[q] = "restore" =>
                           /\ ser'[q] \in Serials /\ ser'[q] < next'
                           /\ owner'[ser'[q]] = arg[q]
                      /\ pc'[q] \in {"fetch", "access"} => ser'[q] \in Serials
    BY DEF SerialsOwned
  <2>1. CASE q = p
    BY <2>1 DEF SerialsOwned, BatchBounded
  <2>2. CASE q # p
    BY <2>2 DEF SerialsOwned
  <2> QED
    BY <2>1, <2>2
<1>4. BatchBounded'
  BY DEF BatchBounded
<1>5. StreamsComplete'
  BY DEF StreamsComplete, Streamed
<1>6. NoDebris'
  BY DEF NoDebris, Sweeping
<1>7. IndexesAgree'
  BY DEF IndexesAgree, IndexPrefixes
<1>8. SaveFinds'
  BY DEF SaveFinds
<1>9. AckInv'
  <2>1. \A s \in keys["event"] : owner'[s] = owner[s]
    OBVIOUS
  <2>2. \A s \in torn : owner'[s] = owner[s]
    BY DEF BatchBounded
  <2> QED
    BY <2>1, <2>2 DEF AckInv, AckedIsStored, Full
<1> QED
  BY <1>1, <1>2, <1>3, <1>4, <1>5, <1>6, <1>7, <1>8, <1>9

(* SaveCommit writes every key of a serial nobody else knows.              *)
LEMMA SaveCommitStep ==
    ASSUME Vetoed, IInv, NEW p \in Procs, SaveCommit(p)
    PROVE  IInv'
<1> USE StoreAssumption, RankFacts
      DEF IInv, Vetoed, TypeOK, Serials, Prefixes, SaveCommit, Return,
          durable, procVars, batch, gcVars, ghosts
<1>1. TypeOK'
  <2>1. keys' \in [Prefixes -> SUBSET {s \in Serials : s < next'}]
    <3>1. ser[p] \in Serials /\ ser[p] < next
      BY DEF SerialsOwned
    <3> QED
      BY <3>1
  <2>2. /\ stub' \in SUBSET Serials
        /\ owner' \in [Serials -> Ids \cup {NoId}]
        /\ next' \in 1..(MaxSerial + 1)
    OBVIOUS
  <2>3. /\ pc' \in [Procs -> {"idle", "restore", "insert", "commit", "fetch", "access"}]
        /\ arg' \in [Procs -> Ids \cup {NoId}]
        /\ ser' \in [Procs -> 0..MaxSerial]
    OBVIOUS
  <2>4. /\ gcpc' \in {"idle", "sweep", "flush", "done"} \cup Prefixes
        /\ evs' \in SUBSET Serials /\ idxs' \in SUBSET Serials
        /\ stubs' \in SUBSET Serials
    OBVIOUS
  <2>5. dels' \in [Prefixes -> SUBSET Serials]
    OBVIOUS
  <2>6. /\ faults' \in 0..MaxFaults
        /\ acked' \in SUBSET Ids
        /\ overtaken' \in SUBSET Procs
        /\ torn' \in SUBSET Serials
        /\ fresh' \in SUBSET Serials
    <3>1. ser[p] \in Serials /\ arg[p] \in Ids
      BY DEF SerialsOwned
    <3> QED
      BY <3>1
  <2> QED
    BY <2>1, <2>2, <2>3, <2>4, <2>5, <2>6 DEF TypeOK
<1>2. RecordsIndexed'
  BY DEF RecordsIndexed
<1>3. SerialsOwned'
  BY DEF SerialsOwned
<1>4. BatchBounded'
  BY DEF BatchBounded
<1>5. StreamsComplete'
  <2>1. \A f \in Prefixes : idxs \cap keys'[f] \subseteq idxs \cap keys[f]
    BY DEF SerialsOwned
  <2>2. \A f \in Prefixes : Streamed(f)' <=> Streamed(f)
    BY DEF Streamed
  <2> QED
    BY <2>1, <2>2 DEF StreamsComplete
<1>6. NoDebris'
  BY DEF NoDebris, Sweeping
<1>7. IndexesAgree'
  BY DEF IndexesAgree, IndexPrefixes
<1>8. SaveFinds'
  BY DEF SaveFinds
<1>9. AckInv'
  <2> SUFFICES ASSUME HasL2, NEW i \in acked'
               PROVE  \/ \E s \in Full' \cap keys'["id"] : owner[s] = i
                      \/ \E s \in torn : owner[s] = i
    BY DEF AckInv, AckedIsStored
  <2>1. /\ Full \subseteq Full' /\ keys["id"] \subseteq keys'["id"]
        /\ ser[p] \in Full' /\ ser[p] \in keys'["id"]
    BY DEF Full
  <2>2. CASE i \in acked
    BY <2>1, <2>2 DEF AckInv, AckedIsStored
  <2>3. CASE i \notin acked
    <3>1. owner[ser[p]] = i
      BY <2>3 DEF SerialsOwned
    <3> QED
      BY <2>1, <3>1
  <2> QED
    BY <2>2, <2>3
<1> QED
  BY <1>1, <1>2, <1>3, <1>4, <1>5, <1>6, <1>7, <1>8, <1>9

(* A failed Update changes no key.                                         *)
LEMMA SaveFailsStep ==
    ASSUME Vetoed, IInv, NEW p \in Procs, SaveFails(p)
    PROVE  IInv'
<1> USE StoreAssumption, RankFacts
      DEF IInv, Vetoed, TypeOK, Serials, Prefixes, SaveFails, Return, durable,
          procVars, batch, gcVars, ghosts
<1>1. TypeOK'
  BY DEF TypeOK
<1>2. RecordsIndexed'
  BY DEF RecordsIndexed
<1>3. SerialsOwned'
  BY DEF SerialsOwned
<1>4. BatchBounded'
  BY DEF BatchBounded
<1>5. StreamsComplete'
  BY DEF StreamsComplete, Streamed
<1>6. NoDebris'
  BY DEF NoDebris, Sweeping
<1>7. IndexesAgree'
  BY DEF IndexesAgree, IndexPrefixes
<1>8. SaveFinds'
  BY DEF SaveFinds
<1>9. AckInv'
  BY DEF AckInv, AckedIsStored, Full
<1> QED
  BY <1>1, <1>2, <1>3, <1>4, <1>5, <1>6, <1>7, <1>8, <1>9

(* DeleteEvent removes every key of its serial at once; only a store without *)
(* a layer 2 deletes.                                                      *)
LEMMA DeleteEventStep ==
    ASSUME Vetoed, IInv, NEW p \in Procs, NEW i \in Ids, DeleteEvent(p, i)
    PROVE  IInv'
<1> USE StoreAssumption, RankFacts
      DEF IInv, Vetoed, TypeOK, Serials, Prefixes, DeleteEvent, Erased,
          SeekId, SerialsOf, Overtakes, durable, procVars, batch, gcVars,
          ghosts
<1>1. TypeOK'
  BY DEF TypeOK
<1>2. RecordsIndexed'
  BY DEF RecordsIndexed
<1>3. SerialsOwned'
  BY DEF SerialsOwned
<1>4. BatchBounded'
  BY DEF BatchBounded
<1>5. StreamsComplete'
  BY DEF StreamsComplete, Streamed
<1>6. NoDebris'
  BY DEF NoDebris, Sweeping
<1>7. IndexesAgree'
  BY DEF IndexesAgree, IndexPrefixes
<1>8. SaveFinds'
  BY DEF SaveFinds
<1>9. AckInv'
  BY DEF AckInv, AckedIsStored, Full
<1> QED
  BY <1>1, <1>2, <1>3, <1>4, <1>5, <1>6, <1>7, <1>8, <1>9

(* A query only remembers the serial it found.                             *)
LEMMA SearchIndexStep ==
    ASSUME Vetoed, IInv, NEW p \in Procs, SearchIndex(p)
    PROVE  IInv'
<1> USE StoreAssumption, RankFacts
      DEF IInv, Vetoed, TypeOK, Serials, Prefixes, SearchIndex, IndexPrefixes,
          durable, procVars, batch, gcVars, ghosts
<1>1. TypeOK'
  BY DEF TypeOK
<1>2. RecordsIndexed'
  BY DEF RecordsIndexed
<1>3. SerialsOwned'
  BY DEF SerialsOwned
<1>4. BatchBounded'
  BY DEF BatchBounded
<1>5. StreamsComplete'
  BY DEF StreamsComplete, Streamed
<1>6. NoDebris'
  BY DEF NoDebris, Sweeping
<1>7. IndexesAgree'
  BY DEF IndexesAgree, IndexPrefixes
<1>8. SaveFinds'
  BY DEF SaveFinds
<1>9. AckInv'
  BY DEF AckInv, AckedIsStored, Full
<1> QED
  BY <1>1, <1>2, <1>3, <1>4, <1>5, <1>6, <1>7, <1>8, <1>9

(* A query that reads a record changes no key.                             *)
LEMMA FetchRecordStep ==
    ASSUME Vetoed, IInv, NEW p \in Procs, FetchRecord(p)
    PROVE  IInv'
<1> USE StoreAssumption, RankFacts
      DEF IInv, Vetoed, TypeOK, Serials, Prefixes, FetchRecord, Return,
          durable, procVars, batch, gcVars, ghosts
<1>1. TypeOK'
  <2>1. keys' \in [Prefixes -> SUBSET {s \in Serials : s < next'}]
    OBVIOUS
  <2>2. /\ stub' \in SUBSET Serials
        /\ owner' \in [Serials -> Ids \cup {NoId}]
        /\ next' \in 1..(MaxSerial + 1)
    OBVIOUS
  <2>3. /\ pc' \in [Procs -> {"idle", "restore", "insert", "commit", "fetch", "access"}]
        /\ arg' \in [Procs -> Ids \cup {NoId}]
        /\ ser' \in [Procs -> 0..MaxSerial]
    <3>1. CASE ser[p] \in keys["event"]
      BY <3>1
    <3>2. CASE ser[p] \notin keys["event"]
      <4>1. /\ pc' = [pc EXCEPT ![p] = "idle"]
            /\ arg' = [arg EXCEPT ![p] = NoId]
            /\ ser' = [ser EXCEPT ![p] = 0]
        BY <3>2
      <4> QED
        BY <4>1
    <3> QED
      BY <3>1, <3>2
  <2>4. /\ gcpc' \in {"idle", "sweep", "flush", "done"} \cup Prefixes
        /\ evs' \in SUBSET Serials /\ idxs' \in SUBSET Serials
        /\ stubs' \in SUBSET Serials
    OBVIOUS
  <2>5. dels' \in [Prefixes -> SUBSET Serials]
    OBVIOUS
  <2>6. /\ faults' \in 0..MaxFaults
        /\ acked' \in SUBSET Ids
        /\ overtaken' \in SUBSET Procs
        /\ torn' \in SUBSET Serials
        /\ fresh' \in SUBSET Serials
    OBVIOUS
  <2> QED
    BY <2>1, <2>2, <2>3, <2>4, <2>5, <2>6 DEF TypeOK
<1>2. RecordsIndexed'
  BY DEF RecordsIndexed
<1>3. SerialsOwned'
  <2>1. CASE ser[p] \in keys["event"]
    BY <2>1 DEF SerialsOwned
  <2>2. CASE ser[p] \notin keys["event"]
    <3>1. /\ pc' = [pc EXCEPT ![p] = "idle"]
          /\ arg' = [arg EXCEPT ![p] = NoId]
          /\ ser' = [ser EXCEPT ![p] = 0]
      BY <2>2
    <3> QED
      BY <3>1 DEF SerialsOwned
  <2> QED
    BY <2>1, <2>2
<1>4. BatchBounded'
  BY DEF BatchBounded
<1>5. StreamsComplete'
  BY DEF StreamsComplete, Streamed
<1>6. NoDebris'
  BY DEF NoDebris, Sweeping
<1>7. IndexesAgree'
  BY DEF IndexesAgree, IndexPrefixes
<1>8. SaveFinds'
  BY DEF SaveFinds
<1>9. AckInv'
  BY DEF AckInv, AckedIsStored, Full
<1> QED
  BY <1>1, <1>2, <1>3, <1>4, <1>5, <1>6, <1>7, <1>8, <1>9

(* IncrementAccesses writes a counter only where there is one.             *)
LEMMA IncrementAccessesStep ==
    ASSUME Vetoed, IInv, NEW p \in Procs, IncrementAccesses(p)
    PROVE  IInv'
<1> USE StoreAssumption, RankFacts
      DEF IInv, Vetoed, TypeOK, Serials, Prefixes, IncrementAccesses,
          BumpCounter, Return, durable, procVars, batch, gcVars, ghosts
<1>1. TypeOK'
  BY DEF TypeOK
<1>2. RecordsIndexed'
  BY DEF RecordsIndexed
<1>3. SerialsOwned'
  BY DEF SerialsOwned
<1>4. BatchBounded'
  BY DEF BatchBounded
<1>5. StreamsComplete'
  BY DEF StreamsComplete, Streamed
<1>6. NoDebris'
  BY DEF NoDebris, Sweeping
<1>7. IndexesAgree'
  BY DEF IndexesAgree, IndexPrefixes
<1>8. SaveFinds'
  BY DEF SaveFinds
<1>9. AckInv'
  BY DEF AckInv, AckedIsStored, Full
<1> QED
  BY <1>1, <1>2, <1>3, <1>4, <1>5, <1>6, <1>7, <1>8, <1>9

(* A canceled query changes no key.                                        *)
LEMMA QueryCanceledStep ==
    ASSUME Vetoed, IInv, NEW p \in Procs, QueryCanceled(p)
    PROVE  IInv'
<1> USE StoreAssumption, RankFacts
      DEF IInv, Vetoed, TypeOK, Serials, Prefixes, QueryCanceled, Return,
          durable, procVars, batch, gcVars, ghosts
<1>1. TypeOK'
  BY DEF TypeOK
<1>2. RecordsIndexed'
  BY DEF RecordsIndexed
<1>3. SerialsOwned'
  BY DEF SerialsOwned
<1>4. BatchBounded'
  BY DEF BatchBounded
<1>5. StreamsComplete'
  BY DEF StreamsComplete, Streamed
<1>6. NoDebris'
  BY DEF NoDebris, Sweeping
<1>7. IndexesAgree'
  BY DEF IndexesAgree, IndexPrefixes
<1>8. SaveFinds'
  BY DEF SaveFinds
<1>9. AckInv'
  BY DEF AckInv, AckedIsStored, Full
<1> QED
  BY <1>1, <1>2, <1>3, <1>4, <1>5, <1>6, <1>7, <1>8, <1>9

(* GCMark marks whole events to evict and stubs to remove: never one serial *)
(* for both, and none that is not stored.                                  *)
LEMMA GCMarkStep ==
    ASSUME Vetoed, IInv, GCMark
    PROVE  IInv'
<1> USE StoreAssumption, RankFacts
      DEF IInv, Vetoed, TypeOK, Serials, Prefixes, GCMark, MarkEvents,
          MarkIndexes, Full, durable, procVars, batch, gcVars, ghosts
<1>1. TypeOK'
  <2>1. keys' \in [Prefixes -> SUBSET {s \in Serials : s < next'}]
    OBVIOUS
  <2>2. /\ stub' \in SUBSET Serials
        /\ owner' \in [Serials -> Ids \cup {NoId}]
        /\ next' \in 1..(MaxSerial + 1)
    OBVIOUS
  <2>3. /\ pc' \in [Procs -> {"idle", "restore", "insert", "commit", "fetch", "access"}]
        /\ arg' \in [Procs -> Ids \cup {NoId}]
        /\ ser' \in [Procs -> 0..MaxSerial]
    OBVIOUS
  <2>4. /\ gcpc' \in {"idle", "sweep", "flush", "done"} \cup Prefixes
        /\ evs' \in SUBSET Serials /\ idxs' \in SUBSET Serials
        /\ stubs' \in SUBSET Serials
    OBVIOUS
  <2>5. dels' \in [Prefixes -> SUBSET Serials]
    OBVIOUS
  <2>6. /\ faults' \in 0..MaxFaults
        /\ acked' \in SUBSET Ids
        /\ overtaken' \in SUBSET Procs
        /\ torn' \in SUBSET Serials
        /\ fresh' \in SUBSET Serials
    OBVIOUS
  <2> QED
    BY <2>1, <2>2, <2>3, <2>4, <2>5, <2>6 DEF TypeOK
<1>2. RecordsIndexed'
  BY DEF RecordsIndexed
<1>3. SerialsOwned'
  <2>1. /\ evs' \subseteq Full /\ idxs' \subseteq stub
        /\ evs' \subseteq keys["event"] /\ idxs' \subseteq keys["event"]
        /\ ~HasL2 => idxs' = {}
    <3>1. \A E \in MarkEvents(Full) : E \subseteq Full
      BY DEF MarkEvents
    <3>2. \A I \in MarkIndexes(stub) : I \subseteq stub /\ (~HasL2 => I = {})
      BY DEF MarkIndexes
    <3> QED
      BY <3>1, <3>2 DEF RecordsIndexed, Full
  <2> QED
    BY <2>1 DEF SerialsOwned
<1>4. BatchBounded'
  <2>1. /\ evs' \subseteq Full /\ idxs' \subseteq stub
        /\ evs' \subseteq keys["event"] /\ idxs' \subseteq keys["event"]
        /\ ~HasL2 => idxs' = {}
    <3>1. \A E \in MarkEvents(Full) : E \subseteq Full
      BY DEF MarkEvents
    <3>2. \A I \in MarkIndexes(stub) : I \subseteq stub /\ (~HasL2 => I = {})
      BY DEF MarkIndexes
    <3> QED
      BY <3>1, <3>2 DEF RecordsIndexed, Full
  <2>2. evs' \cap idxs' = {}
    BY <2>1 DEF Full
  <2>3. \A s \in evs' \cup idxs' : s < next
    BY <2>1
  <2> QED
    BY <2>1, <2>2, <2>3 DEF BatchBounded
<1>5. StreamsComplete'
  BY DEF StreamsComplete, Streamed
<1>6. NoDebris'
  BY DEF NoDebris, Sweeping
<1>7. IndexesAgree'
  BY DEF IndexesAgree, IndexPrefixes
<1>8. SaveFinds'
  BY DEF SaveFinds
<1>9. AckInv'
  BY DEF AckInv, AckedIsStored, Full
<1> QED
  BY <1>1, <1>2, <1>3, <1>4, <1>5, <1>6, <1>7, <1>8, <1>9

(* The first stream fills the batch with marked records that are whole.    *)
LEMMA SweepEventsStep ==
    ASSUME Vetoed, IInv, SweepEvents
    PROVE  IInv'
<1> USE StoreAssumption, RankFacts
      DEF IInv, Vetoed, TypeOK, Serials, Prefixes, SweepEvents, ToPrune,
          ToDelete, Full, durable, procVars, batch, gcVars, ghosts
<1>1. TypeOK'
  <2>1. keys' \in [Prefixes -> SUBSET {s \in Serials : s < next'}]
    OBVIOUS
  <2>2. /\ stub' \in SUBSET Serials
        /\ owner' \in [Serials -> Ids \cup {NoId}]
        /\ next' \in 1..(MaxSerial + 1)
    OBVIOUS
  <2>3. /\ pc' \in [Procs -> {"idle", "restore", "insert", "commit", "fetch", "access"}]
        /\ arg' \in [Procs -> Ids \cup {NoId}]
        /\ ser' \in [Procs -> 0..MaxSerial]
    OBVIOUS
  <2>4. /\ gcpc' \in {"idle", "sweep", "flush", "done"} \cup Prefixes
        /\ evs' \in SUBSET Serials /\ idxs' \in SUBSET Serials
        /\ stubs' \in SUBSET Serials
    OBVIOUS
  <2>5. dels' \in [Prefixes -> SUBSET Serials]
    OBVIOUS
  <2>6. /\ faults' \in 0..MaxFaults
        /\ acked' \in SUBSET Ids
        /\ overtaken' \in SUBSET Procs
        /\ torn' \in SUBSET Serials
        /\ fresh' \in SUBSET Serials
    OBVIOUS
  <2> QED
    BY <2>1, <2>2, <2>3, <2>4, <2>5, <2>6 DEF TypeOK
<1>2. RecordsIndexed'
  BY DEF RecordsIndexed
<1>3. SerialsOwned'
  BY DEF SerialsOwned
<1>4. BatchBounded'
  <2>1. CASE HasL2
    BY <2>1 DEF BatchBounded
  <2>2. CASE ~HasL2
    <3>1. /\ dels'["event"] = evs \cap keys["event"]
          /\ \A f \in Prefixes \ {"event"} : dels'[f] = dels[f]
      BY <2>2
    <3> QED
      BY <2>2, <3>1 DEF BatchBounded
  <2> QED
    BY <2>1, <2>2
<1>5. StreamsComplete'
  <2>1. CASE HasL2 /\ idxs # {}
    BY <2>1 DEF BatchBounded, StreamsComplete, Streamed
  <2>2. CASE ~HasL2 \/ idxs = {}
    BY <2>2 DEF BatchBounded, StreamsComplete, Streamed
  <2> QED
    BY <2>1, <2>2
<1>6. NoDebris'
  BY DEF NoDebris, Sweeping
<1>7. IndexesAgree'
  BY DEF IndexesAgree, IndexPrefixes
<1>8. SaveFinds'
  BY DEF SaveFinds
<1>9. AckInv'
  BY DEF AckInv, AckedIsStored, Full
<1> QED
  BY <1>1, <1>2, <1>3, <1>4, <1>5, <1>6, <1>7, <1>8, <1>9

(* A stream puts every marked key of its prefix in the batch.              *)
LEMMA SweepPrefixStep ==
    ASSUME Vetoed, IInv, SweepPrefix
    PROVE  IInv'
<1> USE StoreAssumption, RankFacts
      DEF IInv, Vetoed, TypeOK, Serials, Prefixes, SweepPrefix, durable,
          procVars, batch, gcVars, ghosts
<1>1. TypeOK'
  <2>1. keys' \in [Prefixes -> SUBSET {s \in Serials : s < next'}]
    OBVIOUS
  <2>2. /\ stub' \in SUBSET Serials
        /\ owner' \in [Serials -> Ids \cup {NoId}]
        /\ next' \in 1..(MaxSerial + 1)
    OBVIOUS
  <2>3. /\ pc' \in [Procs -> {"idle", "restore", "insert", "commit", "fetch", "access"}]
        /\ arg' \in [Procs -> Ids \cup {NoId}]
        /\ ser' \in [Procs -> 0..MaxSerial]
    OBVIOUS
  <2>4. /\ gcpc' \in {"idle", "sweep", "flush", "done"} \cup Prefixes
        /\ evs' \in SUBSET Serials /\ idxs' \in SUBSET Serials
        /\ stubs' \in SUBSET Serials
    BY AfterFacts
  <2>5. dels' \in [Prefixes -> SUBSET Serials]
    OBVIOUS
  <2>6. /\ faults' \in 0..MaxFaults
        /\ acked' \in SUBSET Ids
        /\ overtaken' \in SUBSET Procs
        /\ torn' \in SUBSET Serials
        /\ fresh' \in SUBSET Serials
    OBVIOUS
  <2> QED
    BY <2>1, <2>2, <2>3, <2>4, <2>5, <2>6 DEF TypeOK
<1>2. RecordsIndexed'
  BY DEF RecordsIndexed
<1>3. SerialsOwned'
  BY DEF SerialsOwned
<1>4. BatchBounded'
  <2>1. /\ dels' \in [Prefixes -> SUBSET Serials]
        /\ dels'[gcpc] = idxs \cap keys[gcpc]
        /\ \A f \in Prefixes : f # gcpc => dels'[f] = dels[f]
    OBVIOUS
  <2>2. gcpc' \in Prefixes \cup {"flush"}
    BY AfterFacts
  <2> QED
    BY <2>1, <2>2 DEF BatchBounded
<1>5. StreamsComplete'
  <2>1. /\ dels'[gcpc] = idxs \cap keys[gcpc]
        /\ \A f \in Prefixes : f # gcpc => dels'[f] = dels[f]
    OBVIOUS
  <2>2. \A f \in Prefixes : Streamed(f)' <=> Streamed(f) \/ f = gcpc
    <3> TAKE f \in Prefixes
    <3>1. gcpc' \in Prefixes \cup {"flush"} /\ gcpc # "flush"
      BY AfterFacts
    <3> QED
      BY <3>1, AfterFacts DEF Streamed
  <2> QED
    BY <2>1, <2>2 DEF StreamsComplete
<1>6. NoDebris'
  <2>1. Sweeping' = idxs /\ Sweeping = idxs
    BY AfterFacts DEF Sweeping
  <2> QED
    BY <2>1 DEF NoDebris
<1>7. IndexesAgree'
  BY DEF IndexesAgree, IndexPrefixes
<1>8. SaveFinds'
  BY DEF SaveFinds
<1>9. AckInv'
  BY DEF AckInv, AckedIsStored, Full
<1> QED
  BY <1>1, <1>2, <1>3, <1>4, <1>5, <1>6, <1>7, <1>8, <1>9

(* A commit of the batch, also of a part of it, removes the keys of a record *)
(* only together with the record or after it.                              *)
LEMMA FlushBatchStep ==
    ASSUME Vetoed, IInv, FlushBatch
    PROVE  IInv'
<1> USE StoreAssumption, RankFacts
      DEF IInv, Vetoed, TypeOK, Serials, Prefixes, FlushBatch, Overtakes,
          durable, procVars, batch, gcVars, ghosts
<1>1. TypeOK'
  <2>1. PICK T \in SUBSET stubs, cut \in [Prefixes -> SUBSET Serials] : Flushes(T, cut)
    BY FlushFacts
  <2>2. keys' \in [Prefixes -> SUBSET {s \in Serials : s < next'}]
    BY <2>1 DEF Flushes, Commit
  <2>3. /\ stub' \in SUBSET Serials /\ stubs' \in SUBSET Serials
        /\ dels' \in [Prefixes -> SUBSET Serials]
    BY <2>1 DEF Flushes, Commit
  <2>4. /\ acked' \in SUBSET Ids
        /\ overtaken' \in SUBSET Procs
        /\ fresh' \in SUBSET Serials
    BY <2>1 DEF Flushes, Commit
  <2> QED
    BY <2>2, <2>3, <2>4 DEF TypeOK
<1>2. RecordsIndexed'
  <2>1. PICK T \in SUBSET stubs, cut \in [Prefixes -> SUBSET Serials] : Flushes(T, cut)
    BY FlushFacts
  <2> QED
    BY <2>1 DEF Flushes, Commit, RecordsIndexed, BatchBounded
<1>3. SerialsOwned'
  <2>1. PICK T \in SUBSET stubs, cut \in [Prefixes -> SUBSET Serials] : Flushes(T, cut)
    BY FlushFacts
  <2> QED
    BY <2>1 DEF Flushes, Commit, SerialsOwned
<1>4. BatchBounded'
  <2>1. PICK T \in SUBSET stubs, cut \in [Prefixes -> SUBSET Serials] : Flushes(T, cut)
    BY FlushFacts
  <2> QED
    BY <2>1 DEF Flushes, Commit, BatchBounded
<1>5. StreamsComplete'
  <2>1. PICK T \in SUBSET stubs, cut \in [Prefixes -> SUBSET Serials] : Flushes(T, cut)
    BY FlushFacts
  <2>2. \A g \in Prefixes : Streamed(g)' <=> Streamed(g)
    BY DEF Streamed
  <2> QED
    BY <2>1, <2>2 DEF Flushes, Commit, StreamsComplete
<1>6. NoDebris'
  <2>1. PICK T \in SUBSET stubs, cut \in [Prefixes -> SUBSET Serials] : Flushes(T, cut)
    BY FlushFacts
  <2>2. Sweeping' = idxs /\ Sweeping = idxs
    BY DEF Sweeping
  <2> QED
    BY <2>1, <2>2 DEF Flushes, Commit, NoDebris, BatchBounded
<1>7. IndexesAgree'
  <2>1. PICK T \in SUBSET stubs, cut \in [Prefixes -> SUBSET Serials] : Flushes(T, cut)
    BY FlushFacts
  <2>2. ~HasL2 => \A g \in Prefixes : g # "event" => keys'[g] = keys[g]
    BY <2>1 DEF Flushes, Commit, BatchBounded
  <2> QED
    BY <2>2 DEF IndexesAgree, IndexPrefixes
<1>8. SaveFinds'
  <2>1. PICK T \in SUBSET stubs, cut \in [Prefixes -> SUBSET Serials] : Flushes(T, cut)
    BY FlushFacts
  <2> QED
    BY <2>1 DEF Flushes, Commit, SaveFinds
<1>9. AckInv'
  <2>1. PICK T \in SUBSET stubs, cut \in [Prefixes -> SUBSET Serials] : Flushes(T, cut)
    BY FlushFacts
  <2> SUFFICES ASSUME HasL2, NEW i \in acked'
               PROVE  \/ \E s \in Full' \cap keys'["id"] : owner[s] = i
                      \/ \E s \in torn : owner[s] = i
    BY DEF AckInv, AckedIsStored
  <2>2. i \in acked /\ \A s \in T \cup cut["event"] : owner[s] # i
    BY <2>1 DEF Flushes, Commit
  <2>3. ASSUME NEW s \in Full \cap keys["id"], owner[s] = i
        PROVE  s \in Full' \cap keys'["id"]
    BY <2>1, <2>2, <2>3 DEF Flushes, Commit, Full
  <2> QED
    BY <2>2, <2>3 DEF AckInv, AckedIsStored
<1> QED
  BY <1>1, <1>2, <1>3, <1>4, <1>5, <1>6, <1>7, <1>8, <1>9

(* When the batch is empty the streams have left no key of a marked stub.  *)
LEMMA SweepDoneStep ==
    ASSUME Vetoed, IInv, SweepDone
    PROVE  IInv'
<1> USE StoreAssumption, RankFacts
      DEF IInv, Vetoed, TypeOK, Serials, Prefixes, SweepDone, NoDels, durable,
          procVars, batch, gcVars, ghosts
<1>1. TypeOK'
  BY DEF TypeOK
<1>2. RecordsIndexed'
  BY DEF RecordsIndexed
<1>3. SerialsOwned'
  BY DEF SerialsOwned
<1>4. BatchBounded'
  BY DEF BatchBounded
<1>5. StreamsComplete'
  BY DEF StreamsComplete, Streamed
<1>6. NoDebris'
  <2>1. \A f \in Prefixes : idxs \cap keys[f] = {}
    BY DEF StreamsComplete, Streamed
  <2> QED
    BY <2>1 DEF NoDebris, Sweeping
<1>7. IndexesAgree'
  BY DEF IndexesAgree, IndexPrefixes
<1>8. SaveFinds'
  BY DEF SaveFinds
<1>9. AckInv'
  BY DEF AckInv, AckedIsStored, Full
<1> QED
  BY <1>1, <1>2, <1>3, <1>4, <1>5, <1>6, <1>7, <1>8, <1>9

(* The collector forgets what it marked.                                   *)
LEMMA GCReturnStep ==
    ASSUME Vetoed, IInv, GCReturn
    PROVE  IInv'
<1> USE StoreAssumption, RankFacts
      DEF IInv, Vetoed, TypeOK, Serials, Prefixes, GCReturn, durable,
          procVars, batch, gcVars, ghosts
<1>1. TypeOK'
  BY DEF TypeOK
<1>2. RecordsIndexed'
  BY DEF RecordsIndexed
<1>3. SerialsOwned'
  BY DEF SerialsOwned
<1>4. BatchBounded'
  BY DEF BatchBounded
<1>5. StreamsComplete'
  BY DEF StreamsComplete, Streamed
<1>6. NoDebris'
  BY DEF NoDebris, Sweeping
<1>7. IndexesAgree'
  BY DEF IndexesAgree, IndexPrefixes
<1>8. SaveFinds'
  BY DEF SaveFinds
<1>9. AckInv'
  BY DEF AckInv, AckedIsStored, Full
<1> QED
  BY <1>1, <1>2, <1>3, <1>4, <1>5, <1>6, <1>7, <1>8, <1>9

(* A sweep that stops half way leaves keys without a record only in torn.  *)
LEMMA SweepFailsStep ==
    ASSUME Vetoed, IInv, SweepFails
    PROVE  IInv'
<1> USE StoreAssumption, RankFacts
      DEF IInv, Vetoed, TypeOK, Serials, Prefixes, SweepFails, StopCollector,
          NoDels, HalfSwept, Sweeping, durable, procVars, batch, gcVars,
          ghosts
<1>1. TypeOK'
  <2>1. keys' \in [Prefixes -> SUBSET {s \in Serials : s < next'}]
    OBVIOUS
  <2>2. /\ stub' \in SUBSET Serials
        /\ owner' \in [Serials -> Ids \cup {NoId}]
        /\ next' \in 1..(MaxSerial + 1)
    OBVIOUS
  <2>3. /\ pc' \in [Procs -> {"idle", "restore", "insert", "commit", "fetch", "access"}]
        /\ arg' \in [Procs -> Ids \cup {NoId}]
        /\ ser' \in [Procs -> 0..MaxSerial]
    OBVIOUS
  <2>4. /\ gcpc' \in {"idle", "sweep", "flush", "done"} \cup Prefixes
        /\ evs' \in SUBSET Serials /\ idxs' \in SUBSET Serials
        /\ stubs' \in SUBSET Serials
    OBVIOUS
  <2>5. dels' \in [Prefixes -> SUBSET Serials]
    OBVIOUS
  <2>6. /\ faults' \in 0..MaxFaults
        /\ acked' \in SUBSET Ids
        /\ overtaken' \in SUBSET Procs
        /\ torn' \in SUBSET Serials
        /\ fresh' \in SUBSET Serials
    <3>1. torn' \in SUBSET Serials
      OBVIOUS
    <3> QED
      BY <3>1
  <2> QED
    BY <2>1, <2>2, <2>3, <2>4, <2>5, <2>6 DEF TypeOK
<1>2. RecordsIndexed'
  BY DEF RecordsIndexed
<1>3. SerialsOwned'
  BY DEF SerialsOwned
<1>4. BatchBounded'
  BY DEF BatchBounded
<1>5. StreamsComplete'
  BY DEF StreamsComplete, Streamed
<1>6. NoDebris'
  BY DEF NoDebris, Sweeping
<1>7. IndexesAgree'
  BY DEF IndexesAgree, IndexPrefixes
<1>8. SaveFinds'
  BY DEF SaveFinds
<1>9. AckInv'
  BY DEF AckInv, AckedIsStored, Full
<1> QED
  BY <1>1, <1>2, <1>3, <1>4, <1>5, <1>6, <1>7, <1>8, <1>9

(* A crash does the same, and restarts the sequence beyond every serial.   *)
LEMMA CrashStep ==
    ASSUME Vetoed, IInv, Crash
    PROVE  IInv'
<1> USE StoreAssumption, RankFacts
      DEF IInv, Vetoed, TypeOK, Serials, Prefixes, Crash, Restart, SkipLease,
          StopCollector, NoDels, HalfSwept, Sweeping, durable, procVars,
          batch, gcVars, ghosts
<1>1. TypeOK'
  <2>1. keys' \in [Prefixes -> SUBSET {s \in Serials : s < next'}]
    OBVIOUS
  <2>2. /\ stub' \in SUBSET Serials
        /\ owner' \in [Serials -> Ids \cup {NoId}]
        /\ next' \in 1..(MaxSerial + 1)
    OBVIOUS
  <2>3. /\ pc' \in [Procs -> {"idle", "restore", "insert", "commit", "fetch", "access"}]
        /\ arg' \in [Procs -> Ids \cup {NoId}]
        /\ ser' \in [Procs -> 0..MaxSerial]
    OBVIOUS
  <2>4. /\ gcpc' \in {"idle", "sweep", "flush", "done"} \cup Prefixes
        /\ evs' \in SUBSET Serials /\ idxs' \in SUBSET Serials
        /\ stubs' \in SUBSET Serials
    OBVIOUS
  <2>5. dels' \in [Prefixes -> SUBSET Serials]
    OBVIOUS
  <2>6. /\ faults' \in 0..MaxFaults
        /\ acked' \in SUBSET Ids
        /\ overtaken' \in SUBSET Procs
        /\ torn' \in SUBSET Serials
        /\ fresh' \in SUBSET Serials
    <3>1. torn' \in SUBSET Serials
      OBVIOUS
    <3> QED
      BY <3>1
  <2> QED
    BY <2>1, <2>2, <2>3, <2>4, <2>5, <2>6 DEF TypeOK
<1>2. RecordsIndexed'
  BY DEF RecordsIndexed
<1>3. SerialsOwned'
  BY DEF SerialsOwned
<1>4. BatchBounded'
  <2>1. \A s \in torn' : s < next
    BY DEF BatchBounded
  <2>2. next' \in 1..(MaxSerial + 1) /\ next <= next'
    OBVIOUS
  <2>3. \A s \in torn' : s \in Serials
    OBVIOUS
  <2>4. \A s \in torn' : s < next'
    BY <2>1, <2>2, <2>3
  <2> QED
    BY <2>4 DEF BatchBounded
<1>5. StreamsComplete'
  BY DEF StreamsComplete, Streamed
<1>6. NoDebris'
  BY DEF NoDebris, Sweeping
<1>7. IndexesAgree'
  BY DEF IndexesAgree, IndexPrefixes
<1>8. SaveFinds'
  BY DEF SaveFinds
<1>9. AckInv'
  BY DEF AckInv, AckedIsStored, Full
<1> QED
  BY <1>1, <1>2, <1>3, <1>4, <1>5, <1>6, <1>7, <1>8, <1>9

(* Wipe removes every key.                                                 *)
LEMMA WipeStep ==
    ASSUME Vetoed, IInv, Wipe
    PROVE  IInv'
<1> USE StoreAssumption, RankFacts
      DEF IInv, Vetoed, TypeOK, Serials, Prefixes, Wipe, Restart, SkipLease,
          StopCollector, NoDels, durable, procVars, batch, gcVars, ghosts
<1>1. TypeOK'
  <2>1. keys' \in [Prefixes -> SUBSET {s \in Serials : s < next'}]
    <3>1. PICK T \in SUBSET stubs :
              keys' = [f \in Prefixes |-> IF f = "event" THEN T ELSE {}]
      OBVIOUS
    <3>2. T = {}
      BY <3>1 DEF BatchBounded
    <3> QED
      BY <3>1, <3>2
  <2>2. /\ stub' \in SUBSET Serials
        /\ owner' \in [Serials -> Ids \cup {NoId}]
        /\ next' \in 1..(MaxSerial + 1)
    OBVIOUS
  <2>3. /\ pc' \in [Procs -> {"idle", "restore", "insert", "commit", "fetch", "access"}]
        /\ arg' \in [Procs -> Ids \cup {NoId}]
        /\ ser' \in [Procs -> 0..MaxSerial]
    OBVIOUS
  <2>4. /\ gcpc' \in {"idle", "sweep", "flush", "done"} \cup Prefixes
        /\ evs' \in SUBSET Serials /\ idxs' \in SUBSET Serials
        /\ stubs' \in SUBSET Serials
    OBVIOUS
  <2>5. dels' \in [Prefixes -> SUBSET Serials]
    OBVIOUS
  <2>6. /\ faults' \in 0..MaxFaults
        /\ acked' \in SUBSET Ids
        /\ overtaken' \in SUBSET Procs
        /\ torn' \in SUBSET Serials
        /\ fresh' \in SUBSET Serials
    OBVIOUS
  <2> QED
    BY <2>1, <2>2, <2>3, <2>4, <2>5, <2>6 DEF TypeOK
<1>2. RecordsIndexed'
  <2>1. PICK T \in SUBSET stubs :
            /\ keys' = [f \in Prefixes |-> IF f = "event" THEN T ELSE {}]
            /\ stub' = T
    OBVIOUS
  <2>2. stubs = {} /\ T = {}
    BY <2>1 DEF BatchBounded
  <2>3. stub' = {} /\ \A f \in Prefixes : keys'[f] = {}
    BY <2>1, <2>2
  <2> QED
    BY <2>3 DEF RecordsIndexed
<1>3. SerialsOwned'
  BY DEF SerialsOwned
<1>4. BatchBounded'
  BY DEF BatchBounded
<1>5. StreamsComplete'
  BY DEF StreamsComplete, Streamed
<1>6. NoDebris'
  BY DEF NoDebris, Sweeping
<1>7. IndexesAgree'
  BY DEF IndexesAgree, IndexPrefixes
<1>8. SaveFinds'
  BY DEF SaveFinds
<1>9. AckInv'
  BY DEF AckInv, AckedIsStored, Full
<1> QED
  BY <1>1, <1>2, <1>3, <1>4, <1>5, <1>6, <1>7, <1>8, <1>9

-----------------------------------------------------------------------------
(* The empty store satisfies the invariant. *)
LEMMA InitIInv ==
    ASSUME Init
    PROVE  IInv
<1> USE StoreAssumption, RankFacts DEF Init, Serials, Prefixes, NoDels
<1>1. TypeOK
  BY DEF TypeOK
<1>2. RecordsIndexed /\ SerialsOwned
  BY DEF RecordsIndexed, SerialsOwned
<1>3. BatchBounded /\ StreamsComplete
  BY DEF BatchBounded, StreamsComplete
<1>4. NoDebris /\ IndexesAgree
  BY DEF NoDebris, IndexesAgree, IndexPrefixes
<1>5. SaveFinds /\ AckInv
  BY DEF SaveFinds, AckInv, AckedIsStored
<1> QED
  BY <1>1, <1>2, <1>3, <1>4, <1>5 DEF IInv

(* The invariant depends on the variables only. *)
LEMMA StutterIInv ==
    ASSUME IInv, UNCHANGED vars
    PROVE  IInv'
<1> USE DEF vars
<1>1. TypeOK' /\ RecordsIndexed' /\ SerialsOwned'
  BY DEF IInv, TypeOK, RecordsIndexed, SerialsOwned
<1>2. BatchBounded'
  BY DEF IInv, BatchBounded
<1>3. StreamsComplete'
  BY DEF IInv, StreamsComplete, Streamed
<1>4. NoDebris' /\ IndexesAgree'
  BY DEF IInv, NoDebris, IndexesAgree, Sweeping
<1>5. SaveFinds' /\ AckInv'
  BY DEF IInv, SaveFinds, AckInv, AckedIsStored, Full
<1> QED
  BY <1>1, <1>2, <1>3, <1>4, <1>5 DEF IInv

(* Every step of the store preserves the invariant. *)
LEMMA NextIInv ==
    ASSUME Vetoed, IInv, [Next]_vars
    PROVE  IInv'
<1>1. ASSUME NEW p \in Procs, Client(p)
      PROVE  IInv'
  <2>1. ASSUME NEW i \in Ids, SaveLookup(p, i) \/ DeleteEvent(p, i)
        PROVE  IInv'
    BY <2>1, SaveLookupStep, DeleteEventStep
  <2>2. CASE SaveRestore(p) \/ SaveSerial(p) \/ SaveCommit(p) \/ SaveFails(p)
    BY <2>2, SaveRestoreStep, SaveSerialStep, SaveCommitStep, SaveFailsStep
  <2>3. CASE \/ SearchIndex(p) \/ FetchRecord(p) \/ IncrementAccesses(p)
             \/ QueryCanceled(p)
    BY <2>3, SearchIndexStep, FetchRecordStep, IncrementAccessesStep, QueryCanceledStep
  <2> QED
    BY <1>1, <2>1, <2>2, <2>3 DEF Client
<1>2. CASE Collector
  BY <1>2, GCMarkStep, SweepEventsStep, SweepPrefixStep, FlushBatchStep,
     SweepDoneStep, GCReturnStep DEF Collector
<1>3. CASE SweepFails \/ Crash \/ Wipe
  BY <1>3, SweepFailsStep, CrashStep, WipeStep
<1>4. CASE UNCHANGED vars
  BY <1>4, StutterIInv
<1> QED
  BY <1>1, <1>2, <1>3, <1>4 DEF Next

(* The inductive invariant holds in every reachable state. *)
THEOREM Invariance == Vetoed => (Spec => []IInv)
<1> SUFFICES ASSUME Vetoed
             PROVE  Spec => []IInv
  OBVIOUS
<1>1. Init => IInv
  BY InitIInv
<1>2. IInv /\ [Next]_vars => IInv'
  BY NextIInv
<1> QED
  BY <1>1, <1>2, PTL DEF Spec

(* Every variable keeps its type; in particular no key, not even after a   *)
(* crash, has a serial that the sequence has still to hand out.            *)
THEOREM TypeCorrect == Vetoed => (Spec => []TypeOK)
<1> SUFFICES ASSUME Vetoed
             PROVE  Spec => []TypeOK
  OBVIOUS
<1>1. IInv => TypeOK
  BY DEF IInv
<1> QED
  BY <1>1, Invariance, PTL

(* A whole event always has all its index keys and its access counter: the *)
(* record a save restores (save.go:60) is one every query can still find.  *)
THEOREM RecordsReachable == Vetoed => (Spec => []FullRecordReachable)
<1> SUFFICES ASSUME Vetoed
             PROVE  Spec => []FullRecordReachable
  OBVIOUS
<1>1. IInv => FullRecordReachable
  BY DEF IInv, RecordsIndexed, FullRecordReachable, Full, IndexPrefixes, Prefixes
<1> QED
  BY <1>1, Invariance, PTL

(* With an L2 only an index sweep, under way or cut short, leaves keys     *)
(* without a record, which SaveEvent would pass over in silence.           *)
THEOREM KeysConsistent == Vetoed => (Spec => []NoDebris)
<1> SUFFICES ASSUME Vetoed
             PROVE  Spec => []NoDebris
  OBVIOUS
<1>1. IInv => NoDebris
  BY DEF IInv
<1> QED
  BY <1>1, Invariance, PTL

(* Without an L2, the indexes and the counter of a serial come and go as   *)
(* one, whatever fails or races: a record is deleted alone, and only       *)
(* DeleteEvent and a wipe touch its other keys (delete.go:45).             *)
THEOREM IndexesConsistent == Vetoed => (Spec => []IndexesAgree)
<1> SUFFICES ASSUME Vetoed
             PROVE  Spec => []IndexesAgree
  OBVIOUS
<1>1. IInv => IndexesAgree
  BY DEF IInv
<1> QED
  BY <1>1, Invariance, PTL

(* With an L2, an event whose save returned with success stays readable    *)
(* until it is evicted, for any number of clients and any crashes, except  *)
(* where a removal overtook the save or an index sweep was cut short.      *)
THEOREM AckedStays == Vetoed /\ HasL2 => (Spec => []AckedIsStored)
<1> SUFFICES ASSUME Vetoed, HasL2
             PROVE  Spec => []AckedIsStored
  OBVIOUS
<1>1. IInv => AckedIsStored
  BY DEF IInv, AckInv
<1> QED
  BY <1>1, Invariance, PTL

-----------------------------------------------------------------------------
(***************************************************************************)
(* Only saves that ran side by side give an event a second serial.         *)
(***************************************************************************)
NoNewCopy(i) ==
    Copies(i) # {} =>
        /\ Savers(i)' \subseteq Savers(i)
        /\ Copies(i)' \ Copies(i) \subseteq {ser[p] : p \in Savers(i) \ Savers(i)'}

(* No Id key is added, none changes its owner, and no save gets as far as  *)
(* inserting.                                                              *)
NoneInserted ==
    /\ keys'["id"] \subseteq keys["id"]
    /\ \A s \in keys["id"] : owner'[s] = owner[s]
    /\ \A p \in Procs : pc'[p] \in {"insert", "commit"} =>
          pc[p] \in {"insert", "commit"} /\ arg'[p] = arg[p]

LEMMA NoneInsertedStep ==
    ASSUME NoneInserted, NEW i \in Ids
    PROVE  NoNewCopy(i)
  BY DEF NoNewCopy, NoneInserted, Copies, Savers

(* The steps of a client. *)
LEMMA ClientCopies ==
    ASSUME IInv, NEW p \in Procs, Client(p), NEW i \in Ids
    PROVE  NoNewCopy(i)
<1> USE DEF IInv, TypeOK, Serials, Prefixes, durable, procVars, gcVars, ghosts
<1>1. ASSUME UNCHANGED <<keys, owner>>,
             \A q \in Procs : pc'[q] \in {"insert", "commit"} => pc'[q] = pc[q] /\ arg'[q] = arg[q]
      PROVE  NoNewCopy(i)
  BY <1>1, NoneInsertedStep DEF NoneInserted
<1>2. ASSUME NEW j \in Ids, SaveLookup(p, j)
      PROVE  NoNewCopy(i)
  <2>1. UNCHANGED <<keys, owner>>
    BY <1>2 DEF SaveLookup
  <2>2. \A q \in Procs : q # p => pc'[q] = pc[q] /\ arg'[q] = arg[q]
    BY <1>2 DEF SaveLookup
  <2>3. arg'[p] = j /\ (pc'[p] = "restore" \/ (pc'[p] = "insert" /\ SerialsOf(j) = {}))
    BY <1>2 DEF SaveLookup
  <2> QED
    BY <2>1, <2>2, <2>3 DEF NoNewCopy, Copies, Savers, SerialsOf
<1>3. ASSUME NEW j \in Ids, DeleteEvent(p, j)
      PROVE  NoNewCopy(i)
  <2>1. UNCHANGED <<owner, pc, arg>> /\ keys'["id"] \subseteq keys["id"]
    BY <1>3 DEF DeleteEvent, Erased
  <2> QED
    BY <2>1, NoneInsertedStep DEF NoneInserted
<1>4. CASE SaveRestore(p)
  <2>1. keys'["id"] = keys["id"] /\ owner' = owner
    BY <1>4 DEF SaveRestore, RestoreRecord
  <2>2. pc'[p] = "idle" /\ \A q \in Procs : q # p => pc'[q] = pc[q] /\ arg'[q] = arg[q]
    BY <1>4 DEF SaveRestore, Return
  <2> QED
    BY <2>1, <2>2, NoneInsertedStep DEF NoneInserted
<1>5. CASE SaveSerial(p)
  <2>1. keys' = keys /\ arg' = arg /\ \A q \in Procs : q # p => pc'[q] = pc[q]
    BY <1>5 DEF SaveSerial
  <2>2. \A s \in keys["id"] : owner'[s] = owner[s]
    BY <1>5 DEF SaveSerial
  <2>3. pc[p] = "insert"
    BY <1>5 DEF SaveSerial
  <2> QED
    BY <2>1, <2>2, <2>3, NoneInsertedStep DEF NoneInserted
<1>6. CASE SaveCommit(p)
  <2>1. /\ keys'["id"] = keys["id"] \cup {ser[p]}
        /\ owner' = owner /\ owner[ser[p]] = arg[p]
        /\ pc[p] = "commit" /\ pc'[p] = "idle"
    BY <1>6 DEF SaveCommit, Return, SerialsOwned
  <2>2. \A q \in Procs : q # p => pc'[q] = pc[q] /\ arg'[q] = arg[q]
    BY <1>6 DEF SaveCommit, Return
  <2>3. Savers(i)' \subseteq Savers(i) /\ p \notin Savers(i)'
    BY <2>1, <2>2 DEF Savers
  <2>4. CASE arg[p] = i
    <3>1. p \in Savers(i) \ Savers(i)'
      BY <2>1, <2>3, <2>4 DEF Savers
    <3>2. Copies(i)' \subseteq Copies(i) \cup {ser[p]}
      BY <2>1 DEF Copies
    <3> QED
      BY <2>3, <3>1, <3>2 DEF NoNewCopy
  <2>5. CASE arg[p] # i
    <3>1. Copies(i)' \subseteq Copies(i)
      BY <2>1, <2>5 DEF Copies
    <3> QED
      BY <2>3, <3>1 DEF NoNewCopy
  <2> QED
    BY <2>4, <2>5
<1>7. CASE IncrementAccesses(p)
  <2>1. keys'["id"] = keys["id"] /\ owner' = owner
    BY <1>7 DEF IncrementAccesses, BumpCounter
  <2>2. pc'[p] = "idle" /\ \A q \in Procs : q # p => pc'[q] = pc[q] /\ arg'[q] = arg[q]
    BY <1>7 DEF IncrementAccesses, Return
  <2> QED
    BY <2>1, <2>2, NoneInsertedStep DEF NoneInserted
<1>8. CASE SaveFails(p)
  BY <1>1, <1>8 DEF SaveFails, Return
<1>9. CASE SearchIndex(p)
  BY <1>1, <1>9 DEF SearchIndex
<1>10. CASE FetchRecord(p)
  BY <1>1, <1>10 DEF FetchRecord, Return
<1>11. CASE QueryCanceled(p)
  BY <1>1, <1>11 DEF QueryCanceled, Return
<1> QED
  BY <1>2, <1>3, <1>4, <1>5, <1>6, <1>7, <1>8, <1>9, <1>10, <1>11 DEF Client

(* Every step of the store. *)
LEMMA StepCopies ==
    ASSUME Vetoed, IInv, Next, NEW i \in Ids
    PROVE  NoNewCopy(i)
<1> USE DEF IInv, TypeOK, Serials, Prefixes, durable, procVars, gcVars, batch, ghosts
<1>1. ASSUME UNCHANGED <<keys, owner, pc, arg>>
      PROVE  NoNewCopy(i)
  BY <1>1, NoneInsertedStep DEF NoneInserted
<1>2. CASE GCMark \/ SweepEvents \/ SweepPrefix \/ SweepDone \/ GCReturn \/ SweepFails
  <2>1. UNCHANGED <<keys, owner, pc, arg>>
    BY <1>2 DEF GCMark, SweepEvents, SweepPrefix, SweepDone, GCReturn, SweepFails
  <2> QED
    BY <1>1, <2>1
<1>3. CASE FlushBatch
  <2>1. keys'["id"] \subseteq keys["id"]
    BY <1>3, FlushFacts DEF Flushes
  <2>2. UNCHANGED <<owner, pc, arg>>
    BY <1>3 DEF FlushBatch
  <2> QED
    BY <2>1, <2>2, NoneInsertedStep DEF NoneInserted
<1>4. CASE Crash
  <2>1. UNCHANGED <<keys, owner>> /\ \A q \in Procs : pc'[q] = "idle"
    BY <1>4 DEF Crash, Restart
  <2> QED
    BY <2>1, NoneInsertedStep DEF NoneInserted
<1>5. CASE Wipe
  <2>1. keys'["id"] = {} /\ \A q \in Procs : pc'[q] = "idle"
    BY <1>5 DEF Wipe, Restart
  <2>2. owner' = owner
    BY <1>5 DEF Wipe, Restart
  <2> QED
    BY <2>1, <2>2, NoneInsertedStep DEF NoneInserted
<1> QED
  BY <1>2, <1>3, <1>4, <1>5, ClientCopies DEF Next, Collector

(* Once an event has a serial, only a save that had looked it up before    *)
(* gives it another, and each such save one: for any number of goroutines, *)
(* whatever the collector, failures and restarts do between the lookup and *)
(* the update (save.go:22-47).                                             *)
THEOREM CopiesAreFew == Vetoed => (Spec => NoLateDuplicate)
<1> SUFFICES ASSUME Vetoed
             PROVE  Spec => NoLateDuplicate
  OBVIOUS
<1>1. IInv /\ [Next]_vars =>
        [\A i \in Ids : Copies(i) # {} =>
           /\ Savers(i)' \subseteq Savers(i)
           /\ Copies(i)' \ Copies(i) \subseteq {ser[p] : p \in Savers(i) \ Savers(i)'}]_vars
  BY StepCopies DEF NoNewCopy
<1> QED
  BY <1>1, Invariance, PTL DEF Spec, NoLateDuplicate

-----------------------------------------------------------------------------
(***************************************************************************)
(* A sweep that completes reclaims what it has marked.                     *)
(***************************************************************************)

(* The whole events that nobody has written since the last mark. *)
Kept == Full \ fresh

(* While the collector runs, what it has not marked fits, and what it has  *)
(* marked is in its batch as soon as the records were streamed.  Only a    *)
(* store with an L2 sweeps indexes.                                        *)
SweepInv ==
    gcpc # "idle" =>
        /\ Reaches(Cardinality(Kept \ evs))
        /\ gcpc \in Prefixes => HasL2
        /\ gcpc # "sweep" => Kept \cap evs \subseteq IF HasL2 THEN stubs ELSE dels["event"]

(* Fewer serials are not more. *)
LEMMA KeptCount ==
    ASSUME TypeOK, NEW S, S \subseteq Kept \ evs
    PROVE  /\ IsFiniteSet(Kept \ evs)
           /\ Cardinality(S) <= Cardinality(Kept \ evs)
           /\ Cardinality(S) \in Nat /\ Cardinality(Kept \ evs) \in Nat
<1>1. IsFiniteSet(Serials)
  BY StoreAssumption, FS_Interval DEF Serials
<1>2. Kept \ evs \subseteq Serials
  BY DEF TypeOK, Kept, Full, Prefixes
<1>3. IsFiniteSet(Kept \ evs)
  BY <1>1, <1>2, FS_Subset
<1> QED
  BY <1>3, FS_Subset, FS_CardinalityType

(* Records that only go leave the bound of a sweep as it is. *)
LEMMA KeptShrinks ==
    ASSUME TypeOK, SweepInv, Kept' \subseteq Kept, UNCHANGED <<evs, gcpc, stubs, dels>>
    PROVE  SweepInv'
<1>1. Kept' \ evs' \subseteq Kept \ evs
  OBVIOUS
<1>2. gcpc # "idle" => Reaches(Cardinality(Kept \ evs))'
  BY <1>1, KeptCount, StoreAssumption DEF SweepInv, Reaches
<1> QED
  BY <1>2 DEF SweepInv

(* What the mark leaves is within the high water mark, or below the low    *)
(* one.                                                                    *)
LEMMA MarkLeaves ==
    ASSUME NEW U, IsFiniteSet(U), NEW E \in MarkEvents(U)
    PROVE  IF E = {} THEN Cardinality(U \ E) <= EventHigh
                     ELSE Cardinality(U \ E) < EventLow \/ Cardinality(U \ E) = 0
<1>1. Cardinality(U) \in Nat
  BY FS_CardinalityType
<1>2. CASE ~OverHighWater(Cardinality(U))
  <2>1. E = {} /\ U \ E = U
    BY <1>2 DEF MarkEvents
  <2> QED
    BY <1>1, <1>2, <2>1, StoreAssumption DEF OverHighWater
<1>3. CASE OverHighWater(Cardinality(U))
  <2>1. E \subseteq U /\ (Cardinality(E) > Cardinality(U) - EventLow \/ E = U)
    BY <1>3 DEF MarkEvents
  <2>2. IsFiniteSet(E) /\ Cardinality(E) \in Nat
    BY <2>1, FS_Subset, FS_CardinalityType
  <2>3. Cardinality(U \ E) = Cardinality(U) - Cardinality(E)
    <3>1. U \cap E = E
      BY <2>1
    <3> QED
      BY <3>1, FS_Difference
  <2>4. Cardinality(U \ E) < EventLow \/ Cardinality(U \ E) = 0
    <3>1. CASE E = U
      <4>1. U \ E = {}
        BY <3>1
      <4> QED
        BY <4>1, FS_EmptySet
    <3>2. CASE E # U
      BY <1>1, <2>1, <2>2, <2>3, <3>2, StoreAssumption
    <3> QED
      BY <3>1, <3>2
  <2>5. E # {}
    <3>1. CASE E = {}
      <4>1. Cardinality(E) = 0 /\ U \ E = U
        BY <3>1, FS_EmptySet
      <4> QED
        BY <1>1, <1>3, <2>4, <4>1, StoreAssumption DEF OverHighWater
    <3> QED
      BY <3>1
  <2> QED
    BY <2>4, <2>5
<1> QED
  BY <1>2, <1>3

(* What a client writes is fresh. *)
LEMMA ClientKeeps ==
    ASSUME IInv, NEW p \in Procs, Client(p)
    PROVE  Kept' \subseteq Kept /\ UNCHANGED <<evs, gcpc, stubs, dels>>
<1> USE DEF IInv, TypeOK, Prefixes, Kept, Full, durable, procVars, gcVars, ghosts
<1>1. ASSUME NEW i \in Ids, SaveLookup(p, i)
      PROVE  Kept' = Kept /\ UNCHANGED gcVars
  BY <1>1 DEF SaveLookup
<1>2. ASSUME NEW i \in Ids, DeleteEvent(p, i)
      PROVE  Kept' \subseteq Kept /\ UNCHANGED gcVars
  BY <1>2 DEF DeleteEvent, Erased
<1>3. CASE SaveRestore(p)
  BY <1>3 DEF SaveRestore, RestoreRecord
<1>4. CASE SaveSerial(p)
  BY <1>4 DEF SaveSerial
<1>5. CASE SaveCommit(p)
  BY <1>5 DEF SaveCommit
<1>6. CASE IncrementAccesses(p)
  BY <1>6 DEF IncrementAccesses, BumpCounter
<1>7. CASE SaveFails(p) \/ SearchIndex(p) \/ FetchRecord(p) \/ QueryCanceled(p)
  BY <1>7 DEF SaveFails, SearchIndex, FetchRecord, QueryCanceled
<1> QED
  BY <1>1, <1>2, <1>3, <1>4, <1>5, <1>6, <1>7 DEF Client

(* Every step keeps the bound a sweep works towards. *)
LEMMA SweepInvStep ==
    ASSUME Vetoed, IInv, SweepInv, [Next]_vars
    PROVE  SweepInv'
<1>1. TypeOK
  BY DEF IInv
<1>2. ASSUME NEW p \in Procs, Client(p)
      PROVE  SweepInv'
  BY <1>1, <1>2, ClientKeeps, KeptShrinks
<1>3. CASE GCMark
  <2>1. PICK E \in MarkEvents(Full) : evs' = E
    BY <1>3 DEF GCMark
  <2>2. Kept' = Full /\ gcpc' = "sweep"
    BY <1>3 DEF GCMark, Kept, Full, durable
  <2>3. IsFiniteSet(Full)
    <3>1. Full \subseteq Serials
      BY <1>1 DEF TypeOK, Full, Prefixes
    <3>2. IsFiniteSet(Serials)
      BY StoreAssumption, FS_Interval DEF Serials
    <3> QED
      BY <3>1, <3>2, FS_Subset
  <2> QED
    BY <2>1, <2>2, <2>3, MarkLeaves DEF SweepInv, Prefixes, Reaches
<1>4. CASE SweepEvents
  <2>1. Kept' = Kept /\ evs' = evs /\ gcpc = "sweep"
    BY <1>4 DEF SweepEvents, Kept, Full, durable, ghosts
  <2>2. Kept \cap evs \subseteq IF HasL2 THEN stubs' ELSE dels'["event"]
    BY <1>1, <1>4 DEF SweepEvents, ToPrune, ToDelete, Kept, Full, TypeOK, Prefixes
  <2>3. gcpc' \in Prefixes => HasL2
    BY <1>4 DEF SweepEvents, Prefixes
  <2> QED
    BY <2>1, <2>2, <2>3 DEF SweepInv, Reaches
<1>5. CASE SweepPrefix
  <2>1. Kept' = Kept /\ UNCHANGED <<evs, stubs>> /\ gcpc # "idle"
    BY <1>5 DEF SweepPrefix, Kept, Full, durable, ghosts, Prefixes
  <2>2. HasL2
    BY <1>5, <2>1 DEF SweepPrefix, SweepInv
  <2> QED
    BY <2>1, <2>2, <1>5 DEF SweepInv, SweepPrefix, Prefixes, Reaches
<1>6. CASE FlushBatch
  <2>1. PICK T \in SUBSET stubs, cut \in [Prefixes -> SUBSET Serials] : Flushes(T, cut)
    BY <1>6, FlushFacts
  <2>2. /\ Kept' \subseteq Kept
        /\ \A s \in T \cup cut["event"] : s \notin Kept'
    BY <1>1, <2>1 DEF Flushes, Commit, Kept, Full, Prefixes, TypeOK
  <2>3. UNCHANGED <<evs, gcpc>> /\ gcpc # "idle"
    BY <1>6 DEF FlushBatch
  <2>4. stubs' = stubs \ T /\ dels'["event"] = dels["event"] \ cut["event"]
    BY <2>1 DEF Flushes, Commit, Prefixes
  <2>5. Reaches(Cardinality(Kept \ evs))'
    <3>1. Kept' \ evs' \subseteq Kept \ evs
      BY <2>2, <2>3
    <3>2. Reaches(Cardinality(Kept \ evs))
      BY <2>3 DEF SweepInv
    <3>3. /\ Cardinality(Kept' \ evs') <= Cardinality(Kept \ evs)
          /\ Cardinality(Kept' \ evs') \in Nat
          /\ Cardinality(Kept \ evs) \in Nat
      BY <1>1, <3>1, KeptCount
    <3> QED
      BY <2>3, <3>2, <3>3, StoreAssumption DEF Reaches
  <2> QED
    BY <2>2, <2>3, <2>4, <2>5 DEF SweepInv
<1>7. CASE SweepDone
  <2>1. Kept' = Kept /\ UNCHANGED <<evs, stubs, dels>> /\ gcpc = "flush"
    BY <1>7 DEF SweepDone, Kept, Full, durable, batch, ghosts
  <2>2. gcpc' = "done"
    BY <1>7 DEF SweepDone
  <2> QED
    BY <2>1, <2>2 DEF SweepInv, Prefixes, Reaches
<1>8. CASE GCReturn \/ SweepFails \/ Crash \/ Wipe
  BY <1>8 DEF GCReturn, SweepFails, Crash, Wipe, Restart, StopCollector, SweepInv
<1>9. CASE UNCHANGED vars
  BY <1>9 DEF vars, SweepInv, Kept, Full, Reaches
<1> QED
  BY <1>2, <1>3, <1>4, <1>5, <1>6, <1>7, <1>8, <1>9 DEF Next, Collector

(* When a sweep completes, the whole events nobody has written since the   *)
(* mark are below the low water mark, or within the high water mark if     *)
(* none was marked, however many events there are and whatever runs in     *)
(* between (gcmark.go, gcsweep.go).                                        *)
THEOREM SweepsReclaim == Vetoed => (Spec => []SweepReclaims)
<1> SUFFICES ASSUME Vetoed
             PROVE  Spec => []SweepReclaims
  OBVIOUS
<1>1. Init => SweepInv
  BY DEF Init, SweepInv
<1>2. IInv /\ SweepInv /\ [Next]_vars => SweepInv'
  BY SweepInvStep
<1>3. IInv /\ SweepInv => SweepReclaims
  <2> SUFFICES ASSUME IInv, SweepInv, gcpc = "done"
               PROVE  Reaches(Cardinality(Full \ fresh))
    BY DEF SweepReclaims
  <2>1. stubs = {} /\ dels["event"] = {}
    BY DEF IInv, BatchBounded, Prefixes
  <2>2. Kept \ evs = Full \ fresh
    BY <2>1 DEF SweepInv, Kept
  <2> QED
    BY <2>2 DEF SweepInv
<1> QED
  BY <1>1, <1>2, <1>3, Invariance, PTL DEF Spec

-----------------------------------------------------------------------------
(***************************************************************************)
(* The store implements RecordLife.                                        *)
(***************************************************************************)

(* What no transaction of the store does to a serial. *)
LifeFacts ==
    /\ next <= next'
    /\ stub' \subseteq keys["event"]
    /\ \A s \in keys'["event"] : s \in keys["event"] \/ Pending(s)
    /\ \A s \in Serials : s < next /\ ~Pending(s) => ~Pending(s)'

(* A step in which no goroutine draws a serial. *)
Calm == \A q \in Procs : pc'[q] = "commit" => pc[q] = "commit" /\ ser'[q] = ser[q]

(* Every step of the store satisfies LifeFacts. *)
LEMMA StepLifeFacts ==
    ASSUME Vetoed, IInv, [Next]_vars
    PROVE  LifeFacts
<1> USE RankFacts DEF IInv, TypeOK, Serials, Prefixes,
        durable, procVars, batch, gcVars, ghosts
<1>1. ASSUME Calm
      PROVE  \A s \in Serials : ~Pending(s) => ~Pending(s)'
  BY <1>1 DEF Calm, Pending
<1>2. ASSUME UNCHANGED durable, Calm
      PROVE  LifeFacts
  BY <1>1, <1>2 DEF LifeFacts, RecordsIndexed
<1>3. ASSUME NEW p \in Procs, NEW i \in Ids, SaveLookup(p, i)
      PROVE  LifeFacts
  <2>1. CASE SaveLookup(p, i)
    BY <1>2, <2>1 DEF SaveLookup, Calm
  <2> QED
    BY <1>3, <2>1
<1>4. ASSUME NEW p \in Procs,
             SaveFails(p) \/ SearchIndex(p) \/ FetchRecord(p) \/ QueryCanceled(p)
      PROVE  LifeFacts
  <2>1. CASE SaveFails(p)
    BY <1>2, <2>1 DEF SaveFails, Return, Calm
  <2>2. CASE SearchIndex(p)
    BY <1>2, <2>2 DEF SearchIndex, Calm
  <2>3. CASE FetchRecord(p)
    BY <1>2, <2>3 DEF FetchRecord, Return, Calm
  <2>4. CASE QueryCanceled(p)
    BY <1>2, <2>4 DEF QueryCanceled, Return, Calm
  <2> QED
    BY <1>4, <2>1, <2>2, <2>3, <2>4
<1>5. CASE GCMark \/ SweepEvents \/ SweepPrefix \/ SweepDone \/ GCReturn \/ SweepFails
  <2>1. CASE GCMark
    BY <1>2, <2>1 DEF GCMark, Calm
  <2>2. CASE SweepEvents
    BY <1>2, <2>2 DEF SweepEvents, Calm
  <2>3. CASE SweepPrefix
    BY <1>2, <2>3 DEF SweepPrefix, Calm
  <2>4. CASE SweepDone
    BY <1>2, <2>4 DEF SweepDone, Calm
  <2>5. CASE GCReturn
    BY <1>2, <2>5 DEF GCReturn, Calm
  <2>6. CASE SweepFails
    BY <1>2, <2>6 DEF SweepFails, Calm
  <2> QED
    BY <1>5, <2>1, <2>2, <2>3, <2>4, <2>5, <2>6
<1>6. ASSUME NEW p \in Procs, SaveRestore(p)
      PROVE  LifeFacts
  <2>1. Calm /\ next' = next
    BY <1>6 DEF SaveRestore, RestoreRecord, Return, Calm
  <2>2. stub' \subseteq stub /\ keys'["event"] = keys["event"]
    <3>1. CASE NeedsRestore(ser[p])
      <4>1. keys["event"] \cup {ser[p]} = keys["event"]
        BY <3>1 DEF NeedsRestore
      <4>2. /\ keys' = [keys EXCEPT !["event"] = @ \cup {ser[p]},
                                   !["counter"] = @ \cup {ser[p]}]
            /\ stub' = stub \ {ser[p]}
        BY <1>6, <3>1 DEF SaveRestore, RestoreRecord
      <4> QED
        BY <4>1, <4>2
    <3>2. CASE ~NeedsRestore(ser[p])
      BY <1>6, <3>2 DEF SaveRestore
    <3> QED
      BY <3>1, <3>2
  <2> QED
    BY <1>1, <2>1, <2>2 DEF LifeFacts, RecordsIndexed
<1>7. ASSUME NEW p \in Procs, SaveSerial(p)
      PROVE  LifeFacts
  <2>1. ASSUME NEW s \in Serials, s < next, ~Pending(s)
        PROVE  ~Pending(s)'
    BY <1>7, <2>1 DEF SaveSerial, Pending
  <2>2. next' = next + 1 /\ UNCHANGED <<keys, stub>>
    BY <1>7 DEF SaveSerial
  <2> QED
    BY <2>1, <2>2 DEF LifeFacts, RecordsIndexed
<1>8. ASSUME NEW p \in Procs, SaveCommit(p)
      PROVE  LifeFacts
  <2>1. Calm /\ next' = next /\ Pending(ser[p])
    BY <1>8 DEF SaveCommit, Return, Calm, Pending
  <2>2. stub' \subseteq stub /\ keys'["event"] = keys["event"] \cup {ser[p]}
    BY <1>8 DEF SaveCommit
  <2> QED
    BY <1>1, <2>1, <2>2 DEF LifeFacts, RecordsIndexed
<1>9. ASSUME NEW p \in Procs, NEW i \in Ids, DeleteEvent(p, i)
      PROVE  LifeFacts
  <2>1. Calm /\ next' = next
    BY <1>9 DEF DeleteEvent, Calm
  <2>2. stub' \subseteq stub /\ keys'["event"] \subseteq keys["event"]
    BY <1>9 DEF DeleteEvent, Erased
  <2> QED
    BY <1>1, <2>1, <2>2 DEF LifeFacts, RecordsIndexed
<1>10. ASSUME NEW p \in Procs, IncrementAccesses(p)
      PROVE  LifeFacts
  <2>1. Calm /\ next' = next
    BY <1>10 DEF IncrementAccesses, Return, Calm
  <2>2. stub' = stub /\ keys'["event"] = keys["event"]
    BY <1>10 DEF IncrementAccesses, BumpCounter
  <2> QED
    BY <1>1, <2>1, <2>2 DEF LifeFacts, RecordsIndexed
<1>11. CASE FlushBatch
  <2>1. PICK T \in SUBSET stubs, cut \in [Prefixes -> SUBSET Serials] : Flushes(T, cut)
    BY <1>11, FlushFacts
  <2>2. Calm /\ next' = next
    BY <1>11 DEF FlushBatch, Calm
  <2>3. stub' \subseteq keys["event"] /\ keys'["event"] \subseteq keys["event"]
    BY <2>1 DEF Flushes, Commit, RecordsIndexed
  <2> QED
    BY <1>1, <2>2, <2>3 DEF LifeFacts
<1>12. CASE Crash
  <2>1. Calm /\ next <= next' /\ UNCHANGED <<keys, stub>>
    BY <1>12 DEF Crash, Restart, SkipLease, Calm
  <2> QED
    BY <1>1, <2>1 DEF LifeFacts, RecordsIndexed
<1>13. CASE Wipe
  <2>1. PICK T \in SUBSET stubs :
            /\ keys' = [f \in Prefixes |-> IF f = "event" THEN T ELSE {}]
            /\ stub' = T
    BY <1>13 DEF Wipe
  <2>2. T = {}
    BY <1>13 DEF Wipe, Vetoed, BatchBounded
  <2>3. Calm /\ next <= next'
    BY <1>13 DEF Wipe, Restart, SkipLease, Calm
  <2> QED
    BY <1>1, <2>1, <2>2, <2>3 DEF LifeFacts
<1>14. CASE UNCHANGED vars
  BY <1>2, <1>14 DEF vars, Calm
<1> QED
  BY <1>3, <1>4, <1>5, <1>6, <1>7, <1>8, <1>9, <1>10, <1>11, <1>12, <1>13, <1>14
     DEF Next, Client, Collector

(* Every step of the store is a step of RecordLife under the mapping. *)
LEMMA LifeStep ==
    ASSUME Vetoed, IInv, IInv', [Next]_vars
    PROVE  Life!Next
<1> DEFINE L == [s \in Serials |-> LifeOf(s)]
<1>1. LifeFacts
  BY StepLifeFacts
<1>2. L' \in [Serials -> Life!States]
  BY DEF LifeOf, Life!States
<1>3. ASSUME NEW s \in Serials
      PROVE  L'[s] \in Life!Successors[L[s]]
  <2> USE DEF LifeOf, Life!Successors
  <2> HIDE DEF Pending
  <2>1. s \in Nat /\ next \in Nat /\ next' \in Nat
    BY DEF IInv, TypeOK, Serials
  <2>2. L[s] = LifeOf(s) /\ L'[s] = LifeOf(s)'
    OBVIOUS
  <2>3. CASE LifeOf(s) = "unused"
    <3>1. s \notin keys["event"]
      <4>1. s >= next \/ Pending(s)
        BY <2>3
      <4>2. \A t \in keys["event"] : t < next /\ ~Pending(t)
        BY DEF IInv, TypeOK, SerialsOwned, Pending, Prefixes
      <4> QED
        BY <2>1, <4>1, <4>2
    <3>2. s \notin stub'
      BY <1>1, <3>1 DEF LifeFacts
    <3> QED
      BY <2>2, <2>3, <3>2
  <2>4. CASE LifeOf(s) \in {"full", "stub"}
    <3>1. s < next /\ ~Pending(s)
      BY <2>1, <2>4
    <3>2. s < next' /\ ~Pending(s)'
      BY <1>1, <2>1, <3>1 DEF LifeFacts
    <3> QED
      BY <2>1, <2>2, <2>4, <3>2
  <2>5. CASE LifeOf(s) = "gone"
    <3>1. s < next /\ ~Pending(s) /\ s \notin keys["event"]
      BY <2>1, <2>5 DEF IInv, RecordsIndexed, Prefixes
    <3>2. s < next' /\ ~Pending(s)' /\ s \notin keys'["event"]
      BY <1>1, <2>1, <3>1 DEF LifeFacts
    <3> QED
      BY <2>1, <2>2, <2>5, <3>2
  <2> QED
    BY <2>3, <2>4, <2>5
<1> QED
  BY <1>2, <1>3 DEF Life!Next

(* The store implements RecordLife: whatever the clients, the collector,   *)
(* the failures and the restarts do, a serial is handed out once, its      *)
(* record may be reduced and restored, and once gone it never comes back.  *)
THEOREM Implements == Vetoed => (Spec => LifeSpec)
<1> SUFFICES ASSUME Vetoed
             PROVE  Spec => LifeSpec
  OBVIOUS
<1>1. Init => Life!Init
  BY DEF Init, Life!Init, LifeOf, Serials
<1>2. IInv /\ IInv' /\ [Next]_vars
        => [Life!Next]_([s \in Serials |-> LifeOf(s)])
  BY LifeStep
<1> QED
  BY <1>1, <1>2, Invariance, PTL DEF Spec, LifeSpec, Life!Spec

=============================================================================
