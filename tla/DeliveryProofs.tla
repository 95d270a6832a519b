---------------------------- MODULE DeliveryProofs ----------------------------
(***************************************************************************)
(* What a query sends (QueryPipeline): no more than its limit, nothing     *)
(* twice, nothing that was not asked for, and newest first; and what a     *)
(* count returns.                                                          *)
(*                                                                         *)
(* What is still to come of a search is in four places: the queue, the     *)
(* channel, the hands of its goroutine and the keys it has not read.  The  *)
(* invariant says that each place is in the order of the index and above   *)
(* the next one, and that while the loop sends, every search has an event  *)
(* in the queue or nothing to come.                                        *)
(*                                                                         *)
(* What a client receives (ClientSubscription), for any number of          *)
(* subscriptions, events and messages on their way: a subscription is      *)
(* ended once, a query that returns at the EOSE has what came before it,   *)
(* and Publish reports success for what the relay accepted.                *)
(*                                                                         *)
(* A subscription is ended by cancel, then live is swapped, then the CLOSE *)
(* is written: who finds live swapped already writes none (Ended).  The    *)
(* WaitGroup counts at least the dispatched events (GroupCounts), and what *)
(* is stored is got, dispatched, or in the inbox before EOSE (Arriving).   *)
(***************************************************************************)
EXTENDS QueryPipeline, ClientSubscription, Integers, Sequences, FiniteSets,
        FiniteSetTheorems, SequenceTheorems, TLAPS

Prefix(q) == SearchPrefixes(asked)[q]
Named(q) == {s \in Serials : Prefix(q) \in KeysOf(s)}

\* What search q may have found.
Results(q) ==
    {e \in [q : {q}, ser : Named(q), whole : BOOLEAN, date : Int] :
        e.whole => e.date = Content[e.ser].date}
AllResults == UNION {Results(q) : q \in Queries}

LoopAts == {"spawn", "first", "emit", "send", "count", "refill", "done"}
Sending == {"emit", "send", "count", "refill"}
SearchAts == {"idle", "scan", "fetch", "put", "drain", "gone"}
CountAts == {"idle", "counting", "adding", "counted", "gone"}

-----------------------------------------------------------------------------
\* What is where.
Items == [q : Queries, ser : Serials, whole : BOOLEAN, date : Int] \cup {NoEntry}

SearchType(q) ==
    /\ search[q] \in [at : SearchAts \cup CountAts, keys : SUBSET Serials, item : Items, sum : Int]
    /\ search[q].keys \subseteq Named(q)
    /\ search[q].at = "put" => search[q].item \in Results(q)
    /\ results[q] \in Seq(Results(q))

QueryType ==
    /\ asked \in Asked
    /\ Queries = DOMAIN SearchPrefixes(asked)
    /\ loop \in [at : LoopAts \cup {"idle"}, k : Nat, latest : AllResults \cup {NoEntry}]
    /\ queue \subseteq AllResults
    /\ emitted \in Seq(AllResults)
    /\ DOMAIN results = Queries /\ DOMAIN closed = Queries
    /\ \A q \in Queries : SearchType(q)

\* With the goroutine of q, and with it or in its channel.
InHand(q) == search[q].keys \cup (IF search[q].at = "put" THEN {search[q].item.ser} ELSE {})
Coming(q) == InHand(q) \cup {results[q][i].ser : i \in DOMAIN results[q]}

\* A search sends its results in the order of the index.
InOrder(q) ==
    /\ search[q].at = "put" => \A s \in search[q].keys : Above(Prefix(q), search[q].item.ser, s)
    /\ \A i \in DOMAIN results[q] : \A s \in InHand(q) : Above(Prefix(q), results[q][i].ser, s)
    /\ \A i, j \in DOMAIN results[q] :
          i < j => Above(Prefix(q), results[q][i].ser, results[q][j].ser)
    /\ search[q].at \in {"idle", "scan", "counting", "adding", "counted"} => Coming(q) = {}
    /\ closed[q] => search[q].at \in {"drain", "gone"} /\ InHand(q) = {}

SearchesInOrder == \A q \in Queries : InOrder(q)

\* What was taken from a search is above what is to come of it.
TakenInOrder ==
    /\ \A e \in queue : \A s \in Coming(e.q) : Above(Prefix(e.q), e.ser, s)
    /\ \A i \in DOMAIN emitted : \A s \in Coming(emitted[i].q) :
          Above(Prefix(emitted[i].q), emitted[i].ser, s)
    /\ \A d, e \in queue : d.q = e.q => d = e
    /\ \A e \in queue : search[e.q].at \notin {"idle", "scan"}

\* The event at the top of the queue was sent, and is not taken off yet.
Sent(e) == loop.at \in {"count", "refill"} /\ e = loop.latest

EmittedOnce ==
    /\ IsInjective(emitted)
    /\ loop.at \in LoopAts \ {"done"} =>
          \A i \in DOMAIN emitted : \A e \in queue :
              Sent(e) \/ (e.q = emitted[i].q => Above(Prefix(e.q), emitted[i].ser, e.ser))

\* No search can come up with a newer event later.
Covered(q) == (\E e \in queue : e.q = q) \/ (closed[q] /\ results[q] = <<>>)

LoopAt ==
    /\ loop.at \in {"idle", "spawn"} => queue = {}
    /\ loop.at \in {"idle", "spawn", "first"} => emitted = <<>>
    /\ loop.at = "spawn" => \A q \in Queries : q >= loop.k => search[q].at = "idle"
    /\ loop.at = "first" => loop.k > 0 /\ \A q \in Queries : q < loop.k => Covered(q)
    /\ loop.at = "first" => \A e \in queue : e.q < loop.k
    /\ loop.at \in Sending => \A q \in Queries : Covered(q)
    /\ loop.at = "send" => Latest(loop.latest)
    /\ loop.at \in {"count", "refill"} =>
          loop.latest \in queue /\ \E i \in DOMAIN emitted : emitted[i] = loop.latest
    /\ loop.at \in {"spawn", "first", "emit", "send", "refill"} => Len(emitted) < Limit
    /\ loop.at \in {"count", "done", "idle"} => Len(emitted) <= Limit
    /\ \A q \in Queries : search[q].at \in {"idle", "scan"} => emitted = <<>>

\* Nothing that is to come of a search without stubs is newer than a whole
\* event that was sent.
NoStubs(q) ==
    /\ \A i \in DOMAIN emitted : emitted[i].q = q => emitted[i].whole
    /\ \A e \in queue : e.q = q => e.whole

NewestFirst ==
    /\ \A i \in DOMAIN emitted : \A q \in Queries :
          emitted[i].whole /\ NoStubs(q) =>
              /\ \A s \in Coming(q) : Content[s].date <= emitted[i].date
              /\ \A e \in queue : e.q = q => e.date <= emitted[i].date
    /\ \A i, j \in DOMAIN emitted :
          /\ i < j /\ emitted[i].whole /\ emitted[j].whole
          /\ \A k \in 1..j : emitted[k].q = emitted[j].q => emitted[k].whole
          => emitted[i].date >= emitted[j].date

\* The goroutines of a count each add one at most.
Finished == {q \in Queries : search[q].at \in {"counted", "gone"}}

CountBound ==
    /\ count \in [at : {"idle", "spawn", "returned"}, k : Nat, var : Int, answer : Int]
    /\ loop.at = "idle" =>
          /\ \A q \in Queries : search[q].at \in CountAts
          /\ count.at = "spawn" => \A q \in Queries : q >= count.k => search[q].at = "idle"
          /\ count.var <= Cardinality(Finished)
          /\ \A q \in Queries : search[q].at = "adding" => search[q].sum <= Cardinality(Finished) + 1
    /\ loop.at # "idle" =>
          count = NoCount /\ \A q \in Queries : search[q].at \in SearchAts
    /\ count.answer <= Len(SearchPrefixes(asked))

QueryInvariant ==
    /\ QueryType /\ SearchesInOrder /\ TakenInOrder /\ EmittedOnce /\ LoopAt /\ NewestFirst /\ CountBound

-----------------------------------------------------------------------------
\* The prefixes of a filter are a sequence.
LEMMA PrefixesAreListed ==
    ASSUME NEW f \in Asked
    PROVE  /\ Len(SearchPrefixes(f)) \in Nat
           /\ DOMAIN SearchPrefixes(f) = 1..Len(SearchPrefixes(f))
<1> DEFINE Listed(p) == Len(p) \in Nat /\ DOMAIN p = 1..Len(p)
<1>1. /\ Len(f.ids) \in Nat /\ DOMAIN f.ids = 1..Len(f.ids)
      /\ Len(f.authors) \in Nat /\ DOMAIN f.authors = 1..Len(f.authors)
      /\ Len(f.kinds) \in Nat /\ DOMAIN f.kinds = 1..Len(f.kinds)
      /\ Len(f.tags) \in Nat /\ DOMAIN f.tags = 1..Len(f.tags)
  BY QueryAssumption, LenProperties DEF IsList
<1>2. ASSUME NEW n \in Nat, NEW p, DOMAIN p = 1..n, p = [i \in 1..n |-> p[i]]
      PROVE  Listed(p)
  <2>1. p \in [1..n -> {p[i] : i \in 1..n}]
    BY <1>2
  <2>2. p \in Seq({p[i] : i \in 1..n})
    BY <2>1, SeqDef
  <2> QED BY <2>2, LenProperties
<1>3. CASE f.ids # <<>>
  <2>1. SearchPrefixes(f) = [i \in DOMAIN f.ids |-> <<"Id", f.ids[i]>>]
    BY <1>3 DEF SearchPrefixes
  <2> QED BY <1>1, <1>2, <2>1
<1>4. CASE f.ids = <<>> /\ f.authors # <<>> /\ f.kinds = <<>>
  <2>1. SearchPrefixes(f) = [i \in DOMAIN f.authors |-> <<"Pubkey", f.authors[i]>>]
    BY <1>4 DEF SearchPrefixes
  <2> QED BY <1>1, <1>2, <2>1
<1>5. CASE f.ids = <<>> /\ f.authors # <<>> /\ f.kinds # <<>>
  <2>1. SearchPrefixes(f) =
            [i \in 1..(Len(f.authors) * Len(f.kinds)) |->
                <<"PubkeyKind", f.authors[((i - 1) \div Len(f.kinds)) + 1],
                  f.kinds[((i - 1) % Len(f.kinds)) + 1]>>]
    BY <1>5 DEF SearchPrefixes
  <2>2. \A a, b \in Nat : a * b \in Nat
    OBVIOUS
  <2>3. Len(f.authors) * Len(f.kinds) \in Nat
    BY <1>1, <2>2
  <2> QED BY <1>2, <2>1, <2>3
<1>6. CASE f.ids = <<>> /\ f.authors = <<>> /\ f.tags # <<>>
  <2>1. SearchPrefixes(f) = [i \in DOMAIN f.tags |-> <<"Tag", f.tags[i]>>]
    BY <1>6 DEF SearchPrefixes
  <2> QED BY <1>1, <1>2, <2>1
<1>7. CASE f.ids = <<>> /\ f.authors = <<>> /\ f.tags = <<>>
  <2>1. SearchPrefixes(f) = [i \in DOMAIN f.kinds |-> <<"Kind", f.kinds[i]>>]
    BY <1>7 DEF SearchPrefixes
  <2> QED BY <1>1, <1>2, <2>1
<1> QED BY <1>3, <1>4, <1>5, <1>6, <1>7

\* What is above in the order of an index is another event, and not older:
\* an index without dates holds the events of one id.
LEMMA AboveIsNewer ==
    ASSUME NEW p, NEW s \in Serials, NEW t \in Serials,
           p \in KeysOf(s), p \in KeysOf(t), Above(p, s, t)
    PROVE  s # t /\ Content[t].date <= Content[s].date
<1>1. s \in Int /\ t \in Int /\ Content[s].date \in Int /\ Content[t].date \in Int
  BY QueryAssumption
<1>2. CASE SkipTS(p)
  <2>1. Content[s].id = Content[t].id
    BY <1>2 DEF SkipTS, KeysOf
  <2>2. Content[s].date = Content[t].date
    BY <2>1, QueryAssumption
  <2> QED BY <1>1, <1>2, <2>2 DEF Above
<1> QED BY <1>1, <1>2 DEF Above

LEMMA LimitIsPositive ==
    ASSUME asked \in Asked
    PROVE  Limit \in Nat /\ Limit > 0
BY QueryAssumption DEF Limit

LEMMA FinishedIsFinite ==
    ASSUME QueryType
    PROVE  IsFiniteSet(Finished) /\ Cardinality(Finished) \in Nat
<1>1. Finished \subseteq 1..Len(SearchPrefixes(asked)) /\ Len(SearchPrefixes(asked)) \in Nat
  BY PrefixesAreListed DEF QueryType, Finished
<1>2. IsFiniteSet(1..Len(SearchPrefixes(asked)))
  BY <1>1, FS_Interval
<1> QED BY <1>1, <1>2, FS_Subset, FS_CardinalityType

-----------------------------------------------------------------------------
LEMMA QueryStart ==
    ASSUME QueryInit
    PROVE  QueryInvariant
<1> DEFINE n == Len(SearchPrefixes(asked))
<1>1. n \in Nat /\ DOMAIN SearchPrefixes(asked) = 1..n /\ asked \in Asked
  BY PrefixesAreListed DEF QueryInit
<1>2. Queries = 1..n /\ \A q \in Queries : search[q] = NoSearch /\ closed[q] = FALSE /\ results[q] = <<>>
  BY <1>1 DEF QueryInit, Queries
<1>a. \/ loop = [NotAsked EXCEPT !.at = "spawn", !.k = 1] /\ count = NoCount
      \/ loop = NotAsked /\ count = [NoCount EXCEPT !.at = "spawn", !.k = 1]
  BY DEF QueryInit
<1>3. /\ queue = {} /\ emitted = <<>> /\ count.answer = 0 /\ count.var = 0
      /\ count \in [at : {"idle", "spawn", "returned"}, k : Nat, var : Int, answer : Int]
  <2>1. queue = {} /\ emitted = <<>>
    BY DEF QueryInit
  <2>2. \/ count = [at |-> "idle", k |-> 0, var |-> 0, answer |-> 0]
        \/ count = [at |-> "spawn", k |-> 1, var |-> 0, answer |-> 0]
    BY <1>a DEF NoCount
  <2>3. /\ count.answer = 0 /\ count.var = 0
        /\ count \in [at : {"idle", "spawn", "returned"}, k : Nat, var : Int, answer : Int]
    BY <2>2
  <2> QED BY <2>1, <2>3
<1>4. /\ loop.at \in {"idle", "spawn"} /\ loop.k \in Nat /\ loop.latest = NoEntry
      /\ loop \in [at : LoopAts \cup {"idle"}, k : Nat, latest : {NoEntry}]
  <2>1. \/ loop = [at |-> "idle", k |-> 0, latest |-> NoEntry]
        \/ loop = [at |-> "spawn", k |-> 1, latest |-> NoEntry]
    BY <1>a DEF NotAsked
  <2> QED BY <2>1 DEF LoopAts
<1>5. QueryType
  <2>1. DOMAIN closed = Queries /\ DOMAIN results = Queries
    BY DEF QueryInit, Queries
  <2>2. NoSearch \in [at : SearchAts \cup CountAts, keys : SUBSET Serials, item : Items, sum : Int]
    BY DEF NoSearch, SearchAts, Items
  <2>3. ASSUME NEW q \in Queries
        PROVE  SearchType(q)
    <3>1. results[q] = <<>> /\ search[q] = NoSearch
      BY <1>2
    <3>2. <<>> \in Seq(Results(q))
      OBVIOUS
    <3>3. NoSearch.keys = {} /\ NoSearch.at # "put"
      BY DEF NoSearch
    <3> QED BY <2>2, <3>1, <3>2, <3>3 DEF SearchType
  <2>5. emitted \in Seq(AllResults) /\ queue \subseteq AllResults
    BY <1>3
  <2>6. loop \in [at : LoopAts \cup {"idle"}, k : Nat, latest : AllResults \cup {NoEntry}]
    BY <1>4
  <2> QED BY <1>1, <1>2, <2>1, <2>3, <2>5, <2>6 DEF QueryType
<1>6. SearchesInOrder
  BY <1>2 DEF SearchesInOrder, InOrder, InHand, Coming, NoSearch
<1>7. TakenInOrder /\ EmittedOnce /\ NewestFirst
  BY <1>3 DEF TakenInOrder, EmittedOnce, NewestFirst, IsInjective
<1>8. LoopAt
  <2>1. \A q \in Queries : search[q].at = "idle"
    BY <1>2 DEF NoSearch
  <2> QED BY <1>1, <1>3, <1>4, <2>1, LimitIsPositive DEF LoopAt, Sending
<1>9. CountBound
  <2>1. Cardinality(Finished) \in Nat
    BY <1>5, FinishedIsFinite
  <2>2. \A q \in Queries : search[q].at = "idle"
    BY <1>2 DEF NoSearch
  <2>3. loop.at # "idle" => count = NoCount
    BY <1>a DEF NotAsked
  <2> QED BY <1>1, <1>3, <2>1, <2>2, <2>3 DEF CountBound, SearchAts, CountAts
<1> QED BY <1>5, <1>6, <1>7, <1>8, <1>9 DEF QueryInvariant

-----------------------------------------------------------------------------
\* A step of a goroutine takes away from what is to come of its search, or the
\* search was not made yet: what the loop has taken stays above it.
LEMMA LoopLeft ==
    ASSUME QueryInvariant,
           UNCHANGED <<asked, loop, queue, emitted>>,
           Queries' = Queries,
           \A q \in Queries :
              /\ Coming(q)' \subseteq Coming(q) \/ search[q].at \in {"idle", "scan"}
              /\ search'[q].at \in {"idle", "scan"} => search[q].at \in {"idle", "scan"}
              /\ loop.at = "spawn" /\ search[q].at = "idle" => search'[q].at = "idle"
              /\ Covered(q) => Covered(q)'
    PROVE  (TakenInOrder /\ EmittedOnce /\ LoopAt /\ NewestFirst)'
<1> USE DEF QueryInvariant
<1>1. \A q : Prefix(q)' = Prefix(q)
  BY DEF Prefix
<1>2. \A e \in queue : e.q \in Queries
  BY DEF QueryType, AllResults, Results
<1>3. \A i \in DOMAIN emitted : emitted[i].q \in Queries
  BY DEF QueryType, AllResults, Results
<1>4. TakenInOrder'
  <2>1. ASSUME NEW e \in queue, NEW s \in Coming(e.q)'
        PROVE  Above(Prefix(e.q), e.ser, s)
    BY <1>2, <2>1 DEF TakenInOrder
  <2>2. ASSUME NEW i \in DOMAIN emitted, NEW s \in Coming(emitted[i].q)'
        PROVE  Above(Prefix(emitted[i].q), emitted[i].ser, s)
    <3>1. search[emitted[i].q].at \notin {"idle", "scan"}
      BY <1>3, <2>2 DEF LoopAt
    <3> QED BY <1>3, <2>2, <3>1 DEF TakenInOrder
  <2>3. \A e \in queue : search'[e.q].at \notin {"idle", "scan"}
    BY <1>2 DEF TakenInOrder
  <2> QED BY <1>1, <2>1, <2>2, <2>3 DEF TakenInOrder
<1>5. EmittedOnce'
  BY <1>1 DEF EmittedOnce, Sent
<1>6. LoopAt'
  <2>1. Limit' = Limit /\ \A e : Latest(e)' = Latest(e)
    BY DEF Limit, Latest
  <2> QED BY <2>1 DEF LoopAt
<1>7. NewestFirst'
  <2>1. \A q : NoStubs(q)' = NoStubs(q)
    BY DEF NoStubs
  <2>2. ASSUME NEW i \in DOMAIN emitted, NEW q \in Queries, emitted[i].whole, NoStubs(q)
        PROVE  /\ \A s \in Coming(q)' : Content[s].date <= emitted[i].date
               /\ \A e \in queue : e.q = q => e.date <= emitted[i].date
    <3>1. search[q].at \notin {"idle", "scan"}
      BY <2>2 DEF LoopAt
    <3> QED BY <2>2, <3>1 DEF NewestFirst
  <2> QED BY <2>1, <2>2 DEF NewestFirst
<1> QED BY <1>4, <1>5, <1>6, <1>7

-----------------------------------------------------------------------------
\* Sequences.
LEMMA TailIs ==
    ASSUME NEW S, NEW s \in Seq(S), s # <<>>
    PROVE  /\ Tail(s) \in Seq(S) /\ Head(s) \in S /\ Head(s) = s[1] /\ 1 \in DOMAIN s
           /\ \A i \in DOMAIN Tail(s) : i \in Nat /\ i + 1 \in DOMAIN s /\ Tail(s)[i] = s[i + 1]
           /\ \A i \in DOMAIN s : i = 1 \/ (i - 1 \in DOMAIN Tail(s))
<1>1. Len(s) \in Nat /\ Len(s) > 0 /\ DOMAIN s = 1..Len(s) /\ s \in [1..Len(s) -> S]
  BY LenProperties, EmptySeq
<1>2. /\ Tail(s) \in Seq(S) /\ Head(s) \in S /\ Head(s) = s[1] /\ Len(Tail(s)) = Len(s) - 1
      /\ \A i \in 1..(Len(s) - 1) : Tail(s)[i] = s[i + 1]
  BY <1>1, HeadTailProperties
<1>3. DOMAIN Tail(s) = 1..(Len(s) - 1)
  BY <1>2, LenProperties
<1> QED BY <1>1, <1>2, <1>3

LEMMA AppendIs ==
    ASSUME NEW S, NEW s \in Seq(S), NEW e \in S
    PROVE  /\ Append(s, e) \in Seq(S) /\ Len(Append(s, e)) = Len(s) + 1
           /\ Len(s) \in Nat /\ DOMAIN s = 1..Len(s)
           /\ DOMAIN Append(s, e) = 1..(Len(s) + 1)
           /\ \A i \in DOMAIN s : i \in 1..Len(s) /\ Append(s, e)[i] = s[i]
           /\ Append(s, e)[Len(s) + 1] = e
<1>1. Len(s) \in Nat /\ DOMAIN s = 1..Len(s)
  BY LenProperties
<1>2. /\ Append(s, e) \in Seq(S) /\ Len(Append(s, e)) = Len(s) + 1
      /\ \A i \in 1..Len(s) : Append(s, e)[i] = s[i]
      /\ Append(s, e)[Len(s) + 1] = e
  BY AppendProperties
<1>3. DOMAIN Append(s, e) = 1..(Len(s) + 1)
  BY <1>2, LenProperties
<1> QED BY <1>1, <1>2, <1>3

-----------------------------------------------------------------------------
\* The goroutine of q makes a step, and the invariant holds of q.
LEMMA OneSearch ==
    ASSUME QueryInvariant,
           UNCHANGED <<asked, loop, queue, emitted>>,
           Queries' = Queries, DOMAIN results' = Queries, DOMAIN closed' = Queries,
           NEW q \in Queries,
           \A r \in Queries \ {q} :
              search'[r] = search[r] /\ results'[r] = results[r] /\ closed'[r] = closed[r],
           SearchType(q)', InOrder(q)',
           Coming(q)' \subseteq Coming(q) \/ search[q].at \in {"idle", "scan"},
           search'[q].at \in {"idle", "scan"} => search[q].at \in {"idle", "scan"},
           loop.at = "spawn" => search[q].at # "idle",
           Covered(q) => Covered(q)',
           CountBound'
    PROVE  QueryInvariant'
<1>1. \A r : Prefix(r)' = Prefix(r) /\ Named(r)' = Named(r)
  BY DEF Prefix, Named
<1>2. \A r : Results(r)' = Results(r)
  BY <1>1 DEF Results
<1>3. AllResults' = AllResults /\ Items' = Items
  BY <1>2 DEF AllResults, Items
<1>4. ASSUME NEW r \in Queries \ {q}
      PROVE  /\ SearchType(r)' /\ InOrder(r)' /\ Coming(r)' = Coming(r)
             /\ Covered(r)' <=> Covered(r)
  <2>1. search'[r] = search[r] /\ results'[r] = results[r] /\ closed'[r] = closed[r]
    OBVIOUS
  <2>2. InHand(r)' = InHand(r)
    BY <2>1 DEF InHand
  <2>3. Coming(r)' = Coming(r)
    BY <2>1, <2>2 DEF Coming
  <2>4. Covered(r)' <=> Covered(r)
    BY <2>1 DEF Covered
  <2>5. SearchType(r)'
    BY <1>1, <1>2, <1>3, <2>1 DEF SearchType, QueryInvariant, QueryType
  <2>6. InOrder(r)'
    BY <1>1, <2>1, <2>2, <2>3 DEF InOrder, QueryInvariant, SearchesInOrder
  <2> QED BY <2>3, <2>4, <2>5, <2>6
<1>5. QueryType'
  BY <1>3, <1>4 DEF QueryInvariant, QueryType
<1>6. SearchesInOrder'
  BY <1>4 DEF SearchesInOrder
<1>7. (TakenInOrder /\ EmittedOnce /\ LoopAt /\ NewestFirst)'
  <2>1. ASSUME NEW r \in Queries
        PROVE  /\ Coming(r)' \subseteq Coming(r) \/ search[r].at \in {"idle", "scan"}
               /\ search'[r].at \in {"idle", "scan"} => search[r].at \in {"idle", "scan"}
               /\ loop.at = "spawn" /\ search[r].at = "idle" => search'[r].at = "idle"
               /\ Covered(r) => Covered(r)'
    BY <1>4
  <2> QED BY <2>1, LoopLeft
<1> QED BY <1>5, <1>6, <1>7 DEF QueryInvariant

\* A step of a search leaves a count alone.
LEMMA NoCountMade ==
    ASSUME QueryInvariant, NEW q \in Queries,
           search[q].at \in {"scan", "fetch", "put", "drain"},
           search'[q].at \in SearchAts,
           UNCHANGED <<asked, loop, count>>, Queries' = Queries,
           \A r \in Queries \ {q} : search'[r] = search[r]
    PROVE  CountBound'
<1>1. search[q].at \notin CountAts
  BY DEF CountAts
<1>2. loop.at # "idle"
  BY <1>1 DEF QueryInvariant, CountBound
<1>3. \A r \in Queries : search'[r].at \in SearchAts
  BY <1>2 DEF QueryInvariant, CountBound
<1> QED BY <1>2, <1>3 DEF QueryInvariant, CountBound

-----------------------------------------------------------------------------
LEMMA ScanKeysKept ==
    ASSUME QueryInvariant, NEW q \in Queries, ScanKeys(q)
    PROVE  QueryInvariant'
<1> DEFINE K == IndexScan(asked, SearchPrefixes(asked)[q], DateRead)
<1>1. /\ search[q].at = "scan" /\ UNCHANGED <<asked, loop, queue, emitted, results, closed, count>>
      /\ search' = [search EXCEPT ![q].at = "fetch", ![q].keys = K]
  BY DEF ScanKeys, SearchRest, loopVars
<1>2. SearchType(q) /\ InOrder(q)
  BY DEF QueryInvariant, QueryType, SearchesInOrder
<1>3. K \subseteq Named(q)
  BY DEF IndexScan, Named, Prefix
<1> HIDE DEF K
<1>4. /\ Queries' = Queries /\ DOMAIN results' = Queries /\ DOMAIN closed' = Queries
      /\ \A r \in Queries \ {q} :
            search'[r] = search[r] /\ results'[r] = results[r] /\ closed'[r] = closed[r]
  BY <1>1 DEF Queries, QueryInvariant, QueryType
<1>5. search'[q] = [search[q] EXCEPT !.at = "fetch", !.keys = K]
  BY <1>1 DEF Queries
<1>6. /\ search'[q].at = "fetch" /\ search'[q].keys = K
      /\ search'[q] \in [at : SearchAts \cup CountAts, keys : SUBSET Serials, item : Items, sum : Int]
  BY <1>2, <1>3, <1>5 DEF SearchType, SearchAts, Named
<1>7. Prefix(q)' = Prefix(q) /\ Named(q)' = Named(q) /\ Results(q)' = Results(q) /\ Items' = Items
  BY <1>1, <1>4 DEF Prefix, Named, Results, Items
<1>8. SearchType(q)'
  BY <1>1, <1>2, <1>3, <1>6, <1>7 DEF SearchType
<1>9. InOrder(q)'
  <2>1. DOMAIN results[q] = {} /\ ~closed[q]
    BY <1>1, <1>2 DEF InOrder, Coming
  <2> QED BY <1>1, <1>6, <2>1 DEF InOrder
<1>10. CountBound'
  BY <1>1, <1>4, <1>6, NoCountMade DEF SearchAts
<1>11. Covered(q) => Covered(q)'
  BY <1>1 DEF Covered
<1> QED BY <1>1, <1>4, <1>6, <1>8, <1>9, <1>10, <1>11, OneSearch

LEMMA FetchKept ==
    ASSUME QueryInvariant, NEW q \in Queries, Fetch(q)
    PROVE  QueryInvariant'
<1>1. PICK s \in search[q].keys :
        /\ search[q].at = "fetch" /\ UNCHANGED <<asked, loop, queue, emitted, results, closed, count>>
        /\ \A t \in search[q].keys \ {s} : Above(Prefix(q), s, t)
        /\ search' = [search EXCEPT ![q].keys = @ \ {s},
                ![q].at = IF \/ (store[s] = "full" /\ PassesExtra(asked, s))
                             \/ (store[s] = "stub" /\ ~canceled)
                          THEN "put" ELSE "fetch",
                ![q].item = Entry(q, s)]
  BY DEF Fetch, SearchRest, loopVars, Prefix
<1>2. SearchType(q) /\ InOrder(q)
  BY DEF QueryInvariant, QueryType, SearchesInOrder
<1>3. s \in Named(q) /\ s \in Serials
  BY <1>2 DEF SearchType, Named
<1>4. Entry(q, s) \in Results(q) /\ Entry(q, s) \in Items /\ Entry(q, s).ser = s
  <2>1. Content[s].date \in Int
    BY <1>3, QueryAssumption
  <2>2. PICK whole \in BOOLEAN : whole = (store[s] = "full")
    OBVIOUS
  <2>3. Entry(q, s) = [q |-> q, ser |-> s, whole |-> whole,
                      date |-> IF whole THEN Content[s].date ELSE 0]
    BY <2>2 DEF Entry
  <2>4. Entry(q, s) \in [q : {q}, ser : Named(q), whole : BOOLEAN, date : Int]
    BY <1>3, <2>1, <2>3
  <2>5. Entry(q, s) \in Items
    BY <1>3, <2>1, <2>3 DEF Items
  <2> QED BY <2>3, <2>4, <2>5 DEF Results
<1>5. /\ Queries' = Queries /\ DOMAIN results' = Queries /\ DOMAIN closed' = Queries
      /\ \A r \in Queries \ {q} :
            search'[r] = search[r] /\ results'[r] = results[r] /\ closed'[r] = closed[r]
  BY <1>1 DEF Queries, QueryInvariant, QueryType
<1>6. PICK a \in {"put", "fetch"} :
        search'[q] = [search[q] EXCEPT !.keys = search[q].keys \ {s}, !.at = a, !.item = Entry(q, s)]
  BY <1>1 DEF Queries
<1>7. /\ search'[q].at = a /\ search'[q].keys = search[q].keys \ {s} /\ search'[q].item = Entry(q, s)
      /\ search'[q] \in [at : SearchAts \cup CountAts, keys : SUBSET Serials, item : Items, sum : Int]
  BY <1>2, <1>4, <1>6 DEF SearchType, SearchAts
<1>8. Prefix(q)' = Prefix(q) /\ Named(q)' = Named(q) /\ Results(q)' = Results(q) /\ Items' = Items
  BY <1>1, <1>5 DEF Prefix, Named, Results, Items
<1>9. SearchType(q)'
  BY <1>1, <1>2, <1>4, <1>7, <1>8, ZenonT(30) DEF SearchType
<1>10. InHand(q)' \subseteq InHand(q)
  BY <1>1, <1>4, <1>7 DEF InHand
<1>11. InOrder(q)'
  <2>1. ~closed[q]
    BY <1>1, <1>2 DEF InOrder
  <2>2. search'[q].at = "put" =>
            \A t \in search'[q].keys : Above(Prefix(q)', search'[q].item.ser, t)
    BY <1>1, <1>4, <1>7, <1>8
  <2>3. \A i \in DOMAIN results[q] : \A t \in InHand(q)' : Above(Prefix(q), results[q][i].ser, t)
    BY <1>2, <1>10 DEF InOrder
  <2>4. \A i, j \in DOMAIN results[q] :
           i < j => Above(Prefix(q), results[q][i].ser, results[q][j].ser)
    BY <1>2 DEF InOrder
  <2>5. search'[q].at \notin {"idle", "scan", "counting", "adding", "counted"}
    BY <1>7
  <2> QED BY <1>1, <1>8, <2>1, <2>2, <2>3, <2>4, <2>5 DEF InOrder
<1>12. Coming(q)' \subseteq Coming(q)
  BY <1>1, <1>10 DEF Coming
<1>13. CountBound'
  BY <1>1, <1>5, <1>7, NoCountMade DEF SearchAts
<1>14. Covered(q) => Covered(q)'
  BY <1>1 DEF Covered
<1> QED BY <1>1, <1>5, <1>7, <1>9, <1>11, <1>12, <1>13, <1>14, OneSearch

LEMMA PutKept ==
    ASSUME QueryInvariant, NEW q \in Queries, Put(q)
    PROVE  QueryInvariant'
<1> DEFINE item == search[q].item
<1>1. /\ search[q].at = "put" /\ UNCHANGED <<asked, loop, queue, emitted, closed, count>>
      /\ results' = [results EXCEPT ![q] = Append(@, item)]
      /\ search' = [search EXCEPT ![q].at = "fetch"]
  BY DEF Put, SearchRest, loopVars
<1>2. SearchType(q) /\ InOrder(q) /\ DOMAIN results = Queries
  BY DEF QueryInvariant, QueryType, SearchesInOrder
<1>3. item \in Results(q)
  BY <1>1, <1>2 DEF SearchType
<1>4. /\ Queries' = Queries /\ DOMAIN results' = Queries /\ DOMAIN closed' = Queries
      /\ \A r \in Queries \ {q} :
            search'[r] = search[r] /\ results'[r] = results[r] /\ closed'[r] = closed[r]
  BY <1>1, <1>2 DEF Queries, QueryInvariant, QueryType
<1>5. search'[q] = [search[q] EXCEPT !.at = "fetch"] /\ results'[q] = Append(results[q], item)
  BY <1>1, <1>2 DEF Queries
<1>6. /\ search'[q].at = "fetch" /\ search'[q].keys = search[q].keys
      /\ search'[q] \in [at : SearchAts \cup CountAts, keys : SUBSET Serials, item : Items, sum : Int]
  BY <1>2, <1>5 DEF SearchType, SearchAts
<1>7. Prefix(q)' = Prefix(q) /\ Named(q)' = Named(q) /\ Results(q)' = Results(q) /\ Items' = Items
  BY <1>1, <1>4 DEF Prefix, Named, Results, Items
<1>8. results[q] \in Seq(Results(q))
  BY <1>2 DEF SearchType
<1> DEFINE n == Len(results[q])
<1>9. /\ results'[q] \in Seq(Results(q)) /\ n \in Nat
      /\ DOMAIN results[q] = 1..n /\ DOMAIN results'[q] = 1..(n + 1)
      /\ \A i \in 1..n : results'[q][i] = results[q][i]
      /\ results'[q][n + 1] = item
  BY <1>3, <1>5, <1>8, AppendIs
<1>10. SearchType(q)'
  BY <1>2, <1>6, <1>7, <1>9 DEF SearchType
<1> HIDE DEF n
<1>11. InHand(q) = search[q].keys \cup {item.ser} /\ InHand(q)' = search[q].keys
  BY <1>1, <1>6 DEF InHand
<1>12. InOrder(q)'
  <2>1. ~closed'[q]
    BY <1>1, <1>2 DEF InOrder
  <2>2. \A s \in search[q].keys : Above(Prefix(q), item.ser, s)
    BY <1>1, <1>2 DEF InOrder
  <2>3. \A i \in 1..n : \A s \in InHand(q) : Above(Prefix(q), results[q][i].ser, s)
    BY <1>2, <1>9 DEF InOrder
  <2>4. \A i \in 1..(n + 1) : \A s \in InHand(q)' : Above(Prefix(q), results'[q][i].ser, s)
    BY <1>9, <1>11, <2>2, <2>3
  <2>5. \A i, j \in 1..n : i < j => Above(Prefix(q), results[q][i].ser, results[q][j].ser)
    BY <1>2, <1>9 DEF InOrder
  <2>6. ASSUME NEW i \in 1..(n + 1), NEW j \in 1..(n + 1), i < j
        PROVE  Above(Prefix(q), results'[q][i].ser, results'[q][j].ser)
    <3>1. i \in 1..n /\ results'[q][i] = results[q][i]
      BY <1>9, <2>6
    <3>2. CASE j \in 1..n
      BY <1>9, <2>5, <2>6, <3>1, <3>2
    <3>3. CASE j = n + 1
      BY <1>9, <1>11, <2>3, <3>1, <3>3
    <3> QED BY <1>9, <3>2, <3>3
  <2> QED BY <1>6, <1>7, <1>9, <2>1, <2>4, <2>6 DEF InOrder
<1>13. Coming(q)' \subseteq Coming(q)
  <2>1. ASSUME NEW i \in 1..(n + 1)
        PROVE  results'[q][i].ser \in Coming(q)
    BY <1>9, <1>11 DEF Coming
  <2> QED BY <1>9, <1>11, <2>1 DEF Coming
<1>14. CountBound'
  BY <1>1, <1>4, <1>6, NoCountMade DEF SearchAts
<1>15. Covered(q) => Covered(q)'
  BY <1>1, <1>2 DEF Covered, InOrder
<1> QED BY <1>1, <1>4, <1>6, <1>10, <1>12, <1>13, <1>14, <1>15, OneSearch

LEMMA CloseResultsKept ==
    ASSUME QueryInvariant, NEW q \in Queries, CloseResults(q)
    PROVE  QueryInvariant'
<1>1. /\ search[q].at = "fetch" /\ search[q].keys = {}
      /\ UNCHANGED <<asked, loop, queue, emitted, results, count>>
      /\ closed' = [closed EXCEPT ![q] = TRUE]
      /\ search' = [search EXCEPT ![q].at = "drain"]
  BY DEF CloseResults, SearchRest, loopVars
<1>2. SearchType(q) /\ InOrder(q) /\ DOMAIN closed = Queries
  BY DEF QueryInvariant, QueryType, SearchesInOrder
<1>3. /\ Queries' = Queries /\ DOMAIN results' = Queries /\ DOMAIN closed' = Queries
      /\ \A r \in Queries \ {q} :
            search'[r] = search[r] /\ results'[r] = results[r] /\ closed'[r] = closed[r]
  BY <1>1, <1>2 DEF Queries, QueryInvariant, QueryType
<1>4. search'[q] = [search[q] EXCEPT !.at = "drain"] /\ closed'[q]
  BY <1>1, <1>2 DEF Queries
<1>5. /\ search'[q].at = "drain" /\ search'[q].keys = {}
      /\ search'[q] \in [at : SearchAts \cup CountAts, keys : SUBSET Serials, item : Items, sum : Int]
  BY <1>1, <1>2, <1>4 DEF SearchType, SearchAts
<1>6. Prefix(q)' = Prefix(q) /\ Named(q)' = Named(q) /\ Results(q)' = Results(q) /\ Items' = Items
  BY <1>1, <1>3 DEF Prefix, Named, Results, Items
<1>7. SearchType(q)'
  BY <1>1, <1>2, <1>5, <1>6 DEF SearchType
<1>8. InHand(q)' = {} /\ InHand(q) = {}
  BY <1>1, <1>5 DEF InHand
<1>9. InOrder(q)'
  BY <1>1, <1>2, <1>5, <1>6, <1>8 DEF InOrder
<1>10. Coming(q)' \subseteq Coming(q)
  BY <1>1, <1>8 DEF Coming
<1>11. CountBound'
  BY <1>1, <1>3, <1>5, NoCountMade DEF SearchAts
<1>12. Covered(q) => Covered(q)'
  BY <1>1, <1>4 DEF Covered
<1> QED BY <1>1, <1>3, <1>5, <1>7, <1>9, <1>10, <1>11, <1>12, OneSearch

\* One result less in the channel of q.
LEMMA OneLess ==
    ASSUME QueryInvariant, NEW q \in Queries,
           results[q] # <<>>, results'[q] = Tail(results[q]),
           asked' = asked,
           InHand(q)' \subseteq InHand(q)
    PROVE  /\ results'[q] \in Seq(Results(q)) /\ Head(results[q]) \in Results(q)
           /\ Head(results[q]).ser \in Coming(q)
           /\ Coming(q)' \subseteq Coming(q)
           /\ \A s \in Coming(q)' : Above(Prefix(q), Head(results[q]).ser, s)
           /\ \A i \in DOMAIN results'[q] : \A s \in InHand(q)' :
                 Above(Prefix(q), results'[q][i].ser, s)
           /\ \A i, j \in DOMAIN results'[q] :
                 i < j => Above(Prefix(q), results'[q][i].ser, results'[q][j].ser)
<1>1. results[q] \in Seq(Results(q)) /\ InOrder(q)
  BY DEF QueryInvariant, QueryType, SearchType, SearchesInOrder
<1>2. /\ results'[q] \in Seq(Results(q)) /\ Head(results[q]) \in Results(q)
      /\ Head(results[q]) = results[q][1] /\ 1 \in DOMAIN results[q]
      /\ \A i \in DOMAIN results'[q] :
            i \in Nat /\ i + 1 \in DOMAIN results[q] /\ results'[q][i] = results[q][i + 1]
  BY <1>1, TailIs
<1>3. \A i \in DOMAIN results'[q] : i > 0
  BY <1>2, LenProperties
<1>4. Head(results[q]).ser \in Coming(q)
  BY <1>2 DEF Coming
<1>5. \A i \in DOMAIN results'[q] : results'[q][i].ser \in Coming(q)
  BY <1>2 DEF Coming
<1>6. Coming(q)' \subseteq Coming(q)
  BY <1>5 DEF Coming
<1>7. \A i \in DOMAIN results[q] : \A s \in InHand(q) : Above(Prefix(q), results[q][i].ser, s)
  BY <1>1 DEF InOrder
<1>8. \A i, j \in DOMAIN results[q] :
         i < j => Above(Prefix(q), results[q][i].ser, results[q][j].ser)
  BY <1>1 DEF InOrder
<1>9. \A i \in DOMAIN results'[q] : \A s \in InHand(q)' : Above(Prefix(q), results'[q][i].ser, s)
  BY <1>2, <1>7
<1>10. ASSUME NEW i \in DOMAIN results'[q], NEW j \in DOMAIN results'[q], i < j
       PROVE  Above(Prefix(q), results'[q][i].ser, results'[q][j].ser)
  <2>1. i + 1 < j + 1
    BY <1>2, <1>10
  <2> QED BY <1>2, <1>8, <2>1
<1>11. \A s \in InHand(q)' : Above(Prefix(q), Head(results[q]).ser, s)
  BY <1>2, <1>7
<1>12. ASSUME NEW i \in DOMAIN results'[q]
       PROVE  Above(Prefix(q), Head(results[q]).ser, results'[q][i].ser)
  <2>1. 1 < i + 1 /\ i + 1 \in DOMAIN results[q] /\ results'[q][i] = results[q][i + 1]
    BY <1>2, <1>3
  <2> QED BY <1>2, <1>8, <2>1
<1>13. \A s \in Coming(q)' : Above(Prefix(q), Head(results[q]).ser, s)
  BY <1>11, <1>12 DEF Coming
<1> QED BY <1>2, <1>4, <1>6, <1>9, <1>10, <1>13

LEMMA DrainKept ==
    ASSUME QueryInvariant, NEW q \in Queries, Drain(q)
    PROVE  QueryInvariant'
<1>1. /\ search[q].at = "drain" /\ UNCHANGED <<asked, loop, queue, emitted, closed, count>>
      /\ results' = [results EXCEPT ![q] = IF @ = <<>> THEN @ ELSE Tail(@)]
      /\ search' = [search EXCEPT ![q].at = IF results[q] = <<>> THEN "gone" ELSE @]
  BY DEF Drain, SearchRest, loopVars
<1>2. SearchType(q) /\ InOrder(q) /\ DOMAIN results = Queries
  BY DEF QueryInvariant, QueryType, SearchesInOrder
<1>3. /\ Queries' = Queries /\ DOMAIN results' = Queries /\ DOMAIN closed' = Queries
      /\ \A r \in Queries \ {q} :
            search'[r] = search[r] /\ results'[r] = results[r] /\ closed'[r] = closed[r]
  BY <1>1, <1>2 DEF Queries, QueryInvariant, QueryType
<1>4. /\ results'[q] = IF results[q] = <<>> THEN results[q] ELSE Tail(results[q])
      /\ \E a \in {"gone", "drain"} : search'[q] = [search[q] EXCEPT !.at = a]
  BY <1>1, <1>2 DEF Queries
<1>5. /\ search'[q].at \in {"gone", "drain"} /\ search'[q].keys = search[q].keys
      /\ search'[q] \in [at : SearchAts \cup CountAts, keys : SUBSET Serials, item : Items, sum : Int]
  BY <1>2, <1>4 DEF SearchType, SearchAts
<1>6. Prefix(q)' = Prefix(q) /\ Named(q)' = Named(q) /\ Results(q)' = Results(q) /\ Items' = Items
  BY <1>1, <1>3 DEF Prefix, Named, Results, Items
<1>7. InHand(q)' = InHand(q)
  BY <1>1, <1>5 DEF InHand
<1>8. /\ results'[q] \in Seq(Results(q))
      /\ Coming(q)' \subseteq Coming(q)
      /\ \A i \in DOMAIN results'[q] : \A s \in InHand(q)' :
            Above(Prefix(q), results'[q][i].ser, s)
      /\ \A i, j \in DOMAIN results'[q] :
            i < j => Above(Prefix(q), results'[q][i].ser, results'[q][j].ser)
  <2>1. CASE results[q] = <<>>
    <3>1. results'[q] = results[q]
      BY <1>4, <2>1
    <3> QED BY <1>2, <1>7, <3>1 DEF SearchType, InOrder, Coming
  <2>2. CASE results[q] # <<>>
    BY <1>1, <1>4, <1>7, <2>2, OneLess
  <2> QED BY <2>1, <2>2
<1>9. SearchType(q)'
  BY <1>2, <1>5, <1>6, <1>8 DEF SearchType
<1>10. InOrder(q)'
  BY <1>1, <1>2, <1>5, <1>6, <1>7, <1>8 DEF InOrder
<1>11. CountBound'
  BY <1>1, <1>3, <1>5, NoCountMade DEF SearchAts
<1>12. Covered(q) => Covered(q)'
  BY <1>1, <1>4 DEF Covered
<1> QED BY <1>1, <1>3, <1>5, <1>8, <1>9, <1>10, <1>11, <1>12, OneSearch

-----------------------------------------------------------------------------
\* A goroutine of a count moves on, and sends nothing.
Moves(q) ==
    /\ search'[q].at \in CountAts \ {"idle"} /\ search'[q].keys = search[q].keys
    /\ search'[q] \in [at : SearchAts \cup CountAts, keys : SUBSET Serials, item : Items, sum : Int]
    /\ \A r \in Queries \ {q} : search'[r] = search[r]
    /\ Queries' = Queries

LEMMA OneCounts ==
    ASSUME QueryInvariant, loop.at = "idle", NEW q \in Queries,
           search[q].at \in CountAts \ {"gone"}, Moves(q),
           \/ closed' = closed
           \/ closed' = [closed EXCEPT ![q] = TRUE] /\ search'[q].at = "gone",
           UNCHANGED <<asked, loop, queue, emitted, results>>,
           CountBound'
    PROVE  QueryInvariant'
<1> DEFINE a == search'[q].at
<1>1. SearchType(q) /\ InOrder(q) /\ DOMAIN closed = Queries
  BY DEF QueryInvariant, QueryType, SearchesInOrder
<1>2. /\ Queries' = Queries /\ DOMAIN results' = Queries /\ DOMAIN closed' = Queries
      /\ \A r \in Queries \ {q} :
            search'[r] = search[r] /\ results'[r] = results[r] /\ closed'[r] = closed[r]
  BY <1>1 DEF Queries, QueryInvariant, QueryType, Moves
<1>4. /\ search'[q].at = a /\ search'[q].keys = search[q].keys /\ a \in CountAts \ {"idle"}
      /\ search'[q] \in [at : SearchAts \cup CountAts, keys : SUBSET Serials, item : Items, sum : Int]
  BY DEF Moves
<1> HIDE DEF a
<1>5. Prefix(q)' = Prefix(q) /\ Named(q)' = Named(q) /\ Results(q)' = Results(q) /\ Items' = Items
  BY <1>2 DEF Prefix, Named, Results, Items
<1>6. search[q].at # "put" /\ search'[q].at # "put"
  BY <1>4 DEF CountAts
<1>7. SearchType(q)'
  BY <1>1, <1>4, <1>5, <1>6 DEF SearchType
<1>8. Coming(q) = {} /\ ~closed[q]
  BY <1>1 DEF InOrder, CountAts
<1>9. InHand(q)' = InHand(q) /\ Coming(q)' = Coming(q)
  BY <1>4, <1>6 DEF InHand, Coming
<1>10. closed'[q] => a = "gone"
  BY <1>1, <1>4, <1>8
<1>11. DOMAIN results'[q] = {} /\ InHand(q)' = {} /\ Coming(q)' = {}
  <2>1. DOMAIN results[q] = {} /\ InHand(q) = {}
    BY <1>8 DEF Coming
  <2> QED BY <1>8, <1>9, <2>1
<1>12. InOrder(q)'
  BY <1>4, <1>6, <1>10, <1>11 DEF InOrder
<1>13. search'[q].at \notin {"idle", "scan"}
  BY <1>4 DEF CountAts
<1>14. Covered(q) => Covered(q)'
  BY <1>8 DEF Covered
<1> QED BY <1>2, <1>7, <1>9, <1>12, <1>13, <1>14, OneSearch

\* While there is a count, no loop runs.
LEMMA CountIsAlone ==
    ASSUME QueryInvariant, count.at # "idle" \/ \E q \in Queries : search[q].at \in {"counting", "adding", "counted"}
    PROVE  loop.at = "idle"
BY DEF QueryInvariant, CountBound, NoCount, SearchAts

LEMMA CountStartKept ==
    ASSUME QueryInvariant, CountStart
    PROVE  QueryInvariant'
<1> DEFINE q == count.k
<1>1. /\ count.at = "spawn" /\ q \in Queries
      /\ search' = [search EXCEPT ![q].at = "counting"]
      /\ count' = [count EXCEPT !.k = @ + 1]
      /\ UNCHANGED <<asked, loop, queue, emitted, results, closed>>
  BY DEF CountStart, CountRest, loopVars
<1>2. loop.at = "idle"
  BY <1>1, CountIsAlone
<1>3. search[q].at = "idle" /\ count.k \in Nat
  BY <1>1, <1>2 DEF QueryInvariant, CountBound
<1>4. SearchType(q)
  BY <1>1 DEF QueryInvariant, QueryType
<1>5. /\ search'[q].at = "counting" /\ search'[q].sum = search[q].sum
      /\ \A r \in Queries \ {q} : search'[r] = search[r]
      /\ Queries' = Queries /\ Moves(q)
  BY <1>1, <1>4 DEF Queries, SearchType, Moves, CountAts
<1>6. Finished' = Finished
  BY <1>3, <1>5 DEF Finished
<1>7. CountBound'
  <2>1. /\ count'.at = "spawn" /\ count'.k = count.k + 1 /\ count'.var = count.var
        /\ count'.answer = count.answer
        /\ count' \in [at : {"idle", "spawn", "returned"}, k : Nat, var : Int, answer : Int]
    BY <1>1, <1>3 DEF QueryInvariant, CountBound
  <2>2. \A r \in Queries : r \in Nat
    BY PrefixesAreListed DEF QueryInvariant, QueryType
  <2>3. \A r \in Queries : search'[r].at \in CountAts
    BY <1>2, <1>5 DEF QueryInvariant, CountBound, CountAts
  <2>4. ASSUME NEW r \in Queries, r >= count'.k
        PROVE  search'[r].at = "idle"
    <3>1. r # q /\ r >= count.k
      BY <2>1, <2>2, <2>4, <1>3
    <3> QED BY <1>1, <1>2, <1>5, <3>1 DEF QueryInvariant, CountBound
  <2>5. \A r \in Queries : search'[r].at = "adding" => search'[r].sum <= Cardinality(Finished) + 1
    BY <1>2, <1>5 DEF QueryInvariant, CountBound
  <2>6. count.var <= Cardinality(Finished) /\ count.answer <= Len(SearchPrefixes(asked))
    BY <1>2 DEF QueryInvariant, CountBound
  <2> QED BY <1>1, <1>2, <1>5, <1>6, <2>1, <2>3, <2>4, <2>5, <2>6 DEF CountBound
<1> QED BY <1>1, <1>2, <1>3, <1>5, <1>7, OneCounts DEF CountAts

LEMMA CountScanKept ==
    ASSUME QueryInvariant, NEW q \in Queries, CountScan(q)
    PROVE  QueryInvariant'
<1> DEFINE n == count.var + Counted(q)
<1>1. /\ search[q].at = "counting" /\ Counted(q) \in {0, 1}
      /\ UNCHANGED <<asked, loop, queue, emitted, results, closed, count>>
      /\ search' = [search EXCEPT ![q].at = IF Counted(q) > 0 THEN "adding" ELSE "counted",
                                  ![q].sum = n]
  BY DEF CountScan, CountRest, loopVars, Counted
<1>2. loop.at = "idle"
  BY <1>1, CountIsAlone
<1>3. SearchType(q) /\ count.var \in Int
  BY DEF QueryInvariant, QueryType, CountBound
<1> DEFINE a == IF Counted(q) > 0 THEN "adding" ELSE "counted"
<1>4. /\ search' = [search EXCEPT ![q].at = a, ![q].sum = n]
      /\ a \in {"adding", "counted"} /\ n \in Int
      /\ a = "adding" => n = count.var + 1
  BY <1>1, <1>3
<1> HIDE DEF a, n
<1>5. /\ search'[q].at = a /\ search'[q].sum = n
      /\ \A r \in Queries \ {q} : search'[r] = search[r]
      /\ Queries' = Queries /\ Moves(q)
  BY <1>4, <1>3 DEF Queries, SearchType, Moves, CountAts
<1>6. Cardinality(Finished) \in Nat /\ Cardinality(Finished') \in Nat
      /\ Cardinality(Finished) <= Cardinality(Finished')
  <2>1. Finished' = Finished \/ Finished' = Finished \cup {q}
    <3>1. CASE a = "adding"
      BY <1>1, <1>5, <3>1 DEF Finished
    <3>2. CASE a = "counted"
      BY <1>1, <1>5, <3>2 DEF Finished
    <3> QED BY <1>4, <3>1, <3>2
  <2> QED BY <2>1, FinishedIsFinite, FS_AddElement DEF QueryInvariant
<1>7. CountBound'
  <2>1. \A r \in Queries : search'[r].at \in CountAts
    BY <1>2, <1>4, <1>5 DEF QueryInvariant, CountBound, CountAts
  <2>2. count.at = "spawn" => \A r \in Queries : r >= count.k => search'[r].at = "idle"
    BY <1>1, <1>2, <1>5 DEF QueryInvariant, CountBound
  <2>3. count.var <= Cardinality(Finished')
    BY <1>2, <1>3, <1>6 DEF QueryInvariant, CountBound
  <2>4. ASSUME NEW r \in Queries, search'[r].at = "adding"
        PROVE  search'[r].sum <= Cardinality(Finished') + 1
    <3>1. CASE r = q
      BY <1>3, <1>4, <1>5, <1>6, <2>3, <2>4, <3>1
    <3>2. CASE r # q
      <4>1. search[r].sum <= Cardinality(Finished) + 1 /\ search[r].sum \in Int
        BY <1>2, <1>5, <2>4, <3>2 DEF QueryInvariant, CountBound, QueryType, SearchType
      <4> QED BY <1>5, <1>6, <3>2, <4>1
    <3> QED BY <3>1, <3>2
  <2> QED BY <1>1, <1>2, <1>5, <2>1, <2>2, <2>3, <2>4 DEF QueryInvariant, CountBound
<1> QED BY <1>1, <1>2, <1>5, <1>7, OneCounts DEF CountAts

LEMMA CountAddKept ==
    ASSUME QueryInvariant, NEW q \in Queries, CountAdd(q)
    PROVE  QueryInvariant'
<1>1. /\ search[q].at = "adding"
      /\ UNCHANGED <<asked, loop, queue, emitted, results, closed>>
      /\ count' = [count EXCEPT !.var = search[q].sum]
      /\ search' = [search EXCEPT ![q].at = "counted"]
  BY DEF CountAdd, CountRest, loopVars
<1>2. loop.at = "idle"
  BY <1>1, CountIsAlone
<1>3. SearchType(q) /\ search[q].sum \in Int
  BY DEF QueryInvariant, QueryType, SearchType
<1>4. /\ search'[q].at = "counted" /\ \A r \in Queries \ {q} : search'[r] = search[r]
      /\ Queries' = Queries /\ Moves(q)
  BY <1>1, <1>3 DEF Queries, SearchType, Moves, CountAts
<1>5. /\ Cardinality(Finished) \in Nat /\ Cardinality(Finished') = Cardinality(Finished) + 1
  <2>1. Finished' = Finished \cup {q} /\ q \notin Finished
    BY <1>1, <1>4 DEF Finished
  <2> QED BY <2>1, FinishedIsFinite, FS_AddElement DEF QueryInvariant
<1>6. CountBound'
  <2>1. /\ count'.at = count.at /\ count'.k = count.k /\ count'.var = search[q].sum
        /\ count'.answer = count.answer
        /\ count' \in [at : {"idle", "spawn", "returned"}, k : Nat, var : Int, answer : Int]
    BY <1>1, <1>3 DEF QueryInvariant, CountBound
  <2>2. \A r \in Queries : search'[r].at \in CountAts
    BY <1>2, <1>4 DEF QueryInvariant, CountBound, CountAts
  <2>3. count.at = "spawn" => \A r \in Queries : r >= count.k => search'[r].at = "idle"
    BY <1>1, <1>2, <1>4 DEF QueryInvariant, CountBound
  <2>4. search[q].sum <= Cardinality(Finished')
    BY <1>1, <1>2, <1>5 DEF QueryInvariant, CountBound
  <2>5. ASSUME NEW r \in Queries, search'[r].at = "adding"
        PROVE  search'[r].sum <= Cardinality(Finished') + 1
    <3>1. r # q
      BY <1>4, <2>5
    <3>2. search[r].sum <= Cardinality(Finished) + 1 /\ search[r].sum \in Int
      BY <1>2, <1>4, <2>5, <3>1 DEF QueryInvariant, CountBound, QueryType, SearchType
    <3> QED BY <1>4, <1>5, <3>1, <3>2
  <2>6. count.answer <= Len(SearchPrefixes(asked))
    BY DEF QueryInvariant, CountBound
  <2> QED BY <1>1, <1>2, <1>4, <2>1, <2>2, <2>3, <2>4, <2>5, <2>6 DEF CountBound
<1> QED BY <1>1, <1>2, <1>4, <1>6, OneCounts DEF CountAts

LEMMA CountCloseKept ==
    ASSUME QueryInvariant, NEW q \in Queries, CountClose(q)
    PROVE  QueryInvariant'
<1>1. /\ search[q].at = "counted"
      /\ UNCHANGED <<asked, loop, queue, emitted, results, count>>
      /\ closed' = [closed EXCEPT ![q] = TRUE]
      /\ search' = [search EXCEPT ![q].at = "gone"]
  BY DEF CountClose, CountRest, loopVars
<1>2. loop.at = "idle"
  BY <1>1, CountIsAlone
<1>3. SearchType(q)
  BY DEF QueryInvariant, QueryType
<1>4. /\ search'[q].at = "gone" /\ \A r \in Queries \ {q} : search'[r] = search[r]
      /\ Queries' = Queries /\ Moves(q)
  BY <1>1, <1>3 DEF Queries, SearchType, Moves, CountAts
<1>5. Finished' = Finished
  BY <1>1, <1>4 DEF Finished
<1>6. CountBound'
  <2>1. \A r \in Queries : search'[r].at \in CountAts
    BY <1>2, <1>4 DEF QueryInvariant, CountBound, CountAts
  <2>2. count.at = "spawn" => \A r \in Queries : r >= count.k => search'[r].at = "idle"
    BY <1>1, <1>2, <1>4 DEF QueryInvariant, CountBound
  <2>3. \A r \in Queries : search'[r].at = "adding" => search'[r].sum <= Cardinality(Finished) + 1
    BY <1>2, <1>4 DEF QueryInvariant, CountBound
  <2> QED BY <1>1, <1>2, <1>4, <1>5, <2>1, <2>2, <2>3 DEF QueryInvariant, CountBound
<1> QED BY <1>1, <1>2, <1>4, <1>6, OneCounts DEF CountAts

\* Nothing happens to the loop and to the searches.
LEMMA AllLeft ==
    ASSUME QueryInvariant, CountBound',
           UNCHANGED <<asked, loop, queue, emitted, search, results, closed>>
    PROVE  QueryInvariant'
<1>1. /\ Queries' = Queries /\ \A q : Prefix(q)' = Prefix(q) /\ Named(q)' = Named(q)
  BY DEF Queries, Prefix, Named
<1>2. Items' = Items /\ \A q : Results(q)' = Results(q)
  BY <1>1 DEF Items, Results
<1>3. AllResults' = AllResults
  BY <1>1, <1>2 DEF AllResults
<1>4. \A q : Coming(q)' = Coming(q) /\ InHand(q)' = InHand(q)
  BY DEF Coming, InHand
<1>5. \A q : Covered(q)' <=> Covered(q)
  BY DEF Covered
<1>6. QueryType'
  BY <1>1, <1>2, <1>3 DEF QueryInvariant, QueryType, SearchType
<1>7. SearchesInOrder'
  BY <1>1, <1>4 DEF QueryInvariant, SearchesInOrder, InOrder
<1>8. (TakenInOrder /\ EmittedOnce /\ LoopAt /\ NewestFirst)'
  BY <1>1, <1>4, <1>5, LoopLeft
<1> QED BY <1>6, <1>7, <1>8 DEF QueryInvariant

LEMMA CountReturnsKept ==
    ASSUME QueryInvariant, CountReturns
    PROVE  QueryInvariant'
<1>1. /\ UNCHANGED <<asked, loop, queue, emitted, search, results, closed>>
      /\ count.at = "spawn"
      /\ count' = [count EXCEPT !.at = "returned", !.answer = count.var]
  BY DEF CountReturns, CountRest, loopVars
<1>2. loop.at = "idle"
  BY <1>1, CountIsAlone
<1>3. count.var <= Len(SearchPrefixes(asked))
  <2> DEFINE n == Len(SearchPrefixes(asked))
  <2>1. n \in Nat /\ Queries = 1..n
    BY PrefixesAreListed DEF QueryInvariant, QueryType
  <2> HIDE DEF n
  <2>2. IsFiniteSet(1..n) /\ Cardinality(1..n) = n
    <3>1. CASE n = 0
      BY <3>1, FS_Interval
    <3>2. CASE n >= 1
      BY <2>1, <3>2, FS_Interval
    <3> QED BY <2>1, <3>1, <3>2
  <2>3. Finished \subseteq 1..n
    BY <2>1 DEF Finished
  <2>4. Cardinality(Finished) <= n /\ Cardinality(Finished) \in Nat
    BY <2>2, <2>3, FS_Subset, FinishedIsFinite DEF QueryInvariant
  <2>5. count.var <= Cardinality(Finished) /\ count.var \in Int
    BY <1>2 DEF QueryInvariant, CountBound
  <2> QED BY <2>1, <2>4, <2>5 DEF n
<1>4. CountBound'
  <2>1. /\ count'.at = "returned" /\ count'.var = count.var /\ count'.answer = count.var
        /\ count' \in [at : {"idle", "spawn", "returned"}, k : Nat, var : Int, answer : Int]
    BY <1>1 DEF QueryInvariant, CountBound
  <2>2. Queries' = Queries /\ Finished' = Finished
    BY <1>1 DEF Queries, Finished
  <2> QED BY <1>1, <1>2, <1>3, <2>1, <2>2 DEF QueryInvariant, CountBound
<1> QED BY <1>1, <1>4, AllLeft

\* The readers, the counters of accesses and the records are beside it.
LEMMA BesideKept ==
    ASSUME QueryInvariant,
           \/ Bump \/ AccessEnds \/ Read \/ Leave \/ Cancel
           \/ \E s \in Serials : Evict(s) \/ Erase(s)
    PROVE  QueryInvariant'
<1>1. UNCHANGED <<asked, loop, queue, emitted, search, results, closed, count>>
  <2>1. CASE Bump \/ AccessEnds
    BY <2>1 DEF Bump, AccessEnds, AccessRest, loopVars, searchVars
  <2>2. CASE Read \/ Leave \/ Cancel
    BY <2>2 DEF Read, Leave, Cancel, loopVars, searchVars
  <2>3. CASE \E s \in Serials : Evict(s) \/ Erase(s)
    BY <2>3 DEF Evict, Erase, Change, loopVars, searchVars
  <2> QED BY <2>1, <2>2, <2>3
<1>2. CountBound'
  <2>1. Queries' = Queries /\ Finished' = Finished
    BY <1>1 DEF Queries, Finished
  <2> QED BY <1>1, <2>1 DEF QueryInvariant, CountBound
<1> QED BY <1>1, <1>2, AllLeft

-----------------------------------------------------------------------------
\* The loop is somewhere else, and has taken and sent what it had.
LEMMA LoopOnly ==
    ASSUME QueryInvariant,
           UNCHANGED <<asked, queue, emitted, search, results, closed, count>>,
           loop' \in [at : LoopAts, k : Nat, latest : AllResults \cup {NoEntry}],
           loop.at \in LoopAts,
           EmittedOnce', LoopAt'
    PROVE  QueryInvariant'
<1>1. /\ Queries' = Queries /\ \A q : Prefix(q)' = Prefix(q) /\ Named(q)' = Named(q)
  BY DEF Queries, Prefix, Named
<1>2. Items' = Items /\ \A q : Results(q)' = Results(q)
  BY <1>1 DEF Items, Results
<1>3. AllResults' = AllResults
  BY <1>1, <1>2 DEF AllResults
<1>4. \A q : Coming(q)' = Coming(q) /\ InHand(q)' = InHand(q)
  BY DEF Coming, InHand
<1>5. QueryType'
  BY <1>1, <1>2, <1>3 DEF QueryInvariant, QueryType, SearchType
<1>6. SearchesInOrder'
  BY <1>1, <1>4 DEF QueryInvariant, SearchesInOrder, InOrder
<1>7. TakenInOrder'
  BY <1>1, <1>4 DEF QueryInvariant, TakenInOrder
<1>8. NewestFirst'
  <2>1. \A q : NoStubs(q)' <=> NoStubs(q)
    BY DEF NoStubs
  <2> QED BY <1>1, <1>4, <2>1 DEF QueryInvariant, NewestFirst
<1>9. CountBound'
  <2>1. loop.at # "idle" /\ loop'.at # "idle"
    BY DEF LoopAts
  <2> QED BY <1>1, <2>1 DEF QueryInvariant, CountBound
<1> QED BY <1>5, <1>6, <1>7, <1>8, <1>9 DEF QueryInvariant

LEMMA LoopMovesKept ==
    ASSUME QueryInvariant, StartCanceled \/ AllStarted \/ ChooseLatest \/ SendAccess
    PROVE  QueryInvariant'
<1>1. UNCHANGED <<asked, queue, emitted, search, results, closed, count>>
  BY DEF StartCanceled, AllStarted, ChooseLatest, SendAccess, LoopRest, searchVars
<1>2. /\ loop \in [at : LoopAts \cup {"idle"}, k : Nat, latest : AllResults \cup {NoEntry}]
      /\ queue \subseteq AllResults /\ asked \in Asked /\ emitted \in Seq(AllResults)
      /\ LoopAt /\ EmittedOnce
  BY DEF QueryInvariant, QueryType
<1>3. Limit \in Nat /\ Limit' = Limit /\ Len(emitted) \in Nat
  BY <1>1, <1>2, LimitIsPositive, LenProperties DEF Limit
<1>4. /\ Queries' = Queries /\ \A q : Prefix(q)' = Prefix(q) /\ (Covered(q)' <=> Covered(q))
      /\ \A e : Latest(e)' <=> Latest(e)
  BY <1>1 DEF Queries, Prefix, Covered, Latest
<1>5. \A q \in Queries : q \in Nat /\ q >= 1
  BY PrefixesAreListed DEF QueryInvariant, QueryType
<1>6. CASE StartCanceled
  <2>1. loop.at = "spawn" /\ loop' = [loop EXCEPT !.at = "done"]
    BY <1>6 DEF StartCanceled, End
  <2>2. loop'.at = "done" /\ loop' \in [at : LoopAts, k : Nat, latest : AllResults \cup {NoEntry}]
    BY <1>2, <2>1 DEF LoopAts
  <2>3. EmittedOnce'
    BY <1>1, <1>2, <2>2 DEF EmittedOnce
  <2>4. LoopAt'
    BY <1>1, <1>2, <1>3, <1>4, <2>1, <2>2 DEF LoopAt, Sending
  <2> QED BY <1>1, <2>1, <2>2, <2>3, <2>4, LoopOnly DEF LoopAts
<1>7. CASE AllStarted
  <2>1. loop.at = "spawn" /\ loop' = [loop EXCEPT !.at = "first", !.k = 1]
    BY <1>7 DEF AllStarted
  <2>2. /\ loop'.at = "first" /\ loop'.k = 1
        /\ loop' \in [at : LoopAts, k : Nat, latest : AllResults \cup {NoEntry}]
    BY <1>2, <2>1 DEF LoopAts
  <2>3. queue = {} /\ emitted = <<>> /\ Len(emitted) < Limit
    BY <1>2, <2>1 DEF LoopAt
  <2>4. EmittedOnce'
    BY <1>1, <1>2, <2>3 DEF EmittedOnce
  <2>5. LoopAt'
    BY <1>1, <1>3, <1>4, <1>5, <2>2, <2>3 DEF LoopAt, Sending
  <2> QED BY <1>1, <2>1, <2>2, <2>4, <2>5, LoopOnly DEF LoopAts
<1>8. CASE ChooseLatest
  <2>1. (loop.at = "first" /\ loop.k \notin Queries) \/ loop.at = "emit"
    BY <1>8 DEF ChooseLatest
  <2>2. CASE loop' = [loop EXCEPT !.at = "done"]
    <3>1. loop'.at = "done" /\ loop' \in [at : LoopAts, k : Nat, latest : AllResults \cup {NoEntry}]
      BY <1>2, <2>2 DEF LoopAts
    <3>2. EmittedOnce'
      BY <1>1, <1>2, <3>1 DEF EmittedOnce
    <3>3. LoopAt'
      BY <1>1, <1>2, <1>3, <1>4, <2>1, <3>1 DEF LoopAt, Sending
    <3> QED BY <1>1, <2>1, <3>1, <3>2, <3>3, LoopOnly DEF LoopAts
  <2>3. CASE \E e \in queue : Latest(e) /\ loop' = [loop EXCEPT !.at = "send", !.latest = e]
    <3>1. PICK e \in queue : Latest(e) /\ loop' = [loop EXCEPT !.at = "send", !.latest = e]
      BY <2>3
    <3>2. /\ loop'.at = "send" /\ loop'.latest = e
          /\ loop' \in [at : LoopAts, k : Nat, latest : AllResults \cup {NoEntry}]
      BY <1>2, <3>1 DEF LoopAts
    <3>3. \A q \in Queries : Covered(q)
      <4>1. CASE loop.at = "emit"
        BY <1>2, <4>1 DEF LoopAt, Sending
      <4>2. CASE loop.at = "first" /\ loop.k \notin Queries
        <5>1. loop.k > 0 /\ loop.k \in Nat /\ \A q \in Queries : q < loop.k => Covered(q)
          BY <1>2, <4>2 DEF LoopAt
        <5>2. \A q \in Queries : q < loop.k
          BY <4>2, <5>1, PrefixesAreListed DEF QueryInvariant, QueryType
        <5> QED BY <5>1, <5>2
      <4> QED BY <2>1, <4>1, <4>2
    <3>4. EmittedOnce'
      BY <1>1, <1>2, <1>4, <2>1, <3>2 DEF EmittedOnce, Sent, LoopAts
    <3>5. Len(emitted) < Limit /\ \A q \in Queries : search[q].at \in {"idle", "scan"} => emitted = <<>>
      BY <1>2, <2>1 DEF LoopAt
    <3>6. LoopAt'
      BY <1>1, <1>3, <1>4, <3>1, <3>2, <3>3, <3>5 DEF LoopAt, Sending
    <3> QED BY <1>1, <2>1, <3>2, <3>4, <3>6, LoopOnly DEF LoopAts
  <2> QED BY <1>8, <2>2, <2>3 DEF ChooseLatest, End
<1>9. CASE SendAccess
  <2>1. loop.at = "count" /\ loop' = [loop EXCEPT !.at = IF AtLimit THEN "done" ELSE "refill"]
    BY <1>9 DEF SendAccess, AfterAccess
  <2>2. CASE AtLimit
    <3>1. loop'.at = "done" /\ loop' \in [at : LoopAts, k : Nat, latest : AllResults \cup {NoEntry}]
      BY <1>2, <2>1, <2>2 DEF LoopAts
    <3>2. EmittedOnce'
      BY <1>1, <1>2, <3>1 DEF EmittedOnce
    <3>3. LoopAt'
      BY <1>1, <1>2, <1>3, <1>4, <2>1, <3>1 DEF LoopAt, Sending
    <3> QED BY <1>1, <2>1, <3>1, <3>2, <3>3, LoopOnly DEF LoopAts
  <2>3. CASE ~AtLimit
    <3>1. /\ loop'.at = "refill" /\ loop'.latest = loop.latest
          /\ loop' \in [at : LoopAts, k : Nat, latest : AllResults \cup {NoEntry}]
      BY <1>2, <2>1, <2>3 DEF LoopAts
    <3>2. EmittedOnce'
      BY <1>1, <1>2, <1>4, <2>1, <3>1 DEF EmittedOnce, Sent, LoopAts
    <3>3. Len(emitted) < Limit
      BY <1>2, <1>3, <2>1, <2>3 DEF LoopAt, AtLimit
    <3>4. LoopAt'
      BY <1>1, <1>2, <1>3, <1>4, <2>1, <3>1, <3>3 DEF LoopAt, Sending
    <3> QED BY <1>1, <2>1, <3>1, <3>2, <3>4, LoopOnly DEF LoopAts
  <2> QED BY <2>2, <2>3
<1> QED BY <1>6, <1>7, <1>8, <1>9

LEMMA ComingIsNamed ==
    ASSUME QueryInvariant, NEW q \in Queries, NEW s \in Coming(q)
    PROVE  s \in Named(q)
<1>1. SearchType(q)
  BY DEF QueryInvariant, QueryType
<1>2. \A i \in DOMAIN results[q] : results[q][i].ser \in Named(q)
  BY <1>1, LenProperties DEF SearchType, Results
<1>3. \A t \in InHand(q) : t \in Named(q)
  BY <1>1 DEF InHand, SearchType, Results
<1> QED BY <1>2, <1>3 DEF Coming

LEMMA StartSearchKept ==
    ASSUME QueryInvariant, StartSearch
    PROVE  QueryInvariant'
<1> PICK q \in Queries : q = loop.k
  BY DEF StartSearch
<1>1. /\ loop.at = "spawn" /\ q = loop.k
      /\ UNCHANGED <<asked, queue, emitted, results, closed, count>>
      /\ search' = [search EXCEPT ![q].at = "scan"]
      /\ loop' = [loop EXCEPT !.k = @ + 1]
  BY DEF StartSearch, LoopRest
<1>2. /\ loop \in [at : LoopAts \cup {"idle"}, k : Nat, latest : AllResults \cup {NoEntry}]
      /\ LoopAt /\ SearchType(q) /\ InOrder(q) /\ QueryType
  BY <1>1 DEF QueryInvariant, QueryType, SearchesInOrder
<1>3. /\ loop'.at = "spawn" /\ loop'.k = q + 1 /\ q \in Nat
      /\ loop' \in [at : LoopAts \cup {"idle"}, k : Nat, latest : AllResults \cup {NoEntry}]
  BY <1>1, <1>2 DEF LoopAts
<1>4. search[q].at = "idle" /\ queue = {} /\ emitted = <<>> /\ Len(emitted) < Limit
  BY <1>1, <1>2 DEF LoopAt
<1>5. /\ search'[q].at = "scan" /\ search'[q].keys = search[q].keys
      /\ search'[q] \in [at : SearchAts \cup CountAts, keys : SUBSET Serials, item : Items, sum : Int]
      /\ \A r \in Queries \ {q} : search'[r] = search[r]
      /\ Queries' = Queries
  BY <1>1, <1>2 DEF Queries, SearchType, SearchAts
<1>6. /\ \A r : Prefix(r)' = Prefix(r) /\ Named(r)' = Named(r)
  BY <1>1 DEF Prefix, Named
<1>7. Items' = Items /\ \A r : Results(r)' = Results(r)
  BY <1>5, <1>6 DEF Items, Results
<1>8. AllResults' = AllResults
  BY <1>5, <1>7 DEF AllResults
<1>9. ASSUME NEW r \in Queries
      PROVE  SearchType(r)' /\ InOrder(r)'
  <2>1. CASE r # q
    <3>1. search'[r] = search[r] /\ results'[r] = results[r] /\ closed'[r] = closed[r]
      BY <1>1, <1>5, <2>1
    <3>2. InHand(r)' = InHand(r) /\ Coming(r)' = Coming(r)
      BY <3>1 DEF InHand, Coming
    <3>3. SearchType(r) /\ InOrder(r)
      BY DEF QueryInvariant, QueryType, SearchesInOrder
    <3>4. SearchType(r)'
      BY <1>6, <1>7, <3>1, <3>3 DEF SearchType
    <3>5. InOrder(r)'
      BY <1>6, <3>1, <3>2, <3>3 DEF InOrder
    <3> QED BY <3>4, <3>5
  <2>2. CASE r = q
    <3>1. SearchType(q)'
      BY <1>1, <1>2, <1>5, <1>6, <1>7 DEF SearchType
    <3>2. InHand(q)' = InHand(q) /\ Coming(q)' = Coming(q)
      BY <1>1, <1>4, <1>5 DEF InHand, Coming
    <3>3. Coming(q) = {} /\ ~closed[q]
      BY <1>2, <1>4 DEF InOrder
    <3>4. DOMAIN results[q] = {}
      BY <3>3 DEF Coming
    <3>5. InOrder(q)'
      BY <1>1, <1>5, <3>2, <3>3, <3>4 DEF InOrder
    <3> QED BY <2>2, <3>1, <3>5
  <2> QED BY <2>1, <2>2
<1>10. QueryType'
  BY <1>1, <1>2, <1>3, <1>5, <1>8, <1>9 DEF QueryType
<1>11. SearchesInOrder'
  BY <1>5, <1>9 DEF SearchesInOrder
<1>12. (TakenInOrder /\ EmittedOnce /\ NewestFirst)'
  BY <1>1, <1>4 DEF TakenInOrder, EmittedOnce, NewestFirst, IsInjective
<1>13. LoopAt'
  <2>1. Limit' = Limit
    BY <1>1 DEF Limit
  <2>2. ASSUME NEW r \in Queries, r >= q + 1
        PROVE  search'[r].at = "idle"
    <3>1. r \in Nat
      BY PrefixesAreListed DEF QueryInvariant, QueryType
    <3>2. r # q /\ r >= q
      BY <1>3, <2>2, <3>1
    <3> QED BY <1>1, <1>2, <1>5, <3>2 DEF LoopAt
  <2> QED BY <1>1, <1>3, <1>4, <1>5, <2>1, <2>2 DEF LoopAt, Sending
<1>14. CountBound'
  <2>1. count = NoCount /\ \A r \in Queries : search'[r].at \in SearchAts
    BY <1>1, <1>5 DEF QueryInvariant, CountBound, SearchAts
  <2> QED BY <1>1, <1>3, <1>5, <2>1 DEF QueryInvariant, CountBound
<1> QED BY <1>10, <1>11, <1>12, <1>13, <1>14 DEF QueryInvariant

-----------------------------------------------------------------------------
LEMMA SendEventKept ==
    ASSUME QueryInvariant, SendEvent
    PROVE  QueryInvariant'
<1> DEFINE e == loop.latest
           n == Len(emitted)
<1>1. /\ loop.at = "send" /\ loop' = [loop EXCEPT !.at = "count"]
      /\ emitted' = Append(emitted, e)
      /\ UNCHANGED <<asked, queue, search, results, closed, count>>
  BY DEF SendEvent, LoopRest, searchVars
<1>2. /\ loop \in [at : LoopAts \cup {"idle"}, k : Nat, latest : AllResults \cup {NoEntry}]
      /\ queue \subseteq AllResults /\ emitted \in Seq(AllResults)
      /\ LoopAt /\ QueryType /\ TakenInOrder /\ EmittedOnce /\ NewestFirst
  BY DEF QueryInvariant, QueryType
<1>3. /\ loop'.at = "count" /\ loop'.latest = e
      /\ loop' \in [at : LoopAts \cup {"idle"}, k : Nat, latest : AllResults \cup {NoEntry}]
  BY <1>1, <1>2 DEF LoopAts
<1>4. /\ e \in queue /\ e \in AllResults /\ \A d \in queue : d.date <= e.date
      /\ \A q \in Queries : Covered(q)
  BY <1>1, <1>2 DEF LoopAt, Latest, Sending
<1>5. /\ Queries' = Queries /\ Items' = Items
      /\ \A r : /\ Prefix(r)' = Prefix(r) /\ Named(r)' = Named(r) /\ Results(r)' = Results(r)
                /\ Coming(r)' = Coming(r) /\ InHand(r)' = InHand(r)
                /\ Covered(r)' <=> Covered(r)
  BY <1>1 DEF Queries, Items, Prefix, Named, Results, Coming, InHand, Covered
<1>6. AllResults' = AllResults
  BY <1>5 DEF AllResults
<1>7. /\ emitted' \in Seq(AllResults) /\ n \in Nat
      /\ DOMAIN emitted = 1..n /\ DOMAIN emitted' = 1..(n + 1) /\ Len(emitted') = n + 1
      /\ \A i \in 1..n : emitted'[i] = emitted[i]
      /\ emitted'[n + 1] = e
  BY <1>1, <1>2, <1>4, AppendIs
<1>8. e.q \in Queries /\ e \in Results(e.q)
  BY <1>4 DEF AllResults, Results
<1>9. \A i \in 1..n : emitted[i] \in AllResults
  BY <1>2, <1>7, LenProperties
<1> HIDE DEF e, n
<1>10. QueryType'
  BY <1>1, <1>2, <1>3, <1>5, <1>6, <1>7 DEF QueryType, SearchType
<1>11. SearchesInOrder'
  BY <1>1, <1>5 DEF QueryInvariant, SearchesInOrder, InOrder
<1>12. TakenInOrder'
  <2>1. ASSUME NEW i \in 1..(n + 1), NEW s \in Coming(emitted'[i].q)
        PROVE  Above(Prefix(emitted'[i].q), emitted'[i].ser, s)
    <3>1. CASE i \in 1..n
      BY <1>2, <1>7, <2>1, <3>1 DEF TakenInOrder
    <3>2. CASE i = n + 1
      BY <1>2, <1>4, <1>7, <2>1, <3>2 DEF TakenInOrder
    <3> QED BY <1>7, <3>1, <3>2
  <2> QED BY <1>1, <1>2, <1>5, <1>7, <2>1 DEF TakenInOrder
<1>13. ASSUME NEW i \in 1..n
       PROVE  emitted[i] # e /\ (emitted[i].q = e.q => Above(Prefix(e.q), emitted[i].ser, e.ser))
  <2>1. emitted[i].q = e.q => Above(Prefix(e.q), emitted[i].ser, e.ser)
    BY <1>1, <1>2, <1>4, <1>7 DEF EmittedOnce, Sent, LoopAts
  <2>2. e.ser \in Serials /\ Prefix(e.q) \in KeysOf(e.ser)
    BY <1>8 DEF Results, Named
  <2>3. ~Above(Prefix(e.q), e.ser, e.ser)
    BY <2>2, AboveIsNewer
  <2> QED BY <2>1, <2>3
<1>14. EmittedOnce'
  <2>1. IsInjective(emitted')
    <3>1. ASSUME NEW i \in 1..(n + 1), NEW j \in 1..(n + 1), emitted'[i] = emitted'[j]
          PROVE  i = j
      <4>1. CASE i \in 1..n /\ j \in 1..n
        BY <1>2, <1>7, <3>1, <4>1 DEF EmittedOnce, IsInjective
      <4>2. CASE i \in 1..n /\ j = n + 1
        BY <1>7, <1>13, <3>1, <4>2
      <4>3. CASE i = n + 1 /\ j \in 1..n
        BY <1>7, <1>13, <3>1, <4>3
      <4>4. CASE i = n + 1 /\ j = n + 1
        BY <4>4
      <4> QED BY <1>7, <4>1, <4>2, <4>3, <4>4
    <3> QED BY <1>7, <3>1 DEF IsInjective
  <2>2. ASSUME NEW i \in 1..(n + 1), NEW d \in queue, d # e, d.q = emitted'[i].q
        PROVE  Above(Prefix(d.q), emitted'[i].ser, d.ser)
    <3>1. CASE i \in 1..n
      BY <1>1, <1>2, <1>7, <2>2, <3>1 DEF EmittedOnce, Sent, LoopAts
    <3>2. CASE i = n + 1
      BY <1>2, <1>4, <1>7, <2>2, <3>2 DEF TakenInOrder
    <3> QED BY <1>7, <3>1, <3>2
  <2> QED BY <1>1, <1>3, <1>5, <1>7, <2>1, <2>2 DEF EmittedOnce, Sent
<1>15. LoopAt'
  <2>1. \A q \in Queries : search[q].at \notin {"idle", "scan"}
    BY <1>2, <1>4 DEF QueryInvariant, SearchesInOrder, InOrder, TakenInOrder, Covered
  <2>2. Limit' = Limit /\ Limit \in Nat /\ n < Limit
    BY <1>1, <1>2, LimitIsPositive DEF Limit, LoopAt, QueryType, n
  <2>3. n + 1 \in DOMAIN emitted' /\ n + 1 <= Limit
    BY <1>7, <2>2
  <2> QED BY <1>1, <1>3, <1>4, <1>5, <1>7, <2>1, <2>2, <2>3 DEF LoopAt, Sending
<1>16. NewestFirst'
  <2>1. ASSUME NEW q \in Queries, NoStubs(q)'
        PROVE  NoStubs(q) /\ (e.q = q => e.whole)
    BY <1>1, <1>4, <1>7, <2>1 DEF NoStubs
  <2>2. ASSUME NEW i \in 1..(n + 1), NEW q \in Queries, emitted'[i].whole, NoStubs(q)'
        PROVE  /\ \A s \in Coming(q) : Content[s].date <= emitted'[i].date
               /\ \A d \in queue : d.q = q => d.date <= emitted'[i].date
    <3>1. CASE i \in 1..n
      BY <1>2, <1>7, <2>1, <2>2, <3>1 DEF NewestFirst
    <3>2. CASE i = n + 1
      <4>1. \A d \in queue : d.date <= emitted'[i].date
        BY <1>4, <1>7, <3>2
      <4>2. ASSUME NEW s \in Coming(q)
            PROVE  Content[s].date <= e.date
        <5>1. PICK d \in queue : d.q = q
          <6>1. CASE closed[q] /\ results[q] = <<>>
            <7>1. InHand(q) = {}
              BY <6>1 DEF QueryInvariant, SearchesInOrder, InOrder
            <7> QED BY <4>2, <6>1, <7>1 DEF Coming
          <6> QED BY <1>4, <6>1 DEF Covered
        <5>2. d.whole /\ d \in Results(q)
          BY <1>2, <2>1, <2>2, <5>1 DEF NoStubs, AllResults, Results
        <5>3. d.date = Content[d.ser].date /\ d.ser \in Named(q)
          BY <5>2 DEF Results
        <5>4. Above(Prefix(q), d.ser, s)
          BY <1>2, <4>2, <5>1 DEF TakenInOrder
        <5>5. s \in Named(q)
          BY <1>2, <4>2, ComingIsNamed
        <5>6. Content[s].date <= Content[d.ser].date
          BY <5>3, <5>4, <5>5, AboveIsNewer DEF Named
        <5>7. e.date \in Int /\ d.date \in Int /\ d.date <= e.date /\ Content[s].date \in Int
          BY <1>4, <1>8, <5>1, <5>2, <5>5, QueryAssumption DEF Results, Named
        <5> QED BY <5>3, <5>6, <5>7
      <4> QED BY <1>7, <3>2, <4>1, <4>2
    <3> QED BY <1>7, <3>1, <3>2
  <2>3. ASSUME NEW i \in 1..(n + 1), NEW j \in 1..(n + 1), i < j,
               emitted'[i].whole, emitted'[j].whole,
               \A k \in 1..j : emitted'[k].q = emitted'[j].q => emitted'[k].whole
        PROVE  emitted'[i].date >= emitted'[j].date
    <3>1. CASE j \in 1..n
      <4>1. i \in 1..n
        BY <1>7, <2>3, <3>1
      <4>2. \A k \in 1..j : emitted'[k] = emitted[k]
        BY <1>7, <3>1
      <4>3. \A k \in 1..j : emitted[k].q = emitted[j].q => emitted[k].whole
        BY <1>7, <2>3, <3>1, <4>2
      <4> QED BY <1>2, <1>7, <2>3, <3>1, <4>1, <4>2, <4>3 DEF NewestFirst
    <3>2. CASE j = n + 1
      <4>1. i \in 1..n
        BY <1>7, <2>3, <3>2
      <4>2. \A k \in 1..n : emitted[k].q = e.q => emitted[k].whole
        BY <1>7, <2>3, <3>2
      <4>3. \A d \in queue : d.q = e.q => d.whole
        BY <1>2, <1>4, <1>7, <2>3, <3>2 DEF TakenInOrder
      <4>4. NoStubs(e.q)
        BY <1>7, <4>2, <4>3 DEF NoStubs
      <4>5. e.date <= emitted[i].date
        BY <1>2, <1>4, <1>7, <1>8, <2>3, <4>1, <4>4 DEF NewestFirst
      <4>6. e.date \in Int /\ emitted[i].date \in Int
        BY <1>8, <1>9, <4>1 DEF Results, AllResults
      <4> QED BY <1>7, <3>2, <4>1, <4>5, <4>6
    <3> QED BY <1>7, <3>1, <3>2
  <2> QED BY <1>1, <1>5, <1>7, <2>2, <2>3 DEF NewestFirst
<1>17. CountBound'
  <2>1. loop.at # "idle" /\ loop'.at # "idle"
    BY <1>1, <1>3
  <2> QED BY <1>1, <1>5, <2>1 DEF QueryInvariant, CountBound
<1> QED BY <1>10, <1>11, <1>12, <1>14, <1>15, <1>16, <1>17 DEF QueryInvariant

-----------------------------------------------------------------------------
\* The loop takes the first result in the channel of q.
LEMMA ResultTaken ==
    ASSUME QueryInvariant, NEW q \in Queries, results[q] # <<>>,
           results' = [results EXCEPT ![q] = Tail(@)],
           UNCHANGED <<asked, search, closed>>
    PROVE  /\ Queries' = Queries /\ Items' = Items /\ DOMAIN results' = Queries
           /\ \A r : Prefix(r)' = Prefix(r) /\ Named(r)' = Named(r) /\ Results(r)' = Results(r)
           /\ \A r \in Queries : SearchType(r)' /\ InOrder(r)' /\ Coming(r)' \subseteq Coming(r)
           /\ \A r \in Queries \ {q} : Coming(r)' = Coming(r) /\ results'[r] = results[r]
           /\ Head(results[q]) \in Results(q) /\ Head(results[q]).ser \in Coming(q)
           /\ \A s \in Coming(q)' : Above(Prefix(q), Head(results[q]).ser, s)
<1>1. /\ Queries' = Queries /\ Items' = Items
      /\ \A r : /\ Prefix(r)' = Prefix(r) /\ Named(r)' = Named(r) /\ Results(r)' = Results(r)
                /\ InHand(r)' = InHand(r)
  BY DEF Queries, Items, Prefix, Named, Results, InHand
<1>2. DOMAIN results = Queries /\ \A r \in Queries : SearchType(r) /\ InOrder(r)
  BY DEF QueryInvariant, QueryType, SearchesInOrder
<1>3. /\ DOMAIN results' = Queries /\ results'[q] = Tail(results[q])
      /\ \A r \in Queries \ {q} : results'[r] = results[r]
  BY <1>2
<1>4. /\ results'[q] \in Seq(Results(q)) /\ Head(results[q]) \in Results(q)
      /\ Head(results[q]).ser \in Coming(q)
      /\ Coming(q)' \subseteq Coming(q)
      /\ \A s \in Coming(q)' : Above(Prefix(q), Head(results[q]).ser, s)
      /\ \A i \in DOMAIN results'[q] : \A s \in InHand(q)' :
            Above(Prefix(q), results'[q][i].ser, s)
      /\ \A i, j \in DOMAIN results'[q] :
            i < j => Above(Prefix(q), results'[q][i].ser, results'[q][j].ser)
  BY <1>1, <1>3, OneLess
<1>5. \A r \in Queries \ {q} : Coming(r)' = Coming(r)
  BY <1>1, <1>3 DEF Coming
<1>6. SearchType(q)' /\ InOrder(q)'
  <2>1. SearchType(q)'
    BY <1>1, <1>2, <1>4 DEF SearchType
  <2>2. InOrder(q)'
    BY <1>1, <1>2, <1>4 DEF InOrder
  <2> QED BY <2>1, <2>2
<1>7. \A r \in Queries \ {q} : SearchType(r)' /\ InOrder(r)'
  <2>1. \A r \in Queries \ {q} : SearchType(r)'
    BY <1>1, <1>2, <1>3 DEF SearchType
  <2>2. \A r \in Queries \ {q} : InOrder(r)'
    BY <1>1, <1>2, <1>3, <1>5 DEF InOrder
  <2> QED BY <2>1, <2>2
<1> QED BY <1>1, <1>3, <1>4, <1>5, <1>6, <1>7

LEMMA FirstResultKept ==
    ASSUME QueryInvariant, FirstResult
    PROVE  QueryInvariant'
<1> PICK q \in Queries : q = loop.k
  BY DEF FirstResult
<1>1. /\ loop.at = "first" /\ q = loop.k
      /\ UNCHANGED <<asked, emitted, search, closed, count>>
      /\ loop' = [loop EXCEPT !.k = @ + 1]
  BY DEF FirstResult, LoopRest
<1>2. /\ loop \in [at : LoopAts \cup {"idle"}, k : Nat, latest : AllResults \cup {NoEntry}]
      /\ LoopAt /\ QueryType /\ TakenInOrder
  BY DEF QueryInvariant, QueryType
<1>3. /\ loop'.at = "first" /\ loop'.k = q + 1 /\ q \in Nat /\ loop'.k > 0
      /\ loop' \in [at : LoopAts \cup {"idle"}, k : Nat, latest : AllResults \cup {NoEntry}]
  BY <1>1, <1>2
<1>4. /\ emitted = <<>> /\ Len(emitted) < Limit
      /\ \A r \in Queries : r < q => Covered(r)
      /\ \A e \in queue : e.q < q /\ e.q \in Queries
  BY <1>1, <1>2 DEF LoopAt, QueryType, AllResults, Results
<1>5. \A r \in Queries : r \in Nat
  BY PrefixesAreListed DEF QueryInvariant, QueryType
<1>6. Limit' = Limit
  BY <1>1 DEF Limit
<1>7. CASE results[q] = <<>>
  <2>1. closed[q] /\ UNCHANGED <<queue, results>>
    BY <1>1, <1>7 DEF FirstResult, Ready
  <2>2. \A r : Covered(r)' <=> Covered(r)
    BY <1>1, <2>1 DEF Covered
  <2>3. Covered(q)
    BY <1>7, <2>1 DEF Covered
  <2>4. ASSUME NEW r \in Queries, r < q + 1
        PROVE  Covered(r)
    <3>1. r < q \/ r = q
      BY <1>3, <1>5, <2>4
    <3> QED BY <1>4, <2>3, <3>1
  <2>5. \A e \in queue : e.q < q + 1
    BY <1>3, <1>4, <1>5
  <2>6. EmittedOnce'
    BY <1>1, <1>4 DEF EmittedOnce, IsInjective
  <2>7. Queries' = Queries
    BY <1>1 DEF Queries
  <2>8. LoopAt'
    BY <1>1, <1>3, <1>4, <1>6, <2>1, <2>2, <2>4, <2>5, <2>7 DEF LoopAt, Sending
  <2>9. loop' \in [at : LoopAts, k : Nat, latest : AllResults \cup {NoEntry}]
    BY <1>3 DEF LoopAts
  <2> QED BY <1>1, <2>1, <2>6, <2>8, <2>9, LoopOnly DEF LoopAts
<1>8. CASE results[q] # <<>>
  <2> DEFINE h == Head(results[q])
  <2>1. queue' = queue \cup {h} /\ results' = [results EXCEPT ![q] = Tail(@)]
    BY <1>1, <1>8 DEF FirstResult
  <2>2. /\ Queries' = Queries /\ Items' = Items /\ DOMAIN results' = Queries
        /\ \A r : Prefix(r)' = Prefix(r) /\ Named(r)' = Named(r) /\ Results(r)' = Results(r)
        /\ \A r \in Queries : SearchType(r)' /\ InOrder(r)' /\ Coming(r)' \subseteq Coming(r)
        /\ \A r \in Queries \ {q} : Coming(r)' = Coming(r) /\ results'[r] = results[r]
        /\ h \in Results(q) /\ h.ser \in Coming(q)
        /\ \A s \in Coming(q)' : Above(Prefix(q), h.ser, s)
    BY <1>1, <1>8, <2>1, ResultTaken
  <2>3. h.q = q /\ AllResults' = AllResults /\ h \in AllResults
    BY <2>2 DEF Results, AllResults
  <2> HIDE DEF h
  <2>4. QueryType'
    BY <1>1, <1>2, <1>3, <2>1, <2>2, <2>3 DEF QueryType
  <2>5. SearchesInOrder'
    BY <2>2 DEF SearchesInOrder
  <2>6. TakenInOrder'
    <3>1. ASSUME NEW e \in queue', NEW s \in Coming(e.q)'
          PROVE  Above(Prefix(e.q), e.ser, s)
      <4>1. CASE e = h
        BY <2>2, <2>3, <3>1, <4>1
      <4>2. CASE e \in queue
        BY <1>2, <1>4, <2>2, <3>1, <4>2 DEF TakenInOrder
      <4> QED BY <2>1, <4>1, <4>2
    <3>2. ASSUME NEW d \in queue', NEW e \in queue', d.q = e.q
          PROVE  d = e
      <4>1. q \in Nat /\ ~(q < q)
        BY <1>5
      <4> QED BY <1>2, <1>4, <2>1, <2>3, <3>2, <4>1 DEF TakenInOrder
    <3>3. ASSUME NEW e \in queue'
          PROVE  search[e.q].at \notin {"idle", "scan"}
      <4>1. CASE e = h
        BY <2>2, <2>3, <4>1 DEF QueryInvariant, SearchesInOrder, InOrder
      <4>2. CASE e \in queue
        BY <1>2, <4>2 DEF TakenInOrder
      <4> QED BY <2>1, <4>1, <4>2
    <3> QED BY <1>1, <1>4, <2>2, <3>1, <3>2, <3>3 DEF TakenInOrder
  <2>7. EmittedOnce' /\ NewestFirst'
    BY <1>1, <1>4 DEF EmittedOnce, NewestFirst, IsInjective
  <2>8. LoopAt'
    <3>1. ASSUME NEW r \in Queries, r < q + 1
          PROVE  Covered(r)'
      <4>1. CASE r = q
        BY <2>1, <2>3, <4>1 DEF Covered
      <4>2. CASE r # q
        <5>1. r < q
          BY <1>3, <1>5, <3>1, <4>2
        <5>2. Covered(r)
          BY <1>4, <5>1
        <5> QED BY <1>1, <2>1, <2>2, <4>2, <5>2 DEF Covered
      <4> QED BY <4>1, <4>2
    <3>2. \A e \in queue' : e.q < q + 1
      BY <1>3, <1>4, <1>5, <2>1, <2>3
    <3> QED BY <1>1, <1>3, <1>4, <1>6, <2>2, <3>1, <3>2 DEF LoopAt, Sending
  <2>9. CountBound'
    BY <1>1, <1>3, <2>2 DEF QueryInvariant, CountBound
  <2> QED BY <2>4, <2>5, <2>6, <2>7, <2>8, <2>9 DEF QueryInvariant
<1> QED BY <1>7, <1>8

LEMMA RefillKept ==
    ASSUME QueryInvariant, Refill
    PROVE  QueryInvariant'
<1> DEFINE e == loop.latest
<1>1. /\ loop.at = "refill" /\ Ready(e.q)
      /\ loop' = [loop EXCEPT !.at = IF queue' = {} THEN "done" ELSE "emit"]
      /\ UNCHANGED <<asked, emitted, search, closed, count>>
  BY DEF Refill, LoopRest
<1>2. /\ loop \in [at : LoopAts \cup {"idle"}, k : Nat, latest : AllResults \cup {NoEntry}]
      /\ LoopAt /\ QueryType /\ TakenInOrder /\ EmittedOnce /\ NewestFirst
      /\ queue \subseteq AllResults /\ emitted \in Seq(AllResults)
  BY DEF QueryInvariant, QueryType
<1>3. /\ e \in queue /\ Len(emitted) < Limit
      /\ \E i \in DOMAIN emitted : emitted[i] = e
      /\ \A q \in Queries : Covered(q)
  BY <1>1, <1>2 DEF LoopAt, Sending
<1> PICK q \in Queries : q = e.q
  BY <1>2, <1>3 DEF AllResults, Results
<1>4. /\ loop'.at \in {"done", "emit"}
      /\ loop' \in [at : LoopAts \cup {"idle"}, k : Nat, latest : AllResults \cup {NoEntry}]
      /\ loop' \in [at : LoopAts, k : Nat, latest : AllResults \cup {NoEntry}]
  BY <1>1, <1>2 DEF LoopAts
<1>5. Limit' = Limit /\ Limit \in Nat /\ Len(emitted) \in Nat
  BY <1>1, <1>2, LimitIsPositive, LenProperties DEF Limit, QueryType
<1>6. /\ \A d \in queue : d.q \in Queries /\ (d # e => d.q # q)
      /\ \A i \in DOMAIN emitted : emitted[i].q \in Queries
  BY <1>2, <1>3, LenProperties DEF TakenInOrder, AllResults, Results
<1> HIDE DEF e
\* What stays in the queue, and what comes to it.
<1>7. PICK more :
        /\ queue' = (queue \ {e}) \cup more
        /\ Queries' = Queries /\ Items' = Items /\ DOMAIN results' = Queries
        /\ \A r : Prefix(r)' = Prefix(r) /\ Named(r)' = Named(r) /\ Results(r)' = Results(r)
        /\ \A r \in Queries : SearchType(r)' /\ InOrder(r)' /\ Coming(r)' \subseteq Coming(r)
        /\ \A r \in Queries \ {q} : results'[r] = results[r]
        /\ \A h \in more :
              /\ more = {h} /\ h \in Results(q) /\ h.ser \in Coming(q)
              /\ \A s \in Coming(q)' : Above(Prefix(q), h.ser, s)
        /\ more = {} => closed[q] /\ results'[q] = <<>>
  <2>1. CASE results[q] = <<>>
    <3>1. queue' = queue \ {e} /\ results' = results /\ closed[q]
      BY <1>1, <2>1 DEF Refill, Ready, e
    <3>2. /\ Queries' = Queries /\ Items' = Items /\ DOMAIN results' = Queries
          /\ \A r : /\ Prefix(r)' = Prefix(r) /\ Named(r)' = Named(r) /\ Results(r)' = Results(r)
                    /\ InHand(r)' = InHand(r) /\ Coming(r)' = Coming(r)
      BY <1>1, <1>2, <3>1 DEF Queries, Items, Prefix, Named, Results, InHand, Coming, QueryType
    <3>3. \A r \in Queries : SearchType(r)'
      BY <1>1, <3>1, <3>2 DEF SearchType, QueryInvariant, QueryType
    <3>4. \A r \in Queries : InOrder(r)'
      BY <1>1, <3>1, <3>2 DEF InOrder, QueryInvariant, SearchesInOrder
    <3> QED BY <2>1, <3>1, <3>2, <3>3, <3>4
  <2>2. CASE results[q] # <<>>
    <3> DEFINE h == Head(results[q])
    <3>1. queue' = (queue \ {e}) \cup {h} /\ results' = [results EXCEPT ![q] = Tail(@)]
      BY <1>1, <2>2 DEF Refill, e
    <3>2. /\ Queries' = Queries /\ Items' = Items /\ DOMAIN results' = Queries
          /\ \A r : Prefix(r)' = Prefix(r) /\ Named(r)' = Named(r) /\ Results(r)' = Results(r)
          /\ \A r \in Queries : SearchType(r)' /\ InOrder(r)' /\ Coming(r)' \subseteq Coming(r)
          /\ \A r \in Queries \ {q} : Coming(r)' = Coming(r) /\ results'[r] = results[r]
          /\ h \in Results(q) /\ h.ser \in Coming(q)
          /\ \A s \in Coming(q)' : Above(Prefix(q), h.ser, s)
      BY <1>1, <2>2, <3>1, ResultTaken
    <3> HIDE DEF h
    <3>3. \A d \in {h} : {h} = {d} /\ d \in Results(q) /\ d.ser \in Coming(q)
                        /\ \A s \in Coming(q)' : Above(Prefix(q), d.ser, s)
      BY <3>2
    <3>4. {h} # {}
      OBVIOUS
    <3> QED BY <3>1, <3>2, <3>3, <3>4
  <2> QED BY <2>1, <2>2
<1>8. AllResults' = AllResults
  BY <1>7 DEF AllResults
<1>9. \A h \in more : h.q = q /\ h \in AllResults
  BY <1>7 DEF AllResults, Results
<1>10. QueryType'
  BY <1>1, <1>2, <1>4, <1>7, <1>8, <1>9 DEF QueryType
<1>11. SearchesInOrder'
  BY <1>7 DEF SearchesInOrder
<1>12. TakenInOrder'
  <2>1. ASSUME NEW d \in queue', NEW s \in Coming(d.q)'
        PROVE  Above(Prefix(d.q), d.ser, s)
    <3>1. CASE d \in more
      BY <1>7, <1>9, <2>1, <3>1
    <3>2. CASE d \in queue
      BY <1>2, <1>6, <1>7, <2>1, <3>2 DEF TakenInOrder
    <3> QED BY <1>7, <3>1, <3>2
  <2>2. ASSUME NEW i \in DOMAIN emitted, NEW s \in Coming(emitted[i].q)'
        PROVE  Above(Prefix(emitted[i].q), emitted[i].ser, s)
    <3>1. emitted[i].q \in Queries /\ s \in Coming(emitted[i].q)
      BY <1>1, <1>6, <1>7, <2>2
    <3> QED BY <1>2, <3>1 DEF TakenInOrder
  <2>3. ASSUME NEW c \in queue', NEW d \in queue', c.q = d.q
        PROVE  c = d
    <3>1. CASE c \in more /\ d \in more
      BY <1>7, <3>1
    <3>2. CASE c \in queue \ {e} /\ d \in queue \ {e}
      BY <1>2, <2>3, <3>2 DEF TakenInOrder
    <3>3. CASE c \in more /\ d \in queue \ {e}
      BY <1>6, <1>9, <2>3, <3>3
    <3>4. CASE c \in queue \ {e} /\ d \in more
      BY <1>6, <1>9, <2>3, <3>4
    <3> QED BY <1>7, <3>1, <3>2, <3>3, <3>4
  <2>4. ASSUME NEW d \in queue'
        PROVE  search[d.q].at \notin {"idle", "scan"}
    <3>1. CASE d \in more
      BY <1>7, <1>9, <3>1 DEF QueryInvariant, SearchesInOrder, InOrder
    <3>2. CASE d \in queue
      BY <1>2, <3>2 DEF TakenInOrder
    <3> QED BY <1>7, <3>1, <3>2
  <2> QED BY <1>1, <1>7, <2>1, <2>2, <2>3, <2>4 DEF TakenInOrder
<1>13. EmittedOnce'
  <2>1. ASSUME NEW i \in DOMAIN emitted, NEW d \in queue', d.q = emitted[i].q
        PROVE  Above(Prefix(d.q), emitted[i].ser, d.ser)
    <3>1. CASE d \in more
      BY <1>2, <1>7, <1>9, <2>1, <3>1 DEF TakenInOrder
    <3>2. CASE d \in queue \ {e}
      BY <1>1, <1>2, <2>1, <3>2 DEF EmittedOnce, Sent, LoopAts, e
    <3> QED BY <1>7, <3>1, <3>2
  <2> QED BY <1>1, <1>2, <1>7, <2>1 DEF EmittedOnce
<1>14. LoopAt'
  <2>1. ASSUME NEW r \in Queries
        PROVE  Covered(r)'
    <3>1. CASE r = q
      <4>1. CASE more = {}
        BY <1>1, <1>7, <3>1, <4>1 DEF Covered
      <4>2. CASE more # {}
        BY <1>7, <1>9, <3>1, <4>2 DEF Covered
      <4> QED BY <4>1, <4>2
    <3>2. CASE r # q
      <4>1. CASE closed[r] /\ results[r] = <<>>
        BY <1>1, <1>7, <3>2, <4>1 DEF Covered
      <4>2. CASE \E d \in queue : d.q = r
        <5>1. PICK d \in queue : d.q = r
          BY <4>2
        <5>2. d # e
          BY <3>2, <5>1 DEF e
        <5> QED BY <1>7, <5>1, <5>2 DEF Covered
      <4> QED BY <1>3, <4>1, <4>2 DEF Covered
    <3> QED BY <3>1, <3>2
  <2>2. Len(emitted) < Limit /\ Len(emitted) <= Limit
    BY <1>3, <1>5
  <2>3. \A r \in Queries : search[r].at \in {"idle", "scan"} => emitted = <<>>
    BY <1>2 DEF LoopAt
  <2> QED BY <1>1, <1>4, <1>5, <1>7, <2>1, <2>2, <2>3 DEF LoopAt, Sending
<1>15. NewestFirst'
  <2>1. ASSUME NEW r \in Queries, NoStubs(r)'
        PROVE  NoStubs(r)
    <3>1. \A i \in DOMAIN emitted : emitted[i].q = r => emitted[i].whole
      BY <1>1, <2>1 DEF NoStubs
    <3>2. ASSUME NEW d \in queue, d.q = r
          PROVE  d.whole
      <4>1. CASE d = e
        BY <1>3, <3>1, <3>2, <4>1
      <4>2. CASE d # e
        BY <1>7, <2>1, <3>2, <4>2 DEF NoStubs
      <4> QED BY <4>1, <4>2
    <3> QED BY <3>1, <3>2 DEF NoStubs
  <2>2. ASSUME NEW i \in DOMAIN emitted, NEW r \in Queries, emitted[i].whole, NoStubs(r)'
        PROVE  /\ \A s \in Coming(r)' : Content[s].date <= emitted[i].date
               /\ \A d \in queue' : d.q = r => d.date <= emitted[i].date
    <3>1. /\ \A s \in Coming(r) : Content[s].date <= emitted[i].date
          /\ \A d \in queue : d.q = r => d.date <= emitted[i].date
      BY <1>2, <2>1, <2>2 DEF NewestFirst
    <3>2. ASSUME NEW d \in more, d.q = r
          PROVE  d.date <= emitted[i].date
      <4>1. d.whole /\ d \in Results(q) /\ r = q
        BY <1>7, <1>9, <2>2, <3>2 DEF NoStubs
      <4>2. d.date = Content[d.ser].date /\ d.ser \in Coming(q)
        BY <1>7, <4>1 DEF Results
      <4> QED BY <3>1, <4>1, <4>2
    <3> QED BY <1>7, <3>1, <3>2
  <2> QED BY <1>1, <1>2, <1>7, <2>2 DEF NewestFirst
<1>16. CountBound'
  <2>1. loop.at # "idle" /\ loop'.at # "idle"
    BY <1>1, <1>4
  <2> QED BY <1>1, <1>7, <2>1 DEF QueryInvariant, CountBound
<1> QED BY <1>10, <1>11, <1>12, <1>13, <1>14, <1>15, <1>16 DEF QueryInvariant

-----------------------------------------------------------------------------
LEMMA QueryStep ==
    ASSUME QueryInvariant, QueryNext
    PROVE  QueryInvariant'
<1>1. CASE Loop
  BY <1>1, StartSearchKept, LoopMovesKept, FirstResultKept, SendEventKept, RefillKept DEF Loop
<1>2. CASE \E q \in Queries : Search(q)
  BY <1>2, ScanKeysKept, FetchKept, PutKept, CloseResultsKept, DrainKept DEF Search
<1>3. CASE Count
  BY <1>3, CountStartKept, CountReturnsKept, CountScanKept, CountAddKept, CountCloseKept DEF Count
<1> QED BY <1>1, <1>2, <1>3, BesideKept DEF QueryNext

(* What the loop has taken of each search, and what is still to come, is in *)
(* the order of the index; while it sends, no search is left out          *)
(* (query.go:44-211).                                                      *)
THEOREM QueriesInOrder == QuerySpec => []QueryInvariant
<1>1. QueryInit => QueryInvariant
  BY QueryStart
<1>2. QueryInvariant /\ [QueryNext]_queryVars => QueryInvariant'
  <2>1. CASE UNCHANGED queryVars
    <3>1. QueryInvariant => CountBound'
      BY <2>1 DEF queryVars, recordVars, loopVars, searchVars, QueryInvariant, CountBound,
                  Queries, Finished
    <3> QED BY <2>1, <3>1, AllLeft DEF queryVars, loopVars, searchVars
  <2> QED BY <2>1, QueryStep
<1> QED BY <1>1, <1>2, PTL DEF QuerySpec

(* A query sends no more than its limit, no result twice, nothing it was    *)
(* not asked for, and whole events newest first, whichever search is slow  *)
(* and whatever is evicted or removed on the way; a count is never above   *)
(* the number of its searches (query.go:36-39, :67-124, count.go:67-71).   *)
THEOREM QueriesSendNewest == QuerySpec => []NewestUpToLimit
<1>1. QueryInvariant => NewestUpToLimit
  <2> SUFFICES ASSUME QueryInvariant PROVE NewestUpToLimit
    OBVIOUS
  <2>1. Len(emitted) <= Limit
    <3>1. Limit \in Nat /\ Len(emitted) \in Nat
      BY LimitIsPositive, LenProperties DEF QueryInvariant, QueryType
    <3>2. loop.at \in LoopAts \cup {"idle"}
      BY DEF QueryInvariant, QueryType
    <3> QED BY <3>1, <3>2 DEF QueryInvariant, LoopAt, LoopAts
  <2>2. \A i \in DOMAIN emitted : SearchPrefixes(asked)[emitted[i].q] \in KeysOf(emitted[i].ser)
    BY LenProperties DEF QueryInvariant, QueryType, AllResults, Results, Named, Prefix
  <2> QED BY <2>1, <2>2 DEF NewestUpToLimit, QueryInvariant, EmittedOnce, CountBound, NewestFirst
<1> QED BY <1>1, QueriesInOrder, PTL

-----------------------------------------------------------------------------
(* The client's connection.                                                *)

ClientSpec == ClientInit /\ [][ClientNext]_clientVars

DispType == [event : Events, added : {0, 1}]

MessageType ==
    [type : {"EVENT"}, sub : Subs, event : Events]
    \cup [type : {"EOSE"}, sub : Subs] \cup [type : {"COUNT"}, sub : Subs]
    \cup [type : {"AUTH"}] \cup [type : {"OK"}, ok : {"true", "false"}]

SubType == [registered : BOOLEAN, live : BOOLEAN, eosed : BOOLEAN, done : BOOLEAN,
            closed : BOOLEAN, wg : Int, eose : {"none", "wait", "send", "sent"},
            early : BOOLEAN]

WireType == [asked : BOOLEAN, closes : Nat, stored : SUBSET Events,
             later : SUBSET Events, eose : BOOLEAN, answered : BOOLEAN]

CallAt == {"idle", "prepared", "firing", "reading", "counting", "eose", "closed",
           "time", "over", "stuck"}

ClientTypes ==
    /\ inbox \in Seq(MessageType)
    /\ call \in [Subs -> CallAt]
    /\ got \in [Subs -> SUBSET Events]
    /\ sub \in [Subs -> SubType]
    /\ disp \in [Subs -> SUBSET DispType]
    /\ holder \in [Subs -> DispType \cup {NoOne}]
    /\ unsub \in [Subs -> [Actors -> {"no", "swap", "write", "delete", "end", "stuck"}]]
    /\ wire \in [Subs -> WireType]

(* Who ends the subscription s, and what of it is over. *)
Ended(s) ==
    /\ \A a \in Actors : unsub[s][a] # "no" => sub[s].done
    /\ call[s] \in {"idle", "prepared"} => ~sub[s].live /\ wire[s].closes = 0
    /\ ~sub[s].done /\ call[s] # "idle" => sub[s].registered
    /\ ~sub[s].done /\ call[s] \notin {"idle", "prepared"} => sub[s].live
    /\ unsub[s]["start"] \notin {"no", "swap"} /\ ~sub[s].early => ~sub[s].live
    /\ sub[s].closed => unsub[s]["start"] = "end"
    /\ sub[s].closed /\ ~sub[s].early => holder[s] = NoOne
    /\ sub[s].live => wire[s].closes = 0 /\ \A a \in Actors : unsub[s][a] # "write"
    /\ \A a \in Actors : unsub[s][a] = "write" =>
          /\ wire[s].closes = 0 /\ call[s] \notin {"idle", "prepared"}
          /\ \A b \in Actors : unsub[s][b] = "write" => a = b
    /\ wire[s].closes <= 1

Adds(D) == {d \in D : d.added = 1}
Holds(h) == IF h # NoOne /\ h.added = 1 THEN 1 ELSE 0

(* The WaitGroup counts what is dispatched and not delivered. *)
GroupCounts(s) ==
    /\ IsFiniteSet(disp[s])
    /\ Cardinality(Adds(disp[s])) + Holds(holder[s]) <= sub[s].wg

Arrival(s, e) == [type |-> "EVENT", sub |-> s, event |-> e]
Eose(s) == [type |-> "EOSE", sub |-> s]
Dispatched(e) == [event |-> e, added |-> 1]

(* The event is in the inbox, and the EOSE of its query is not before it. *)
Incoming(s, e) ==
    \E i \in DOMAIN inbox :
        inbox[i] = Arrival(s, e) /\ \A j \in 1 .. (i - 1) : inbox[j] # Eose(s)

(* Each event that was stored before the EOSE is on its way or there. *)
Arriving(s) ==
    /\ wire[s].asked \/ wire[s].stored # {} => call[s] \notin {"idle", "prepared", "firing"}
    /\ sub[s].eose # "none" => sub[s].eosed
    /\ sub[s].eosed \/ (\E i \in DOMAIN inbox : inbox[i] = Eose(s)) => wire[s].eose
    /\ call[s] = "eose" => sub[s].eose = "sent"
    /\ ~sub[s].done => \A e \in wire[s].stored :
          \/ e \in got[s] \/ Dispatched(e) \in disp[s] \/ holder[s] = Dispatched(e)
          \/ ~sub[s].eosed /\ Incoming(s, e)
    /\ ~sub[s].done /\ sub[s].eose \in {"send", "sent"} => wire[s].stored \subseteq got[s]

ClientInv == ClientTypes /\ \A s \in Subs : Ended(s) /\ GroupCounts(s) /\ Arriving(s)

-----------------------------------------------------------------------------
(* A client that has asked for nothing. *)
LEMMA InitClient == ClientInit => ClientInv
<1> SUFFICES ASSUME ClientInit PROVE ClientInv
  OBVIOUS
<1> USE DEF ClientInit
<1>1. NewSub \in SubType /\ NewWire \in WireType
  BY DEF NewSub, SubType, NewWire, WireType
<1>2. inbox \in Seq(MessageType) /\ DOMAIN inbox = {}
  OBVIOUS
<1>3. ClientTypes
  BY <1>1, <1>2 DEF ClientTypes, CallAt
<1>4. ASSUME NEW s \in Subs PROVE Ended(s) /\ GroupCounts(s) /\ Arriving(s)
  <2>1. Ended(s)
    BY DEF Ended, NewSub, NewWire, Actors
  <2>2. Adds(disp[s]) = {} /\ Holds(holder[s]) = 0 /\ disp[s] = {}
    BY DEF Adds, Holds
  <2>3. IsFiniteSet({}) /\ Cardinality({}) = 0 /\ sub[s].wg = 0
    BY FS_EmptySet DEF NewSub
  <2>a. IsFiniteSet(disp[s]) /\ Cardinality(Adds(disp[s])) = 0
    BY <2>2, <2>3, Zenon
  <2>b. GroupCounts(s)
    BY <2>2, <2>3, <2>a, 0 + 0 <= 0 DEF GroupCounts
  <2>4. Arriving(s)
    BY <1>2 DEF Arriving, NewSub, NewWire
  <2> QED
    BY <2>1, <2>b, <2>4
<1> QED
  BY <1>3, <1>4 DEF ClientInv

(* A subscription that a step does not touch, nor the inbox. *)
Untouched(t) ==
    /\ sub'[t] = sub[t] /\ call'[t] = call[t] /\ got'[t] = got[t] /\ disp'[t] = disp[t]
    /\ holder'[t] = holder[t] /\ unsub'[t] = unsub[t]
    /\ wire'[t].asked = wire[t].asked /\ wire'[t].closes = wire[t].closes
    /\ wire'[t].stored = wire[t].stored /\ wire'[t].eose = wire[t].eose

(* What holds of a subscription goes on when no step touches it. *)
LEMMA UntouchedKeeps ==
    ASSUME ClientInv, NEW t \in Subs, Untouched(t), inbox' = inbox
    PROVE  Ended(t)' /\ GroupCounts(t)' /\ Arriving(t)'
<1>1. Ended(t) /\ GroupCounts(t) /\ Arriving(t)
  BY DEF ClientInv
<1>2. Ended(t)'
  BY <1>1 DEF Ended, Untouched
<1>3. GroupCounts(t)'
  BY <1>1 DEF GroupCounts, Untouched
<1>4. Arriving(t)'
  BY <1>1 DEF Arriving, Untouched, Incoming
<1> QED
  BY <1>2, <1>3, <1>4

(* So a step of one subscription is judged by that subscription. *)
LEMMA OneSteps ==
    ASSUME ClientInv, NEW s \in Subs, inbox' = inbox, ClientTypes',
           \A t \in Subs \ {s} : Untouched(t),
           Ended(s)', GroupCounts(s)', Arriving(s)'
    PROVE  ClientInv'
<1>1. ASSUME NEW t \in Subs PROVE Ended(t)' /\ GroupCounts(t)' /\ Arriving(t)'
  <2>1. CASE t = s
    BY <2>1
  <2>2. CASE t # s
    BY <2>2, UntouchedKeeps
  <2> QED
    BY <2>1, <2>2
<1> QED
  BY <1>1 DEF ClientInv

(* A step that leaves the WaitGroup and what it counts alone. *)
LEMMA CountStays ==
    ASSUME NEW s \in Subs, GroupCounts(s), disp'[s] = disp[s], holder'[s] = holder[s],
           sub'[s].wg = sub[s].wg
    PROVE  GroupCounts(s)'
BY DEF GroupCounts

(* A step that leaves what is stored and where it is alone. *)
LEMMA ArrivalStays ==
    ASSUME NEW s \in Subs, Arriving(s), inbox' = inbox,
           disp'[s] = disp[s], holder'[s] = holder[s], got'[s] = got[s],
           wire'[s].stored = wire[s].stored, wire'[s].eose = wire[s].eose,
           wire'[s].asked => wire[s].asked,
           sub'[s].eosed = sub[s].eosed, sub'[s].eose = sub[s].eose,
           sub[s].done => sub'[s].done,
           call'[s] = call[s] \/ call'[s] \notin {"idle", "prepared", "firing", "eose"}
    PROVE  Arriving(s)'
<1>1. \A e \in Events : Incoming(s, e)' <=> Incoming(s, e)
  BY DEF Incoming
<1>2. \A e : Incoming(s, e)' <=> Incoming(s, e)
  BY DEF Incoming
<1> QED
  BY <1>2 DEF Arriving

(* The changes of a subscription keep its type. *)
LEMMA SubChanged ==
    \A x \in SubType :
        /\ [x EXCEPT !.done = TRUE] \in SubType
        /\ [x EXCEPT !.registered = TRUE] \in SubType
        /\ [x EXCEPT !.registered = FALSE] \in SubType
        /\ [x EXCEPT !.live = FALSE] \in SubType
        /\ [x EXCEPT !.closed = TRUE] \in SubType
        /\ \A i \in Int : [x EXCEPT !.wg = i] \in SubType
        /\ [x EXCEPT !.eose = "send"] \in SubType
        /\ [x EXCEPT !.eose = "sent"] \in SubType
        /\ [x EXCEPT !.eosed = TRUE, !.eose = "wait"] \in SubType
        /\ [x EXCEPT !.live = TRUE, !.early = x.done] \in SubType
BY DEF SubType


(* A subscription enters the map. *)
LEMMA PrepareKeeps ==
    ASSUME ClientInv, NEW s \in Subs, Prepare(s)
    PROVE  ClientInv'
<1>1. ClientTypes /\ Ended(s) /\ GroupCounts(s) /\ Arriving(s)
  BY DEF ClientInv
<1>2. /\ inbox' = inbox
      /\ \A t \in Subs \ {s} : sub'[t] = sub[t]
      /\ sub'[s] = [sub[s] EXCEPT !.registered = TRUE]
      /\ sub' \in [Subs -> SubType]
      /\ \A t \in Subs \ {s} : call'[t] = call[t]
      /\ call'[s] = "prepared"
      /\ call' \in [Subs -> CallAt]
      /\ unsub' = unsub
      /\ wire' = wire
      /\ got' = got /\ disp' = disp /\ holder' = holder
  <2>1. [sub[s] EXCEPT !.registered = TRUE] \in SubType
    <3>1. sub[s] \in SubType
      BY <1>1 DEF ClientTypes
    <3> QED
      BY <3>1, SubChanged
  <2>2. sub' = [sub EXCEPT ![s] = [sub[s] EXCEPT !.registered = TRUE]]
    BY DEF Prepare, CallRest
  <2>3. sub' \in [Subs -> SubType] /\ sub'[s] = [sub[s] EXCEPT !.registered = TRUE] /\ \A t \in Subs \ {s} : sub'[t] = sub[t]
    BY <1>1, <2>1, <2>2 DEF ClientTypes
  <2> QED
    BY <1>1, <2>3 DEF Prepare, CallRest, ClientTypes, CallAt, Actors
<1>3. ClientTypes'
  BY <1>1, <1>2 DEF ClientTypes
<1>4. \A t \in Subs \ {s} : Untouched(t)
  BY <1>2 DEF Untouched
<1>5. sub[s] \in SubType /\ wire[s] \in WireType /\ unsub[s] \in [Actors -> {"no", "swap", "write", "delete", "end", "stuck"}]
  BY <1>1 DEF ClientTypes
<1>6. Ended(s)'
  BY <1>1, <1>2, <1>5 DEF Ended, SubType, WireType, Prepare, CallRest, Actors
<1>7. GroupCounts(s)'
  BY <1>1, <1>2, <1>5, CountStays DEF SubType
<1>8. Arriving(s)'
  BY <1>1, <1>2, <1>5 DEF Arriving, Incoming, SubType, Prepare
<1> QED
  BY <1>2, <1>3, <1>4, <1>6, <1>7, <1>8, OneSteps

(* Fire makes the subscription live. *)
LEMMA FireKeeps ==
    ASSUME ClientInv, NEW s \in Subs, Fire(s)
    PROVE  ClientInv'
<1>1. ClientTypes /\ Ended(s) /\ GroupCounts(s) /\ Arriving(s)
  BY DEF ClientInv
<1>2. /\ inbox' = inbox
      /\ \A t \in Subs \ {s} : sub'[t] = sub[t]
      /\ sub'[s] = [sub[s] EXCEPT !.live = TRUE, !.early = sub[s].done]
      /\ sub' \in [Subs -> SubType]
      /\ \A t \in Subs \ {s} : call'[t] = call[t]
      /\ call'[s] = "firing"
      /\ call' \in [Subs -> CallAt]
      /\ unsub' = unsub
      /\ wire' = wire
      /\ got' = got /\ disp' = disp /\ holder' = holder
  <2>1. [sub[s] EXCEPT !.live = TRUE, !.early = sub[s].done] \in SubType
    <3>1. sub[s] \in SubType
      BY <1>1 DEF ClientTypes
    <3> QED
      BY <3>1, SubChanged
  <2>2. sub' = [sub EXCEPT ![s] = [sub[s] EXCEPT !.live = TRUE, !.early = sub[s].done]]
    BY DEF Fire, CallRest
  <2>3. sub' \in [Subs -> SubType] /\ sub'[s] = [sub[s] EXCEPT !.live = TRUE, !.early = sub[s].done] /\ \A t \in Subs \ {s} : sub'[t] = sub[t]
    BY <1>1, <2>1, <2>2 DEF ClientTypes
  <2> QED
    BY <1>1, <2>3 DEF Fire, CallRest, ClientTypes, CallAt, Actors
<1>3. ClientTypes'
  BY <1>1, <1>2 DEF ClientTypes
<1>4. \A t \in Subs \ {s} : Untouched(t)
  BY <1>2 DEF Untouched
<1>5. sub[s] \in SubType /\ wire[s] \in WireType /\ unsub[s] \in [Actors -> {"no", "swap", "write", "delete", "end", "stuck"}]
  BY <1>1 DEF ClientTypes
<1>6. Ended(s)'
  BY <1>1, <1>2, <1>5 DEF Ended, SubType, WireType, Fire, CallRest, Actors
<1>7. GroupCounts(s)'
  BY <1>1, <1>2, <1>5, CountStays DEF SubType
<1>8. Arriving(s)'
  BY <1>1, <1>2, <1>5 DEF Arriving, Incoming, SubType, Fire
<1> QED
  BY <1>2, <1>3, <1>4, <1>6, <1>7, <1>8, OneSteps

(* The REQ is written. *)
LEMMA WriteReqKeeps ==
    ASSUME ClientInv, NEW s \in Subs, WriteReq(s)
    PROVE  ClientInv'
<1>1. ClientTypes /\ Ended(s) /\ GroupCounts(s) /\ Arriving(s)
  BY DEF ClientInv
<1>2. /\ inbox' = inbox
      /\ sub' = sub
      /\ \A t \in Subs \ {s} : call'[t] = call[t]
      /\ call'[s] = (IF s \in Counters THEN "counting" ELSE "reading")
      /\ call' \in [Subs -> CallAt]
      /\ unsub' = unsub
      /\ \A t \in Subs \ {s} : wire'[t] = wire[t]
      /\ wire'[s] = [wire[s] EXCEPT !.asked = TRUE]
      /\ wire' \in [Subs -> WireType]
      /\ got' = got /\ disp' = disp /\ holder' = holder
  BY <1>1 DEF WriteReq, CallRest, ClientTypes, WireType, CallAt, Actors
<1>3. ClientTypes'
  BY <1>1, <1>2 DEF ClientTypes
<1>4. \A t \in Subs \ {s} : Untouched(t)
  BY <1>2 DEF Untouched
<1>5. sub[s] \in SubType /\ wire[s] \in WireType /\ unsub[s] \in [Actors -> {"no", "swap", "write", "delete", "end", "stuck"}]
  BY <1>1 DEF ClientTypes
<1>6. Ended(s)'
  BY <1>1, <1>2, <1>5 DEF Ended, SubType, WireType, WriteReq, CallRest, Actors
<1>7. GroupCounts(s)'
  BY <1>1, <1>2, <1>5, CountStays DEF SubType
<1>8. Arriving(s)'
  BY <1>1, <1>2, <1>5 DEF Arriving, Incoming, SubType, WireType, WriteReq
<1> QED
  BY <1>2, <1>3, <1>4, <1>6, <1>7, <1>8, OneSteps

(* The caller's context is done. *)
LEMMA CancelCallKeeps ==
    ASSUME ClientInv, NEW s \in Subs, CancelCall(s)
    PROVE  ClientInv'
<1>1. ClientTypes /\ Ended(s) /\ GroupCounts(s) /\ Arriving(s)
  BY DEF ClientInv
<1>2. /\ inbox' = inbox
      /\ \A t \in Subs \ {s} : sub'[t] = sub[t]
      /\ sub'[s] = [sub[s] EXCEPT !.done = TRUE]
      /\ sub' \in [Subs -> SubType]
      /\ call' = call
      /\ unsub' = unsub
      /\ wire' = wire
      /\ got' = got /\ disp' = disp /\ holder' = holder
  <2>1. [sub[s] EXCEPT !.done = TRUE] \in SubType
    <3>1. sub[s] \in SubType
      BY <1>1 DEF ClientTypes
    <3> QED
      BY <3>1, SubChanged
  <2>2. sub' = [sub EXCEPT ![s] = [sub[s] EXCEPT !.done = TRUE]]
    BY DEF CancelCall, CallRest
  <2>3. sub' \in [Subs -> SubType] /\ sub'[s] = [sub[s] EXCEPT !.done = TRUE] /\ \A t \in Subs \ {s} : sub'[t] = sub[t]
    BY <1>1, <2>1, <2>2 DEF ClientTypes
  <2> QED
    BY <1>1, <2>3 DEF CancelCall, CallRest, ClientTypes, CallAt, Actors
<1>3. ClientTypes'
  BY <1>1, <1>2 DEF ClientTypes
<1>4. \A t \in Subs \ {s} : Untouched(t)
  BY <1>2 DEF Untouched
<1>5. sub[s] \in SubType /\ wire[s] \in WireType /\ unsub[s] \in [Actors -> {"no", "swap", "write", "delete", "end", "stuck"}]
  BY <1>1 DEF ClientTypes
<1>6. Ended(s)'
  BY <1>1, <1>2, <1>5 DEF Ended, SubType, WireType, CancelCall, CallRest, Actors
<1>7. GroupCounts(s)'
  BY <1>1, <1>2, <1>5, CountStays DEF SubType
<1>8. Arriving(s)'
  BY <1>1, <1>2, <1>5, ArrivalStays DEF SubType, WireType, CancelCall, CallRest, Ended
<1> QED
  BY <1>2, <1>3, <1>4, <1>6, <1>7, <1>8, OneSteps

(* QuerySync returns at the EOSE. *)
LEMMA AtEoseKeeps ==
    ASSUME ClientInv, NEW s \in Subs, ReturnsAtEose(s)
    PROVE  ClientInv'
<1>1. ClientTypes /\ Ended(s) /\ GroupCounts(s) /\ Arriving(s)
  BY DEF ClientInv
<1>2. /\ inbox' = inbox
      /\ \A t \in Subs \ {s} : sub'[t] = sub[t]
      /\ sub'[s] = [sub[s] EXCEPT !.eose = "sent"]
      /\ sub' \in [Subs -> SubType]
      /\ \A t \in Subs \ {s} : call'[t] = call[t]
      /\ call'[s] = "eose"
      /\ call' \in [Subs -> CallAt]
      /\ unsub' = unsub
      /\ wire' = wire
      /\ got' = got /\ disp' = disp /\ holder' = holder
  <2>1. [sub[s] EXCEPT !.eose = "sent"] \in SubType
    <3>1. sub[s] \in SubType
      BY <1>1 DEF ClientTypes
    <3> QED
      BY <3>1, SubChanged
  <2>2. sub' = [sub EXCEPT ![s] = [sub[s] EXCEPT !.eose = "sent"]]
    BY DEF ReturnsAtEose, Returns, CallRest
  <2>3. sub' \in [Subs -> SubType] /\ sub'[s] = [sub[s] EXCEPT !.eose = "sent"] /\ \A t \in Subs \ {s} : sub'[t] = sub[t]
    BY <1>1, <2>1, <2>2 DEF ClientTypes
  <2> QED
    BY <1>1, <2>3 DEF ReturnsAtEose, Returns, CallRest, ClientTypes, CallAt, Actors
<1>3. ClientTypes'
  BY <1>1, <1>2 DEF ClientTypes
<1>4. \A t \in Subs \ {s} : Untouched(t)
  BY <1>2 DEF Untouched
<1>5. sub[s] \in SubType /\ wire[s] \in WireType /\ unsub[s] \in [Actors -> {"no", "swap", "write", "delete", "end", "stuck"}]
  BY <1>1 DEF ClientTypes
<1>6. Ended(s)'
  BY <1>1, <1>2, <1>5 DEF Ended, SubType, WireType, ReturnsAtEose, Returns, CallRest, Actors
<1>7. GroupCounts(s)'
  BY <1>1, <1>2, <1>5, CountStays DEF SubType
<1>8. Arriving(s)'
  BY <1>1, <1>2, <1>5 DEF Arriving, Incoming, SubType, ReturnsAtEose
<1> QED
  BY <1>2, <1>3, <1>4, <1>6, <1>7, <1>8, OneSteps

(* QuerySync returns at the close of its channel. *)
LEMMA AtCloseKeeps ==
    ASSUME ClientInv, NEW s \in Subs, ReturnsAtClose(s)
    PROVE  ClientInv'
<1>1. ClientTypes /\ Ended(s) /\ GroupCounts(s) /\ Arriving(s)
  BY DEF ClientInv
<1>2. /\ inbox' = inbox
      /\ sub' = sub
      /\ \A t \in Subs \ {s} : call'[t] = call[t]
      /\ call'[s] = "closed"
      /\ call' \in [Subs -> CallAt]
      /\ unsub' = unsub
      /\ wire' = wire
      /\ got' = got /\ disp' = disp /\ holder' = holder
  BY <1>1 DEF ReturnsAtClose, Returns, CallRest, ClientTypes, WireType, CallAt, Actors
<1>3. ClientTypes'
  BY <1>1, <1>2 DEF ClientTypes
<1>4. \A t \in Subs \ {s} : Untouched(t)
  BY <1>2 DEF Untouched
<1>5. sub[s] \in SubType /\ wire[s] \in WireType /\ unsub[s] \in [Actors -> {"no", "swap", "write", "delete", "end", "stuck"}]
  BY <1>1 DEF ClientTypes
<1>6. Ended(s)'
  BY <1>1, <1>2, <1>5 DEF Ended, SubType, WireType, ReturnsAtClose, Returns, CallRest, Actors
<1>7. GroupCounts(s)'
  BY <1>1, <1>2, <1>5, CountStays DEF SubType
<1>8. Arriving(s)'
  BY <1>1, <1>2, <1>5, ArrivalStays DEF SubType, WireType, ReturnsAtClose, Returns, CallRest, Ended
<1> QED
  BY <1>2, <1>3, <1>4, <1>6, <1>7, <1>8, OneSteps

(* A call returns when its time is over. *)
LEMMA AtTimeKeeps ==
    ASSUME ClientInv, NEW s \in Subs, ReturnsAtTime(s)
    PROVE  ClientInv'
<1>1. ClientTypes /\ Ended(s) /\ GroupCounts(s) /\ Arriving(s)
  BY DEF ClientInv
<1>2. /\ inbox' = inbox
      /\ sub' = sub
      /\ \A t \in Subs \ {s} : call'[t] = call[t]
      /\ call'[s] = "time"
      /\ call' \in [Subs -> CallAt]
      /\ unsub' = unsub
      /\ wire' = wire
      /\ got' = got /\ disp' = disp /\ holder' = holder
  BY <1>1 DEF ReturnsAtTime, Returns, CallRest, Timed, ClientTypes, WireType, CallAt, Actors
<1>3. ClientTypes'
  BY <1>1, <1>2 DEF ClientTypes
<1>4. \A t \in Subs \ {s} : Untouched(t)
  BY <1>2 DEF Untouched
<1>5. sub[s] \in SubType /\ wire[s] \in WireType /\ unsub[s] \in [Actors -> {"no", "swap", "write", "delete", "end", "stuck"}]
  BY <1>1 DEF ClientTypes
<1>6. Ended(s)'
  BY <1>1, <1>2, <1>5 DEF Ended, SubType, WireType, ReturnsAtTime, Returns, CallRest, Timed, Actors
<1>7. GroupCounts(s)'
  BY <1>1, <1>2, <1>5, CountStays DEF SubType
<1>8. Arriving(s)'
  BY <1>1, <1>2, <1>5, ArrivalStays DEF SubType, WireType, ReturnsAtTime, Returns, CallRest, Timed, Ended
<1> QED
  BY <1>2, <1>3, <1>4, <1>6, <1>7, <1>8, OneSteps

(* The caller ends its subscription. *)
LEMMA CallerUnsubKeeps ==
    ASSUME ClientInv, NEW s \in Subs, CallerUnsub(s)
    PROVE  ClientInv'
<1>1. ClientTypes /\ Ended(s) /\ GroupCounts(s) /\ Arriving(s)
  BY DEF ClientInv
<1>2. /\ inbox' = inbox
      /\ \A t \in Subs \ {s} : sub'[t] = sub[t]
      /\ sub'[s] = [sub[s] EXCEPT !.done = TRUE]
      /\ sub' \in [Subs -> SubType]
      /\ call' = call
      /\ \A t \in Subs \ {s} : unsub'[t] = unsub[t]
      /\ unsub'[s] = [unsub[s] EXCEPT !["caller"] = "swap"]
      /\ unsub' \in [Subs -> [Actors -> {"no", "swap", "write", "delete", "end", "stuck"}]]
      /\ wire' = wire
      /\ got' = got /\ disp' = disp /\ holder' = holder
  <2>1. [sub[s] EXCEPT !.done = TRUE] \in SubType
    <3>1. sub[s] \in SubType
      BY <1>1 DEF ClientTypes
    <3> QED
      BY <3>1, SubChanged
  <2>2. sub' = [sub EXCEPT ![s] = [sub[s] EXCEPT !.done = TRUE]]
    BY DEF CallerUnsub, CancelContext, SubRest
  <2>3. sub' \in [Subs -> SubType] /\ sub'[s] = [sub[s] EXCEPT !.done = TRUE] /\ \A t \in Subs \ {s} : sub'[t] = sub[t]
    BY <1>1, <2>1, <2>2 DEF ClientTypes
  <2> QED
    BY <1>1, <2>3 DEF CallerUnsub, CancelContext, SubRest, ClientTypes, CallAt, Actors
<1>3. ClientTypes'
  BY <1>1, <1>2 DEF ClientTypes
<1>4. \A t \in Subs \ {s} : Untouched(t)
  BY <1>2 DEF Untouched
<1>5. sub[s] \in SubType /\ wire[s] \in WireType /\ unsub[s] \in [Actors -> {"no", "swap", "write", "delete", "end", "stuck"}]
  BY <1>1 DEF ClientTypes
<1>6. Ended(s)'
  BY <1>1, <1>2, <1>5 DEF Ended, SubType, WireType, CallerUnsub, CancelContext, SubRest, Actors
<1>7. GroupCounts(s)'
  BY <1>1, <1>2, <1>5, CountStays DEF SubType
<1>8. Arriving(s)'
  BY <1>1, <1>2, <1>5, ArrivalStays DEF SubType, WireType, CallerUnsub, CancelContext, SubRest, Ended
<1> QED
  BY <1>2, <1>3, <1>4, <1>6, <1>7, <1>8, OneSteps

(* Start ends the subscription. *)
LEMMA StartUnsubKeeps ==
    ASSUME ClientInv, NEW s \in Subs, StartUnsub(s)
    PROVE  ClientInv'
<1>1. ClientTypes /\ Ended(s) /\ GroupCounts(s) /\ Arriving(s)
  BY DEF ClientInv
<1>2. /\ inbox' = inbox
      /\ \A t \in Subs \ {s} : sub'[t] = sub[t]
      /\ sub'[s] = [sub[s] EXCEPT !.done = TRUE]
      /\ sub' \in [Subs -> SubType]
      /\ call' = call
      /\ \A t \in Subs \ {s} : unsub'[t] = unsub[t]
      /\ unsub'[s] = [unsub[s] EXCEPT !["start"] = "swap"]
      /\ unsub' \in [Subs -> [Actors -> {"no", "swap", "write", "delete", "end", "stuck"}]]
      /\ wire' = wire
      /\ got' = got /\ disp' = disp /\ holder' = holder
  <2>1. [sub[s] EXCEPT !.done = TRUE] \in SubType
    <3>1. sub[s] \in SubType
      BY <1>1 DEF ClientTypes
    <3> QED
      BY <3>1, SubChanged
  <2>2. sub' = [sub EXCEPT ![s] = [sub[s] EXCEPT !.done = TRUE]]
    BY DEF StartUnsub, CancelContext, SubRest
  <2>3. sub' \in [Subs -> SubType] /\ sub'[s] = [sub[s] EXCEPT !.done = TRUE] /\ \A t \in Subs \ {s} : sub'[t] = sub[t]
    BY <1>1, <2>1, <2>2 DEF ClientTypes
  <2> QED
    BY <1>1, <2>3 DEF StartUnsub, CancelContext, SubRest, ClientTypes, CallAt, Actors
<1>3. ClientTypes'
  BY <1>1, <1>2 DEF ClientTypes
<1>4. \A t \in Subs \ {s} : Untouched(t)
  BY <1>2 DEF Untouched
<1>5. sub[s] \in SubType /\ wire[s] \in WireType /\ unsub[s] \in [Actors -> {"no", "swap", "write", "delete", "end", "stuck"}]
  BY <1>1 DEF ClientTypes
<1>6. Ended(s)'
  BY <1>1, <1>2, <1>5 DEF Ended, SubType, WireType, StartUnsub, CancelContext, SubRest, Actors
<1>7. GroupCounts(s)'
  BY <1>1, <1>2, <1>5, CountStays DEF SubType
<1>8. Arriving(s)'
  BY <1>1, <1>2, <1>5, ArrivalStays DEF SubType, WireType, StartUnsub, CancelContext, SubRest, Ended
<1> QED
  BY <1>2, <1>3, <1>4, <1>6, <1>7, <1>8, OneSteps

(* One actor swaps live, and has the CLOSE to write if it was. *)
LEMMA SwapLiveKeeps ==
    ASSUME ClientInv, NEW s \in Subs, NEW a \in Actors, SwapLive(s, a)
    PROVE  ClientInv'
<1>1. ClientTypes /\ Ended(s) /\ GroupCounts(s) /\ Arriving(s)
  BY DEF ClientInv
<1>2. /\ inbox' = inbox
      /\ \A t \in Subs \ {s} : sub'[t] = sub[t]
      /\ sub'[s] = [sub[s] EXCEPT !.live = FALSE]
      /\ sub' \in [Subs -> SubType]
      /\ call' = call
      /\ \A t \in Subs \ {s} : unsub'[t] = unsub[t]
      /\ unsub'[s] = [unsub[s] EXCEPT ![a] = (IF sub[s].live /\ conn = "up" THEN "write" ELSE "delete")]
      /\ unsub' \in [Subs -> [Actors -> {"no", "swap", "write", "delete", "end", "stuck"}]]
      /\ wire' = wire
      /\ got' = got /\ disp' = disp /\ holder' = holder
  <2>1. [sub[s] EXCEPT !.live = FALSE] \in SubType
    <3>1. sub[s] \in SubType
      BY <1>1 DEF ClientTypes
    <3> QED
      BY <3>1, SubChanged
  <2>2. sub' = [sub EXCEPT ![s] = [sub[s] EXCEPT !.live = FALSE]]
    BY DEF SwapLive, WasLive, SubRest
  <2>3. sub' \in [Subs -> SubType] /\ sub'[s] = [sub[s] EXCEPT !.live = FALSE] /\ \A t \in Subs \ {s} : sub'[t] = sub[t]
    BY <1>1, <2>1, <2>2 DEF ClientTypes
  <2> QED
    BY <1>1, <2>3 DEF SwapLive, WasLive, SubRest, ClientTypes, CallAt, Actors
<1>3. ClientTypes'
  BY <1>1, <1>2 DEF ClientTypes
<1>4. \A t \in Subs \ {s} : Untouched(t)
  BY <1>2 DEF Untouched
<1>5. sub[s] \in SubType /\ wire[s] \in WireType /\ unsub[s] \in [Actors -> {"no", "swap", "write", "delete", "end", "stuck"}]
  BY <1>1 DEF ClientTypes
<1>6. Ended(s)'
  BY <1>1, <1>2, <1>5 DEF Ended, SubType, WireType, SwapLive, WasLive, SubRest, Actors
<1>7. GroupCounts(s)'
  BY <1>1, <1>2, <1>5, CountStays DEF SubType
<1>8. Arriving(s)'
  BY <1>1, <1>2, <1>5, ArrivalStays DEF SubType, WireType, SwapLive, WasLive, SubRest, Ended
<1> QED
  BY <1>2, <1>3, <1>4, <1>6, <1>7, <1>8, OneSteps

(* An actor takes the subscription out of the map. *)
LEMMA DeleteSubKeeps ==
    ASSUME ClientInv, NEW s \in Subs, NEW a \in Actors, DeleteSub(s, a)
    PROVE  ClientInv'
<1>1. ClientTypes /\ Ended(s) /\ GroupCounts(s) /\ Arriving(s)
  BY DEF ClientInv
<1>2. /\ inbox' = inbox
      /\ \A t \in Subs \ {s} : sub'[t] = sub[t]
      /\ sub'[s] = [sub[s] EXCEPT !.registered = FALSE]
      /\ sub' \in [Subs -> SubType]
      /\ \A t \in Subs \ {s} : call'[t] = call[t]
      /\ call'[s] = (IF a = "caller" THEN "over" ELSE call[s])
      /\ call' \in [Subs -> CallAt]
      /\ \A t \in Subs \ {s} : unsub'[t] = unsub[t]
      /\ unsub'[s] = [unsub[s] EXCEPT ![a] = "end"]
      /\ unsub' \in [Subs -> [Actors -> {"no", "swap", "write", "delete", "end", "stuck"}]]
      /\ wire' = wire
      /\ got' = got /\ disp' = disp /\ holder' = holder
  <2>1. [sub[s] EXCEPT !.registered = FALSE] \in SubType
    <3>1. sub[s] \in SubType
      BY <1>1 DEF ClientTypes
    <3> QED
      BY <3>1, SubChanged
  <2>2. sub' = [sub EXCEPT ![s] = [sub[s] EXCEPT !.registered = FALSE]]
    BY DEF DeleteSub, SubRest
  <2>3. sub' \in [Subs -> SubType] /\ sub'[s] = [sub[s] EXCEPT !.registered = FALSE] /\ \A t \in Subs \ {s} : sub'[t] = sub[t]
    BY <1>1, <2>1, <2>2 DEF ClientTypes
  <2> QED
    BY <1>1, <2>3 DEF DeleteSub, SubRest, ClientTypes, CallAt, Actors
<1>3. ClientTypes'
  BY <1>1, <1>2 DEF ClientTypes
<1>4. \A t \in Subs \ {s} : Untouched(t)
  BY <1>2 DEF Untouched
<1>5. sub[s] \in SubType /\ wire[s] \in WireType /\ unsub[s] \in [Actors -> {"no", "swap", "write", "delete", "end", "stuck"}]
  BY <1>1 DEF ClientTypes
<1>6. Ended(s)'
  BY <1>1, <1>2, <1>5 DEF Ended, SubType, WireType, DeleteSub, SubRest, Actors
<1>7. GroupCounts(s)'
  BY <1>1, <1>2, <1>5, CountStays DEF SubType
<1>8. Arriving(s)'
  BY <1>1, <1>2, <1>5, ArrivalStays DEF SubType, WireType, DeleteSub, SubRest, Ended
<1> QED
  BY <1>2, <1>3, <1>4, <1>6, <1>7, <1>8, OneSteps

(* Start closes the channel of events with the mutex free. *)
LEMMA CloseEventsKeeps ==
    ASSUME ClientInv, NEW s \in Subs, CloseEvents(s)
    PROVE  ClientInv'
<1>1. ClientTypes /\ Ended(s) /\ GroupCounts(s) /\ Arriving(s)
  BY DEF ClientInv
<1>2. /\ inbox' = inbox
      /\ \A t \in Subs \ {s} : sub'[t] = sub[t]
      /\ sub'[s] = [sub[s] EXCEPT !.closed = TRUE]
      /\ sub' \in [Subs -> SubType]
      /\ call' = call
      /\ unsub' = unsub
      /\ wire' = wire
      /\ got' = got /\ disp' = disp /\ holder' = holder
  <2>1. [sub[s] EXCEPT !.closed = TRUE] \in SubType
    <3>1. sub[s] \in SubType
      BY <1>1 DEF ClientTypes
    <3> QED
      BY <3>1, SubChanged
  <2>2. sub' = [sub EXCEPT ![s] = [sub[s] EXCEPT !.closed = TRUE]]
    BY DEF CloseEvents, Free, SubRest
  <2>3. sub' \in [Subs -> SubType] /\ sub'[s] = [sub[s] EXCEPT !.closed = TRUE] /\ \A t \in Subs \ {s} : sub'[t] = sub[t]
    BY <1>1, <2>1, <2>2 DEF ClientTypes
  <2> QED
    BY <1>1, <2>3 DEF CloseEvents, Free, SubRest, ClientTypes, CallAt, Actors
<1>3. ClientTypes'
  BY <1>1, <1>2 DEF ClientTypes
<1>4. \A t \in Subs \ {s} : Untouched(t)
  BY <1>2 DEF Untouched
<1>5. sub[s] \in SubType /\ wire[s] \in WireType /\ unsub[s] \in [Actors -> {"no", "swap", "write", "delete", "end", "stuck"}]
  BY <1>1 DEF ClientTypes
<1>6. Ended(s)'
  BY <1>1, <1>2, <1>5 DEF Ended, SubType, WireType, CloseEvents, Free, SubRest, Actors
<1>7. GroupCounts(s)'
  BY <1>1, <1>2, <1>5, CountStays DEF SubType
<1>8. Arriving(s)'
  BY <1>1, <1>2, <1>5, ArrivalStays DEF SubType, WireType, CloseEvents, Free, SubRest, Ended
<1> QED
  BY <1>2, <1>3, <1>4, <1>6, <1>7, <1>8, OneSteps

(* A write that fails cancels, and one on a lost connection never returns. *)
LEMMA FireFailsKeeps ==
    ASSUME ClientInv, NEW s \in Subs, FireFails(s)
    PROVE  ClientInv'
<1>1. ClientTypes /\ Ended(s) /\ GroupCounts(s) /\ Arriving(s)
  BY DEF ClientInv
<1>2. /\ inbox' = inbox /\ got' = got /\ disp' = disp /\ holder' = holder
      /\ unsub' = unsub /\ wire' = wire
      /\ call' = [call EXCEPT ![s] = IF conn = "up" THEN "over" ELSE "stuck"]
      /\ sub' = IF conn = "up" THEN [sub EXCEPT ![s].done = TRUE] ELSE sub
  BY DEF FireFails, CallRest
<1>3. sub[s] \in SubType /\ [sub[s] EXCEPT !.done = TRUE] \in SubType
  <2>1. sub[s] \in SubType
    BY <1>1 DEF ClientTypes
  <2> QED
    BY <2>1, SubChanged
<1>4. /\ sub' \in [Subs -> SubType]
      /\ sub'[s] = [sub[s] EXCEPT !.done = TRUE] \/ (sub'[s] = sub[s] /\ conn # "up")
      /\ \A t \in Subs \ {s} : sub'[t] = sub[t]
  <2>1. sub \in [Subs -> SubType]
    BY <1>1 DEF ClientTypes
  <2>2. CASE conn = "up"
    <3>1. sub' = [sub EXCEPT ![s] = [sub[s] EXCEPT !.done = TRUE]]
      BY <1>2, <2>2
    <3>2. sub' \in [Subs -> SubType] /\ sub'[s] = [sub[s] EXCEPT !.done = TRUE]
      BY <3>1, <2>1, <1>3, Zenon
    <3>3. \A t \in Subs \ {s} : sub'[t] = sub[t]
      BY <3>1, <2>1
    <3> QED
      BY <3>2, <3>3, Zenon
  <2>3. CASE conn # "up"
    BY <1>2, <2>1, <2>3
  <2> QED
    BY <2>2, <2>3
<1>5. /\ call' \in [Subs -> CallAt] /\ call'[s] \in {"over", "stuck"}
      /\ \A t \in Subs \ {s} : call'[t] = call[t]
  BY <1>1, <1>2 DEF ClientTypes, CallAt
<1>6. ClientTypes'
  BY <1>1, <1>2, <1>4, <1>5 DEF ClientTypes
<1>7. \A t \in Subs \ {s} : Untouched(t)
  BY <1>2, <1>4, <1>5 DEF Untouched
<1>8. Ended(s)'
  BY <1>1, <1>2, <1>3, <1>4, <1>5 DEF Ended, SubType, FireFails, Actors
<1>9. GroupCounts(s)'
  BY <1>1, <1>2, <1>3, <1>4, CountStays DEF SubType
<1>10. Arriving(s)'
  BY <1>1, <1>2, <1>3, <1>4, <1>5, ArrivalStays DEF SubType
<1> QED
  BY <1>2, <1>6, <1>7, <1>8, <1>9, <1>10, OneSteps

(* Who swapped live writes the CLOSE. *)
LEMMA WriteCloseKeeps ==
    ASSUME ClientInv, NEW s \in Subs, NEW a \in Actors, WriteClose(s, a)
    PROVE  ClientInv'
<1>1. ClientTypes /\ Ended(s) /\ GroupCounts(s) /\ Arriving(s)
  BY DEF ClientInv
<1>2. /\ inbox' = inbox /\ got' = got /\ disp' = disp /\ holder' = holder
      /\ call' = call /\ sub' = sub /\ unsub[s][a] = "write"
  BY DEF WriteClose
<1>3. /\ unsub[s] \in [Actors -> {"no", "swap", "write", "delete", "end", "stuck"}]
      /\ sub[s] \in SubType /\ wire[s] \in WireType
  BY <1>1 DEF ClientTypes
<1>4. /\ unsub' \in [Subs -> [Actors -> {"no", "swap", "write", "delete", "end", "stuck"}]]
      /\ \A t \in Subs \ {s} : unsub'[t] = unsub[t]
      /\ \A b \in Actors \ {a} : unsub'[s][b] = unsub[s][b]
      /\ unsub'[s][a] \in {"delete", "stuck"}
  <2>1. PICK v \in {"delete", "stuck"} : unsub' = [unsub EXCEPT ![s][a] = v]
    BY DEF WriteClose
  <2> QED
    BY <1>1, <2>1 DEF ClientTypes
<1>5. /\ wire' \in [Subs -> WireType]
      /\ \A t \in Subs \ {s} : wire'[t] = wire[t]
      /\ wire'[s] = wire[s] \/ wire'[s] = [wire[s] EXCEPT !.asked = FALSE, !.closes = 1]
  <2>1. wire[s].closes = 0
    BY <1>1, <1>2 DEF Ended
  <2>2. CASE conn = "up"
    <3>1. wire' = [wire EXCEPT ![s] = [wire[s] EXCEPT !.asked = FALSE, !.closes = @ + 1]]
      BY <2>2 DEF WriteClose
    <3>2. [wire[s] EXCEPT !.asked = FALSE, !.closes = @ + 1] =
              [wire[s] EXCEPT !.asked = FALSE, !.closes = 1]
      BY <2>1, <1>3 DEF WireType
    <3>3. [wire[s] EXCEPT !.asked = FALSE, !.closes = 1] \in WireType
      BY <1>3 DEF WireType
    <3> QED
      BY <3>1, <3>2, <3>3, <1>1 DEF ClientTypes
  <2>3. CASE conn # "up"
    BY <1>1, <2>3 DEF WriteClose, ClientTypes
  <2> QED
    BY <2>2, <2>3
<1>6. ClientTypes'
  BY <1>1, <1>2, <1>4, <1>5 DEF ClientTypes
<1>7. \A t \in Subs \ {s} : Untouched(t)
  BY <1>2, <1>4, <1>5 DEF Untouched
<1>8. Ended(s)'
  <2>1. \A b \in Actors : unsub'[s][b] # "write"
    BY <1>1, <1>2, <1>4 DEF Ended
  <2>2. unsub'[s]["start"] = "end" <=> unsub[s]["start"] = "end"
    BY <1>2, <1>4 DEF Actors
  <2>3. unsub'[s]["start"] \notin {"no", "swap"} => unsub[s]["start"] \notin {"no", "swap"}
    BY <1>2, <1>4 DEF Actors
  <2>4. \A b \in Actors : unsub'[s][b] # "no" => unsub[s][b] # "no"
    BY <1>2, <1>4
  <2>5. ~sub[s].live /\ call[s] \notin {"idle", "prepared"}
    BY <1>1, <1>2 DEF Ended
  <2>6. wire'[s].closes <= 1
    <3>1. wire[s].closes <= 1
      BY <1>1 DEF Ended
    <3>2. CASE wire'[s] = wire[s]
      BY <3>1, <3>2
    <3>3. CASE wire'[s] = [wire[s] EXCEPT !.asked = FALSE, !.closes = 1]
      BY <3>3, <1>3 DEF WireType
    <3> QED
      BY <3>2, <3>3, <1>5
  <2> QED
    BY <1>1, <1>2, <2>1, <2>2, <2>3, <2>4, <2>5, <2>6 DEF Ended
<1>9. GroupCounts(s)'
  BY <1>1, <1>2, CountStays
<1>10. Arriving(s)'
  BY <1>1, <1>2, <1>3, <1>5, ArrivalStays DEF WireType
<1> QED
  BY <1>2, <1>6, <1>7, <1>8, <1>9, <1>10, OneSteps

(* One goroutine less waits for the mutex. *)
LEMMA OneRemoved ==
    ASSUME NEW D \in SUBSET DispType, IsFiniteSet(D), NEW d \in D
    PROVE  /\ IsFiniteSet(D \ {d})
           /\ Cardinality(Adds(D \ {d})) = Cardinality(Adds(D)) - d.added
           /\ Cardinality(Adds(D)) \in Nat
<1>1. IsFiniteSet(D \ {d}) /\ IsFiniteSet(Adds(D))
  BY FS_Subset DEF Adds
<1>2. Cardinality(Adds(D)) \in Nat
  BY <1>1, FS_CardinalityType
<1>3. CASE d.added = 1
  <2>1. Adds(D \ {d}) = Adds(D) \ {d} /\ d \in Adds(D)
    BY <1>3 DEF Adds
  <2> QED
    BY <1>1, <1>2, <1>3, <2>1, FS_RemoveElement
<1>4. CASE d.added = 0
  <2>1. Adds(D \ {d}) = Adds(D)
    BY <1>4 DEF Adds
  <2> QED
    BY <1>1, <1>2, <1>4, <2>1
<1> QED
  BY <1>1, <1>2, <1>3, <1>4 DEF DispType

(* One more goroutine waits for the mutex. *)
LEMMA OneMore ==
    ASSUME NEW D \in SUBSET DispType, IsFiniteSet(D), NEW d \in DispType
    PROVE  /\ IsFiniteSet(D \cup {d})
           /\ Cardinality(Adds(D \cup {d})) <= Cardinality(Adds(D)) + d.added
           /\ Cardinality(Adds(D)) \in Nat /\ Cardinality(Adds(D \cup {d})) \in Nat
<1>1. IsFiniteSet(D \cup {d}) /\ IsFiniteSet(Adds(D))
  BY FS_Subset, FS_AddElement DEF Adds
<1>2. Cardinality(Adds(D)) \in Nat
  BY <1>1, FS_CardinalityType
<1>3. CASE d.added = 1
  <2>1. Adds(D \cup {d}) = Adds(D) \cup {d}
    BY <1>3 DEF Adds
  <2>2. \/ Cardinality(Adds(D) \cup {d}) = Cardinality(Adds(D))
        \/ Cardinality(Adds(D) \cup {d}) = Cardinality(Adds(D)) + 1
    BY <1>1, FS_AddElement
  <2> QED
    BY <1>1, <1>2, <1>3, <2>1, <2>2
<1>4. CASE d.added = 0
  <2>1. Adds(D \cup {d}) = Adds(D)
    BY <1>4 DEF Adds
  <2> QED
    BY <1>1, <1>2, <1>4, <2>1
<1> QED
  BY <1>1, <1>2, <1>3, <1>4 DEF DispType


(* The goroutines that wait for the WaitGroup, the mutex or a receiver. *)
LEMMA EoseWaitedKeeps ==
    ASSUME ClientInv, NEW s \in Subs, EoseWaited(s)
    PROVE  ClientInv'
<1>1. ClientTypes /\ Ended(s) /\ GroupCounts(s) /\ Arriving(s)
  BY DEF ClientInv
<1>2. /\ inbox' = inbox /\ got' = got /\ disp' = disp /\ holder' = holder
      /\ unsub' = unsub /\ wire' = wire /\ call' = call
      /\ sub' = [sub EXCEPT ![s] = [sub[s] EXCEPT !.eose = "send"]]
      /\ sub[s].eose = "wait" /\ sub[s].wg = 0
  BY DEF EoseWaited, SubRest
<1>3. sub[s] \in SubType /\ [sub[s] EXCEPT !.eose = "send"] \in SubType
  <2>1. sub[s] \in SubType
    BY <1>1 DEF ClientTypes
  <2> QED
    BY <2>1, SubChanged
<1>4. /\ sub' \in [Subs -> SubType] /\ sub'[s] = [sub[s] EXCEPT !.eose = "send"]
      /\ \A t \in Subs \ {s} : sub'[t] = sub[t]
  BY <1>1, <1>2, <1>3 DEF ClientTypes
<1>5. ClientTypes'
  BY <1>1, <1>2, <1>4 DEF ClientTypes
<1>6. \A t \in Subs \ {s} : Untouched(t)
  BY <1>2, <1>4 DEF Untouched
<1>7. Ended(s)'
  BY <1>1, <1>2, <1>3, <1>4 DEF Ended, SubType
<1>8. GroupCounts(s)'
  BY <1>1, <1>2, <1>3, <1>4, CountStays DEF SubType
<1>9. Arriving(s)'
  <2>1. Cardinality(Adds(disp[s])) \in Nat /\ Holds(holder[s]) \in {0, 1}
    <3>1. IsFiniteSet(Adds(disp[s]))
      BY <1>1, FS_Subset DEF GroupCounts, Adds
    <3> QED
      BY <3>1, FS_CardinalityType DEF Holds
  <2>2. Cardinality(Adds(disp[s])) = 0 /\ Holds(holder[s]) = 0
    BY <2>1, <1>1, <1>2 DEF GroupCounts
  <2>3. Adds(disp[s]) = {}
    <3>1. IsFiniteSet(Adds(disp[s]))
      BY <1>1, FS_Subset DEF GroupCounts, Adds
    <3> QED
      BY <3>1, <2>2, FS_EmptySet
  <2>4. \A e \in Events : Dispatched(e) \notin disp[s]
    BY <2>3 DEF Adds, Dispatched
  <2>5. \A e \in Events : holder[s] # Dispatched(e)
    <3>1. \A e \in Events : Dispatched(e) # NoOne
      BY ClientAssumption DEF Dispatched
    <3> QED
      BY <3>1, <2>2 DEF Holds, Dispatched
  <2>6. sub[s].eosed /\ sub'[s].eosed /\ sub'[s].eose = "send" /\ sub'[s].done = sub[s].done
    BY <1>1, <1>2, <1>3, <1>4 DEF Arriving, SubType
  <2>7. wire[s].stored \subseteq Events
    BY <1>1 DEF ClientTypes, WireType
  <2>8. ~sub[s].done => wire[s].stored \subseteq got[s]
    BY <1>1, <2>4, <2>5, <2>6, <2>7 DEF Arriving
  <2>9. call[s] # "eose"
    BY <1>1, <1>2 DEF Arriving
  <2> QED
    BY <1>1, <1>2, <2>6, <2>8, <2>9 DEF Arriving
<1> QED
  BY <1>2, <1>5, <1>6, <1>7, <1>8, <1>9, OneSteps

(* What is held is got, or given up when the subscription is over. *)
LEMMA DeliveredKeeps ==
    ASSUME ClientInv, NEW s \in Subs, Deliver(s) \/ GiveUp(s)
    PROVE  ClientInv'
<1>1. ClientTypes /\ Ended(s) /\ GroupCounts(s) /\ Arriving(s)
  BY DEF ClientInv
<1> DEFINE d == holder[s]
<1>2. /\ inbox' = inbox /\ disp' = disp /\ unsub' = unsub /\ wire' = wire /\ call' = call
      /\ sub' = [sub EXCEPT ![s] = [sub[s] EXCEPT !.wg = sub[s].wg - d.added]]
      /\ holder' = [holder EXCEPT ![s] = NoOne]
      /\ holder[s] # NoOne
  BY DEF Deliver, GiveUp, Finish, SubRest
<1>3. d \in DispType /\ d.added \in {0, 1} /\ d.event \in Events
  BY <1>1, <1>2 DEF ClientTypes, DispType
<1>4. sub[s] \in SubType /\ sub[s].wg \in Int
  BY <1>1 DEF ClientTypes, SubType
<1>5. [sub[s] EXCEPT !.wg = sub[s].wg - d.added] \in SubType
  <2>1. sub[s].wg - d.added \in Int
    BY <1>3, <1>4
  <2> QED
    BY <1>4, <2>1, SubChanged
<1>6. /\ sub' \in [Subs -> SubType]
      /\ sub'[s] = [sub[s] EXCEPT !.wg = sub[s].wg - d.added]
      /\ \A t \in Subs \ {s} : sub'[t] = sub[t]
  BY <1>1, <1>2, <1>5 DEF ClientTypes
<1>7. /\ holder' \in [Subs -> DispType \cup {NoOne}] /\ holder'[s] = NoOne
      /\ \A t \in Subs \ {s} : holder'[t] = holder[t]
  BY <1>1, <1>2 DEF ClientTypes
<1>8. /\ got' \in [Subs -> SUBSET Events] /\ got[s] \subseteq got'[s]
      /\ sub[s].done \/ d.event \in got'[s]
      /\ \A t \in Subs \ {s} : got'[t] = got[t]
  <2>1. CASE Deliver(s)
    BY <2>1, <1>1, <1>3 DEF Deliver, ClientTypes
  <2>2. CASE GiveUp(s)
    BY <2>2, <1>1 DEF GiveUp, ClientTypes
  <2> QED
    BY <2>1, <2>2
<1>9. ClientTypes'
  BY <1>1, <1>2, <1>6, <1>7, <1>8 DEF ClientTypes
<1>10. \A t \in Subs \ {s} : Untouched(t)
  BY <1>2, <1>6, <1>7, <1>8 DEF Untouched
<1>11. Ended(s)'
  BY <1>1, <1>2, <1>4, <1>6, <1>7 DEF Ended, SubType
<1>12. GroupCounts(s)'
  <2>1. Holds(holder[s]) = d.added /\ Holds(holder'[s]) = 0
    BY <1>2, <1>3, <1>7 DEF Holds
  <2>2. sub'[s].wg = sub[s].wg - d.added
    BY <1>4, <1>6 DEF SubType
  <2>3. Cardinality(Adds(disp[s])) \in Nat
    BY <1>1, FS_Subset, FS_CardinalityType DEF GroupCounts, Adds
  <2>4. IsFiniteSet(disp'[s]) /\ Cardinality(Adds(disp'[s])) = Cardinality(Adds(disp[s]))
    BY <1>1, <1>2 DEF GroupCounts
  <2>5. Cardinality(Adds(disp[s])) + Holds(holder[s]) <= sub[s].wg
    BY <1>1 DEF GroupCounts
  <2>6. Cardinality(Adds(disp'[s])) + Holds(holder'[s]) <= sub'[s].wg
    BY <2>1, <2>2, <2>3, <2>4, <2>5, <1>3, <1>4
  <2> QED
    BY <2>4, <2>6 DEF GroupCounts
<1>13. Arriving(s)'
  <2>1. \A e : Incoming(s, e)' <=> Incoming(s, e)
    BY <1>2 DEF Incoming
  <2>2. /\ sub'[s].eosed = sub[s].eosed /\ sub'[s].eose = sub[s].eose
        /\ sub'[s].done = sub[s].done
    BY <1>4, <1>6 DEF SubType
  <2>3. \A e \in Events : holder[s] = Dispatched(e) => e = d.event
    BY <1>3 DEF Dispatched
  <2>4. wire[s].stored \subseteq Events
    BY <1>1 DEF ClientTypes, WireType
  <2>5. ~sub[s].done => \A e \in wire[s].stored :
          \/ e \in got'[s] \/ Dispatched(e) \in disp[s]
          \/ ~sub[s].eosed /\ Incoming(s, e)
    BY <1>1, <1>8, <2>3, <2>4 DEF Arriving
  <2>6. ~sub[s].done /\ sub[s].eose \in {"send", "sent"} => wire[s].stored \subseteq got'[s]
    BY <1>1, <1>8 DEF Arriving
  <2> QED
    BY <1>1, <1>2, <2>1, <2>2, <2>5, <2>6 DEF Arriving
<1> QED
  BY <1>2, <1>9, <1>10, <1>11, <1>12, <1>13, OneSteps


(* A dispatched event gets the mutex, or finds the subscription not live. *)
LEMMA DispatchLockKeeps ==
    ASSUME ClientInv, NEW s \in Subs, DispatchLock(s)
    PROVE  ClientInv'
<1>1. ClientTypes /\ Ended(s) /\ GroupCounts(s) /\ Arriving(s)
  BY DEF ClientInv
<1>2. PICK d \in disp[s] :
          /\ disp' = [disp EXCEPT ![s] = @ \ {d}]
          /\ IF sub[s].live
             THEN holder' = [holder EXCEPT ![s] = d] /\ UNCHANGED sub
             ELSE Finish(s, d) /\ UNCHANGED holder
  BY DEF DispatchLock
<1>3. /\ inbox' = inbox /\ got' = got /\ unsub' = unsub /\ wire' = wire /\ call' = call
      /\ holder[s] = NoOne
  BY DEF DispatchLock, SubRest
<1>4. disp[s] \subseteq DispType /\ d \in DispType /\ d.added \in {0, 1} /\ d # NoOne
  <2>1. disp[s] \subseteq DispType /\ d \in DispType
    BY <1>1, <1>2 DEF ClientTypes
  <2> QED
    BY <2>1, ClientAssumption DEF DispType
<1>5. sub[s] \in SubType /\ sub[s].wg \in Int
  BY <1>1 DEF ClientTypes, SubType
<1>6. /\ disp' \in [Subs -> SUBSET DispType] /\ disp'[s] = disp[s] \ {d}
      /\ \A t \in Subs \ {s} : disp'[t] = disp[t]
  <2>1. disp[s] \ {d} \in SUBSET DispType
    BY <1>4
  <2> QED
    BY <1>1, <1>2, <2>1 DEF ClientTypes
<1>7. /\ IsFiniteSet(disp'[s]) /\ Cardinality(Adds(disp[s])) \in Nat
      /\ Cardinality(Adds(disp'[s])) = Cardinality(Adds(disp[s])) - d.added
  <2>1. IsFiniteSet(disp[s])
    BY <1>1 DEF GroupCounts
  <2> QED
    BY <2>1, <1>2, <1>4, <1>6, OneRemoved
<1>8. CASE sub[s].live
  <2>1. /\ sub' = sub /\ holder' = [holder EXCEPT ![s] = d]
    BY <1>2, <1>8
  <2>2. /\ holder' \in [Subs -> DispType \cup {NoOne}] /\ holder'[s] = d
        /\ \A t \in Subs \ {s} : holder'[t] = holder[t]
    BY <2>1, <1>1, <1>4 DEF ClientTypes
  <2>3. ClientTypes'
    BY <1>1, <1>3, <1>6, <2>1, <2>2 DEF ClientTypes
  <2>4. \A t \in Subs \ {s} : Untouched(t)
    BY <1>3, <1>6, <2>1, <2>2 DEF Untouched
  <2>5. Ended(s)'
    BY <1>1, <1>3, <1>8, <2>1, <2>2 DEF Ended
  <2>6. GroupCounts(s)'
    <3>1. IsFiniteSet(disp'[s]) /\ Cardinality(Adds(disp[s])) \in Nat
          /\ Cardinality(Adds(disp'[s])) = Cardinality(Adds(disp[s])) - d.added
      BY <1>7
    <3>2. Holds(holder'[s]) = d.added /\ Holds(holder[s]) = 0
      BY <1>3, <1>4, <2>2 DEF Holds
    <3>3. Cardinality(Adds(disp[s])) + Holds(holder[s]) <= sub[s].wg
      BY <1>1 DEF GroupCounts
    <3>4. Cardinality(Adds(disp'[s])) + Holds(holder'[s]) <= sub'[s].wg
      BY <3>1, <3>2, <3>3, <1>4, <1>5, <2>1
    <3> QED
      BY <3>1, <3>4 DEF GroupCounts
  <2>7. Arriving(s)'
    <3>1. \A e : Incoming(s, e)' <=> Incoming(s, e)
      BY <1>3 DEF Incoming
    <3>2. \A e \in Events : Dispatched(e) \in disp[s] =>
             Dispatched(e) \in disp'[s] \/ holder'[s] = Dispatched(e)
      BY <1>6, <2>2
    <3>3. \A e \in Events : holder[s] # Dispatched(e)
      <4>1. \A e \in Events : Dispatched(e) # NoOne
        BY ClientAssumption DEF Dispatched
      <4> QED
        BY <4>1, <1>3
    <3>4. wire[s].stored \subseteq Events
      BY <1>1 DEF ClientTypes, WireType
    <3>5. ~sub[s].done => \A e \in wire[s].stored :
            \/ e \in got[s] \/ Dispatched(e) \in disp'[s] \/ holder'[s] = Dispatched(e)
            \/ ~sub[s].eosed /\ Incoming(s, e)
      BY <1>1, <3>2, <3>3, <3>4 DEF Arriving
    <3> QED
      BY <1>1, <1>3, <2>1, <3>1, <3>5 DEF Arriving
  <2> QED
    BY <1>3, <2>3, <2>4, <2>5, <2>6, <2>7, OneSteps
<1>9. CASE ~sub[s].live
  <2>1. /\ holder' = holder
        /\ sub' = [sub EXCEPT ![s] = [sub[s] EXCEPT !.wg = sub[s].wg - d.added]]
    BY <1>2, <1>9 DEF Finish
  <2>2. [sub[s] EXCEPT !.wg = sub[s].wg - d.added] \in SubType
    <3>1. sub[s].wg - d.added \in Int
      BY <1>4, <1>5
    <3> QED
      BY <3>1, <1>5, SubChanged
  <2>3. /\ sub' \in [Subs -> SubType]
        /\ sub'[s] = [sub[s] EXCEPT !.wg = sub[s].wg - d.added]
        /\ \A t \in Subs \ {s} : sub'[t] = sub[t]
    BY <1>1, <2>1, <2>2 DEF ClientTypes
  <2>4. ClientTypes'
    BY <1>1, <1>3, <1>6, <2>1, <2>3 DEF ClientTypes
  <2>5. \A t \in Subs \ {s} : Untouched(t)
    BY <1>3, <1>6, <2>1, <2>3 DEF Untouched
  <2>6. Ended(s)'
    BY <1>1, <1>3, <1>5, <2>1, <2>3 DEF Ended, SubType
  <2>7. GroupCounts(s)'
    <3>1. IsFiniteSet(disp'[s]) /\ Cardinality(Adds(disp[s])) \in Nat
          /\ Cardinality(Adds(disp'[s])) = Cardinality(Adds(disp[s])) - d.added
      BY <1>7
    <3>2. Holds(holder'[s]) = Holds(holder[s]) /\ Holds(holder[s]) \in {0, 1}
      BY <2>1 DEF Holds
    <3>3. Cardinality(Adds(disp[s])) + Holds(holder[s]) <= sub[s].wg
      BY <1>1 DEF GroupCounts
    <3>4. sub'[s].wg = sub[s].wg - d.added
      BY <1>5, <2>3 DEF SubType
    <3>5. Cardinality(Adds(disp'[s])) + Holds(holder'[s]) <= sub'[s].wg
      BY <3>1, <3>2, <3>3, <3>4, <1>4, <1>5
    <3> QED
      BY <3>1, <3>5 DEF GroupCounts
  <2>8. Arriving(s)'
    <3>1. sub[s].done \/ wire[s].stored = {}
      BY <1>1, <1>9 DEF Ended, Arriving
    <3>2. /\ sub'[s].eosed = sub[s].eosed /\ sub'[s].eose = sub[s].eose
          /\ sub'[s].done = sub[s].done
      BY <1>5, <2>3 DEF SubType
    <3> QED
      BY <1>1, <1>3, <3>1, <3>2 DEF Arriving
  <2> QED
    BY <1>3, <2>4, <2>5, <2>6, <2>7, <2>8, OneSteps
<1> QED
  BY <1>8, <1>9

(* A goroutine or the caller of a subscription makes a step. *)
LEMMA ClientStepKeeps ==
    ASSUME ClientInv, NEW s \in Subs, ClientStep(s)
    PROVE  ClientInv'
<1>1. CASE DispatchLock(s)
  BY <1>1, DispatchLockKeeps
<1>2. CASE Deliver(s) \/ GiveUp(s)
  BY <1>2, DeliveredKeeps
<1>3. CASE EoseWaited(s)
  BY <1>3, EoseWaitedKeeps
<1>4. CASE UnsubStep(s)
  BY <1>4, SwapLiveKeeps, WriteCloseKeeps, DeleteSubKeeps DEF UnsubStep
<1>5. CASE StartUnsub(s)
  BY <1>5, StartUnsubKeeps
<1>6. CASE CloseEvents(s)
  BY <1>6, CloseEventsKeeps
<1>7. CASE Fire(s)
  BY <1>7, FireKeeps
<1>8. CASE WriteReq(s)
  BY <1>8, WriteReqKeeps
<1>9. CASE FireFails(s)
  BY <1>9, FireFailsKeeps
<1>10. CASE Returning(s)
  BY <1>10, AtEoseKeeps, AtCloseKeeps, AtTimeKeeps DEF Returning
<1>11. CASE CallerUnsub(s)
  BY <1>11, CallerUnsubKeeps
<1> QED
  BY <1>1, <1>2, <1>3, <1>4, <1>5, <1>6, <1>7, <1>8, <1>9, <1>10, <1>11 DEF ClientStep

(* Steps that touch no subscription and no message. *)
LEMMA AllUntouched ==
    ASSUME ClientInv, UNCHANGED <<inbox, call, got, sub, disp, holder, unsub, wire>>
    PROVE  ClientInv'
<1>1. ClientTypes'
  BY DEF ClientInv, ClientTypes
<1>2. \A t \in Subs : Untouched(t)
  BY DEF Untouched
<1> QED
  BY <1>1, <1>2, UntouchedKeeps DEF ClientInv

(* The loss of the connection ends every subscription in the map. *)
LEMMA DropKeeps ==
    ASSUME ClientInv, Drop
    PROVE  ClientInv'
<1>1. /\ inbox' = inbox /\ got' = got /\ disp' = disp /\ holder' = holder
      /\ wire' = wire /\ call' = call
      /\ sub' = [s \in Subs |-> [sub[s] EXCEPT !.done = @ \/ sub[s].registered]]
      /\ unsub' = [s \in Subs |-> [unsub[s] EXCEPT !["drop"] =
                    IF sub[s].registered THEN "swap" ELSE @]]
  BY DEF Drop
<1>2. ASSUME NEW s \in Subs
      PROVE  /\ sub'[s] \in SubType
             /\ unsub'[s] \in [Actors -> {"no", "swap", "write", "delete", "end", "stuck"}]
             /\ Ended(s)' /\ GroupCounts(s)' /\ Arriving(s)'
  <2>1. ClientTypes /\ Ended(s) /\ GroupCounts(s) /\ Arriving(s)
    BY DEF ClientInv
  <2>2. /\ sub[s] \in SubType
        /\ unsub[s] \in [Actors -> {"no", "swap", "write", "delete", "end", "stuck"}]
    BY <2>1 DEF ClientTypes
  <2>3. CASE sub[s].registered
    <3>1. sub'[s] = [sub[s] EXCEPT !.done = TRUE]
      BY <1>1, <2>2, <2>3 DEF SubType
    <3>2. unsub'[s] = [unsub[s] EXCEPT !["drop"] = "swap"]
      BY <1>1, <2>3
    <3>3. sub'[s] \in SubType
      <4>1. [sub[s] EXCEPT !.done = TRUE] \in SubType
        BY <2>2, SubChanged
      <4> QED
        BY <4>1, <3>1
    <3>4. unsub'[s] \in [Actors -> {"no", "swap", "write", "delete", "end", "stuck"}]
      BY <2>2, <3>2
    <3>5. Ended(s)'
      BY <2>1, <2>2, <1>1, <3>1, <3>2 DEF Ended, SubType, Actors
    <3>6. GroupCounts(s)'
      BY <2>1, <2>2, <1>1, <3>1, CountStays DEF SubType
    <3>7. Arriving(s)'
      BY <2>1, <2>2, <1>1, <3>1, ArrivalStays DEF SubType
    <3> QED
      BY <3>3, <3>4, <3>5, <3>6, <3>7
  <2>4. CASE ~sub[s].registered
    <3>1. sub'[s] = sub[s]
      BY <1>1, <2>2, <2>4 DEF SubType
    <3>2. unsub'[s] = unsub[s]
      BY <1>1, <2>2, <2>4
    <3>3. Untouched(s)
      BY <1>1, <3>1, <3>2 DEF Untouched
    <3> QED
      BY <1>1, <2>2, <3>1, <3>2, <3>3, UntouchedKeeps
  <2> QED
    BY <2>3, <2>4
<1>3. ClientTypes'
  BY <1>1, <1>2 DEF ClientInv, ClientTypes
<1> QED
  BY <1>2, <1>3 DEF ClientInv


(* A message is added at the end of the inbox. *)
LEMMA Appended ==
    ASSUME inbox \in Seq(MessageType), NEW m \in MessageType, inbox' = Append(inbox, m)
    PROVE  /\ inbox' \in Seq(MessageType)
           /\ \A i \in DOMAIN inbox : i \in DOMAIN inbox' /\ inbox'[i] = inbox[i]
           /\ \A i \in DOMAIN inbox' : i \in DOMAIN inbox \/ inbox'[i] = m
           /\ \A i \in DOMAIN inbox : \A j \in 1 .. (i - 1) : j \in DOMAIN inbox
           /\ Len(inbox) + 1 \in DOMAIN inbox' /\ inbox'[Len(inbox) + 1] = m
           /\ \A j \in 1 .. Len(inbox) : j \in DOMAIN inbox
OBVIOUS

(* The front of the inbox is taken. *)
LEMMA Taken ==
    ASSUME inbox \in Seq(MessageType), inbox # <<>>, inbox' = Tail(inbox)
    PROVE  /\ inbox' \in Seq(MessageType) /\ Head(inbox) = inbox[1] /\ 1 \in DOMAIN inbox
           /\ Head(inbox) \in MessageType
           /\ \A i \in DOMAIN inbox' : i + 1 \in DOMAIN inbox /\ inbox'[i] = inbox[i + 1]
           /\ \A i \in DOMAIN inbox : i # 1 => i - 1 \in DOMAIN inbox' /\ inbox'[i - 1] = inbox[i]
           /\ DOMAIN inbox \subseteq Int /\ DOMAIN inbox' \subseteq Int
OBVIOUS

(* What is incoming stays so when a message comes after it. *)
LEMMA IncomingBehind ==
    ASSUME inbox \in Seq(MessageType), NEW m \in MessageType, inbox' = Append(inbox, m),
           NEW s \in Subs, NEW e \in Events, Incoming(s, e)
    PROVE  Incoming(s, e)'
<1>1. PICK i \in DOMAIN inbox :
          inbox[i] = Arrival(s, e) /\ \A j \in 1 .. (i - 1) : inbox[j] # Eose(s)
  BY DEF Incoming
<1>2. i \in DOMAIN inbox' /\ inbox'[i] = Arrival(s, e)
  BY <1>1, Appended
<1>3. \A j \in 1 .. (i - 1) : inbox'[j] # Eose(s)
  BY <1>1, Appended
<1> QED
  BY <1>2, <1>3 DEF Incoming, Arrival, Eose

(* What is incoming moves up when the message before it is taken. *)
LEMMA IncomingMoves ==
    ASSUME inbox \in Seq(MessageType), inbox # <<>>, inbox' = Tail(inbox),
           NEW s \in Subs, NEW e \in Events, Incoming(s, e)
    PROVE  /\ Head(inbox) = Arrival(s, e) \/ Incoming(s, e)'
           /\ Head(inbox) # Eose(s)
<1>1. PICK i \in DOMAIN inbox :
          inbox[i] = Arrival(s, e) /\ \A j \in 1 .. (i - 1) : inbox[j] # Eose(s)
  BY DEF Incoming
<1>2. inbox[1] = Head(inbox) /\ i \in Int /\ i >= 1
  BY <1>1, Taken
<1>3. CASE i = 1
  BY <1>1, <1>2, <1>3 DEF Arrival, Eose
<1>4. CASE i # 1
  <2>1. i - 1 \in DOMAIN inbox' /\ inbox'[i - 1] = Arrival(s, e)
    BY <1>1, <1>4, Taken
  <2>2. \A j \in 1 .. ((i - 1) - 1) : inbox'[j] # Eose(s)
    <3> TAKE j \in 1 .. ((i - 1) - 1)
    <3>1. j \in DOMAIN inbox' /\ j + 1 \in 1 .. (i - 1)
      BY <1>1, <1>2, <2>1
    <3> QED
      BY <3>1, <1>1, Taken
  <2>3. Incoming(s, e)'
    BY <2>1, <2>2 DEF Incoming, Arrival, Eose
  <2>4. 1 \in 1 .. (i - 1)
    BY <1>2, <1>4
  <2> QED
    BY <2>3, <2>4, <1>1, <1>2
<1> QED
  BY <1>3, <1>4


(* A subscription to which a message that comes is not the EOSE. *)
LEMMA BehindKeeps ==
    ASSUME ClientInv, NEW m \in MessageType, inbox' = Append(inbox, m),
           NEW t \in Subs, Untouched(t), m # Eose(t)
    PROVE  Ended(t)' /\ GroupCounts(t)' /\ Arriving(t)'
<1>1. ClientTypes /\ Ended(t) /\ GroupCounts(t) /\ Arriving(t)
  BY DEF ClientInv
<1>2. inbox \in Seq(MessageType) /\ wire[t].stored \subseteq Events
  BY <1>1 DEF ClientTypes, WireType
<1>3. Ended(t)'
  BY <1>1 DEF Ended, Untouched
<1>4. GroupCounts(t)'
  BY <1>1 DEF GroupCounts, Untouched
<1>5. \A e \in Events : Incoming(t, e) => Incoming(t, e)'
  BY <1>2, IncomingBehind
<1>6. (\E i \in DOMAIN inbox' : inbox'[i] = Eose(t)) => \E i \in DOMAIN inbox : inbox[i] = Eose(t)
  BY <1>2, Appended
<1>7. Eose(t)' = Eose(t)
  BY DEF Eose
<1>8. Arriving(t)'
  BY <1>1, <1>2, <1>5, <1>6, <1>7 DEF Arriving, Untouched
<1> QED
  BY <1>3, <1>4, <1>8

(* A subscription that the message taken is no event of. *)
LEMMA TakenKeeps ==
    ASSUME ClientInv, inbox # <<>>, inbox' = Tail(inbox),
           NEW t \in Subs, Untouched(t), \A e \in Events : Head(inbox) # Arrival(t, e)
    PROVE  Ended(t)' /\ GroupCounts(t)' /\ Arriving(t)'
<1>1. ClientTypes /\ Ended(t) /\ GroupCounts(t) /\ Arriving(t)
  BY DEF ClientInv
<1>2. inbox \in Seq(MessageType) /\ wire[t].stored \subseteq Events
  BY <1>1 DEF ClientTypes, WireType
<1>3. Ended(t)'
  BY <1>1 DEF Ended, Untouched
<1>4. GroupCounts(t)'
  BY <1>1 DEF GroupCounts, Untouched
<1>5. \A e \in Events : Incoming(t, e) => Incoming(t, e)'
  BY <1>2, IncomingMoves
<1>6. (\E i \in DOMAIN inbox' : inbox'[i] = Eose(t)) => \E i \in DOMAIN inbox : inbox[i] = Eose(t)
  BY <1>2, Taken
<1>7. Eose(t)' = Eose(t)
  BY DEF Eose
<1>8. Arriving(t)'
  BY <1>1, <1>2, <1>5, <1>6, <1>7 DEF Arriving, Untouched
<1> QED
  BY <1>3, <1>4, <1>8

(* What a message is, by its type. *)
LEMMA MessageKinds ==
    ASSUME NEW m \in MessageType
    PROVE  /\ m.type = "EVENT" => m.sub \in Subs /\ m.event \in Events /\ m = Arrival(m.sub, m.event)
           /\ m.type = "EOSE" => m.sub \in Subs /\ m = Eose(m.sub)
           /\ \A s : \A e : m.type # "EVENT" => m # Arrival(s, e)
           /\ \A s : m.type # "EOSE" => m # Eose(s)
BY DEF MessageType, Arrival, Eose

(* The relay sends an event. *)
LEMMA RelayEventKeeps ==
    ASSUME ClientInv, NEW s \in Subs, NEW e \in Events, RelayEvent(s, e)
    PROVE  ClientInv'
<1>1. ClientTypes /\ Ended(s) /\ GroupCounts(s) /\ Arriving(s)
  BY DEF ClientInv
<1>2. /\ call' = call /\ got' = got /\ sub' = sub /\ disp' = disp /\ holder' = holder
      /\ unsub' = unsub /\ inbox' = Append(inbox, Arrival(s, e)) /\ wire[s].asked
  BY DEF RelayEvent, Send, RelayRest, Arrival
<1>3. Arrival(s, e) \in MessageType /\ \A t : Arrival(s, e) # Eose(t)
  BY DEF MessageType, Arrival, Eose
<1>4. inbox \in Seq(MessageType) /\ wire[s] \in WireType /\ wire[s].stored \subseteq Events
  BY <1>1 DEF ClientTypes, WireType
<1>5. PICK w \in WireType :
          /\ wire' = [wire EXCEPT ![s] = w]
          /\ w.asked = wire[s].asked /\ w.closes = wire[s].closes /\ w.eose = wire[s].eose
          /\ IF wire[s].eose THEN w.stored = wire[s].stored ELSE w.stored = wire[s].stored \cup {e}
  <2>1. CASE wire[s].eose
    <3>1. wire' = [wire EXCEPT ![s] = [wire[s] EXCEPT !.later = @ \cup {e}]]
      BY <2>1 DEF RelayEvent
    <3>2. [wire[s] EXCEPT !.later = @ \cup {e}] \in WireType
      BY <1>4 DEF WireType
    <3> QED
      BY <2>1, <3>1, <3>2, <1>4 DEF WireType
  <2>2. CASE ~wire[s].eose
    <3>1. wire' = [wire EXCEPT ![s] = [wire[s] EXCEPT !.stored = @ \cup {e}]]
      BY <2>2 DEF RelayEvent
    <3>2. [wire[s] EXCEPT !.stored = @ \cup {e}] \in WireType
      BY <1>4 DEF WireType
    <3> QED
      BY <2>2, <3>1, <3>2, <1>4 DEF WireType
  <2> QED
    BY <2>1, <2>2
<1>6. wire' \in [Subs -> WireType] /\ wire'[s] = w /\ \A t \in Subs \ {s} : wire'[t] = wire[t]
  BY <1>1, <1>5 DEF ClientTypes
<1>7. inbox' \in Seq(MessageType)
  BY <1>2, <1>3, <1>4, Appended
<1>8. ClientTypes'
  BY <1>1, <1>2, <1>6, <1>7 DEF ClientTypes
<1>9. Ended(s)'
  BY <1>1, <1>2, <1>5, <1>6 DEF Ended
<1>10. GroupCounts(s)'
  BY <1>1, <1>2 DEF GroupCounts
<1>11. Arriving(s)'
  <2>1. \A f \in Events : Incoming(s, f) => Incoming(s, f)'
    BY <1>2, <1>3, <1>4, IncomingBehind
  <2>2. (\E i \in DOMAIN inbox' : inbox'[i] = Eose(s)) =>
            \E i \in DOMAIN inbox : inbox[i] = Eose(s)
    BY <1>2, <1>3, <1>4, Appended
  <2>3. Eose(s)' = Eose(s)
    BY DEF Eose
  <2>4. call[s] \notin {"idle", "prepared", "firing"}
    BY <1>1, <1>2 DEF Arriving
  <2>5. CASE wire[s].eose
    BY <1>1, <1>2, <1>4, <1>5, <1>6, <2>1, <2>2, <2>3, <2>5 DEF Arriving
  <2>6. CASE ~wire[s].eose
    <3>1. ~sub[s].eosed /\ sub[s].eose = "none" /\ call[s] # "eose"
      BY <1>1, <2>6 DEF Arriving
    <3>2. \A j \in 1 .. Len(inbox) : inbox[j] # Eose(s)
      BY <1>1, <1>4, <2>6 DEF Arriving
    <3>3. Incoming(s, e)'
      <4>1. /\ Len(inbox) + 1 \in DOMAIN inbox'
            /\ inbox'[Len(inbox) + 1] = Arrival(s, e)
            /\ \A j \in 1 .. Len(inbox) : j \in DOMAIN inbox /\ inbox'[j] = inbox[j]
        BY <1>2, <1>3, <1>4, Appended
      <4>2. Len(inbox) \in Nat /\ (Len(inbox) + 1) - 1 = Len(inbox)
        BY <1>4
      <4> QED
        BY <4>1, <4>2, <3>2 DEF Incoming, Arrival, Eose
    <3>4. ~sub'[s].done => \A f \in wire'[s].stored :
              \/ f \in got'[s] \/ Dispatched(f) \in disp'[s] \/ holder'[s] = Dispatched(f)
              \/ ~sub'[s].eosed /\ Incoming(s, f)'
      BY <1>1, <1>2, <1>4, <1>5, <1>6, <2>1, <2>6, <3>1, <3>3 DEF Arriving
    <3> QED
      BY <1>1, <1>2, <1>5, <1>6, <2>2, <2>3, <2>4, <3>1, <3>4 DEF Arriving, Dispatched
  <2> QED
    BY <2>5, <2>6
<1>12. ASSUME NEW t \in Subs \ {s} PROVE Ended(t)' /\ GroupCounts(t)' /\ Arriving(t)'
  BY <1>2, <1>3, <1>6, BehindKeeps DEF Untouched
<1> QED
  BY <1>8, <1>9, <1>10, <1>11, <1>12 DEF ClientInv

(* The relay sends the EOSE. *)
LEMMA RelayEoseKeeps ==
    ASSUME ClientInv, NEW s \in Subs, RelayEose(s)
    PROVE  ClientInv'
<1>1. ClientTypes /\ Ended(s) /\ GroupCounts(s) /\ Arriving(s)
  BY DEF ClientInv
<1>2. /\ call' = call /\ got' = got /\ sub' = sub /\ disp' = disp /\ holder' = holder
      /\ unsub' = unsub /\ inbox' = Append(inbox, Eose(s))
      /\ wire' = [wire EXCEPT ![s] = [wire[s] EXCEPT !.eose = TRUE]]
  BY DEF RelayEose, Send, RelayRest, Eose
<1>3. Eose(s) \in MessageType /\ \A t : t # s => Eose(s) # Eose(t)
  BY DEF MessageType, Eose
<1>4. inbox \in Seq(MessageType) /\ wire[s] \in WireType /\ wire[s].stored \subseteq Events
  BY <1>1 DEF ClientTypes, WireType
<1>5. /\ wire' \in [Subs -> WireType] /\ wire'[s] = [wire[s] EXCEPT !.eose = TRUE]
      /\ \A t \in Subs \ {s} : wire'[t] = wire[t]
  <2>1. [wire[s] EXCEPT !.eose = TRUE] \in WireType
    BY <1>4 DEF WireType
  <2> QED
    BY <1>1, <1>2, <2>1 DEF ClientTypes
<1>6. /\ wire'[s].asked = wire[s].asked /\ wire'[s].closes = wire[s].closes
      /\ wire'[s].stored = wire[s].stored /\ wire'[s].eose
  BY <1>4, <1>5 DEF WireType
<1>7. ClientTypes'
  BY <1>1, <1>2, <1>3, <1>4, <1>5, Appended DEF ClientTypes
<1>8. Ended(s)'
  BY <1>1, <1>2, <1>6 DEF Ended
<1>9. GroupCounts(s)'
  BY <1>1, <1>2 DEF GroupCounts
<1>10. Arriving(s)'
  <2>1. \A f \in Events : Incoming(s, f) => Incoming(s, f)'
    BY <1>2, <1>3, <1>4, IncomingBehind
  <2> QED
    BY <1>1, <1>2, <1>4, <1>6, <2>1 DEF Arriving
<1>11. ASSUME NEW t \in Subs \ {s} PROVE Ended(t)' /\ GroupCounts(t)' /\ Arriving(t)'
  BY <1>2, <1>3, <1>5, BehindKeeps DEF Untouched
<1> QED
  BY <1>7, <1>8, <1>9, <1>10, <1>11 DEF ClientInv

(* The relay sends a number, a challenge or an OK. *)
LEMMA RelayRestKeeps ==
    ASSUME ClientInv, (\E s \in Subs : RelayCount(s)) \/ RelayAuth \/ RelayOk
    PROVE  ClientInv'
<1>1. PICK m \in MessageType : inbox' = Append(inbox, m) /\ m.type \notin {"EVENT", "EOSE"}
  <2>1. CASE \E s \in Subs : RelayCount(s)
    BY <2>1 DEF RelayCount, Send, MessageType
  <2>2. CASE RelayAuth
    BY <2>2 DEF RelayAuth, Send, MessageType
  <2>3. CASE RelayOk
    BY <2>3 DEF RelayOk, MessageType
  <2> QED
    BY <2>1, <2>2, <2>3
<1>2. /\ call' = call /\ got' = got /\ sub' = sub /\ disp' = disp /\ holder' = holder
      /\ unsub' = unsub
  BY DEF RelayCount, RelayAuth, RelayOk, Send, RelayRest
<1>3. ClientTypes
  BY DEF ClientInv
<1>4. wire' = wire \/ \E s \in Subs : wire' = [wire EXCEPT ![s] = [wire[s] EXCEPT !.answered = TRUE]]
  BY DEF RelayCount, RelayAuth, RelayOk
<1>5. /\ wire' \in [Subs -> WireType]
      /\ \A t \in Subs : /\ wire'[t].asked = wire[t].asked /\ wire'[t].closes = wire[t].closes
                         /\ wire'[t].stored = wire[t].stored /\ wire'[t].eose = wire[t].eose
  <2>1. CASE wire' = wire
    BY <2>1, <1>3 DEF ClientTypes
  <2>2. CASE wire' # wire
    <3>1. PICK s \in Subs : wire' = [wire EXCEPT ![s] = [wire[s] EXCEPT !.answered = TRUE]]
      BY <2>2, <1>4
    <3>2. wire[s] \in WireType /\ [wire[s] EXCEPT !.answered = TRUE] \in WireType
      <4>1. wire[s] \in WireType
        BY <1>3 DEF ClientTypes
      <4> QED
        BY <4>1 DEF WireType
    <3>3. /\ wire' \in [Subs -> WireType] /\ wire'[s] = [wire[s] EXCEPT !.answered = TRUE]
          /\ \A t \in Subs \ {s} : wire'[t] = wire[t]
      BY <1>3, <3>1, <3>2 DEF ClientTypes
    <3> QED
      BY <3>2, <3>3 DEF WireType
  <2> QED
    BY <2>1, <2>2
<1>6. ClientTypes'
  BY <1>1, <1>2, <1>3, <1>5, Appended DEF ClientTypes
<1>7. \A t \in Subs : Untouched(t) /\ m # Eose(t)
  BY <1>1, <1>2, <1>5, MessageKinds DEF Untouched
<1> QED
  BY <1>1, <1>6, <1>7, BehindKeeps DEF ClientInv


(* MessageReadLoop takes an event: its goroutine is dispatched, and counted *)
(* unless the EOSE came before it.                                          *)
LEMMA ReadEventKeeps ==
    ASSUME ClientInv, ReadEvent
    PROVE  ClientInv'
<1>1. inbox # <<>> /\ inbox' = Tail(inbox) /\ Head(inbox).type = "EVENT"
  BY DEF ReadEvent, Take, Message
<1>2. ClientTypes /\ inbox \in Seq(MessageType)
  BY DEF ClientInv, ClientTypes
<1>3. PICK s \in Subs, e \in Events : Head(inbox) = Arrival(s, e)
  BY <1>1, <1>2, Taken, MessageKinds
<1>a. PICK a \in {0, 1} : a = Added(s)
  BY DEF Added
<1> DEFINE d == [event |-> e, added |-> a]
<1>4. /\ call' = call /\ got' = got /\ holder' = holder /\ unsub' = unsub /\ wire' = wire
      /\ IF sub[s].registered
         THEN /\ disp' = [disp EXCEPT ![s] = @ \cup {d}]
              /\ sub' = [sub EXCEPT ![s].wg = @ + a]
         ELSE UNCHANGED <<disp, sub>>
  BY <1>3, <1>a DEF ReadEvent, ReadRest, Message, Arrival
<1>5. Ended(s) /\ GroupCounts(s) /\ Arriving(s)
  BY <1>3 DEF ClientInv
<1>6. /\ sub[s] \in SubType /\ sub[s].wg \in Int /\ disp[s] \subseteq DispType
      /\ wire[s].stored \subseteq Events
  BY <1>2, <1>3 DEF ClientTypes, SubType, WireType
<1>7. /\ a \in {0, 1} /\ d \in DispType /\ d.added = a
      /\ ~sub[s].eosed => d = Dispatched(e)
  BY <1>3, <1>a DEF Added, DispType, Dispatched
<1> HIDE DEF d
<1>8. inbox' \in Seq(MessageType)
  BY <1>1, <1>2, Taken
<1>9. /\ \A t \in Subs : t # s => \A f \in Events : Head(inbox) # Arrival(t, f)
      /\ \A t \in Subs : Head(inbox) # Eose(t)
      /\ \A f \in Events : f # e => Head(inbox) # Arrival(s, f)
  BY <1>3 DEF Arrival, Eose
<1>10. (\E i \in DOMAIN inbox' : inbox'[i] = Eose(s)) => \E i \in DOMAIN inbox : inbox[i] = Eose(s)
  BY <1>1, <1>2, Taken
<1>11. Eose(s)' = Eose(s)
  BY DEF Eose
<1>12. CASE sub[s].registered
  <2>1. [sub[s] EXCEPT !.wg = sub[s].wg + a] \in SubType
    <3>1. sub[s].wg + a \in Int
      BY <1>6, <1>7
    <3> QED
      BY <1>6, <3>1, SubChanged
  <2>2. /\ disp' = [disp EXCEPT ![s] = disp[s] \cup {d}]
        /\ sub' = [sub EXCEPT ![s] = [sub[s] EXCEPT !.wg = sub[s].wg + a]]
    BY <1>4, <1>12
  <2>3. /\ sub' \in [Subs -> SubType] /\ sub'[s] = [sub[s] EXCEPT !.wg = sub[s].wg + a]
        /\ \A t \in Subs \ {s} : sub'[t] = sub[t]
    BY <1>2, <1>3, <2>1, <2>2 DEF ClientTypes
  <2>4. /\ disp' \in [Subs -> SUBSET DispType] /\ disp'[s] = disp[s] \cup {d}
        /\ \A t \in Subs \ {s} : disp'[t] = disp[t]
    <3>1. disp[s] \cup {d} \in SUBSET DispType
      BY <1>6, <1>7
    <3> QED
      BY <1>2, <1>3, <2>2, <3>1 DEF ClientTypes
  <2>5. ClientTypes'
    BY <1>2, <1>4, <1>8, <2>3, <2>4 DEF ClientTypes
  <2>6. Ended(s)'
    BY <1>3, <1>4, <1>5, <1>6, <2>3 DEF Ended, SubType
  <2>7. GroupCounts(s)'
    <3>1. /\ IsFiniteSet(disp'[s])
          /\ Cardinality(Adds(disp'[s])) <= Cardinality(Adds(disp[s])) + d.added
          /\ Cardinality(Adds(disp[s])) \in Nat /\ Cardinality(Adds(disp'[s])) \in Nat
      <4>1. IsFiniteSet(disp[s])
        BY <1>5 DEF GroupCounts
      <4>2. disp[s] \in SUBSET DispType /\ d \in DispType
        BY <1>6, <1>7
      <4>3. /\ IsFiniteSet(disp[s] \cup {d})
            /\ Cardinality(Adds(disp[s] \cup {d})) <= Cardinality(Adds(disp[s])) + d.added
            /\ Cardinality(Adds(disp[s])) \in Nat
            /\ Cardinality(Adds(disp[s] \cup {d})) \in Nat
        BY <4>1, <4>2, OneMore
      <4> QED
        BY <2>4, <4>3
    <3>2. Holds(holder'[s]) = Holds(holder[s]) /\ Holds(holder[s]) \in {0, 1}
      BY <1>4 DEF Holds
    <3>3. Cardinality(Adds(disp[s])) + Holds(holder[s]) <= sub[s].wg
      BY <1>5 DEF GroupCounts
    <3>4. sub'[s].wg = sub[s].wg + a
      BY <1>6, <2>3 DEF SubType
    <3>5. Cardinality(Adds(disp'[s])) + Holds(holder'[s]) <= sub'[s].wg
      BY <3>1, <3>2, <3>3, <3>4, <1>6, <1>7
    <3> QED
      BY <3>1, <3>5 DEF GroupCounts
  <2>8. Arriving(s)'
    <3>1. /\ sub'[s].eosed = sub[s].eosed /\ sub'[s].eose = sub[s].eose
          /\ sub'[s].done = sub[s].done
      BY <1>6, <2>3 DEF SubType
    <3>2. \A f \in Events : Incoming(s, f) => (f = e \/ Incoming(s, f)')
      BY <1>1, <1>2, <1>3, <1>9, IncomingMoves
    <3>3. ~sub[s].eosed => Dispatched(e) \in disp'[s]
      BY <1>7, <2>4
    <3>4. ~sub[s].done => \A f \in wire[s].stored :
            \/ f \in got[s] \/ Dispatched(f) \in disp'[s] \/ holder[s] = Dispatched(f)
            \/ ~sub[s].eosed /\ Incoming(s, f)'
      BY <1>5, <1>6, <3>2, <3>3, <2>4 DEF Arriving
    <3> QED
      BY <1>4, <1>5, <1>10, <1>11, <3>1, <3>4 DEF Arriving, Dispatched
  <2>9. ASSUME NEW t \in Subs \ {s} PROVE Ended(t)' /\ GroupCounts(t)' /\ Arriving(t)'
    <3>1. Untouched(t)
      BY <1>4, <2>3, <2>4 DEF Untouched
    <3> QED
      BY <1>1, <1>9, <3>1, TakenKeeps
  <2> QED
    BY <2>5, <2>6, <2>7, <2>8, <2>9 DEF ClientInv
<1>13. CASE ~sub[s].registered
  <2>1. disp' = disp /\ sub' = sub
    BY <1>4, <1>13
  <2>2. \A t \in Subs : Untouched(t)
    BY <1>4, <2>1 DEF Untouched
  <2>3. ClientTypes'
    BY <1>2, <1>4, <1>8, <2>1 DEF ClientTypes
  <2>4. Ended(s)' /\ GroupCounts(s)'
    BY <1>4, <1>5, <2>1 DEF Ended, GroupCounts
  <2>5. Arriving(s)'
    <3>1. sub[s].done \/ call[s] = "idle"
      BY <1>5, <1>13 DEF Ended
    <3>2. call[s] = "idle" => wire[s].stored = {}
      BY <1>5 DEF Arriving
    <3> QED
      BY <1>4, <1>5, <1>10, <1>11, <2>1, <3>1, <3>2 DEF Arriving
  <2>6. ASSUME NEW t \in Subs \ {s} PROVE Ended(t)' /\ GroupCounts(t)' /\ Arriving(t)'
    BY <1>1, <1>9, <2>2, TakenKeeps
  <2> QED
    BY <2>3, <2>4, <2>5, <2>6 DEF ClientInv
<1> QED
  BY <1>12, <1>13

(* It takes the EOSE: no event from before it is still in the inbox. *)
LEMMA ReadEoseKeeps ==
    ASSUME ClientInv, ReadEose
    PROVE  ClientInv'
<1>1. inbox # <<>> /\ inbox' = Tail(inbox) /\ Head(inbox).type = "EOSE"
  BY DEF ReadEose, Take, Message
<1>2. ClientTypes /\ inbox \in Seq(MessageType)
  BY DEF ClientInv, ClientTypes
<1>3. PICK s \in Subs : Head(inbox) = Eose(s)
  BY <1>1, <1>2, Taken, MessageKinds
<1>4. /\ call' = call /\ got' = got /\ holder' = holder /\ unsub' = unsub /\ wire' = wire
      /\ disp' = disp
      /\ sub' = IF sub[s].registered /\ ~sub[s].eosed
                THEN [sub EXCEPT ![s].eosed = TRUE, ![s].eose = "wait"] ELSE sub
  <2>1. Head(inbox).sub = s
    BY <1>3 DEF Eose
  <2> QED
    BY <2>1 DEF ReadEose, ReadRest, Message
<1>5. Ended(s) /\ GroupCounts(s) /\ Arriving(s) /\ sub[s] \in SubType /\ wire[s].stored \subseteq Events
  BY <1>2, <1>3 DEF ClientInv, ClientTypes, WireType
<1>6. \A t \in Subs : \A f \in Events : Head(inbox) # Arrival(t, f)
  BY <1>3 DEF Arrival, Eose
<1>7. inbox' \in Seq(MessageType) /\ Head(inbox) = inbox[1] /\ 1 \in DOMAIN inbox
  BY <1>1, <1>2, Taken
<1>8. CASE sub[s].registered /\ ~sub[s].eosed
  <2>1. sub' = [sub EXCEPT ![s] = [sub[s] EXCEPT !.eosed = TRUE, !.eose = "wait"]]
    BY <1>4, <1>8
  <2>2. [sub[s] EXCEPT !.eosed = TRUE, !.eose = "wait"] \in SubType
    BY <1>5, SubChanged
  <2>3. /\ sub' \in [Subs -> SubType]
        /\ sub'[s] = [sub[s] EXCEPT !.eosed = TRUE, !.eose = "wait"]
        /\ \A t \in Subs \ {s} : sub'[t] = sub[t]
    BY <1>2, <1>3, <2>1, <2>2 DEF ClientTypes
  <2>4. ClientTypes'
    BY <1>2, <1>4, <1>7, <2>3 DEF ClientTypes
  <2>5. Ended(s)'
    BY <1>3, <1>4, <1>5, <2>3 DEF Ended, SubType
  <2>6. GroupCounts(s)'
    BY <1>3, <1>4, <1>5, <2>3, CountStays DEF SubType
  <2>7. Arriving(s)'
    <3>1. \A f \in Events : ~Incoming(s, f)
      BY <1>1, <1>2, <1>3, IncomingMoves
    <3>2. wire[s].eose /\ call[s] # "eose"
      BY <1>3, <1>5, <1>7, <1>8 DEF Arriving
    <3>3. sub'[s].eosed /\ sub'[s].eose = "wait" /\ sub'[s].done = sub[s].done
      BY <1>5, <2>3 DEF SubType
    <3> QED
      BY <1>4, <1>5, <3>1, <3>2, <3>3 DEF Arriving
  <2>8. ASSUME NEW t \in Subs \ {s} PROVE Ended(t)' /\ GroupCounts(t)' /\ Arriving(t)'
    <3>1. Untouched(t)
      BY <1>4, <2>3 DEF Untouched
    <3> QED
      BY <1>1, <1>6, <3>1, TakenKeeps
  <2> QED
    BY <2>4, <2>5, <2>6, <2>7, <2>8 DEF ClientInv
<1>9. CASE ~(sub[s].registered /\ ~sub[s].eosed)
  <2>1. sub' = sub
    BY <1>4, <1>9
  <2>2. \A t \in Subs : Untouched(t)
    BY <1>4, <2>1 DEF Untouched
  <2>3. ClientTypes'
    BY <1>2, <1>4, <1>7, <2>1 DEF ClientTypes
  <2> QED
    BY <1>1, <1>6, <2>2, <2>3, TakenKeeps DEF ClientInv
<1> QED
  BY <1>8, <1>9

(* The other messages mean nothing to a subscription. *)
LEMMA ReadRestKeeps ==
    ASSUME ClientInv, ReadCount \/ ReadAuth \/ ReadOk
    PROVE  ClientInv'
<1>1. inbox # <<>> /\ inbox' = Tail(inbox) /\ Head(inbox).type # "EVENT"
  BY DEF ReadCount, ReadAuth, ReadOk, Take, Message
<1>2. /\ call' = call /\ got' = got /\ holder' = holder /\ unsub' = unsub /\ wire' = wire
      /\ disp' = disp /\ sub' = sub
  BY DEF ReadCount, ReadAuth, ReadOk, ReadRest
<1>3. ClientTypes /\ inbox \in Seq(MessageType)
  BY DEF ClientInv, ClientTypes
<1>4. \A t \in Subs : \A e \in Events : Head(inbox) # Arrival(t, e)
  BY <1>1, <1>3, Taken, MessageKinds
<1>5. ClientTypes'
  BY <1>1, <1>2, <1>3, Taken DEF ClientTypes
<1>6. \A t \in Subs : Untouched(t)
  BY <1>2 DEF Untouched
<1> QED
  BY <1>1, <1>4, <1>5, <1>6, TakenKeeps DEF ClientInv


-----------------------------------------------------------------------------
(* Every step keeps what holds of the subscriptions. *)
LEMMA NextClient == ClientInv /\ [ClientNext]_clientVars => ClientInv'
<1> SUFFICES ASSUME ClientInv, [ClientNext]_clientVars PROVE ClientInv'
  OBVIOUS
<1>1. CASE Reader
  <2>1. CASE ReadEvent
    BY <2>1, ReadEventKeeps
  <2>2. CASE ReadEose
    BY <2>2, ReadEoseKeeps
  <2>3. CASE ReadCount \/ ReadAuth \/ ReadOk
    BY <2>3, ReadRestKeeps
  <2>4. CASE CallbackFails \/ CallbackCancels
    BY <2>4, AllUntouched DEF CallbackFails, CallbackCancels, ReadRest
  <2> QED
    BY <1>1, <2>1, <2>2, <2>3, <2>4 DEF Reader
<1>2. CASE Relay
  <2>1. CASE \E s \in Subs : RelayEose(s)
    BY <2>1, RelayEoseKeeps
  <2>2. CASE \E s \in Subs : \E e \in Events : RelayEvent(s, e)
    BY <2>2, RelayEventKeeps
  <2>3. CASE (\E s \in Subs : RelayCount(s)) \/ RelayAuth \/ RelayOk
    BY <2>3, RelayRestKeeps
  <2> QED
    BY <1>2, <2>1, <2>2, <2>3 DEF Relay
<1>3. CASE Drop
  BY <1>3, DropKeeps
<1>4. CASE Publish \/ PublishTime \/ PublishReturns
  BY <1>4, AllUntouched DEF Publish, PublishTime, PublishReturns, PublishRest
<1>5. CASE \E s \in Subs : ClientStep(s) \/ Prepare(s) \/ CancelCall(s)
  BY <1>5, ClientStepKeeps, PrepareKeeps, CancelCallKeeps
<1>6. CASE UNCHANGED clientVars
  BY <1>6, AllUntouched DEF clientVars
<1> QED
  BY <1>1, <1>2, <1>3, <1>4, <1>5, <1>6 DEF ClientNext

(* The parts of the invariant are the properties. *)
LEMMA ClientInvGives == ClientInv => ClosedOnce /\ EoseComplete
<1> SUFFICES ASSUME ClientInv PROVE ClosedOnce /\ EoseComplete
  OBVIOUS
<1>1. \A s \in Subs : Ended(s) /\ Arriving(s)
  BY DEF ClientInv
<1>2. ClosedOnce
  BY <1>1 DEF ClosedOnce, Ended
<1>3. EoseComplete
  BY <1>1 DEF EoseComplete, Arriving, Subs
<1> QED
  BY <1>2, <1>3

(* ClosedOnce for any number of subscriptions: nobody sends to a closed    *)
(* channel, and one CLOSE is written whoever ends the subscription         *)
(* (subscription.go:80-116, :142-154).                                     *)
THEOREM SubscriptionsEnd == ClientSpec => []ClosedOnce
BY InitClient, NextClient, ClientInvGives, PTL DEF ClientSpec

(* EoseComplete for any events and any inbox: the WaitGroup holds the end  *)
(* of the stored events back until what came before it has been delivered  *)
(* (subscription.go:93-130).                                               *)
THEOREM EoseWaits == ClientSpec => []EoseComplete
BY InitClient, NextClient, ClientInvGives, PTL DEF ClientSpec

-----------------------------------------------------------------------------
PubType == [at : {"idle", "waiting", "canceled", "over", "stuck"}, gotOk : BOOLEAN,
            err : {"nil", "refused"}, accepted : {"no", "true", "false"},
            result : {"none", "nil", "refused", "deadline"}, timedOut : BOOLEAN]

Accepting == [type |-> "OK", ok |-> "true"]
Judged == pub.accepted = "true" \/ pub.err = "refused"

(* What Publish is told follows the relay's answer: the callback has set   *)
(* its error before it cancels.                                            *)
Publishes ==
    /\ inbox \in Seq(MessageType) /\ pub \in PubType
    /\ readLoop = "cancel" => Judged
    /\ pub.at = "canceled" /\ ~pub.timedOut => Judged
    /\ pub.at \in {"idle", "waiting"} => ~pub.timedOut
    /\ pub.at # "over" => pub.result = "none"
    /\ (\E i \in DOMAIN inbox : inbox[i] = Accepting) => pub.accepted = "true"
    /\ PublishedIsAccepted

(* Nothing is published, and nothing answered. *)
LEMMA InitPublishes == ClientInit => Publishes
BY DEF ClientInit, Publishes, NewPub, PubType, PublishedIsAccepted

(* What comes and goes in the inbox without an OK to an event. *)
LEMMA MailKeeps ==
    ASSUME Publishes, pub' = pub, conn' = conn \/ conn' = "down",
           readLoop' = readLoop \/ readLoop' # "cancel",
           \/ inbox' = inbox
           \/ inbox # <<>> /\ inbox' = Tail(inbox)
           \/ \E m \in MessageType : m # Accepting /\ inbox' = Append(inbox, m)
    PROVE  Publishes'
<1>1. inbox \in Seq(MessageType)
  BY DEF Publishes
<1>2. inbox' \in Seq(MessageType) /\ ((\E i \in DOMAIN inbox' : inbox'[i] = Accepting) =>
                                        \E i \in DOMAIN inbox : inbox[i] = Accepting)
  BY <1>1, Taken, Appended
<1>3. Accepting' = Accepting
  BY DEF Accepting
<1>4. Judged => Judged'
  BY DEF Judged
<1>5. PublishedIsAccepted'
  BY DEF Publishes, PublishedIsAccepted
<1> QED
  BY <1>2, <1>3, <1>4, <1>5 DEF Publishes

(* The relay answers an EVENT. *)
LEMMA OkKeeps ==
    ASSUME Publishes, RelayOk
    PROVE  Publishes'
<1>1. PICK ok \in {"true", "false"} :
          inbox' = Append(inbox, [type |-> "OK", ok |-> ok]) /\ pub' = [pub EXCEPT !.accepted = ok]
  BY DEF RelayOk
<1>2. readLoop' = readLoop /\ conn' = conn /\ pub.accepted = "no" /\ pub \in PubType
      /\ inbox \in Seq(MessageType)
  BY DEF RelayOk, Publishes
<1>3. /\ pub' \in PubType /\ pub'.accepted = ok /\ pub'.at = pub.at /\ pub'.err = pub.err
      /\ pub'.timedOut = pub.timedOut /\ pub'.result = pub.result /\ pub'.gotOk = pub.gotOk
  BY <1>1, <1>2 DEF PubType
<1>4. [type |-> "OK", ok |-> ok] \in MessageType
  BY DEF MessageType
<1>5. inbox' \in Seq(MessageType)
      /\ \A i \in DOMAIN inbox' : \/ i \in DOMAIN inbox /\ inbox'[i] = inbox[i]
                                  \/ inbox'[i] = [type |-> "OK", ok |-> ok]
  BY <1>1, <1>2, <1>4, Appended
<1>6. (\E i \in DOMAIN inbox' : inbox'[i] = Accepting) => ok = "true"
  BY <1>2, <1>5 DEF Publishes, Accepting
<1>7. Accepting' = Accepting
  BY DEF Accepting
<1> QED
  BY <1>2, <1>3, <1>5, <1>6, <1>7 DEF Publishes, Judged, PublishedIsAccepted

(* MessageReadLoop finds the callback of Publish, and calls it. *)
LEMMA HeardKeeps ==
    ASSUME Publishes, ReadOk
    PROVE  Publishes'
<1>1. /\ inbox # <<>> /\ inbox' = Tail(inbox) /\ conn' = conn /\ inbox \in Seq(MessageType)
      /\ readLoop = "reading" /\ pub \in PubType
  BY DEF ReadOk, Take, ReadRest, Publishes
<1>2. Head(inbox).type = "OK"
  BY DEF ReadOk, Message
<1>3. /\ inbox' \in Seq(MessageType)
      /\ (\E i \in DOMAIN inbox' : inbox'[i] = Accepting) =>
             \E i \in DOMAIN inbox : inbox[i] = Accepting
      /\ Head(inbox) = inbox[1] /\ 1 \in DOMAIN inbox /\ Head(inbox) \in MessageType
  BY <1>1, Taken
<1>4. Accepting' = Accepting
  BY DEF Accepting
<1>5. CASE pub.at = "waiting"
  <2>1. /\ pub' = [pub EXCEPT !.gotOk = TRUE]
        /\ readLoop' = IF Head(inbox).ok = "true" THEN "cancel" ELSE "fail"
    BY <1>5 DEF ReadOk, Message
  <2>2. /\ pub' \in PubType /\ pub'.accepted = pub.accepted /\ pub'.at = pub.at
        /\ pub'.err = pub.err /\ pub'.timedOut = pub.timedOut /\ pub'.result = pub.result
        /\ pub'.gotOk
    BY <1>1, <2>1 DEF PubType
  <2>3. Head(inbox).ok = "true" => Head(inbox) = Accepting
    BY <1>2, <1>3 DEF MessageType, Accepting
  <2>4. readLoop' = "cancel" => pub.accepted = "true"
    BY <1>3, <2>1, <2>3 DEF Publishes
  <2> QED
    BY <1>1, <1>3, <1>4, <2>2, <2>4 DEF Publishes, Judged, PublishedIsAccepted
<1>6. CASE pub.at # "waiting"
  <2>1. pub' = pub /\ readLoop' = readLoop
    BY <1>6 DEF ReadOk
  <2> QED
    BY <1>1, <2>1, MailKeeps
<1> QED
  BY <1>5, <1>6

(* The callback sets its error, and cancels. *)
LEMMA CallbackKeeps ==
    ASSUME Publishes, CallbackFails \/ CallbackCancels
    PROVE  Publishes'
<1>1. inbox' = inbox /\ conn' = conn /\ pub \in PubType
  BY DEF CallbackFails, CallbackCancels, ReadRest, Publishes
<1>2. CASE CallbackFails
  <2>1. /\ pub' \in PubType /\ pub'.accepted = pub.accepted /\ pub'.at = pub.at
        /\ pub'.err = "refused" /\ pub'.timedOut = pub.timedOut /\ pub'.result = pub.result
        /\ pub'.gotOk = pub.gotOk
    BY <1>1, <1>2 DEF CallbackFails, PubType
  <2> QED
    BY <1>1, <2>1 DEF Publishes, Judged, PublishedIsAccepted, Accepting
<1>3. CASE CallbackCancels
  <2>1. Judged /\ readLoop' = "reading"
    BY <1>3 DEF CallbackCancels, Publishes
  <2>2. /\ pub' \in PubType /\ pub'.accepted = pub.accepted
        /\ pub'.err = pub.err /\ pub'.timedOut = pub.timedOut /\ pub'.result = pub.result
        /\ pub'.gotOk = pub.gotOk /\ pub'.at # "waiting"
        /\ pub'.at = pub.at \/ (pub.at = "waiting" /\ pub'.at = "canceled")
    BY <1>1, <1>3 DEF CallbackCancels, PubType
  <2> QED
    BY <1>1, <2>1, <2>2 DEF Publishes, Judged, PublishedIsAccepted, Accepting
<1> QED
  BY <1>2, <1>3

(* Publish writes the event, waits, and returns. *)
LEMMA PublishKeeps ==
    ASSUME Publishes, Publish \/ PublishTime \/ PublishReturns
    PROVE  Publishes'
<1>1. inbox' = inbox /\ conn' = conn /\ readLoop' = readLoop /\ pub \in PubType
  BY DEF Publish, PublishTime, PublishReturns, PublishRest, Publishes
<1>2. CASE Publish
  <2>1. /\ pub' \in PubType /\ pub'.accepted = pub.accepted /\ pub'.err = pub.err
        /\ pub'.timedOut = pub.timedOut /\ pub'.result = pub.result
        /\ pub'.at \in {"waiting", "stuck"} /\ pub.at = "idle"
    BY <1>1, <1>2 DEF Publish, PubType
  <2> QED
    BY <1>1, <2>1 DEF Publishes, Judged, PublishedIsAccepted, Accepting
<1>3. CASE PublishTime
  <2>1. /\ pub' \in PubType /\ pub'.accepted = pub.accepted /\ pub'.err = pub.err
        /\ pub'.timedOut /\ pub'.result = pub.result
        /\ pub'.at = "canceled" /\ pub.at = "waiting"
    BY <1>1, <1>3 DEF PublishTime, PubType
  <2> QED
    BY <1>1, <2>1 DEF Publishes, Judged, PublishedIsAccepted, Accepting
<1>4. CASE PublishReturns
  <2>1. PICK err \in {"nil", "refused", "deadline"} :
            /\ pub' = Return(err)
            /\ \/ pub.at = "canceled" /\ err = OkOrError
               \/ conn = "down"
    BY <1>1, <1>4 DEF PublishReturns, PubType, OkOrError
  <2>2. /\ pub' \in PubType /\ pub'.accepted = pub.accepted /\ pub'.err = pub.err
        /\ pub'.timedOut = pub.timedOut /\ pub'.result = err /\ pub'.gotOk = pub.gotOk
        /\ pub'.at = "over"
    BY <1>1, <2>1 DEF Return, PubType
  <2>3. err = "nil" => pub.accepted = "true" \/ conn = "down" \/ (pub.timedOut /\ pub.gotOk)
    BY <1>1, <2>1 DEF Publishes, Judged, OkOrError
  <2> QED
    BY <1>1, <2>2, <2>3 DEF Publishes, Judged, PublishedIsAccepted, Accepting
<1> QED
  BY <1>2, <1>3, <1>4

(* No other step touches Publish. *)
LEMMA NextPublishes == ClientInv /\ Publishes /\ [ClientNext]_clientVars => Publishes'
<1> SUFFICES ASSUME ClientInv, Publishes, [ClientNext]_clientVars PROVE Publishes'
  OBVIOUS
<1>1. CASE ReadOk
  BY <1>1, HeardKeeps
<1>2. CASE CallbackFails \/ CallbackCancels
  BY <1>2, CallbackKeeps
<1>3. CASE ReadEvent \/ ReadEose \/ ReadCount \/ ReadAuth
  <2>1. /\ pub' = pub /\ conn' = conn /\ inbox # <<>> /\ inbox' = Tail(inbox)
        /\ readLoop' = readLoop \/ readLoop' = "auth"
    BY <1>3 DEF ReadEvent, ReadEose, ReadCount, ReadAuth, ReadRest, Take
  <2> QED
    BY <2>1, MailKeeps
<1>4. CASE RelayOk
  BY <1>4, OkKeeps
<1>5. CASE RelayAuth \/ \E s \in Subs : RelayEose(s) \/ RelayCount(s) \/ \E e \in Events : RelayEvent(s, e)
  <2>1. pub' = pub /\ conn' = conn /\ readLoop' = readLoop
    BY <1>5 DEF RelayAuth, RelayEose, RelayCount, RelayEvent, Send, RelayRest
  <2>2. PICK m \in MessageType : m.type # "OK" /\ inbox' = Append(inbox, m)
    BY <1>5 DEF RelayAuth, RelayEose, RelayCount, RelayEvent, Send, MessageType
  <2>3. m # Accepting
    BY <2>2 DEF Accepting
  <2> QED
    BY <2>1, <2>2, <2>3, MailKeeps
<1>6. CASE Drop
  <2>1. pub' = pub /\ conn' = "down" /\ inbox' = inbox /\ readLoop' = "stopped"
    BY <1>6 DEF Drop
  <2> QED
    BY <2>1, MailKeeps
<1>7. CASE Publish \/ PublishTime \/ PublishReturns
  BY <1>7, PublishKeeps
<1>8. CASE \E s \in Subs : ClientStep(s) \/ Prepare(s) \/ CancelCall(s)
  <2>1. pub' = pub /\ conn' = conn /\ inbox' = inbox /\ readLoop' = readLoop
    BY <1>8 DEF ClientStep, Prepare, CancelCall, DispatchLock, Deliver, GiveUp, EoseWaited,
       UnsubStep, SwapLive, WriteClose, DeleteSub, StartUnsub, CloseEvents, Fire, WriteReq,
       FireFails, Returning, ReturnsAtEose, ReturnsAtClose, ReturnsAtTime, CallerUnsub,
       SubRest, CallRest
  <2> QED
    BY <2>1, MailKeeps
<1>9. CASE UNCHANGED clientVars
  BY <1>9, MailKeeps DEF clientVars
<1> QED
  BY <1>1, <1>2, <1>3, <1>4, <1>5, <1>6, <1>7, <1>8, <1>9 DEF ClientNext, Reader, Relay

(* PublishedIsAccepted for any inbox and any course of the other calls     *)
(* (relay.go:397-459).                                                     *)
THEOREM PublishTrue == ClientSpec => []PublishedIsAccepted
<1>1. Publishes => PublishedIsAccepted
  BY DEF Publishes
<1> QED
  BY <1>1, InitClient, NextClient, InitPublishes, NextPublishes, PTL DEF ClientSpec

=============================================================================
