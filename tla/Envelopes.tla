------------------------------ MODULE Envelopes ------------------------------
(***************************************************************************)
(* The messages between clients and relays (envelopes, wire/array,         *)
(* wire/object, filter): what is written for each of them, and what        *)
(* ProcessEnvelope makes of the bytes on the other side.  A sender writes  *)
(* an envelope, Identify finds its label, and ReadMatched what it is and what *)
(* the rest says.                                                          *)
(*                                                                         *)
(* Labels and keys are shortened to as many letters as tell them apart;    *)
(* CLOSE stays a prefix of CLOSED.  Of an event the id, the tags, the      *)
(* content and the signature are kept, of a filter the tags and the        *)
(* search, each of which stands for the other fields of its form.          *)
(* encoding/json, which reads the objects, is external.                    *)
(*                                                                         *)
(* A definition marked "seeded fault" is a mistake one could make in the   *)
(* definition after it; no action uses it.                                 *)
(***************************************************************************)
EXTENDS WireText

CONSTANTS
    Messages,   \* bound: the envelopes that are sent
    MaxSid,     \* the longest subscription id (64)
    IdLength    \* of an event id in hex (64)

VARIABLES
    sent,      \* the envelope
    spaced,    \* the sender puts white space around its brackets and commas
    stage,     \* "sent", "identified", "read"
    cursor,    \* the position in the message
    label,
    received   \* what ProcessEnvelope returned

wireVars == <<sent, spaced, stage, cursor, label, received>>

Label == [EVENT |-> <<69, 86>>, OK |-> <<79>>, NOTICE |-> <<78>>, EOSE |-> <<69, 79>>,
          CLOSE |-> <<67>>, CLOSED |-> <<67, 68>>, REQ |-> <<82>>, COUNT |-> <<84>>,
          AUTH |-> <<65>>]

KeyId == <<105>>
KeyTags == <<116>>
KeyContent == <<99>>
KeySig == <<115>>
KeySearch == <<113>>
KeyCount == <<110>>
KeyTag(letter) == <<35, letter>>
True == <<116, 114, 117, 101>>
False == <<102, 97, 108, 115, 101>>

Nothing == [type |-> "nothing"]
Error == [type |-> "error"]

-----------------------------------------------------------------------------
(***************************************************************************)
(* What is written.                                                        *)
(***************************************************************************)
Joined(items, sep) ==
    FlattenSeq([i \in DOMAIN items |-> IF i = 1 THEN items[i] ELSE sep \o items[i]])

Wrapped(s) == EscapeJSONStringAndWrap(s)

ArrayText(items, space) ==
    LET gap == IF space THEN <<Space>> ELSE <<>>
    IN  <<OpenBracket>> \o gap \o Joined(items, gap \o <<Comma>> \o gap)
            \o gap \o <<CloseBracket>>

(* A tag of a filter, and of an event in its canonical form, is printed by *)
(* tag.T.String, which escapes nothing.                                    *)
TagString(t) == ArrayText([i \in DOMAIN t |-> <<Quote>> \o t[i] \o <<Quote>>], FALSE)

(* The bracket of a tag is closed after its last element. *)
TagText(t) ==
    IF t = <<>> THEN <<OpenBracket>>
    ELSE ArrayText([i \in DOMAIN t |-> Wrapped(t[i])], FALSE)

ObjectText(fields) ==
    <<OpenBrace>> \o Joined([i \in DOMAIN fields |->
        <<Quote>> \o fields[i][1] \o <<Quote, Colon>> \o fields[i][2]], <<Comma>>)
    \o <<CloseBrace>>

EventText(e) ==
    ObjectText(<<<<KeyId, Wrapped(e.id)>>,
                 <<KeyTags, ArrayText([i \in DOMAIN e.tags |-> TagText(e.tags[i])], FALSE)>>,
                 <<KeyContent, Wrapped(e.content)>>,
                 <<KeySig, Wrapped(e.sig)>>>>)

(* What the id of an event is the hash of. *)
ToCanonical(e) ==
    ArrayText(<<ArrayText([i \in DOMAIN e.tags |-> TagString(e.tags[i])], FALSE),
                Wrapped(e.content)>>, FALSE)

FilterText(f) ==
    LET letters == SetToSortSeq(DOMAIN f.tags, <)
        tags == [i \in DOMAIN letters |-> <<KeyTag(letters[i]), TagString(f.tags[letters[i]])>>]
    IN  ObjectText(tags \o IF f.search = <<>> THEN <<>>
                           ELSE <<<<KeySearch, Wrapped(f.search)>>>>)

FilterTexts(fs) == [i \in DOMAIN fs |-> FilterText(fs[i])]

IsValid(sub) == Len(sub) \in 1..MaxSid

Items(e) ==
    CASE e.type = "EVENT" ->
            (IF IsValid(e.sub) THEN <<Wrapped(e.sub)>> ELSE <<>>) \o <<EventText(e.event)>>
      [] e.type = "OK" ->
            <<Wrapped(e.id), IF e.ok THEN True ELSE False, Wrapped(e.text)>>
      [] e.type \in {"NOTICE", "CHALLENGE"} -> <<Wrapped(e.text)>>
      [] e.type \in {"EOSE", "CLOSE"} -> <<Wrapped(e.sub)>>
      [] e.type = "CLOSED" -> <<Wrapped(e.sub), Wrapped(e.text)>>
      [] e.type = "REQ" -> <<Wrapped(e.sub)>> \o FilterTexts(e.filters)
      [] e.type = "COUNT" -> <<Wrapped(e.sub), ArrayText(FilterTexts(e.filters), spaced)>>
      [] e.type = "COUNTED" -> <<Wrapped(e.sub), ObjectText(<<<<KeyCount, <<Digit0 + e.count>>>>>>)>>
      [] e.type = "RESPONSE" -> <<EventText(e.event)>>

LabelOf(e) ==
    CASE e.type = "COUNTED" -> "COUNT"
      [] e.type \in {"CHALLENGE", "RESPONSE"} -> "AUTH"
      [] OTHER -> e.type

Bytes(e) == ArrayText(<<Wrapped(Label[LabelOf(e)])>> \o Items(e), spaced)

-----------------------------------------------------------------------------
(***************************************************************************)
(* encoding/json: values are strings, numbers, arrays and objects.         *)
(***************************************************************************)
Bad == [ok |-> FALSE, v |-> <<>>, next |-> 0]
Good(v, next) == [ok |-> TRUE, v |-> v, next |-> next]
Value(t, r) == IF r.ok THEN Good([t |-> t, v |-> r.v], r.next) ELSE Bad
Before(v, r) == IF r.ok THEN Good(v \o r.v, r.next) ELSE Bad

RECURSIVE JsonString(_, _), JsonValue(_, _), JsonList(_, _, _)

(* The rest of a string, from p. *)
JsonString(b, p) ==
    IF p > Len(b) \/ b[p] < Space THEN Bad
    ELSE IF b[p] = Quote THEN Good(<<>>, p + 1)
    ELSE IF b[p] # Backslash THEN Before(<<b[p]>>, JsonString(b, p + 1))
    ELSE IF p + 1 > Len(b) THEN Bad
    ELSE IF b[p + 1] = LowerU
    THEN IF p + 5 <= Len(b) /\ \A j \in 2..5 : b[p + j] \in Wanted(j)
         THEN Before(<<16 * HexValue(b[p + 4]) + HexValue(b[p + 5])>>, JsonString(b, p + 6))
         ELSE Bad
    ELSE Before(<<Unlettered(b[p + 1])>>, JsonString(b, p + 2))

Keyed(key, value) ==
    IF value.ok THEN Good([key |-> key, value |-> value.v], value.next) ELSE Bad

JsonMember(b, key) ==
    IF key.ok /\ key.next < Len(b) /\ b[key.next] = Colon
    THEN Keyed(key.v, JsonValue(b, key.next + 1)) ELSE Bad

JsonItem(b, p, closer) ==
    IF closer = CloseBracket THEN JsonValue(b, p)
    ELSE IF p < Len(b) /\ b[p] = Quote THEN JsonMember(b, JsonString(b, p + 1)) ELSE Bad

JsonRest(b, item, closer) ==
    IF ~item.ok \/ item.next > Len(b) THEN Bad
    ELSE CASE b[item.next] = closer -> Good(<<item.v>>, item.next + 1)
           [] b[item.next] = Comma -> Before(<<item.v>>, JsonList(b, item.next + 1, closer))
           [] OTHER -> Bad

JsonList(b, p, closer) == JsonRest(b, JsonItem(b, p, closer), closer)

JsonValue(b, p) ==
    IF p >= Len(b) THEN Bad
    ELSE CASE b[p] = Quote -> Value("string", JsonString(b, p + 1))
           [] b[p] \in {OpenBracket, OpenBrace} ->
                LET closer == b[p] + 2
                IN  Value(IF b[p] = OpenBrace THEN "object" ELSE "array",
                          IF b[p + 1] = closer THEN Good(<<>>, p + 2)
                          ELSE JsonList(b, p + 1, closer))
           [] b[p] \in 48..57 -> Value("number", Good(<<b[p]>>, p + 1))
           [] OTHER -> Bad

JsonAll(r, end) == IF r.ok /\ r.next = end THEN r ELSE Bad
JsonRead(b) == JsonAll(JsonValue(b, 1), Len(b) + 1)

IsString(v) == v.t = "string"
IsTag(v) == v.t = "array" /\ \A i \in DOMAIN v.v : IsString(v.v[i])
IsTags(v) == v.t = "array" /\ \A i \in DOMAIN v.v : IsTag(v.v[i])
TagOf(v) == [i \in DOMAIN v.v |-> v.v[i].v]
TagsOf(v) == [i \in DOMAIN v.v |-> TagOf(v.v[i])]

(* The value of a key, and what a field is without it. *)
Has(r, key) == \E i \in DOMAIN r.v.v : r.v.v[i].key = key
At(r, key) == r.v.v[CHOOSE i \in DOMAIN r.v.v : r.v.v[i].key = key].value

EventOf(r) ==
    IF /\ r.ok /\ r.v.t = "object"
       /\ \A k \in {KeyId, KeyContent, KeySig} : Has(r, k) /\ IsString(At(r, k))
       /\ Has(r, KeyTags) /\ IsTags(At(r, KeyTags))
    THEN [id |-> At(r, KeyId).v, tags |-> TagsOf(At(r, KeyTags)),
          content |-> At(r, KeyContent).v, sig |-> At(r, KeySig).v]
    ELSE Error

(* The letters for which UnmarshalingFilter has a field: not z. *)
FilterLetters == (97..121) \cup (65..89)

CopyUnmarshalFilterToFilter(r) ==
    [tags |-> [l \in {l \in FilterLetters : Has(r, KeyTag(l)) /\ At(r, KeyTag(l)).v # <<>>}
                 |-> TagOf(At(r, KeyTag(l)))],
     search |-> IF Has(r, KeySearch) THEN At(r, KeySearch).v ELSE <<>>]

FilterOf(r) ==
    IF /\ r.ok /\ r.v.t = "object"
       /\ \A l \in FilterLetters : Has(r, KeyTag(l)) => IsTag(At(r, KeyTag(l)))
       /\ Has(r, KeySearch) => IsString(At(r, KeySearch))
    THEN CopyUnmarshalFilterToFilter(r) ELSE Error

JsonFilter(b) == FilterOf(JsonRead(b))

-----------------------------------------------------------------------------
(***************************************************************************)
(* ProcessEnvelope.                                                        *)
(***************************************************************************)
WireIdle ==
    /\ sent = Nothing /\ spaced = FALSE /\ stage = "idle" /\ cursor = 0
    /\ label = "none" /\ received = Nothing

WireInit ==
    /\ sent \in Messages
    /\ spaced \in BOOLEAN
    /\ stage = "sent" /\ cursor = 1 /\ label = "none" /\ received = Nothing

(* The next string: what is between the quotes, and where it ends. *)
NextString(b, p) ==
    LET start == ScanThrough(b, p, Quote)
        end == Scan(b, start, Quote)
    IN  IF start = 0 \/ end = 0 THEN [text |-> <<>>, end |-> 0]
        ELSE [text |-> SubSeq(b, start, end - 1), end |-> end]

(* The first string in the array is the label. *)
Labelled(first) ==
    LET matches == {l \in DOMAIN Label : Label[l] = first.text}
    IN  IF first.end = 0 \/ matches = {}
        THEN stage' = "read" /\ received' = Error /\ UNCHANGED <<cursor, label>>
        ELSE /\ stage' = "identified"
             /\ cursor' = first.end /\ label' \in matches
             /\ UNCHANGED received

StringIn(b) == NextString(b, ScanThrough(b, cursor, OpenBracket))

Identify ==
    /\ stage = "sent"
    /\ Labelled(StringIn(Bytes(sent)))
    /\ UNCHANGED <<sent, spaced>>

Object(b, p) == SubSeq(b, p, ReadEnclosed(b, p))

EventAt(b, p) ==
    LET start == Scan(b, p, OpenBrace)
    IN  IF start = 0 \/ ReadEnclosed(b, start) = 0 THEN Error
        ELSE EventOf(JsonRead(Object(b, start)))

(* The filters of a REQ, each followed by a comma or the closing bracket; *)
(* Error stands among them for one that is not read.                       *)
RECURSIVE ReqFilters(_, _), CountFilters(_, _)
ReqFilters(b, p) ==
    LET start == Scan(b, p, OpenBrace)
        end == ReadEnclosed(b, start)
        next == ScanForOneOf(b, Past(end), {Comma, CloseBracket})
    IN  IF start = 0 \/ end = 0 \/ next = 0 THEN <<Error>>
        ELSE <<JsonFilter(Object(b, start))>>
                \o IF b[next] = CloseBracket THEN <<>> ELSE ReqFilters(b, next + 1)

(* Those of a COUNT: one has to start right after the comma. *)
CountFilters(b, p) ==
    LET end == ReadEnclosed(b, p)
        comma == ScanThrough(b, Past(end), Comma)
    IN  IF end = 0 THEN <<Error>>
        ELSE <<JsonFilter(Object(b, p))>>
                \o IF comma = 0 THEN <<>> ELSE CountFilters(b, comma)

EventFor(event, sub) ==
    IF event = Error THEN Error ELSE [type |-> "EVENT", event |-> event, sub |-> sub]

UnmarshalEvent(b, p) ==
    LET which == ScanForOneOf(b, Scan(b, p, Comma), {Quote, OpenBrace})
        sub == NextString(b, which)
    IN  IF which # 0 /\ b[which] = Quote
        THEN EventFor(EventAt(b, Scan(b, sub.end, Comma)), sub.text)
        ELSE EventFor(EventAt(b, which), <<>>)

UnmarshalOk(b, p) ==
    LET id == NextString(b, ScanThrough(b, p, Comma))
        bool == ScanThrough(b, id.end, Comma)
        next == Scan(b, bool, Comma)
        text == NextString(b, next)
        word == SelectSeq(SubSeq(b, bool, next - 1), LAMBDA c : c # Space)
    IN  IF \/ text.end = 0 \/ Len(id.text) # IdLength \/ ~(ToSet(id.text) \subseteq HexDigits)
           \/ word \notin {True, False}
        THEN Error
        ELSE [type |-> "OK", id |-> id.text, ok |-> word = True,
              text |-> UnescapeByteString(text.text)]

(* NOTICE and the challenge of AUTH. *)
UnmarshalText(b, p, type) ==
    LET text == NextString(b, Scan(b, p, Comma))
    IN  IF text.end = 0 THEN Error
        ELSE [type |-> type, text |-> UnescapeByteString(text.text)]

(* EOSE and CLOSE. *)
UnmarshalSub(b, p, type) ==
    LET sub == NextString(b, Scan(b, p, Comma))
    IN  IF sub.end = 0 THEN Error ELSE [type |-> type, sub |-> sub.text]

UnmarshalClosed(b, p) ==
    LET sub == NextString(b, Scan(b, p, Comma))
        text == NextString(b, Past(sub.end))
    IN  IF text.end = 0 THEN Error
        ELSE [type |-> "CLOSED", sub |-> sub.text, text |-> UnescapeByteString(text.text)]

Asking(type, sub, filters) ==
    IF Error \in ToSet(filters) THEN Error ELSE [type |-> type, sub |-> sub, filters |-> filters]

UnmarshalReq(b, p) ==
    LET after == ScanThrough(b, p, Comma)
        which == ScanForOneOf(b, after, {OpenBrace, Quote})
        sub == NextString(b, which)
        hasSub == which # 0 /\ b[which] = Quote
    IN  Asking("REQ", IF hasSub THEN sub.text ELSE <<>>,
               ReqFilters(b, ScanThrough(b, IF hasSub THEN sub.end ELSE after, Comma)))

(* A COUNT is looked into, to tell the answer from the request, and taken  *)
(* for a request whatever is found.                                        *)
UnmarshalCount(b, p) ==
    LET sub == NextString(b, ScanThrough(b, p, Comma))
        start == Scan(b, sub.end, OpenBrace)
        key == NextString(b, start)
    IN  IF start = 0 \/ key.end = 0 THEN Error
        ELSE Asking("COUNT", sub.text, CountFilters(b, start))

UnmarshalAuth(b, p) ==
    LET which == ScanForOneOf(b, ScanThrough(b, p, Comma), {OpenBrace, Quote})
        Response(event) ==
            IF event = Error THEN Error ELSE [type |-> "RESPONSE", event |-> event]
    IN  CASE which = 0 -> Error
          [] which # 0 /\ b[which] = Quote -> UnmarshalText(b, p, "CHALLENGE")
          [] OTHER -> Response(EventAt(b, Scan(b, p, Comma)))

Unmarshal(b, p) ==
    CASE label = "EVENT" -> UnmarshalEvent(b, p)
      [] label = "OK" -> UnmarshalOk(b, p)
      [] label = "NOTICE" -> UnmarshalText(b, p, "NOTICE")
      [] label \in {"EOSE", "CLOSE"} -> UnmarshalSub(b, p, label)
      [] label = "CLOSED" -> UnmarshalClosed(b, p)
      [] label = "REQ" -> UnmarshalReq(b, p)
      [] label = "COUNT" -> UnmarshalCount(b, p)
      [] label = "AUTH" -> UnmarshalAuth(b, p)

ReadMatched ==
    /\ stage = "identified"
    /\ received' = Unmarshal(Bytes(sent), cursor)
    /\ stage' = "read"
    /\ UNCHANGED <<sent, spaced, cursor, label>>

WireNext == Identify \/ ReadMatched

-----------------------------------------------------------------------------
(***************************************************************************)
(* What is read back.                                                      *)
(***************************************************************************)
(* A text whose closing quote is taken for one: it does not end in a       *)
(* backslash.                                                              *)
Closes(s) == s = <<>> \/ Last(s) # Backslash

(* A text that is written as it is. *)
Plain(s) == \A i \in DOMAIN s : Safe(s[i])

PlainTags(e) == \A i \in DOMAIN e.tags : \A j \in DOMAIN e.tags[i] : Plain(e.tags[i][j])

ReadableEvent(e) ==
    /\ Closes(e.content)
    /\ \A i \in DOMAIN e.tags :
          e.tags[i] # <<>> /\ \A j \in DOMAIN e.tags[i] : Closes(e.tags[i][j])

ReadableFilter(f) ==
    /\ DOMAIN f.tags \subseteq FilterLetters
    /\ \A l \in DOMAIN f.tags : \A j \in DOMAIN f.tags[l] : Plain(f.tags[l][j])
    /\ Closes(f.search)

(* What the code can be expected to read: texts that do not end in a       *)
(* backslash; subscription ids and the values of filters without anything  *)
(* to escape; no empty tag; filters by the letters it knows; no answer to  *)
(* a COUNT, and in its request a filter that asks for something, and only  *)
(* one if there is white space.                                            *)
Readable(e) ==
    CASE e.type = "EVENT" -> Plain(e.sub) /\ ReadableEvent(e.event)
      [] e.type = "RESPONSE" -> ReadableEvent(e.event)
      [] e.type \in {"OK", "NOTICE", "CHALLENGE"} -> Closes(e.text)
      [] e.type \in {"EOSE", "CLOSE"} -> Plain(e.sub)
      [] e.type = "CLOSED" -> Plain(e.sub) /\ Closes(e.text)
      [] e.type = "REQ" -> Plain(e.sub) /\ \A i \in DOMAIN e.filters : ReadableFilter(e.filters[i])
      [] e.type = "COUNT" ->
            /\ Plain(e.sub) /\ \A i \in DOMAIN e.filters : ReadableFilter(e.filters[i])
            /\ FilterText(e.filters[1]) # <<OpenBrace, CloseBrace>>
            /\ spaced => Len(e.filters) = 1
      [] e.type = "COUNTED" -> FALSE

(* What the canonical form says of the event. *)
Says(canonical, e) ==
    /\ canonical.ok
    /\ TagsOf(canonical.v.v[1]) = e.tags
    /\ canonical.v.v[2].v = e.content

(* Every readable envelope is read back as it was sent, with or without    *)
(* white space between its parts, whatever quotes, braces, commas and line *)
(* ends its texts hold.  On their own all texts, those of the notices sent, *)
(* survive being escaped and unescaped in place, even if every byte was    *)
(* escaped by its number, and the two ways to escape agree.  The canonical *)
(* form of an event with plain tags says what its tags and content are     *)
(* (rfc8259.go:231-347, unescape.go:125-258, mangle.go:84-190,             *)
(* event.go:78-80).                                                        *)
ReadBack ==
    /\ stage = "read" /\ Readable(sent) => received = sent
    /\ stage = "sent" /\ sent.type \in {"EVENT", "RESPONSE"} /\ PlainTags(sent.event) =>
          Says(JsonRead(ToCanonical(sent.event)), sent.event)
    /\ stage = "sent" /\ sent.type = "NOTICE" =>
          /\ UnescapeByteString(appendString(sent.text)) = sent.text
          /\ UnescapeByteString(FlattenSeq([i \in DOMAIN sent.text |-> Unicode(sent.text[i])]))
                = sent.text
          /\ EscapeString(sent.text) = EscapeJSONStringAndWrap(sent.text)
          /\ JsonRead(EscapeString(sent.text)).v.v = sent.text
=============================================================================
