------------------------------ MODULE WireText ------------------------------
(***************************************************************************)
(* The text of the messages between clients and relays (wire/text): how a  *)
(* string is escaped into JSON, how the cursor of a Buffer moves over a    *)
(* message, and how escapes are undone in place.                           *)
(*                                                                         *)
(* A text is a sequence of bytes.  Positions count from one; 0 is io.EOF,  *)
(* and looking from 0 finds nothing.                                       *)
(***************************************************************************)
EXTENDS Integers, Sequences, FiniteSets, SequencesExt

Backspace == 8
Tab == 9
LineFeed == 10
FormFeed == 12
CarriageReturn == 13
Space == 32
Quote == 34
Comma == 44
Digit0 == 48
Colon == 58
OpenBracket == 91
Backslash == 92
CloseBracket == 93
LowerU == 117
OpenBrace == 123
CloseBrace == 125

-----------------------------------------------------------------------------
(***************************************************************************)
(* Escaping.                                                               *)
(***************************************************************************)
Hex(n) == IF n < 10 THEN Digit0 + n ELSE 87 + n

(* The letter after the backslash, of those that have one. *)
Letters == {<<Backspace, 98>>, <<Tab, 116>>, <<LineFeed, 110>>, <<FormFeed, 102>>,
            <<CarriageReturn, 114>>}
HasLetter(c) == \E l \in Letters : l[1] = c
Letter(c) == (CHOOSE l \in Letters : l[1] = c)[2]

Safe(c) == c >= Space /\ c \notin {Quote, Backslash}

Unicode(c) == <<Backslash, LowerU, Digit0, Digit0, Hex(c \div 16), Hex(c % 16)>>

Escaped(c) ==
    CASE Safe(c) -> <<c>>
      [] c \in {Quote, Backslash} -> <<Backslash, c>>
      [] HasLetter(c) -> <<Backslash, Letter(c)>>
      [] OTHER -> Unicode(c)

appendString(s) == FlattenSeq([i \in DOMAIN s |-> Escaped(s[i])])

EscapeJSONStringAndWrap(s) == <<Quote>> \o appendString(s) \o <<Quote>>

(* The escaping that the one above replaced: the digits are computed by    *)
(* ranges of the byte.                                                     *)
LastDigits(c) ==
    CASE c < Tab -> <<Digit0, Digit0 + c>>
      [] c > Tab /\ c < 16 -> <<Digit0, 87 + c>>
      [] c >= 16 /\ c < 26 -> <<Digit0 + 1, 32 + c>>
      [] OTHER -> <<Digit0 + 1, 71 + c>>

EscapedByRange(c) ==
    CASE c \in {Quote, Backslash} -> <<Backslash, c>>
      [] c >= Space /\ c \notin {Quote, Backslash} -> <<c>>
      [] HasLetter(c) -> <<Backslash, Letter(c)>>
      [] OTHER -> <<Backslash, LowerU, Digit0, Digit0>> \o LastDigits(c)

EscapeString(s) ==
    <<Quote>> \o FlattenSeq([i \in DOMAIN s |-> EscapedByRange(s[i])]) \o <<Quote>>

-----------------------------------------------------------------------------
(***************************************************************************)
(* The cursor.                                                             *)
(***************************************************************************)
First(p, hits) ==
    LET ahead == {i \in hits : i >= p}
    IN  IF p = 0 \/ ahead = {} THEN 0 ELSE Min(ahead)

(* Seeded fault: a quote is a quote. *)
ScanPlain(b, p, c) == First(p, {i \in DOMAIN b : b[i] = c})

(* A quote after a backslash is passed over.  What is between quotes is    *)
(* not: inQuotes has no effect on what matches.                            *)
Scan(b, p, c) ==
    First(p, {i \in DOMAIN b : b[i] = c /\ ~(c = Quote /\ i > 1 /\ b[i - 1] = Backslash)})

Past(i) == IF i = 0 THEN 0 ELSE i + 1
ScanThrough(b, p, c) == Past(Scan(b, p, c))
ScanForOneOf(b, p, cs) == First(p, {i \in DOMAIN b : b[i] \in cs})

(* From an opening brace or bracket to the one that closes it. *)
ReadEnclosed(b, p) ==
    LET closer == IF b[p] = OpenBrace THEN CloseBrace ELSE CloseBracket
        Next(at, i) ==
            IF at.end # 0 THEN at
            ELSE LET depth == at.depth
                        + (IF b[i] = b[p] /\ ~at.inQuotes THEN 1 ELSE 0)
                        - (IF b[i] = closer /\ ~at.inQuotes THEN 1 ELSE 0)
                 IN  [depth |-> depth,
                      inQuotes |-> IF b[i] = Quote
                                   THEN at.inQuotes => i > 1 /\ b[i - 1] = Backslash
                                   ELSE at.inQuotes,
                      end |-> IF depth = 0 THEN i ELSE 0]
    IN  IF p = 0 \/ b[p] \notin {OpenBrace, OpenBracket} THEN 0
        ELSE FoldLeft(Next, [depth |-> 0, inQuotes |-> FALSE, end |-> 0],
                      [i \in 1..(Len(b) - p + 1) |-> p + i - 1]).end

-----------------------------------------------------------------------------
(***************************************************************************)
(* UnescapeByteString: one cursor reads, another writes over what was      *)
(* read.                                                                   *)
(***************************************************************************)
HexDigits == (48..57) \cup (65..70) \cup (97..102)
HexValue(c) == CASE c \in 48..57 -> c - 48 [] c \in 65..70 -> c - 55 [] OTHER -> c - 87

Unlettered(c) ==
    IF \E l \in Letters : l[2] = c THEN (CHOOSE l \in Letters : l[2] = c)[1] ELSE c

Written(b, p, s) == [i \in DOMAIN b |-> IF i \in p..(p + Len(s) - 1) THEN s[i - p + 1] ELSE b[i]]

(* The bytes that \u must be followed by: two zeros and two hex digits. *)
Wanted(j) == IF j < 4 THEN {Digit0} ELSE HexDigits

RECURSIVE UnescapeFrom(_, _, _)
UnescapeFrom(buf, in, out) ==
    LET k == Scan(buf, in, Backslash)
        segment == SubSeq(buf, in, IF k = 0 THEN Len(buf) ELSE k - 1)
        b == Written(buf, out, segment)
        o == out + Len(segment)
        amiss == {j \in 2..5 : k + j <= Len(b) /\ b[k + j] \notin Wanted(j)}
        Put(c, length) == UnescapeFrom(Written(b, o, <<c>>), k + length, o + 1)
        Skip(n) == UnescapeFrom(b, o + n, o + n)
        Ended == SubSeq(b, 1, o - 1)
    IN  CASE k = 0 \/ k = Len(b) -> Ended
          [] k \in 1..(Len(b) - 1) /\ b[k + 1] # LowerU -> Put(Unlettered(b[k + 1]), 2)
          [] OTHER ->
                CASE amiss # {} -> Skip(Min(amiss))
                  [] amiss = {} /\ k + 5 > Len(b) -> Ended
                  [] OTHER -> Put(16 * HexValue(b[k + 4]) + HexValue(b[k + 5]), 6)

UnescapeByteString(b) == UnescapeFrom(b, 1, 1)
=============================================================================
