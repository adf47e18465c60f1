------------------------------- MODULE OciDate ------------------------------
(***************************************************************************)
(* Dates and their texts: the format models the mock interprets            *)
(* (ideas/binding/include/binding/oci_mock.h) and the OciDate and          *)
(* OciTimestamp values built on them (oci_datetime.h).  A text and a       *)
(* format are sequences of characters, a character a one-letter string; a  *)
(* moment is the record of its six fields.                                 *)
(***************************************************************************)
EXTENDS Integers, Sequences

CONSTANT CurrentYear \* what std::localtime says

ASSUME CurrentYearAssumption == CurrentYear \in Nat

Digits == <<"0", "1", "2", "3", "4", "5", "6", "7", "8", "9">>
Months ==
    <<<<"J", "A", "N">>, <<"F", "E", "B">>, <<"M", "A", "R">>, <<"A", "P", "R">>,
      <<"M", "A", "Y">>, <<"J", "U", "N">>, <<"J", "U", "L">>, <<"A", "U", "G">>,
      <<"S", "E", "P">>, <<"O", "C", "T">>, <<"N", "O", "V">>, <<"D", "E", "C">>>>

\* Keywords in the order they are tried: the longer of two with a common start
\* comes first.
Keywords ==
    <<[word |-> <<"Y", "Y", "Y", "Y">>, kind |-> "Year4"],
      [word |-> <<"H", "H", "2", "4">>, kind |-> "Hour24"],
      [word |-> <<"H", "H", "1", "2">>, kind |-> "Hour12"],
      [word |-> <<"R", "R">>, kind |-> "RRYear"],
      [word |-> <<"Y", "Y">>, kind |-> "Year2"],
      [word |-> <<"M", "O", "N">>, kind |-> "MonthAbbrev"],
      [word |-> <<"M", "M">>, kind |-> "Month"],
      [word |-> <<"D", "D">>, kind |-> "Day"],
      [word |-> <<"H", "H">>, kind |-> "Hour12"],
      [word |-> <<"M", "I">>, kind |-> "Minute"],
      [word |-> <<"S", "S">>, kind |-> "Second"],
      [word |-> <<"A", "M">>, kind |-> "Meridiem"],
      [word |-> <<"P", "M">>, kind |-> "Meridiem"]>>

Piece(s, at, n) == IF at + n - 1 <= Len(s) THEN SubSeq(s, at, at + n - 1) ELSE <<>>

\* Anything no keyword matches stands for itself.
TokenizeDateFormat(fmt) ==
    LET matching(i) == {k \in DOMAIN Keywords : Piece(fmt, i, Len(Keywords[k].word)) = Keywords[k].word}
        first(i) == CHOOSE k \in matching(i) : \A j \in matching(i) : k <= j
        from[i \in 1 .. Len(fmt) + 4] ==
            IF i > Len(fmt) THEN <<>>
            ELSE IF matching(i) = {} THEN <<[kind |-> "Literal", literal |-> fmt[i]]>> \o from[i + 1]
            ELSE <<[kind |-> Keywords[first(i)].kind, literal |-> ""]>>
                     \o from[i + Len(Keywords[first(i)].word)]
    IN  from[1]

\* Oracle's RR: the year of these two digits nearest to the current one.
RRYear(rr) ==
    LET century == CurrentYear \div 100
        early == CurrentYear % 100 <= 49
    IN  rr + 100 * (IF rr <= 49 THEN IF early THEN century ELSE century + 1
                    ELSE IF early THEN century - 1 ELSE century)

Epoch == [year |-> 1970, month |-> 1, day |-> 1, hour |-> 0, minute |-> 0, second |-> 0]

DigitOf(c) == (CHOOSE d \in 1 .. 10 : Digits[d] = c) - 1
IsNumber(cs, width) == Len(cs) = width /\ \A k \in DOMAIN cs : \E d \in 1 .. 10 : Digits[d] = cs[k]
NumberOf(cs) ==
    LET upto[k \in 0 .. Len(cs)] == IF k = 0 THEN 0 ELSE 10 * upto[k - 1] + DigitOf(cs[k])
    IN  upto[Len(cs)]

\* The element at the reader's position and the moment it makes of it.
Width(kind) == CASE kind = "Year4" -> 4 [] kind = "MonthAbbrev" -> 3
                 [] kind = "Literal" -> 1 [] OTHER -> 2

ReadToken(p, tok, text) ==
    LET cs == Piece(text, p.pos, Width(tok.kind))
        ok == p.ok /\ CASE tok.kind = "Literal" -> cs = <<tok.literal>>
                        [] tok.kind = "MonthAbbrev" -> \E m \in 1 .. 12 : Months[m] = cs
                        [] tok.kind = "Meridiem" -> cs \in {<<"A", "M">>, <<"P", "M">>}
                        [] OTHER -> IsNumber(cs, Width(tok.kind))
        read == [p EXCEPT !.pos = @ + Width(tok.kind)]
    IN  IF ~ok THEN [p EXCEPT !.ok = FALSE]
        ELSE CASE tok.kind = "Literal" -> read
               [] tok.kind = "Year4" -> [read EXCEPT !.out.year = NumberOf(cs)]
               [] tok.kind = "Year2" -> [read EXCEPT !.out.year = 2000 + NumberOf(cs)]
               [] tok.kind = "RRYear" -> [read EXCEPT !.out.year = RRYear(NumberOf(cs))]
               [] tok.kind = "Month" -> [read EXCEPT !.out.month = NumberOf(cs)]
               [] tok.kind = "MonthAbbrev" -> [read EXCEPT !.out.month = CHOOSE m \in 1 .. 12 : Months[m] = cs]
               [] tok.kind = "Day" -> [read EXCEPT !.out.day = NumberOf(cs)]
               [] tok.kind = "Hour24" -> [read EXCEPT !.out.hour = NumberOf(cs)]
               [] tok.kind = "Hour12" -> [read EXCEPT !.out.hour = NumberOf(cs), !.half = TRUE]
               [] tok.kind = "Minute" -> [read EXCEPT !.out.minute = NumberOf(cs)]
               [] tok.kind = "Second" -> [read EXCEPT !.out.second = NumberOf(cs)]
               [] tok.kind = "Meridiem" -> [read EXCEPT !.pm = cs[1] = "P", !.half = TRUE]

\* A twelve-hour reading becomes one of twenty-four.
HourOfKeepsTwelve(p) ==                           \* mutant: twelve is not special
    IF p.half /\ p.pm THEN p.out.hour + 12 ELSE p.out.hour
HourOf(p) ==
    CASE p.half /\ p.pm -> IF p.out.hour = 12 THEN 12 ELSE p.out.hour + 12
      [] p.half /\ ~p.pm -> IF p.out.hour = 12 THEN 0 ELSE p.out.hour
      [] OTHER -> p.out.hour

\* The whole text has to be read: [ok, out].
ParseWithMockFormat(text, fmt) ==
    LET tokens == TokenizeDateFormat(fmt)
        start == [ok |-> TRUE, pos |-> 1, out |-> Epoch, pm |-> FALSE, half |-> FALSE]
        after[k \in 0 .. Len(tokens)] ==
            IF k = 0 THEN start ELSE ReadToken(after[k - 1], tokens[k], text)
        p == after[Len(tokens)]
    IN  [ok |-> p.ok /\ p.pos = Len(text) + 1, out |-> [p.out EXCEPT !.hour = HourOf(p)]]

\* At least `width` digits.
ZeroPad(value, width) ==
    LET digit(k) == Digits[((value \div 10 ^ k) % 10) + 1]
        n == IF value >= 10 ^ width THEN width + 1 ELSE width
    IN  [i \in 1 .. n |-> digit(n - i)]

RenderToken(tok, t) ==
    CASE tok.kind = "Literal" -> <<tok.literal>>
      [] tok.kind = "Year4" -> ZeroPad(t.year, 4)
      [] tok.kind \in {"Year2", "RRYear"} -> ZeroPad(t.year % 100, 2)
      [] tok.kind = "Month" -> ZeroPad(t.month, 2)
      [] tok.kind = "MonthAbbrev" -> IF t.month \in 1 .. 12 THEN Months[t.month] ELSE <<"?", "?", "?">>
      [] tok.kind = "Day" -> ZeroPad(t.day, 2)
      [] tok.kind = "Hour24" -> ZeroPad(t.hour, 2)
      [] tok.kind = "Hour12" -> ZeroPad(IF t.hour % 12 = 0 THEN 12 ELSE t.hour % 12, 2)
      [] tok.kind = "Minute" -> ZeroPad(t.minute, 2)
      [] tok.kind = "Second" -> ZeroPad(t.second, 2)
      [] tok.kind = "Meridiem" -> IF t.hour < 12 THEN <<"A", "M">> ELSE <<"P", "M">>

RenderWithMockFormat(fmt, t) ==
    LET tokens == TokenizeDateFormat(fmt)
        upto[k \in 0 .. Len(tokens)] ==
            IF k = 0 THEN <<>> ELSE upto[k - 1] \o RenderToken(tokens[k], t)
    IN  upto[Len(tokens)]

----------------------------------------------------------------------------
(* The entry points and the two value types.                               *)

\* One byte a field, two the year.
Stored(t) == [f \in DOMAIN t |-> IF f = "year" THEN t[f] % 65536 ELSE t[f] % 256]

DateFromText(text, fmt) ==
    LET p == ParseWithMockFormat(text, fmt) IN [ok |-> p.ok, out |-> Stored(p.out)]
DateToText(t, fmt, capacity) ==
    LET r == RenderWithMockFormat(fmt, t) IN [ok |-> Len(r) <= capacity, out |-> r]

\* The descriptor holds a moment of its own, which is read back by parts.
DateTimeConstruct(t) == Stored(t)
DateTimeFromText(text, fmt) ==
    LET p == ParseWithMockFormat(text, fmt) IN [ok |-> p.ok, out |-> DateTimeConstruct(p.out)]
DateTimeToText(d, fmt, capacity) ==
    LET r == RenderWithMockFormat(fmt, d) IN [ok |-> Len(r) <= capacity, out |-> r]
DateTimeGet(d) ==
    [f \in {"year", "month", "day", "hour", "minute", "second"} |-> d[f]]

\* A given format, or the type's own default; no format at all throws.
ResolveFormat(fmt, default) == IF fmt # <<>> THEN fmt ELSE default
NoFormat(fmt, default) == ResolveFormat(fmt, default) = <<>>

BufferSize == 128

OciDateFromText(text, fmt, default) ==
    IF NoFormat(fmt, default) THEN [ok |-> FALSE, out |-> Epoch]
    ELSE DateFromText(text, ResolveFormat(fmt, default))
OciDateToText(t, fmt, default) ==
    IF NoFormat(fmt, default) THEN [ok |-> FALSE, out |-> <<>>]
    ELSE DateToText(t, ResolveFormat(fmt, default), BufferSize)

\* A descriptor lives for the length of the call, whether or not it succeeds.
OciTimestampFromText(text, fmt, default) ==
    LET p == DateTimeFromText(text, ResolveFormat(fmt, default))
    IN  IF NoFormat(fmt, default) THEN [ok |-> FALSE, out |-> Epoch]
        ELSE [ok |-> p.ok, out |-> DateTimeGet(p.out)]
OciTimestampToText(t, fmt, default) ==
    LET d == DateTimeConstruct(t)
    IN  IF NoFormat(fmt, default) THEN [ok |-> FALSE, out |-> <<>>]
        ELSE DateTimeToText(d, ResolveFormat(fmt, default), BufferSize)
=============================================================================
