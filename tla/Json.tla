-------------------------------- MODULE Json --------------------------------
(***************************************************************************)
(* json-parse (src/src/json.rs): a document as bytes to a value, or to nil *)
(* and what json-error then answers.                                       *)
(***************************************************************************)
EXTENDS Scan, Values, Utf8

JsonBlank == {32, 9, 10, 13}

JsonTrue  == <<116, 114, 117, 101>>
JsonFalse == <<102, 97, 108, 115, 101>>
JsonNull  == <<110, 117, 108, 108>>
UnicodeEscape == <<92, 117>>

Replacement == 65533

\* b, f, n, r, t, the quote, the backslash and the slash.
ShortEscapes == {98, 102, 110, 114, 116, 34, 92, 47}

Unescaped(e) ==
  CASE e = 98 -> 8 [] e = 102 -> 12 [] e = 110 -> 10 [] e = 114 -> 13 [] e = 116 -> 9
    [] OTHER -> e

\* Four hexadecimal digits after the byte at p.
Hex4(s, p) ==
  IF p + 5 <= Len(s) /\ \A k \in 1..4 : IsHex(At(s, p + k))
    THEN Parsed(Number([k \in 1..4 |-> HexValue(At(s, p + k))], 16), p + 5)
    ELSE Failed("bad \\u escape", p + 1)

Character(n, p) == Parsed(Encode(IF IsScalar(n) THEN n ELSE Replacement), p)

\* The escape whose u is at p.  Of a surrogate pair the second u has already
\* been stepped over when Hex4 steps over a byte: it reads the digits from the
\* second one on.  A difference below zero wraps to a number that is no
\* character, or back into range, as a build without overflow checks has it.
CodeEscape(s, p) ==
  LET Pair(first, second) ==
        Character(65536 + (first.v - 55296) * 1024 + (second.v - 56320), second.pos)
      After(first) ==
        IF first.v \in 55296..56319 /\ StartsAt(s, first.pos, UnicodeEscape)
          THEN AndThen(Hex4(s, first.pos + 2), LAMBDA second : Pair(first, second))
          ELSE Character(first.v, first.pos)
  IN  AndThen(Hex4(s, p), After)

\* The character at p of a string, of one byte unless it is an escape.
StringChar(s, p) ==
  LET e == At(s, p + 1)
  IN  CASE At(s, p) # 92 -> Parsed(<<At(s, p)>>, p + 1)
        [] At(s, p) = 92 /\ e = 117 -> CodeEscape(s, p + 1)
        [] At(s, p) = 92 /\ e \in ShortEscapes -> Parsed(<<Unescaped(e)>>, p + 2)
        [] OTHER -> Failed("invalid escape", p + 1)

\* The bytes of the string whose quote is at p.
ParseString(s, p) ==
  LET Before(char, rest) == IF rest.ok THEN [rest EXCEPT !.v = char.v \o @] ELSE rest
      read[k \in p..Len(s)] ==
        CASE At(s, k) = -1 -> Failed("unterminated string", k)
          [] At(s, k) = 34 -> Parsed(<<>>, k + 1)
          [] OTHER -> AndThen(StringChar(s, k), LAMBDA char : Before(char, read[char.pos]))
  IN  read[p + 1]

AllDigits(bytes) == \A k \in DOMAIN bytes : bytes[k] \in 48..57

Unsigned(bytes) == IF bytes # <<>> /\ bytes[1] \in {43, 45} THEN Tail(bytes) ELSE bytes

Mantissa(bytes) ==
  LET digits == SelectSeq(bytes, LAMBDA b : b # 46)
  IN  digits # <<>> /\ AllDigits(digits) /\ Len(bytes) <= Len(digits) + 1

Exponent(bytes) ==
  \/ bytes = <<>>
  \/ bytes[1] \in {69, 101} /\ Unsigned(Tail(bytes)) # <<>> /\ AllDigits(Unsigned(Tail(bytes)))

\* What str::parse takes for an f64: digits with at most one point, and an
\* exponent.
IsFloat(tok) ==
  \E m \in 0..Len(tok) :
    Mantissa(Unsigned(SubSeq(tok, 1, m))) /\ Exponent(SubSeq(tok, m + 1, Len(tok)))

Decimal(digits) == Number([k \in DOMAIN digits |-> digits[k] - 48], 10)

NumberOf(tok, p, end) ==
  LET sign == IF tok[1] = 45 THEN -1 ELSE 1
      body == IF tok[1] = 45 THEN Tail(tok) ELSE tok
  IN  IF body # <<>> /\ AllDigits(body) THEN Parsed(Integer(sign * Decimal(body)), end)
      ELSE IF IsFloat(tok) THEN Parsed(Float(tok), end)
      ELSE Failed("invalid number", p)

\* The longest run of digits, points, signs and exponents; a Float keeps its
\* text.  Integers of more than nine digits are beyond the model's.
ParseNumber(s, p) ==
  LET Run(end) == NumberOf(Between(s, p, end), p, end)
  IN  Run(Skip(s, p + 1, (48..57) \cup {46, 101, 69, 43, 45}))

ParseLit(s, p, lit, v) ==
  IF StartsAt(s, p, lit) THEN Parsed(v, p + Len(lit)) ELSE Failed("invalid literal", p)

\* The position of the next byte that is not blank, given to a rest.
PastBlank(s, p, Rest(_)) == Rest(Skip(s, p, JsonBlank))

RECURSIVE ParseValue(_, _), ParseItems(_, _, _), ParseEntries(_, _, _)

\* true is the true value; false and null are the symbols.
ParseValue(s, from) ==
  LET Items(q)   == IF At(s, q) = 93 THEN Parsed(List(<<>>), q + 1) ELSE ParseItems(s, q, <<>>)
      Entries(q) == IF At(s, q) = 125 THEN Parsed(List(<<>>), q + 1) ELSE ParseEntries(s, q, <<>>)
      Read(p) ==
        LET b == At(s, p)
        IN  CASE b = 123 -> PastBlank(s, p + 1, Entries)
              [] b = 91  -> PastBlank(s, p + 1, Items)
              [] b = 34  -> AndThen(ParseString(s, p), LAMBDA text : Parsed(Str(text.v), text.pos))
              [] b = 116 -> ParseLit(s, p, JsonTrue, True)
              [] b = 102 -> ParseLit(s, p, JsonFalse, Symbol(Main("false")))
              [] b = 110 -> ParseLit(s, p, JsonNull, Symbol(Main("null")))
              [] b = 45 \/ b \in 48..57 -> ParseNumber(s, p)
              [] OTHER -> Failed("unexpected token", p)
  IN  PastBlank(s, from, Read)

ParseItems(s, p, items) ==
  LET More(now, q) ==
        CASE At(s, q) = 44 -> ParseItems(s, q + 1, now)
          [] At(s, q) = 93 -> Parsed(List(now), q + 1)
          [] OTHER         -> Failed("expected , or ]", q)
  IN  AndThen(ParseValue(s, p),
        LAMBDA item : PastBlank(s, item.pos, LAMBDA q : More(Append(items, item.v), q)))

ParseEntries(s, from, entries) ==
  LET More(now, q) ==
        CASE At(s, q) = 44  -> ParseEntries(s, q + 1, now)
          [] At(s, q) = 125 -> Parsed(List(now), q + 1)
          [] OTHER          -> Failed("expected , or }", q)
      With(key, val) == Append(entries, List(<<Str(key.v), val.v>>))
      Colon(key, q) ==
        IF At(s, q) # 58 THEN Failed("missing : colon", q)
        ELSE AndThen(ParseValue(s, q + 1),
               LAMBDA val : PastBlank(s, val.pos, LAMBDA r : More(With(key, val), r)))
      Key(p) ==
        IF At(s, p) # 34 THEN Failed("expected string key", p)
        ELSE AndThen(ParseString(s, p), LAMBDA key : PastBlank(s, key.pos, LAMBDA q : Colon(key, q)))
  IN  PastBlank(s, from, Key)

\* The value and the error of a call.
JsonParse(s) ==
  LET All(got) == PastBlank(s, got.pos, LAMBDA end :
        IF end = Len(s) THEN got ELSE Failed("extra data after JSON value", end))
      Answer(got) == IF got.ok THEN [value |-> got.v, error |-> <<>>]
                     ELSE [value |-> Nil, error |-> <<got.msg, got.pos>>]
  IN  Answer(AndThen(ParseValue(s, 0), All))
=============================================================================
