-------------------------------- MODULE Scan --------------------------------
(***************************************************************************)
(* What the parsers of json.rs and xml.rs share: a position in a sequence  *)
(* of bytes, counted from 0 as in the code, moved on by looking at bytes.  *)
(***************************************************************************)
EXTENDS Integers, Sequences

\* The byte at a position, or -1 past the end.
At(s, p) == IF p < Len(s) THEN s[p + 1] ELSE -1

StartsAt(s, p, lit) == p + Len(lit) <= Len(s) /\ SubSeq(s, p + 1, p + Len(lit)) = lit

\* The first position from p, the end included, with none of these bytes.
Skip(s, p, bytes) ==
  CHOOSE q \in p..Len(s) : At(s, q) \notin bytes /\ \A r \in p..(q - 1) : At(s, r) \in bytes

\* The first position from p where lit begins, or the end.
Find(s, p, lit) ==
  CHOOSE q \in p..Len(s) : /\ q = Len(s) \/ StartsAt(s, q, lit)
                           /\ \A r \in p..(q - 1) : ~StartsAt(s, r, lit)

Between(s, p, q) == SubSeq(s, p + 1, q)

Parsed(v, p)   == [ok |-> TRUE, v |-> v, pos |-> p, msg |-> ""]
Failed(msg, p) == [ok |-> FALSE, v |-> <<>>, pos |-> p, msg |-> msg]

\* The rest of a reading, from where what has been read so far ended.
AndThen(got, Rest(_)) == IF got.ok THEN Rest(got) ELSE got

\* The number written by digits in a base, from their values.
Number(digits, base) ==
  LET n[k \in 0..Len(digits)] == IF k = 0 THEN 0 ELSE n[k - 1] * base + digits[k]
  IN  n[Len(digits)]

IsHex(b) == b \in 48..57 \/ b \in 65..70 \/ b \in 97..102

HexValue(b) == IF b <= 57 THEN b - 48 ELSE IF b <= 70 THEN b - 55 ELSE b - 87

\* char::from_u32 refuses surrogates and what lies beyond U+10FFFF.
IsScalar(n) == n \in 0..55295 \/ n \in 57344..1114111
=============================================================================
