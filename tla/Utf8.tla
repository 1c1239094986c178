-------------------------------- MODULE Utf8 --------------------------------
(***************************************************************************)
(* Characters of a byte string (src/src/utf8.rs): the lenient decoding     *)
(* every character operation uses, and the strict decoding of the standard *)
(* library that the printer and codepoints ask as well.                    *)
(***************************************************************************)
EXTENDS Integers, Sequences, SequencesExt

Byte == 0..255

LeadLen(lead) ==
  CASE lead \in 192..223 -> 2
    [] lead \in 224..239 -> 3
    [] lead \in 240..247 -> 4
    [] OTHER             -> 1

\* Where each character begins: a character that the string cuts short ends
\* with the string.
CharStarts(bytes) ==
  LET starts[i \in 1..Len(bytes) + 4] ==
        IF i > Len(bytes) THEN <<>>
        ELSE <<i>> \o starts[i + LeadLen(bytes[i])]
  IN  starts[1]

\* The bytes of each character.
Chars(bytes) ==
  LET starts == CharStarts(bytes)
      Stop(k) == IF k = Len(starts) THEN Len(bytes) ELSE starts[k + 1] - 1
  IN  [k \in DOMAIN starts |-> SubSeq(bytes, starts[k], Stop(k))]

\* The idx-th character from 0, or from the end; <<>> where there is none.
CharAt(bytes, idx) ==
  LET chars == Chars(bytes)
      k     == IF idx >= 0 THEN idx + 1 ELSE Len(chars) + idx + 1
  IN  IF k \in DOMAIN chars THEN chars[k] ELSE <<>>

(* Strict decoding: std::str::from_utf8 and char::encode_utf8. *)

Tail6(b) == b % 64

\* The code point written by the bytes of one character, or -1.
Scalar(char) ==
  LET b(i)  == char[i]
      Follows(n) == Len(char) = n /\ \A i \in 2..n : b(i) \in 128..191
      two   == (b(1) % 32) * 64 + Tail6(b(2))
      three == (b(1) % 16) * 4096 + Tail6(b(2)) * 64 + Tail6(b(3))
      four  == (b(1) % 8) * 262144 + Tail6(b(2)) * 4096 + Tail6(b(3)) * 64 + Tail6(b(4))
  IN  CASE b(1) < 128 -> b(1)
        [] b(1) \in 192..223 /\ Follows(2) /\ two >= 128 -> two
        [] b(1) \in 224..239 /\ Follows(3) /\ three >= 2048
             /\ three \notin 55296..57343 -> three
        [] b(1) \in 240..247 /\ Follows(4) /\ four \in 65536..1114111 -> four
        [] OTHER -> -1

Encode(c) ==
  LET Continues(n) == 128 + (n % 64)
  IN  IF c < 128 THEN <<c>>
      ELSE IF c < 2048 THEN <<192 + (c \div 64), Continues(c)>>
      ELSE IF c < 65536
        THEN <<224 + (c \div 4096), Continues(c \div 64), Continues(c)>>
      ELSE <<240 + (c \div 262144), Continues(c \div 4096), Continues(c \div 64), Continues(c)>>

IsUtf8(bytes) == \A k \in DOMAIN Chars(bytes) : Scalar(Chars(bytes)[k]) # -1

\* A character that is not well formed counts as its first byte.
Codepoints(bytes) ==
  LET chars == Chars(bytes)
  IN  [k \in DOMAIN chars |->
         IF Scalar(chars[k]) = -1 THEN chars[k][1] ELSE Scalar(chars[k])]
=============================================================================
