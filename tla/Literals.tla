------------------------------ MODULE Literals ------------------------------
(***************************************************************************)
(* String literals as the printer writes and the reader reads them         *)
(* (repr_string of src/src/printer.rs, the string syntaxes of reader.rs).  *)
(* A text is a sequence of bytes; a reading that fails is NoText.          *)
(***************************************************************************)
EXTENDS Utf8

Quote     == 34
Backslash == 92
Newline   == 10
Return    == 13
TabByte   == 9
OpenBrace == 123
CloseBrace == 125

NoText == [ok |-> FALSE, text |-> <<>>, next |-> 0]

\* What a named escape stands for, and the letter that names it.
Named == [n \in {Newline, TabByte, Return, Backslash, Quote} |->
            CASE n = Newline -> 110 [] n = TabByte -> 116 [] n = Return -> 114
              [] OTHER -> n]

Digit(n) == 48 + n

Hundreds(b) == Digit(b \div 100)
Tens(b)     == Digit((b \div 10) % 10)
Ones(b)     == Digit(b % 10)

\* As few digits as will do: a digit after the escape would be read with it.
UnpaddedEscape(b) ==
  <<Backslash>> \o (IF b < 10 THEN <<Ones(b)>>
                    ELSE IF b < 100 THEN <<Tens(b), Ones(b)>>
                    ELSE <<Hundreds(b), Tens(b), Ones(b)>>)

NumericEscape(b) == <<Backslash, Hundreds(b), Tens(b), Ones(b)>>

\* Bytes of valid UTF-8 stay as they are above the controls; in any other
\* text only printable ASCII does.
PrintByte(b, valid) ==
  IF b \in DOMAIN Named THEN <<Backslash, Named[b]>>
  ELSE IF b \in 32..126 \/ (valid /\ b >= 127) THEN <<b>>
  ELSE NumericEscape(b)

ReprString(bytes) ==
  LET valid == IsUtf8(bytes)
  IN  <<Quote>> \o FlattenSeq([i \in DOMAIN bytes |-> PrintByte(bytes[i], valid)])
      \o <<Quote>>

ByteAt(src, i) == IF i \in DOMAIN src THEN src[i] ELSE -1

IsDigit(b) == b \in 48..57

\* The escape whose first byte after the backslash is at i: the byte it
\* stands for, and how many bytes it takes.
Escape(src, i) ==
  LET e == src[i]
      digits == IF ~IsDigit(ByteAt(src, i + 1)) THEN 1
                ELSE IF ~IsDigit(ByteAt(src, i + 2)) THEN 2 ELSE 3
      number[k \in 0..digits] ==
        IF k = 0 THEN 0 ELSE number[k - 1] * 10 + (src[i + k - 1] - 48)
  IN  IF IsDigit(e) THEN [byte |-> number[digits] % 256, size |-> digits]
      ELSE IF \E b \in DOMAIN Named : Named[b] = e
        THEN [byte |-> CHOOSE b \in DOMAIN Named : Named[b] = e, size |-> 1]
      ELSE [byte |-> e, size |-> 1]

\* The text of the literal whose first byte after the quote is at i.
ReadQuoted(src, i) ==
  LET more(b, rest) == [rest EXCEPT !.text = <<b>> \o @]
      read[k \in 1..Len(src) + 3] ==
        IF k > Len(src) THEN NoText
        ELSE IF src[k] = Quote THEN [ok |-> TRUE, text |-> <<>>, next |-> k + 1]
        ELSE IF src[k] # Backslash THEN more(src[k], read[k + 1])
        ELSE IF k = Len(src) THEN NoText
        ELSE LET esc == Escape(src, k + 1)
             IN  more(esc.byte, read[k + 1 + esc.size])
  IN  read[i]

\* {...}: no escapes, braces nest.
ReadBraced(src, i) ==
  LET depth[k \in (i - 1)..Len(src)] ==
        IF k = i - 1 THEN 1
        ELSE depth[k - 1] + (IF src[k] = OpenBrace THEN 1
                             ELSE IF src[k] = CloseBrace THEN -1 ELSE 0)
      ends == {k \in i..Len(src) : depth[k] = 0}
  IN  IF ends = {} THEN NoText
      ELSE LET k == CHOOSE k \in ends : \A other \in ends : k <= other
           IN  [ok |-> TRUE, text |-> SubSeq(src, i, k - 1), next |-> k + 1]

OpenTag  == <<91, 116, 101, 120, 116, 93>>
CloseTag == <<91, 47, 116, 101, 120, 116, 93>>

\* [text]...[/text]: up to the first closing tag.
ReadTagged(src, i) ==
  LET ends == {k \in i..Len(src) : IsPrefix(CloseTag, SubSeq(src, k, Len(src)))}
  IN  IF ends = {} THEN NoText
      ELSE LET k == CHOOSE k \in ends : \A other \in ends : k <= other
           IN  [ok |-> TRUE, text |-> SubSeq(src, i, k - 1), next |-> k + Len(CloseTag)]

\* The string literal that src begins with.
ReadLiteral(src) ==
  CASE ByteAt(src, 1) = Quote     -> ReadQuoted(src, 2)
    [] ByteAt(src, 1) = OpenBrace -> ReadBraced(src, 2)
    [] IsPrefix(OpenTag, src)     -> ReadTagged(src, Len(OpenTag) + 1)
    [] OTHER                      -> NoText
=============================================================================
