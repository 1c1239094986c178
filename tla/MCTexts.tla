------------------------------ MODULE MCTexts -------------------------------
EXTENDS Texts, TLC

MCFirstDay == -750000

\* The days around leap years, centuries, the epoch and the eras of 400 years.
MCClockDays == -24000..24000

MCTags == [text |-> Str(<<84>>), cdata |-> Str(<<67>>), comment |-> Str(<<77>>),
           element |-> Str(<<69>>)]

\* A quote, a backslash, a brace of each kind, a newline, a control character,
\* a digit, and bytes of characters two and three long, and of none.
MCTextBytes == {34, 92, 123, 125, 10, 7, 49, 195, 169, 227, 255}

\* The empty string, markup and controls before a digit, characters of one to
\* four bytes.
MCWords == {<<>>, <<38, 34, 60, 10, 1, 49>>, <<92, 233, 26085, 128512>>}

Token(bytes, v) == [token |-> bytes, value |-> v]

MCAtoms == {
  Token(JsonTrue, True), Token(JsonNull, Symbol(Main("null"))),
  Token(JsonFalse, Symbol(Main("false"))), Token(<<45, 49, 50>>, Integer(-12)),
  Token(<<53, 46, 101, 45, 50>>, Float(<<53, 46, 101, 45, 50>>)) }

MCPieces == {
  Leaf("text", <<32, 10>>), Leaf("text", <<60, 38, 108, 116, 59, 93>>), Leaf("cdata", <<38, 60, 93>>),
  Leaf("comment", <<45, 60>>) }

\* <?x>?> and <!D[<!E>]>
MCPrologs == {<<60, 63, 120, 62, 63, 62>>, <<60, 33, 68, 91, 60, 33, 69, 62, 93, 62>>}

Shape(options, tags) == [options |-> options, tags |-> tags]

MCPlainShape == Shape({}, MCTags)

MCShapes == {
  MCPlainShape, Shape({"no-whitespace", "tags-as-syms"}, MCTags),
  Shape({"no-empty-attr", "no-comments"}, [MCTags EXCEPT !.text = Nil]),
  Shape({"sxml-attr"}, [MCTags EXCEPT !.element = Nil]) }
=============================================================================
