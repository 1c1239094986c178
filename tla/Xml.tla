-------------------------------- MODULE Xml ---------------------------------
(***************************************************************************)
(* xml-parse (src/src/xml.rs): a document as bytes to the list of its      *)
(* nodes, shaped by option bits and the type tags, or to nil and what      *)
(* xml-error then answers.                                                 *)
(***************************************************************************)
EXTENDS Scan, Values, Utf8

\* A shape is a set of option bits ("no-whitespace", "no-empty-attr",
\* "no-comments", "tags-as-syms", "sxml-attr") and the tag of each kind of node
\* ("text", "cdata", "comment", "element"); a tag of nil is dropped.

XmlBlank == {32, 9, 10, 12, 13}

CommentOpen  == <<60, 33, 45, 45>>
CommentClose == <<45, 45, 62>>
CdataOpen    == <<60, 33, 91, 67, 68, 65, 84, 65, 91>>
CdataClose   == <<93, 93, 62>>
DeclOpen     == <<60, 33>>
ProcOpen     == <<60, 63>>
ProcClose    == <<63, 62>>
EndOpen      == <<60, 47>>
EmptyClose   == <<47, 62>>
Lt   == 60
Gt   == 62
Amp  == 38
Semi == 59

(* Entities. *)

Entities == {[name |-> <<108, 116>>, is |-> <<Lt>>],
             [name |-> <<103, 116>>, is |-> <<Gt>>],
             [name |-> <<97, 109, 112>>, is |-> <<Amp>>],
             [name |-> <<113, 117, 111, 116>>, is |-> <<34>>],
             [name |-> <<97, 112, 111, 115>>, is |-> <<39>>]}

\* A reference #n or #xn to a character, the number with a plus sign or
\* without; <<>> where it is none.
Reference(ent) ==
  LET hex    == Len(ent) > 1 /\ ent[2] \in {88, 120}
      number == SubSeq(ent, IF hex THEN 3 ELSE 2, Len(ent))
      digits == IF number # <<>> /\ number[1] = 43 THEN Tail(number) ELSE number
      n      == Number([k \in DOMAIN digits |-> HexValue(digits[k])], IF hex THEN 16 ELSE 10)
  IN  IF /\ digits # <<>>
         /\ \A k \in DOMAIN digits : IF hex THEN IsHex(digits[k]) ELSE digits[k] \in 48..57
         /\ IsScalar(n)
        THEN Encode(n) ELSE <<>>

Replaced(ent) ==
  CASE \E e \in Entities : e.name = ent -> (CHOOSE e \in Entities : e.name = ent).is
    [] ent # <<>> /\ ent[1] = 35        -> Reference(ent)
    [] OTHER                            -> <<>>

\* The semicolon is taken for text.
KeepSemicolon(semi) == semi

AfterEntity(semi) == semi + 1

\* An ampersand that begins no entity stands for itself.
DecodeEntities(s) ==
  LET from[k \in 0..Len(s)] ==
        LET Entity(is, semi) == IF semi < Len(s) /\ is # <<>>
              THEN is \o from[AfterEntity(semi)] ELSE <<Amp>> \o from[k + 1]
            UpTo(semi) == Entity(Replaced(Between(s, k + 1, semi)), semi)
        IN  IF k = Len(s) THEN <<>>
            ELSE IF At(s, k) = Amp THEN UpTo(Find(s, k + 1, <<Semi>>))
            ELSE <<At(s, k)>> \o from[k + 1]
  IN  from[0]

(* Nodes. *)

\* The tag of a slot, a symbol if asked for.
Tag(slot, shape) ==
  IF "tags-as-syms" \in shape.options /\ shape.tags[slot].t = "str"
    THEN Symbol(Main(shape.tags[slot].text)) ELSE shape.tags[slot]

\* The tag and the content, or the content alone, unwrapped if it is one item.
Node(tag, content) ==
  IF tag # Nil THEN List(<<tag>> \o content)
  ELSE IF Len(content) = 1 THEN content[1]
  ELSE List(content)

TextNode(slot, text, shape) == Node(Tag(slot, shape), <<Str(text)>>)

\* With sxml-attr the attributes are a group of their own, left out if empty.
AttrGroup(attrs, options) ==
  IF attrs = <<>> /\ {"sxml-attr", "no-empty-attr"} \cap options # {} THEN <<>>
  ELSE IF "sxml-attr" \in options THEN <<List(<<Symbol(Main(<<64>>))>> \o attrs)>>
  ELSE <<List(attrs)>>

ElementNode(name, attrs, children, shape) ==
  LET title == IF "tags-as-syms" \in shape.options THEN Symbol(Main(name)) ELSE Str(name)
  IN  Node(Tag("element", shape),
           <<title>> \o AttrGroup(attrs, shape.options) \o <<List(children)>>)

(* Scanning. *)

NameEnd(s, p) ==
  Skip(s, p, Byte \ (XmlBlank \cup {Gt, 47, 61}))

\* What lies between an opening and a closing mark, of which p is past the first.
Enclosed(s, p, close, msg) ==
  LET UpTo(end) == IF StartsAt(s, end, close) THEN Parsed(Between(s, p, end), end + Len(close))
                   ELSE Failed(msg, end)
  IN  UpTo(Find(s, p, close))

\* <! ... >, with a subset in brackets.
SkipDecl(s, p) ==
  LET depth[k \in (p + 1)..Len(s)] ==
        IF k = p + 1 THEN 0
        ELSE depth[k - 1] + (CASE At(s, k) = 91 -> 1 [] At(s, k) = 93 -> -1 [] OTHER -> 0)
      ends == {k \in (p + 2)..(Len(s) - 1) : At(s, k) = Gt /\ depth[k] <= 0}
  IN  IF ends = {} THEN Failed("unterminated declaration", Len(s))
      ELSE Parsed(<<>>, 1 + CHOOSE k \in ends : \A other \in ends : k <= other)

\* The position of the next byte that is not blank, given to a rest.
PastSpace(s, p, Rest(_)) == Rest(Skip(s, p, XmlBlank))

TakeAttribute(s, p) ==
  LET Value(key, open, end) ==
        IF end = Len(s) THEN Failed("unterminated attribute value", end)
        ELSE Parsed(List(<<Str(key), Str(DecodeEntities(Between(s, open + 1, end)))>>), end + 1)
      InQuotes(key, open) ==
        IF At(s, open) \notin {34, 39} THEN Failed("expected quoted attribute value", open)
        ELSE Value(key, open, Find(s, open + 1, <<At(s, open)>>))
      Equals(key, q) ==
        IF At(s, q) # 61 THEN Failed("expected = in attribute", q)
        ELSE PastSpace(s, q + 1, LAMBDA open : InQuotes(key, open))
      Key(end) == PastSpace(s, end, LAMBDA q : Equals(Between(s, p, end), q))
  IN  Key(NameEnd(s, p))

\* The attributes of a start tag up to its > or />; closed tells which.
RECURSIVE TakeAttributes(_, _, _)
TakeAttributes(s, from, attrs) ==
  LET Done(closed, q) == Parsed([attrs |-> attrs, closed |-> closed], q)
      Read(p) ==
        CASE At(s, p) = Gt -> Done(FALSE, p + 1)
          [] StartsAt(s, p, EmptyClose) -> Done(TRUE, p + 2)
          [] p = Len(s) -> Failed("unterminated start tag", p)
          [] OTHER -> AndThen(TakeAttribute(s, p),
                        LAMBDA attr : TakeAttributes(s, attr.pos, Append(attrs, attr.v)))
  IN  PastSpace(s, from, Read)

RECURSIVE ParseNodes(_, _, _, _, _), ParseElement(_, _, _)

\* The nodes from p to the end of the document, or inside an element to its
\* closing tag.
ParseNodes(s, p, inside, nodes, shape) ==
  LET On(seen, q) == ParseNodes(s, q, inside, nodes \o seen, shape)
      Comment(got) ==
        On(IF "no-comments" \in shape.options THEN <<>>
           ELSE <<TextNode("comment", got.v, shape)>>, got.pos)
      Plain(text, q) ==
        On(IF (\A k \in DOMAIN text : text[k] \in XmlBlank) /\ "no-whitespace" \in shape.options
             THEN <<>> ELSE <<TextNode("text", text, shape)>>, q)
      TextTo(q) == Plain(DecodeEntities(Between(s, p, q)), q)
  IN  CASE p >= Len(s) ->
             IF inside THEN Failed("expected closing tag", p) ELSE Parsed(nodes, p)
        [] StartsAt(s, p, EndOpen) ->
             IF inside THEN Parsed(nodes, p) ELSE Failed("unexpected closing tag", p)
        [] StartsAt(s, p, CommentOpen) ->
             AndThen(Enclosed(s, p + 4, CommentClose, "unterminated comment"), Comment)
        [] StartsAt(s, p, CdataOpen) ->
             AndThen(Enclosed(s, p + 9, CdataClose, "unterminated CDATA"),
               LAMBDA got : On(<<TextNode("cdata", got.v, shape)>>, got.pos))
        [] StartsAt(s, p, ProcOpen) ->
             AndThen(Enclosed(s, p + 2, ProcClose, "unterminated processing instruction"),
               LAMBDA got : On(<<>>, got.pos))
        [] StartsAt(s, p, DeclOpen) /\ ~StartsAt(s, p, CommentOpen)
           /\ ~StartsAt(s, p, CdataOpen) ->
             AndThen(SkipDecl(s, p), LAMBDA got : On(<<>>, got.pos))
        [] At(s, p) # Lt /\ p < Len(s) -> TextTo(Skip(s, p, Byte \ {Lt}))
        [] OTHER -> AndThen(ParseElement(s, p, shape), LAMBDA got : On(<<got.v>>, got.pos))

\* The element whose < is at p.
ParseElement(s, p, shape) ==
  LET Closed(start, children, name, end) == PastSpace(s, end, LAMBDA q :
        IF Between(s, children.pos + 2, end) # name THEN Failed("mismatched closing tag", end)
        ELSE IF At(s, q) # Gt THEN Failed("expected closing tag: >", q)
        ELSE Parsed(ElementNode(name, start.v.attrs, children.v, shape), q + 1))
      Inside(start, name) ==
        IF start.v.closed THEN Parsed(ElementNode(name, start.v.attrs, <<>>, shape), start.pos)
        ELSE AndThen(ParseNodes(s, start.pos, TRUE, <<>>, shape),
               LAMBDA children : Closed(start, children, name, NameEnd(s, children.pos + 2)))
      Start(end) ==
        IF end = p + 1 THEN Failed("expected element name", end)
        ELSE AndThen(TakeAttributes(s, end, <<>>),
               LAMBDA start : Inside(start, Between(s, p + 1, end)))
  IN  Start(NameEnd(s, p + 1))

\* The value and the error of a call, with options and tags.
XmlParse(s, shape) ==
  LET Answer(got) == IF got.ok THEN [value |-> List(got.v), error |-> <<>>]
                     ELSE [value |-> Nil, error |-> <<got.msg, got.pos>>]
  IN  Answer(ParseNodes(s, 0, FALSE, <<>>, shape))
=============================================================================
