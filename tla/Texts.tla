------------------------------- MODULE Texts --------------------------------
(***************************************************************************)
(* Data written as text and read back: string literals (Literals), JSON    *)
(* and XML documents (Json, Xml) and dates (Calendar).  A session is about *)
(* one of them: it makes a larger and larger piece of data, and at every   *)
(* step what a writer that follows the format makes of it is given to the  *)
(* code to read.                                                           *)
(***************************************************************************)
EXTENDS Calendar, Literals, Json, Xml

CONSTANTS
  TextBytes, MaxText,      \* the bytes of a text, and how many
  Words,                   \* the strings of documents, as code points
  Atoms,                   \* numbers and literals of JSON: [token, value]
  MaxJson,                 \* the steps that make a JSON document
  Pieces, Prologs, MaxXml, \* text, CDATA and comments of XML, what comes before
  Shapes, PlainShape       \* options and type tags: [options, tags]

VARIABLES
  topic,     \* what the session is about
  text,      \* a string
  tree,      \* a JSON document
  forest,    \* the nodes of an XML document
  shape,     \* the options and type tags it is read with
  size       \* the steps it took

textVars == <<topic, text, tree, forest, shape, size>>
vars == <<textVars, calendarVars>>

(* JSON documents. *)

Item(v)  == [j |-> "atom", of |-> v]
Word(w)  == [j |-> "word", chars |-> w]
Array(items)    == [j |-> "array", items |-> items]
Object(entries) == [j |-> "object", entries |-> entries]   \* <<word, tree>>

Bytes(chars) == FlattenSeq([k \in DOMAIN chars |-> Encode(chars[k])])

\* Arrays and objects both become lists.
RECURSIVE JsonMeans(_)
JsonMeans(tr) ==
  CASE tr.j = "atom"   -> tr.of.value
    [] tr.j = "word"   -> Str(Bytes(tr.chars))
    [] tr.j = "array"  -> List([k \in DOMAIN tr.items |-> JsonMeans(tr.items[k])])
    [] tr.j = "object" ->
         List([k \in DOMAIN tr.entries |->
                 List(<<Str(Bytes(tr.entries[k][1])), JsonMeans(tr.entries[k][2])>>)])

HexDigit(n) == IF n < 10 THEN 48 + n ELSE 87 + n

UnicodeForm(c) ==
  UnicodeEscape \o <<HexDigit(c \div 4096), HexDigit((c \div 256) % 16),
                     HexDigit((c \div 16) % 16), HexDigit(c % 16)>>

\* A character may be written as itself or escaped; one beyond 16 bits, whose
\* escape is a surrogate pair, is always written as itself.
JsonChar(c, style) ==
  IF style = "code" /\ c < 65536 THEN UnicodeForm(c)
  ELSE CASE c \in {34, 92} -> <<92, c>>
         [] c = 10         -> <<92, 110>>
         [] c = 8          -> <<92, 98>>
         [] c < 32 /\ c \notin {8, 10} -> UnicodeForm(c)
         [] OTHER          -> Encode(c)

JsonString(chars, style) ==
  <<34>> \o FlattenSeq([k \in DOMAIN chars |-> JsonChar(chars[k], style)]) \o <<34>>

Joined(parts, between) ==
  FlattenSeq([k \in DOMAIN parts |-> IF k = 1 THEN parts[k] ELSE between \o parts[k]])

\* Escapes by code, with blanks, or the shortest form.
RECURSIVE JsonText(_, _)
JsonText(tr, style) ==
  LET gap == IF style = "code" THEN <<32>> ELSE <<>>
      Written(tree2) == gap \o JsonText(tree2, style) \o gap
      EntryText(e)   == gap \o JsonString(e[1], style) \o gap \o <<58>> \o Written(e[2])
  IN  CASE tr.j = "atom" -> tr.of.token
        [] tr.j = "word" -> JsonString(tr.chars, style)
        [] tr.j = "array" ->
             <<91>> \o Joined([k \in DOMAIN tr.items |-> Written(tr.items[k])], <<44>>)
             \o <<93>>
        [] tr.j = "object" ->
             <<123>> \o Joined([k \in DOMAIN tr.entries |-> EntryText(tr.entries[k])], <<44>>)
             \o <<125>>

(* XML documents: nodes of text, CDATA or comment, and elements. *)

Leaf(kind, chars)  == [x |-> kind, chars |-> chars]
Element(attrs, nodes) == [x |-> "element", attrs |-> attrs, nodes |-> nodes]

ElementName == <<97>>
AttrName    == <<98>>

Blanks(chars) == \A k \in DOMAIN chars : chars[k] \in XmlBlank

\* What the options leave of the nodes.
RECURSIVE XmlMeans(_, _)
XmlMeans(nodes, sh) ==
  LET kept == SelectSeq(nodes, LAMBDA n :
                /\ ~(n.x = "comment" /\ "no-comments" \in sh.options)
                /\ ~(n.x = "text" /\ Blanks(n.chars) /\ "no-whitespace" \in sh.options))
      Means(n) ==
        IF n.x = "element"
          THEN ElementNode(ElementName,
                 [k \in DOMAIN n.attrs |-> List(<<Str(AttrName), Str(Bytes(n.attrs[k]))>>)],
                 XmlMeans(n.nodes, sh), sh)
          ELSE TextNode(n.x, Bytes(n.chars), sh)
  IN  [k \in DOMAIN kept |-> Means(kept[k])]

\* Markup characters as entities: named, or by number.
XmlChar(c, style) ==
  CASE style = "code" -> <<Amp, 35, 120, HexDigit(c \div 65536), HexDigit((c \div 4096) % 16),
                           HexDigit((c \div 256) % 16), HexDigit((c \div 16) % 16),
                           HexDigit(c % 16), Semi>>
    [] style # "code" /\ \E e \in Entities : e.is = <<c>> ->
         <<Amp>> \o (CHOOSE e \in Entities : e.is = <<c>>).name \o <<Semi>>
    [] OTHER -> Encode(c)

XmlChars(chars, style) == FlattenSeq([k \in DOMAIN chars |-> XmlChar(chars[k], style)])

\* An element without content as <a/> or as <a></a>.
RECURSIVE XmlText(_, _)
XmlText(nodes, style) ==
  LET AttrText(v) == <<32>> \o AttrName \o <<61, 34>> \o XmlChars(v, style) \o <<34>>
      Start(n)    == <<Lt>> \o ElementName
                     \o FlattenSeq([k \in DOMAIN n.attrs |-> AttrText(n.attrs[k])])
      Written(n) ==
        CASE n.x = "text"    -> XmlChars(n.chars, style)
          [] n.x = "cdata"   -> CdataOpen \o Bytes(n.chars) \o CdataClose
          [] n.x = "comment" -> CommentOpen \o Bytes(n.chars) \o CommentClose
          [] n.x = "element" /\ n.nodes = <<>> /\ style = "short" -> Start(n) \o EmptyClose
          [] OTHER -> Start(n) \o <<Gt>> \o XmlText(n.nodes, style)
                      \o EndOpen \o ElementName \o <<Gt>>
  IN  FlattenSeq([k \in DOMAIN nodes |-> Written(nodes[k])])
-----------------------------------------------------------------------------
Topics == {"calendar", "literal", "json", "xml"}

Init ==
  /\ topic \in Topics
  /\ text = <<>>
  /\ tree \in {Item(a) : a \in Atoms} \cup {Word(w) : w \in Words} \cup {Array(<<>>), Object(<<>>)}
  /\ forest = <<>>
  /\ shape \in Shapes
  /\ size = 0
  /\ topic # "json" => tree = Array(<<>>)
  /\ topic # "xml" => shape = PlainShape
  /\ CalendarInit

Passes == topic = "calendar" /\ CalendarNext /\ UNCHANGED textVars

Type(b) ==
  /\ topic = "literal" /\ Len(text) < MaxText
  /\ text' = Append(text, b)
  /\ UNCHANGED <<topic, tree, forest, shape, size, calendarVars>>

MakeJson(tr) ==
  /\ topic = "json" /\ size < MaxJson
  /\ tree' = tr /\ size' = size + 1
  /\ UNCHANGED <<topic, text, forest, shape, calendarVars>>

AddItem(tr) ==
  /\ tree.j = "array"
  /\ MakeJson(Array(Append(tree.items, tr)))

AddEntry(w, tr) ==
  /\ tree.j = "object"
  /\ MakeJson(Object(Append(tree.entries, <<w, tr>>)))

WrapItem == MakeJson(Array(<<tree>>))

WrapEntry(w) == MakeJson(Object(<< <<w, tree>> >>))

MakeXml(nodes) ==
  /\ topic = "xml" /\ size < MaxXml
  /\ forest' = nodes /\ size' = size + 1
  /\ UNCHANGED <<topic, text, tree, shape, calendarVars>>

\* Two texts side by side would be one.
AddPiece(piece) ==
  /\ forest # <<>> /\ forest[Len(forest)].x = "text" => piece.x # "text"
  /\ MakeXml(Append(forest, piece))

AddElement(attrs) == MakeXml(Append(forest, Element(attrs, <<>>)))

WrapElement(attrs) == forest # <<>> /\ MakeXml(<<Element(attrs, forest)>>)

Attrs == {<<>>} \cup {<<w>> : w \in Words}

Next ==
  \/ Passes
  \/ \E b \in TextBytes : Type(b)
  \/ \E a \in Atoms : AddItem(Item(a))
  \/ \E w \in Words : AddItem(Word(w)) \/ AddEntry(w, Word(w)) \/ WrapEntry(w)
  \/ WrapItem
  \/ \E piece \in Pieces : AddPiece(piece)
  \/ \E attrs \in Attrs : AddElement(attrs) \/ WrapElement(attrs)

Spec == Init /\ [][Next]_vars
-----------------------------------------------------------------------------
(* Literals. *)

\* The text between braces, or between tags, is itself where it holds none of
\* them unmatched.
Braced(bytes) ==
  LET depth[k \in 0..Len(bytes)] ==
        IF k = 0 THEN 0
        ELSE depth[k - 1] + (CASE bytes[k] = OpenBrace -> 1 [] bytes[k] = CloseBrace -> -1
                               [] OTHER -> 0)
  IN  depth[Len(bytes)] = 0 /\ \A k \in DOMAIN depth : depth[k] >= 0

ReadsBack(literal, bytes) ==
  ReadLiteral(literal) = [ok |-> TRUE, text |-> bytes, next |-> Len(literal) + 1]

\* Between the printer and the reader: whatever bytes a string holds, its
\* printed literal reads back as the string and ends where it ends, with
\* anything after it; cut anywhere it is refused; so too in braces and in
\* tags.  And the characters of a string, well formed or not, are its bytes
\* in order, each found at its index from either end.
LiteralsReadBack ==
  topic = "literal" =>
  LET literal == ReprString(text)
      chars   == Chars(text)
  IN  /\ ReadsBack(literal, text)
      /\ \A b \in TextBytes :
           LET got == ReadLiteral(Append(literal, b))
           IN  got.text = text /\ got.next = Len(literal) + 1
      /\ \A n \in 1..(Len(literal) - 1) : ~ReadLiteral(SubSeq(literal, 1, n)).ok
      /\ Braced(text) => ReadsBack(<<OpenBrace>> \o text \o <<CloseBrace>>, text)
      /\ ReadsBack(OpenTag \o text \o CloseTag, text)
      /\ FlattenSeq(chars) = text
      /\ \A k \in DOMAIN chars :
           CharAt(text, k - 1) = chars[k] /\ CharAt(text, k - 1 - Len(chars)) = chars[k]
      /\ IsUtf8(text) => Bytes(Codepoints(text)) = text

\* A document reads as what it means; a bracketed one cut anywhere reads as
\* nil, with an error in what there is of it.
JsonReadsBack ==
  \A style \in {"short", "code"} :
    LET doc == JsonText(tree, style)
    IN  /\ JsonParse(doc) = [value |-> JsonMeans(tree), error |-> <<>>]
        /\ tree.j # "atom" => \A n \in 0..(Len(doc) - 1) :
             LET got == JsonParse(SubSeq(doc, 1, n))
             IN  got.value = Nil /\ got.error # <<>> /\ got.error[2] \in 0..n

XmlReadsBack ==
  \A style \in {"short", "code"} :
    LET doc   == XmlText(forest, style)
        means == [value |-> List(XmlMeans(forest, shape)), error |-> <<>>]
    IN  /\ XmlParse(doc, shape) = means
        /\ \A prolog \in Prologs :
             XmlParse(prolog \o doc, shape) = means
        /\ (Len(forest) = 1 /\ forest[1].x # "text") => \A n \in 1..(Len(doc) - 1) :
             LET got == XmlParse(SubSeq(doc, 1, n), shape)
             IN  got.value = Nil /\ got.error # <<>> /\ got.error[2] \in 0..n

\* Between json-parse and xml-parse and the formats they read: a document reads
\* as the data it stands for, whatever the options and whether its characters
\* are written as themselves, with short escapes and names, or by number; cut
\* short it reads as nil with an error at a place within it, never as some of
\* the data.  Excluded are surrogate pairs, by which JSON escapes a character
\* beyond 16 bits: json-parse misreads them (src/src/json.rs:181-187), so such
\* characters are here only written as themselves.
DocumentsReadBack ==
  /\ topic = "json" => JsonReadsBack
  /\ topic = "xml" => XmlReadsBack
=============================================================================
