-------------------------------- MODULE Heap ---------------------------------
(***************************************************************************)
(* What an interpreter holds (Interp of src/src/eval.rs): the globals, the *)
(* protected symbols, the current context and the places self names; and   *)
(* the places in values that programs read and write.                      *)
(***************************************************************************)
EXTENDS Values, Literals

CONSTANT NameOrder   \* every symbol that is ever interned, by name

(* The heap: what globals binds, what constant protects, the context, and  *)
(* self_stack.  A symbol that was ever bound stays in globals, with nil    *)
(* when deleted.  assigned is history: the symbols this step assigns.      *)

Bind(f, s, v) == [x \in DOMAIN f \cup {s} |-> IF x = s THEN v ELSE f[x]]

Lookup(h, s) == IF s \in DOMAIN h.val THEN h.val[s] ELSE Nil

SetGlobal(h, s, v) == [h EXCEPT !.val = Bind(@, s, v), !.assigned = @ \cup {s}]

\* Reading a place of a symbol that was never bound binds it.
Entered(h, s) == [h EXCEPT !.val = Bind(@, s, Lookup(h, s))]

\* What Interp::new leaves: the class Class, whose functor marks classes.
Fresh ==
  [val |-> [s \in {Main("Class"), Member("Class", "Class")} |->
              IF s.ctx = "MAIN" THEN Context("Class") ELSE Marker],
   prot |-> {}, current |-> "MAIN", selfs |-> <<>>, assigned |-> {}]

\* The context a symbol is a member of is made to name itself.
EnsureContext(h, s) ==
  IF s.ctx = "MAIN" \/ Lookup(h, Main(s.ctx)).t = "ctx" THEN h
  ELSE SetGlobal(h, Main(s.ctx), Context(s.ctx))

\* Switching to a context makes it one, unless its symbol names one already.
SwitchTo(h, c) ==
  LET named == c = "MAIN" \/ Lookup(h, Main(c)).t = "ctx"
  IN  [(IF named THEN h ELSE SetGlobal(h, Main(c), Context(c)))
         EXCEPT !.current = c]

\* The live members of a context, in name order.
Members(h, c) ==
  LET Live(s) == s.ctx = c /\ c # "MAIN" /\ Lookup(h, s) # Nil
  IN  SelectSeq(NameOrder, Live)

(* Parts of lists. *)

\* Offsets from 0, or from the end.
Offset(i, n) == IF i < 0 THEN n + i + 1 ELSE i + 1

\* A string is indexed by character.
IndexOne(i, v) ==
  IF v.t = "list" /\ Offset(i, Len(v.items)) \in DOMAIN v.items
    THEN v.items[Offset(i, Len(v.items))]
  ELSE IF v.t = "str" /\ CharAt(v.text, i) # <<>> THEN Str(CharAt(v.text, i))
  ELSE Nil

Clamp(lo, x, hi) == IF x < lo THEN lo ELSE IF x > hi THEN hi ELSE x

\* From start on, to the end (no len) or for len elements; a negative len
\* counts from the end.
Slice(start, len, seq) ==
  LET n    == Len(seq)
      from == IF start < 0 THEN Clamp(0, n + start, n) ELSE Clamp(0, start, n)
      to   == IF len = <<>> THEN n
              ELSE IF len[1] < 0 THEN n + len[1] ELSE from + len[1]
  IN  SubSeq(seq, from + 1, Clamp(from, to, n))

\* A string is sliced by byte.
SliceSeq(start, len, v) ==
  CASE v.t = "list" -> List(Slice(start, len, v.items))
    [] v.t = "str"  -> Str(Slice(start, len, v.text))
    [] OTHER        -> Nil

ClassOf(v) ==
  IF v.t = "list" /\ v.items # <<>>
    THEN CASE v.items[1].t = "sym" -> <<v.items[1].sym>>
           [] v.items[1].t = "ctx" -> <<Main(v.items[1].of)>>
           [] OTHER -> <<>>
    ELSE <<>>
-----------------------------------------------------------------------------
(* Places: a symbol and a path of offsets into its value. *)

Place(root, path) == [root |-> root, path |-> path]

\* The path of a part that forgets where the whole is.
FromRoot(p, path) == Place(p.root, path)

Within(p, path) == Place(p.root, p.path \o path)

Missing == [t |-> "missing"]

\* The part of a value that a path leads to.
Part(v, path) ==
  LET part[k \in 0..Len(path)] ==
        IF k = 0 THEN v
        ELSE LET l == part[k - 1]
             IN  IF l.t = "list" /\ Offset(path[k], Len(l.items)) \in DOMAIN l.items
                   THEN l.items[Offset(path[k], Len(l.items))] ELSE Missing
  IN  part[Len(path)]

\* The value with that part replaced.
WithPart(v, path, new) ==
  LET Above(k) == Part(v, SubSeq(path, 1, k))
      whole[k \in 0..Len(path)] ==
        IF k = Len(path) THEN new
        ELSE [Above(k) EXCEPT !.items[Offset(path[k + 1], Len(Above(k).items))] =
                whole[k + 1]]
  IN  whole[0]

ReadPlace(h, p) == Part(Lookup(h, p.root), p.path)
=============================================================================
