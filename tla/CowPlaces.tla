----------------------------- MODULE CowPlaces ------------------------------
(***************************************************************************)
(* Places over the lists the interpreter has (ADR-0024, value.rs): a list  *)
(* is a counted node, storing or passing it shares the node, and a write   *)
(* goes through Rc::make_mut, which copies a node that anything else still *)
(* refers to.  Reading a place for a destructive form goes the same way.   *)
(*                                                                         *)
(* A node is a position in heap.  It is there exactly while a symbol or a  *)
(* value some form has in hand leads to it, and its strong count is the    *)
(* number of references to it; what nothing leads to is dropped, and the   *)
(* nodes left are numbered anew, as addresses cannot be observed.          *)
(***************************************************************************)
EXTENDS PlaceForms, FiniteSets

CONSTANT MaxNodes  \* bound: lists alive at once, after a step

ASSUME CowAssumption ==
  /\ MaxNodes \in Nat /\ IsFiniteSet(Symbols)
  /\ (Atoms \cup {Missing}) \cap Nat = {}

VARIABLES
  heap,     \* a sequence: the elements of each list, atoms and nodes
  globals,  \* the slot of each symbol: an atom or a node
  active    \* the forms with something in hand, innermost last

vars == <<heap, globals, active>>

IsNode(r) == r \notin Atoms \cup {Missing}

\* The memory an operation works on: the lists, the slots, and the values that
\* forms under way and the operation itself have in hand.
Memory(hands) ==
  [heap |-> heap, globals |-> globals, hands |-> [k \in 1..Len(active) |-> active[k].held] \o hands]

\* Rc::strong_count.
References(m, n) ==
  Cardinality({s \in Symbols : m.globals[s] = n})
  + Cardinality({k \in DOMAIN m.hands : m.hands[k] = n})
  + Cardinality(UNION {{<<l, i>> : i \in {j \in DOMAIN m.heap[l] : m.heap[l][j] = n}}
                         : l \in DOMAIN m.heap})

(***************************************************************************)
(* A location is a symbol's slot or an element of a list.                  *)
(***************************************************************************)
SlotOf(s) == [list |-> 0, at |-> s]
ElementOf(n, i) == [list |-> n, at |-> i]

Held(m, loc) == IF loc.list = 0 THEN m.globals[loc.at] ELSE m.heap[loc.list][loc.at]

Store(m, loc, r) ==
  IF loc.list = 0 THEN [m EXCEPT !.globals[loc.at] = r]
  ELSE [m EXCEPT !.heap[loc.list][loc.at] = r]

\* A list made for a location.
Make(m, loc, elements) ==
  Store([m EXCEPT !.heap = Append(@, elements)], loc, Len(m.heap) + 1)

\* A mutant of MakeMut: a list is copied only where a symbol shares it.
CopyIfNamed(m, loc) ==
  LET n == Held(m, loc)
  IN  IF {s \in Symbols : m.globals[s] = n} \ {loc.at} = {} THEN m ELSE Make(m, loc, m.heap[n])

\* Rc::make_mut: the list at a location, copied first if it is shared.
MakeMut(m, loc) ==
  LET n == Held(m, loc)
  IN  IF References(m, n) = 1 THEN m ELSE Make(m, loc, m.heap[n])

\* place_navigate: every list on the way is made the place's own.
Navigate(mem, p) ==
  LET step[k \in 0..Len(p.path)] ==
        IF k = 0 THEN [m |-> mem, loc |-> SlotOf(p.root), ok |-> TRUE]
        ELSE LET before == step[k - 1]
                 n == Held(before.m, before.loc)
             IN  IF before.ok /\ IsNode(n) /\ InRange(p.path[k], Len(before.m.heap[n]))
                 THEN LET m == MakeMut(before.m, before.loc)
                          own == Held(m, before.loc)
                      IN  [m |-> m, ok |-> TRUE,
                           loc |-> ElementOf(own, Position(p.path[k], Len(m.heap[own])))]
                 ELSE [before EXCEPT !.ok = FALSE]
  IN  step[Len(p.path)]

\* What an expression finds at a place, which copies nothing.
Reached(m, p) ==
  LET part[k \in 0..Len(p.path)] ==
        IF k = 0 THEN m.globals[p.root]
        ELSE LET n == part[k - 1]
             IN  IF IsNode(n) /\ InRange(p.path[k], Len(m.heap[n]))
                 THEN m.heap[n][Position(p.path[k], Len(m.heap[n]))]
                 ELSE Missing
  IN  part[Len(p.path)]

At(p) == Reached([heap |-> heap, globals |-> globals], p)

Children(h, n) == {h[n][i] : i \in DOMAIN h[n]} \ Atoms

\* The nodes to be reached from a set of nodes.
Below(h, S) ==
  LET reach[k \in 0..Len(h)] ==
        IF k = 0 THEN S
        ELSE LET nearer == reach[k - 1]
             IN  nearer \cup UNION {Children(h, n) : n \in nearer}
  IN  reach[Len(h)]

\* A set of nodes up to n as a list.
InOrder(S, n) ==
  LET upto[k \in 0..n] ==
        IF k = 0 THEN <<>> ELSE IF k \in S THEN Append(upto[k - 1], k) ELSE upto[k - 1]
  IN  upto[n]

\* The memory after an operation, with the forms still under way: what nothing leads
\* to any more is dropped.
Tidied(m, forms) ==
  LET roots == {m.globals[s] : s \in Symbols} \cup {forms[k].held : k \in 1..Len(forms)}
      used == Below(m.heap, roots \ Atoms)
      kept == InOrder(used, Len(m.heap))
      Renumbered(r) == IF IsNode(r) THEN CHOOSE k \in 1..Len(kept) : kept[k] = r ELSE r
  IN  [heap |-> [k \in 1..Len(kept) |->
                   [i \in 1..Len(m.heap[kept[k]]) |-> Renumbered(m.heap[kept[k]][i])]],
       globals |-> [s \in Symbols |-> Renumbered(m.globals[s])],
       active |-> [k \in 1..Len(forms) |-> [forms[k] EXCEPT !.held = Renumbered(@)]]]

Becomes(m, forms) ==
  \E after \in {Tidied(m, forms)} :
    /\ Len(after.heap) <= MaxNodes
    /\ heap' = after.heap
    /\ globals' = after.globals
    /\ active' = after.active

Innermost == active[Len(active)]

Setfs == {k \in 1..Len(active) : active[k].form = "setf"}
ItValue == IF Setfs = {} THEN Nil ELSE active[Max(Setfs)].held

\* An index out of range is no error in an expression.
ValueOf(e) ==
  IF e \in Atoms THEN e
  ELSE IF e = It THEN ItValue
  ELSE IF At(e) = Missing THEN Nil
  ELSE At(e)

Init ==
  /\ heap = <<>>
  /\ globals = [s \in Symbols |-> Nil]
  /\ active = <<>>

\* set and define: the slot shares the list.
Assign(s, e) == Becomes(Store(Memory(<<>>), SlotOf(s), ValueOf(e)), active)
-----------------------------------------------------------------------------
(* setf, replace and push take something in hand, and other code may run. *)

Room == Len(active) < MaxActive

\* Where a place leads for an operation with values in hand; nowhere, perhaps.
Visits(hands, p) == {there \in {Navigate(Memory(hands), p)} : there.ok}

Found(there) == Held(there.m, there.loc)
Elements(there) == there.m.heap[Found(there)]

\* read_place, which setf and replace call, navigates as a write does.
BeginReading(form, p) ==
  /\ Room
  /\ \E there \in Visits(<<>>, p) :
       Becomes(there.m, Append(active, Resolved(form, p, Found(there))))

\* A mutant of BeginPush: the argument is kept unevaluated.
PushesUnevaluated(e) ==
  /\ Room
  /\ active' = Append(active, Holding("push", e))
  /\ UNCHANGED <<heap, globals>>

BeginPush(e) ==
  /\ Room
  /\ active' = Append(active, Holding("push", ValueOf(e)))
  /\ UNCHANGED <<heap, globals>>

Finishing(form) ==
  /\ active # <<>>
  /\ Innermost.form = form

EndSetf(e) ==
  /\ Finishing("setf")
  /\ \E there \in Visits(<<ValueOf(e)>>, Innermost.place) :
       Becomes(Store(there.m, there.loc, ValueOf(e)), Front(active))

\* do_replace makes the list in hand its own, and the place is given that.
Replaced(elements, key, new) ==
  [i \in 1..Len(elements) |-> IF elements[i] = key THEN new ELSE elements[i]]

EndReplace(key, e) ==
  /\ Finishing("replace")
  /\ \E there \in Visits(<<ValueOf(e)>>, Innermost.place) :
       Becomes(IF IsNode(Innermost.held)
                 THEN Make(there.m, there.loc,
                           Replaced(heap[Innermost.held], key, ValueOf(e)))
                 ELSE Store(there.m, there.loc, Innermost.held),
               Front(active))

\* The list at a location, made its own, with other elements.
Rewrite(m, loc, elements) ==
  LET own == MakeMut(m, loc)
  IN  [own EXCEPT !.heap[Held(own, loc)] = elements]

EndPush(p, i) ==
  /\ Finishing("push")
  /\ \E there \in Visits(<<>>, p) :
       \/ /\ Found(there) = Nil
          /\ Becomes(Make(there.m, there.loc, <<Innermost.held>>), Front(active))
       \/ /\ IsNode(Found(there))
          /\ Len(Elements(there)) < MaxList
          /\ LET at == PushPosition(i, Len(Elements(there)))
             IN  Becomes(Rewrite(there.m, there.loc,
                                 InsertAt(Elements(there), at, Innermost.held)),
                         Front(active))
-----------------------------------------------------------------------------
(* The other forms use their place at once: with_place_mut. *)

Incr(p, n) ==
  /\ n \in Atoms \ {Nil}
  /\ \E there \in Visits(<<>>, p) :
       /\ Found(there) \in Atoms
       /\ Becomes(Store(there.m, there.loc, n), active)

Popped(list, i) ==
  IF list = <<>> THEN list ELSE RemoveAt(list, PopPosition(i, Len(list)))

Pop(p, i) ==
  \E there \in Visits(<<>>, p) :
    /\ IsNode(Found(there))
    /\ Becomes(Rewrite(there.m, there.loc, Popped(Elements(there), i)), active)

Spliced(r) == IF IsNode(r) THEN heap[r] ELSE <<r>>

Extend(p, e) ==
  /\ \E there \in Visits(<<ValueOf(e)>>, p), more \in {Spliced(ValueOf(e))} :
       \/ /\ Found(there) = Nil
          /\ Len(more) <= MaxList
          /\ Becomes(Make(there.m, there.loc, more), active)
       \/ /\ IsNode(Found(there))
          /\ Len(Elements(there)) + Len(more) <= MaxList
          /\ Becomes(Rewrite(there.m, there.loc, Elements(there) \o more), active)

\* A mutant of Exchanged: both places are given the value read last.
LastRead(hands, k) == hands[Len(hands)]

\* What the third and the fourth visit of a swap write, of the two values read last:
\* the second's to the first place, the first's to the second.
Exchanged(hands, k) == hands[Len(hands) - (k - 3)]

\* Four visits to the two places in turn, two to read and two to write.  The last one
\* fails if the first write took the second place away.
Swapped(p, q) ==
  LET visit[k \in 0..4] ==
        IF k = 0 THEN [m |-> Memory(<<>>), ok |-> TRUE]
        ELSE LET before == visit[k - 1]
                 there == Navigate(before.m, IF k \in {1, 3} THEN p ELSE q)
             IN  IF ~ (before.ok /\ there.ok)
                   THEN [m |-> there.m, ok |-> before.ok /\ k > 2]
                 ELSE IF k <= 2
                   THEN [m |-> [there.m EXCEPT !.hands = Append(@, Found(there))], ok |-> TRUE]
                 ELSE [m |-> Store(there.m, there.loc, Exchanged(there.m.hands, k)), ok |-> TRUE]
  IN  visit[4]

Swap(p, q) == \E done \in {Swapped(p, q)} : done.ok /\ Becomes(done.m, active)

ReverseAt(p) ==
  \E there \in Visits(<<>>, p) :
    /\ IsNode(Found(there))
    /\ Becomes(Rewrite(there.m, there.loc, Reverse(Elements(there))), active)

\* A place leads nowhere or to the wrong kind of value, when lists on the way may
\* have been copied already, or the code in between returned a signal.
Fail ==
  \E p \in Place, forms \in {active, IF active = <<>> THEN active ELSE Front(active)} :
    Becomes(Navigate(Memory(<<>>), p).m, forms)

Next ==
  \/ \E s \in Symbols, e \in Expressions : Assign(s, e)
  \/ \E form \in {"setf", "replace"}, p \in Place : BeginReading(form, p)
  \/ \E e \in Expressions : BeginPush(e) \/ EndSetf(e)
  \/ \E e \in Expressions, key \in Atoms : EndReplace(key, e)
  \/ \E p \in Place, i \in Indices : EndPush(p, i) \/ Pop(p, i)
  \/ \E p \in Place, n \in Atoms : Incr(p, n)
  \/ \E p \in Place, e \in Expressions : Extend(p, e)
  \/ \E p, q \in Place : Swap(p, q)
  \/ \E p \in Place : ReverseAt(p)
  \/ Fail

Spec == Init /\ [][Next]_vars
-----------------------------------------------------------------------------
TypeOK ==
  LET Ref == Atoms \cup DOMAIN heap
  IN  /\ Len(heap) <= MaxNodes
      /\ \A n \in DOMAIN heap : heap[n] \in UNION {[1..len -> Ref] : len \in 0..MaxList}
      /\ globals \in [Symbols -> Ref]
      /\ \A k \in DOMAIN active :
           active[k].form \in {"setf", "replace", "push"} /\ active[k].held \in Ref

\* No list is ever part of itself, whatever is pushed or assigned into it: a cycle
\* would never be dropped, and never be printed to its end (make_mut).
Acyclic == \A n \in DOMAIN heap : n \notin Below(heap, Children(heap, n))

\* The value an atom or a node of a heap stands for.
ValuesIn(h) ==
  LET tree[d \in 0..Len(h)] ==
        [r \in DOMAIN h \cup Atoms \cup {Missing} |->
           IF ~ IsNode(r) THEN r
           ELSE IF d = 0 THEN <<>>
           ELSE [i \in 1..Len(h[r]) |-> tree[d - 1][h[r][i]]]]
  IN  tree[Len(h)]

Values == INSTANCE Places WITH
  values <- [s \in Symbols |-> ValuesIn(heap)[globals[s]]],
  active <- [k \in 1..Len(active) |-> [active[k] EXCEPT !.held = ValuesIn(heap)[@]]]

\* Sharing cannot be observed: no destructive form reaches a list that another
\* symbol, another list or a form under way refers to, and what it writes is
\* where its place leads when it writes (place_navigate, with_place_mut).
ImplementsPlaces == Values!Spec

\* swap, here and now, would leave at each place what was at the other (sf_swap).
Exchanges(p, q) ==
  \A done \in {Swapped(p, q)} :
    LET Before(r) == ValuesIn(heap)[At(r)]
        After(r) == ValuesIn(done.m.heap)[Reached(done.m, r)]
    IN  done.ok => After(p) = Before(q) /\ After(q) = Before(p)

\* The positions the indices of a place name by now.
Positions(p) ==
  [k \in 1..Len(p.path) |->
     Position(p.path[k], Len(heap[At([p EXCEPT !.path = SubSeq(p.path, 1, k - 1)])]))]

\* Neither place lies within the other.
Apart(p, q) ==
  p.root = q.root =>
    ~ IsPrefix(Positions(p), Positions(q)) /\ ~ IsPrefix(Positions(q), Positions(p))

\* Two places apart, in one list or in two that share elements, are exchanged.
SwapExchangesApart ==
  \A p, q \in {r \in Place : At(r) # Missing} : Apart(p, q) => Exchanges(p, q)

\* What the documentation of swap says of any two places, also into the same list
\* (docs/spec/special-forms.md; the comment in sf_swap).
SwapExchanges == \A p, q \in Place : Exchanges(p, q)
=============================================================================
