------------------------------- MODULE Places -------------------------------
(***************************************************************************)
(* Places as a program sees them: a list is a value, and every symbol has  *)
(* its own, as if lists were copied whenever they are stored or passed     *)
(* (ADR-0005).  CowPlaces, the shared and counted lists of value.rs, is    *)
(* shown to implement this.                                                *)
(***************************************************************************)
EXTENDS PlaceForms

VARIABLES
  values,  \* the value of each symbol: an atom, or a list as a sequence
  active   \* the forms with something in hand, innermost last

vars == <<values, active>>

IsList(v) == v \notin Atoms \cup {Missing}

\* The part of a value that a path leads to.
Part(v, path) ==
  LET part[k \in 0..Len(path)] ==
        IF k = 0 THEN v
        ELSE LET list == part[k - 1]
             IN  IF IsList(list) /\ InRange(path[k], Len(list))
                 THEN list[Position(path[k], Len(list))]
                 ELSE Missing
  IN  part[Len(path)]

\* The value with that part replaced.
WithPart(v, path, new) ==
  LET Above(k) == Part(v, SubSeq(path, 1, k))
      whole[k \in 0..Len(path)] ==
        IF k = Len(path) THEN new
        ELSE [Above(k) EXCEPT ![Position(path[k + 1], Len(Above(k)))] = whole[k + 1]]
  IN  whole[0]

At(p) == Part(values[p.root], p.path)

Innermost == active[Len(active)]

\* The value $it is bound to, by the innermost setf.
Setfs == {k \in 1..Len(active) : active[k].form = "setf"}
ItValue == IF Setfs = {} THEN Nil ELSE active[Max(Setfs)].held

\* An index out of range is no error in an expression.
ValueOf(e) ==
  IF e \in Atoms THEN e
  ELSE IF e = It THEN ItValue
  ELSE IF At(e) = Missing THEN Nil
  ELSE At(e)

Init ==
  /\ values = [s \in Symbols |-> Nil]
  /\ active = <<>>

\* set and define: a symbol's slot is given a value.
Assign(s, e) ==
  /\ values' = [values EXCEPT ![s] = ValueOf(e)]
  /\ UNCHANGED active
-----------------------------------------------------------------------------
(* setf, replace and push take something in hand, and other code may run. *)

Begin(form) ==
  /\ Len(active) < MaxActive
  /\ active' = Append(active, form)
  /\ UNCHANGED values

BeginReading(form, p) == At(p) # Missing /\ Begin(Resolved(form, p, At(p)))
BeginPush(e) == Begin(Holding("push", ValueOf(e)))

Finishes(form) ==
  /\ active # <<>>
  /\ Innermost.form = form
  /\ active' = Front(active)

Write(p, v) == values' = [values EXCEPT ![p.root] = WithPart(@, p.path, v)]

\* The place is written wherever it leads by now.
EndSetf(e) ==
  /\ Finishes("setf")
  /\ At(Innermost.place) # Missing
  /\ Write(Innermost.place, ValueOf(e))

\* replace works on the value it read before it evaluated the replacement.
Replaced(v, key, new) ==
  IF IsList(v) THEN [i \in 1..Len(v) |-> IF v[i] = key THEN new ELSE v[i]] ELSE v

EndReplace(key, e) ==
  /\ Finishes("replace")
  /\ At(Innermost.place) # Missing
  /\ Write(Innermost.place, Replaced(Innermost.held, key, ValueOf(e)))

EndPush(p, i) ==
  /\ Finishes("push")
  /\ \/ /\ At(p) = Nil
        /\ Write(p, <<Innermost.held>>)
     \/ /\ IsList(At(p))
        /\ Len(At(p)) < MaxList
        /\ Write(p, InsertAt(At(p), PushPosition(i, Len(At(p))), Innermost.held))
-----------------------------------------------------------------------------
(* The other forms use their place at once. *)

\* A number, or nil for zero, is replaced by another number.
Incr(p, n) ==
  /\ At(p) \in Atoms
  /\ n \in Atoms \ {Nil}
  /\ Write(p, n)
  /\ UNCHANGED active

Pop(p, i) ==
  /\ IsList(At(p))
  /\ At(p) # <<>>
  /\ Write(p, RemoveAt(At(p), PopPosition(i, Len(At(p)))))
  /\ UNCHANGED active

\* extend splices a list in, and appends anything else.
Spliced(v) == IF IsList(v) THEN v ELSE <<v>>

Extend(p, e) ==
  /\ LET old == IF At(p) = Nil THEN <<>> ELSE At(p)
     IN  /\ IsList(old)
         /\ Len(old) + Len(Spliced(ValueOf(e))) <= MaxList
         /\ Write(p, old \o Spliced(ValueOf(e)))
  /\ UNCHANGED active

\* swap reads both places, then writes one and the other, if it is still there.
Swap(p, q) ==
  /\ At(p) # Missing
  /\ At(q) # Missing
  /\ LET once == [values EXCEPT ![p.root] = WithPart(@, p.path, At(q))]
     IN  values' = IF Part(once[q.root], q.path) = Missing THEN once
                   ELSE [once EXCEPT ![q.root] = WithPart(@, q.path, At(p))]
  /\ UNCHANGED active

\* reverse permutes the list at its place, as rotate and sort do.
ReverseAt(p) ==
  /\ IsList(At(p))
  /\ Write(p, Reverse(At(p)))
  /\ UNCHANGED active

\* A place leads nowhere or to the wrong kind of value, or the code evaluated in
\* between returned a signal: a form that has something in hand is over.
Fail ==
  /\ active' \in {active, IF active = <<>> THEN active ELSE Front(active)}
  /\ UNCHANGED values

Next ==
  \/ Fail
  \/ \E s \in Symbols, e \in Expressions : Assign(s, e)
  \/ \E form \in {"setf", "replace"}, p \in Place : BeginReading(form, p)
  \/ \E e \in Expressions : BeginPush(e) \/ EndSetf(e)
  \/ \E e \in Expressions, key \in Atoms : EndReplace(key, e)
  \/ \E p \in Place, i \in Indices : EndPush(p, i) \/ Pop(p, i)
  \/ \E p \in Place, n \in Atoms : Incr(p, n)
  \/ \E p \in Place, e \in Expressions : Extend(p, e)
  \/ \E p, q \in Place : Swap(p, q)
  \/ \E p \in Place : ReverseAt(p)

Spec == Init /\ [][Next]_vars
=============================================================================
