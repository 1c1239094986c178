----------------------------- MODULE PlaceForms -----------------------------
(***************************************************************************)
(* What the destructive forms of eval.rs share, whatever lists are made    *)
(* of: a place is a root symbol and a path of indices (Place); a form      *)
(* resolves its place first and uses it later, after evaluating its other  *)
(* arguments, which may be any code.                                       *)
(***************************************************************************)
EXTENDS Integers, Sequences, SequencesExt

CONSTANTS
  Symbols,   \* the symbols that hold values
  Nil,       \* nil, the value of an unset symbol
  Atoms,     \* the values that are no lists, nil included
  It,        \* $it, as an expression
  Missing,   \* what a path that leaves the value leads to
  Paths,     \* the index paths a script uses; a negative index counts from the end
  Indices,   \* the indices it gives push and pop
  MaxList,   \* bound: elements of a list
  MaxActive  \* bound: forms under way with something in hand

ASSUME PlaceAssumption ==
  /\ Nil \in Atoms
  /\ Symbols \cap Atoms = {} /\ It \notin Atoms /\ Missing \notin Atoms
  /\ Paths \subseteq Seq(Int) /\ Indices \subseteq Int
  /\ MaxList \in Nat \ {0} /\ MaxActive \in Nat

Place == [root : Symbols, path : Paths]

\* The element an index names in a list of a length, counting from 1.
Position(i, len) == IF i < 0 THEN len + i + 1 ELSE i + 1

InRange(i, len) == Position(i, len) \in 1..len

\* Where push inserts and pop removes: an index too large is taken for the end.
PushPosition(i, len) ==
  IF i < 0 THEN Max({len + 1 + i, 0}) + 1 ELSE Min({i, len}) + 1
PopPosition(i, len) ==
  IF i < 0 THEN Max({len + i, 0}) + 1 ELSE Min({i, len - 1}) + 1

(***************************************************************************)
(* A form that has something in hand while other code runs: setf the place *)
(* it resolved and what it binds to $it, replace its place and the value   *)
(* it read there, push the value it will insert.  The other forms resolve  *)
(* their place first as well, but a place is a symbol and indices and      *)
(* remembers nothing: for them the step that counts is the one that uses   *)
(* the place, after whatever their arguments did.                          *)
(***************************************************************************)
Resolved(form, place, held) == [form |-> form, place |-> place, held |-> held]
Holding(form, held) == [form |-> form, held |-> held]

\* What a script can evaluate without changing anything: a constant, what a place
\* holds, or $it.
Expressions == Atoms \cup Place \cup {It}
=============================================================================
