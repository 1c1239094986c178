----------------------------- MODULE Workspace ------------------------------
(***************************************************************************)
(* A session of the interpreter that defines contexts, classes, objects    *)
(* and dictionaries, saves them as source, ends, and loads the file in     *)
(* the next one (Foop with SourceFile).                                    *)
(***************************************************************************)
EXTENDS Foop, SourceFile

CONSTANTS
  Forms,         \* what programs assign
  Applications,  \* what they evaluate for its effect
  Arguments,     \* the values they call methods with and set self to
  Targets,       \* the symbols they assign
  Receivers,     \* the expressions they call methods on
  PlaceExprs,    \* expressions that may lead to a place
  Methods, Lambdas,
  Saves,         \* the sequences of symbols they save
  Scripts        \* files written by hand

VARIABLES
  file,    \* the source file, <<>> when empty or missing
  saved    \* the values of the symbols that the last save wrote

vars == <<foopVars, file, saved>>

Contexts == {s.ctx : s \in Range(NameOrder)} \ {"MAIN"}

NoneSaved == <<>>

Init ==
  /\ heap = Fresh
  /\ frames = <<>> /\ raised = FALSE
  /\ left \in Menus
  /\ file = <<>> /\ saved = NoneSaved

FileKept == UNCHANGED <<file, saved>>

\* (save file sym ...)
Save(syms) ==
  /\ Begin("save")
  /\ file' = Source(heap, syms)
  /\ saved' = SavedValues(heap, syms)
  /\ UNCHANGED <<heap, frames, raised>>

\* (save file)
SaveAll ==
  /\ Begin("save-all")
  /\ file' = Source(heap, Dumped(heap))
  /\ saved' = SavedValues(heap, Dumped(heap))
  /\ UNCHANGED <<heap, frames, raised>>

\* A file that no save wrote.
WriteScript(lines) ==
  /\ Begin("script")
  /\ file' = lines /\ saved' = NoneSaved
  /\ UNCHANGED <<heap, frames, raised>>

\* (load file): nothing else runs between its forms.
Load ==
  /\ Begin("load")
  /\ Leaves(ReadAndEval(file, heap))
  /\ FileKept

\* The interpreter ends, and a new one starts beside the same file.
Restart ==
  /\ Begin("restart")
  /\ heap' = Fresh /\ frames' = <<>> /\ raised' = FALSE
  /\ FileKept

\* Assignments, definitions and applications.
Assigning ==
  \/ \E s \in Targets, form \in Forms : Assign(s, form)
  \/ \E s \in Targets, v \in Arguments : Protect(s, v)
  \/ \E l \in Lambdas : Define(l.name, l.lambda)
  \/ \E form \in Applications : Evaluate(form)

\* Contexts made, filled, copied and removed.
Arranging ==
  \/ \E proto \in Contexts, c \in Contexts \ {"Class"} : NewContext(proto, c)
  \/ \E s \in Targets \cup {Main(c) : c \in Contexts} : DeleteSymbol(s)
  \/ \E s \in Targets, v \in Arguments : s.ctx # "MAIN" /\ MakeMember(s.ctx, s.term, v)
  \/ \E c \in Contexts : Switch(c)

\* Methods called.
Calling ==
  \/ \E expr \in Receivers, m \in Methods : DispatchOn(expr, m)
  \/ \E arg \in Arguments : EnterMethod(arg)
  \/ NoMethod \/ EndMethod \/ Unwind \/ Throw \/ Catch
  \/ \E v \in Arguments : SetSelf(<<1>>, v)

Next ==
  \/ (Assigning \/ Arranging \/ Calling) /\ FileKept
  \/ \E syms \in Saves : Save(syms)
  \/ SaveAll
  \/ \E lines \in Scripts : WriteScript(lines)
  \/ Load \/ Restart

Spec == Init /\ [][Next]_vars
-----------------------------------------------------------------------------
Values(h) == {h.val[s] : s \in DOMAIN h.val}

TypeOK ==
  /\ DOMAIN heap.val \subseteq Range(NameOrder)
  /\ heap.prot \subseteq Range(NameOrder)
  /\ heap.current \in Contexts \cup {"MAIN"}
  /\ \A v \in Values(heap) : v.t = "ctx" => Main(v.of) \in DOMAIN heap.val
  /\ \A k \in DOMAIN heap.selfs : heap.selfs[k].root \in Range(NameOrder)
  /\ Len(frames) <= MaxFrames
  /\ raised \in BOOLEAN

\* The place that an expression leads to holds what the expression evaluates to,
\* or both are false (resolve_place against eval: indexing, the accessors, and
\* the branching forms, written once for their value and once for their place).
\* An if of several conditions, whose place looks at the first one only, is not
\* among the expressions.
PlacesHoldValues ==
  \A expr \in PlaceExprs :
    \A p \in {ResolvePlace(expr, heap)}, r \in {Eval(expr, heap)} :
      LET v == ReadPlace(p.h, p.v)
      IN  p.ok /\ v # Missing => r.ok /\ (r.v = v \/ ~(Truthy(r.v) \/ Truthy(v)))

(* What a loaded file gives back. *)

Atomic(v) == v.t \in {"nil", "int", "str", "lambda"}

\* The context of the symbol's own name, that names nothing else by now.
OwnContext(s) ==
  /\ saved[s].t = "ctx" /\ s.ctx = "MAIN" /\ saved[s].of = s.term
  /\ Lookup(heap, s).t = "ctx" => Lookup(heap, s).of = s.term

\* An object of a class that is defined and that the file leaves alone.
ObjectOfClass(v) ==
  /\ v.t = "list" /\ v.items # <<>> /\ v.items[1].t = "sym"
  /\ \A k \in 2..Len(v.items) : v.items[k].t \in {"nil", "int", "str"}
  /\ LET class == v.items[1].sym
     IN  /\ class.ctx = "MAIN" /\ Lookup(heap, class) = Context(class.term)
         /\ Lookup(heap, Member(class.term, class.term)) = Marker
         /\ {class, Member(class.term, class.term)} \cap DOMAIN saved \subseteq
              {s \in DOMAIN saved : OwnContext(s)}

Restorable ==
  \A s \in DOMAIN saved :
    /\ Plain(s) /\ s \notin heap.prot
    /\ Atomic(saved[s]) \/ OwnContext(s) \/ ObjectOfClass(saved[s])

\* Between a save and a load, whatever was assigned or deleted meanwhile and
\* in the same session or another: each symbol the file was saved with gets
\* its value back, as long as every value is one whose text evaluates to
\* itself and none is constant (source_of, read_and_eval).
LoadRestores ==
  [][Load /\ Restorable => \A s \in DOMAIN saved : Lookup(heap', s) = saved[s]]_vars
=============================================================================
