------------------------------- MODULE Values -------------------------------
(***************************************************************************)
(* Symbols and values of a program (Value of src/src/value.rs), as far as  *)
(* the namespace, source files and JSON tell them apart.                   *)
(***************************************************************************)

\* Members of a context are named c:term, the entries of a dictionary c:_key.
Main(term)      == [ctx |-> "MAIN", term |-> term, key |-> <<>>]
Member(c, term) == [ctx |-> c, term |-> term, key |-> <<>>]
Entry(c, text)  == [ctx |-> c, term |-> "", key |-> <<text>>]

IsEntry(s) == s.key # <<>>

Nil         == [t |-> "nil"]
True        == [t |-> "true"]
Integer(n)  == [t |-> "int", n |-> n]
Float(n)    == [t |-> "float", n |-> n]      \* the integral one n.0
Str(text)   == [t |-> "str", text |-> text]
Symbol(s)   == [t |-> "sym", sym |-> s]
Context(c)  == [t |-> "ctx", of |-> c]
List(items) == [t |-> "list", items |-> items]
Quoted(v)   == [t |-> "quote", of |-> v]     \* the form (quote v)
Marker      == [t |-> "builtin"]             \* the functor Class:Class

\* (lambda (param) (list makes param)), or with no context (lambda (param) param).
Lambda(makes, param) == [t |-> "lambda", makes |-> makes, param |-> param]
=============================================================================
