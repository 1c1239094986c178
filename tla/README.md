# TLA+ for niiLISP

niiLISP is a newLISP-compatible interpreter in Rust. This directory holds its
formal development: TLA+ modules that model the parts of the interpreter where
order, interleaving or unwinding matter, the TLC configurations that check
them on small instances, and theorems about them that TLAPS proves for every
value of the constants. `PROJECT.json` lists the components, the runs, the
mutants each property is tested against, the source lines each definition
models, the findings, the hazards and the theorems.

Paths below are relative to the repository; line numbers are those of the
commit modelled.

Contents: [running it](#running-it) · [the system](#the-system) ·
[the modules](#the-modules) · [runs and bounds](#runs-and-bounds) ·
[fairness](#fairness) · [disagreements found](#disagreements-found) ·
[what is proved](#what-is-proved) · [what is only model-checked](#what-is-only-model-checked) ·
[abstractions](#abstractions) · [not modelled](#not-modelled) · [plan](#plan)

## Running it

    tlc -config DynScope.cfg MCDynScope
    tlapm Cilk_proofs.tla

Every run takes about two minutes or less on two cores; `Ipc_proofs` and
`CowPlaces_proofs` take about ten each from nothing, every other proof less
than two.

Each configuration belongs to the `MC` module named in its row of
[runs and bounds](#runs-and-bounds); the proofs are in `*_proofs.tla` and
`StackLemmas.tla`.

## The system

The interpreter is a single-threaded tree walker (`src/eval.rs`) over shared
immutable-by-convention values; everything concurrent about it happens at its
edges: forked children, signals, other processes' sockets and mapped pages,
and C code that calls back. What makes it hard inside is *unwinding*: a
`Result` that carries a throw, an error, an exit or an exceeded limit crosses
forms that have changed global state and must undo exactly that.

| Component | Source | State it keeps | Operations | What makes it hard | What makes it correct |
|---|---|---|---|---|---|
| Dynamic scoping | `src/eval.rs` | `globals`, the saved slots in each `Scope`, `args_stack` | reference, assignment, `let`, `letn`, `local`, calls, loops, `catch` | restoring under unwinding; code that runs between two bindings | it cannot be told from a searched stack of bindings |
| Control signals, step limit | `src/eval.rs`, `src/builtins.rs`, `src/ffi.rs` | the `Result` being returned, `eval_steps`, `eval_limit` | `throw`, errors, `exit`, the limit, `catch`, `eval-string`, callbacks | every form that looks at a `Result` decides what becomes of a signal | a run under a limit ends; an exit is not dropped by accident |
| Cilk processes | `src/process.rs` | `CilkState.spawns`, descriptors, pipes, children | `spawn`, `sync` with inlet, `abort`, `wait-pid` | children run concurrently; the inlet re-enters; descriptors are reused | each child's own result reaches its symbol once, or it is aborted |
| OS signals | `src/process.rs` | `PENDING`, `signal_handlers`, the kernel's dispositions | delivery, `signal`, dispatch at safe points | delivery at any instruction; handlers with safe points of their own | none lost, none handled twice |
| Messages | `src/process.rs` | `CilkState.channels`, socket buffers | `send`, `receive` | bounded buffers, retries, forked copies of one socket | a message goes to the process it is sent to, whatever numbers are reused, or `send` says no |
| Shared pages | `src/process.rs` | `CilkState.pages`, the mapped memory | `share` | two processes, no lock | a reader sees a value some writer wrote |
| Places | `src/eval.rs`, `src/value.rs` | counted, shared lists; paths and values held across evaluations | `setf`, `push`, `pop`, `extend`, `swap`, `replace`, `++` | the value changes under the path; lists are shared and copied on write | it cannot be told from copying lists on every store |
| FOOP | `src/eval.rs` | `globals` of every context, write protection, `self_stack`, `$self-tmp` | contexts, dictionaries, `new`, `delete`, colon dispatch, `self` | nested dispatch, write-back, a receiver's symbol that changes meanwhile | `self` is the receiver of the method that runs |
| Saving and loading | `src/eval.rs`, `src/reader.rs` | the file, the open context | `source`, `save`, `load` | a file is read under other bindings than it was written under | what was saved is there after a load |
| Handles | `src/fileio.rs`, `src/net.rs` | `FileTable`, the current line | `open`, `close`, `read-*`, `write-*`, `pipe`, `net-*`, `exec` | numbers are reused; descriptors are shared with children; calls block | a handle names what was opened under it; a call whose peer is gone returns |
| Reader, printer | `src/reader.rs`, `src/printer.rs` | the interner | parse, `repr` | the round trip carries values between processes and sessions | reading what was printed gives the value back |
| JSON, XML, UTF-8 | `src/json.rs`, `src/xml.rs`, `src/utf8.rs` | the last error, type tags | `json-parse`, `xml-parse`, `nth`, `explode`, ... | escapes, options, cut documents, broken characters | a document reads as the data it stands for |
| Dates | `src/date.rs` | none | `date-value`, `date-list`, ... | days before the epoch, eras, centuries | the arithmetic is the Gregorian calendar |
| Builtins, regex | `src/builtins.rs` | last-error cells, a cache | pure functions | numeric edges | per function |
| GUI | `lib/gui.lsp`, `src/bin/niilisp-gui.rs` | a socket | event loop | the end of the connection | the loop ends with it |
| REPL, CLI | `src/repl.rs`, `src/main.rs` | none between lines but the interpreter's | a run per line | a signal ends a run, not the interpreter | the next line starts clean |

How they interact. Every operation is a builtin or special form called from
`eval_list`; results and signals come back as a `Result<Value, Signal>`.
`call_lambda` and the binding forms open a `Scope`, whose drop restores slots
on every way out. `eval_body` is the safe point that calls
`dispatch_signals`, so script handlers run between any two forms of any body,
those of inlets and handlers included. `sync` calls the script's inlet, which
may call `spawn`, `sync`, `abort` and `wait-pid` on the registry that `sync`
is walking. `spawn` sends its child's result back as printed text, which
`sync` reads with the reader; `send`, `share` and `save` do the same with
datagrams, pages and files. `fork` and `spawn` copy the whole interpreter, so
that parent and child hold the same open files, sockets and pages under the
same handles. Method calls put a place on `self_stack` that is read again at
every use of `self`, through the globals that everything else may assign.
`eval-string` calls the host's `eval_string`
from inside a run. FFI callbacks call a lambda from C, where no signal can
pass.

The hazards this gives rise to are listed, at the line where each bites, in
`PROJECT.json` under `hazards`, with the properties that guard each.

## The modules

| Module | Models | Extends / instantiates |
|---|---|---|
| `Frames` | the evaluator's control skeleton: forms in evaluation, the signal that unwinds them | |
| `EnvStack` | abstract: dynamic scoping as a searched stack of bindings | extends `Frames` |
| `DynScope` | slots, `Scope`, `ArgsGuard`, every binding form | extends `Frames`, implements `EnvStack` |
| `Control` | throw, error, exit, limit through the forms that look at a `Result`; the step counter | |
| `CilkPromise` | abstract: what becomes of a spawned child | |
| `Cilk` | `spawn`, `sync`, `abort`, `wait-pid`, the kernel's part in them, the children | implements `CilkPromise` |
| `OsSignals` | the C handler, `PENDING`, `signal`, dispatch | |
| `PlaceForms` | what a place is, and what a form keeps in hand | |
| `Places` | abstract: destructive forms over lists that are values | extends `PlaceForms` |
| `CowPlaces` | the same over shared, counted, copied-on-write lists | extends `PlaceForms`, implements `Places` |
| `HandleMap` | abstract: each process has a map from handles to open files | |
| `FileTable` | the slots and the free list of one interpreter, as pure definitions | |
| `Kernel` | what the handlers ask of the system: open files and their positions, names, streams of bounded size, listeners, who holds what | extends `FileTable` |
| `FileIo` | file, pipe, socket and `exec` operations, one system call at a time | extends `Kernel` |
| `Mailbox` | `send`, `receive`, `share`, the channels that `spawn` and `fork` make and `abort` drops | extends `FileIo` |
| `Ipc` | the composition: any process at any system call, `fork`, `spawn`, `abort`, ends and kills | extends `Mailbox`, implements `HandleMap` |
| `Values` | symbols of contexts and dictionaries, values | |
| `Heap` | what the interpreter holds of names; places in values | extends `Values`, `Literals` |
| `Expressions` | evaluating a form, and resolving it to a place | extends `Heap` |
| `Namespace` | `set`, `constant`, `define`, `new`, `delete`, `context` | extends `Expressions` |
| `Foop` | method calls and `self` | extends `Namespace` |
| `Utf8`, `Literals` | characters of byte strings; string literals as printed and as read | |
| `SourceFile` | `source_of`, the reader's treatment of names, `read_and_eval` | extends `Namespace` |
| `Workspace` | sessions: `Foop` with `SourceFile` | extends both |
| `Scan` | reading at a position, with results or errors | |
| `Json`, `Xml` | the two parsers | extend `Scan`, use `Values` and `Utf8` |
| `Calendar` | the arithmetic of `date.rs`, beside a reference: the calendar kept by hand, one day after another | |
| `Texts` | sessions that grow a date, a text or a document and read it | extends `Calendar`, `Literals`, `Json`, `Xml` |
| `MC*` | constants and symmetry for TLC | extend the above |
| `StackLemmas` | facts about sequences used as stacks, counting up to a number, recursive functions over it | used by the proofs |
| `*_proofs` | theorems about the module of that name | extend it |

### Frames, EnvStack, DynScope: dynamic scoping (ADR-0006, ADR-0011)

`frames` is the Rust call stack as far as scoping is concerned: one record per
binding form or `catch`. Its `base` is the number of slots saved when the form
began, which delimits its `Scope`'s `saved` vector in the concatenation
`saved` of all of them. `signal` is the `Err` being returned; throws and errors
are one kind ("catchable"), `exit` and the limit the other ("control"), because
that is all `sf_catch` tells apart.

| Action | Code |
|---|---|
| `Assign` | `sf_set`, `sf_define`: evaluate, then `set_global` |
| `EnterLet` | `sf_let`: both initialisers first, then two `Scope::bind`s |
| `EnterLocal`, `EnterLoop` | `sf_local`; `sf_for`, `sf_dolist`, `sf_dostring`, `sf_dotimes` binding their variable |
| `Iterate` | the loop's next pass: `set_global` on its variable, no new save |
| `EnterLetn`, `EnterCall`, `Bind`, `Run` | `sf_letn`; `call_lambda`: bindings one at a time, arbitrary evaluation between them, then the body, with `args_stack.push` |
| `LeaveScope`, `RestoreSlot`, `Return` | the drop of `ArgsGuard`, each turn of `Scope::drop`'s loop, the end of the form; the same on `Ok` and `Err` |
| `CatchInto`, `CatchValue` | `sf_catch` with and without a target |
| `RaiseSignal`, `EndRun` | any form returning `Err`; the REPL's `eval_line` reporting it |

`EnvStack` has the same control and no saves: a reference searches `env`, an
assignment changes the binding it finds, leaving a scope drops its bindings.
It is the design ADR-0006 rejected for speed, and says what a program may
rely on. `Env == INSTANCE EnvStack WITH top <- ..., env <- ...` reads the saves
backwards: the value symbol `s` had after the first `i` bindings is what the
next save of `s` stored, or what is in its slot when there is none
(`ValueAfter`).

Properties: `ImplementsEnvStack` (refinement); `ScopesNest`; `ArgsMatchCalls`.

### Control: signals and the step limit (ADR-0040)

`stack` holds the forms in evaluation, each with the place `at` it is at and,
for a `catch` with a target, the result it holds. The script is arbitrary: at
every place where the code calls `eval` it may evaluate an atom, raise any
signal or enter any form. `steps` is `eval_steps` (no longer counted once it
exceeds the limit, which the code never compares again), `total` counts the
steps of the whole run and `nested` the `eval-string`s in it.

| Action | Code |
|---|---|
| `Tick`, `EvalRefused` | the head of `eval`: count, compare, `Err(Signal::Limit)` |
| `EvalString`, `Read` | `b_eval_string` calling `eval_string`: `eval_steps = 0`, read, evaluate each form |
| `Dispatch` | `eval_body`'s safe point calling a handler, whose result is dropped |
| `Return`, `Unwind` | a form handing on `Ok` or `Err`; `Stops` names the forms that turn an `Err` into a value |
| `HoldResult`, `BindTarget`, `TargetNotASymbol` | `sf_catch` with a target, which is evaluated after the expression whatever that returned |
| `PlaceFails` | `place_or_value`: any failure to resolve a place is taken for "not a place" |

Properties: `RunBudget`, `ExitUnwinds`, `RunEnds`.

### CilkPromise, Cilk: spawn, sync, abort, wait-pid (ADR-0032)

A pid is the child's number in order of spawning. `proc` is the kernel's view
of each child, `pipe` how much of its result has been written, `heirs` the
children whose own forks still hold the write end open, `fds` the
interpreter's descriptor table (a free slot is reused lowest first), `spawns`
the registry. `calls` is the stack of `sync`s in execution, as an inlet may
`sync`; each holds the rest of the snapshot it took before `poll`.

| Action | Code |
|---|---|
| `Finish`, `StartWriting`, `FinishWriting` | the child's half of `sf_spawn`: evaluate, write, `_exit`; a large result blocks until somebody reads |
| `Beget`, `HeirEnds`, `Die` | `sf_fork` and `process` in the child; a kill from outside (external) |
| `Spawn` | the parent's half: `pipe`, `fork`, close the write end, register |
| `SyncStart`, `SyncPoll`, `SyncExpire`, `SyncDone` | `b_sync`: deadline, snapshot, `poll`, the ways out of the loop |
| `Collect`, `InletReturns`, `InletFails` | for each ready entry: read to the end, close, `waitpid`, bind, unregister, call the inlet |
| `AbortOne`, `AbortAll` | `b_abort`: kill, reap, close, forget |
| `WaitPid`, `Waited`, `ReapNoHang` | `b_wait_pid`, blocking and not |

`CilkPromise` is what a script is promised: each child is pending until it is
delivered (once) or aborted, and an aborted one delivers nothing.

Properties: `RegistryOwnsFds`, `NoZombieForgotten`, `OwnResult`, `KeepsPromise`
(refinement), `PatientSyncReturns`, `WaitPidReturns`; `NothingAfterAbort` fails.

### OsSignals

`pending` is `PENDING`, `caught` the kernel's dispositions, `handlers` the
interpreter's `signal_handlers`, `masks` the dispatches in execution, one
inside a handler of another, each with the bits it has still to look at.
`b_signal` is two steps (`Install` or `Remove`, then `SetDisposition`) because
a signal may be delivered between the change of the table and the `libc::signal`
call. That call fails for the signals of `Refused` (`SIGKILL`, `SIGSTOP`, 0), and
`b_signal` does not look. `owed`, `delivered` and `runs` are history variables for the properties.

| Action | Code |
|---|---|
| `Deliver` | the kernel calling `os_signal_handler` (`fetch_or`), or the default action |
| `Install`, `Remove`, `SetDisposition` | `b_signal` |
| `Dispatch` | the `swap(0)` at the head of `dispatch_signals` |
| `CallHandler`, `DropSignal`, `HandlerReturns`, `DispatchEnds` | its loop over the bits |

Properties: `NoSignalLost`, `NoSpuriousCall`, `DispositionAgrees`,
`SignalHandled`.

### PlaceForms, Places, CowPlaces: destructive updates (ADR-0005, ADR-0024)

`heap` holds the lists in use, each a sequence of atoms and of other lists'
numbers, `globals` the symbols' slots; `active` is the stack of forms that have
something in hand while other code runs: `setf` its place and the old value it
binds to `$it`, `replace` its place and the value it read, `push` the value it
will insert. A list's strong count is the number of slots, elements and hands
that refer to it; what nothing refers to leaves the heap in the same step.
Every operation works on a `Memory`, passes through `Navigate` (which copies a
shared list on the way before it steps into it) and ends in `Becomes`.

| Action | Code |
|---|---|
| `Assign` | `sf_set`, `sf_define`: the slot shares the list |
| `BeginReading`, `EndSetf` | `sf_setf`: `read_place`, then the value is evaluated with `$it` bound, then `with_place_mut` |
| `BeginReading`, `EndReplace` | `sf_replace` on a list: `do_replace` on the value read, written back whole |
| `BeginPush`, `EndPush` | `sf_push`: the value, then the place and the indices, then the insertion |
| `Incr`, `Pop`, `Extend`, `ReverseAt` | `sf_incr`, `sf_pop`, `sf_extend`, `sf_reverse` (and rotate and sort alike) from `with_place_mut` on; before that they hold a symbol and indices only |
| `Swap` | `sf_swap`: two visits to read, two to write |
| `Fail` | a place that leads nowhere or to the wrong kind of value, with the copies made on the way; a signal from the code in between |

In `Places` a list is a sequence and each symbol has its own. That is what
`value.rs` promises: "the observable semantics are newLISP's ORO deep-copy".
The refinement reads each number as the list it stands for (`ValuesIn`).

Properties: `ImplementsPlaces` (refinement), `Acyclic`, `SwapExchangesApart`.

### FileTable, HandleMap, Kernel, FileIo, Mailbox, Ipc: processes and what they share (ADR-0029, ADR-0032)

Each process `p` has a `table` (its `FileTable`: slots and free list), the
`line` that `read-line` fills, a `buf` for `read-buffer`, and a `call`, the
builtin it is in the middle of. A builtin that makes several system calls is
begun by one action and goes on by one action per system call, so that every
other process may run in between. The kernel's part is in `desc` (open files,
each shared by all processes that inherited it), `pos`, `backlog`, `inode`,
`name`, `port` and `stream`; a stream holds `Capacity` bytes and blocks beyond
them. `left` is the program: how often each operation may still be used, one
budget for all processes. `hist` and the `last`, `mixed` and `quiet` marks of
pages are history variables for the properties.

| Action | Code |
|---|---|
| `Open`, `CloseHandle`, `Seek` | `b_open`, `b_close`, `b_seek` |
| `BeginReadLine`, `ReadLineByte`, `ReadLineEnd` | `b_read_line`, `read_line_from`: one `read` of one byte per step, `\r` dropped, kept until `\n` or end of file |
| `BeginReadBuffer`, `ReadBufferStep`, `ReadBufferEnd` | `b_read_buffer` and `net-receive`, with and without a string to wait for |
| `BeginWrite`, `BeginWriteCurrent`, `BeginWriteWhole`, `WriteStep` | `b_write_buffer`, `b_write_line` (also of the current line), `b_net_send`, `b_write_file`, `b_append_file`: `write_bytes`, one `write` per step |
| `DeleteFile`, `RenameFile`, `Pipe` | `b_delete_file`, `b_rename_file`, `b_pipe` |
| `Listen`, `Connect`, `BeginAccept`, `Accept` | `b_net_listen`, `b_net_connect`, `b_net_accept`, on TCP ports and Unix paths |
| `BeginExec`, `ExecFeed`, `ExecDrain`, `CommandStep` | `b_exec` with an input: all of it written, then all output read; the command (external) moves one byte |
| `Abort` | `b_abort`: a child killed and collected, its channel dropped and closed; the registry and the pipe are `Cilk`'s |
| `Fork`, `Spawn`, `Exit` | `sf_fork`, `sf_spawn`: handles, line and pages copied, channels kept or cleared; the end of a child, at any point of a call |
| `Send`, `Receive` | `b_send`, `sf_receive`: one datagram, refused when the buffer is full, taken off the socket before it is assigned |
| `NewPage`, `BeginPageWrite`, `PageWriteEnd`, `BeginPageRead`, `PageReadEnd` | `b_share`: the length in one step, the bytes in another |

`HandleMap` promises each process a map from handles to files: opening takes
no handle in use, closing takes one from one process, a child starts with a
copy. `Abstract == INSTANCE HandleMap WITH map <- ...` reads the slots of every
table.

Properties: `TablesOk`, `ImplementsHandleMap` (refinement), `LinesAreTheStream`,
`AppendOnlyExtends`, `MailMatches`, `QuietReadIsLastWrite`, `PeerGoneEndsCall`,
`ExecReturns`.

### Values, Heap, Expressions, Namespace, Foop, SourceFile, Workspace: contexts, methods, saved source (ADR-0010)

`heap` is what the interpreter keeps of names: the value of each symbol, the
protected symbols, the current context, and `self_stack` (`selfs`). A symbol is
a name in a context or an entry of a dictionary. Forms are values, as in the
code, and each can be used in two ways: `Eval` evaluates it (special forms,
element builtins, calls of contexts, of classes and of lambdas, implicit
indexing), and `ResolvePlace` finds the place it leads to, a symbol and a path
of offsets. The code writes every branching form twice, as `sf_if` and
`place_if` for instance, and so does `Expressions`; what two such definitions
look for is shared (`FirstTrue`, `CondBody`, `CaseBody`, `PairWith`).

`frames` is the stack of method calls, each evaluating its arguments and then
running its body. What a body does is arbitrary: any operation of the program's
budget `left`. `root` in a frame says what the value of the receiver's symbol
should be by what the methods wrote to `self`, and `lost` that a step has
assigned that symbol in another way since; `assigned`, the symbols a step
assigns, is history for that.

| Action | Code |
|---|---|
| `DispatchOn` | `colon_dispatch`: the place the receiver's expression leads to or, when it leads to none, its value put in `$self-tmp`; its class, its method, before the arguments |
| `EnterMethod`, `NoMethod` | the push on `self_stack` after the arguments, the call or the refusal |
| `EndMethod`, `Unwind`, `Throw`, `Catch` | the pop, on `Ok` and on `Err` |
| `SetSelf` | `(setf (self i ...) v)`: `resolve_place`, `check_writable`, `with_place_mut` |
| `Assign`, `Protect`, `Define`, `Evaluate` | `sf_set`, `sf_constant`, `sf_define`, an application |
| `NewContext`, `DeleteSymbol`, `MakeMember`, `Switch` | `new`, `delete`, `(set 'C:x v)` by `sym`, `context` |
| `Save`, `SaveAll` | `save` with and without symbols: `source_of` of each |
| `WriteScript`, `Load`, `Restart` | a file written by hand; `load`: `parse_program` with the names qualified as the reader does, then each form evaluated; a new session beside the same file |

Properties: `SelfIsReceiver` (the stack holds the receivers of the running
methods, and their values as the methods have made them), `PlacesHoldValues`
(the place an expression leads to holds what the expression evaluates to),
`LoadRestores`. They state their conditions. Of `SelfIsReceiver`, the value is
claimed as long as nothing but the methods has assigned the receiver's symbol:
an assignment of the program, a parameter of that name and a nested call on
another temporary are excepted. `Restorable` names what a saved file does not
keep, `PlacesHoldValues` the conditional it does not hold for (see
[further differences](#further-differences-seen)).

### Scan, Json, Xml, Utf8, Literals, Calendar, Texts: conversions

These modules are pure: the scanners at a position of a byte string, as the
code's parsers are, with their errors and places. `Texts` makes the inputs. A
session is about one topic and grows one datum: `Passes` walks the calendar by
a day either way, `Type` adds a byte to a text, `AddItem`, `AddEntry`,
`WrapItem` and `WrapEntry` grow a JSON document, `AddPiece`, `AddElement` and
`WrapElement` an XML document. At every step the datum is written as the format
prescribes, by a writer of the model, in two styles, and given to the code to
read; it is also cut at every place.

| Definition | Code |
|---|---|
| `ReprString`, `ReadLiteral` | `repr` of a string in `printer.rs`; the three string syntaxes of `reader.rs` |
| `Chars`, `CharAt`, `Codepoints`, `Encode` | `utf8.rs` |
| `JsonParse`, `XmlParse` | `json.rs`, `xml.rs` with options and type tags |
| `DaysFromCivil`, `CivilFromDays`, `Weekday`, `UtcSecs`, `UtcFields` | `date.rs` |

Properties: `CalendarAgrees`, `LiteralsReadBack`, `DocumentsReadBack`.

## Runs and bounds

| Run | Module | Shows | Bounds, and why they are enough |
|---|---|---|---|
| `dynscope` | `MCDynScope` | the slots implement the searched stack; scopes nest; `args_stack` matches the calls | two symbols, two values, forms and bindings up to five together (`MaxDepth`): one symbol bound twice in one scope and again inside it, with a `catch` between; symmetric in the symbols. Proved for all. |
| `cilk` | `MCCilk` | `sync` with an inlet that spawns and reaps | three children: one overfills its pipe, one forks, two can be killed, two are waited for; four descriptors, so numbers are reused; one `sync` at a time (an inlet that syncs is `cilk_inlet`'s problem). Safety proved for all. |
| `cilk_inlet` | `MCCilk` | an inlet that aborts: *violation* | two children are enough |
| `control` | `MCControl` | the limit, exit and termination, with every form | limit three, four forms deep, one `eval-string`: every form inside every other, and a limit signal raised in each. Safety proved for all. |
| `control_exit` | `MCControl` | an exit dropped by `catch` with a target: *violation* | a `catch` in a `catch` |
| `control_limit` | `MCControl` | `eval-string` renews the budget: *violation* | one `eval-string` |
| `os_signals` | `MCOsSignals` | no signal lost, none handled without cause, each handled in the end | two signals, three deliveries each, three dispatches nested; `SIGKILL`, and a number past the bits of `PENDING`. Safety proved for all. |
| `places` | `MCCowPlaces` | counted, copied-on-write lists implement lists that are values; no list in itself; `swap` of places apart | two symbols, two lists of up to two elements alive after a step (up to five within one), paths of length up to two with indices from either end, one form with something in hand: a list shared by two symbols, by two elements of one list and by a form under way, at both levels of a nested write. Every property here is also a theorem for all symbols, places and sizes. |
| `places_swap` | `MCCowPlaces` | `swap` of a list and its own element: *violation* | a list of one element |
| `ipc` | `MCIpc` | handles are a map; lines are the stream; appending only extends; messages match, also after an abort; quiet page reads; calls whose peer is gone, and `exec`, return | three processes, so that a number is used again while a third holds the old socket; streams of three bytes, so that the texts of two and four do not both fit; writes above two bytes are split (`PipeBuf`); thirteen programs, each a budget of the operations that meet one hazard. Safety proved for all. |
| `workspace` | `MCWorkspace` | every running method has its receiver; places hold values; a loaded file gives back what was saved | three contexts, two of them a class or a dictionary, two method calls nested, nine programs with up to seven operations; eight receivers, and thirteen expressions that cover every form that leads to a place, each over values that take every branch: a method on a temporary within one on a temporary, a class copied, deleted and loaded, a file read under names bound since. A method takes one parameter, which may be the receiver's own symbol. |
| `texts` | `MCTexts` | dates, literals, JSON and XML documents read as what they stand for | every day of 2200 years (years before 0, seven eras and every kind of century), a clock on those of 130 years; every text of up to four of eleven awkward bytes; documents of three steps, of strings with escapes, controls and characters of one to four bytes, under four sets of XML options and tags. Longer ones repeat the same scanning loops. The calendar is proved for all days. |

Every property of a passing run has a mutant in `PROJECT.json`: a plausible bug
in a definition (restoring forwards, leaking a pipe, loading `PENDING` instead
of swapping it, ...) under which TLC finds the property violated.

The bounds that cut behaviours off are `MaxDepth` (`Frames`, `Control`),
`Nested`, `N`, `NumFds`, `MaxNest`, `MaxDeliveries`, `MaxList`,
`MaxActive`, `MaxNodes`, `MaxHandle`, `MaxFrames`, `Menus`, `FirstDay`,
`LastDay`, `MaxText`, `MaxJson` and `MaxXml`; each is a guard of the
actions that would exceed it, named where it is declared. `Capacity`,
`PipeBuf`, `MailBytes` and `RecvMax` stand for limits the kernel or the code
has (a pipe's 64 KiB, its atomic 4 KiB, a socket buffer, `receive`'s 65536
bytes), made small. Descriptors are finite too: a `spawn` that finds none
returns `nil` and changes nothing, a stutter here.

A budget in `Menus` gives each program a few uses of a few operations, in any
order and by any process. That keeps apart hazards that do not meet, while the
one specification still allows everything: a program is an initial state.

`os_signals` checks no deadlock because the process may be ended by a signal's
default action, `ipc` because a process may read an empty stream for ever,
`workspace` and `texts` because a session ends when its budget or its bound is
reached. The other runs check it.

## Fairness

- `DynScope`, `CowPlaces`, `Workspace`, `Texts`: none. A script may stop anywhere; its properties are safety.
- `Control`: `WF_vars(Evaluate \/ Finish)`: the evaluator keeps executing a run
  that has begun. Nothing is assumed of *which* step the script takes, so it
  may loop, catch and raise for ever: `RunEnds` shows that the limit stops it.
- `Cilk`: children that compute finish and write (weak fairness of each child's
  steps: separate processes under the kernel's scheduler), the processes they
  fork end, the interpreter keeps executing `sync` and a `wait-pid` whose child
  has ended returns. Strong fairness of `InletReturns`: an inlet, whatever it
  does first, returns; weak would not do, since waiting inside it disables the
  return. Nothing makes a child die or a deadline pass.
- `Ipc`: weak fairness of `CallStep` of each process: the system runs every
  process, and a system call that can go on goes on. No process is made to
  begin a call, to fork or to end, so nothing but the kernel's own notice of a
  closed peer ends a blocked call in `PeerGoneEndsCall`.
- `OsSignals`: the interpreter keeps executing `signal` and a dispatch; safe
  points recur and handlers return (strong: both are disabled whenever a
  nested dispatch or a call of `signal` is in progress). A script that loops
  in one builtin has no safe point: that is the premise, not a result.

## Disagreements found

Four runs are expected to end in a violation; each contradicts a comment in
the source or a line of the documentation.

1. **`cilk_inlet`: `NothingAfterAbort`.** `b_sync` walks a snapshot of the
   registry (`src/process.rs:620`). When the inlet called for one child aborts
   another that was ready in the same `poll`, `sync` goes on to read its
   closed descriptor, binds `nil` to the aborted child's symbol and calls the
   inlet for it. If a `spawn` in the inlet has reused the descriptor, it is
   the new child's pipe that is read and closed. `b_sync` says it binds "each
   finished child's result". A nested `sync` in the inlet makes the outer
   snapshot stale in the same way.
2. **`control_exit`: `ExitNotSuppressed`.** `(catch (exit) 5)` evaluates its
   target after the exit and returns the error "result target is not a symbol"
   instead (`src/eval.rs:2837`); an outer `catch` then drops that. `Signal`'s
   doc says "a script cannot suppress its own exit or dodge the eval-step limit
   by catching".
3. **`control_limit`: `LimitBoundsRun`.** `eval-string` calls `eval_string`,
   which resets `eval_steps` (`src/eval.rs:383`), so each one buys a new
   budget; `set_eval_limit` says "the limit bounds one script run".
4. **`places_swap`: `SwapExchanges`.** `sf_swap` navigates to the second place
   again after it has written the first (`src/eval.rs:1867`). With `x` set to
   `(nil)`, `(swap x (x 0))` sets `x` to `nil`, fails with "place index out of
   range" and leaves the exchange half done. `docs/spec/special-forms.md:390`
   and the comment in `sf_swap` say that "two places into the same list stay
   valid across the exchange". Of places apart it is true:
   `SwapExchangesApart`, in `places`.

### Further differences seen

While modelling names, source files and the parsers, these were met. The
models follow the code; the properties of `Workspace` and `Texts` state the
conditions that leave them out, so that everything else is checked.

- `source_of` writes values unquoted, so a saved list or symbol is evaluated
  when it is loaded; `docs/spec/functions.md:213` calls the output loadable
  source. Objects come back because their class, if it is defined by then,
  builds them. `Restorable` asks for values whose text evaluates to themselves.
- A class's functor is skipped on saving, so a class loaded in a fresh session
  is a dictionary. A float without a fraction prints as an integer. A
  dictionary key with a blank in it breaks its line. An alias of a context is
  written under the context's own name. Members of a context whose symbol was
  overwritten are missing from a whole save. `load` stops at the first constant
  it meets.
- Names in a loaded file are qualified by what is bound when it is read
  (`primitive_names`), so the same file reads differently in another session.
- `$self-tmp` is one slot: a method on a temporary that calls a method on
  another temporary finds the other in `self` afterwards, though
  `docs/adr/0010-foop-object-model.md:14` has `self` behave correctly under
  nested method calls. A method whose parameter is the receiver's own symbol
  finds its argument there. `lost` marks both, and `SelfIsReceiver` says nothing
  of the value then.
- A lone `\r` ends no line: `read_line` drops every `\r`, as its comment says
  (`src/fileio.rs:326`), where `docs/adr/0029-file-io-slice.md:100-101` has
  `\n`, `\r\n` and a lone `\r` all terminate. `LinesAreTheStream` states what
  the code does.
- `if` takes several conditions (`sf_if`, `src/eval.rs:1233`;
  `docs/spec/special-forms.md:162`), but as a place it looks at the first one
  only: `place_if` (`src/eval.rs:2196`) takes the third argument when that is
  false, the second condition. `PlacesHoldValues` leaves such an `if` out.
  `place_or` evaluates the expression it finds true a second time, for its place.
- `(signal 9 h)` and `(signal 19 h)` succeed, though the kernel refuses the
  disposition (`src/process.rs:489` ignores the result of `libc::signal`): the
  table has a handler that never runs "when OS signal `n` arrives"
  (`src/process.rs:469`). `DispositionAgrees` excepts the signals the kernel
  refuses.
- `new`, `delete`, dictionary assignment and `constant` itself do not look at
  write protection.
- A failing `resolve_place` makes `colon_dispatch` evaluate the receiver again.
- `json-parse` misreads a surrogate pair of escapes (`src/json.rs:181-187`),
  which `DocumentsReadBack` excludes, and accepts leading zeros and `1.`.
  `xml-parse` looks for the end of an entity without bound, where its comment (`src/xml.rs:373`) speaks of a short window.

## What is proved

All theorems are checked by TLAPS with SMT, Zenon and LS4; nothing is left
unproved. They hold for every value of the constants that meets the named
`ASSUME`s: the types of the constants; that marks like `Nil`, `Unbound`,
`Missing` are told apart from values and from each other; `TextsAssumption`,
`CapacityAssumption` and `MailAssumption` (a text is a finite sequence, sizes
are numbers); `BytesAssumption` (`\n` is not `\r`); a list has room for one
element, and a program finitely many symbols (`PlaceAssumption`, `CowAssumption`: a strong count counts them). Where
said, `QuietInlet` is assumed too. TLC evaluates each of them in a run.

**`DynScope_proofs`**: `TypeCorrect`, `ScopesAlwaysNest`,
`ArgsAlwaysMatchCalls`. `ScopesNest` is not inductive: the first frame must
start at 0 (`FirstAtBottom`), a catch must have everything above its base
restored before it sees a signal (`CatchesEmpty`, since only the innermost
frame can be on its way out), a running loop must have its variable's save
(`LoopsBound`), and `args` must be *the* increasing list of the calls whose
bodies run (`ArgsExact`), not just one of their number.
`SlotsImplementEnvStack == Spec => ImplementsEnvStack`, for any symbols, values
and depth: a save read forwards is a binding read backwards. `SaveAddsBinding`
shows that pushing a save and overwriting the slot appends exactly one binding
and changes no other; restoring is the same step backwards, so
`RestoreSlotMaps` uses the same lemma. `LookupFindsSlot` shows the slot always
holds what the search would find; `SetMaps` that overwriting it changes exactly
the binding the search would change. Each action then maps to one action of
`EnvStack`.

**`Cilk_proofs`**: `TypeCorrect` for any inlet. `SyncIsSafe` and
`SyncKeepsPromise` under `QuietInlet`, that is `InletOps \subseteq {"spawn",
"wait-pid"}`: by finding 1 they are false for inlets that abort or sync. The
inductive invariant adds that at most one `sync` runs (`OneSync`), that no child
is registered twice (`OneEntry`), that a pipe at its end holds a whole result
unless its child was killed (`WholeAtEnd`), which is why reading to the end
cannot cut a result, and that only a child that has left the registry has its
symbol bound (`BoundIsOver`). That the snapshot stays registered
(`SnapshotStillPending`) is only a part of it: without `QuietInlet` it is false,
which finding 1 is about. `SyncKeepsPromise` maps `Collect` to
`Deliver`, `AbortOne` and `AbortAll` to `Abort`, `Spawn` to `Launch`, `Die` to
its namesake, and everything else to stuttering. The parts of the invariant
that a run checks are stated too: `RegistryIsExact`,
`ZombiesAreKnown`.

**`OsSignals_proofs`**: `TypeCorrect`, `SignalsAreKept`, `CallsAreDue`,
`KernelAgrees`, of the next-state relation without fairness. The invariant adds
`DispositionExact`: while `signal` is between its two steps the table and the
dispositions differ in that signal and the refused ones alone, and no signal
that is caught is past the bits of `PENDING`. `CallsAreDue` counts: every step moves
at most one unit between deliveries, `PENDING`, the masks and the calls
(`HeldStep`).

**`Control_proofs`**: `TypeCorrect`, `BudgetHolds`, `ExitAlwaysUnwinds`. The
invariant is the shape of the stack (each form at a place it has, only a catch
with a target holding a result) and `Counters`: `total` is at most the current
count plus a full budget per `eval-string`.

**`Ipc_proofs`**, for any number of processes, programs and sizes:

- `TablesCorrect`, `TablesImplementHandleMap`. `TableOk` (the free list is
  exactly the empty slots, each once) is inductive once the types of tables are
  with it, because `insert` takes from the free list what `close` put there
  (`InsertOk`, `CloseOk`); the rest of the argument is that each action leaves
  each table alone, inserts, closes, or copies one to a child that had none
  (`FileActions`, `CallActions`, `MailActions`, `ChildStep`). That a call holds
  an open file it was given at its start (`Accept`, `Connect`) needs the calls
  in the invariant too (`IInv`). `TableStepMaps` takes each step to one of
  `HandleMap`: an insert extends the map where it was undefined.
- `TypesCorrect`: `IInv` with `Typed`, the types of all that the calls hold.
- `MessagesArriveAsLabelled == Spec => []MailMatches`, about who a message comes
  from and goes to; it says nothing of its content, which `receive` may cut, nor
  of its order. The invariant follows a
  message back to its channel (`Letters`): of processes not made by a plain
  `fork`, the two ends of a channel are labelled with each other's number
  (`LabelsTrue`), and a datagram under way was sent by the one to the other
  (`MailTrue`); nobody knows a process before it starts (`UnbornUnknown`). An abort keeps
  some of the channels there were and makes none (`WithoutAre`).
- `QuietReadsSeeLastWrite == Spec => QuietReadIsLastWrite`, about reads that no
  write overlaps, of pages no two writes of which overlapped and no writer of
  which was killed half-way. A page that was
  never written by two at a time has at most one writer, whose length is
  already there (`OneWriter`); with no writer it holds the last value written
  (`QuietPage`); and a reader that has seen no writer since it took the length
  still has the right one (`QuietReader`).
- `AppendsExtend == Spec => AppendOnlyExtends`, the action property, about
  the steps of a write through an append handle and of `append-file` only: such a
  write leaves what is in the file before what it
  adds, because such a handle is written at the end of the file there is now
  (`AppendsExactly`), whoever else writes.
- `LinesReadAreWritten == Spec => []LinesAreTheStream`, for any texts, any pieces
  they are written in and any capacity of a pipe; every `\r` counts
  as dropped. For a stream with one reader that reads lines only (`OnlyReader`), what has been taken from it, without the
  `\r`, is the lines returned with the part of a line that the reader holds
  (`LinesHold`). A line that ends without its `\n` breaks that for good, so the
  invariant has a second case, that the stream has ended: all of it was read and
  nobody can write to it any more (`Ended`). That this stays so (`WritersShrink`)
  is the larger half of the proof. A writer in the middle of a write, and a
  process in `accept`, hold the file they use (`HoldersKnown`); a stream waiting
  to be accepted is one that a listener has (`ListenersKnown`); new ends come on
  new streams (`DescsGrow`), and an open one is only handed to a child or to the
  process that accepts it (`HeldShrinks`). Every step then leaves a stream alone,
  writes to one with a writer, or reads from it (`QuietLines`, `ByteLines`,
  `EndLines`): `JoinedOfAppend` and `BareOfAppend` say what one line and one
  byte more do to both sides.

**`CowPlaces_proofs`**, for any symbols, places and sizes: `TypesCorrect` and
`NoListInItself == Spec => []Acyclic`, and `SharingUnseen == AtomsAreNoLists =>
(Spec => ImplementsPlaces)`, the refinement. The inductive invariant says that lists
can be numbered so that each has a greater number than those of the lists in it
(`Ranked`). A write could break that if a list were written into one it
contains, and what forbids it is the strong count: `NavigateSound` shows, step
by step along the path, that the lists passed through end as the place's own
(`Own`: elements of no other list, in hand of nobody), because `MakeMut` either
copies a list or has counted a single reference to it (`MakeMutSound`). What is
written comes from a hand or a symbol, so it is not among them, and can be
numbered below them (`RanksLifted`, `StoreSound`). Conversely `BelowIs` shows
that a search of as many rounds as there are lists finds everything below, and
that renumbering what is kept (`TidiedSound`) loses nothing. `swap` keeps it
over all four visits (`SwappedSound`), also where finding 4 applies.

The refinement rests on the same invariant. Since no list contains itself, each
stands for exactly one value (`ValFits`, by the numbering of `Ranked`), and two
heaps that look alike from a list down give it the same value (`SameTrees`): so
the copies made by navigation (`CopyOn`), and dropping and renumbering
(`BecomesSeen`), show nothing. A write does. The lists from a symbol to the end
of its path form a spine (`On`), each referred to from one place only
(`Soles`), because `make_mut` saw to that at every step (`NavigateSeen`).
So a write there changes the value of the root at that path (`SpineRebuilds`,
`SpineWrite`) and the value of no other symbol, no list in hand and no form
under way (`Untouched`, `Written`). Each action is then taken to the action of
`Places` by one lemma (`AssignSeen` to `FailSeen`; `SwapSeen` goes through the
four visits), `Pop` of an empty list to a stutter. `AtomsAreNoLists` says that
an atom, or the mark of a path that leads nowhere, is not a sequence; the code's
`Value` is a tagged enum, and TLC's model values are no sequences. It is a
hypothesis of the theorem and not an `ASSUME` of the module because it
quantifies over all sets, which TLC cannot evaluate.

`PlacesExchanged == AtomsAreNoLists => (Spec => []SwapExchangesApart)` builds on
it. `SwapCarries` says what a program sees after the four visits: two writes,
one after the other. The rest is about values alone. What is found at a place
that was written is what was written (`WrittenReaches`, `Renewed`); two paths
of which neither lies within the other go the same way for some steps and then
part (`ApartForks`, `Fork`); and along the other branch of a fork nothing
changes, neither what is found nor the positions its indices name
(`WrittenApart`). So the second write neither misses its place nor disturbs the
first (`ExchangedWithin`).

**`Calendar_proofs`**: `CalendarCorrect == CalendarSpec => []CalendarAgrees`, for
every day. Both directions of `date.rs` count in years that begin in March and
eras of 400 years. `CountForm` gives the day number of a date in that form,
`NextCounts` that the next date has the next number, whatever month, century or
era ends, `AfterBefore` that the day before is its inverse, and `Decoded` that
`CivilFromDays` finds the year and month whose bounds hold the day
(`YearBounds`, `InMonth`). The invariant says that `day` is the number of
`date`, a date that exists; the walk is then only a way to reach every day.

`StackLemmas` has what these share: sequences as stacks, `CountUp` (what holds
of 0 and passes from each number below `n` to the next holds up to `n`) and
`RecursionExists` (a function defined by recursion on `0..n` has the steps it is
defined by). Both take sets and functions, not operators, and are proved from
the library's facts.

## What is only model-checked

- Liveness: `PatientSyncReturns`, `WaitPidReturns`, `SignalHandled`, `RunEnds`,
  `PeerGoneEndsCall`, `ExecReturns`. The prover does not reason about fairness.
- `Cilk` with inlets that abort or sync (where the safety properties fail).
- `Workspace`, and the literals and documents of `Texts`: evaluation and the
  parsers are recursive operators, which the prover does not take.

## Abstractions

- Values are model values, or a child's pid for its result. Printing and
  reading a result is the identity on complete results and `Partial` on cut
  ones.
- Time: a `sync` is patient (its deadline does not pass) or may expire at any
  poll.
- A script is nondeterminism: any step the evaluator could be asked to take.
  Anything proved holds for every script.
- `DynScope`: the target of a `catch` is evaluated in the step that writes it;
  what that evaluation may raise is `Control`'s subject. A loop's variable is
  `nil` between its binding and its first item.
- `Cilk`: pids are not reused; a kill of a child already reaped reaches nobody.
  A `spawn` that finds no descriptors or no process returns `nil`. A
  `poll` that reports closed descriptors only is a stutter: the loop goes round.
- `CowPlaces`: `extend` has one further argument and splices it or appends it;
  what `replace` looks for is an atom. Strings and arrays, which are counted and
  copied the same way, write protection, `set-ref` and `pop-assoc` are left
  out, and so is a script that assigns `$it` itself. Addresses are numbered
  anew after each step. How an expression leads to its path, by `lookup`, `assoc`
  or a condition, is `Expressions`' subject.
- `Ipc`: bytes are a handful of model values. A path names one file, without
  directories or permissions. `exec`'s command copies its input to its output,
  the kind that needs both pipes at once. A message is a text; what its
  conversion to source does is `Literals` and `SourceFile`. A killed child is
  collected at once and its number free: who collects it is `Cilk`'s subject.
  `abort` of a child without a channel is like a kill from outside (`Exit`): a
  channel left from an earlier child with the same number, which it would drop
  too, stays.
- `Workspace`: lambdas are of two shapes, one that returns its parameter and
  one that makes an object of a class; methods that are fexprs are left out. Chained
  destructive forms as places (`(pop (push ...))`, `src/eval.rs:2129-2157`), `set` and `setq` as places and
  aliases of special forms are left out.
  Files are read and written at once; `FileIo` has the system calls.
- `Texts`: integers of JSON stay below ten digits, and the value of a float is
  its token. The writer of the model never writes surrogate escapes.
- `OsSignals`: one process. Signals are all of the kind whose default action
  ends the process; one that stops it is the same as a pause of the script.

## Not modelled

- Most builtins, list queries and regular expressions are pure functions of
  their arguments; property tests suit them better.
- Dates in local time, `date` formats and `date-parse` call the C library.
- Directories, file information, environment variables, `net-select`,
  `net-peek` and the names of peers only ask the system. `!` and `process`
  start a command that shares nothing but the standard streams.
- Line editing is terminal input; raw memory access and C types are unsafe code
  around a library.
- The grammar of lists, comments, quotes and numbers in the reader.
- The GUI helper: see the plan.

`PROJECT.json` says of each component what stands.

## Plan

Done: dynamic scoping, control signals, Cilk processes, OS signals and the
calendar, with their theorems; places, with all their properties as theorems;
processes with files, messages and pages, with all their safety properties as
theorems; FOOP with saved source; the parsers. Left, in this order:

1. **Places**: write protection, `set-ref`, destructive forms as places, and in
   `CowPlaces` the index that `lookup` and `assoc` found and that may be stale
   when it is used.
2. **Self**: that `self_stack` holds the receivers of the running methods, as a
   theorem of a module that leaves evaluation out, and so needs no recursion.
3. **GUI**: the event loop when the connection ends (`lib/gui.lsp:91`).
4. **Reader**: number tokens, and lists within lists.
