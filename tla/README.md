# TLA+ models of the Vivisect-Ghidra bridge

The bridge lets a Vivisect session use Ghidra's decompiler. An extension in
Vivisect (`python/src/vivghidra`) extracts symbols, translates symbolik effects
to p-code, and asks a server in the Ghidra process (`java/src/main/java/vivghidra`)
for C code over newline-delimited JSON on TCP. This directory holds its
specification in TLA+, the model-checking configurations, and proofs checked by
TLAPS. `src/` below is the repository.

## Inventory

| component | state it keeps | operations | must hold |
|---|---|---|---|
| `GhidraClient` (ghidra_client.py) | `_connected`, `_sock`, the local `buf` of a call | connect, close, `_send_request` (every other method calls it) | a call returns or raises; a reply belongs to its call; nothing is sent twice |
| `JsonRpcServer` | server socket, `running`, accept thread, one thread per client | start, stop, serveLoop, handleClient, sendResponse | requests of a connection are handled once and in order, and answered |
| `VivGhidraBridgePlugin` | racy fields `decompilerService`, `symbolApplier`, `pcodeInjector`; `rpcServer` | programActivated, programDeactivated, dispose on Ghidra's event thread; `handle` on the client threads | a request never runs on services that are gone; nothing leaks between programs |
| `DecompilerService` | `decompInterface`, `program`, `initialized`, its monitor | openProgram, closeProgram, decompile | the native interface is used by one thread, and only while open |
| `SymbolApplier`, `PcodeInjector` | a program, for good | applySymbols; injectPcode (a placeholder) | symbols of a request are there when it is decompiled |
| `StartBridgeServer` | `running`, two server sockets, a thread pool, `functionList` | the headless script: accept loop, dispatch, its own applySymbols, setComment, renameSymbol, setSignature, decompileFunction | edits reach the program; the list of functions agrees with it |
| `extension` (extension.py) | `_client`, `_addr_map_cache`, widgets | decompile, view p-code, comment, rename, edit signature | both databases receive an edit, at the same function |
| `decompiler_widget` | address, name and code shown; search results | set_code, set_error, menu handlers, search, navigation | what a handler acts on is what the window shows |
| `pcode_translator` | the counters of temporaries and of ops | translation of a function's paths, effect by effect | the p-code means what the effects mean; a temporary is assigned once, before it is read |
| `symbol_extractor` | none | extraction of a function's symbols and those it calls | symbols do not contradict one another |
| `JsonUtil` | none | parse, serialize | what one end writes the other reads; what is cut or glued is not taken for a message |
| `models`, `Protocol`, `config`, `pcode_viewer`, `ui_dialogs`, `syntax_highlighter` | none that outlives a call | records, JSON, constants, forms | round trips lose nothing |

How they interact: the extension calls `GhidraClient` from Vivisect's GUI
thread, so that one call at a time is in progress per client; several clients
(scripts, `decompile_function_headless`) may be connected. `JsonRpcServer` calls
back `VivGhidraBridgePlugin.handle` from one thread per connection, and these
threads share the plugin's fields and the open program with Ghidra's event
thread. `DecompilerService` is the only object with a monitor. The headless
`StartBridgeServer` replaces plugin and server with a script of its own.

What is hard here: a timeout leaves a reply on its way in a socket that stays
in use; a stop or a restart of the server leaves threads and sockets behind;
programs are closed while clients decompile; the plugin's fields are neither
volatile nor guarded; symbols are applied and decompiled in two critical
sections; two databases are edited one after the other, each of which may fail.

## Plan

Order of modules, the most important behaviour first. All but (7) are there.

1. `RpcLink` - client, wire and server threads of one client.
2. `RpcSpec` - the abstract specification of (1): what a caller may rely on.
3. `BridgePlugin` - event thread against client threads in the Ghidra process, and
   `ServiceSpec`, the abstract specification of it: which program serves whom.
   It uses (1) only through Connect, Request and Disconnect, one worker for one
   connection: by `HandlerRunsInOrder` and `HandlerRunsOnce` a connection is a
   sequence of requests, each handled once.
4. `BridgeSession` - extension and window: the address map, edits in two
   databases, what a window shows. It uses (2): a call has one of the outcomes
   that `RpcSpec` allows.
5. `PcodeTranslator`, and `Symbolik`, the abstract specification of it: effects
   translated to p-code, and what they mean.
6. `SymbolDb` - symbols from the extractor to either server's program;
   `CodeWindow` - the text of the window and its search.
7. `BridgeScript` - the pool, shutdown and decompilers of the headless script;
   not begun (see "Not modelled").

Each module `M` has its properties in `MInv` (in `BridgeSession` itself for
that one), its values for TLC in `MCM` where a configuration cannot write them
down, and its theorems in `MProof`. A definition named `Bug_x` is a wrong variant of x
which some property must notice.

## RpcLink: the client and its server

`RpcLink` has the client's variables (`connected` and `sock` for `_connected`
and `_sock`, `receiving` and `buf` for the loop of `_send_request`), two byte
streams per connection (`up`, `down`), the server's accept loop (`server`:
"down", "serving", or "deaf" after a failed accept) and one worker thread per
connection (`worker`, `request`). Calls are numbered; a request or reply is
named by the number of its call, since the client sends no id and compares
none. A line is two fragments, "head" and "tail" (which ends in the newline),
because `sendall` may stop half-way and `recv` may cut anywhere; what follows
the newline in the chunk that completes a line is dropped, as the code does.
The two ends read a line that is not what was sent differently. The client's
`json.loads` takes one whole reply and nothing else (`WellFormed`). The server's
parser does not look behind the object (`JsonUtil.parse`), so of a head with other
text glued to it `Parses` has two readings: if the head is a whole object that lost
only its newline, it is that request, and whatever follows is swallowed; if not, the
line is an error. How much of a head has left is not known to the model, so both may
happen.
`outcome`, `on` and `runs` are history variables for the properties.

Each action is one statement or branch of the code: `Connect`,
`ConnectRefused`, `Close`; `CallNotConnected`, `Call`, `CallSendTimeout`;
`RecvMore`, `RecvLine`, `RecvTimeout`, `RecvEof`, `SocketError`; `Start`,
`AcceptError`, `Stop`, `Accept`, `Exit`; `WorkerRead`, `WorkerAnswer`,
`WorkerExit`, `WorkerDies`. `Exit` (the Ghidra process ends) and `DropSocket`
are the operating system's.

`RpcSpec` states the promise over calls, outcomes and connections only, with
neither wire nor server: replies are handed out in call order, one to one call,
and are the call's own until a call on the connection has timed out.

| run | shows |
|---|---|
| `RpcLink.cfg` (3 calls, 2 connections) | `TypeOK`, `RepliesInOrder`, `OwnReplyUnlessTimeout`, `FramingLostOnlyByTimeout`, `HandlerRunsOnce`, `ClosedStaysClosed`, `HandlerRunsInOrder`, and that `RpcSpec` is implemented |
| `RpcLinkLive.cfg` (2 calls, 2 connections) | `CallsReturn`, `RequestsAnswered` |
| `RpcLinkOwnReply.cfg` | finding: after a timeout the next call is handed the late reply |

`ClosedStaysClosed` is about the flag `_connected` that stays True when `recv`
reports the end of the stream: further calls go to that connection, where none is
answered and for none of them the handler runs. `RequestsAnswered` is about lines: a
request in a line of its own is answered, and of two that a timeout glued into
one line, one is.

Bounds: three calls are a call that times out, one that is handed its reply and
one that meets what is left; two connections are a reconnect. A line of two
fragments is enough to be cut before, inside and after.

Fairness: the client's thread and each server thread keep running (`WF`), as
nothing in the code blocks them for good: `recv` ends by the socket timeout
(`settimeout` in `connect`), and a handler ends. Nothing is fair that has to
fail, and nobody has to call, connect or start a server.

## BridgePlugin: programs come and go under the client threads

The event thread is `event`, a position in the callbacks programActivated
(`ProgramActivated`, `OpenProgram`, `MakeHelpers`, `StartRpcServer`),
programDeactivated (`ProgramDeactivated`, `CloseProgram`, `ClearFields`) and
dispose (`Dispose`, `CloseProgram`). What an activation creates bears its
number; 0 is null. A worker is `pc[w]`, a position in `handle`: symbols are
applied one by one (`TakeApplier`, `ApplyOneSymbol`, `SymbolsApplied`), p-code
is looked at (`InjectPcode`), the service is taken from its field
(`TakeService`), its monitor is waited for (`Decompile`), the program is read
(`ReadName`), the answer is sent (`Decompiled`, `NotInitialized`).

The three fields are plain Java fields shared by threads, a data race. A field
is `[now, shown]`: its value, and what the workers of each server may see when they
read it (`Read(w, f)`). That is the value the field had when the server was started,
which orders what was assigned before ahead of every read of the threads it starts
(`Started`), or any value assigned since (`Assign`), however many there were.
The code reads each field twice (null check, use)
and so does the model. `openProgram` closes what was open first; on the new
object that programActivated calls it on there is nothing to close.

A name is the number of the write that made it, so that `code[w][a] >=
own[w][a]` says that code shows the name its request wrote or a later one. A
write may fail (`ApplyOneSymbol` then changes nothing), as every `setName` may.

`BridgePlugin.cfg` checks, for two activations of two programs, two workers, two
addresses and two writes: `ServedProgramIsOpen`, `CodeShowsOwnSymbols`,
`NoEarlierProgram`, `TypeOK` (which has it that no worker goes on with null), and
`ImplementsServiceSpec`. `ServiceSpec` knows neither fields nor monitors: programs are
opened one at a time and numbered, a client enters while one is open, decompiles in
that one or a later one, nobody else does meanwhile, and none is closed under a
decompilation. A program is open from `openProgram` to `closeProgram` (`Opened` is the set of
interfaces that are, so that one that leaks, or a second one, shows), and in use while a
worker is inside `decompile` (`Using`). The activation that `programActivated` has begun
counts from `openProgram` on (`Latest`).
Two activations are what it takes for an old worker to meet a new program, two
workers to meet at a monitor or at a name; the two programs may be the same one
opened again. Programs, workers and addresses are interchangeable, hence the
symmetry. `VIEW` identifies states that differ only in what nothing reads any more: code
that has been answered, the writes of an apply_symbols request, and the applier of a
request that has written nothing with it. Deadlock is not checked: after `dispose`, with no client connected,
nothing more happens.

`BridgePluginLive.cfg` checks `EventThreadReturns` and `RequestsAnswered` with one
activation and one address and no symmetry. Fairness: threads keep running; a
decompilation ends, because `decompileFunction` is given 60 s; and a thread that
waits for a monitor gets it although others take it in between (strong fairness
of entering it). The last is the usual assumption about Java monitors, which the
language does not promise; without it a client that keeps decompiling could keep
Ghidra's event thread out for ever.

## BridgeSession: two databases and a window

The handlers of extension.py run one after another on Vivisect's GUI thread.
Each is a step up to its first call to the server (`Decompile`, `AddComment`,
`Rename`, `EditSignature`) and a step for each call (`FirstList` and `Match`, the
two `get_function_list` of `_map_viv_to_ghidra_address`; `Show`, `SyncComment`,
`SyncRename`, `SyncSignature`); `step` is the call in progress and `target` the
address it is about. `viv` and `ghidra` are the names in the two databases,
`viv_notes` and `ghidra_notes` the addresses with a comment, `cache` the offset in
`_addr_map_cache`, `func_addr`, `func_name` and `shown` the window. Function f of
Vivisect is at f + `Shift` in Ghidra. A name stands for the rest of a signature as
well; `Base` removes the prefixes that the address map removes.

The server is a set of answers per request, each with the program it leaves:
those of `StartBridgeServer` if `Script`, else of the plugin. Among them are
the plugin's refusal of a list while no program is open, and a `set_signature` of the
script that is refused after it has changed the name. A call (`Call`) ends
as `RpcSpec` lets it: `Returns` the first reply that nobody has read, or `Raises`
and leaves replies to come (`late`) or a connection that is lost, of which
`_connected` knows ("down") or does not ("dead"). A server that serves the requests
of a connection in order (`HandlerRunsInOrder`) may as well serve each when it is
made. `failed`, `known` and `edited` are history variables.

| run | shows |
|---|---|
| `BridgeSession.cfg` | with image bases as far apart as two functions: `TypeOK`, `OffsetIsShift`, `WindowShowsItsFunction`, `CodeIsCurrent`, `HeaderShowsName`, `ErrorsAreFailures` |
| `BridgeSessionSame.cfg` | with the same image base: `RenamesReachBoth`, `CommentsReachBoth` |
| `BridgeSessionRename.cfg` | finding: a rename is not mapped to Ghidra's address space |
| `BridgeSessionPlugin.cfg` | finding: the client cannot read the plugin's `high_pcode` |

Bounds: two functions are one that a handler is about and one that it must leave
alone, and `Shift` equal to their distance makes an unmapped address that of the
other function. Names collide, differ by a prefix, or differ ("main", "plt_main",
"read"). The properties say what holds as long as nothing failed, and a late reply
needs a failure: `BridgeSessionSame.cfg` has replies that come late, one at a time,
and the other runs lose them at once. That a call in progress ends, and with it
every handler, is `CallsReturn` of `RpcLink`; no fairness is assumed here.

`OffsetIsShift` says nothing after a failure, and must not: a lookup that fails, or
that is handed another call's late reply, leaves the offset 0 for the session. The
properties of the window stop at a failure for the same reason: `set_error` leaves the
address, name and code of an earlier function in it, and a rename whose
decompilation fails leaves the old name in its header. `PROJECT.json` lists these as
hazards that no property covers.

## PcodeTranslator: what the p-code means

`_translate_ast` is a recursion over an expression whose results are varnodes.
Its post-order is what the model has: `stack` holds the results that are not
consumed yet, an action for each kind of node (`Const`, `Var`, `Arg`, `Mem`,
`SExtend`, `CNot`, `translate_operator`, `translate_constraint`, `Call`,
`CallVoid`) takes its operands off the stack and puts its own result there, and
an action for each kind of effect (`translate_set_variable` and the others)
consumes what is on it. So every expression and every sequence of effects is a
behaviour. `translate_function` resets the counters, `translate_effects` does so
again for each path, `PathDone` adds its ops to the function's, and `WalkFails` is
the exception that loses a path and ends the loop.

The code of a path is straight-line. The machine (`cells`, `held`, `mem`, `seen`)
therefore runs each op when it is emitted (`Execute`), by what Ghidra's p-code
reference says of its opcode (`Computes`).

A varnode is a stretch of storage, `size` bytes from `offset` in its space, and the
offsets are the code's: all sub-fields of eflags have that of eflags, a
sub-register lies in its register, the counter of temporaries counts temporaries and
not their bytes, an unknown name is hashed into the same space. So stretches overlap.
`cells` has what was last written to each name and temporary (`Home`), `held` the size
at which it is still there: a write takes its storage from every home that it
overlaps (`Write`). An op that reads something that is not there whole (`Whole`) makes the
path `lost`, and the machine is not followed any further. That makes it possible to say what the
code is for: `Symbolik` runs the effects themselves, over variables, arguments and
memory, with neither varnodes nor temporaries, and
`Meaning == INSTANCE Symbolik WITH values <- Values(stack), env <- ..., arg <- ...`
maps the machine to it: the value of a variable is what its register holds, and a
pending result is what its temporary holds now, not when it was computed. A
temporary that is used for two results, operands the wrong way round, or an
assignment that is left out is a step that `Symbolik` does not have. Of a path that is
lost `Symbolik` says nothing more, up to the next path. So `ImplementsSymbolik` says
that the p-code of a path means what its effects say until an op reads storage that
another name, another temporary or another size has been written to, and that nothing
else makes it go wrong; that such paths exist is in the findings.

`PcodeTranslator.cfg` checks `AssignedOnce`, `DefinedBeforeUse`, `ImplementsSymbolik`
and `TypeOK` with one register, two flags (at one offset, so that setting one destroys
the other), one other variable (hashed to where the second temporary is), one argument,
varnodes of one and four bytes (so that temporaries overlap and a name is read at another size than it was written), words
of three values, and functions of up to three ops whose expressions leave up to two
results at a time: one op that reads a temporary, one that makes it and one in
between, and two paths that share the counters' values. `VIEW` identifies states
that differ only in code emitted earlier: the properties look at the outputs of
the ops, at what the last op reads (earlier ops were last once) and at the machine, and
nothing in `Next` reads more; so does the step of `Symbolik`.

`MappingAssumption` is what the translator takes for granted, and the code does not
check: an opcode means what the operator does. It leaves out `POW`, which becomes
`INT_MULT` ("closest is MULT"): `Symbolik` lets it have any value (`Inexact`). Nothing is
assumed about where registers, flags, variables and temporaries are. Values are words of
any set; that they are not cut to the width of their varnode is the one thing about
widths that is left out.

## SymbolDb: symbols on their way

One request: `extract_for_function` begins with the function's own symbol, `Argument`
and `CalledFunction` add those of arguments and called functions, each of which ends
where Vivisect raises or has no more, `apply_symbols` sends them (`to_dict` takes
prefixes off), and either server applies them one by one (`ApplyFunctionSymbol`,
`ApplyDataSymbol`, `SymbolFails`, `NoNameFails`). `script` says which server it is: they differ
in the second try with a suffix, in what a data symbol does, and in `double`. The
program has functions and labels of its own to begin with. Ghidra may refuse any name
and any type (`Written`, `SymbolFails`). It may also make no function without raising: the
script, which guards against that, counts the symbol (`NoFunctionMade`), the plugin does not. Other clients write in between
(`rename_symbol` and, for what is no function, `rename_data`; `set_signature`), and the client may send the same symbols again
(`Repeat`). A name is a stem after prefixes, a type a base and the number of its stars.

`SymbolDb.cfg` checks, for two functions, up to three symbols, two tries and one foreign
write: `OneSymbolPerFunction`, `CountedIsThere`, `NothingElseChanged`,
`RepeatChangesNothing`, `NoneUndoesAnother`, `LastStands` and `TypeOK`. `CountedIsThere` has one exception, which is the script's: a symbol that is counted may be that of a
function that Ghidra has not made, and then there is none at its address. An address begins
with no label or one. Three symbols are the function, an
argument at its address and either a second argument or a function it calls. Deadlock
is not checked: a request ends, and the bounds end the rest. The functions are
interchangeable, hence the symmetry. Requests that were made earlier, or at the same
time, are writes of others.

`NoneUndoesAnother` speaks of the script, and must: see the findings. What the plugin does
instead is `LastStands`: at each address the last symbol with a name is the one it shows.
`RepeatChangesNothing` is about both: in the script a repetition finds every label there, in
the plugin it takes each name through all its symbols again and back.

## CodeWindow: what is searched and what is selected

`set_code` and `set_error` replace the text; `_on_search_changed` (each edit of the search
bar) and `_on_search_next` search the code last decompiled, which `set_error` leaves
as it was. The loop of `search_text` is `Find`, once for each occurrence, and `Searched`; the GUI
thread does nothing else meanwhile (`searching`). `highlight` is what `QTextCursor`
does: positions are clipped and count UTF-16 units, of which a character in `Wide` has two,
whereas `str.find` counts characters.

`CodeWindow.cfg` checks `SearchIsComplete`, `NextGoesRound`, `FoundIsSelected` and `TypeOK`
on four texts and four queries that overlap themselves, occur up to three times, or
stand behind a wide character; "Next" is pressed up to four times, once more than
there are results. `FoundIsSelected` is about the case that the code is on display and
has no wide characters; otherwise something else is selected.

## Findings

Shown by runs that expect a violation:

- `GhidraClient._send_request` keeps the socket after a timeout and takes the
  first line that comes: every later call is handed the reply before its own.
- `_rename_function` and `_add_comment` (and `_edit_signature`) send addresses that
  are not mapped to Ghidra's address space.
- `DecompileResult.from_dict` cannot read an answer of the plugin that has code.

Also seen while modelling; the models have them as they are, and where a property
would be false it says when it holds:

- `JsonRpcServer.stop` leaves client connections served, and `serveLoop` ends at the
  first failed `accept` with the server socket open (`Stop`, `AcceptError`).
- `JsonUtil.parse` does not look at what follows the object: when a timeout of
  `sendall` has cut only the newline of a request, the server takes it and the request
  glued to it for the first, which its client has given up, and the second is never
  answered (JsonUtil.java:156-161, `Parses`).
- A connection found closed stays in use (`_connected`), as `GhidraConnectionError` is raised past the
  clauses that would reset it (ghidra_client.py:106, `RecvEof`).
- `_decompile_function` sends no symbols (extension.py:180), whatever it extracted.
- In the plugin, a data symbol renames the first symbol at its address, and an
  argument has the address of its function: after all symbols have been applied
  the function is called like its last argument (SymbolApplier.java:156 with
  symbol_extractor.py:51). `NoneUndoesAnother` is false there.
- The script counts a symbol as applied when `createFunction` returned null: it guards the
  types against that and not the count (StartBridgeServer.java:183, 192, 208). The
  plugin returns false (SymbolApplier.java:94).
- In the plugin `double` becomes `size_t`: its case has no return (SymbolApplier.java:191).
- A parameter whose type Ghidra does not know is left out, so that the ones after it
  move to its place (`Parameters`); `set_signature` reports success although name,
  `void` and calling convention may not have been applied, or failure although the name
  has been (StartBridgeServer.java:335, 351-357).
- A signature that is edited is said to go to both databases (extension.py:359-361,
  docs/ui-considerations.md:116-121, docs/ui-implementation-plan.md:45). The code writes Ghidra's
  only, and the model leaves Vivisect's alone.
- All sub-fields of eflags are varnodes at the offset of eflags (pcode_translator.py:212-220,
  docs/pcode-mapping.md:71) and told apart by `reg_name`. But a varnode "is identified by (space,
  offset, size)" (models.py:34), so run as p-code an instruction that sets several flags
  leaves the last of them in all.
- The counter of temporaries goes up by one whatever their size (pcode_translator.py:184-188):
  temporaries of more than one byte overlap, and an op with two such operands reads a first one
  that the second has been written over.
- `translate_effects` resets the counters for each path (pcode_translator.py:680): the
  paths of one `PcodeFunction` share temporaries and order numbers, although the
  module says "no reuse" (pcode_translator.py:21). `AssignedOnce` is about one path.
- `_on_code_click` calls `super(QTextEdit, ...)`, and `QTextEdit` is not defined there
  (decompiler_widget.py:246): a click raises before it navigates.
- After `set_error` the search finds positions in the code that is not on display any
  more, and selects what is there in the message.
- The comment at tests/e2e_test.py:226 about a stub that applies nothing is stale: both servers
  apply symbols.

## Proofs

`RpcLinkProof` (with `RpcStreams`, lemmas about sequences of fragments) proves for
any number of calls and connections that `IInv` of `RpcLinkInv` is invariant.
`RepliesInOrder` is not inductive: nothing in it says where the replies are that
have not been consumed. `IInv` says it: on a connection, replies consumed, replies
under way (in `buf` and `down`), the request in hand and the requests waiting
(`up`) follow one another in call order (`InvOrder`, `InvConsumed`, `InvRan`),
each belongs to a call made on that connection (`InvOwn`), and until a call on it
has timed out all of them are the call in progress (`InvClean`). From it:
`TypeCorrect`, `RepliesOrdered`, `OwnRepliesOnly`, `FramingKept`,
`HandlerRunsAtMostOnce`, `HandlerOrdered`, `ClosedForGood` and `Implements` (`Spec => RpcSpec!Spec`:
every step is a step of `RpcSpec` or leaves its variables alone).

`BridgePluginProof` proves the same of `BridgePlugin` for any number of workers,
programs, addresses, activations and writes. `InvEvent` ties what the fields hold
to the statement the event thread is at; `InvServer` says that connections there are
while a program is being activated are of earlier servers; `InvShown` bounds what a
racy read may show by them: null, or an object of the reader's own activation or a
later one, since all of an activation's objects are assigned before its server starts; `InvMonitor` makes the
monitor of a service and the worker that decompiles with it one thing, so that
`CloseProgram` excludes decompilation; `InvNames` follows the writes of a request
until they are read. From it: `TypeCorrect`, `InterfaceKept`, `InterfacesClosed`,
`ServedIsOpen`, `OwnSymbolsShown`, `NeverEarlier`, and `Implements`: every step is a step of
`ServiceSpec` or not seen by it. `InterfaceKept` and `InterfacesClosed` say in the model's own
terms what that means for an interface in use (`InterfaceOpenWhileUsed`) and for one that is not
needed any more (`NoInterfaceLeaks`).

Liveness is out of the prover's reach, but of what `RequestsAnswered` and `EventThreadReturns`
need, all but the fairness is safety and proved: `NoDeadlock` (who finds a monitor taken waits for a
worker inside `decompile`, which waits for none) and `HandleEnds` (each step of `handle` is one
towards the answer or leaves one address less, and no other thread sets it back).

`BridgeSessionProof` proves the properties of `BridgeSession` for all functions, names,
prefixes and image bases (renames and comments: at the same image base; errors:
with the script). They speak of what holds between handlers, so `IInv` says what
holds within one: until the new decompilation the header may be old, for the
function that is renamed (`HeaderInv`), the code may be (`CodeInv`), and one database
is ahead of the other by the edit in progress (`RenamesInv`, `CommentsInv`). `Quiet`
says that without a failure no reply is late, so that a call ends with its own
answer (`CallFacts`), and `Fresh` that the names are those of the start until there is
an offset: to rename one must have seen code. From it: `SessionTypes`,
`SessionOffset`, `SessionWindow`, `SessionCode`, `SessionHeader`, `SessionErrors`,
`SessionRenames`, `SessionComments`. `SessionHandlers` needs no invariant: whatever its calls end
with, a handler makes at most four.

`PcodeTranslatorProof` proves `IInv` of `PcodeTranslatorInv`: what is on the stack is a
temporary that has been handed out and assigned, or was there before the path
(`StackInv`), and the counters are ahead of all that is in the code (`CodeInv`); so a new
temporary is new (`EachAssignedOnce`), and operands are read after they were written
(`EachDefinedBeforeUse`). `Refinement` shows `Spec => Meaning!Spec` for all expressions, effects,
words, arithmetic and layouts of registers: a write changes the value of its own
home only, and takes every home it overlaps from those that may be read, so an op
that reads what is held whole reads what was last written there under that name; the value of what
is on the stack is that of its temporary, since a new temporary is not there yet. Once
something else is read both sides are `lost`.

`SymbolDbProof` proves what holds with both servers, and what holds in the script:
`Gathered` says that symbols are as Vivisect has them until they are sent, so
that `sym not in symbols` recognises a function (`EachFunctionOnce`); `AppliedAsAsked`
follows the part of the request that has been applied and says that it stays as asked
for, because in the script labels are only added, and that in a repetition
nothing changes; `CountedIsThere` is inductive with the exception it states. From it: `CountsAreTrue`, `FailuresLeaveNothing`, `NoneUndone`.

`SymbolDbPluginProof` adds `PluginInv` for the plugin, where applied symbols do not stay.
`Stand(name, labels, n)` says of the first n symbols that the last one of each address is shown,
whatever was there before; the next symbol is the last one of its address, and what is elsewhere
stands. So at the end of a pass the program shows the last symbols of all (`LastIsShown`),
and while it is repeated names differ from that until each address has had its last symbol again. It needs that there is
at most one label at an address, so that one is renamed and none added (`PluginLabels`), and that is why `Labels` has at most one.
What stays all the while is what a repetition must not disturb (`Repeating`): which functions
there are, their types, and the labels beside functions; no function is made, so that no second label
is, and types written twice are the types written once. With `Stand` before and after,
`RepeatIsHarmless` follows for both servers. It takes that a name, with prefixes or without, is not what
stands for "no function" (`NamesAssumption`).

`CodeWindowProof`: `Sought` is the invariant of the search loop, nothing before `start` is missed
and results end before it; `Rounds` says where "Next" has been. From it:
`SearchFindsAll`, `NextReachesAll`, and `HighlightIsRight`, which needs that a text without wide
characters has as many units as characters. `SearchEnds`: the loop is taken on by each round and
stays inside the code, as no empty text is searched for.

Assumptions: `ConstantsAssumption` of each module (bounds are natural numbers, sets
not empty; an address has at most one label to begin with), `TextsAssumption` of `CodeWindow`, `NamesAssumption` of `SymbolDb`, and
`MappingAssumption` of `PcodeTranslator`, explained there. Only model-checked: the properties
under fairness, `CallsReturn`, both `RequestsAnswered` and `EventThreadReturns`: the prover handles neither fairness nor ENABLED. Every other property of a
run is a theorem.

## Not modelled

Listed with reasons in `PROJECT.json`. Qt forms, colours and the p-code table keep
no state worth a model. Of `extension` and `decompiler_widget`, navigation, copy,
export, the p-code viewer and the headless functions are left out: none of them
changes what the handlers modelled here use. Of `symbol_extractor`, `extract_all` (the same
symbols, for every function) and `extract_function_signature`, which fills the dialog of `_edit_signature`
(extension.py:377) and changes nothing: what the user makes of it is any signature.
`JsonUtil` (but for the text it ignores) and the JSON forms of `models` are functions on long strings; the models speak of
messages. What is left of `StartBridgeServer` are its thread pool, its shutdown and the
`DecompInterface` that each decompilation opens and does not dispose of: its requests
are modelled (`BridgeSession`, `SymbolDb`), its threads would repeat `RpcLink` and
`BridgePlugin` without their monitor, and Ghidra's own synchronisation of a program,
which its correctness rests on, is not in this repository.

Ghidra and Vivisect themselves are external: Ghidra's decompiler appears as `ReadName`, its
symbol table as names and labels, its p-code as `Computes`, the walk over a function's
paths as any sequence of effects. Two clients that share one `GhidraClient` object are
not modelled: nothing in the code shares one between threads.
