---------------------------- MODULE BridgePlugin ----------------------------
(***************************************************************************)
(* VivGhidraBridgePlugin.java: Ghidra's event thread opens and closes one  *)
(* program after another while the worker threads of JsonRpcServer run     *)
(* handle() for their clients.  They share the plugin's fields, which are  *)
(* neither volatile nor guarded, the DecompilerService objects, whose      *)
(* methods are synchronized, and the programs.                             *)
(*                                                                         *)
(* The objects programActivated creates (service, applier, injector,       *)
(* server) bear the number of the activation; 0 stands for null.           *)
(***************************************************************************)
EXTENDS Naturals, FiniteSets

CONSTANTS
    Programs,        \* programs that can be opened
    Workers,         \* worker threads, one for each client connection
    Addrs,           \* addresses whose symbols a request carries
    MaxActivations,  \* bound on the programs opened
    MaxWrites        \* bound on the symbols written

ASSUME ConstantsAssumption ==
    /\ Programs # {} /\ Addrs # {}
    /\ MaxActivations \in Nat /\ MaxWrites \in Nat

Activations == 1..MaxActivations

VARIABLES
    generation,         \* activations so far
    program,            \* the program of each activation
    event,              \* where the event thread is in its callback
    disposed,           \* dispose() has begun
    decompilerService, symbolApplier, pcodeInjector,  \* racy fields, see Read
    rpcServer,          \* field used by the event thread only
    listening,          \* the JsonRpcServers whose server socket is open
    initialized,        \* DecompilerService.initialized: its decompInterface is open
    monitor,            \* the worker that holds the monitor of a DecompilerService: {} or {w}
    names, writes,      \* names[p][a]: which of the writes so far named a in p
    server,             \* the JsonRpcServer that accepted a worker's connection
    pc, job,            \* where a worker is in handle(), and for what request
    left,               \* addresses it has not named, or not read, yet
    applier, service,   \* the objects it took from the fields
    own,                \* history: the writes of its request
    code                \* the names in the code it answers, or answered last

event_vars == <<generation, program, event, disposed, rpcServer, listening>>
fields == <<decompilerService, symbolApplier, pcodeInjector>>
locals == <<job, left, applier, service, own>>
handling == <<server, pc, locals, code>>
vars == <<event_vars, fields, initialized, monitor, names, writes, handling>>

NoNames == [a \in Addrs |-> 0]
\* A field has its value, and what the workers of each server may read from it: the
\* value it had when that server was started, which starts their threads later, or
\* one that was assigned since, of which nothing tells them.
Null == [now |-> 0, shown |-> [g \in {0} \cup Activations |-> {}]]
Assign(f, v) == [now |-> v, shown |-> [g \in {0} \cup Activations |-> f.shown[g] \cup {v}]]
Started(f) == [now |-> f.now, shown |-> [f.shown EXCEPT ![generation] = {f.now}]]
Read(w, f) == f.shown[server[w]]

Init ==
    /\ generation = 0 /\ program \in [Activations -> Programs]
    /\ event = "idle" /\ disposed = FALSE
    /\ decompilerService = Null /\ symbolApplier = Null /\ pcodeInjector = Null
    /\ rpcServer = 0 /\ listening = {}
    /\ initialized = [g \in Activations |-> FALSE]
    /\ monitor = [g \in Activations |-> {}]
    /\ names = [p \in Programs |-> NoNames] /\ writes = 0
    /\ server = [w \in Workers |-> 0]
    /\ pc = [w \in Workers |-> "none"] /\ job = [w \in Workers |-> "none"]
    /\ left = [w \in Workers |-> {}]
    /\ applier = [w \in Workers |-> 0] /\ service = [w \in Workers |-> 0]
    /\ own = [w \in Workers |-> NoNames] /\ code = [w \in Workers |-> NoNames]

----------------------------------------------------------------------------
(* The event thread *)

\* Ghidra calls programActivated when no program is active.
ProgramActivated ==
    /\ event = "idle" /\ ~disposed /\ decompilerService.now = 0
    /\ generation < MaxActivations
    /\ generation' = generation + 1
    /\ decompilerService' = Assign(decompilerService, generation + 1)
    /\ event' = "opening"
    /\ UNCHANGED <<program, disposed, rpcServer, listening, symbolApplier, pcodeInjector,
                   initialized, monitor, names, writes, handling>>

\* DecompilerService.openProgram.
OpenProgram ==
    /\ event = "opening" /\ monitor[generation] = {}
    /\ initialized' = [initialized EXCEPT ![generation] = TRUE]
    /\ event' = "wiring"
    /\ UNCHANGED <<generation, program, disposed, rpcServer, listening, fields, monitor,
                   names, writes, handling>>

\* (Bug_: wrong variants of the definition that follows, which some property
\* must tell from it.)  One SymbolApplier, made for the first program, for all.
Bug_MakeHelpersOnce ==
    /\ event = "wiring"
    /\ symbolApplier' = Assign(symbolApplier, 1)
    /\ pcodeInjector' = Assign(pcodeInjector, generation)
    /\ event' = "starting"
    /\ UNCHANGED <<generation, program, disposed, rpcServer, listening, decompilerService,
                   initialized, monitor, names, writes, handling>>

MakeHelpers ==
    /\ event = "wiring"
    /\ symbolApplier' = Assign(symbolApplier, generation)
    /\ pcodeInjector' = Assign(pcodeInjector, generation)
    /\ event' = "starting"
    /\ UNCHANGED <<generation, program, disposed, rpcServer, listening, decompilerService,
                   initialized, monitor, names, writes, handling>>

\* startRpcServer: the field is assigned before start(), which may fail.
StartRpcServer ==
    /\ event = "starting"
    /\ rpcServer' = generation
    /\ listening' \in {(listening \ {rpcServer}) \cup s : s \in {{}, {generation}}}
    /\ decompilerService' = Started(decompilerService)
    /\ symbolApplier' = Started(symbolApplier) /\ pcodeInjector' = Started(pcodeInjector)
    /\ event' = "idle"
    /\ UNCHANGED <<generation, program, disposed, initialized, monitor, names, writes, handling>>

StopRpcServer == rpcServer' = 0 /\ listening' = listening \ {rpcServer}

\* The server is left to the next activation to stop.
Bug_DeactivatedServes ==
    /\ event = "idle" /\ ~disposed /\ decompilerService.now # 0
    /\ event' = "closing"
    /\ UNCHANGED <<generation, program, disposed, rpcServer, listening, fields, initialized,
                   monitor, names, writes, handling>>

\* programDeactivated, up to closeProgram.
ProgramDeactivated ==
    /\ event = "idle" /\ ~disposed /\ decompilerService.now # 0
    /\ StopRpcServer
    /\ event' = "closing"
    /\ UNCHANGED <<generation, program, disposed, fields, initialized, monitor,
                   names, writes, handling>>

Dispose ==
    /\ event = "idle" /\ ~disposed
    /\ StopRpcServer
    /\ disposed' = TRUE
    /\ event' = IF decompilerService.now = 0 THEN "idle" ELSE "closing"
    /\ UNCHANGED <<generation, program, fields, initialized, monitor, names, writes, handling>>

\* closeProgram that is not synchronized.
Bug_CloseUnsynchronized ==
    /\ event = "closing"
    /\ initialized' = [initialized EXCEPT ![decompilerService.now] = FALSE]
    /\ event' = IF disposed THEN "idle" ELSE "clearing"
    /\ UNCHANGED <<generation, program, disposed, rpcServer, listening, fields, monitor,
                   names, writes, handling>>

\* DecompilerService.closeProgram waits for a decompilation that is under way.
CloseProgram ==
    /\ event = "closing" /\ monitor[decompilerService.now] = {}
    /\ initialized' = [initialized EXCEPT ![decompilerService.now] = FALSE]
    /\ event' = IF disposed THEN "idle" ELSE "clearing"
    /\ UNCHANGED <<generation, program, disposed, rpcServer, listening, fields, monitor,
                   names, writes, handling>>

\* The end of programDeactivated; dispose() leaves the fields as they are.
ClearFields ==
    /\ event = "clearing"
    /\ decompilerService' = Assign(decompilerService, 0)
    /\ symbolApplier' = Assign(symbolApplier, 0)
    /\ pcodeInjector' = Assign(pcodeInjector, 0)
    /\ event' = "idle"
    /\ UNCHANGED <<generation, program, disposed, rpcServer, listening, initialized, monitor,
                   names, writes, handling>>

----------------------------------------------------------------------------
(* The worker threads *)

workers_only == <<event_vars, fields, initialized>>

\* The answer is sent; what handle() held is gone.
Answer(w) ==
    /\ pc' = [pc EXCEPT ![w] = "reading"]
    /\ job' = [job EXCEPT ![w] = "none"]
    /\ left' = [left EXCEPT ![w] = {}]
    /\ applier' = [applier EXCEPT ![w] = 0] /\ service' = [service EXCEPT ![w] = 0]
    /\ own' = [own EXCEPT ![w] = NoNames]

\* handleDecompileFunction after the symbols: there is p-code to inject, or not.
GoOn(w) == \E next \in {"pcode", "service"} : pc' = [pc EXCEPT ![w] = next]

Connect(w) ==
    /\ pc[w] = "none"
    /\ \E g \in listening : server' = [server EXCEPT ![w] = g]
    /\ pc' = [pc EXCEPT ![w] = "reading"]
    /\ UNCHANGED <<workers_only, monitor, names, writes, locals, code>>

Disconnect(w) ==
    /\ pc[w] = "reading"
    /\ server' = [server EXCEPT ![w] = 0]
    /\ pc' = [pc EXCEPT ![w] = "none"]
    /\ code' = [code EXCEPT ![w] = NoNames]
    /\ UNCHANGED <<workers_only, monitor, names, writes, locals>>

\* A line is read: apply_symbols, or decompile_function in a mode that sends
\* symbols, p-code, both or none.  The other methods only read the fields.
Request(w) ==
    /\ pc[w] = "reading"
    /\ \E symbols \in {{}, Addrs} :
        \/ /\ job' = [job EXCEPT ![w] = "apply_symbols"]
           /\ left' = [left EXCEPT ![w] = symbols]
           /\ pc' = [pc EXCEPT ![w] = "symbols"]
        \/ /\ job' = [job EXCEPT ![w] = "decompile_function"]
           /\ left' = [left EXCEPT ![w] = symbols]
           /\ IF symbols # {} THEN pc' = [pc EXCEPT ![w] = "symbols"] ELSE GoOn(w)
    /\ UNCHANGED <<workers_only, monitor, names, writes, server, applier, service, own, code>>

\* if (symbolApplier != null) symbolApplier.applySymbols(symbols): the field is
\* read twice, and a null the second time is an exception.
TakeApplier(w) ==
    /\ pc[w] = "symbols"
    /\ \E check, use \in Read(w, symbolApplier) :
        \/ /\ check # 0 /\ use # 0
           /\ applier' = [applier EXCEPT ![w] = use]
           /\ pc' = [pc EXCEPT ![w] = "applying"]
           /\ UNCHANGED <<job, left, service, own>>
        \/ check # 0 /\ use = 0 /\ Answer(w)
        \/ check = 0 /\ job[w] = "apply_symbols" /\ Answer(w)
        \/ /\ check = 0 /\ job[w] = "decompile_function"
           /\ GoOn(w) /\ left' = [left EXCEPT ![w] = {}]
           /\ UNCHANGED <<job, applier, service, own>>
    /\ UNCHANGED <<workers_only, monitor, names, writes, server, code>>

\* SymbolApplier.applyOneSymbol, which may fail; the program is not locked.
ApplyOneSymbol(w) ==
    /\ pc[w] = "applying"
    /\ \E a \in left[w] :
        /\ left' = [left EXCEPT ![w] = @ \ {a}]
        /\ \/ /\ writes < MaxWrites
              /\ writes' = writes + 1
              /\ names' = [names EXCEPT ![program[applier[w]]][a] = writes + 1]
              /\ own' = [own EXCEPT ![w][a] = writes + 1]
           \/ UNCHANGED <<names, writes, own>>
    /\ UNCHANGED <<workers_only, monitor, server, pc, job, applier, service, code>>

\* applySymbols returns.
SymbolsApplied(w) ==
    /\ pc[w] = "applying" /\ left[w] = {}
    /\ \/ job[w] = "apply_symbols" /\ Answer(w)
       \/ job[w] = "decompile_function" /\ GoOn(w) /\ UNCHANGED locals
    /\ UNCHANGED <<workers_only, monitor, names, writes, server, code>>

\* PcodeInjector.injectPcode changes nothing; a field that is null the second
\* time it is read is an exception.
InjectPcode(w) ==
    /\ pc[w] = "pcode"
    /\ \E check, use \in Read(w, pcodeInjector) :
        \/ check # 0 /\ use = 0 /\ Answer(w)
        \/ /\ check = 0 \/ use # 0
           /\ pc' = [pc EXCEPT ![w] = "service"] /\ UNCHANGED locals
    /\ UNCHANGED <<workers_only, monitor, names, writes, server, code>>

\* The field is checked and then trusted.
Bug_TakeServiceUnchecked(w) ==
    /\ pc[w] = "service"
    /\ \E check, use \in Read(w, decompilerService) :
        \/ /\ check # 0
           /\ service' = [service EXCEPT ![w] = use]
           /\ pc' = [pc EXCEPT ![w] = IF use = 0 THEN "decompiling" ELSE "entering"]
           /\ UNCHANGED <<job, left, applier, own>>
        \/ check = 0 /\ Answer(w)
    /\ UNCHANGED <<workers_only, monitor, names, writes, server, code>>

\* if (decompilerService == null) an error; decompilerService.decompile(address)
TakeService(w) ==
    /\ pc[w] = "service"
    /\ \E check, use \in Read(w, decompilerService) :
        \/ /\ check # 0 /\ use # 0
           /\ service' = [service EXCEPT ![w] = use]
           /\ pc' = [pc EXCEPT ![w] = "entering"]
           /\ UNCHANGED <<job, left, applier, own>>
        \/ (check = 0 \/ use = 0) /\ Answer(w)
    /\ UNCHANGED <<workers_only, monitor, names, writes, server, code>>

\* Waiting for the service to be initialized.
Bug_NotInitializedWaits(w) == FALSE /\ pc[w] = "entering" /\ UNCHANGED vars

\* "Decompiler not initialized": without the monitor, or having waited for it.
\* Without it a worker of an earlier server may not see yet that it is.
NotInitialized(w) ==
    /\ pc[w] = "entering" /\ (~initialized[service[w]] \/ server[w] # service[w])
    /\ Answer(w)
    /\ UNCHANGED <<workers_only, monitor, names, writes, server, code>>

\* Results are kept (plan.md: "caches results"), and not dropped when symbols
\* are applied: one from before any symbol was is answered.
Bug_DecompileCached(w) ==
    /\ pc[w] = "entering" /\ initialized[service[w]] /\ monitor[service[w]] = {}
    /\ monitor' = [monitor EXCEPT ![service[w]] = {w}]
    /\ pc' = [pc EXCEPT ![w] = "decompiling"]
    /\ \E missed \in {{}, Addrs} : left' = [left EXCEPT ![w] = missed]
    /\ code' = [code EXCEPT ![w] = NoNames]
    /\ UNCHANGED <<workers_only, names, writes, server, job, applier, service, own>>

\* DecompilerService.decompile(Address) is synchronized.
Decompile(w) ==
    /\ pc[w] = "entering" /\ initialized[service[w]] /\ monitor[service[w]] = {}
    /\ monitor' = [monitor EXCEPT ![service[w]] = {w}]
    /\ pc' = [pc EXCEPT ![w] = "decompiling"]
    /\ left' = [left EXCEPT ![w] = Addrs]
    /\ code' = [code EXCEPT ![w] = NoNames]
    /\ UNCHANGED <<workers_only, names, writes, server, job, applier, service, own>>

\* DecompInterface.decompileFunction reads a name from the program.
ReadName(w) ==
    /\ pc[w] = "decompiling"
    /\ \E a \in left[w] :
        /\ left' = [left EXCEPT ![w] = @ \ {a}]
        /\ code' = [code EXCEPT ![w][a] = names[program[service[w]]][a]]
    /\ UNCHANGED <<workers_only, monitor, names, writes, server, pc, job, applier, service, own>>

\* A lock released at the end of the block, which an error leaves early.
Bug_DecompiledKeepsMonitor(w) ==
    /\ pc[w] = "decompiling"
    /\ \/ left[w] = {} /\ monitor' = [monitor EXCEPT ![service[w]] = {}] /\ UNCHANGED code
       \/ code' = [code EXCEPT ![w] = NoNames] /\ UNCHANGED monitor
    /\ Answer(w)
    /\ UNCHANGED <<workers_only, names, writes, server>>

\* decompile returns the code, or an error: no function there, time out, ...
Decompiled(w) ==
    /\ pc[w] = "decompiling"
    /\ \/ left[w] = {} /\ UNCHANGED code
       \/ code' = [code EXCEPT ![w] = NoNames]
    /\ Answer(w)
    /\ monitor' = [monitor EXCEPT ![service[w]] = {}]
    /\ UNCHANGED <<workers_only, names, writes, server>>

----------------------------------------------------------------------------

Event ==
    \/ ProgramActivated \/ OpenProgram \/ MakeHelpers \/ StartRpcServer
    \/ ProgramDeactivated \/ Dispose \/ CloseProgram \/ ClearFields

Handle(w) ==
    \/ TakeApplier(w) \/ ApplyOneSymbol(w) \/ SymbolsApplied(w) \/ InjectPcode(w)
    \/ TakeService(w) \/ NotInitialized(w) \/ Decompile(w) \/ ReadName(w) \/ Decompiled(w)

Next == Event \/ \E w \in Workers : Connect(w) \/ Disconnect(w) \/ Request(w) \/ Handle(w)

Spec == Init /\ [][Next]_vars

\* The threads keep running, a decompilation ends (DecompInterface is given 60 s),
\* and nobody waits for a monitor that is released again and again.
Fairness ==
    /\ WF_vars(MakeHelpers \/ StartRpcServer \/ ClearFields)
    /\ SF_vars(OpenProgram) /\ SF_vars(CloseProgram)
    /\ \A w \in Workers : WF_vars(Handle(w)) /\ SF_vars(Decompile(w))

FairSpec == Spec /\ Fairness

----------------------------------------------------------------------------
(* Properties *)

TypeShared ==
    /\ generation \in 0..MaxActivations
    /\ program \in [Activations -> Programs]
    /\ event \in {"idle", "opening", "wiring", "starting", "closing", "clearing"}
    /\ disposed \in BOOLEAN
    /\ \A f \in {decompilerService, symbolApplier, pcodeInjector} :
           f \in [now : 0..generation, shown : [{0} \cup Activations -> SUBSET (0..generation)]]
    /\ rpcServer \in 0..generation /\ listening \subseteq 0..generation
    /\ initialized \in [Activations -> BOOLEAN]
    /\ monitor \in [Activations -> SUBSET Workers]
    /\ names \in [Programs -> [Addrs -> 0..writes]] /\ writes \in 0..MaxWrites

TypeLocals ==
    /\ server \in [Workers -> 0..generation]
    /\ pc \in [Workers -> {"none", "reading", "symbols", "applying", "pcode", "service",
                           "entering", "decompiling"}]
    /\ job \in [Workers -> {"none", "apply_symbols", "decompile_function"}]
    /\ left \in [Workers -> SUBSET Addrs]
    /\ applier \in [Workers -> 0..generation] /\ service \in [Workers -> 0..generation]
    /\ own \in [Workers -> [Addrs -> 0..writes]] /\ code \in [Workers -> [Addrs -> 0..writes]]
    /\ \A w \in Workers :
        /\ pc[w] = "applying" => applier[w] # 0
        /\ pc[w] \in {"entering", "decompiling"} => service[w] # 0

\* Every variable has its type, and what a worker goes on with is an object it
\* took from a field.
TypeOK == TypeShared /\ TypeLocals

\* decompileFunction runs on an interface that is open, and one at a time: the
\* event thread closes it, and another worker uses it, only before or after
\* (DecompilerService's methods are synchronized, its objects shared by a racy
\* field).
InterfaceOpenWhileUsed ==
    \A w \in Workers : pc[w] = "decompiling" =>
        /\ initialized[service[w]]
        /\ \A v \in Workers : pc[v] = "decompiling" /\ service[v] = service[w] => v = w

\* An open DecompInterface is the one of the service the plugin's field holds:
\* none is forgotten open when programs follow one another, and none is opened
\* beside another.
NoInterfaceLeaks ==
    \A g \in Activations : initialized[g] => decompilerService.now = g

\* A client that connects finds the program open: the server starts after the
\* services are there and stops before they go, and no earlier one listens.
ServedProgramIsOpen ==
    \A g \in listening : g = rpcServer /\ initialized[g] /\ symbolApplier.now = g

\* Code shows the symbols sent with its request, or symbols written to the same
\* address later, unless the program was switched in between (modes enriched
\* and injected: symbols are applied before the program is decompiled).
CodeShowsOwnSymbols ==
    \A w \in Workers : pc[w] = "decompiling" /\ left[w] = {} =>
        \A a \in Addrs :
            own[w][a] = 0 \/ program[applier[w]] # program[service[w]] \/ code[w][a] >= own[w][a]

\* A connection is served from the program it was opened for or from later
\* ones, never with the services of a program that was gone when it connected.
NoEarlierProgram ==
    \A w \in Workers :
        /\ pc[w] \in {"applying"} => applier[w] >= server[w]
        /\ pc[w] \in {"entering", "decompiling"} => service[w] >= server[w]

\* A program is open from openProgram to closeProgram, whatever the racy fields
\* show, and used where a worker is inside decompile.
Latest == IF event = "opening" THEN generation - 1 ELSE generation
Opened == {g \in Activations : initialized[g]}
Using == [w \in Workers |-> IF pc[w] = "decompiling" THEN service[w] ELSE 0]

Promise == INSTANCE ServiceSpec WITH latest <- Latest, open <- Opened, using <- Using

\* The plugin implements what ServiceSpec promises to its clients: one program
\* after the other, clients let in while one is open and served from no earlier
\* one, and no interface closed or shared while a worker decompiles with it
\* (programActivated, programDeactivated, dispose, decompile).
ImplementsServiceSpec == Promise!Spec

\* The event thread gets out of its callback: what it waits for is a
\* decompilation, which ends.
EventThreadReturns == event # "idle" ~> event = "idle"

\* Every request is answered.
RequestsAnswered ==
    \A w \in Workers : pc[w] \notin {"none", "reading"} ~> pc[w] = "reading"
============================================================================
