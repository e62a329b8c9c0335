-------------------------- MODULE BridgePluginInv --------------------------
(***************************************************************************)
(* The inductive invariant of BridgePlugin: what the fields hold, and held *)
(* before, at each statement of the event thread, who holds a monitor, and *)
(* what a worker has written and read so far.                              *)
(***************************************************************************)
EXTENDS BridgePlugin

\* A field holds the object of the last activation or, before and after it, null.
Holds(f) == f.now = generation
Empty(f) == f.now = 0

\* The event thread makes the services, then starts the server, then stops the
\* server, then closes and forgets the services.
InvEvent ==
    /\ event # "idle" => generation # 0 /\ Holds(decompilerService)
    /\ event \in {"opening", "wiring"} => Empty(symbolApplier) /\ Empty(pcodeInjector)
    /\ event \in {"starting", "closing", "clearing"} => Holds(symbolApplier) /\ Holds(pcodeInjector)
    /\ event = "idle" =>
          \/ Empty(decompilerService) /\ Empty(symbolApplier) /\ Empty(pcodeInjector)
          \/ /\ generation # 0
             /\ Holds(decompilerService) /\ Holds(symbolApplier) /\ Holds(pcodeInjector)
    /\ disposed => event \in {"idle", "closing"}
    /\ \A g \in Activations : initialized[g] =>
          g = generation /\ Holds(decompilerService) /\ event \notin {"opening", "clearing"}
    /\ event \in {"wiring", "starting"} => initialized[generation]
    /\ event = "idle" /\ ~disposed /\ decompilerService.now # 0 => initialized[generation]
    /\ listening # {} =>
          /\ event = "idle" /\ ~disposed
          /\ decompilerService.now # 0 /\ rpcServer = generation /\ listening = {generation}

\* Connections are of activations whose server has been started.
InvServer ==
    \A w \in Workers :
        event \in {"opening", "wiring", "starting"} => server[w] < generation

\* What the workers of a server may read is null, or of its activation or later.
SoundFor(f, servers) ==
    \A g \in Activations \cap servers : \A x \in f.shown[g] : x = 0 \/ x >= g

Reached == listening \cup {server[w] : w \in Workers}

InvShown ==
    /\ SoundFor(decompilerService, Reached)
    /\ SoundFor(symbolApplier, Reached) /\ SoundFor(pcodeInjector, Reached)

\* The monitor of a service is held by the one worker that decompiles with it.
InvMonitor ==
    /\ \A g \in Activations : \A w \in monitor[g] : pc[w] = "decompiling" /\ service[w] = g
    /\ \A w \in Workers : pc[w] = "decompiling" =>
          initialized[service[w]] /\ monitor[service[w]] = {w}

\* What a worker wrote is there or overwritten, and what it has read is not older.
InvNames ==
    \A w \in Workers :
        /\ pc[w] \in {"none", "reading", "symbols"} => own[w] = NoNames
        /\ \A a \in Addrs : own[w][a] # 0 =>
              applier[w] # 0 /\ own[w][a] <= names[program[applier[w]]][a]
        /\ pc[w] = "decompiling" => \A a \in Addrs \ left[w] :
              own[w][a] = 0 \/ program[applier[w]] # program[service[w]] \/ code[w][a] >= own[w][a]

\* Who is handled has a connection, and only who has one.
InvConnected == \A w \in Workers : pc[w] = "none" <=> server[w] = 0

IInv ==
    /\ TypeOK
    /\ InvEvent /\ InvServer /\ InvShown /\ InvConnected /\ InvMonitor /\ InvNames
    /\ NoEarlierProgram

----------------------------------------------------------------------------
(* Of what liveness needs, the part that is safety *)

\* The statements of handle() in their order.
Stage == [none |-> 0, reading |-> 8, symbols |-> 1, applying |-> 2, pcode |-> 3,
          service |-> 4, entering |-> 5, decompiling |-> 6]

\* Handling a request cannot go round in a circle: a step of handle() is one
\* towards the answer or leaves one address less to do, and nobody else's step
\* sets it back (VivGhidraBridgePlugin.handle).
HandleGoesForward ==
    [][\A w \in Workers : pc[w] \notin {"none", "reading"} =>
          IF Handle(w)
          THEN \/ Stage[pc'[w]] > Stage[pc[w]]
               \/ pc'[w] = pc[w] /\ left'[w] \subseteq left[w] /\ left'[w] # left[w]
          ELSE pc'[w] = pc[w] /\ left'[w] = left[w]]_vars

\* Nobody waits for who waits: when a worker at decompile, or the event thread
\* in openProgram or closeProgram, finds the monitor taken, it is by another
\* worker that is inside decompile, where no monitor is asked for.
WaitsForDecompilation ==
    /\ \A w \in Workers : pc[w] = "entering" /\ monitor[service[w]] # {} =>
          \E v \in Workers \ {w} : pc[v] = "decompiling" /\ monitor[service[w]] = {v}
    /\ event \in {"opening", "closing"} /\ monitor[decompilerService.now] # {} =>
          \E v \in Workers : pc[v] = "decompiling" /\ monitor[decompilerService.now] = {v}
============================================================================
