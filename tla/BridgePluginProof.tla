------------------------- MODULE BridgePluginProof -------------------------
(***************************************************************************)
(* BridgePluginInv!IInv is an invariant of BridgePlugin for every set of   *)
(* workers, programs and addresses, and its safety properties follow.      *)
(***************************************************************************)
EXTENDS BridgePluginInv, TLAPS

----------------------------------------------------------------------------
(* Types *)

\* The types of a field after n activations.
FieldTypes(n) == [now : 0..n, shown : [{0} \cup Activations -> SUBSET (0..n)]]

\* What is assigned to a field is its value, and it shows no more besides.
LEMMA AssignFacts ==
    ASSUME NEW n \in Nat, NEW m \in Nat, n <= m, NEW f \in FieldTypes(n), NEW v \in 0..m
    PROVE  Assign(f, v) \in FieldTypes(m) /\ Assign(f, v).now = v
<1>1. 0..n \subseteq 0..m
  OBVIOUS
<1>2. \A g \in {0} \cup Activations : f.shown[g] \cup {v} \in SUBSET (0..m)
  BY <1>1 DEF FieldTypes
<1> QED
  BY <1>2 DEF Assign, FieldTypes

\* The types are wider after an activation.
LEMMA FieldsGrow ==
    ASSUME NEW n \in Nat, NEW m \in Nat, n <= m, NEW f \in FieldTypes(n)
    PROVE  f \in FieldTypes(m)
<1>1. 0..n \subseteq 0..m
  OBVIOUS
<1>2. \A g \in {0} \cup Activations : f.shown[g] \in SUBSET (0..m)
  BY <1>1 DEF FieldTypes
<1> QED
  BY <1>1, <1>2 DEF FieldTypes

\* The start of a server leaves the value of a field, and hides what it was.
LEMMA StartedFacts ==
    ASSUME NEW n \in Nat, NEW f \in FieldTypes(n)
    PROVE  /\ Started(f) \in FieldTypes(n) /\ Started(f).now = f.now
           /\ \A g \in Activations : g # generation => Started(f).shown[g] = f.shown[g]
           /\ generation \in Activations => Started(f).shown[generation] = {f.now}
<1>1. f.now \in 0..n /\ f.shown \in [{0} \cup Activations -> SUBSET (0..n)]
  BY DEF FieldTypes
<1>2. /\ Started(f).now = f.now
      /\ Started(f).shown = [f.shown EXCEPT ![generation] = {f.now}]
  BY DEF Started
<1>3. {f.now} \in SUBSET (0..n)
  BY <1>1
<1>4. [f.shown EXCEPT ![generation] = {f.now}] \in [{0} \cup Activations -> SUBSET (0..n)]
  BY <1>1, <1>3
<1>5. Started(f) \in FieldTypes(n)
  BY <1>1, <1>4 DEF Started, FieldTypes
<1>6. \A g \in Activations : g # generation => Started(f).shown[g] = f.shown[g]
  BY <1>1, <1>2
<1>7. generation \in Activations => Started(f).shown[generation] = {f.now}
  BY <1>1, <1>2
<1> QED
  BY <1>2, <1>5, <1>6, <1>7

\* The types of the three fields.
LEMMA FieldsTyped ==
    ASSUME TypeOK
    PROVE  /\ generation \in Nat
           /\ decompilerService \in FieldTypes(generation)
           /\ symbolApplier \in FieldTypes(generation) /\ pcodeInjector \in FieldTypes(generation)
  BY ConstantsAssumption DEF TypeOK, TypeShared, FieldTypes

\* A step of the event thread leaves what the workers hold alone, and their
\* types allow for it when no activation is forgotten.
LEMMA EventTypes ==
    ASSUME TypeOK, Event
    PROVE  TypeOK'
<1> USE ConstantsAssumption DEF Activations
<1>1. CASE ProgramActivated
  <2>1. generation' \in 0..MaxActivations /\ \A n \in 0..generation : n \in 0..generation'
    BY <1>1 DEF TypeOK, TypeShared, ProgramActivated
  <2>2. TypeShared'
    <3>1. /\ decompilerService' \in FieldTypes(generation')
          /\ symbolApplier' \in FieldTypes(generation') /\ pcodeInjector' \in FieldTypes(generation')
      <4>1. generation' \in Nat /\ generation <= generation' /\ generation + 1 \in 0..generation'
        BY <1>1, FieldsTyped DEF ProgramActivated
      <4> QED
        BY <1>1, <4>1, FieldsTyped, AssignFacts, FieldsGrow DEF ProgramActivated
    <3> QED
      BY <1>1, <2>1, <3>1 DEF TypeOK, TypeShared, ProgramActivated, FieldTypes
  <2>3. TypeLocals'
    BY <1>1, <2>1 DEF TypeOK, TypeLocals, ProgramActivated, handling, locals
  <2> QED
    BY <2>2, <2>3 DEF TypeOK
<1>2. CASE OpenProgram
  <2>1. TypeShared'
    BY <1>2 DEF TypeOK, TypeShared, OpenProgram, fields
  <2>2. TypeLocals'
    BY <1>2 DEF TypeOK, TypeLocals, OpenProgram, handling, locals
  <2> QED
    BY <2>1, <2>2 DEF TypeOK
<1>3. CASE MakeHelpers
  <2>1. /\ generation' = generation /\ decompilerService' \in FieldTypes(generation)
        /\ symbolApplier' \in FieldTypes(generation) /\ pcodeInjector' \in FieldTypes(generation)
    BY <1>3, FieldsTyped, AssignFacts DEF MakeHelpers
  <2>2. TypeShared'
    BY <1>3, <2>1 DEF TypeOK, TypeShared, MakeHelpers, FieldTypes
  <2>3. TypeLocals'
    BY <1>3 DEF TypeOK, TypeLocals, MakeHelpers, handling, locals
  <2> QED
    BY <2>2, <2>3 DEF TypeOK
<1>4. CASE StartRpcServer
  <2>1. generation \in 0..generation
    BY DEF TypeOK, TypeShared
  <2>2. listening' \subseteq 0..generation'
    BY <1>4, <2>1 DEF TypeOK, TypeShared, StartRpcServer
  <2>3. /\ generation' = generation /\ decompilerService' \in FieldTypes(generation)
        /\ symbolApplier' \in FieldTypes(generation) /\ pcodeInjector' \in FieldTypes(generation)
    BY <1>4, FieldsTyped, StartedFacts DEF StartRpcServer
  <2>4. TypeShared'
    BY <1>4, <2>1, <2>2, <2>3 DEF TypeOK, TypeShared, StartRpcServer, FieldTypes
  <2>5. TypeLocals'
    BY <1>4 DEF TypeOK, TypeLocals, StartRpcServer, handling, locals
  <2> QED
    BY <2>4, <2>5 DEF TypeOK
<1>5. CASE ProgramDeactivated
  <2>1. TypeShared'
    BY <1>5 DEF TypeOK, TypeShared, ProgramDeactivated, StopRpcServer, fields
  <2>2. TypeLocals'
    BY <1>5 DEF TypeOK, TypeLocals, ProgramDeactivated, handling, locals
  <2> QED
    BY <2>1, <2>2 DEF TypeOK
<1>6. CASE Dispose
  <2>1. TypeShared'
    BY <1>6 DEF TypeOK, TypeShared, Dispose, StopRpcServer, fields
  <2>2. TypeLocals'
    BY <1>6 DEF TypeOK, TypeLocals, Dispose, handling, locals
  <2> QED
    BY <2>1, <2>2 DEF TypeOK
<1>7. CASE CloseProgram
  <2>1. TypeShared'
    BY <1>7 DEF TypeOK, TypeShared, CloseProgram, fields
  <2>2. TypeLocals'
    BY <1>7 DEF TypeOK, TypeLocals, CloseProgram, handling, locals
  <2> QED
    BY <2>1, <2>2 DEF TypeOK
<1>8. CASE ClearFields
  <2>1. TypeShared'
    <3>1. /\ generation' = generation /\ decompilerService' \in FieldTypes(generation)
          /\ symbolApplier' \in FieldTypes(generation) /\ pcodeInjector' \in FieldTypes(generation)
      <4>1. 0 \in 0..generation
        BY FieldsTyped
      <4> QED
        BY <1>8, <4>1, FieldsTyped, AssignFacts DEF ClearFields
    <3> QED
      BY <1>8, <3>1 DEF TypeOK, TypeShared, ClearFields, FieldTypes
  <2>2. TypeLocals'
    BY <1>8 DEF TypeOK, TypeLocals, ClearFields, handling, locals
  <2> QED
    BY <2>1, <2>2 DEF TypeOK
<1> QED
  BY <1>1, <1>2, <1>3, <1>4, <1>5, <1>6, <1>7, <1>8 DEF Event

\* What a worker can read from a field is an activation, or null.
LEMMA ReadType ==
    ASSUME TypeOK, NEW w \in Workers, NEW f \in {decompilerService, symbolApplier, pcodeInjector},
           NEW v \in Read(w, f)
    PROVE  v \in 0..generation
<1>1. generation \in Nat /\ server[w] \in 0..generation
  BY ConstantsAssumption DEF TypeOK, TypeShared, TypeLocals
<1>2. f.shown[server[w]] \subseteq 0..generation
  <2>1. server[w] \in {0} \cup Activations
    BY <1>1, ConstantsAssumption DEF TypeOK, TypeShared, Activations
  <2> QED
    BY <2>1, FieldsTyped DEF FieldTypes
<1> QED
  BY <1>1, <1>2 DEF Read

\* Null is an object's number, and no name at all is a name's.
LEMMA NamesType ==
    ASSUME TypeOK
    PROVE  NoNames \in [Addrs -> 0..writes] /\ 0 \in 0..generation
  BY DEF NoNames, TypeOK, TypeShared

\* A worker that has answered holds nothing.
LEMMA AnswerTypes ==
    ASSUME TypeOK, NEW w \in Workers, Answer(w),
           UNCHANGED <<generation, writes, server>>, code' \in [Workers -> [Addrs -> 0..writes]]
    PROVE  TypeLocals'
  BY NamesType DEF TypeOK, TypeLocals, Answer

\* Going on to the p-code or to the decompiler.
LEMMA GoOnTypes ==
    ASSUME TypeOK, NEW w \in Workers, GoOn(w)
    PROVE  /\ pc' \in [Workers -> {"none", "reading", "symbols", "applying", "pcode", "service",
                                   "entering", "decompiling"}]
           /\ pc'[w] \in {"pcode", "service"}
           /\ \A v \in Workers : v # w => pc'[v] = pc[v]
  BY DEF TypeOK, TypeLocals, GoOn

\* A step of a worker keeps the types.
LEMMA WorkerTypes ==
    ASSUME TypeOK, NEW w \in Workers, Connect(w) \/ Disconnect(w) \/ Request(w) \/ Handle(w)
    PROVE  TypeOK'
<1> USE DEF workers_only, event_vars, fields, locals
<1>1. ASSUME UNCHANGED <<workers_only, monitor, names, writes>> PROVE TypeShared'
  BY <1>1 DEF TypeOK, TypeShared
<1>2. CASE Connect(w)
  <2>1. TypeLocals'
    BY <1>2 DEF TypeOK, TypeShared, TypeLocals, Connect
  <2> QED
    BY <1>1, <1>2, <2>1 DEF TypeOK, Connect
<1>3. CASE Disconnect(w)
  <2>1. TypeLocals'
    BY <1>3, NamesType DEF TypeOK, TypeLocals, Disconnect
  <2> QED
    BY <1>1, <1>3, <2>1 DEF TypeOK, Disconnect
<1>4. CASE Request(w)
  <2>1. /\ pc' \in [Workers -> {"none", "reading", "symbols", "applying", "pcode", "service",
                                "entering", "decompiling"}]
        /\ pc'[w] \in {"symbols", "pcode", "service"}
        /\ \A v \in Workers : v # w => pc'[v] = pc[v]
    <3>1. pc' = [pc EXCEPT ![w] = "symbols"] \/ GoOn(w)
      BY <1>4 DEF Request
    <3>2. CASE pc' = [pc EXCEPT ![w] = "symbols"]
      BY <3>2 DEF TypeOK, TypeLocals
    <3> QED
      BY <3>1, <3>2, GoOnTypes
  <2>2. job' \in [Workers -> {"none", "apply_symbols", "decompile_function"}]
    BY <1>4 DEF TypeOK, TypeLocals, Request
  <2>3. left' \in [Workers -> SUBSET Addrs]
    <3>1. \E symbols \in SUBSET Addrs : left' = [left EXCEPT ![w] = symbols]
      BY <1>4 DEF Request
    <3> QED
      BY <3>1 DEF TypeOK, TypeLocals
  <2>4. TypeLocals'
    BY <1>4, <2>1, <2>2, <2>3 DEF TypeOK, TypeLocals, Request
  <2> QED
    BY <1>1, <1>4, <2>4 DEF TypeOK, Request
<1>5. CASE TakeApplier(w)
  <2>1. CASE Answer(w)
    BY <1>1, <1>5, <2>1, AnswerTypes DEF TypeOK, TypeLocals, TakeApplier
  <2>2. CASE GoOn(w) /\ left' = [left EXCEPT ![w] = {}] /\ UNCHANGED <<job, applier, service, own>>
    <3>1. TypeLocals'
      BY <1>5, <2>2, GoOnTypes DEF TypeOK, TypeLocals, TakeApplier
    <3> QED
      BY <1>1, <1>5, <3>1 DEF TypeOK, TakeApplier
  <2>3. CASE \E use \in Read(w, symbolApplier) :
                /\ use # 0 /\ applier' = [applier EXCEPT ![w] = use]
                /\ pc' = [pc EXCEPT ![w] = "applying"]
                /\ UNCHANGED <<job, left, service, own>>
    <3>1. PICK use \in 0..generation :
              /\ use # 0 /\ applier' = [applier EXCEPT ![w] = use]
              /\ pc' = [pc EXCEPT ![w] = "applying"]
              /\ UNCHANGED <<job, left, service, own>>
      BY <2>3, ReadType
    <3>2. TypeLocals'
      BY <1>5, <3>1 DEF TypeOK, TypeLocals, TakeApplier
    <3> QED
      BY <1>1, <1>5, <3>2 DEF TypeOK, TakeApplier
  <2> QED
    BY <1>5, <2>1, <2>2, <2>3 DEF TakeApplier
<1>6. CASE ApplyOneSymbol(w)
  <2>1. PICK a \in left[w] :
            /\ left' = [left EXCEPT ![w] = @ \ {a}]
            /\ \/ /\ writes < MaxWrites
                  /\ writes' = writes + 1
                  /\ names' = [names EXCEPT ![program[applier[w]]][a] = writes + 1]
                  /\ own' = [own EXCEPT ![w][a] = writes + 1]
               \/ UNCHANGED <<names, writes, own>>
    BY <1>6 DEF ApplyOneSymbol
  <2>2. a \in Addrs /\ left' \in [Workers -> SUBSET Addrs]
    BY <2>1 DEF TypeOK, TypeLocals
  <2>3. writes' \in 0..MaxWrites /\ \A n \in 0..writes : n \in 0..writes'
    BY <2>1, ConstantsAssumption DEF TypeOK, TypeShared
  <2>4. CASE UNCHANGED <<names, writes, own>>
    BY <1>1, <1>6, <2>2, <2>4 DEF TypeOK, TypeLocals, ApplyOneSymbol
  <2>5. CASE /\ writes' = writes + 1
             /\ names' = [names EXCEPT ![program[applier[w]]][a] = writes + 1]
             /\ own' = [own EXCEPT ![w][a] = writes + 1]
    <3>1. writes + 1 \in 0..writes'
      BY <2>5, <2>3 DEF TypeOK, TypeShared
    <3>2. ASSUME NEW h \in [Addrs -> 0..writes]
          PROVE  h \in [Addrs -> 0..writes'] /\ [h EXCEPT ![a] = writes + 1] \in [Addrs -> 0..writes']
      BY <2>2, <2>3, <3>1
    <3>3. names' \in [Programs -> [Addrs -> 0..writes']]
      BY <2>5, <3>2 DEF TypeOK, TypeShared
    <3>4. own' \in [Workers -> [Addrs -> 0..writes']] /\ code' \in [Workers -> [Addrs -> 0..writes']]
      BY <1>6, <2>5, <3>2 DEF TypeOK, TypeLocals, ApplyOneSymbol
    <3>5. TypeShared'
      BY <1>6, <2>3, <3>3 DEF TypeOK, TypeShared, ApplyOneSymbol
    <3>6. TypeLocals'
      BY <1>6, <2>2, <3>4 DEF TypeOK, TypeLocals, ApplyOneSymbol
    <3> QED
      BY <3>5, <3>6 DEF TypeOK
  <2> QED
    BY <2>1, <2>4, <2>5
<1>7. CASE SymbolsApplied(w)
  <2>1. CASE Answer(w)
    BY <1>1, <1>7, <2>1, AnswerTypes DEF TypeOK, TypeLocals, SymbolsApplied
  <2>2. CASE GoOn(w) /\ UNCHANGED locals
    <3>1. TypeLocals'
      BY <1>7, <2>2, GoOnTypes DEF TypeOK, TypeLocals, SymbolsApplied
    <3> QED
      BY <1>1, <1>7, <3>1 DEF TypeOK, SymbolsApplied
  <2> QED
    BY <1>7, <2>1, <2>2 DEF SymbolsApplied
<1>8. CASE InjectPcode(w)
  <2>1. CASE Answer(w)
    BY <1>1, <1>8, <2>1, AnswerTypes DEF TypeOK, TypeLocals, InjectPcode
  <2>2. CASE pc' = [pc EXCEPT ![w] = "service"] /\ UNCHANGED locals
    BY <1>1, <1>8, <2>2 DEF TypeOK, TypeLocals, InjectPcode
  <2> QED
    BY <1>8, <2>1, <2>2 DEF InjectPcode
<1>9. CASE TakeService(w)
  <2>1. CASE Answer(w)
    BY <1>1, <1>9, <2>1, AnswerTypes DEF TypeOK, TypeLocals, TakeService
  <2>2. CASE \E use \in Read(w, decompilerService) :
                /\ use # 0 /\ service' = [service EXCEPT ![w] = use]
                /\ pc' = [pc EXCEPT ![w] = "entering"]
                /\ UNCHANGED <<job, left, applier, own>>
    <3>1. PICK use \in 0..generation :
              /\ use # 0 /\ service' = [service EXCEPT ![w] = use]
              /\ pc' = [pc EXCEPT ![w] = "entering"]
              /\ UNCHANGED <<job, left, applier, own>>
      BY <2>2, ReadType
    <3>2. TypeLocals'
      BY <1>9, <3>1 DEF TypeOK, TypeLocals, TakeService
    <3> QED
      BY <1>1, <1>9, <3>2 DEF TypeOK, TakeService
  <2> QED
    BY <1>9, <2>1, <2>2 DEF TakeService
<1>10. CASE NotInitialized(w)
  BY <1>1, <1>10, AnswerTypes DEF TypeOK, TypeLocals, NotInitialized
<1>11. CASE Decompile(w)
  <2>1. TypeLocals'
    BY <1>11, NamesType DEF TypeOK, TypeLocals, Decompile
  <2>2. TypeShared'
    BY <1>11 DEF TypeOK, TypeShared, Decompile
  <2> QED
    BY <2>1, <2>2 DEF TypeOK
<1>12. CASE ReadName(w)
  <2>1. PICK a \in left[w] :
            /\ left' = [left EXCEPT ![w] = @ \ {a}]
            /\ code' = [code EXCEPT ![w][a] = names[program[service[w]]][a]]
    BY <1>12 DEF ReadName
  <2>2. a \in Addrs /\ left' \in [Workers -> SUBSET Addrs]
    BY <2>1 DEF TypeOK, TypeLocals
  <2>3. names[program[service[w]]][a] \in 0..writes
    <3>1. service[w] \in 0..generation /\ service[w] # 0 /\ generation \in 0..MaxActivations
      BY <1>12 DEF ReadName, TypeOK, TypeShared, TypeLocals
    <3>2. service[w] \in Activations
      BY <3>1, ConstantsAssumption DEF Activations
    <3> QED
      BY <2>2, <3>2 DEF TypeOK, TypeShared
  <2>4. code' \in [Workers -> [Addrs -> 0..writes]]
    BY <2>1, <2>2, <2>3 DEF TypeOK, TypeLocals
  <2> QED
    BY <1>1, <1>12, <2>2, <2>4 DEF TypeOK, TypeLocals, ReadName
<1>13. CASE Decompiled(w)
  <2>1. code' \in [Workers -> [Addrs -> 0..writes]]
    BY <1>13, NamesType DEF TypeOK, TypeLocals, Decompiled
  <2>2. TypeLocals'
    BY <1>13, <2>1, AnswerTypes DEF Decompiled
  <2>3. TypeShared'
    BY <1>13 DEF TypeOK, TypeShared, Decompiled
  <2> QED
    BY <2>2, <2>3 DEF TypeOK
<1> QED
  BY <1>2, <1>3, <1>4, <1>5, <1>6, <1>7, <1>8, <1>9, <1>10, <1>11, <1>12, <1>13 DEF Handle

\* Every step keeps the types.
LEMMA TypeStep == ASSUME TypeOK, [Next]_vars PROVE TypeOK'
<1>1. CASE UNCHANGED vars
  BY <1>1 DEF vars, event_vars, fields, handling, locals, TypeOK, TypeShared, TypeLocals
<1> QED
  BY <1>1, EventTypes, WorkerTypes DEF Next

----------------------------------------------------------------------------
(* The event thread *)

\* What the workers do leaves the event thread's state alone.
LEMMA WorkerFrame ==
    ASSUME NEW w \in Workers, Connect(w) \/ Disconnect(w) \/ Request(w) \/ Handle(w)
    PROVE  UNCHANGED <<event_vars, fields, initialized>>
  BY DEF Connect, Disconnect, Request, Handle, TakeApplier, ApplyOneSymbol, SymbolsApplied,
      InjectPcode, TakeService, NotInitialized, Decompile, ReadName, Decompiled, workers_only

\* What the event thread does leaves the workers' state alone.
LEMMA EventFrame == ASSUME Event PROVE UNCHANGED <<handling, monitor, names, writes, program>>
  BY DEF Event, ProgramActivated, OpenProgram, MakeHelpers, StartRpcServer, ProgramDeactivated,
      Dispose, CloseProgram, ClearFields

\* Every step keeps InvEvent: services before server, and the other way round
\* on the way out.
LEMMA EventStep == ASSUME TypeOK, InvEvent, [Next]_vars PROVE InvEvent'
<1> USE DEF Holds, Empty, fields
<1>0. generation \in Nat /\ generation \in 0..MaxActivations
  BY ConstantsAssumption DEF TypeOK, TypeShared
<1>1. CASE ProgramActivated
  <2>1. Empty(decompilerService) /\ Empty(symbolApplier) /\ Empty(pcodeInjector) /\ listening = {}
    BY <1>1 DEF ProgramActivated, InvEvent
  <2>2. \A g \in Activations : ~initialized[g]
    BY <1>1 DEF ProgramActivated, InvEvent, Activations
  <2> QED
    BY <1>0, <1>1, <2>1, <2>2 DEF ProgramActivated, InvEvent, Assign
<1>2. CASE OpenProgram
  <2>1. initialized' = [initialized EXCEPT ![generation] = TRUE] /\ generation \in Activations
    BY <1>0, <1>2, ConstantsAssumption DEF OpenProgram, InvEvent, Activations
  <2>2. initialized'[generation]
    BY <2>1 DEF TypeOK, TypeShared
  <2>3. \A g \in Activations : initialized'[g] => g = generation
    BY <2>1 DEF TypeOK, TypeShared, InvEvent
  <2> QED
    BY <1>0, <1>2, <2>2, <2>3 DEF OpenProgram, InvEvent
<1>3. CASE MakeHelpers
  BY <1>0, <1>3 DEF MakeHelpers, InvEvent, Assign
<1>4. CASE StartRpcServer
  <2>1. listening = {} /\ listening' \in {{}, {generation}}
    BY <1>4 DEF StartRpcServer, InvEvent
  <2>2. /\ decompilerService'.now = decompilerService.now
        /\ symbolApplier'.now = symbolApplier.now /\ pcodeInjector'.now = pcodeInjector.now
    BY <1>4, FieldsTyped, StartedFacts DEF StartRpcServer
  <2> QED
    BY <1>0, <1>4, <2>1, <2>2 DEF StartRpcServer, InvEvent
<1>5. CASE ProgramDeactivated
  <2>1. listening' = {}
    BY <1>5 DEF ProgramDeactivated, StopRpcServer, InvEvent
  <2> QED
    BY <1>0, <1>5, <2>1 DEF ProgramDeactivated, InvEvent
<1>6. CASE Dispose
  <2>1. listening' = {}
    BY <1>6 DEF Dispose, StopRpcServer, InvEvent
  <2> QED
    BY <1>0, <1>6, <2>1 DEF Dispose, InvEvent
<1>7. CASE CloseProgram
  <2>1. decompilerService.now = generation
    BY <1>7 DEF CloseProgram, InvEvent
  <2>2. \A g \in Activations : ~initialized'[g]
    BY <1>7, <2>1 DEF CloseProgram, InvEvent, TypeOK, TypeShared
  <2> QED
    BY <1>0, <1>7, <2>2 DEF CloseProgram, InvEvent
<1>8. CASE ClearFields
  BY <1>0, <1>8 DEF ClearFields, InvEvent, Assign
<1>9. CASE UNCHANGED <<event_vars, fields, initialized>>
  BY <1>9 DEF InvEvent, event_vars
<1> QED
  BY <1>1, <1>2, <1>3, <1>4, <1>5, <1>6, <1>7, <1>8, <1>9, WorkerFrame DEF Next, Event, vars

\* Every step keeps InvServer: a server is started last, so the connections
\* there are while a program is being activated are of earlier ones.
LEMMA ServerStep == ASSUME TypeOK, InvEvent, InvServer, [Next]_vars PROVE InvServer'
<1> SUFFICES ASSUME NEW v \in Workers, event' \in {"opening", "wiring", "starting"}
             PROVE  server'[v] < generation'
  BY DEF InvServer
<1>1. generation \in Nat /\ server[v] \in 0..generation
  BY DEF TypeOK, TypeShared, TypeLocals
<1>2. CASE Event
  <2>1. server' = server
    BY <1>2, EventFrame DEF handling
  <2>2. CASE ProgramActivated
    BY <1>1, <2>1, <2>2 DEF ProgramActivated
  <2>3. CASE ~ProgramActivated
    <3>1. event \in {"opening", "wiring", "starting"} /\ generation' = generation
      BY <1>2, <2>3 DEF Event, OpenProgram, MakeHelpers, StartRpcServer, ProgramDeactivated,
          Dispose, CloseProgram, ClearFields
    <3> QED
      BY <2>1, <3>1 DEF InvServer
  <2> QED
    BY <2>2, <2>3
<1>3. CASE ~Event
  <2>1. event' = event /\ generation' = generation /\ listening = {}
    BY <1>3, WorkerFrame DEF Next, vars, event_vars, InvEvent
  <2>2. server' = server \/ \E w \in Workers : server' = [server EXCEPT ![w] = 0]
    BY <1>3, <2>1 DEF Next, vars, handling, Handle, Connect, Disconnect, Request, TakeApplier,
        ApplyOneSymbol, SymbolsApplied, InjectPcode, TakeService, NotInitialized, Decompile,
        ReadName, Decompiled
  <2>3. server'[v] = server[v] \/ server'[v] = 0
    BY <2>2 DEF TypeOK, TypeLocals
  <2>4. server[v] < generation
    BY <2>1 DEF InvServer
  <2> QED
    BY <1>1, <2>1, <2>3, <2>4
<1> QED
  BY <1>2, <1>3

----------------------------------------------------------------------------
(* The workers *)

\* A worker's step leaves what the other workers hold alone.
LEMMA OthersKept ==
    ASSUME TypeOK, NEW w \in Workers, Connect(w) \/ Disconnect(w) \/ Request(w) \/ Handle(w),
           NEW v \in Workers, v # w
    PROVE  /\ pc'[v] = pc[v] /\ left'[v] = left[v] /\ applier'[v] = applier[v]
           /\ service'[v] = service[v] /\ own'[v] = own[v] /\ code'[v] = code[v]
           /\ server'[v] = server[v]
<1> USE DEF TypeOK, TypeLocals, locals, Answer, GoOn
<1>1. CASE Connect(w)
  BY <1>1 DEF Connect
<1>2. CASE Disconnect(w)
  BY <1>2 DEF Disconnect
<1>3. CASE Request(w)
  <2>1. pc'[v] = pc[v] /\ left'[v] = left[v]
    BY <1>3 DEF Request
  <2> QED
    BY <1>3, <2>1 DEF Request
<1>4. CASE TakeApplier(w)
  BY <1>4 DEF TakeApplier
<1>5. CASE ApplyOneSymbol(w)
  BY <1>5 DEF ApplyOneSymbol
<1>6. CASE SymbolsApplied(w)
  BY <1>6 DEF SymbolsApplied
<1>7. CASE InjectPcode(w)
  BY <1>7 DEF InjectPcode
<1>8. CASE TakeService(w)
  BY <1>8 DEF TakeService
<1>9. CASE NotInitialized(w)
  BY <1>9 DEF NotInitialized
<1>10. CASE Decompile(w)
  BY <1>10 DEF Decompile
<1>11. CASE ReadName(w)
  BY <1>11 DEF ReadName
<1>12. CASE Decompiled(w)
  BY <1>12 DEF Decompiled
<1> QED
  BY <1>1, <1>2, <1>3, <1>4, <1>5, <1>6, <1>7, <1>8, <1>9, <1>10, <1>11, <1>12 DEF Handle

\* A worker enters and leaves "decompiling" with the monitor; between the two
\* it stays, and steps outside leave every monitor alone.
LEMMA MonitorCases ==
    ASSUME TypeOK, InvMonitor, NEW w \in Workers,
           Connect(w) \/ Disconnect(w) \/ Request(w) \/ Handle(w)
    PROVE  \/ Decompile(w)
           \/ Decompiled(w)
           \/ /\ monitor' = monitor
              /\ pc'[w] = "decompiling" <=> pc[w] = "decompiling"
              /\ pc[w] = "decompiling" => service'[w] = service[w]
<1> USE DEF TypeOK, TypeLocals, locals, Answer, GoOn
<1>1. CASE Connect(w)
  BY <1>1 DEF Connect
<1>2. CASE Disconnect(w)
  BY <1>2 DEF Disconnect
<1>3. CASE Request(w)
  <2>1. pc'[w] # "decompiling" /\ pc[w] = "reading" /\ monitor' = monitor
    BY <1>3 DEF Request
  <2> QED
    BY <2>1
<1>4. CASE TakeApplier(w)
  <2>1. pc'[w] # "decompiling" /\ pc[w] = "symbols" /\ monitor' = monitor
    BY <1>4 DEF TakeApplier
  <2> QED
    BY <2>1
<1>5. CASE ApplyOneSymbol(w)
  BY <1>5 DEF ApplyOneSymbol
<1>6. CASE SymbolsApplied(w)
  BY <1>6 DEF SymbolsApplied
<1>7. CASE InjectPcode(w)
  BY <1>7 DEF InjectPcode
<1>8. CASE TakeService(w)
  BY <1>8 DEF TakeService
<1>9. CASE NotInitialized(w)
  BY <1>9 DEF NotInitialized
<1>10. CASE ReadName(w)
  BY <1>10 DEF ReadName
<1> QED
  BY <1>1, <1>2, <1>3, <1>4, <1>5, <1>6, <1>7, <1>8, <1>9, <1>10 DEF Handle

\* Every step keeps InvMonitor: decompile and closeProgram exclude each other.
LEMMA MonitorStep ==
    ASSUME TypeOK, TypeOK', InvEvent, InvMonitor, [Next]_vars
    PROVE  InvMonitor'
<1>1. CASE Event
  <2>1. monitor' = monitor /\ pc' = pc /\ service' = service
    BY <1>1, EventFrame DEF handling, locals
  <2>2. ASSUME NEW v \in Workers, pc[v] = "decompiling" PROVE initialized'[service[v]]
    <3>1. initialized[service[v]] /\ monitor[service[v]] # {}
      BY <2>2 DEF InvMonitor
    <3>0. service[v] \in 0..generation /\ service[v] # 0 /\ generation \in 0..MaxActivations
      BY <2>2 DEF TypeOK, TypeShared, TypeLocals
    <3>2. service[v] \in Activations
      BY <3>0, ConstantsAssumption DEF Activations
    <3>3. \/ initialized' = initialized
          \/ initialized' = [initialized EXCEPT ![generation] = TRUE]
          \/ /\ monitor[decompilerService.now] = {}
             /\ initialized' = [initialized EXCEPT ![decompilerService.now] = FALSE]
      BY <1>1 DEF Event, ProgramActivated, OpenProgram, MakeHelpers, StartRpcServer,
          ProgramDeactivated, Dispose, CloseProgram, ClearFields
    <3> QED
      BY <3>1, <3>2, <3>3 DEF TypeOK, TypeShared
  <2> QED
    BY <2>1, <2>2 DEF InvMonitor
<1>2. ASSUME NEW w \in Workers, Connect(w) \/ Disconnect(w) \/ Request(w) \/ Handle(w)
      PROVE  InvMonitor'
  <2>0. initialized' = initialized
    BY <1>2, WorkerFrame
  <2>1. CASE Decompile(w)
    <3>1. /\ pc[w] = "entering" /\ service' = service /\ initialized[service[w]]
          /\ monitor[service[w]] = {} /\ monitor' = [monitor EXCEPT ![service[w]] = {w}]
          /\ pc' = [pc EXCEPT ![w] = "decompiling"]
      BY <2>1 DEF Decompile
    <3>2. service[w] \in Activations
      BY <3>1, ConstantsAssumption DEF TypeOK, TypeShared, TypeLocals, Activations
    <3>3. monitor'[service[w]] = {w} /\ \A g \in Activations : g # service[w] => monitor'[g] = monitor[g]
      BY <3>1, <3>2 DEF TypeOK, TypeShared
    <3>4. pc'[w] = "decompiling" /\ \A v \in Workers : v # w => pc'[v] = pc[v]
      BY <3>1 DEF TypeOK, TypeLocals
    <3>5. ASSUME NEW g \in Activations, NEW v \in monitor'[g]
          PROVE  pc'[v] = "decompiling" /\ service'[v] = g
      <4>1. CASE g = service[w]
        BY <3>1, <3>3, <3>4, <3>5, <4>1
      <4>2. CASE g # service[w]
        <5>1. v \in monitor[g] /\ v \in Workers
          BY <3>3, <3>5, <4>2 DEF TypeOK, TypeShared
        <5>2. pc[v] = "decompiling" /\ service[v] = g
          BY <5>1 DEF InvMonitor
        <5> QED
          BY <3>1, <3>4, <5>1, <5>2
      <4> QED
        BY <4>1, <4>2
    <3>6. ASSUME NEW v \in Workers, pc'[v] = "decompiling"
          PROVE  initialized[service[v]] /\ monitor'[service[v]] = {v}
      <4>1. CASE v = w
        BY <3>1, <3>3, <4>1
      <4>2. CASE v # w
        <5>1. initialized[service[v]] /\ monitor[service[v]] = {v}
          BY <3>4, <3>6, <4>2 DEF InvMonitor
        <5>2. service[v] # service[w]
          BY <3>1, <5>1
        <5>3. service[v] \in 0..generation /\ service[v] # 0 /\ generation \in 0..MaxActivations
          BY <3>4, <3>6, <4>2 DEF TypeOK, TypeShared, TypeLocals
        <5>4. service[v] \in Activations
          BY <5>3, ConstantsAssumption DEF Activations
        <5> QED
          BY <3>3, <5>1, <5>2, <5>4
      <4> QED
        BY <4>1, <4>2
    <3> QED
      BY <2>0, <3>1, <3>5, <3>6 DEF InvMonitor
  <2>2. CASE Decompiled(w)
    <3>1. pc[w] = "decompiling" /\ monitor' = [monitor EXCEPT ![service[w]] = {}]
      BY <2>2 DEF Decompiled
    <3>2. pc'[w] = "reading"
      BY <2>2 DEF Decompiled, Answer, TypeOK, TypeLocals
    <3>3. \A v \in Workers : v # w => pc'[v] = pc[v] /\ service'[v] = service[v]
      BY <1>2, OthersKept
    <3>4. service[w] \in 0..generation /\ service[w] # 0 /\ generation \in 0..MaxActivations
      BY <3>1 DEF TypeOK, TypeShared, TypeLocals
    <3>5. service[w] \in Activations
      BY <3>4, ConstantsAssumption DEF Activations
    <3>6. monitor[service[w]] = {w}
      BY <3>1 DEF InvMonitor
    <3>7. monitor'[service[w]] = {} /\ \A g \in Activations : g # service[w] => monitor'[g] = monitor[g]
      BY <3>1, <3>5 DEF TypeOK, TypeShared
    <3>8. ASSUME NEW g \in Activations, NEW v \in monitor'[g]
          PROVE  pc'[v] = "decompiling" /\ service'[v] = g
      <4>1. v \in monitor[g] /\ v \in Workers /\ g # service[w]
        BY <3>7, <3>8 DEF TypeOK, TypeShared
      <4>2. pc[v] = "decompiling" /\ service[v] = g
        BY <4>1 DEF InvMonitor
      <4> QED
        BY <3>3, <4>1, <4>2
    <3>9. ASSUME NEW v \in Workers, pc'[v] = "decompiling"
          PROVE  initialized[service'[v]] /\ monitor'[service'[v]] = {v}
      <4>1. v # w /\ pc[v] = "decompiling" /\ service'[v] = service[v]
        BY <3>2, <3>3, <3>9
      <4>2. initialized[service[v]] /\ monitor[service[v]] = {v}
        BY <4>1 DEF InvMonitor
      <4>3. service[v] # service[w]
        BY <3>6, <4>1, <4>2
      <4>4. service[v] \in 0..generation /\ service[v] # 0 /\ generation \in 0..MaxActivations
        BY <4>1 DEF TypeOK, TypeShared, TypeLocals
      <4>5. service[v] \in Activations
        BY <4>4, ConstantsAssumption DEF Activations
      <4> QED
        BY <3>7, <4>1, <4>2, <4>3, <4>5
    <3> QED
      BY <2>0, <3>8, <3>9 DEF InvMonitor
  <2>3. CASE /\ monitor' = monitor
             /\ pc'[w] = "decompiling" <=> pc[w] = "decompiling"
             /\ pc[w] = "decompiling" => service'[w] = service[w]
    <3>1. \A v \in Workers : /\ pc'[v] = "decompiling" <=> pc[v] = "decompiling"
                             /\ pc[v] = "decompiling" => service'[v] = service[v]
      BY <1>2, <2>3, OthersKept
    <3>2. \A g \in Activations : monitor[g] \subseteq Workers
      BY DEF TypeOK, TypeShared
    <3> QED
      BY <2>0, <2>3, <3>1, <3>2 DEF InvMonitor
  <2> QED
    BY <1>2, <2>1, <2>2, <2>3, MonitorCases
<1>3. CASE UNCHANGED vars
  BY <1>3 DEF vars, handling, locals, InvMonitor
<1> QED
  BY <1>1, <1>2, <1>3 DEF Next

----------------------------------------------------------------------------
(* Names *)

\* A step of a worker forgets what it wrote, with an answer, or goes on with it.
LEMMA NamesCases ==
    ASSUME TypeOK, InvNames, NEW w \in Workers,
           Connect(w) \/ Disconnect(w) \/ Request(w) \/ Handle(w)
    PROVE  \/ ApplyOneSymbol(w)
           \/ ReadName(w)
           \/ names' = names /\ own'[w] = NoNames
           \/ /\ names' = names /\ own'[w] = own[w] /\ applier'[w] = applier[w]
              /\ pc'[w] \notin {"none", "reading", "symbols"}
              /\ pc'[w] = "decompiling" => left'[w] = Addrs
<1> USE DEF TypeOK, TypeLocals, locals
<1>0. Answer(w) => own'[w] = NoNames
  BY DEF Answer
<1>00. GoOn(w) => pc'[w] \in {"pcode", "service"}
  BY DEF GoOn
<1>1. CASE Connect(w)
  BY <1>1 DEF Connect, InvNames
<1>2. CASE Disconnect(w)
  BY <1>2 DEF Disconnect, InvNames
<1>3. CASE Request(w)
  <2>1. pc[w] = "reading" /\ own' = own /\ names' = names
    BY <1>3 DEF Request
  <2> QED
    BY <2>1 DEF InvNames
<1>4. CASE TakeApplier(w)
  <2>1. pc[w] = "symbols" /\ names' = names /\ (own' = own \/ Answer(w))
    BY <1>4 DEF TakeApplier
  <2> QED
    BY <1>0, <2>1 DEF InvNames
<1>5. CASE SymbolsApplied(w)
  BY <1>0, <1>00, <1>5 DEF SymbolsApplied
<1>6. CASE InjectPcode(w)
  BY <1>0, <1>6 DEF InjectPcode
<1>7. CASE TakeService(w)
  BY <1>0, <1>7 DEF TakeService
<1>8. CASE NotInitialized(w)
  BY <1>0, <1>8 DEF NotInitialized
<1>9. CASE Decompile(w)
  BY <1>9 DEF Decompile
<1>10. CASE Decompiled(w)
  BY <1>0, <1>10 DEF Decompiled
<1> QED
  BY <1>1, <1>2, <1>3, <1>4, <1>5, <1>6, <1>7, <1>8, <1>9, <1>10 DEF Handle

\* InvNames for one worker, step by step.
NamesOf(w) ==
    /\ pc[w] \in {"none", "reading", "symbols"} => own[w] = NoNames
    /\ \A a \in Addrs : own[w][a] # 0 =>
          applier[w] # 0 /\ own[w][a] <= names[program[applier[w]]][a]
    /\ pc[w] = "decompiling" => \A a \in Addrs \ left[w] :
          own[w][a] = 0 \/ program[applier[w]] # program[service[w]] \/ code[w][a] >= own[w][a]

\* The objects in hand are those of activations.
LEMMA InHand ==
    ASSUME TypeOK, NEW v \in Workers
    PROVE  /\ applier[v] # 0 => applier[v] \in Activations /\ program[applier[v]] \in Programs
           /\ service[v] # 0 => service[v] \in Activations /\ program[service[v]] \in Programs
<1>1. /\ applier[v] \in 0..generation /\ service[v] \in 0..generation
      /\ generation \in 0..MaxActivations
  BY DEF TypeOK, TypeShared, TypeLocals
<1>2. /\ applier[v] # 0 => applier[v] \in Activations
      /\ service[v] # 0 => service[v] \in Activations
  BY <1>1, ConstantsAssumption DEF Activations
<1> QED
  BY <1>2 DEF TypeOK, TypeShared

\* Names are only ever written again: the write that named an address last is
\* never older than it was.
LEMMA NamesGrow ==
    ASSUME TypeOK, [Next]_vars, NEW p \in Programs, NEW a \in Addrs
    PROVE  names[p][a] <= names'[p][a]
<1>1. names[p][a] \in Nat /\ names[p][a] <= writes /\ writes \in Nat
  BY ConstantsAssumption DEF TypeOK, TypeShared
<1>2. ASSUME NEW w \in Workers, ApplyOneSymbol(w) PROVE names[p][a] <= names'[p][a]
  <2>1. \/ names' = names
        \/ \E b \in left[w] : names' = [names EXCEPT ![program[applier[w]]][b] = writes + 1]
    BY <1>2 DEF ApplyOneSymbol
  <2>2. CASE names' = names
    BY <1>1, <2>2
  <2>3. ASSUME NEW b \in left[w], names' = [names EXCEPT ![program[applier[w]]][b] = writes + 1]
        PROVE  names[p][a] <= names'[p][a]
    <3>1. names'[p][a] = names[p][a] \/ names'[p][a] = writes + 1
      BY <2>3 DEF TypeOK, TypeShared
    <3> QED
      BY <1>1, <3>1
  <2> QED
    BY <2>1, <2>2, <2>3
<1>3. CASE ~\E w \in Workers : ApplyOneSymbol(w)
  <2>1. names' = names
    BY <1>3, EventFrame DEF Next, Handle, vars, handling, Connect, Disconnect, Request, TakeApplier,
        SymbolsApplied, InjectPcode, TakeService, NotInitialized, Decompile, ReadName, Decompiled
  <2> QED
    BY <1>1, <2>1
<1> QED
  BY <1>2, <1>3

\* A worker whose own state stays has its names still, or newer ones.
LEMMA NamesKept ==
    ASSUME TypeOK, [Next]_vars, program' = program, NEW v \in Workers, NamesOf(v),
           own'[v] = own[v], applier'[v] = applier[v]
    PROVE  \A a \in Addrs : own'[v][a] # 0 =>
               applier'[v] # 0 /\ own'[v][a] <= names'[program'[applier'[v]]][a]
<1> SUFFICES ASSUME NEW a \in Addrs, own[v][a] # 0
             PROVE  applier[v] # 0 /\ own[v][a] <= names'[program[applier[v]]][a]
  OBVIOUS
<1>1. applier[v] # 0 /\ own[v][a] <= names[program[applier[v]]][a]
  BY DEF NamesOf
<1>2. program[applier[v]] \in Programs
  BY <1>1, InHand
<1>3. names[program[applier[v]]][a] <= names'[program[applier[v]]][a]
  BY <1>2, NamesGrow
<1>4. /\ own[v][a] \in 0..writes /\ names[program[applier[v]]][a] \in 0..writes /\ writes \in Nat
      /\ names'[program[applier[v]]][a] \in Nat
  <2>1. TypeOK'
    BY TypeStep
  <2>2. names'[program[applier[v]]][a] \in 0..writes' /\ writes' \in 0..MaxWrites
    BY <1>2, <2>1 DEF TypeOK, TypeShared
  <2> QED
    BY <1>2, <2>2, ConstantsAssumption DEF TypeOK, TypeShared, TypeLocals
<1> QED
  BY <1>1, <1>3, <1>4

\* Every step keeps InvNames: no name is lost between the symbols of a request
\* and its decompilation.
LEMMA NamesStep == ASSUME TypeOK, InvNames, [Next]_vars PROVE InvNames'
<1>0. InvNames <=> \A v \in Workers : NamesOf(v)
  BY DEF InvNames, NamesOf
<1>00. (\A v \in Workers : NamesOf(v)') => InvNames'
  BY DEF InvNames, NamesOf
<1>000. program' = program
  BY EventFrame, WorkerFrame DEF Next, vars, event_vars
<1> HIDE DEF InvNames
<1>1. ASSUME NEW v \in Workers,
             UNCHANGED <<own[v], applier[v], service[v], pc[v], left[v], code[v]>>
      PROVE  NamesOf(v)'
  BY <1>0, <1>000, <1>1, NamesKept DEF NamesOf
<1>2. CASE Event \/ UNCHANGED vars
  <2>1. UNCHANGED <<own, applier, service, pc, left, code>>
    BY <1>2, EventFrame DEF vars, handling, locals
  <2> QED
    BY <1>00, <1>1, <2>1
<1>3. ASSUME NEW w \in Workers, Connect(w) \/ Disconnect(w) \/ Request(w) \/ Handle(w)
      PROVE  InvNames'
  <2>1. \A v \in Workers : v # w => NamesOf(v)'
    BY <1>1, <1>3, OthersKept
  <2> SUFFICES NamesOf(w)'
    BY <1>00, <2>1
  <2>2. CASE names' = names /\ own'[w] = NoNames
    BY <2>2 DEF NamesOf, NoNames
  <2>3. CASE /\ names' = names /\ own'[w] = own[w] /\ applier'[w] = applier[w]
             /\ pc'[w] \notin {"none", "reading", "symbols"}
             /\ pc'[w] = "decompiling" => left'[w] = Addrs
    BY <1>0, <1>000, <2>3, NamesKept DEF NamesOf
  <2>4. CASE ApplyOneSymbol(w)
    <3>1. pc'[w] = "applying" /\ applier' = applier /\ applier[w] # 0
      BY <2>4 DEF ApplyOneSymbol, TypeOK, TypeLocals
    <3>2. CASE own' = own
      BY <1>0, <1>000, <3>1, <3>2, NamesKept DEF NamesOf
    <3>3. CASE own' # own
      <4>1. PICK a \in left[w] :
                /\ names' = [names EXCEPT ![program[applier[w]]][a] = writes + 1]
                /\ own' = [own EXCEPT ![w][a] = writes + 1]
        BY <2>4, <3>3 DEF ApplyOneSymbol
      <4>2. a \in Addrs /\ program[applier[w]] \in Programs
        BY <3>1, <4>1, InHand DEF TypeOK, TypeLocals
      <4>3. writes \in Nat
        BY ConstantsAssumption DEF TypeOK, TypeShared
      <4>4. own'[w][a] = writes + 1 /\ names'[program[applier[w]]][a] = writes + 1
        BY <4>1, <4>2 DEF TypeOK, TypeShared, TypeLocals
      <4>5. ASSUME NEW b \in Addrs, b # a
            PROVE  /\ own'[w][b] = own[w][b]
                   /\ names'[program[applier[w]]][b] = names[program[applier[w]]][b]
        BY <4>1, <4>2, <4>5 DEF TypeOK, TypeShared, TypeLocals
      <4>6. \A b \in Addrs : own'[w][b] # 0 => own'[w][b] <= names'[program[applier[w]]][b]
        BY <1>0, <4>3, <4>4, <4>5 DEF NamesOf
      <4> QED
        BY <1>000, <3>1, <4>6 DEF NamesOf
    <3> QED
      BY <3>2, <3>3
  <2>5. CASE ReadName(w)
    <3>1. PICK a \in left[w] :
              /\ left' = [left EXCEPT ![w] = @ \ {a}]
              /\ code' = [code EXCEPT ![w][a] = names[program[service[w]]][a]]
      BY <2>5 DEF ReadName
    <3>2. /\ pc[w] = "decompiling" /\ UNCHANGED <<pc, own, applier, service, names>>
          /\ a \in Addrs
      BY <2>5, <3>1 DEF ReadName, TypeOK, TypeLocals
    <3>3. code'[w][a] = names[program[service[w]]][a] /\ left'[w] = left[w] \ {a}
      BY <3>1, <3>2 DEF TypeOK, TypeLocals
    <3>4. \A b \in Addrs : b # a => code'[w][b] = code[w][b]
      BY <3>1, <3>2 DEF TypeOK, TypeLocals
    <3>5. own[w][a] = 0 \/ program[applier[w]] # program[service[w]] \/ code'[w][a] >= own[w][a]
      <4>1. own[w][a] # 0 => own[w][a] <= names[program[applier[w]]][a]
        BY <1>0, <3>2 DEF NamesOf
      <4>2. service[w] # 0
        BY <3>2 DEF TypeOK, TypeLocals
      <4>3. names[program[service[w]]][a] \in 0..writes /\ own[w][a] \in 0..writes
        BY <3>2, <4>2, InHand DEF TypeOK, TypeShared, TypeLocals
      <4> QED
        BY <3>3, <4>1, <4>3
    <3>6. \A b \in Addrs \ left'[w] :
              own[w][b] = 0 \/ program[applier[w]] # program[service[w]] \/ code'[w][b] >= own[w][b]
      BY <1>0, <3>2, <3>3, <3>4, <3>5 DEF NamesOf
    <3> QED
      BY <1>0, <1>000, <3>2, <3>6, NamesKept DEF NamesOf
  <2> QED
    BY <1>3, <2>2, <2>3, <2>4, <2>5, NamesCases
<1> QED
  BY <1>2, <1>3 DEF Next

----------------------------------------------------------------------------
(* Connections *)

\* What a worker reads from a field belongs to the program it connected for or
\* to a later one: what a field held before that program's object is out of its
\* sight.
LEMMA ReadNotEarlier ==
    ASSUME TypeOK, InvShown, NEW w \in Workers,
           NEW f \in {decompilerService, symbolApplier, pcodeInjector},
           NEW x \in Read(w, f), x # 0
    PROVE  x >= server[w]
<1>1. /\ generation \in 0..MaxActivations /\ server[w] \in 0..generation /\ server[w] \in Reached
      /\ x \in 0..generation
  BY ReadType DEF TypeOK, TypeShared, TypeLocals, Reached
<1>2. CASE server[w] = 0
  BY <1>1, <1>2, ConstantsAssumption
<1>3. CASE server[w] # 0
  <2>1. server[w] \in Activations
    BY <1>1, <1>3, ConstantsAssumption DEF Activations
  <2> QED
    BY <1>1, <2>1 DEF InvShown, SoundFor, Read
<1> QED
  BY <1>2, <1>3

\* Every step keeps NoEarlierProgram.
LEMMA EarlierStep ==
    ASSUME TypeOK, InvShown, NoEarlierProgram, [Next]_vars
    PROVE  NoEarlierProgram'
<1>1. ASSUME NEW v \in Workers, UNCHANGED <<pc[v], applier[v], service[v], server[v]>>
      PROVE  /\ pc'[v] \in {"applying"} => applier'[v] >= server'[v]
             /\ pc'[v] \in {"entering", "decompiling"} => service'[v] >= server'[v]
  BY <1>1 DEF NoEarlierProgram
<1>2. CASE Event \/ UNCHANGED vars
  <2>1. UNCHANGED <<pc, applier, service, server>>
    BY <1>2, EventFrame DEF vars, handling, locals
  <2> QED
    BY <1>1, <2>1 DEF NoEarlierProgram
<1>3. ASSUME NEW w \in Workers, Connect(w) \/ Disconnect(w) \/ Request(w) \/ Handle(w)
      PROVE  NoEarlierProgram'
  <2>1. \A v \in Workers : v # w => UNCHANGED <<pc[v], applier[v], service[v], server[v]>>
    BY <1>3, OthersKept
  <2> SUFFICES /\ pc'[w] \in {"applying"} => applier'[w] >= server'[w]
               /\ pc'[w] \in {"entering", "decompiling"} => service'[w] >= server'[w]
    BY <1>1, <2>1 DEF NoEarlierProgram
  <2> USE DEF TypeOK, TypeLocals, locals
  <2>2. CASE pc'[w] \notin {"applying", "entering", "decompiling"}
    BY <2>2
  <2>3. CASE ApplyOneSymbol(w) \/ Decompile(w) \/ ReadName(w)
    <3>1. UNCHANGED <<applier, service, server>>
      BY <2>3 DEF ApplyOneSymbol, Decompile, ReadName
    <3>2. /\ pc'[w] \in {"applying"} => pc[w] = "applying"
          /\ pc'[w] \in {"entering", "decompiling"} => pc[w] \in {"entering", "decompiling"}
      BY <2>3 DEF ApplyOneSymbol, Decompile, ReadName
    <3> QED
      BY <3>1, <3>2 DEF NoEarlierProgram
  <2>4. CASE TakeApplier(w) /\ pc'[w] = "applying"
    <3>1. PICK use \in Read(w, symbolApplier) : use # 0 /\ applier' = [applier EXCEPT ![w] = use]
      BY <2>4 DEF TakeApplier, Answer, GoOn
    <3>2. use >= server[w]
      BY <3>1, ReadNotEarlier
    <3>3. applier'[w] = use /\ server' = server
      BY <2>4, <3>1 DEF TakeApplier
    <3> QED
      BY <2>4, <3>2, <3>3
  <2>5. CASE TakeService(w) /\ pc'[w] = "entering"
    <3>1. PICK use \in Read(w, decompilerService) : use # 0 /\ service' = [service EXCEPT ![w] = use]
      BY <2>5 DEF TakeService, Answer
    <3>2. use >= server[w]
      BY <3>1, ReadNotEarlier
    <3>3. service'[w] = use /\ server' = server
      BY <2>5, <3>1 DEF TakeService
    <3> QED
      BY <2>5, <3>2, <3>3
  <2>6. \/ pc'[w] \notin {"applying", "entering", "decompiling"}
        \/ ApplyOneSymbol(w) \/ Decompile(w) \/ ReadName(w)
        \/ TakeApplier(w) /\ pc'[w] = "applying"
        \/ TakeService(w) /\ pc'[w] = "entering"
    <3>1. CASE Connect(w) \/ Disconnect(w)
      BY <3>1 DEF Connect, Disconnect
    <3>2. CASE Request(w)
      BY <3>2 DEF Request, GoOn
    <3>3. Answer(w) => pc'[w] = "reading"
      BY DEF Answer
    <3>4. GoOn(w) => pc'[w] \in {"pcode", "service"}
      BY DEF GoOn
    <3>5. CASE TakeApplier(w)
      BY <3>3, <3>4, <3>5 DEF TakeApplier
    <3>6. CASE SymbolsApplied(w)
      BY <3>3, <3>4, <3>6 DEF SymbolsApplied
    <3>7. CASE InjectPcode(w)
      BY <3>3, <3>7 DEF InjectPcode
    <3>8. CASE TakeService(w)
      BY <3>3, <3>8 DEF TakeService
    <3>9. CASE NotInitialized(w) \/ Decompiled(w)
      BY <3>3, <3>9 DEF NotInitialized, Decompiled
    <3> QED
      BY <1>3, <3>1, <3>2, <3>5, <3>6, <3>7, <3>8, <3>9 DEF Handle
  <2> QED
    BY <2>2, <2>3, <2>4, <2>5, <2>6
<1> QED
  BY <1>2, <1>3 DEF Next

----------------------------------------------------------------------------
(* Connections *)

\* A connection comes and goes with Connect and Disconnect only.
LEMMA ConnectCases ==
    ASSUME TypeOK, NEW w \in Workers, Connect(w) \/ Disconnect(w) \/ Request(w) \/ Handle(w)
    PROVE  \/ Connect(w)
           \/ Disconnect(w)
           \/ server' = server /\ pc[w] # "none" /\ pc'[w] # "none"
<1> USE DEF TypeOK, TypeLocals, locals, Answer, GoOn
<1>1. CASE Request(w)
  <2>1. pc'[w] # "none" /\ pc[w] = "reading" /\ server' = server
    BY <1>1 DEF Request
  <2> QED
    BY <2>1
<1>2. CASE TakeApplier(w)
  <2>1. pc'[w] # "none" /\ pc[w] = "symbols" /\ server' = server
    BY <1>2 DEF TakeApplier
  <2> QED
    BY <2>1
<1>3. CASE ApplyOneSymbol(w)
  BY <1>3 DEF ApplyOneSymbol
<1>4. CASE SymbolsApplied(w)
  BY <1>4 DEF SymbolsApplied
<1>5. CASE InjectPcode(w)
  BY <1>5 DEF InjectPcode
<1>6. CASE TakeService(w)
  BY <1>6 DEF TakeService
<1>7. CASE NotInitialized(w)
  BY <1>7 DEF NotInitialized
<1>8. CASE Decompile(w)
  BY <1>8 DEF Decompile
<1>9. CASE ReadName(w)
  BY <1>9 DEF ReadName
<1>10. CASE Decompiled(w)
  BY <1>10 DEF Decompiled
<1> QED
  BY <1>1, <1>2, <1>3, <1>4, <1>5, <1>6, <1>7, <1>8, <1>9, <1>10 DEF Handle

\* A server that listens has a program, which is open.
LEMMA Listens ==
    ASSUME TypeOK, InvEvent, NEW g \in listening
    PROVE  g = generation /\ g # 0 /\ g \in Activations /\ initialized[g]
<1>1. /\ event = "idle" /\ ~disposed /\ decompilerService.now # 0
      /\ listening = {generation}
  BY DEF InvEvent
<1>2. generation # 0 /\ initialized[generation]
  BY <1>1 DEF InvEvent, Empty
<1>3. generation \in Activations
  BY <1>2, ConstantsAssumption DEF TypeOK, TypeShared, Activations
<1> QED
  BY <1>1, <1>2, <1>3

\* To assign null, or an object of the activation of every server there is or a
\* later one, shows the workers of none an earlier one.
LEMMA AssignSound ==
    ASSUME NEW f, NEW v, NEW servers, SoundFor(f, servers),
           v = 0 \/ \A g \in Activations \cap servers : v >= g
    PROVE  SoundFor(Assign(f, v), servers)
  BY DEF SoundFor, Assign

\* Nor does the start of a server, when the field has its object.
LEMMA StartedSound ==
    ASSUME NEW n \in Nat, NEW f \in FieldTypes(n), NEW servers, SoundFor(f, servers),
           f.now = generation, generation \in Activations
    PROVE  SoundFor(Started(f), servers \cup {generation})
<1> SUFFICES ASSUME NEW g \in Activations \cap (servers \cup {generation}), NEW x \in Started(f).shown[g]
             PROVE  x = 0 \/ x >= g
  BY DEF SoundFor
<1>1. CASE g = generation
  BY <1>1, StartedFacts DEF Activations
<1>2. CASE g # generation
  BY <1>2, StartedFacts DEF SoundFor
<1> QED
  BY <1>1, <1>2

\* What is sound for some servers is so for fewer.
LEMMA FewerSound ==
    ASSUME NEW f, NEW servers, NEW fewer, fewer \subseteq servers, SoundFor(f, servers)
    PROVE  SoundFor(f, fewer)
  BY DEF SoundFor

\* Every step keeps InvShown: objects are assigned in the order of their
\* activations, and all of them before the server is started.
LEMMA ShownStep ==
    ASSUME TypeOK, InvEvent, InvShown, [Next]_vars
    PROVE  InvShown'
<1>1. /\ generation \in Nat /\ generation \in 0..MaxActivations
      /\ \A g \in Reached : g \in 0..generation
  BY ConstantsAssumption DEF TypeOK, TypeShared, TypeLocals, Reached
<1>2. CASE ProgramActivated
  <2>1. Reached' = Reached
    BY <1>2 DEF ProgramActivated, Reached, handling
  <2>2. \A g \in Activations \cap Reached : generation + 1 >= g
    BY <1>1
  <2>3. SoundFor(Assign(decompilerService, generation + 1), Reached)
    BY <2>2, AssignSound DEF InvShown
  <2> QED
    BY <1>2, <2>1, <2>3 DEF ProgramActivated, InvShown
<1>3. CASE MakeHelpers
  <2>1. Reached' = Reached
    BY <1>3 DEF MakeHelpers, Reached, handling
  <2>2. \A g \in Activations \cap Reached : generation >= g
    BY <1>1
  <2>3. SoundFor(Assign(symbolApplier, generation), Reached) /\ SoundFor(Assign(pcodeInjector, generation), Reached)
    BY <2>2, AssignSound DEF InvShown
  <2> QED
    BY <1>3, <2>1, <2>3 DEF MakeHelpers, InvShown
<1>4. CASE StartRpcServer
  <2>1. /\ generation \in Activations /\ decompilerService.now = generation
        /\ symbolApplier.now = generation /\ pcodeInjector.now = generation
    BY <1>1, <1>4, ConstantsAssumption DEF StartRpcServer, InvEvent, Holds, Activations
  <2>2. Reached' \subseteq Reached \cup {generation}
    BY <1>4 DEF StartRpcServer, Reached, handling
  <2>3. /\ SoundFor(Started(decompilerService), Reached \cup {generation})
        /\ SoundFor(Started(symbolApplier), Reached \cup {generation})
        /\ SoundFor(Started(pcodeInjector), Reached \cup {generation})
    BY <2>1, FieldsTyped, StartedSound DEF InvShown
  <2>4. /\ SoundFor(Started(decompilerService), Reached')
        /\ SoundFor(Started(symbolApplier), Reached') /\ SoundFor(Started(pcodeInjector), Reached')
    BY <2>2, <2>3, FewerSound
  <2> QED
    BY <1>4, <2>4 DEF StartRpcServer, InvShown
<1>5. CASE ClearFields
  <2>1. Reached' = Reached
    BY <1>5 DEF ClearFields, Reached, handling
  <2>2. /\ SoundFor(Assign(decompilerService, 0), Reached)
        /\ SoundFor(Assign(symbolApplier, 0), Reached) /\ SoundFor(Assign(pcodeInjector, 0), Reached)
    BY AssignSound DEF InvShown
  <2> QED
    BY <1>5, <2>1, <2>2 DEF ClearFields, InvShown
<1>6. ASSUME UNCHANGED fields, \A g \in Reached' : g = 0 \/ g \in Reached PROVE InvShown'
  <2>1. \A g \in Activations \cap Reached' : g \in Reached
    BY <1>6 DEF Activations
  <2>2. ASSUME NEW f, SoundFor(f, Reached) PROVE SoundFor(f, Reached')
    BY <2>1, <2>2 DEF SoundFor
  <2> QED
    BY <1>6, <2>2 DEF InvShown, fields
<1>7. CASE OpenProgram \/ ProgramDeactivated \/ Dispose \/ CloseProgram \/ UNCHANGED vars
  <2>1. UNCHANGED fields /\ listening' \subseteq listening /\ server' = server
    BY <1>7 DEF OpenProgram, ProgramDeactivated, Dispose, CloseProgram, StopRpcServer, vars,
        event_vars, handling
  <2> QED
    BY <1>6, <2>1 DEF Reached
<1>8. ASSUME NEW w \in Workers, Connect(w) \/ Disconnect(w) \/ Request(w) \/ Handle(w)
      PROVE  InvShown'
  <2>1. UNCHANGED fields /\ listening' = listening
    BY <1>8, WorkerFrame DEF event_vars
  <2>2. \A v \in Workers : server'[v] = server[v] \/ server'[v] = 0 \/ server'[v] \in listening
    <3>1. CASE Connect(w)
      BY <3>1 DEF Connect, TypeOK, TypeLocals
    <3>2. CASE Disconnect(w)
      BY <3>2 DEF Disconnect, TypeOK, TypeLocals
    <3>3. CASE server' = server
      BY <3>3
    <3> QED
      BY <1>8, <3>1, <3>2, <3>3, ConnectCases
  <2> QED
    BY <1>6, <2>1, <2>2 DEF Reached
<1> QED
  BY <1>2, <1>3, <1>4, <1>5, <1>7, <1>8 DEF Next, Event

\* Every step keeps InvConnected.
LEMMA ConnectedStep ==
    ASSUME TypeOK, InvEvent, InvConnected, [Next]_vars
    PROVE  InvConnected'
<1>1. CASE Event \/ UNCHANGED vars
  <2>1. server' = server /\ pc' = pc
    BY <1>1, EventFrame DEF vars, handling
  <2> QED
    BY <2>1 DEF InvConnected
<1>2. ASSUME NEW w \in Workers, Connect(w) \/ Disconnect(w) \/ Request(w) \/ Handle(w)
      PROVE  InvConnected'
  <2>1. \A v \in Workers : v # w => pc'[v] = pc[v] /\ server'[v] = server[v]
    BY <1>2, OthersKept
  <2>2. pc'[w] = "none" <=> server'[w] = 0
    <3>1. CASE Connect(w)
      <4>1. PICK g \in listening : server' = [server EXCEPT ![w] = g]
        BY <3>1 DEF Connect
      <4>2. g # 0
        BY Listens
      <4> QED
        BY <3>1, <4>1, <4>2 DEF Connect, TypeOK, TypeLocals
    <3>2. CASE Disconnect(w)
      BY <3>2 DEF Disconnect, TypeOK, TypeLocals
    <3>3. CASE server' = server /\ pc[w] # "none" /\ pc'[w] # "none"
      BY <3>3 DEF InvConnected
    <3> QED
      BY <1>2, <3>1, <3>2, <3>3, ConnectCases
  <2> QED
    BY <2>1, <2>2 DEF InvConnected
<1> QED
  BY <1>1, <1>2 DEF Next

----------------------------------------------------------------------------
(* Theorems *)

\* The invariant holds initially.
LEMMA InitIInv == Init => IInv
<1> SUFFICES ASSUME Init PROVE IInv
  OBVIOUS
<1> USE ConstantsAssumption DEF Init, Null, NoNames, Activations
<1>1. TypeOK
  <2>1. TypeShared
    <3>1. MaxActivations \in Nat /\ MaxWrites \in Nat
      OBVIOUS
    <3>2. names \in [Programs -> [Addrs -> 0..writes]] /\ program \in [Activations -> Programs]
      OBVIOUS
    <3>3. initialized \in [Activations -> BOOLEAN] /\ monitor \in [Activations -> SUBSET Workers]
      OBVIOUS
    <3>4. /\ generation \in 0..MaxActivations /\ rpcServer \in 0..generation
          /\ writes \in 0..MaxWrites
      BY <3>1
    <3>5. \A f \in {decompilerService, symbolApplier, pcodeInjector} :
              f \in [now : 0..generation, shown : [{0} \cup Activations -> SUBSET (0..generation)]]
      OBVIOUS
    <3>6. listening \subseteq 0..generation
      OBVIOUS
    <3>7. event = "idle" /\ disposed = FALSE
      OBVIOUS
    <3> HIDE DEF Init, Activations
    <3> QED
      BY <3>2, <3>3, <3>4, <3>5, <3>6, <3>7 DEF TypeShared
  <2>2. TypeLocals
    BY DEF TypeLocals
  <2> QED
    BY <2>1, <2>2 DEF TypeOK
<1>2. InvEvent
  BY DEF InvEvent, Empty, Holds
<1>3. InvServer /\ InvShown /\ InvConnected /\ InvMonitor /\ NoEarlierProgram
  BY DEF InvServer, InvShown, SoundFor, InvConnected, InvMonitor, NoEarlierProgram
<1>4. InvNames
  BY DEF InvNames
<1> QED
  BY <1>1, <1>2, <1>3, <1>4 DEF IInv

\* IInv is inductive.
THEOREM Invariant == Spec => []IInv
<1>1. ASSUME IInv, [Next]_vars PROVE IInv'
  <2>1. TypeOK'
    BY <1>1, TypeStep DEF IInv
  <2>2. InvEvent' /\ InvServer' /\ InvShown' /\ InvConnected'
    BY <1>1, EventStep, ServerStep, ShownStep, ConnectedStep DEF IInv
  <2>3. InvMonitor'
    BY <1>1, <2>1, MonitorStep DEF IInv
  <2>4. InvNames' /\ NoEarlierProgram'
    BY <1>1, NamesStep, EarlierStep DEF IInv
  <2> QED
    BY <2>1, <2>2, <2>3, <2>4 DEF IInv
<1> QED
  BY <1>1, InitIInv, PTL DEF Spec

\* Types, and objects in hand that are there (VivGhidraBridgePlugin.handle).
THEOREM TypeCorrect == Spec => []TypeOK
<1>1. IInv => TypeOK
  BY DEF IInv
<1> QED
  BY <1>1, Invariant, PTL

\* However programs are opened and closed, a decompilation has its interface
\* open and to itself (DecompilerService.decompile and closeProgram).
THEOREM InterfaceKept == Spec => []InterfaceOpenWhileUsed
<1>1. IInv => InterfaceOpenWhileUsed
  <2> SUFFICES ASSUME IInv, NEW w \in Workers, pc[w] = "decompiling"
               PROVE  /\ initialized[service[w]]
                      /\ \A v \in Workers : pc[v] = "decompiling" /\ service[v] = service[w] => v = w
    BY DEF InterfaceOpenWhileUsed
  <2>1. initialized[service[w]] /\ monitor[service[w]] = {w}
    BY DEF IInv, InvMonitor
  <2>2. ASSUME NEW v \in Workers, pc[v] = "decompiling", service[v] = service[w] PROVE v = w
    BY <2>1, <2>2 DEF IInv, InvMonitor
  <2> QED
    BY <2>1, <2>2
<1> QED
  BY <1>1, Invariant, PTL

\* One program after another leaves one decompiler process at most
\* (programActivated, programDeactivated and dispose).
THEOREM InterfacesClosed == Spec => []NoInterfaceLeaks
<1>1. IInv => NoInterfaceLeaks
  BY DEF IInv, InvEvent, Holds, NoInterfaceLeaks
<1> QED
  BY <1>1, Invariant, PTL

\* The server listens only while the services it uses are there
\* (startRpcServer after openProgram, stopRpcServer before closeProgram).
THEOREM ServedIsOpen == Spec => []ServedProgramIsOpen
<1>1. IInv => ServedProgramIsOpen
  BY DEF IInv, InvEvent, Holds, Empty, ServedProgramIsOpen
<1> QED
  BY <1>1, Invariant, PTL

\* Symbols sent with a decompilation show in its code (handleDecompileFunction).
THEOREM OwnSymbolsShown == Spec => []CodeShowsOwnSymbols
<1>1. IInv => CodeShowsOwnSymbols
  BY DEF IInv, InvNames, CodeShowsOwnSymbols
<1> QED
  BY <1>1, Invariant, PTL

\* The racy fields never give a client the services of a program closed before
\* it connected.
THEOREM NeverEarlier == Spec => []NoEarlierProgram
<1>1. IInv => NoEarlierProgram
  BY DEF IInv
<1> QED
  BY <1>1, Invariant, PTL

----------------------------------------------------------------------------
(* The refinement *)

LEMMA InitPromise == ASSUME Init PROVE Promise!Init
<1>1. Latest = 0
  BY DEF Init, Latest
<1>2. Opened = {}
  BY DEF Init, Opened
<1>3. Using = [w \in Workers |-> 0]
  BY DEF Init, Using
<1> QED
  BY <1>1, <1>2, <1>3 DEF Init, Promise!Init

\* The open interface is that of the last activation.
LEMMA OpenIsLast ==
    ASSUME TypeOK, InvEvent, NEW g \in Opened
    PROVE  g = generation /\ Opened = {generation} /\ decompilerService.now = generation
<1>1. \A h \in Opened : h = generation /\ decompilerService.now = generation
  BY DEF Opened, InvEvent, Holds
<1> QED
  BY <1>1

\* Who decompiles holds the monitor of the open interface.
LEMMA UserHolds ==
    ASSUME TypeOK, InvEvent, InvMonitor, NEW w \in Workers, pc[w] = "decompiling"
    PROVE  /\ service[w] = generation /\ service[w] # 0 /\ Opened = {generation}
           /\ decompilerService.now = generation /\ monitor[generation] = {w}
<1>1. initialized[service[w]] /\ monitor[service[w]] = {w} /\ service[w] # 0
  BY DEF InvMonitor, TypeOK, TypeLocals
<1>2. service[w] \in Opened
  <2>1. service[w] \in 0..generation /\ generation \in 0..MaxActivations
    BY DEF TypeOK, TypeShared, TypeLocals
  <2> QED
    BY <1>1, <2>1, ConstantsAssumption DEF Opened, Activations
<1> QED
  BY <1>1, <1>2, OpenIsLast

\* The event thread opens and closes; else its steps are not seen.
LEMMA EventPromise ==
    ASSUME TypeOK, InvEvent, InvMonitor, Event
    PROVE  Promise!Open \/ Promise!Close \/ UNCHANGED Promise!vars
<1>1. server' = server /\ Using' = Using
  BY EventFrame DEF handling, locals, Using
<1>2. generation \in Nat /\ generation \in 0..MaxActivations /\ initialized \in [Activations -> BOOLEAN]
  BY DEF TypeOK, TypeShared
<1>3. CASE ProgramActivated
  <2>1. Latest' = Latest
    BY <1>2, <1>3 DEF ProgramActivated, Latest
  <2>2. Opened' = Opened
    BY <1>3 DEF ProgramActivated, Opened
  <2> QED
    BY <1>1, <2>1, <2>2 DEF Promise!vars
<1>4. CASE OpenProgram
  <2>1. generation # 0 /\ generation \in Activations
    BY <1>2, <1>4, ConstantsAssumption DEF OpenProgram, InvEvent, Activations
  <2>2. \A g \in Activations : ~initialized[g]
    BY <1>4 DEF OpenProgram, InvEvent
  <2>3. Opened = {} /\ Opened' = {generation}
    <3>1. \A g \in Activations : initialized'[g] <=> g = generation
      BY <1>2, <1>4, <2>2 DEF OpenProgram
    <3> QED
      BY <2>1, <2>2, <3>1 DEF Opened
  <2>4. Latest' = Latest + 1 /\ Latest' = generation
    BY <1>2, <1>4 DEF OpenProgram, Latest
  <2> QED
    BY <1>1, <2>3, <2>4 DEF Promise!Open
<1>5. CASE MakeHelpers \/ StartRpcServer \/ ProgramDeactivated \/ Dispose \/ ClearFields
  <2>1. /\ event # "opening" /\ event' # "opening"
        /\ generation' = generation /\ initialized' = initialized
    BY <1>5 DEF MakeHelpers, StartRpcServer, ProgramDeactivated, Dispose, ClearFields
  <2> QED
    BY <1>1, <2>1 DEF Latest, Opened, Promise!vars
<1>6. CASE CloseProgram
  <2>1. Latest' = Latest
    BY <1>6 DEF CloseProgram, Latest
  <2>2. Opened' = {}
    <3>1. decompilerService.now = generation
      BY <1>6 DEF CloseProgram, InvEvent, Holds
    <3>2. \A g \in Activations : ~initialized'[g]
      BY <1>2, <1>6, <3>1 DEF CloseProgram, InvEvent
    <3> QED
      BY <3>2 DEF Opened
  <2>3. \A w \in Workers : Using[w] = 0
    <3>1. \A w \in Workers : pc[w] # "decompiling"
      BY <1>6, UserHolds DEF CloseProgram
    <3> QED
      BY <3>1 DEF Using
  <2>4. CASE Opened = {}
    BY <1>1, <2>1, <2>2, <2>4 DEF Promise!vars
  <2>5. CASE Opened # {}
    BY <1>1, <2>1, <2>2, <2>3, <2>5 DEF Promise!Close
  <2> QED
    BY <2>4, <2>5
<1> QED
  BY <1>3, <1>4, <1>5, <1>6 DEF Event

\* A client comes, goes, begins or ends a decompilation; else the steps of its
\* worker are not seen.
LEMMA WorkerPromise ==
    ASSUME IInv, NEW w \in Workers, Connect(w) \/ Disconnect(w) \/ Request(w) \/ Handle(w)
    PROVE  \/ Promise!Enter(w) \/ Promise!Leave(w) \/ Promise!Begin(w) \/ Promise!End(w)
           \/ UNCHANGED Promise!vars
<1> USE DEF IInv
<1>1. Latest' = Latest /\ Opened' = Opened
  BY WorkerFrame DEF event_vars, Latest, Opened
<1>2. \A v \in Workers : v # w => Using'[v] = Using[v]
  BY OthersKept DEF Using
<1>3. /\ Using = [v \in Workers |-> Using[v]]
      /\ Using' = [v \in Workers |-> Using'[v]]
  BY DEF Using
<1>4. CASE Connect(w)
  <2>1. PICK g \in listening : server' = [server EXCEPT ![w] = g]
    BY <1>4 DEF Connect
  <2>2. g \in Opened
    BY Listens DEF Opened
  <2>3. server[w] = 0
    BY <1>4 DEF Connect, InvConnected
  <2>4. Using'[w] = Using[w]
    BY <1>4 DEF Connect, Using, TypeOK, TypeLocals
  <2>5. Using' = Using
    BY <1>2, <1>3, <2>4
  <2> QED
    BY <1>1, <2>1, <2>2, <2>3, <2>5 DEF Promise!Enter
<1>5. CASE Disconnect(w)
  <2>1. server[w] # 0
    BY <1>5 DEF Disconnect, InvConnected
  <2>2. Using[w] = 0 /\ Using'[w] = 0
    BY <1>5 DEF Disconnect, Using, TypeOK, TypeLocals
  <2>3. Using' = Using
    BY <1>2, <1>3, <2>2
  <2> QED
    BY <1>1, <1>5, <2>1, <2>2, <2>3 DEF Disconnect, Promise!Leave
<1>6. CASE Decompile(w)
  <2>1. server[w] # 0 /\ server' = server
    BY <1>6 DEF Decompile, InvConnected
  <2>2. service[w] \in Opened /\ server[w] <= service[w]
    <3>1. service[w] # 0 /\ service[w] \in 0..generation /\ generation \in 0..MaxActivations
      BY <1>6 DEF Decompile, TypeOK, TypeShared, TypeLocals
    <3>2. server[w] \in Nat /\ service[w] >= server[w]
      BY <1>6 DEF Decompile, NoEarlierProgram, TypeOK, TypeLocals
    <3> QED
      BY <1>6, <3>1, <3>2, ConstantsAssumption DEF Decompile, Opened, Activations
  <2>3. \A v \in Workers : Using[v] = 0
    <3>1. service[w] = generation /\ monitor[generation] = {}
      BY <1>6, <2>2, OpenIsLast DEF Decompile
    <3>2. \A v \in Workers : pc[v] # "decompiling"
      BY <3>1, UserHolds
    <3> QED
      BY <3>2 DEF Using
  <2>4. Using'[w] = service[w]
    BY <1>6 DEF Decompile, Using, TypeOK, TypeLocals
  <2>5. Using' = [Using EXCEPT ![w] = service[w]]
    BY <1>2, <1>3, <2>4
  <2> QED
    BY <1>1, <2>1, <2>2, <2>3, <2>5 DEF Promise!Begin
<1>7. CASE Decompiled(w)
  <2>1. Using[w] # 0 /\ server' = server
    BY <1>7 DEF Decompiled, Using, TypeOK, TypeLocals
  <2>2. Using'[w] = 0
    BY <1>7 DEF Decompiled, Answer, Using, TypeOK, TypeLocals
  <2>3. Using' = [Using EXCEPT ![w] = 0]
    BY <1>2, <1>3, <2>2
  <2> QED
    BY <1>1, <2>1, <2>3 DEF Promise!End
<1>8. CASE ~(Connect(w) \/ Disconnect(w) \/ Decompile(w) \/ Decompiled(w))
  <2>1. server' = server
    BY <1>8, ConnectCases
  <2>2. /\ pc'[w] = "decompiling" <=> pc[w] = "decompiling"
        /\ pc[w] = "decompiling" => service'[w] = service[w]
    BY <1>8, MonitorCases
  <2>3. Using'[w] = Using[w]
    BY <2>2 DEF Using
  <2>4. Using' = Using
    BY <1>2, <1>3, <2>3
  <2> QED
    BY <1>1, <2>1, <2>4 DEF Promise!vars
<1> QED
  BY <1>4, <1>5, <1>6, <1>7, <1>8

LEMMA StepPromise == ASSUME IInv, [Next]_vars PROVE [Promise!Next]_(Promise!vars)
<1>1. CASE UNCHANGED vars
  <2>1. Latest' = Latest /\ Opened' = Opened /\ Using' = Using /\ server' = server
    BY <1>1 DEF vars, event_vars, handling, locals, Latest, Opened, Using
  <2> QED
    BY <2>1 DEF Promise!vars
<1>2. CASE Event
  BY <1>2, EventPromise DEF IInv, Promise!Next
<1>3. ASSUME NEW w \in Workers, Connect(w) \/ Disconnect(w) \/ Request(w) \/ Handle(w)
      PROVE  [Promise!Next]_(Promise!vars)
  BY <1>3, WorkerPromise DEF Promise!Next
<1> QED
  BY <1>1, <1>2, <1>3 DEF Next

\* The plugin implements ServiceSpec: however many workers race with however
\* many programs, each step is one of its steps or is not seen.
THEOREM Implements == Spec => ImplementsServiceSpec
  BY InitPromise, StepPromise, Invariant, PTL DEF Spec, ImplementsServiceSpec, Promise!Spec

----------------------------------------------------------------------------
(* What liveness needs *)

\* Whoever holds a monitor is inside decompile.
LEMMA Holder ==
    ASSUME TypeOK, InvMonitor, NEW g \in Activations, monitor[g] # {}
    PROVE  \E v \in Workers : pc[v] = "decompiling" /\ monitor[g] = {v}
<1>1. PICK v \in monitor[g] : TRUE
  OBVIOUS
<1>2. v \in Workers
  BY <1>1 DEF TypeOK, TypeShared
<1>3. pc[v] = "decompiling" /\ service[v] = g
  BY <1>1 DEF InvMonitor
<1>4. monitor[g] = {v}
  BY <1>2, <1>3 DEF InvMonitor
<1> QED
  BY <1>2, <1>3, <1>4

\* Clients and Ghidra's event thread do not wait for each other in a circle
\* (the synchronized methods of DecompilerService).
THEOREM NoDeadlock == Spec => []WaitsForDecompilation
<1>1. IInv => WaitsForDecompilation
  <2> SUFFICES ASSUME IInv PROVE WaitsForDecompilation
    OBVIOUS
  <2>1. generation \in 0..MaxActivations /\ MaxActivations \in Nat
    BY ConstantsAssumption DEF IInv, TypeOK, TypeShared
  <2>2. ASSUME NEW w \in Workers, pc[w] = "entering", monitor[service[w]] # {}
        PROVE  \E v \in Workers \ {w} : pc[v] = "decompiling" /\ monitor[service[w]] = {v}
    <3>1. service[w] \in Activations
      BY <2>1, <2>2 DEF IInv, TypeOK, TypeLocals, Activations
    <3>2. PICK v \in Workers : pc[v] = "decompiling" /\ monitor[service[w]] = {v}
      BY <2>2, <3>1, Holder DEF IInv
    <3> QED
      BY <2>2, <3>2
  <2>3. ASSUME event \in {"opening", "closing"}, monitor[decompilerService.now] # {}
        PROVE  \E v \in Workers : pc[v] = "decompiling" /\ monitor[decompilerService.now] = {v}
    <3>1. generation # 0 /\ decompilerService.now = generation
      BY <2>3 DEF IInv, InvEvent, Holds
    <3>2. decompilerService.now \in Activations
      BY <2>1, <3>1 DEF Activations
    <3> QED
      BY <2>3, <3>2, Holder DEF IInv
  <2> QED
    BY <2>2, <2>3 DEF WaitsForDecompilation
<1> QED
  BY <1>1, Invariant, PTL

\* Each step of handle() is one towards the answer.
LEMMA HandleForward ==
    ASSUME TypeOK, NEW w \in Workers, Handle(w)
    PROVE  \/ Stage[pc'[w]] > Stage[pc[w]]
           \/ pc'[w] = pc[w] /\ left'[w] \subseteq left[w] /\ left'[w] # left[w]
<1>1. ASSUME Answer(w), pc[w] \in {"symbols", "applying", "pcode", "service", "entering", "decompiling"}
      PROVE  Stage[pc'[w]] > Stage[pc[w]]
  <2>1. pc'[w] = "reading"
    BY <1>1 DEF Answer, TypeOK, TypeLocals
  <2> QED
    BY <1>1, <2>1 DEF Stage
<1>2. ASSUME GoOn(w), pc[w] \in {"symbols", "applying"} PROVE Stage[pc'[w]] > Stage[pc[w]]
  <2>1. pc'[w] = "pcode" \/ pc'[w] = "service"
    BY <1>2 DEF GoOn, TypeOK, TypeLocals
  <2> QED
    BY <1>2, <2>1 DEF Stage
<1>3. ASSUME NEW old, NEW new, pc[w] = old, pc' = [pc EXCEPT ![w] = new], Stage[new] > Stage[old]
      PROVE  Stage[pc'[w]] > Stage[pc[w]]
  BY <1>3 DEF TypeOK, TypeLocals
<1>4. /\ Stage["applying"] > Stage["symbols"] /\ Stage["service"] > Stage["pcode"]
      /\ Stage["entering"] > Stage["service"] /\ Stage["decompiling"] > Stage["entering"]
  BY DEF Stage
<1>5. CASE TakeApplier(w)
  <2>1. pc[w] = "symbols" /\ (Answer(w) \/ GoOn(w) \/ pc' = [pc EXCEPT ![w] = "applying"])
    BY <1>5 DEF TakeApplier
  <2> QED
    BY <1>1, <1>2, <1>3, <1>4, <2>1
<1>6. CASE SymbolsApplied(w)
  <2>1. pc[w] = "applying" /\ (Answer(w) \/ GoOn(w))
    BY <1>6 DEF SymbolsApplied
  <2> QED
    BY <1>1, <1>2, <2>1
<1>7. CASE InjectPcode(w)
  <2>1. pc[w] = "pcode" /\ (Answer(w) \/ pc' = [pc EXCEPT ![w] = "service"])
    BY <1>7 DEF InjectPcode
  <2> QED
    BY <1>1, <1>3, <1>4, <2>1
<1>8. CASE TakeService(w)
  <2>1. pc[w] = "service" /\ (Answer(w) \/ pc' = [pc EXCEPT ![w] = "entering"])
    BY <1>8 DEF TakeService
  <2> QED
    BY <1>1, <1>3, <1>4, <2>1
<1>9. CASE Decompile(w)
  <2>1. pc[w] = "entering" /\ pc' = [pc EXCEPT ![w] = "decompiling"]
    BY <1>9 DEF Decompile
  <2> QED
    BY <1>3, <1>4, <2>1
<1>10. CASE NotInitialized(w) \/ Decompiled(w)
  <2>1. pc[w] \in {"entering", "decompiling"} /\ Answer(w)
    BY <1>10 DEF NotInitialized, Decompiled
  <2> QED
    BY <1>1, <2>1
<1>11. CASE ApplyOneSymbol(w) \/ ReadName(w)
  <2>1. pc' = pc /\ \E a \in left[w] : left' = [left EXCEPT ![w] = @ \ {a}]
    BY <1>11 DEF ApplyOneSymbol, ReadName
  <2>2. PICK a \in left[w] : left'[w] = left[w] \ {a}
    BY <2>1 DEF TypeOK, TypeLocals
  <2> QED
    BY <2>1, <2>2
<1> QED
  BY <1>5, <1>6, <1>7, <1>8, <1>9, <1>10, <1>11 DEF Handle

\* A request takes no more steps than handle() has statements and addresses.
THEOREM HandleEnds == Spec => HandleGoesForward
<1>1. ASSUME IInv, [Next]_vars, NEW w \in Workers, pc[w] \notin {"none", "reading"}, ~Handle(w)
      PROVE  pc'[w] = pc[w] /\ left'[w] = left[w]
  <2>1. CASE Event \/ UNCHANGED vars
    BY <2>1, EventFrame DEF vars, handling, locals
  <2>2. ASSUME NEW v \in Workers, Connect(v) \/ Disconnect(v) \/ Request(v) \/ Handle(v)
        PROVE  pc'[w] = pc[w] /\ left'[w] = left[w]
    <3>1. v # w
      BY <1>1, <2>2 DEF Connect, Disconnect, Request
    <3> QED
      BY <1>1, <2>2, <3>1, OthersKept DEF IInv
  <2> QED
    BY <1>1, <2>1, <2>2 DEF Next
<1>2. IInv /\ [Next]_vars =>
        [\A w \in Workers : pc[w] \notin {"none", "reading"} =>
            IF Handle(w)
            THEN \/ Stage[pc'[w]] > Stage[pc[w]]
                 \/ pc'[w] = pc[w] /\ left'[w] \subseteq left[w] /\ left'[w] # left[w]
            ELSE pc'[w] = pc[w] /\ left'[w] = left[w]]_vars
  BY <1>1, HandleForward DEF IInv
<1> QED
  BY <1>2, Invariant, PTL DEF Spec, HandleGoesForward
============================================================================
