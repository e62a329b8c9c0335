---------------------------- MODULE BridgeSession ----------------------------
(***************************************************************************)
(* A Vivisect session with the bridge: the handlers of extension.py and    *)
(* the window of decompiler_widget.py, which run one after another on the  *)
(* GUI thread, against the program that Ghidra has open.  Each handler is  *)
(* one step up to its first call to the server and one step more for each  *)
(* call.                                                                   *)
(*                                                                         *)
(* A call ends as RpcSpec allows: with the first reply that has not been   *)
(* read yet, or with an exception that may leave replies to come.  The     *)
(* server serves the requests of a connection in order, and only they      *)
(* change its program here, so that serving one when it is made loses      *)
(* nothing that a client sees.                                             *)
(***************************************************************************)
EXTENDS Integers, Sequences, FiniteSets

CONSTANTS
    Funcs,     \* addresses of the functions in Vivisect
    Shift,     \* how far Ghidra's image base is from Vivisect's
    Names,     \* names of functions
    Base,      \* a name without the prefixes Vivisect adds
    Script,    \* the server is StartBridgeServer, not VivGhidraBridgePlugin
    MaxLate,   \* bound on the replies that come late
    MaxNotes   \* bound on the addresses commented on

ASSUME ConstantsAssumption ==
    /\ Funcs \subseteq Nat \ {0} /\ Shift \in Int
    /\ \A f \in Funcs : f + Shift > 0
    /\ Base \in [Names -> Names]
    /\ Script \in BOOLEAN /\ MaxLate \in Nat /\ MaxNotes \in Nat

VARIABLES
    link,       \* "up", "dead": every call fails, "down": not connected
    late,       \* replies that no call has read yet
    cache,      \* _addr_map_cache["offset"]: {} or {offset}
    step,       \* the call the GUI thread is in, or "idle"
    target,     \* the address it is about
    new_name,   \* the name the user gave
    viv, ghidra,             \* the names of the functions in the two databases
    functionList,            \* the names of StartBridgeServer.functionList
    viv_notes, ghidra_notes, \* the addresses with a comment
    func_addr, func_name,    \* DecompilerWidget: the function in the header
    shown,      \* the text on display: code, an error, or nothing yet
    failed,     \* history: something has failed so far
    known,      \* history: the names told at first where every function is
    edited      \* history: the functions renamed, and not edited otherwise

server == <<ghidra, ghidra_notes, functionList>>
window == <<func_addr, func_name, shown>>
doing == <<step, target, new_name>>
vars == <<link, late, cache, doing, viv, viv_notes, server, window, failed, known, edited>>

GhidraFuncs == {f + Shift : f \in Funcs}

Code(a, n) == [kind |-> "code", of |-> a, name |-> n]
List(names) == [kind |-> "list", names |-> names]
Ok == [kind |-> "ok"]
Refused == [kind |-> "refused"]   \* success: false
Unknown == [kind |-> "unknown"]   \* an error reply: Unknown method
Exception == [kind |-> "exception"]
Nothing == [kind |-> "nothing"]
Error == [kind |-> "error"]
NoCode == [kind |-> "no code"]
NoName == ""

\* Names tell where functions are: some function has the same name in both
\* databases, and functions that have are the same.
TellsShift(v, g) ==
    /\ \E f \in Funcs : Base[v[f]] = g[f + Shift]
    /\ \A f \in Funcs, a \in GhidraFuncs : Base[v[f]] = g[a] => a = f + Shift

Init ==
    /\ link \in {"up", "down"} /\ late = <<>> /\ cache = {}
    /\ step = "idle" /\ target = 0
    /\ viv \in [Funcs -> Names] /\ ghidra \in [GhidraFuncs -> Names]
    /\ new_name = NoName
    /\ functionList = ghidra
    /\ viv_notes = {} /\ ghidra_notes = {}
    /\ func_addr = 0 /\ func_name = NoName /\ shown = Nothing
    /\ failed = FALSE /\ known = TellsShift(viv, ghidra) /\ edited = {}

----------------------------------------------------------------------------
(* The server: what it may answer to a request, and its program after that *)
(* (Bug_: wrong variants of the definition that follows, which some         *)
(* property must notice.)                                                   *)

Served(r, names, notes) == [reply |-> r, names |-> names, notes |-> notes]
Unserved(r) == Served(r, ghidra, ghidra_notes)

\* The plugin may have no program loaded.
GetFunctionList ==
    IF Script THEN {Unserved(List(functionList))}
    ELSE {Unserved(List(ghidra)), Unserved(Refused)}

\* getFunctionAt, or else getFunctionContaining.
FunctionsAt(a) ==
    IF a \in GhidraFuncs THEN {a} ELSE {b \in GhidraFuncs : b < a}

DecompileFunction(a) ==
    {Unserved(Refused)} \cup {Unserved(Code(b, ghidra[b])) : b \in FunctionsAt(a)}

\* setComment is best effort too, and always told to have worked.
Bug_SetComment(a) ==
    IF ~Script THEN {Unserved(Unknown)}
    ELSE {Unserved(Ok), Served(Ok, ghidra, ghidra_notes \cup {a})}

SetComment(a) ==
    IF ~Script THEN {Unserved(Unknown)}
    ELSE {Unserved(Refused), Served(Ok, ghidra, ghidra_notes \cup {a})}

\* setName is best effort, as it is in setSignature.
Bug_RenameSymbol(a, n) ==
    IF ~Script THEN {Unserved(Unknown)}
    ELSE {Unserved(Refused), Unserved(Ok)} \cup
         {Served(Ok, [ghidra EXCEPT ![b] = n], ghidra_notes) : b \in GhidraFuncs \cap {a}}

RenameSymbol(a, n) ==
    IF ~Script THEN {Unserved(Unknown)}
    ELSE {Unserved(Refused)} \cup
         {Served(Ok, [ghidra EXCEPT ![b] = n], ghidra_notes) : b \in GhidraFuncs \cap {a}}

\* setName is best effort; what comes after it may fail.
SetSignature(a, n) ==
    IF ~Script THEN {Unserved(Unknown)}
    ELSE {Unserved(Refused)} \cup
         UNION {{Unserved(Ok)} \cup {Served(r, [ghidra EXCEPT ![b] = n], ghidra_notes) :
                                       r \in {Ok, Refused}} :
                    b \in FunctionsAt(a)}

----------------------------------------------------------------------------
(* A call *)

Drop(s, k) == SubSeq(s, k + 1, Len(s))

\* The call raises: some replies are left to come, or the connection is lost,
\* which _connected shows or not.
Raises(replies) ==
    /\ failed' = TRUE
    /\ \/ /\ link = "up" /\ link' = "up"
          /\ \E k \in 0..Len(replies) : late' = Drop(replies, k) /\ Len(replies) - k <= MaxLate
       \/ /\ link' \in (IF link = "down" THEN {"down"} ELSE {"dead", "down"})
          /\ late' = <<>>

\* The call returns the first line there is; lines in the same chunk are lost.
Returns(replies, r) ==
    /\ r = Head(replies)
    /\ \E k \in 1..Len(replies) : late' = Drop(replies, k)
    /\ link' = link
    /\ failed' = (failed \/ r \in {Refused, Unknown})

\* A call to which the server has these answers ends with r.
Call(answers, r) ==
    /\ \/ \E s \in answers :
            /\ link = "up"
            /\ ghidra' = s.names /\ ghidra_notes' = s.notes
            /\ \/ Returns(Append(late, s.reply), r)
               \/ Raises(Append(late, s.reply)) /\ r = Exception
       \/ Raises(late) /\ r = Exception /\ UNCHANGED <<ghidra, ghidra_notes>>
    /\ UNCHANGED <<functionList, known>>

\* What a call may end with.
Results(answers) == {Exception} \cup {s.reply : s \in answers} \cup {late[i] : i \in DOMAIN late}

----------------------------------------------------------------------------
(* _decompile_function *)

set_error == shown' = Error /\ UNCHANGED <<func_addr, func_name>>

\* _decompile_function(va) up to its first call.
Begin(va) ==
    IF link' = "down"
    THEN step' = "idle" /\ target' = 0 /\ set_error
    ELSE /\ step' = IF cache = {} THEN "list" ELSE "decompile"
         /\ target' = va
         /\ UNCHANGED window

\* The menus and the hotkey; Refresh for the function in the header.
Decompile ==
    /\ step = "idle"
    /\ link' = link
    /\ \E va \in Funcs : Begin(va)
    /\ UNCHANGED <<late, cache, new_name, viv, viv_notes, server, failed, known, edited>>

\* No offset is cached for lack of a connection.
Bug_FirstList ==
    /\ step = "list"
    /\ \E r \in Results(GetFunctionList) : Call(GetFunctionList, r)
    /\ step' = IF link' = "down" THEN "decompile" ELSE "match"
    /\ UNCHANGED <<cache, target, new_name, viv, viv_notes, window, edited>>

\* The first get_function_list of _map_viv_to_ghidra_address, whose answer is
\* not used; without a connection then, there is no second one.
FirstList ==
    /\ step = "list"
    /\ \E r \in Results(GetFunctionList) : Call(GetFunctionList, r)
    /\ step' = IF link' = "down" THEN "decompile" ELSE "match"
    /\ cache' = IF link' = "down" THEN {0} ELSE {}
    /\ UNCHANGED <<target, new_name, viv, viv_notes, window, edited>>

\* Vivisect's prefixes are not removed.
Bug_Offsets(names) ==
    LET both == {a \in GhidraFuncs : \E f \in Funcs : viv[f] = names[a]} IN
    IF both = {} THEN {0}
    ELSE {p[1] - p[2] : p \in {q \in both \X Funcs :
              viv[q[2]] = names[q[1]] /\ \A a \in both : q[1] <= a}}

\* The offset from the first function in Ghidra's list whose name is one of
\* Vivisect's, to the one of them that Vivisect lists last; 0 if there is none.
Offsets(names) ==
    LET both == {a \in GhidraFuncs : \E f \in Funcs : Base[viv[f]] = names[a]} IN
    IF both = {} THEN {0}
    ELSE {p[1] - p[2] : p \in {q \in both \X Funcs :
              Base[viv[q[2]]] = names[q[1]] /\ \A a \in both : q[1] <= a}}

\* The second get_function_list, and the offset that follows from its answer.
\* No answer, or another call's, makes it 0.
Match ==
    /\ step = "match"
    /\ \E r \in Results(GetFunctionList) :
        /\ Call(GetFunctionList, r)
        /\ \E o \in IF r.kind = "list" THEN Offsets(r.names) ELSE {0} : cache' = {o}
    /\ step' = "decompile"
    /\ UNCHANGED <<target, new_name, viv, viv_notes, window, edited>>

\* set_code keeps the address that it has.
Bug_Show ==
    /\ step = "decompile"
    /\ \E o \in cache : \E r \in Results(DecompileFunction(target + o)) :
        /\ Call(DecompileFunction(target + o), r)
        /\ IF r \in {Refused, Unknown, Exception} \/ (~Script /\ r.kind = "code")
           THEN set_error
           ELSE /\ func_addr' = (IF func_addr = 0 THEN target ELSE func_addr)
                /\ func_name' = viv[target]
                /\ shown' = IF r.kind = "code" THEN r ELSE NoCode
    /\ step' = "idle" /\ target' = 0
    /\ UNCHANGED <<cache, new_name, viv, viv_notes, edited>>

\* Both servers send a high_pcode that the client cannot read.
Bug_ShowHighPcode ==
    /\ step = "decompile"
    /\ \E o \in cache : \E r \in Results(DecompileFunction(target + o)) :
        /\ Call(DecompileFunction(target + o), r)
        /\ IF r \in {Refused, Unknown, Exception} \/ r.kind = "code"
           THEN set_error
           ELSE func_addr' = target /\ func_name' = viv[target] /\ shown' = NoCode
    /\ step' = "idle" /\ target' = 0
    /\ UNCHANGED <<cache, new_name, viv, viv_notes, edited>>

\* decompile_function, and the window.  DecompileResult.from_dict cannot read the
\* high_pcode that the plugin sends, and takes any other answer for success.
Show ==
    /\ step = "decompile"
    /\ \E o \in cache : \E r \in Results(DecompileFunction(target + o)) :
        /\ Call(DecompileFunction(target + o), r)
        /\ IF r \in {Refused, Unknown, Exception} \/ (~Script /\ r.kind = "code")
           THEN set_error
           ELSE /\ func_addr' = target /\ func_name' = viv[target]
                /\ shown' = IF r.kind = "code" THEN r ELSE NoCode
    /\ step' = "idle" /\ target' = 0
    /\ UNCHANGED <<cache, new_name, viv, viv_notes, edited>>

----------------------------------------------------------------------------
(* The context menu of the window *)

\* Either way Vivisect goes first; its refusal is only logged.
VivRefuses == failed' = TRUE /\ UNCHANGED <<viv, viv_notes>>

\* _add_comment: at the address in the code under the cursor, or at the function
\* in the header.
AddComment ==
    /\ step = "idle"
    /\ \E va \in ({func_addr} \ {0}) \cup (IF shown.kind = "code" THEN {shown.of} ELSE {}) :
        /\ Cardinality(viv_notes \cup ghidra_notes \cup {va}) <= MaxNotes
        /\ \/ viv_notes' = viv_notes \cup {va} /\ UNCHANGED <<viv, failed>>
           \/ VivRefuses
        /\ IF link = "down" THEN UNCHANGED <<step, target>>
           ELSE step' = "comment" /\ target' = va
    /\ UNCHANGED <<link, late, cache, new_name, server, window, known, edited>>

SyncComment ==
    /\ step = "comment"
    /\ \E r \in Results(SetComment(target)) : Call(SetComment(target), r)
    /\ step' = "idle" /\ target' = 0
    /\ UNCHANGED <<cache, new_name, viv, viv_notes, window, edited>>

\* _rename_function; the name in the header is no new name.
Rename ==
    /\ step = "idle" /\ func_addr # 0
    /\ \E n \in Names \ {func_name} :
        /\ new_name' = IF link = "down" THEN NoName ELSE n
        /\ \/ viv' = [viv EXCEPT ![func_addr] = n] /\ UNCHANGED <<viv_notes, failed>>
           \/ VivRefuses
    /\ edited' = edited \cup {func_addr}
    /\ link' = link
    /\ IF link = "down" THEN Begin(func_addr)
       ELSE step' = "rename" /\ target' = func_addr /\ UNCHANGED window
    /\ UNCHANGED <<late, cache, server, known>>

\* The function is not decompiled again.
Bug_SyncRename ==
    /\ step = "rename"
    /\ \E r \in Results(RenameSymbol(target, new_name)) : Call(RenameSymbol(target, new_name), r)
    /\ new_name' = NoName
    /\ step' = "idle" /\ target' = 0
    /\ UNCHANGED <<cache, viv, viv_notes, window, edited>>

\* rename_symbol, and _decompile_function.
SyncRename ==
    /\ step = "rename"
    /\ \E r \in Results(RenameSymbol(target, new_name)) : Call(RenameSymbol(target, new_name), r)
    /\ new_name' = NoName
    /\ Begin(target)
    /\ UNCHANGED <<cache, viv, viv_notes, edited>>

\* _edit_signature, of which the name is what the models know.
EditSignature ==
    /\ step = "idle" /\ func_addr # 0
    /\ \E n \in Names : new_name' = IF link = "down" THEN NoName ELSE n
    /\ edited' = edited \ {func_addr}
    /\ link' = link
    /\ IF link = "down" THEN Begin(func_addr)
       ELSE step' = "signature" /\ target' = func_addr /\ UNCHANGED window
    /\ UNCHANGED <<late, cache, viv, viv_notes, server, failed, known>>

\* The function is not decompiled again.
Bug_SyncSignature ==
    /\ step = "signature"
    /\ \E r \in Results(SetSignature(target, new_name)) : Call(SetSignature(target, new_name), r)
    /\ new_name' = NoName
    /\ step' = "idle" /\ target' = 0
    /\ UNCHANGED <<cache, viv, viv_notes, window, edited>>

\* set_signature, and _decompile_function.
SyncSignature ==
    /\ step = "signature"
    /\ \E r \in Results(SetSignature(target, new_name)) : Call(SetSignature(target, new_name), r)
    /\ new_name' = NoName
    /\ Begin(target)
    /\ UNCHANGED <<cache, viv, viv_notes, edited>>

----------------------------------------------------------------------------

Waits == FirstList \/ Match \/ Show \/ SyncComment \/ SyncRename \/ SyncSignature

Next == Decompile \/ AddComment \/ Rename \/ EditSignature \/ Waits

Spec == Init /\ [][Next]_vars

----------------------------------------------------------------------------
(* Properties *)

Replies ==
    {Ok, Refused, Unknown} \cup [kind : {"code"}, of : GhidraFuncs, name : Names]
    \cup [kind : {"list"}, names : [GhidraFuncs -> Names]]

\* Every variable has its type, a call in progress has its address, and whoever
\* asks for a decompilation has an offset.
TypeOK ==
    /\ link \in {"up", "dead", "down"} /\ late \in Seq(Replies)
    /\ cache \subseteq Int /\ (step = "decompile" => cache # {})
    /\ step \in {"idle", "list", "match", "decompile", "comment", "rename", "signature"}
    /\ target \in Int
    /\ step \in {"list", "match", "decompile", "rename", "signature"} => target \in Funcs
    /\ new_name \in Names \cup {NoName}
    /\ step \in {"rename", "signature"} => new_name \in Names
    /\ viv \in [Funcs -> Names]
    /\ ghidra \in [GhidraFuncs -> Names] /\ functionList \in [GhidraFuncs -> Names]
    /\ viv_notes \subseteq Int /\ ghidra_notes \subseteq Int
    /\ func_addr \in Funcs \cup {0} /\ func_name \in Names \cup {NoName}
    /\ shown \in {Nothing, Error, NoCode} \cup [kind : {"code"}, of : GhidraFuncs, name : Names]
    /\ failed \in BOOLEAN /\ known \in BOOLEAN
    /\ edited \subseteq Funcs

\* When names tell how far the image bases are apart, the offset that is cached
\* for the whole session is right, as long as nothing fails
\* (_map_viv_to_ghidra_address).
OffsetIsShift == known /\ ~failed => cache \subseteq {Shift}

\* The code in the window is that of the function in its header, the one that
\* the menu acts on, as long as nothing fails.
WindowShowsItsFunction ==
    known /\ ~failed /\ shown.kind = "code" => func_addr # 0 /\ shown.of = func_addr + Shift

\* The header shows the name that Vivisect has, after every handler that did
\* not fail, renaming included: the name it compares a new one with is the
\* function's.
HeaderShowsName ==
    ~failed /\ step = "idle" /\ func_addr # 0 => func_name = viv[func_addr]

\* The code in the window is what Ghidra would say now: whoever changes its
\* program decompiles again (_rename_function, _edit_signature).
CodeIsCurrent ==
    ~failed /\ step = "idle" /\ shown.kind = "code" => shown.name = ghidra[shown.of]

\* A rename that failed nowhere is made in both databases and at the same
\* function (_rename_function).
RenamesReachBoth ==
    ~failed /\ step = "idle" => \A f \in edited : ghidra[f + Shift] = viv[f]

\* So is a comment (_add_comment).
CommentsReachBoth ==
    ~failed /\ step = "idle" => ghidra_notes = {a + Shift : a \in viv_notes}

\* An error is displayed only if something failed: the window and the server
\* agree on what an answer looks like.
ErrorsAreFailures == shown = Error => failed \/ link = "down"

\* The calls that a handler still has to make at most, the one it is in included.
CallsLeft == [idle |-> 0, comment |-> 1, decompile |-> 1, match |-> 2, list |-> 3,
              rename |-> 4, signature |-> 4]

\* The GUI thread, which every call blocks until it answers or times out, is out
\* of a handler after four calls, whatever they end with: with each there is one
\* less to come, and no other handler begins before the last (_rename_function,
\* _edit_signature, _add_comment, _decompile_function).
HandlersEnd == [][step # "idle" => Waits /\ CallsLeft[step'] < CallsLeft[step]]_vars
=============================================================================
