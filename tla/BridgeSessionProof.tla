------------------------- MODULE BridgeSessionProof -------------------------
(***************************************************************************)
(* What BridgeSession promises as long as nothing fails, for all functions,*)
(* names and image bases.  The argument is that late replies and lost      *)
(* connections are failures: without one, a call ends with the answer to   *)
(* its own request (CallFacts), so that each handler knows what it did.    *)
(***************************************************************************)
EXTENDS BridgeSession, TLAPS

Answers == [reply : Replies, names : [GhidraFuncs -> Names], notes : SUBSET Int]

Quiet == ~failed => late = <<>> /\ link # "dead"

\* The names that the offset is computed from are those of the start.
Fresh ==
    /\ step \in {"list", "match"} => cache = {}
    /\ cache = {} =>
        /\ func_addr = 0 /\ shown.kind # "code"
        /\ step \in {"idle", "list", "match"}
        /\ known /\ ~failed => TellsShift(viv, functionList) /\ TellsShift(viv, ghidra)

Connected == ~failed /\ (link = "down" \/ ~Script) => func_addr = 0

CodeHasFunction == ~failed /\ shown.kind = "code" => func_addr # 0

Decompiling == {"list", "match", "decompile"}

\* The properties, and what they are while a handler runs.
HeaderInv ==
    ~failed /\ func_addr # 0 =>
        \/ func_name = viv[func_addr]
        \/ step \in {"rename"} \cup Decompiling /\ target = func_addr

CodeInv ==
    ~failed /\ shown.kind = "code" =>
        shown.name = ghidra[shown.of] \/ step \in Decompiling

RenamesInv ==
    ~failed /\ Shift = 0 =>
        /\ \A f \in edited : ghidra[f] = viv[f] \/ (step = "rename" /\ f = target)
        /\ step = "rename" => viv[target] = new_name
        /\ step = "signature" => target \notin edited

CommentsInv ==
    ~failed /\ Shift = 0 =>
        viv_notes = ghidra_notes \cup (IF step = "comment" THEN {target} ELSE {})

IInv ==
    /\ TypeOK /\ Quiet /\ Fresh /\ Connected /\ CodeHasFunction
    /\ OffsetIsShift /\ WindowShowsItsFunction
    /\ (Script => ErrorsAreFailures)
    /\ HeaderInv /\ CodeInv /\ RenamesInv /\ CommentsInv

----------------------------------------------------------------------------
(* The server's answers *)

\* Addresses are numbers.
LEMMA GhidraFuncsType == GhidraFuncs \subseteq Int /\ Funcs \subseteq Int
BY ConstantsAssumption DEF GhidraFuncs

\* At the same image base, functions have the same addresses.
LEMMA GhidraAtZero == Shift = 0 => GhidraFuncs = Funcs
<1>1. Shift = 0 => \A f \in Funcs : f + Shift = f
  BY ConstantsAssumption
<1> QED BY <1>1 DEF GhidraFuncs

\* A function found is one of Ghidra's.
LEMMA FunctionsAtType ==
    ASSUME NEW a PROVE FunctionsAt(a) \subseteq GhidraFuncs
BY DEF FunctionsAt

\* get_function_list answers with a reply and leaves a program.
LEMMA ListType == TypeOK => GetFunctionList \subseteq Answers
BY DEF TypeOK, GetFunctionList, Answers, Unserved, Served, List, Replies

\* decompile_function answers with a reply and leaves a program.
LEMMA DecompileType ==
    ASSUME TypeOK, NEW a \in Int PROVE DecompileFunction(a) \subseteq Answers
<1>1. \A b \in GhidraFuncs : Code(b, ghidra[b]) \in Replies
  BY DEF TypeOK, Replies, Code
<1>2. \A r \in Replies : Unserved(r) \in Answers
  BY DEF TypeOK, Unserved, Served, Answers
<1> QED BY <1>1, <1>2, FunctionsAtType DEF DecompileFunction, Replies

\* set_comment answers with a reply and leaves a program.
LEMMA CommentType ==
    ASSUME TypeOK, NEW a \in Int PROVE SetComment(a) \subseteq Answers
<1>1. ghidra \in [GhidraFuncs -> Names] /\ ghidra_notes \in SUBSET Int
  BY DEF TypeOK
<1>2. ghidra_notes \cup {a} \in SUBSET Int
  BY <1>1
<1> QED BY <1>1, <1>2 DEF SetComment, Answers, Unserved, Served, Replies

\* A method that may rename a function.
LEMMA NamedType ==
    ASSUME TypeOK, NEW n \in Names, NEW s,
           \/ s \in {Unserved(Unknown), Unserved(Refused), Unserved(Ok)}
           \/ \E b \in GhidraFuncs, r \in {Ok, Refused} : s = Served(r, [ghidra EXCEPT ![b] = n], ghidra_notes)
    PROVE  s \in Answers
<1>1. ghidra \in [GhidraFuncs -> Names] /\ ghidra_notes \in SUBSET Int
  BY DEF TypeOK
<1>2. Ok \in Replies /\ Refused \in Replies /\ Unknown \in Replies
  BY DEF Replies
<1>3. \A r \in Replies, g \in [GhidraFuncs -> Names] : Served(r, g, ghidra_notes) \in Answers
  BY <1>1 DEF Served, Answers
<1>4. CASE s \in {Unserved(Unknown), Unserved(Refused), Unserved(Ok)}
  BY <1>1, <1>2, <1>3, <1>4 DEF Unserved
<1>5. CASE \E b \in GhidraFuncs, r \in {Ok, Refused} : s = Served(r, [ghidra EXCEPT ![b] = n], ghidra_notes)
  <2>1. PICK b \in GhidraFuncs, r \in {Ok, Refused} : s = Served(r, [ghidra EXCEPT ![b] = n], ghidra_notes)
    BY <1>5
  <2> DEFINE g == [ghidra EXCEPT ![b] = n]
  <2>2. g \in [GhidraFuncs -> Names]
    BY <1>1
  <2>3. s = Served(r, g, ghidra_notes)
    BY <2>1
  <2> HIDE DEF g
  <2> QED BY <2>2, <2>3, <1>2, <1>3
<1> QED BY <1>4, <1>5

\* rename_symbol answers with a reply and leaves a program.
LEMMA RenameType ==
    ASSUME TypeOK, NEW a \in Int, NEW n \in Names PROVE RenameSymbol(a, n) \subseteq Answers
<1> SUFFICES ASSUME NEW s \in RenameSymbol(a, n) PROVE s \in Answers
  OBVIOUS
<1>1. \/ s \in {Unserved(Unknown), Unserved(Refused)}
      \/ \E b \in GhidraFuncs : s = Served(Ok, [ghidra EXCEPT ![b] = n], ghidra_notes)
  BY DEF RenameSymbol
<1> QED BY <1>1, NamedType

\* set_signature answers with a reply and leaves a program.
LEMMA SignatureType ==
    ASSUME TypeOK, NEW a \in Int, NEW n \in Names PROVE SetSignature(a, n) \subseteq Answers
<1> SUFFICES ASSUME NEW s \in SetSignature(a, n) PROVE s \in Answers
  OBVIOUS
<1>1. \/ s \in {Unserved(Unknown), Unserved(Refused), Unserved(Ok)}
      \/ \E b \in GhidraFuncs, r \in {Ok, Refused} : s = Served(r, [ghidra EXCEPT ![b] = n], ghidra_notes)
  BY FunctionsAtType DEF SetSignature
<1> QED BY <1>1, NamedType

\* What is left of the replies are replies.
LEMMA DropType ==
    ASSUME NEW s \in Seq(Replies), NEW k \in 0..Len(s)
    PROVE  Drop(s, k) \in Seq(Replies)
BY DEF Drop

\* What a call with these answers comes to: one that does not fail ends with the
\* answer to its own request.
Outcome(answers, r) ==
    /\ r \in Replies \cup {Exception}
    /\ late' \in Seq(Replies) /\ link' \in {"up", "dead", "down"}
    /\ ghidra' \in [GhidraFuncs -> Names] /\ ghidra_notes' \subseteq Int
    /\ functionList' = functionList /\ known' = known /\ failed' \in BOOLEAN
    /\ ~failed' =>
          /\ ~failed /\ link = "up" /\ link' = "up" /\ late' = <<>>
          /\ r \notin {Refused, Unknown, Exception}
          /\ \E s \in answers :
                s.reply = r /\ ghidra' = s.names /\ ghidra_notes' = s.notes

\* That is what calls come to, for a request left unanswered is a failure.
LEMMA CallFacts ==
    ASSUME TypeOK, Quiet, NEW answers, answers \subseteq Answers,
           NEW r \in Results(answers), Call(answers, r)
    PROVE  Outcome(answers, r)
<1>0. /\ late \in Seq(Replies) /\ link \in {"up", "dead", "down"}
      /\ ghidra \in [GhidraFuncs -> Names] /\ ghidra_notes \subseteq Int
      /\ failed \in BOOLEAN
  BY DEF TypeOK
<1>1. \A s \in answers : /\ s.reply \in Replies /\ s.names \in [GhidraFuncs -> Names]
                         /\ s.notes \subseteq Int
  BY DEF Answers
<1>2. r \in Replies \cup {Exception}
  BY <1>0, <1>1 DEF Results
<1>3. functionList' = functionList /\ known' = known
  BY DEF Call
<1>4. \A s \in answers : Append(late, s.reply) \in Seq(Replies)
  BY <1>0, <1>1
<1>5. ghidra' \in [GhidraFuncs -> Names] /\ ghidra_notes' \subseteq Int
  BY <1>0, <1>1 DEF Call
<1>6. ASSUME NEW replies \in Seq(Replies), Raises(replies)
      PROVE  late' \in Seq(Replies) /\ link' \in {"up", "dead", "down"} /\ failed' = TRUE
  <2>1. \A k \in 0..Len(replies) : Drop(replies, k) \in Seq(Replies)
    BY DropType
  <2>2. failed' = TRUE
    BY <1>6 DEF Raises
  <2>3. \/ link' = "up" /\ \E k \in 0..Len(replies) : late' = Drop(replies, k)
        \/ link' \in {"dead", "down"} /\ late' = <<>>
    BY <1>6 DEF Raises
  <2>4. late' \in Seq(Replies)
    <3>1. <<>> \in Seq(Replies)
      OBVIOUS
    <3> QED BY <2>1, <2>3, <3>1
  <2>5. link' \in {"up", "dead", "down"}
    BY <2>3
  <2> QED BY <2>2, <2>4, <2>5
<1>7. ASSUME NEW s \in answers, link = "up", Returns(Append(late, s.reply), r)
      PROVE  /\ late' \in Seq(Replies) /\ link' = "up"
             /\ failed' = (failed \/ r \in {Refused, Unknown})
             /\ ~failed => r = s.reply /\ late' = <<>>
  <2>1. link' = "up" /\ failed' = (failed \/ r \in {Refused, Unknown})
    BY <1>7 DEF Returns
  <2>2. late' \in Seq(Replies)
    <3>1. \A k \in 1..Len(Append(late, s.reply)) : Drop(Append(late, s.reply), k) \in Seq(Replies)
      <4>1. Append(late, s.reply) \in Seq(Replies)
        BY <1>4
      <4>2. \A k \in 1..Len(Append(late, s.reply)) : k \in 0..Len(Append(late, s.reply))
        BY <4>1
      <4> QED BY <4>1, <4>2, DropType
    <3> QED BY <1>7, <3>1 DEF Returns
  <2>3. ASSUME ~failed PROVE r = s.reply /\ late' = <<>>
    <3>1. late = <<>>
      BY <2>3 DEF Quiet
    <3>2. Append(late, s.reply) = <<s.reply>>
      BY <3>1
    <3>3. \A k \in 1..Len(<<s.reply>>) : Drop(<<s.reply>>, k) = <<>>
      BY <1>1 DEF Drop
    <3>4. r = Head(<<s.reply>>) /\ \E k \in 1..Len(<<s.reply>>) : late' = Drop(<<s.reply>>, k)
      BY <1>7, <3>2 DEF Returns
    <3> QED BY <3>3, <3>4
  <2> QED BY <2>1, <2>2, <2>3
<1>8. CASE \E s \in answers : /\ link = "up" /\ ghidra' = s.names /\ ghidra_notes' = s.notes
                              /\ Returns(Append(late, s.reply), r)
  <2>1. PICK s \in answers : /\ link = "up" /\ ghidra' = s.names /\ ghidra_notes' = s.notes
                             /\ Returns(Append(late, s.reply), r)
    BY <1>8
  <2>2. /\ late' \in Seq(Replies) /\ link' = "up"
        /\ failed' = (failed \/ r \in {Refused, Unknown})
        /\ ~failed => r = s.reply /\ late' = <<>>
    BY <2>1, <1>7
  <2>3. failed' \in BOOLEAN
    BY <2>2, <1>0
  <2>4. ~failed' => ~failed /\ r \notin {Refused, Unknown}
    BY <2>2
  <2>5. s.reply # Exception
    BY <1>1 DEF Replies, Ok, Refused, Unknown, Exception
  <2> QED BY <2>1, <2>2, <2>3, <2>4, <2>5, <1>2, <1>3, <1>5 DEF Outcome
<1>9. CASE (\E s \in answers : Raises(Append(late, s.reply))) \/ Raises(late)
  <2>1. late' \in Seq(Replies) /\ link' \in {"up", "dead", "down"} /\ failed' = TRUE
    BY <1>9, <1>6, <1>4, <1>0
  <2> QED BY <2>1, <1>2, <1>3, <1>5 DEF Outcome
<1> QED BY <1>8, <1>9 DEF Call
\* What is no code does not look like code.
LEMMA NotCode ==
    /\ Nothing.kind # "code" /\ Error.kind # "code" /\ NoCode.kind # "code"
BY DEF Nothing, Error, NoCode

\* What looks like code is the answer to decompile_function.
LEMMA CodeType ==
    \A r \in Replies \cup {Exception} :
        r.kind = "code" => r \in [kind : {"code"}, of : GhidraFuncs, name : Names]
BY DEF Replies, Ok, Refused, Unknown, Exception

----------------------------------------------------------------------------
(* The offset *)

\* An offset is a number.
LEMMA OffsetsType == ASSUME NEW names PROVE Offsets(names) \subseteq Int
<1> DEFINE both == {a \in GhidraFuncs : \E f \in Funcs : Base[viv[f]] = names[a]}
<1>1. \A q \in both \X Funcs : q[1] \in Int /\ q[2] \in Int
  BY GhidraFuncsType
<1>2. \A q \in both \X Funcs : q[1] - q[2] \in Int
  BY <1>1
<1> QED BY <1>2 DEF Offsets

\* A list with the names that tell where functions are gives their distance.
LEMMA OffsetsTell ==
    ASSUME NEW names, TellsShift(viv, names), NEW o \in Offsets(names)
    PROVE  o = Shift
<1> DEFINE both == {a \in GhidraFuncs : \E f \in Funcs : Base[viv[f]] = names[a]}
           first == {q \in both \X Funcs :
                        Base[viv[q[2]]] = names[q[1]] /\ \A a \in both : q[1] <= a}
<1>1. \E f \in Funcs : f + Shift \in both
  BY DEF TellsShift, GhidraFuncs
<1>2. o \in {p[1] - p[2] : p \in first}
  BY <1>1 DEF Offsets
<1>3. PICK q \in first : o = q[1] - q[2]
  BY <1>2
<1>4. q[1] \in GhidraFuncs /\ q[2] \in Funcs /\ Base[viv[q[2]]] = names[q[1]]
  BY <1>3
<1>5. q[1] = q[2] + Shift
  BY <1>4 DEF TellsShift
<1>6. q[2] \in Int
  BY <1>4, GhidraFuncsType
<1>7. Shift \in Int
  BY ConstantsAssumption
<1> QED BY <1>3, <1>5, <1>6, <1>7

----------------------------------------------------------------------------
(* The invariant *)

\* The invariant holds at first.
LEMMA InitInv == Init => IInv
<1> SUFFICES ASSUME Init PROVE IInv
  OBVIOUS
<1>1. TypeOK
  <2>1. known \in BOOLEAN
    BY DEF Init, TellsShift
  <2>2. late \in Seq(Replies)
    BY DEF Init
  <2>3. failed \in BOOLEAN
    BY DEF Init
  <2>4. shown \in {Nothing, Error, NoCode} /\ func_name = NoName /\ new_name = NoName
    BY DEF Init
  <2>5. /\ link \in {"up", "dead", "down"} /\ cache = {} /\ step = "idle" /\ target = 0
        /\ viv \in [Funcs -> Names] /\ ghidra \in [GhidraFuncs -> Names]
        /\ functionList = ghidra /\ viv_notes = {} /\ ghidra_notes = {}
        /\ func_addr = 0 /\ edited = {}
    BY DEF Init
  <2> QED BY <2>1, <2>2, <2>3, <2>4, <2>5 DEF TypeOK
<1>2. Quiet /\ Connected /\ OffsetIsShift
  BY DEF Init, Quiet, Connected, OffsetIsShift
<1>3. Fresh
  BY DEF Init, Fresh, Nothing
<1>4. CodeHasFunction /\ WindowShowsItsFunction /\ CodeInv /\ ErrorsAreFailures
  BY DEF Init, CodeHasFunction, WindowShowsItsFunction, CodeInv, ErrorsAreFailures, Nothing, Error
<1>5. HeaderInv /\ RenamesInv /\ CommentsInv
  BY DEF Init, HeaderInv, RenamesInv, CommentsInv
<1> QED BY <1>1, <1>2, <1>3, <1>4, <1>5 DEF IInv

\* Nothing that the invariant is about changes.
LEMMA StutterInv == IInv /\ UNCHANGED vars => IInv'
<1> SUFFICES ASSUME IInv, UNCHANGED vars PROVE IInv'
  OBVIOUS
<1> USE DEF vars, doing, server, window
<1>1. TypeOK'
  BY DEF IInv, TypeOK
<1>2. Quiet' /\ Connected' /\ OffsetIsShift' /\ Fresh'
  BY DEF IInv, Quiet, Connected, OffsetIsShift, Fresh
<1>3. CodeHasFunction' /\ WindowShowsItsFunction' /\ CodeInv' /\ (Script => ErrorsAreFailures)'
  BY DEF IInv, CodeHasFunction, WindowShowsItsFunction, CodeInv, ErrorsAreFailures
<1>4. HeaderInv' /\ RenamesInv' /\ CommentsInv'
  BY DEF IInv, HeaderInv, RenamesInv, CommentsInv
<1> QED BY <1>1, <1>2, <1>3, <1>4 DEF IInv

----------------------------------------------------------------------------
(* The handlers *)

\* Decompile preserves the invariant.
LEMMA DecompileInv == IInv /\ Decompile => IInv'
<1> SUFFICES ASSUME IInv, Decompile PROVE IInv'
  OBVIOUS
<1> USE ConstantsAssumption DEF Decompile, Begin, set_error, Error, VivRefuses, doing, server, window, Decompiling
<1>1. TypeOK'
  BY DEF IInv, TypeOK, GhidraFuncs
<1>2. Quiet'
  BY DEF IInv, Quiet
<1>3. Fresh'
  BY DEF IInv, Fresh
<1>4. Connected'
  BY DEF IInv, Connected
<1>5. CodeHasFunction'
  BY DEF IInv, CodeHasFunction
<1>6. OffsetIsShift'
  BY DEF IInv, OffsetIsShift
<1>7. WindowShowsItsFunction'
  BY DEF IInv, WindowShowsItsFunction
<1>8. (Script => ErrorsAreFailures)'
  BY DEF IInv, ErrorsAreFailures
<1>9. HeaderInv'
  BY DEF IInv, HeaderInv
<1>10. CodeInv'
  BY DEF Quiet, CodeInv
<1>11. RenamesInv'
  BY DEF IInv, RenamesInv
<1>12. CommentsInv'
  BY DEF IInv, CommentsInv
<1> QED BY <1>1, <1>2, <1>3, <1>4, <1>5, <1>6, <1>7, <1>8, <1>9, <1>10, <1>11, <1>12 DEF IInv

\* AddComment preserves the invariant.
LEMMA AddCommentInv == IInv /\ AddComment => IInv'
<1> SUFFICES ASSUME IInv, AddComment PROVE IInv'
  OBVIOUS
<1> USE ConstantsAssumption DEF AddComment, Begin, set_error, Error, VivRefuses, doing, server, window, Decompiling
<1>1. TypeOK'
  <2>1. PICK va \in ({func_addr} \ {0}) \cup (IF shown.kind = "code" THEN {shown.of} ELSE {}) :
            /\ viv_notes' = viv_notes \cup {va} \/ viv_notes' = viv_notes
            /\ \/ step' = step /\ target' = target
               \/ step' = "comment" /\ target' = va
    OBVIOUS
  <2>2. va \in Int
    <3>1. func_addr \in Int
      BY GhidraFuncsType DEF IInv, TypeOK
    <3>2. ASSUME shown.kind = "code" PROVE shown.of \in GhidraFuncs
      <4>1. shown \in {Nothing, Error, NoCode} \cup [kind : {"code"}, of : GhidraFuncs, name : Names]
        BY DEF IInv, TypeOK
      <4>2. shown \notin {Nothing, Error, NoCode}
        BY <3>2, NotCode
      <4> QED BY <4>1, <4>2
    <3> QED BY <2>1, <3>1, <3>2, GhidraFuncsType
  <2>3. viv_notes' \subseteq Int /\ target' \in Int
    BY <2>1, <2>2 DEF IInv, TypeOK
  <2>4. failed' \in BOOLEAN
    BY DEF IInv, TypeOK
  <2> QED BY <2>1, <2>3, <2>4 DEF IInv, TypeOK
<1>2. Quiet'
  BY DEF IInv, Quiet
<1>3. Fresh'
  BY DEF IInv, Fresh
<1>4. Connected'
  BY DEF IInv, Connected
<1>5. CodeHasFunction'
  BY DEF IInv, CodeHasFunction
<1>6. OffsetIsShift'
  BY DEF IInv, OffsetIsShift
<1>7. WindowShowsItsFunction'
  BY DEF IInv, WindowShowsItsFunction
<1>8. (Script => ErrorsAreFailures)'
  BY DEF IInv, ErrorsAreFailures
<1>9. HeaderInv'
  BY DEF IInv, HeaderInv
<1>10. CodeInv'
  BY DEF IInv, CodeInv
<1>11. RenamesInv'
  BY DEF IInv, RenamesInv
<1>12. CommentsInv'
  BY DEF IInv, Connected, CodeHasFunction, CommentsInv
<1> QED BY <1>1, <1>2, <1>3, <1>4, <1>5, <1>6, <1>7, <1>8, <1>9, <1>10, <1>11, <1>12 DEF IInv

\* Rename preserves the invariant.
LEMMA RenameInv == IInv /\ Rename => IInv'
<1> SUFFICES ASSUME IInv, Rename PROVE IInv'
  OBVIOUS
<1> USE ConstantsAssumption DEF Rename, Begin, set_error, Error, VivRefuses, doing, server, window, Decompiling
<1>1. TypeOK'
  <2>1. func_addr \in Funcs /\ edited' \subseteq Funcs
    BY DEF IInv, TypeOK
  <2>2. \/ /\ step' = "idle" /\ target' = 0 /\ new_name' = NoName
           /\ shown' = Error /\ UNCHANGED <<func_addr, func_name>>
        \/ /\ step' \in {"list", "decompile"} /\ target' = func_addr /\ new_name' = NoName
           /\ cache = {} => step' = "list"
           /\ UNCHANGED window
        \/ step' = "rename" /\ target' = func_addr /\ new_name' \in Names /\ UNCHANGED window
    OBVIOUS
  <2>3. viv' \in [Funcs -> Names]
    BY <2>1 DEF IInv, TypeOK
  <2>4. failed' \in BOOLEAN
    BY DEF IInv, TypeOK
  <2>5. UNCHANGED <<link, late, cache, ghidra, functionList, ghidra_notes, viv_notes, known>>
    OBVIOUS
  <2> HIDE DEF Rename, Begin, set_error, VivRefuses
  <2>6. /\ target' \in Int /\ func_addr' \in Funcs \cup {0} /\ func_name' \in Names \cup {NoName}
        /\ shown' \in {Nothing, Error, NoCode} \cup [kind : {"code"}, of : GhidraFuncs, name : Names]
    BY <2>1, <2>2, GhidraFuncsType DEF IInv, TypeOK
  <2>7. /\ step' \in {"idle", "list", "match", "decompile", "comment", "rename", "signature"}
        /\ step' \in {"list", "match", "decompile", "rename", "signature"} => target' \in Funcs
        /\ step' = "decompile" => cache # {}
        /\ new_name' \in Names \cup {NoName}
        /\ step' \in {"rename", "signature"} => new_name' \in Names
    BY <2>1, <2>2
  <2> QED BY <2>1, <2>3, <2>4, <2>5, <2>6, <2>7 DEF IInv, TypeOK
<1>2. Quiet'
  BY DEF IInv, Quiet
<1>3. Fresh'
  BY DEF IInv, Fresh
<1>4. Connected'
  BY DEF IInv, Connected
<1>5. CodeHasFunction'
  BY DEF Quiet, CodeHasFunction, CodeHasFunction
<1>6. OffsetIsShift'
  BY DEF IInv, OffsetIsShift
<1>7. WindowShowsItsFunction'
  BY DEF IInv, WindowShowsItsFunction
<1>8. (Script => ErrorsAreFailures)'
  BY DEF IInv, ErrorsAreFailures
<1>9. HeaderInv'
  BY DEF IInv, Connected, HeaderInv
<1>10. CodeInv'
  BY DEF IInv, CodeInv
<1>11. RenamesInv'
  BY DEF IInv, TypeOK, Connected, RenamesInv
<1>12. CommentsInv'
  BY DEF IInv, CommentsInv
<1> QED BY <1>1, <1>2, <1>3, <1>4, <1>5, <1>6, <1>7, <1>8, <1>9, <1>10, <1>11, <1>12 DEF IInv

\* EditSignature preserves the invariant.
LEMMA EditSignatureInv == IInv /\ EditSignature => IInv'
<1> SUFFICES ASSUME IInv, EditSignature PROVE IInv'
  OBVIOUS
<1> USE ConstantsAssumption DEF EditSignature, Begin, set_error, Error, VivRefuses, doing, server, window, Decompiling
<1>1. TypeOK'
  <2>1. func_addr \in Funcs /\ edited' \subseteq Funcs
    BY DEF IInv, TypeOK
  <2>2. \/ /\ step' = "idle" /\ target' = 0 /\ new_name' = NoName
           /\ shown' = Error /\ UNCHANGED <<func_addr, func_name>>
        \/ /\ step' \in {"list", "decompile"} /\ target' = func_addr /\ new_name' = NoName
           /\ cache = {} => step' = "list"
           /\ UNCHANGED window
        \/ step' = "signature" /\ target' = func_addr /\ new_name' \in Names /\ UNCHANGED window
    OBVIOUS
  <2> QED BY <2>1, <2>2, GhidraFuncsType DEF IInv, TypeOK
<1>2. Quiet'
  BY DEF IInv, Quiet
<1>3. Fresh'
  BY DEF IInv, Fresh
<1>4. Connected'
  BY DEF IInv, Connected
<1>5. CodeHasFunction'
  BY DEF Quiet, CodeHasFunction, CodeHasFunction
<1>6. OffsetIsShift'
  BY DEF IInv, OffsetIsShift
<1>7. WindowShowsItsFunction'
  BY DEF IInv, WindowShowsItsFunction
<1>8. (Script => ErrorsAreFailures)'
  BY DEF IInv, ErrorsAreFailures
<1>9. HeaderInv'
  BY DEF IInv, HeaderInv
<1>10. CodeInv'
  BY DEF IInv, CodeInv
<1>11. RenamesInv'
  BY DEF IInv, RenamesInv
<1>12. CommentsInv'
  BY DEF IInv, CommentsInv
<1> QED BY <1>1, <1>2, <1>3, <1>4, <1>5, <1>6, <1>7, <1>8, <1>9, <1>10, <1>11, <1>12 DEF IInv


\* FirstList preserves the invariant.
LEMMA FirstListInv == IInv /\ FirstList => IInv'
<1> SUFFICES ASSUME IInv, FirstList PROVE IInv'
  OBVIOUS
<1> USE GhidraFuncsType, ConstantsAssumption DEF Begin, set_error, doing, server, window, Decompiling
<1>1. PICK r \in Results(GetFunctionList) : Call(GetFunctionList, r)
  BY DEF FirstList
<1>2. Outcome(GetFunctionList, r)
  BY <1>1, CallFacts, ListType DEF IInv
<1>3. ~failed' => ghidra' = ghidra /\ ghidra_notes' = ghidra_notes
  BY <1>2 DEF Outcome, GetFunctionList, Unserved, Served
<1>4. /\ step = "list" /\ target \in Funcs /\ cache = {}
      /\ \/ link' = "down" /\ step' = "decompile" /\ cache' = {0}
         \/ link' # "down" /\ step' = "match" /\ cache' = {}
      /\ UNCHANGED <<target, new_name, viv, viv_notes, window, edited>>
  BY DEF FirstList, IInv, TypeOK, Fresh
<1>5. cache' \subseteq Int /\ (step' = "decompile" => cache' # {})
  BY <1>4
<1>6. TypeOK'
  BY <1>2, <1>4, <1>5 DEF IInv, TypeOK, Outcome
<1>7. Quiet'
  BY <1>2 DEF Outcome, Quiet
<1>8. Fresh'
  BY <1>2, <1>3, <1>4 DEF IInv, Outcome, Fresh
<1>9. Connected'
  BY <1>2, <1>4 DEF IInv, Outcome, Connected
<1>10. CodeHasFunction'
  BY <1>2, <1>4 DEF IInv, Outcome, CodeHasFunction
<1>11. OffsetIsShift'
  BY <1>2, <1>4 DEF Outcome, OffsetIsShift
<1>12. WindowShowsItsFunction'
  BY <1>2, <1>4 DEF IInv, Outcome, WindowShowsItsFunction
<1>13. (Script => ErrorsAreFailures)'
  BY <1>2, <1>4 DEF IInv, Outcome, ErrorsAreFailures
<1>14. HeaderInv'
  BY <1>2, <1>4 DEF IInv, Outcome, HeaderInv
<1>15. CodeInv'
  BY <1>4 DEF CodeInv
<1>16. RenamesInv'
  BY <1>2, <1>3, <1>4 DEF IInv, Outcome, RenamesInv
<1>17. CommentsInv'
  BY <1>2, <1>3, <1>4 DEF IInv, Outcome, CommentsInv
<1> QED BY <1>6, <1>7, <1>8, <1>9, <1>10, <1>11, <1>12, <1>13, <1>14, <1>15, <1>16, <1>17 DEF IInv

\* Match preserves the invariant.
LEMMA MatchInv == IInv /\ Match => IInv'
<1> SUFFICES ASSUME IInv, Match PROVE IInv'
  OBVIOUS
<1> USE GhidraFuncsType, ConstantsAssumption DEF Begin, set_error, doing, server, window, Decompiling
<1>1. PICK r \in Results(GetFunctionList) :
          /\ Call(GetFunctionList, r)
          /\ \E o \in IF r.kind = "list" THEN Offsets(r.names) ELSE {0} : cache' = {o}
  BY DEF Match
<1>2. Outcome(GetFunctionList, r)
  BY <1>1, CallFacts, ListType DEF IInv
<1>3. ~failed' =>
          /\ ghidra' = ghidra /\ ghidra_notes' = ghidra_notes
          /\ r.kind = "list" /\ r.names = IF Script THEN functionList ELSE ghidra
  BY <1>2 DEF Outcome, GetFunctionList, Unserved, Served, List
<1>4. /\ step = "match" /\ step' = "decompile"
      /\ UNCHANGED <<target, new_name, viv, viv_notes, window, edited>>
  BY DEF Match
<1>5. PICK o \in Int : cache' = {o}
  BY <1>1, OffsetsType
<1>6. known /\ ~failed' => cache' = {Shift}
  <2> SUFFICES ASSUME known, ~failed' PROVE cache' = {Shift}
    OBVIOUS
  <2>1. ~failed
    BY <1>2 DEF Outcome
  <2>2. TellsShift(viv, r.names)
    BY <1>3, <1>4, <2>1 DEF IInv, Fresh
  <2>3. \E x \in Offsets(r.names) : cache' = {x}
    BY <1>1, <1>3
  <2> QED BY <2>2, <2>3, OffsetsTell
<1>7. TypeOK'
  BY <1>2, <1>4, <1>5 DEF IInv, TypeOK, Outcome
<1>8. Quiet'
  BY <1>2 DEF Outcome, Quiet
<1>9. Fresh'
  BY <1>4, <1>5 DEF Fresh
<1>10. Connected'
  BY <1>2, <1>4 DEF IInv, Outcome, Connected
<1>11. CodeHasFunction'
  BY <1>2, <1>4 DEF IInv, Outcome, CodeHasFunction
<1>12. OffsetIsShift'
  BY <1>2, <1>6 DEF Outcome, OffsetIsShift
<1>13. WindowShowsItsFunction'
  BY <1>2, <1>4 DEF IInv, Outcome, WindowShowsItsFunction
<1>14. (Script => ErrorsAreFailures)'
  BY <1>2, <1>4 DEF IInv, Outcome, ErrorsAreFailures
<1>15. HeaderInv'
  BY <1>2, <1>4 DEF IInv, Outcome, HeaderInv
<1>16. CodeInv'
  BY <1>4 DEF CodeInv
<1>17. RenamesInv'
  BY <1>2, <1>3, <1>4 DEF IInv, Outcome, RenamesInv
<1>18. CommentsInv'
  BY <1>2, <1>3, <1>4 DEF IInv, Outcome, CommentsInv
<1> QED BY <1>7, <1>8, <1>9, <1>10, <1>11, <1>12, <1>13, <1>14, <1>15, <1>16, <1>17, <1>18 DEF IInv

\* Show preserves the invariant.
LEMMA ShowInv == IInv /\ Show => IInv'
<1> SUFFICES ASSUME IInv, Show PROVE IInv'
  OBVIOUS
<1> USE GhidraFuncsType, ConstantsAssumption DEF Begin, set_error, doing, server, window, Decompiling
<1>0. step = "decompile" /\ target \in Funcs /\ target \in Int
  BY DEF Show, IInv, TypeOK
<1>1. PICK o \in cache : \E r \in Results(DecompileFunction(target + o)) :
          /\ Call(DecompileFunction(target + o), r)
          /\ IF r \in {Refused, Unknown, Exception} \/ (~Script /\ r.kind = "code")
             THEN set_error
             ELSE /\ func_addr' = target /\ func_name' = viv[target]
                  /\ shown' = IF r.kind = "code" THEN r ELSE NoCode
  BY DEF Show
<1>2. o \in Int /\ target + o \in Int
  BY <1>0 DEF IInv, TypeOK
<1>3. PICK r \in Results(DecompileFunction(target + o)) :
          /\ Call(DecompileFunction(target + o), r)
          /\ IF r \in {Refused, Unknown, Exception} \/ (~Script /\ r.kind = "code")
             THEN set_error
             ELSE /\ func_addr' = target /\ func_name' = viv[target]
                  /\ shown' = IF r.kind = "code" THEN r ELSE NoCode
  BY <1>1
<1>4. Outcome(DecompileFunction(target + o), r)
  BY <1>2, <1>3, CallFacts, DecompileType DEF IInv
<1>5. ~failed' =>
          /\ ghidra' = ghidra /\ ghidra_notes' = ghidra_notes
          /\ r.kind = "code" /\ r.of \in FunctionsAt(target + o) /\ r.name = ghidra[r.of]
  BY <1>4 DEF Outcome, DecompileFunction, Unserved, Served, Code
<1>6. /\ step' = "idle" /\ target' = 0
      /\ UNCHANGED <<cache, new_name, viv, viv_notes, edited>>
  BY DEF Show
<1>7. ~failed' => \/ ~Script /\ set_error
                  \/ Script /\ func_addr' = target /\ func_name' = viv[target] /\ shown' = r
  BY <1>3, <1>4, <1>5 DEF Outcome
<1>8. known /\ ~failed' => r.of = target + Shift
  <2>1. known /\ ~failed' => o = Shift
    BY <1>1, <1>4 DEF IInv, OffsetIsShift, Outcome
  <2>2. target + Shift \in GhidraFuncs
    BY <1>0 DEF GhidraFuncs
  <2> QED BY <2>1, <2>2, <1>5 DEF FunctionsAt
<1>9. TypeOK'
  <2>1. r.kind = "code" => r \in [kind : {"code"}, of : GhidraFuncs, name : Names]
    BY <1>4, CodeType DEF Outcome
  <2>2. /\ func_addr' \in Funcs \cup {0} /\ func_name' \in Names \cup {NoName}
        /\ shown' \in {Nothing, Error, NoCode} \cup [kind : {"code"}, of : GhidraFuncs, name : Names]
    <3>1. CASE set_error
      BY <3>1 DEF IInv, TypeOK
    <3>2. CASE /\ func_addr' = target /\ func_name' = viv[target]
               /\ shown' = IF r.kind = "code" THEN r ELSE NoCode
      BY <3>2, <2>1, <1>0 DEF IInv, TypeOK
    <3> QED BY <3>1, <3>2, <1>3
  <2> QED BY <2>2, <1>0, <1>4, <1>6 DEF IInv, TypeOK, Outcome
<1>10. Quiet'
  BY <1>4 DEF Outcome, Quiet
<1>11. Fresh'
  BY <1>6 DEF Fresh
<1>12. Connected'
  BY <1>4, <1>7 DEF IInv, Outcome, Connected
<1>13. CodeHasFunction'
  BY <1>0, <1>7, NotCode DEF CodeHasFunction
<1>14. OffsetIsShift'
  BY <1>4, <1>6 DEF IInv, Outcome, OffsetIsShift
<1>15. WindowShowsItsFunction'
  BY <1>0, <1>4, <1>7, <1>8, NotCode DEF Outcome, WindowShowsItsFunction
<1>16. (Script => ErrorsAreFailures)'
  BY <1>5, <1>7, NotCode DEF ErrorsAreFailures
<1>17. HeaderInv'
  BY <1>4, <1>6, <1>7 DEF IInv, Outcome, Connected, HeaderInv
<1>18. CodeInv'
  BY <1>5, <1>7, NotCode DEF CodeInv
<1>19. RenamesInv'
  BY <1>0, <1>4, <1>5, <1>6 DEF IInv, Outcome, RenamesInv
<1>20. CommentsInv'
  BY <1>0, <1>4, <1>5, <1>6 DEF IInv, Outcome, CommentsInv
<1> QED BY <1>9, <1>10, <1>11, <1>12, <1>13, <1>14, <1>15, <1>16, <1>17, <1>18, <1>19, <1>20 DEF IInv

\* SyncComment preserves the invariant.
LEMMA SyncCommentInv == IInv /\ SyncComment => IInv'
<1> SUFFICES ASSUME IInv, SyncComment PROVE IInv'
  OBVIOUS
<1> USE GhidraFuncsType, ConstantsAssumption DEF Begin, set_error, doing, server, window, Decompiling
<1>0. target \in Int /\ step = "comment" /\ cache # {}
  BY DEF SyncComment, IInv, TypeOK, Fresh
<1>1. PICK r \in Results(SetComment(target)) : Call(SetComment(target), r)
  BY DEF SyncComment
<1>2. Outcome(SetComment(target), r)
  BY <1>0, <1>1, CallFacts, CommentType DEF IInv
<1>3. ~failed' => ghidra' = ghidra /\ ghidra_notes' = ghidra_notes \cup {target}
  BY <1>2 DEF Outcome, SetComment, Unserved, Served
<1>4. /\ step' = "idle" /\ target' = 0
      /\ UNCHANGED <<cache, new_name, viv, viv_notes, window, edited>>
  BY DEF SyncComment
<1>5. TypeOK'
  BY <1>2, <1>4 DEF IInv, TypeOK, Outcome
<1>6. Quiet'
  BY <1>2 DEF Outcome, Quiet
<1>7. Fresh'
  BY <1>0, <1>4 DEF Fresh
<1>8. Connected'
  BY <1>2, <1>4 DEF IInv, Outcome, Connected
<1>9. CodeHasFunction'
  BY <1>2, <1>4 DEF IInv, Outcome, CodeHasFunction
<1>10. OffsetIsShift'
  BY <1>2, <1>4 DEF IInv, Outcome, OffsetIsShift
<1>11. WindowShowsItsFunction'
  BY <1>2, <1>4 DEF IInv, Outcome, WindowShowsItsFunction
<1>12. (Script => ErrorsAreFailures)'
  BY <1>2, <1>4 DEF IInv, Outcome, ErrorsAreFailures
<1>13. HeaderInv'
  BY <1>0, <1>2, <1>4 DEF IInv, Outcome, HeaderInv
<1>14. CodeInv'
  BY <1>0, <1>2, <1>3, <1>4 DEF IInv, Outcome, CodeInv
<1>15. RenamesInv'
  BY <1>0, <1>2, <1>3, <1>4 DEF IInv, Outcome, RenamesInv
<1>16. CommentsInv'
  BY <1>0, <1>2, <1>3, <1>4 DEF IInv, Outcome, CommentsInv
<1> QED BY <1>5, <1>6, <1>7, <1>8, <1>9, <1>10, <1>11, <1>12, <1>13, <1>14, <1>15, <1>16 DEF IInv

\* SyncRename preserves the invariant.
LEMMA SyncRenameInv == IInv /\ SyncRename => IInv'
<1> SUFFICES ASSUME IInv, SyncRename PROVE IInv'
  OBVIOUS
<1> USE GhidraFuncsType, ConstantsAssumption DEF Begin, set_error, doing, server, window, Decompiling
<1>0. target \in Int /\ target \in Funcs /\ step = "rename" /\ cache # {} /\ new_name \in Names
  BY DEF SyncRename, IInv, TypeOK, Fresh
<1>1. PICK r \in Results(RenameSymbol(target, new_name)) : Call(RenameSymbol(target, new_name), r)
  BY DEF SyncRename
<1>2. Outcome(RenameSymbol(target, new_name), r)
  BY <1>0, <1>1, CallFacts, RenameType DEF IInv
<1>3. ~failed' => Script /\ ghidra_notes' = ghidra_notes
  BY <1>2 DEF Outcome, RenameSymbol, Unserved, Served
<1>4. ~failed' => target \in GhidraFuncs /\ ghidra' = [ghidra EXCEPT ![target] = new_name]
  BY <1>2 DEF Outcome, RenameSymbol, Unserved, Served
<1>5. /\ new_name' = NoName
      /\ \/ link' = "down" /\ step' = "idle" /\ target' = 0 /\ set_error
         \/ link' # "down" /\ step' = "decompile" /\ target' = target /\ UNCHANGED window
      /\ UNCHANGED <<cache, viv, viv_notes, edited>>
  BY <1>0 DEF SyncRename
<1>6. TypeOK'
  BY <1>0, <1>2, <1>5 DEF IInv, TypeOK, Outcome
<1>7. Quiet'
  BY <1>2 DEF Outcome, Quiet
<1>8. Fresh'
  BY <1>0, <1>5 DEF Fresh
<1>9. Connected'
  BY <1>2, <1>5 DEF IInv, Outcome, Connected
<1>10. CodeHasFunction'
  BY <1>2, <1>5 DEF IInv, Outcome, CodeHasFunction
<1>11. OffsetIsShift'
  BY <1>2, <1>5 DEF IInv, Outcome, OffsetIsShift
<1>12. WindowShowsItsFunction'
  BY <1>2, <1>5 DEF IInv, Outcome, WindowShowsItsFunction
<1>13. (Script => ErrorsAreFailures)'
  BY <1>2, <1>5 DEF IInv, Outcome, ErrorsAreFailures
<1>14. HeaderInv'
  BY <1>2, <1>5 DEF IInv, Outcome, HeaderInv
<1>15. CodeInv'
  BY <1>2, <1>5 DEF Outcome, CodeInv
<1>16. RenamesInv'
  <2> SUFFICES ASSUME ~failed', Shift = 0 PROVE \A f \in edited : ghidra'[f] = viv[f]
    BY <1>5 DEF RenamesInv
  <2>1. ~failed
    BY <1>2 DEF Outcome
  <2>2. \A f \in edited : f \in GhidraFuncs
    BY GhidraAtZero DEF IInv, TypeOK
  <2>3. viv[target] = new_name /\ \A f \in edited : ghidra[f] = viv[f] \/ f = target
    BY <2>1, <1>0 DEF IInv, RenamesInv
  <2>4. ghidra \in [GhidraFuncs -> Names] /\ ghidra' = [ghidra EXCEPT ![target] = new_name]
    BY <1>4 DEF IInv, TypeOK
  <2> QED BY <2>2, <2>3, <2>4
<1>17. CommentsInv'
  BY <1>0, <1>2, <1>3, <1>5 DEF IInv, Outcome, CommentsInv
<1> QED BY <1>6, <1>7, <1>8, <1>9, <1>10, <1>11, <1>12, <1>13, <1>14, <1>15, <1>16, <1>17 DEF IInv

\* SyncSignature preserves the invariant.
LEMMA SyncSignatureInv == IInv /\ SyncSignature => IInv'
<1> SUFFICES ASSUME IInv, SyncSignature PROVE IInv'
  OBVIOUS
<1> USE GhidraFuncsType, ConstantsAssumption DEF Begin, set_error, doing, server, window, Decompiling
<1>0. target \in Int /\ target \in Funcs /\ step = "signature" /\ cache # {} /\ new_name \in Names
  BY DEF SyncSignature, IInv, TypeOK, Fresh
<1>1. PICK r \in Results(SetSignature(target, new_name)) : Call(SetSignature(target, new_name), r)
  BY DEF SyncSignature
<1>2. Outcome(SetSignature(target, new_name), r)
  BY <1>0, <1>1, CallFacts, SignatureType DEF IInv
<1>3. ~failed' => Script /\ ghidra_notes' = ghidra_notes
  BY <1>2 DEF Outcome, SetSignature, Unserved, Served
<1>4. ~failed' => ghidra' = ghidra \/ \E b \in FunctionsAt(target) : ghidra' = [ghidra EXCEPT ![b] = new_name]
  BY <1>2 DEF Outcome, SetSignature, Unserved, Served
<1>5. /\ new_name' = NoName
      /\ \/ link' = "down" /\ step' = "idle" /\ target' = 0 /\ set_error
         \/ link' # "down" /\ step' = "decompile" /\ target' = target /\ UNCHANGED window
      /\ UNCHANGED <<cache, viv, viv_notes, edited>>
  BY <1>0 DEF SyncSignature
<1>6. TypeOK'
  BY <1>0, <1>2, <1>5 DEF IInv, TypeOK, Outcome
<1>7. Quiet'
  BY <1>2 DEF Outcome, Quiet
<1>8. Fresh'
  BY <1>0, <1>5 DEF Fresh
<1>9. Connected'
  BY <1>2, <1>5 DEF IInv, Outcome, Connected
<1>10. CodeHasFunction'
  BY <1>2, <1>5 DEF IInv, Outcome, CodeHasFunction
<1>11. OffsetIsShift'
  BY <1>2, <1>5 DEF IInv, Outcome, OffsetIsShift
<1>12. WindowShowsItsFunction'
  BY <1>2, <1>5 DEF IInv, Outcome, WindowShowsItsFunction
<1>13. (Script => ErrorsAreFailures)'
  BY <1>2, <1>5 DEF IInv, Outcome, ErrorsAreFailures
<1>14. HeaderInv'
  BY <1>2, <1>5 DEF IInv, Outcome, HeaderInv
<1>15. CodeInv'
  BY <1>2, <1>5 DEF Outcome, CodeInv
<1>16. RenamesInv'
  <2> SUFFICES ASSUME ~failed', Shift = 0 PROVE \A f \in edited : ghidra'[f] = viv[f]
    BY <1>5 DEF RenamesInv
  <2>1. ~failed
    BY <1>2 DEF Outcome
  <2>2. /\ target \in GhidraFuncs /\ \A f \in edited : f \in GhidraFuncs
    BY <1>0, GhidraAtZero DEF IInv, TypeOK
  <2>3. target \notin edited /\ \A f \in edited : ghidra[f] = viv[f]
    BY <2>1, <1>0 DEF IInv, RenamesInv
  <2>4. /\ ghidra \in [GhidraFuncs -> Names]
        /\ ghidra' = ghidra \/ ghidra' = [ghidra EXCEPT ![target] = new_name]
    BY <1>4, <2>2 DEF IInv, TypeOK, FunctionsAt
  <2> QED BY <2>2, <2>3, <2>4
<1>17. CommentsInv'
  BY <1>0, <1>2, <1>3, <1>5 DEF IInv, Outcome, CommentsInv
<1> QED BY <1>6, <1>7, <1>8, <1>9, <1>10, <1>11, <1>12, <1>13, <1>14, <1>15, <1>16, <1>17 DEF IInv

----------------------------------------------------------------------------
(* The theorems *)

\* Every handler, and every call it makes, preserves the invariant.
LEMMA NextInv == IInv /\ [Next]_vars => IInv'
<1> SUFFICES ASSUME IInv, [Next]_vars PROVE IInv'
  OBVIOUS
<1>1. CASE Decompile
  BY <1>1, DecompileInv
<1>2. CASE AddComment
  BY <1>2, AddCommentInv
<1>3. CASE Rename
  BY <1>3, RenameInv
<1>4. CASE EditSignature
  BY <1>4, EditSignatureInv
<1>5. CASE FirstList
  BY <1>5, FirstListInv
<1>6. CASE Match
  BY <1>6, MatchInv
<1>7. CASE Show
  BY <1>7, ShowInv
<1>8. CASE SyncComment
  BY <1>8, SyncCommentInv
<1>9. CASE SyncRename
  BY <1>9, SyncRenameInv
<1>10. CASE SyncSignature
  BY <1>10, SyncSignatureInv
<1>11. CASE UNCHANGED vars
  BY <1>11, StutterInv
<1> QED
  BY <1>1, <1>2, <1>3, <1>4, <1>5, <1>6, <1>7, <1>8, <1>9, <1>10, <1>11 DEF Next, Waits

\* The inductive invariant holds throughout a session.
THEOREM SessionInvariant == Spec => []IInv
BY InitInv, NextInv, PTL DEF Spec

\* The widget, the two databases and the cache hold what they should, and who asks
\* for a decompilation has an offset.
THEOREM SessionTypes == Spec => []TypeOK
<1>1. IInv => TypeOK
  BY DEF IInv
<1> QED BY <1>1, SessionInvariant, PTL

\* _map_viv_to_ghidra_address caches the right offset, whatever the image bases, if
\* names tell it and nothing failed.
THEOREM SessionOffset == Spec => []OffsetIsShift
<1>1. IInv => OffsetIsShift
  BY DEF IInv
<1> QED BY <1>1, SessionInvariant, PTL

\* set_code is given the code of the function that it is told.
THEOREM SessionWindow == Spec => []WindowShowsItsFunction
<1>1. IInv => WindowShowsItsFunction
  BY DEF IInv
<1> QED BY <1>1, SessionInvariant, PTL

\* The code shown after a handler is what Ghidra would say now.
THEOREM SessionCode == Spec => []CodeIsCurrent
<1>1. IInv => CodeIsCurrent
  BY DEF IInv, CodeInv, CodeIsCurrent, Decompiling
<1> QED BY <1>1, SessionInvariant, PTL

\* The header has Vivisect's name for its function after a handler.
THEOREM SessionHeader == Spec => []HeaderShowsName
<1>1. IInv => HeaderShowsName
  BY DEF IInv, HeaderInv, HeaderShowsName, Decompiling
<1> QED BY <1>1, SessionInvariant, PTL

\* With StartBridgeServer, an error is displayed only if something failed.
THEOREM SessionErrors == ASSUME Script PROVE Spec => []ErrorsAreFailures
<1>1. IInv => ErrorsAreFailures
  BY DEF IInv
<1> QED BY <1>1, SessionInvariant, PTL

\* At the same image base, a rename is made in both databases.
THEOREM SessionRenames == ASSUME Shift = 0 PROVE Spec => []RenamesReachBoth
<1>1. IInv => RenamesReachBoth
  <2> SUFFICES ASSUME IInv, ~failed, step = "idle", NEW f \in edited
              PROVE  ghidra[f + Shift] = viv[f]
    BY DEF RenamesReachBoth
  <2>1. f \in Int /\ f + Shift = f
    BY GhidraFuncsType DEF IInv, TypeOK
  <2> QED BY <2>1 DEF IInv, RenamesInv
<1> QED BY <1>1, SessionInvariant, PTL

\* At the same image base, a comment is made in both databases.
THEOREM SessionComments == ASSUME Shift = 0 PROVE Spec => []CommentsReachBoth
<1>1. IInv => CommentsReachBoth
  <2> SUFFICES ASSUME IInv, ~failed, step = "idle"
              PROVE  ghidra_notes = {a + Shift : a \in viv_notes}
    BY DEF CommentsReachBoth
  <2>1. viv_notes = ghidra_notes
    BY DEF IInv, CommentsInv
  <2>2. \A a \in viv_notes : a + Shift = a
    BY DEF IInv, TypeOK
  <2> QED BY <2>1, <2>2
<1> QED BY <1>1, SessionInvariant, PTL

\* No handler makes more than four calls.
THEOREM SessionHandlers == Spec => HandlersEnd
<1>1. [Next]_vars => [step # "idle" => Waits /\ CallsLeft[step'] < CallsLeft[step]]_vars
  <2> SUFFICES ASSUME Next, step # "idle" PROVE Waits /\ CallsLeft[step'] < CallsLeft[step]
    OBVIOUS
  <2>1. Waits
    BY DEF Next, Decompile, AddComment, Rename, EditSignature
  <2> DEFINE more(s, t) == CallsLeft[t] < CallsLeft[s]
  <2>2. /\ more("list", "match") /\ more("list", "decompile") /\ more("match", "decompile")
        /\ more("decompile", "idle") /\ more("comment", "idle")
        /\ \A s \in {"rename", "signature"}, t \in {"idle", "list", "decompile"} : more(s, t)
    BY DEF CallsLeft
  <2>3. CASE FirstList \/ Match
    <3>1. \/ step = "list" /\ step' \in {"match", "decompile"}
          \/ step = "match" /\ step' = "decompile"
      BY <2>3 DEF FirstList, Match
    <3> QED
      BY <2>1, <2>2, <3>1
  <2>4. CASE Show \/ SyncComment
    <3>1. step \in {"decompile", "comment"} /\ step' = "idle"
      BY <2>4 DEF Show, SyncComment
    <3> QED
      BY <2>1, <2>2, <3>1
  <2>5. CASE SyncRename \/ SyncSignature
    <3>1. step \in {"rename", "signature"} /\ step' \in {"idle", "list", "decompile"}
      BY <2>5 DEF SyncRename, SyncSignature, Begin
    <3> QED
      BY <2>1, <2>2, <3>1
  <2> QED
    BY <2>1, <2>3, <2>4, <2>5 DEF Waits
<1> QED
  BY <1>1, PTL DEF Spec, HandlersEnd
=============================================================================
