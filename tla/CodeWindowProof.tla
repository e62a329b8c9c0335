-------------------------- MODULE CodeWindowProof --------------------------
(***************************************************************************)
(* CodeWindowInv!IInv is an invariant of CodeWindow for every set of texts,  *)
(* and its properties follow: the search is complete for every code and    *)
(* every query.                                                            *)
(***************************************************************************)
EXTENDS CodeWindowInv, SequenceTheorems, FiniteSetTheorems, TLAPS

----------------------------------------------------------------------------
(* Numbers and texts *)

LEMMA Modulo ==
    ASSUME NEW n \in Nat, NEW i \in Nat, i < n
    PROVE  /\ (i + 1) % n \in Nat /\ (i + 1) % n < n
           /\ i + 1 < n => (i + 1) % n = i + 1
  BY SMT

LEMMA UnitsType ==
    ASSUME NEW t, NEW n \in Nat
    PROVE  Units(t, n) \in Nat
<1> DEFINE W == {i \in 1..n : t[i] \in Wide}
<1>1. IsFiniteSet(1..n)
  BY FS_Interval
<1>2. IsFiniteSet(W)
  BY <1>1, FS_Subset
<1>3. Cardinality(W) \in Nat
  BY <1>2, FS_CardinalityType
<1> QED
  BY <1>3 DEF Units

LEMMA NarrowUnits ==
    ASSUME NEW t \in Seq(Chars), Narrow(t), NEW n \in 0..Len(t)
    PROVE  Units(t, n) = n
<1> DEFINE W == {i \in 1..n : t[i] \in Wide}
<1>1. W = {}
  BY DEF Narrow
<1>2. Units(t, n) = n + Cardinality(W)
  BY DEF Units
<1> HIDE DEF W
<1>3. Cardinality(W) = 0
  BY <1>1, FS_EmptySet, Zenon
<1> QED
  BY <1>2, <1>3

LEMMA Texts ==
    ASSUME TypeOK
    PROVE  /\ c_code \in Seq(Chars) /\ display \in Seq(Chars) /\ bar \in Seq(Chars)
           /\ Len(c_code) \in Nat /\ Len(display) \in Nat /\ Len(bar) \in Nat
           /\ bar # <<>> => Len(bar) > 0
<1>1. <<>> \in Seq(Chars)
  OBVIOUS
<1>2. c_code \in Seq(Chars) /\ display \in Seq(Chars) /\ bar \in Seq(Chars)
  BY <1>1, TextsAssumption DEF TypeOK
<1> QED
  BY <1>2

LEMMA HighlightType ==
    ASSUME TypeOK, NEW pos \in Nat, NEW n \in Nat, highlight(pos, n)
    PROVE  anchor' \in Nat /\ position' \in Nat
<1>1. anchor \in Nat /\ position \in Nat
  BY DEF TypeOK
<1> QED
  BY <1>1 DEF highlight

----------------------------------------------------------------------------
(* The inductive invariant *)

LEMMA Initially == Init => IInv
<1> SUFFICES ASSUME Init PROVE IInv
  OBVIOUS
<1>1. <<>> \in Seq(Nat) /\ MaxPresses \in Nat /\ <<>> \in Codes
  BY TextsAssumption
<1>2. 0 \in 0..MaxPresses
  BY <1>1
<1> QED
  BY <1>1, <1>2 DEF Init, IInv, TypeOK, SearchIsComplete, Sought, Rounds

\* Without a text to search for there is nothing to find.
LEMMA ClearInv ==
    ASSUME TypeOK, ~searching, clear_search, UNCHANGED loop,
           c_code' \in Codes, display' \in Codes \cup Errors, anchor' \in Nat, position' \in Nat
    PROVE  IInv'
<1>1. <<>> \in Seq(Nat) /\ MaxPresses \in Nat
  BY TextsAssumption
<1>2. 0 \in 0..MaxPresses
  BY <1>1
<1>3. TypeOK'
  BY <1>1, <1>2 DEF TypeOK, clear_search, loop
<1> QED
  BY <1>3 DEF clear_search, loop, IInv, SearchIsComplete, Sought, Rounds

LEMMA BeginInv ==
    ASSUME TypeOK, Begin(bar'), bar' \in Queries
    PROVE  IInv'
<1> USE DEF Begin, search, cursor
<1>1. <<>> \in Seq(Nat) /\ bar' # <<>>
  BY TextsAssumption
<1>2. TypeOK'
  BY <1>1 DEF TypeOK
<1>3. Occurrences(found)'
  BY DEF Occurrences
<1>4. NoneMissed(found, start)'
  BY DEF NoneMissed
<1>5. Sought'
  BY <1>1, <1>3, <1>4 DEF Sought
<1> QED
  BY <1>2, <1>5 DEF IInv, SearchIsComplete, Rounds

\* Occurrences found earlier end before this one begins, and there is none
\* between.
LEMMA FindInv ==
    ASSUME IInv, Find
    PROVE  IInv'
<1> USE DEF search, cursor
<1>1. PICK n \in start..Len(c_code) :
        /\ searching /\ Occurs(bar, c_code, n)
        /\ \A m \in start..n - 1 : ~Occurs(bar, c_code, m)
        /\ found' = Append(found, n) /\ start' = n + Len(bar)
        /\ UNCHANGED <<c_code, display, bar, search, cursor, searching>>
  BY DEF Find
<1> DEFINE L == Len(bar)
<1>t. /\ TypeOK /\ found \in Seq(Nat) /\ start \in Nat /\ n \in Nat /\ start <= n
      /\ L \in Nat /\ Len(c_code) \in Nat /\ bar # <<>> /\ L > 0
  <2>1. TypeOK /\ bar # <<>>
    BY <1>1 DEF IInv, Sought
  <2>2. L \in Nat /\ Len(c_code) \in Nat /\ L > 0
    BY <2>1, Texts
  <2> QED
    BY <2>1, <2>2 DEF TypeOK
<1>2. /\ Occurrences(found) /\ NoneMissed(found, start)
      /\ \A i \in DOMAIN found : found[i] + L <= start
  BY <1>1 DEF IInv, Sought
<1> HIDE DEF L
<1>3. /\ found' \in Seq(Nat) /\ Len(found) \in Nat
      /\ DOMAIN found = 1..Len(found) /\ DOMAIN found' = 1..Len(found) + 1
      /\ \A i \in 1..Len(found) : found'[i] = found[i] /\ found[i] \in Nat
      /\ found'[Len(found) + 1] = n
  <2>1. /\ Append(found, n) \in Seq(Nat) /\ Len(Append(found, n)) = Len(found) + 1
        /\ \A i \in 1..Len(found) : Append(found, n)[i] = found[i]
        /\ Append(found, n)[Len(found) + 1] = n
    BY <1>t, AppendProperties
  <2>2. Len(found) \in Nat /\ DOMAIN found = 1..Len(found) /\ \A i \in 1..Len(found) : found[i] \in Nat
    BY <1>t
  <2>3. DOMAIN Append(found, n) = 1..Len(Append(found, n))
    BY <2>1
  <2> QED
    BY <1>1, <2>1, <2>2, <2>3
<1>4. start' = n + L /\ bar' = bar /\ c_code' = c_code /\ searching'
  BY <1>1 DEF L
<1>5. TypeOK'
  BY <1>1, <1>t, <1>3, <1>4 DEF TypeOK
<1>6. Occurrences(found)'
  <2>1. ASSUME NEW i \in DOMAIN found' PROVE Occurs(bar, c_code, found'[i])
    BY <1>1, <1>2, <1>3 DEF Occurrences
  <2>2. ASSUME NEW i \in DOMAIN found', NEW j \in DOMAIN found', i < j
        PROVE  found'[i] + L <= found'[j]
    <3>1. i \in 1..Len(found)
      BY <1>3, <2>2
    <3>2. CASE j \in 1..Len(found)
      BY <1>2, <1>3, <2>2, <3>1, <3>2 DEF Occurrences, L
    <3>3. CASE j = Len(found) + 1
      <4>1. found'[i] = found[i] /\ found'[j] = n /\ found[i] \in Nat
        BY <1>3, <3>1, <3>3
      <4>2. found[i] + L <= start
        BY <1>2, <1>3, <3>1
      <4>3. start <= n /\ start \in Nat /\ n \in Nat /\ L \in Nat
        BY <1>1, <1>t
      <4> QED
        BY <4>1, <4>2, <4>3
    <3> QED
      BY <1>3, <2>2, <3>2, <3>3
  <2>3. \A m : Occurs(bar, c_code, m)' <=> Occurs(bar, c_code, m)
    BY <1>4 DEF Occurs
  <2>4. \A i \in DOMAIN found' : Occurs(bar', c_code', found'[i])
    BY <2>1, <1>4
  <2> QED
    BY <2>2, <2>4, <1>4 DEF Occurrences, L
<1>7. NoneMissed(found, start)'
  <2> SUFFICES ASSUME NEW m \in 0..Len(c_code), m < n + L, Occurs(bar, c_code, m)
               PROVE  \E i \in DOMAIN found' : found'[i] <= m /\ m < found'[i] + L
    BY <1>4 DEF NoneMissed, L
  <2>1. CASE m < start
    <3>1. PICK i \in DOMAIN found : found[i] <= m /\ m < found[i] + L
      BY <1>2, <2>1 DEF NoneMissed, L
    <3>2. i \in DOMAIN found' /\ found'[i] = found[i]
      BY <1>3
    <3> QED
      BY <3>1, <3>2
  <2>2. CASE start <= m /\ m < n
    BY <1>1, <1>t, <2>2
  <2>3. CASE n <= m
    BY <1>3, <2>3
  <2> QED
    BY <1>t, <2>1, <2>2, <2>3
<1>8. \A i \in DOMAIN found' : found'[i] + L <= start'
  <2> TAKE i \in DOMAIN found'
  <2>1. CASE i \in 1..Len(found)
    <3>1. found'[i] = found[i] /\ found[i] \in Nat /\ found[i] + L <= start
      BY <1>2, <1>3, <2>1
    <3>2. start <= n /\ start \in Nat /\ n \in Nat /\ L \in Nat /\ start' = n + L
      BY <1>1, <1>t, <1>4
    <3> QED
      BY <3>1, <3>2
  <2>2. CASE i = Len(found) + 1
    BY <1>3, <1>4, <1>t, <2>2
  <2> QED
    BY <1>3, <2>1, <2>2
<1>9. Sought'
  BY <1>4, <1>6, <1>7, <1>8, <1>t DEF Sought, L
<1> QED
  BY <1>4, <1>5, <1>9 DEF IInv, SearchIsComplete, Rounds

\* Everything has been looked at.
LEMMA SearchedInv ==
    ASSUME IInv, Searched
    PROVE  IInv'
<1> USE DEF Searched, cursor
<1>t. TypeOK /\ found \in Seq(Nat) /\ start \in Nat /\ Len(c_code) \in Nat /\ Len(bar) \in Nat
      /\ Len(found) \in Nat /\ DOMAIN found = 1..Len(found) /\ MaxPresses \in Nat
  BY Texts, TextsAssumption DEF IInv, TypeOK
<1>1. bar # <<>> /\ Occurrences(found) /\ NoneMissed(found, start)
  BY DEF IInv, Sought
<1>2. found # <<>> => 1 \in DOMAIN found /\ found[1] \in Nat /\ 0 < Len(found)
  BY <1>t
<1>3. anchor' \in Nat /\ position' \in Nat
  <2>1. CASE found = <<>>
    BY <1>t, <2>1 DEF TypeOK
  <2>2. CASE found # <<>>
    BY <1>t, <1>2, <2>2, HighlightType
  <2> QED
    BY <2>1, <2>2
<1>4. visited' = {found[i] : i \in {i \in DOMAIN found : i <= 1}}
  <2>1. CASE found = <<>>
    BY <2>1
  <2>2. CASE found # <<>>
    <3>1. {i \in DOMAIN found : i <= 1} = {1}
      BY <1>t, <1>2, <2>2
    <3> QED
      BY <2>2, <3>1
  <2> QED
    BY <2>1, <2>2
<1>5. visited' \subseteq Nat
  BY <1>2
<1>6. 0 \in 0..MaxPresses
  BY <1>t
<1>7. TypeOK'
  BY <1>t, <1>2, <1>3, <1>5, <1>6 DEF TypeOK
<1>8. NoneMissed(found, Len(c_code) + 1)
  BY <1>1, <1>t DEF NoneMissed
<1>9. SearchIsComplete'
  BY <1>1, <1>8 DEF SearchIsComplete, Occurrences, NoneMissed, Occurs
<1>10. Rounds'
  BY <1>4 DEF Rounds
<1> QED
  BY <1>7, <1>9, <1>10 DEF IInv, Sought

\* An index that counts from 0 is one that counts from 1.
LEMMA Shifted ==
    ASSUME NEW i \in Nat, NEW k \in Nat, i < k
    PROVE  i + 1 \in 1..k
OBVIOUS

\* Another result is highlighted: the next one, or the first again.
LEMMA NextResultInv ==
    ASSUME IInv, _on_search_next, results # <<>>
    PROVE  IInv'
<1> USE DEF loop
<1>1. /\ ~searching /\ presses < MaxPresses /\ presses' = presses + 1
      /\ index' = Following
      /\ visited' = visited \cup {results[index' + 1]}
      /\ highlight(results[index' + 1], Len(bar))
      /\ UNCHANGED <<c_code, display, bar, results, loop>>
  BY DEF _on_search_next
<1> DEFINE n == Len(results)
<1>t. /\ TypeOK /\ results \in Seq(Nat) /\ n \in Nat /\ n > 0 /\ DOMAIN results = 1..n
      /\ index \in Nat /\ index < n /\ presses \in Nat /\ Len(bar) \in Nat /\ MaxPresses \in Nat
      /\ \A i \in 1..n : results[i] \in Nat
  <2>1. TypeOK
    BY DEF IInv
  <2>2. /\ results \in Seq(Nat) /\ index \in Nat /\ index < Len(results)
        /\ presses \in 0..MaxPresses
    BY <2>1 DEF TypeOK
  <2>3. MaxPresses \in Nat
    BY Zenon, TextsAssumption
  <2>4. presses \in Nat
    BY <2>2, <2>3
  <2>5. Len(bar) \in Nat
    BY <2>1, Texts, Zenon
  <2>6. n \in Nat /\ DOMAIN results = 1..n /\ \A i \in 1..n : results[i] \in Nat
    BY <2>2
  <2>7. n > 0
    BY <2>2, <2>6
  <2> QED
    BY <2>1, <2>2, <2>3, <2>4, <2>5, <2>6, <2>7, Zenon
<1>2. /\ index' \in Nat /\ index' < n
      /\ index + 1 < n => index' = index + 1
  BY <1>1, <1>t, Modulo DEF Following
<1>3. index' + 1 \in DOMAIN results /\ results[index' + 1] \in Nat
  <2>1. DOMAIN results = 1..n
    BY <1>t
  <2>2. index' + 1 \in 1..n
    <3>1. index' \in Nat /\ n \in Nat /\ index' < n
      BY <1>t, <1>2, Zenon
    <3> HIDE DEF n
    <3> QED
      BY <3>1, Shifted, Zenon
  <2>3. results[index' + 1] \in Nat
    BY <1>t, <2>2, Zenon
  <2> QED
    BY <2>1, <2>2, <2>3, Zenon
<1>4. anchor' \in Nat /\ position' \in Nat
  BY <1>1, <1>t, <1>3, HighlightType
<1>5. presses' \in 0..MaxPresses /\ visited' \subseteq Nat
  <2>1. presses' \in 0..MaxPresses
    <3> HIDE DEF n
    <3> QED
      BY <1>1, <1>t
  <2>2. visited \subseteq Nat
    BY <1>t DEF TypeOK
  <2>3. visited' \subseteq Nat
    BY <1>1, <1>3, <2>2, Zenon
  <2> QED
    BY <2>1, <2>3
<1>6. TypeOK'
  BY <1>1, <1>t, <1>2, <1>4, <1>5 DEF TypeOK
<1>7. SearchIsComplete'
  BY <1>1 DEF IInv, SearchIsComplete, Occurrences, NoneMissed, Occurs
<1>8. Rounds'
  <2>1. /\ presses < n => index = presses
        /\ visited = {results[i] : i \in {i \in DOMAIN results : i <= presses + 1}}
    BY <1>1 DEF IInv, Rounds
  <2>2. presses' < n => index' = presses'
    BY <1>1, <1>2, <1>t, <2>1
  <2>3. visited' = {results[i] : i \in {i \in DOMAIN results : i <= presses' + 1}}
    <3>1. CASE presses' < n
      <4>1. index' + 1 = presses' + 1
        BY <2>2, <3>1
      <4>2. {i \in DOMAIN results : i <= presses' + 1}
              = {i \in DOMAIN results : i <= presses + 1} \cup {index' + 1}
        BY <4>1, <1>1, <1>3, <1>t
      <4> QED
        BY <4>2, <2>1, <1>1
    <3>2. CASE ~(presses' < n)
      <4>1. {i \in DOMAIN results : i <= presses' + 1} = DOMAIN results
            /\ {i \in DOMAIN results : i <= presses + 1} = DOMAIN results
        BY <3>2, <1>1, <1>t
      <4>2. visited = {results[i] : i \in DOMAIN results}
        BY <4>1, <2>1
      <4> QED
        BY <4>1, <4>2, <1>1, <1>3
    <3> QED
      BY <3>1, <3>2
  <2> QED
    BY <1>1, <2>2, <2>3 DEF Rounds
<1> QED
  BY <1>1, <1>6, <1>7, <1>8 DEF IInv, Sought

LEMMA NextInv ==
    ASSUME IInv, [Next]_vars
    PROVE  IInv'
<1>t. TypeOK
  BY DEF IInv
<1>1. CASE set_code
  <2>1. PICK t \in Codes : ~searching /\ c_code' = t /\ setPlainText(t) /\ clear_search /\ UNCHANGED loop
    BY <1>1 DEF set_code
  <2>2. display' \in Codes \cup Errors /\ anchor' \in Nat /\ position' \in Nat
    BY <2>1 DEF setPlainText
  <2> QED
    BY <1>t, <2>1, <2>2, ClearInv
<1>2. CASE set_error
  <2>1. PICK t \in Errors : setPlainText(t) /\ UNCHANGED <<c_code, bar, search, loop>>
    BY <1>2 DEF set_error
  <2> USE DEF search, loop, setPlainText
  <2>2. TypeOK'
    BY <1>t, <2>1 DEF TypeOK
  <2> QED
    BY <2>1, <2>2 DEF IInv, SearchIsComplete, Sought, Rounds, Occurrences, NoneMissed, Occurs
<1>3. CASE _on_search_changed
  <2>1. PICK q \in Queries \cup {<<>>} : ~searching /\ search_text(q)
    BY <1>3 DEF _on_search_changed
  <2>2. CASE q = <<>>
    <3>1. clear_search /\ UNCHANGED <<c_code, display, cursor, loop>>
      BY <2>1, <2>2 DEF search_text
    <3> QED
      BY <1>t, <2>1, <3>1, ClearInv DEF TypeOK, cursor
  <2>3. CASE q # <<>>
    <3>1. Begin(q) /\ bar' = q /\ q \in Queries
      BY <2>1, <2>3 DEF search_text
    <3>2. Begin(bar') /\ bar' \in Queries
      BY <3>1 DEF Begin
    <3> QED
      BY <1>t, <3>2, BeginInv
  <2> QED
    BY <2>2, <2>3
<1>4. CASE Find
  BY <1>4, FindInv
<1>5. CASE Searched
  BY <1>5, SearchedInv
<1>6. CASE _on_search_next
  <2>1. CASE results = <<>>
    <3>1. bar # <<>> /\ Begin(bar) /\ bar' = bar
      BY <1>6, <2>1 DEF _on_search_next
    <3>2. Begin(bar') /\ bar' \in Queries
      BY <1>t, <3>1 DEF Begin, TypeOK
    <3> QED
      BY <1>t, <3>2, BeginInv
  <2>2. CASE results # <<>>
    BY <1>6, <2>2, NextResultInv
  <2> QED
    BY <2>1, <2>2
<1>7. CASE DoubleClick
  <2>1. PICK a, b \in 0..Units(display, Len(display)) :
          anchor' = a /\ position' = b /\ UNCHANGED <<c_code, display, bar, search, loop>>
    BY <1>7 DEF DoubleClick
  <2>2. a \in Nat /\ b \in Nat
    OBVIOUS
  <2> USE DEF search, loop
  <2>3. TypeOK'
    BY <1>t, <2>1, <2>2 DEF TypeOK
  <2> QED
    BY <2>1, <2>3 DEF IInv, SearchIsComplete, Sought, Rounds, Occurrences, NoneMissed, Occurs
<1>8. CASE UNCHANGED vars
  <2> USE <1>8 DEF vars, search, loop, cursor
  <2>1. TypeOK'
    BY <1>t DEF TypeOK
  <2> QED
    BY <2>1 DEF IInv, SearchIsComplete, Sought, Rounds, Occurrences, NoneMissed, Occurs
<1> QED
  BY <1>1, <1>2, <1>3, <1>4, <1>5, <1>6, <1>7, <1>8 DEF Next

----------------------------------------------------------------------------
(* What is highlighted *)

\* Where every character is one unit, highlight selects n characters from pos on.
LEMMA HighlightSelects ==
    ASSUME TypeOK, display' = display, Narrow(display), NEW pos \in Nat, NEW n \in Nat,
           pos + n <= Len(display), highlight(pos, n)
    PROVE  Selected' = pos + 1 .. pos + n
<1>1. display \in Seq(Chars) /\ Len(display) \in Nat
  BY Texts
<1>2. \A k \in 0..Len(display) : Units(display, k) = k
  BY <1>1, NarrowUnits
<1>3. Units(display, Len(display)) = Len(display)
  BY <1>1, <1>2
<1>4. anchor' = pos /\ position' = pos + n
  BY <1>1, <1>3 DEF highlight
<1>5. Selected' = {i \in 1..Len(display) : anchor' <= Units(display, i - 1) /\ Units(display, i - 1) < position'}
  BY DEF Selected, Units
<1>6. \A i \in 1..Len(display) : Units(display, i - 1) = i - 1
  BY <1>1, <1>2
<1>7. Selected' = {i \in 1..Len(display) : pos <= i - 1 /\ i - 1 < pos + n}
  BY <1>4, <1>5, <1>6
<1> QED
  BY <1>1, <1>7

LEMMA StepSelects ==
    ASSUME IInv, Searched \/ _on_search_next, ~searching', results' # <<>>,
           display = c_code, Narrow(c_code)
    PROVE  Selected' = results'[index' + 1] + 1 .. results'[index' + 1] + Len(bar)
<1>t. /\ TypeOK /\ TypeOK' /\ SearchIsComplete'
  <2>1. IInv'
    BY NextInv DEF Next
  <2> QED
    BY <2>1 DEF IInv
<1>1. /\ display' = display /\ bar' = bar /\ c_code' = c_code
      /\ highlight(results'[index' + 1], Len(bar))
  <2>1. CASE Searched
    BY <2>1 DEF Searched
  <2>2. CASE _on_search_next
    BY <2>2 DEF _on_search_next, Begin
  <2> QED
    BY <2>1, <2>2
<1> DEFINE pos == results'[index' + 1]
<1>2. index' + 1 \in DOMAIN results' /\ pos \in Nat
  <2>1. results' \in Seq(Nat) /\ index' \in Nat /\ index' < Len(results')
    BY <1>t DEF TypeOK
  <2>2. DOMAIN results' = 1..Len(results') /\ Len(results') \in Nat
    BY <2>1
  <2>3. index' + 1 \in 1..Len(results')
    BY <2>1, <2>2, Shifted, Zenon
  <2>4. \A i \in 1..Len(results') : results'[i] \in Nat
    BY <2>1
  <2> QED
    BY <2>2, <2>3, <2>4, Zenon
<1>3. bar' # <<>>
  BY <1>t DEF SearchIsComplete
<1>4. Occurrences(results)'
  BY <1>t, <1>3 DEF SearchIsComplete
<1>5. \A i \in DOMAIN results' : results'[i] + Len(bar') <= Len(c_code')
  BY <1>4 DEF Occurrences, Occurs
<1>6. Len(bar) \in Nat
  BY <1>t, Texts
<1> HIDE DEF pos
<1>7. pos + Len(bar) <= Len(display) /\ highlight(pos, Len(bar))
  BY <1>1, <1>2, <1>5 DEF pos
<1>8. Narrow(display)
  BY DEF Narrow
<1> QED
  BY <1>t, <1>1, <1>2, <1>6, <1>7, <1>8, HighlightSelects DEF pos

----------------------------------------------------------------------------
(* Theorems *)

\* The inductive invariant holds in every reachable state.
THEOREM Inductive == Spec => []IInv
<1>1. Init => IInv
  BY Initially
<1>2. IInv /\ [Next]_vars => IInv'
  BY NextInv
<1> QED
  BY <1>1, <1>2, PTL DEF Spec

\* The variables keep their types, and the index is that of a result.
THEOREM TypeCorrect == Spec => []TypeOK
<1>1. IInv => TypeOK
  BY DEF IInv
<1> QED
  BY <1>1, Inductive, PTL

\* search_text misses no occurrence of any text in any code, and its results
\* never outlive the code or the text.
THEOREM SearchFindsAll == Spec => []SearchIsComplete
<1>1. IInv => SearchIsComplete
  BY DEF IInv
<1> QED
  BY <1>1, Inductive, PTL

\* _on_search_next comes by every result.
THEOREM NextReachesAll == Spec => []NextGoesRound
<1>1. IInv => NextGoesRound
  <2> SUFFICES ASSUME IInv, ~searching, results # <<>>, presses + 1 >= Len(results)
               PROVE  visited = {results[i] : i \in DOMAIN results}
    BY DEF NextGoesRound
  <2>1. visited = {results[i] : i \in {i \in DOMAIN results : i <= presses + 1}}
    BY DEF IInv, Rounds
  <2>2. Len(results) \in Nat /\ DOMAIN results = 1..Len(results) /\ presses \in Nat
    BY TextsAssumption DEF IInv, TypeOK
  <2>3. {i \in DOMAIN results : i <= presses + 1} = DOMAIN results
    BY <2>2
  <2> QED
    BY <2>1, <2>3
<1> QED
  BY <1>1, Inductive, PTL

\* What a search highlights is the occurrence it speaks of.
THEOREM HighlightIsRight == Spec => FoundIsSelected
<1>1. IInv /\ [Next]_vars =>
        [(Searched \/ _on_search_next) /\ ~searching' /\ results' # <<>>
          /\ display = c_code /\ Narrow(c_code) =>
            Selected' = results'[index' + 1] + 1 .. results'[index' + 1] + Len(bar)]_vars
  BY StepSelects
<1> QED
  BY <1>1, Inductive, PTL DEF Spec, FoundIsSelected

\* The loop of search_text ends for every query and every code.
THEOREM SearchEnds == Spec => SearchGoesForward
<1>1. ASSUME IInv, [Next]_vars, searching, searching', ~UNCHANGED vars
      PROVE  c_code' = c_code /\ bar' = bar /\ start < start' /\ start' <= Len(c_code)
  <2>1. Find
    BY <1>1 DEF Next, set_code, set_error, _on_search_changed, Searched, _on_search_next, DoubleClick
  <2>2. PICK n \in start..Len(c_code) :
          /\ Occurs(bar, c_code, n) /\ start' = n + Len(bar)
          /\ c_code' = c_code /\ bar' = bar
    BY <2>1 DEF Find
  <2>3. c_code \in Seq(Chars) /\ bar \in Seq(Chars) /\ bar # <<>> /\ start \in Nat
    BY <1>1, TextsAssumption DEF IInv, TypeOK, Sought
  <2>4. Len(c_code) \in Nat /\ Len(bar) \in Nat \ {0}
    BY <2>3, EmptySeq
  <2> QED
    BY <2>2, <2>3, <2>4 DEF Occurs
<1>2. IInv /\ [Next]_vars =>
        [searching /\ searching' =>
            c_code' = c_code /\ bar' = bar /\ start < start' /\ start' <= Len(c_code)]_vars
  BY <1>1
<1> QED
  BY <1>2, Inductive, PTL DEF Spec, SearchGoesForward
=============================================================================
