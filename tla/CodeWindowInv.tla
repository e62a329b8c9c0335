---------------------------- MODULE CodeWindowInv ----------------------------
(* What CodeWindow must satisfy, and the inductive invariant it follows from. *)
EXTENDS CodeWindow

TypeOK ==
    /\ c_code \in Codes /\ display \in Codes \cup Errors /\ bar \in Queries \cup {<<>>}
    /\ results \in Seq(Nat) /\ found \in Seq(Nat) /\ start \in Nat
    /\ index \in Nat /\ (results # <<>> => index < Len(results))
    /\ anchor \in Nat /\ position \in Nat
    /\ searching \in BOOLEAN /\ presses \in 0..MaxPresses /\ visited \subseteq Nat

\* s lists occurrences of the bar's text in the code, of which each begins where
\* the one before it has ended or later.
Occurrences(s) ==
    /\ \A i \in DOMAIN s : Occurs(bar, c_code, s[i])
    /\ \A i, j \in DOMAIN s : i < j => s[i] + Len(bar) <= s[j]

\* No occurrence that begins before n is missed, but for those that overlap one
\* of s.
NoneMissed(s, n) ==
    \A m \in 0..Len(c_code) :
        m < n /\ Occurs(bar, c_code, m) =>
            \E i \in DOMAIN s : s[i] <= m /\ m < s[i] + Len(bar)

\* The results are those of the text in the bar, in the code that was last
\* decompiled, and none is missed: no result of an earlier text or of other code
\* is left to go to.
SearchIsComplete ==
    ~searching =>
        IF bar = <<>> THEN results = <<>>
        ELSE Occurrences(results) /\ NoneMissed(results, Len(c_code) + 1)

\* "Next" goes round: pressed once less than there are results, it has been at
\* each of them.
NextGoesRound ==
    ~searching /\ results # <<>> /\ presses + 1 >= Len(results) =>
        visited = {results[i] : i \in DOMAIN results}

\* The characters of the display that are selected.
Selected ==
    {i \in 1..Len(display) : anchor <= Units(display, i - 1) /\ Units(display, i - 1) < position}

Narrow(t) == \A i \in DOMAIN t : t[i] \notin Wide

\* What a search highlights is the occurrence it speaks of, where the display
\* shows the code that is searched and every character is one unit.
FoundIsSelected ==
    [][(Searched \/ _on_search_next) /\ ~searching' /\ results' # <<>>
        /\ display = c_code /\ Narrow(c_code) =>
            Selected' = results'[index' + 1] + 1 .. results'[index' + 1] + Len(bar)]_vars

\* The loop of search_text ends: each round takes it on, and never beyond the
\* code; a query without characters, which is found everywhere, does not begin it.
SearchGoesForward ==
    [][searching /\ searching' =>
          c_code' = c_code /\ bar' = bar /\ start < start' /\ start' <= Len(c_code)]_vars
-----------------------------------------------------------------------------
(* What makes them inductive *)

\* The loop has looked at everything before start.
Sought ==
    searching =>
        /\ bar # <<>> /\ Occurrences(found) /\ NoneMissed(found, start)
        /\ \A i \in DOMAIN found : found[i] + Len(bar) <= start

Rounds ==
    ~searching /\ results # <<>> =>
        /\ presses < Len(results) => index = presses
        /\ visited = {results[i] : i \in {i \in DOMAIN results : i <= presses + 1}}

IInv == TypeOK /\ SearchIsComplete /\ Sought /\ Rounds
=============================================================================
