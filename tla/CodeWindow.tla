----------------------------- MODULE CodeWindow -----------------------------
(***************************************************************************)
(* DecompilerWidget: the code on display, and the search bar over it.      *)
(* Everything runs in Qt's event thread: while a search goes on nothing    *)
(* else does.  Positions in Python count characters; in Qt they count the  *)
(* units of UTF-16, of which some characters have two.                     *)
(***************************************************************************)
EXTENDS Integers, Sequences, FiniteSets

CONSTANTS
    Codes,     \* texts that Ghidra may return
    Errors,    \* texts that may be displayed instead
    Queries,   \* texts to search for
    Wide,      \* characters of two units
    Chars,     \* all characters
    MaxPresses \* bound on the times "Next" is pressed after a search

ASSUME TextsAssumption ==
    /\ Codes \cup Errors \cup Queries \subseteq Seq(Chars)
    /\ <<>> \in Codes /\ <<>> \notin Queries
    /\ Wide \subseteq Chars /\ MaxPresses \in Nat

VARIABLES
    c_code,   \* the code of the last decompilation that succeeded
    display,  \* the text on display
    bar,      \* the text of the search bar
    results, index,  \* where it is found, and which of those is highlighted
    anchor, position,  \* the text cursor: what is between is selected
    searching, start, found,  \* search_text: its loop, and its locals
    presses,  \* history: how often "Next" was pressed since the search
    visited   \* history: the results that were highlighted since then

search == <<results, index, presses, visited>>
loop == <<searching, start, found>>
cursor == <<anchor, position>>
vars == <<c_code, display, bar, search, cursor, loop>>

\* Units before position n of text t.
Units(t, n) == n + Cardinality({i \in 1..n : t[i] \in Wide})

\* The query stands at position n of the code.
Occurs(q, t, n) ==
    /\ n + Len(q) <= Len(t)
    /\ \A i \in 1..Len(q) : t[n + i] = q[i]

Init ==
    /\ c_code = <<>> /\ display = <<>> /\ bar = <<>>
    /\ results = <<>> /\ index = 0 /\ presses = 0 /\ visited = {}
    /\ anchor = 0 /\ position = 0
    /\ searching = FALSE /\ start = 0 /\ found = <<>>
-----------------------------------------------------------------------------
(* The text *)

Bug_clear_search ==
    bar' = <<>> /\ UNCHANGED search

\* The bar is cleared, which has no effect of its own.
clear_search ==
    /\ bar' = <<>> /\ results' = <<>> /\ index' = 0
    /\ presses' = 0 /\ visited' = {}

\* setPlainText puts the cursor at the start.
setPlainText(t) ==
    display' = t /\ anchor' = 0 /\ position' = 0

set_code ==
    \E t \in Codes :
        /\ ~searching /\ c_code' = t /\ setPlainText(t) /\ clear_search
        /\ UNCHANGED loop

\* The code that was there before remains what is searched.
set_error ==
    \E t \in Errors :
        /\ ~searching /\ setPlainText(t)
        /\ UNCHANGED <<c_code, bar, search, loop>>
-----------------------------------------------------------------------------
(* Search *)

\* Where Qt puts the cursor, which ignores positions beyond the text.
Bug_highlight(pos, n) ==
    /\ anchor' = IF pos <= Units(display, Len(display)) THEN pos ELSE anchor
    /\ position' = IF pos + n < Units(display, Len(display)) THEN pos + n ELSE anchor'

highlight(pos, n) ==
    LET last == Units(display, Len(display))
    IN  /\ anchor' = IF pos <= last THEN pos ELSE anchor
        /\ position' = IF pos + n <= last THEN pos + n
                       ELSE IF pos <= last THEN pos ELSE position

\* search_text begins.
Begin(q) ==
    /\ searching' = TRUE /\ start' = 0 /\ found' = <<>>
    /\ UNCHANGED <<c_code, display, search, cursor>>

search_text(q) ==
    IF q = <<>>
    THEN clear_search /\ UNCHANGED <<c_code, display, cursor, loop>>
    ELSE Begin(q) /\ bar' = q

\* Live search.
_on_search_changed ==
    \E q \in Queries \cup {<<>>} :
        ~searching /\ q # bar /\ search_text(q)

\* text.find: the first occurrence from start on; the next is sought after it.
Find ==
    \E n \in start..Len(c_code) :
        /\ searching /\ Occurs(bar, c_code, n)
        /\ \A m \in start..n - 1 : ~Occurs(bar, c_code, m)
        /\ found' = Append(found, n) /\ start' = n + Len(bar)
        /\ UNCHANGED <<c_code, display, bar, search, cursor, searching>>

Bug_Searched ==
    /\ searching /\ \A m \in start..Len(c_code) : ~Occurs(bar, c_code, m)
    /\ searching' = FALSE /\ results' = found /\ index' = index /\ presses' = 0
    /\ IF found = <<>> THEN visited' = {} /\ UNCHANGED cursor
       ELSE visited' = {found[1]} /\ highlight(found[1], Len(bar))
    /\ UNCHANGED <<c_code, display, bar, start, found>>

\* None is left.  The first result is highlighted.
Searched ==
    /\ searching /\ \A m \in start..Len(c_code) : ~Occurs(bar, c_code, m)
    /\ searching' = FALSE /\ results' = found /\ index' = 0 /\ presses' = 0
    /\ IF found = <<>> THEN visited' = {} /\ UNCHANGED cursor
       ELSE visited' = {found[1]} /\ highlight(found[1], Len(bar))
    /\ UNCHANGED <<c_code, display, bar, start, found>>

Bug_Following == IF index + 1 >= Len(results) - 1 THEN 0 ELSE index + 1

Following == (index + 1) % Len(results)

\* The search is made again if it had no results.
_on_search_next ==
    /\ ~searching
    /\ \/ results = <<>> /\ bar # <<>> /\ Begin(bar) /\ UNCHANGED bar
       \/ /\ results # <<>> /\ presses < MaxPresses /\ presses' = presses + 1
          /\ index' = Following
          /\ visited' = visited \cup {results[index' + 1]}
          /\ highlight(results[index' + 1], Len(bar))
          /\ UNCHANGED <<c_code, display, bar, results, loop>>

\* The user selects something.  (A click alone does nothing: _on_code_click
\* raises before anything else.)
DoubleClick ==
    \E a, b \in 0..Units(display, Len(display)) :
        /\ ~searching /\ a < b /\ anchor' = a /\ position' = b
        /\ UNCHANGED <<c_code, display, bar, search, loop>>

Next ==
    \/ set_code \/ set_error \/ _on_search_changed \/ Find \/ Searched \/ _on_search_next
    \/ DoubleClick

Spec == Init /\ [][Next]_vars
=============================================================================
