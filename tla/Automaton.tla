------------------------------ MODULE Automaton ------------------------------
(***************************************************************************)
(* The automata that Ragel generates for the parsers (.rl.cc), as sets of  *)
(* arcs <<state, characters, next state, actions>>.  In the generated code *)
(* a state s is the label `case s:` with a switch over *p, an arc without  *)
(* actions is `goto st<n>`, an arc with actions is `goto tr<n>`, and a     *)
(* character without an arc leads to st0, the error state, and out.        *)
(*                                                                         *)
(* A character stands for its class: characters that no state of the       *)
(* automaton tells apart are one.                                          *)
(***************************************************************************)
EXTENDS Naturals, Sequences

\* goto st<t>
Go(s, chars, t) == {<<s, chars, t, <<>>>>}

\* goto tr<n>, which runs the actions and goes on to st<t>
Do(s, chars, t, actions) == {<<s, chars, t, actions>>}

\* A chain of states first, first + 1, ... that reads one set of characters
\* after the other and then is in state last.
Chain(first, sets, last) ==
    UNION {Go(first + i - 1, sets[i], IF i = Len(sets) THEN last ELSE first + i)
           : i \in DOMAIN sets}

\* The error state of every generated parser (st0).
ErrorState == 0

\* The switch of each state: for a character its arc, or the error state.
Switch(arcs, states, chars) ==
    [s \in states |->
        LET leaving == {a \in arcs : a[1] = s}
        IN  [c \in chars |->
                IF \E a \in leaving : c \in a[2]
                THEN LET a == CHOOSE a \in leaving : c \in a[2] IN [cs |-> a[3], do |-> a[4]]
                ELSE [cs |-> ErrorState, do |-> <<>>]]]

=============================================================================
