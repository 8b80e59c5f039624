------------------------------ MODULE Selection ------------------------------
(***************************************************************************)
(* SelectSeq, written with the positions of what is selected.              *)
(***************************************************************************)
EXTENDS Naturals, Sequences, FiniteSets

\* how many elements of S are not above i
Rank(S, i) == Cardinality({j \in S : j <= i})

\* what stands at the positions S of s, in the order of s
Selected(s, S) ==
    [k \in 1..Cardinality(S) |-> s[CHOOSE i \in S : Rank(S, i) = k]]

\* the elements of s for which P holds
Those(s, P(_)) == Selected(s, {i \in DOMAIN s : P(s[i])})
=============================================================================
