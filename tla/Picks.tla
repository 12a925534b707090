------------------------------- MODULE Picks --------------------------------
(***************************************************************************)
(* The elements of a sequence that pass a test, in their order: what       *)
(* SelectSeq gives, without its recursion, which is beyond the prover.     *)
(***************************************************************************)
EXTENDS Naturals, Sequences, FiniteSets

\* A finite set of numbers, the smallest first.
Ascending(S) ==
    [k \in 1 .. Cardinality(S) |-> CHOOSE i \in S : Cardinality({j \in S : j <= i}) = k]

\* A finite set of numbers, the largest first.
Descending(S) == [k \in 1 .. Cardinality(S) |-> Ascending(S)[Cardinality(S) + 1 - k]]

\* The elements of the sequence that are in the set.
Kept(s, S) ==
    LET places == Ascending({i \in DOMAIN s : s[i] \in S})
    IN  [k \in DOMAIN places |-> s[places[k]]]
=============================================================================
