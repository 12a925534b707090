----------------------------- MODULE MCSeqQuote -----------------------------
(* A slot of two words, the fewest that can be mixed, written three times   *)
(* while two readers read it.  The version has four values, so that it      *)
(* wraps within the three writes.                                           *)
EXTENDS SeqQuote

CONSTANTS w1, w2, r1, r2

MCWords == {w1, w2}
MCReaders == {r1, r2}
MCValues == {0, 1}
MCDefaultQuote == [i \in MCWords |-> 0]
MCQuotes == {[i \in MCWords |-> v] : v \in MCValues}
=============================================================================
