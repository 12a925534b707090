--------------------------- MODULE MCAnswerOrder ----------------------------
(***************************************************************************)
(* AnswerOrder for TLC: two kinds of answers, and two programs.  One       *)
(* dispatches on one thread while another of its threads writes errors;    *)
(* the other dispatches on two threads and answers itself on a third.      *)
(***************************************************************************)
EXTENDS AnswerOrder

CONSTANTS engine, k1, k2, c1, c2, p1, p2

MCKinds == {k1, k2}

MCPrograms ==
    {[callers |-> {c1}, laters |-> {}, passers |-> {p1}, counts |-> 4, changes |-> 1],
     [callers |-> {}, laters |-> {c2}, passers |-> {p1, p2}, counts |-> 3, changes |-> 0]}
=============================================================================
