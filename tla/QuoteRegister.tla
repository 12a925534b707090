--------------------------- MODULE QuoteRegister ---------------------------
(***************************************************************************)
(* What a quote slot promises to its readers: a register that one writer   *)
(* replaces as a whole and that any number of readers take as a whole.     *)
(* A reader may be behind the writer, but it never goes back to an older   *)
(* quote than one it was already given.  SeqQuote (bridge.rs) implements   *)
(* it without a lock; module SeqQuote is the detailed specification.       *)
(***************************************************************************)
EXTENDS Naturals, Sequences

CONSTANTS
    Readers,        \* the threads that read the slot
    Quotes,         \* the payloads a slot may hold
    DefaultQuote    \* Quote::default(), the payload of a new slot

VARIABLES
    log,            \* every quote the slot has held, oldest first
    last,           \* the position in log of the quote each reader was given last
    snap            \* the quote each reader was given last

vars == <<log, last, snap>>

Init ==
    /\ log = <<DefaultQuote>>
    /\ last = [r \in Readers |-> 1]
    /\ snap = [r \in Readers |-> DefaultQuote]

Write(q) ==
    /\ log' = Append(log, q)
    /\ UNCHANGED <<last, snap>>

Read(r) ==
    \E k \in last[r] .. Len(log) :
        /\ last' = [last EXCEPT ![r] = k]
        /\ snap' = [snap EXCEPT ![r] = log[k]]
        /\ UNCHANGED log

Next ==
    \/ \E q \in Quotes : Write(q)
    \/ \E r \in Readers : Read(r)

Spec == Init /\ [][Next]_vars
=============================================================================
