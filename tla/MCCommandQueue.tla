--------------------------- MODULE MCCommandQueue ---------------------------
(***************************************************************************)
(* CommandQueue for TLC: three calls, of any kind by one caller, or one of *)
(* them a request or the shutdown by another.                              *)
(***************************************************************************)
EXTENDS CommandQueue

CONSTANTS c1, c2

MCCallers == {c1, c2}
MCCallsOf == (c1 :> 3) @@ (c2 :> 1)
MCKindsOf == (c1 :> SendKinds \cup LocalKinds) @@ (c2 :> {"request", "shutdown"})
=============================================================================
