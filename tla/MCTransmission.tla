--------------------------- MODULE MCTransmission ---------------------------
(* A read longer than the buffer, and a command of any type.               *)
EXTENDS Transmission, TLC

CONSTANTS k1, k2

TwoCookies == {k1, k2}
ReadAndAny == (k1 :> {"READ"} @@ k2 :> CommandTypes)
Lengths == (k1 :> 3 @@ k2 :> 2)
=============================================================================
