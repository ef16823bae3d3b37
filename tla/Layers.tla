------------------------------- MODULE Layers -------------------------------
(***************************************************************************)
(* What the connection sequence promises: the client asks for a layer, the *)
(* server grants it, the client enters it, and only then it asks for the   *)
(* next one.  A connection that ends leaves nothing behind.                *)
(***************************************************************************)
EXTENDS Naturals

VARIABLES asked, granted, entered, over
vars == <<asked, granted, entered, over>>

Init == asked = 0 /\ granted = 0 /\ entered = 0 /\ over = FALSE

Ask == ~over /\ asked = entered /\ asked' = asked + 1 /\ UNCHANGED <<granted, entered, over>>
Grant == ~over /\ granted < asked /\ granted' = granted + 1 /\ UNCHANGED <<asked, entered, over>>
Enter == ~over /\ entered < granted /\ entered' = entered + 1 /\ UNCHANGED <<asked, granted, over>>
End == ~over /\ over' = TRUE /\ asked' = 0 /\ granted' = 0 /\ entered' = 0

Next == Ask \/ Grant \/ Enter \/ End
Spec == Init /\ [][Next]_vars
=============================================================================
