----------------------------- MODULE Activation -----------------------------
(***************************************************************************)
(* What the activation sequence of the global channel promises: server and *)
(* client hand over from one share to the next.  A share is offered,       *)
(* opened by the server, entered by the client, closed by the server and   *)
(* left by the client, in this order, and no share is opened before the    *)
(* client has left the one before.                                         *)
(*                                                                         *)
(* Shares are numbered in the order they are offered.  The code behind it  *)
(* is the ClientState chain of src/core/global.rs; Session implements this *)
(* specification.                                                          *)
(***************************************************************************)
EXTENDS Naturals

VARIABLES
    offered,  \* last share the server offered
    opened,   \* last share the server opened (sent the font map of)
    closed,   \* last share the server closed
    entered,  \* last share the client entered
    active    \* the share the client is in, 0 for none

shareVars == <<offered, opened, closed, entered, active>>

Init ==
    /\ offered = 0 /\ opened = 0 /\ closed = 0
    /\ entered = 0 /\ active = 0

Offer ==
    /\ offered = closed
    /\ offered' = offered + 1
    /\ UNCHANGED <<opened, closed, entered, active>>

Open ==
    /\ opened < offered
    /\ active = 0 /\ entered = opened
    /\ opened' = offered
    /\ UNCHANGED <<offered, closed, entered, active>>

Enter ==
    /\ active = 0 /\ entered < opened
    /\ active' = opened
    /\ entered' = opened
    /\ UNCHANGED <<offered, opened, closed>>

Close ==
    /\ closed < opened
    /\ closed' = opened
    /\ UNCHANGED <<offered, opened, entered, active>>

Leave ==
    /\ active # 0 /\ closed = active
    /\ active' = 0
    /\ UNCHANGED <<offered, opened, closed, entered>>

Next == Offer \/ Open \/ Enter \/ Close \/ Leave

Spec == Init /\ [][Next]_shareVars
=============================================================================
