----------------------------- MODULE FrameQueue -----------------------------
(***************************************************************************)
(* What the transport promises its users (src/core/tpkt.rs: read is to     *)
(* "provide a well formed payload"): a queue of frames.  What is read is   *)
(* the body of the oldest frame not yet read, whole and unchanged.         *)
(***************************************************************************)
EXTENDS Sequences

CONSTANT Body  \* bodies a frame may have

VARIABLES queue, received

Init == queue = <<>> /\ received = <<>>

Send(body) ==
    /\ queue' = Append(queue, body)
    /\ UNCHANGED received

Receive ==
    /\ queue # <<>>
    /\ received' = Append(received, Head(queue))
    /\ queue' = Tail(queue)

Next == Receive \/ \E body \in Body : Send(body)

Spec == Init /\ [][Next]_<<queue, received>>
=============================================================================
