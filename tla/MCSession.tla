----------------------------- MODULE MCSession -----------------------------
(***************************************************************************)
(* Session for TLC.  The payloads of the unconstrained peer of             *)
(* GlobalChannel play no part here.                                        *)
(***************************************************************************)
EXTENDS Session

NoPayloads == {}
=============================================================================
