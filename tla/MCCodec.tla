------------------------------ MODULE MCCodec ------------------------------
(* Every message of the connection once, whole, short or followed by two bytes. *)
EXTENDS Codec

TwoBytes == {<<>>, <<3, 0>>}
=============================================================================
