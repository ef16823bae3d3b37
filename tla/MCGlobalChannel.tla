-------------------------- MODULE MCGlobalChannel --------------------------
(***************************************************************************)
(* GlobalChannel for TLC: payloads with every PDU type alone, and the      *)
(* payloads of several PDUs whose order matters to read_data_pdu and to a  *)
(* handshake state: each kind of PDU that from_control fails on behind a   *)
(* Deactivate All, and a few before one.                                   *)
(***************************************************************************)
EXTENDS GlobalChannel

Pdu(type) == [type |-> type, share |-> 0]
Demand(s) == [type |-> "DemandActive", share |-> s]

AnyPayloads ==
    {Raw(<<Pdu(t)>>) : t \in ServerTypes \ {"DemandActive"}}
    \cup {Raw(<<Pdu("DeactivateAll"), Pdu(t)>>) : t \in DOMAIN ControlError}
    \cup {Raw(<<Demand(s)>>) : s \in 1 .. 2}
    \cup {Raw(<<>>),
          Raw(<<Pdu("DeactivateAll"), Demand(2)>>),
          Raw(<<Pdu("Cut"), Pdu("DeactivateAll")>>),
          Raw(<<Pdu("Malformed"), Pdu("DeactivateAll")>>),
          Raw(<<Pdu("DeactivateAll"), Pdu("Malformed"), Pdu("Redirect")>>),
          Raw(<<Pdu("CutData"), Pdu("DeactivateAll"), Pdu("UnknownType"), Pdu("Cut")>>),
          Raw(<<Pdu("Synchronize"), Pdu("Cooperate")>>)}
    \cup {FastPath(<<[type |-> "Bitmap", n |-> 1]>>),
          FastPath(<<[type |-> "Unparsed", n |-> 0], [type |-> "Bitmap", n |-> 2]>>)}
    \cup {Switch(k) : k \in SwitchKinds}
=============================================================================
