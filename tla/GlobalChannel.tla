--------------------------- MODULE GlobalChannel ---------------------------
(***************************************************************************)
(* The global channel of the client (src/core/global.rs) as seen through   *)
(* RdpClient::read, write, try_write and shutdown (src/core/client.rs),    *)
(* against a peer that may send any payload at any time.                   *)
(*                                                                         *)
(* The client walks from DemandActivePDU to Data, one server PDU per       *)
(* state; a Demand Active PDU makes it answer with five PDUs in one call,  *)
(* and a Deactivate All PDU takes it back to the start.  The link may drop *)
(* between any two of the writes of a call.                                *)
(*                                                                         *)
(* s2c is the queue of payloads not yet read, c2s the log of every PDU the *)
(* client has put on the link (it is never shortened: properties look at   *)
(* it as a whole).                                                         *)
(***************************************************************************)
EXTENDS Naturals, Sequences, FiniteSets

CONSTANTS
    Tls,        \* is the link a TLS stream?  Link::shutdown acts on TLS only
    Payloads,   \* payloads the peer may send in a run, a subset of Payload
    MaxQueue,   \* bound: payloads in flight towards the client
    MaxSent,    \* bound: PDUs the client writes
    MaxEvents   \* bound: fast path updates gone through

VARIABLES
    state,                \* Client.state
    share_id,             \* Client.share_id, NoShare for None
    server_capabilities,  \* Client.server_capabilities, one entry per activation
    handled,              \* fast path updates gone through so far; the read
                          \* callback was called for the bitmaps among them
    result,               \* what the last call returned
    link,                 \* "up", or "down" once it was shut down or has failed
    s2c, c2s

clientVars == <<state, share_id, server_capabilities, handled, result>>
linkVars   == <<link, s2c, c2s>>
vars == <<clientVars, linkVars>>

ClientState == {"DemandActivePDU", "SynchronizePDU", "ControlCooperate",
                "ControlGranted", "FontMap", "Data"}

(***************************************************************************)
(* share_id.unwrap_or(0): a client without a share writes share 0.         *)
(***************************************************************************)
NoShare == 0

-----------------------------------------------------------------------------
(***************************************************************************)
(* PDUs.  Of a server PDU the client looks at the type, at the action of a *)
(* Control PDU (three types here) and at the share of a Demand Active PDU. *)
(* Parsing fails in three places, each with errors of its own: Malformed   *)
(* has no whole share control header; DOMAIN ControlError has one, and     *)
(* from_control fails (a type it does not parse, a number that is no type, *)
(* a body cut short, a Confirm Active with another originator); a data PDU *)
(* of DOMAIN DataError has its share data header, and from_pdu fails.      *)
(***************************************************************************)
ControlError == [Redirect |-> "NotImplemented", UnknownType |-> "InvalidCast",
                 Cut |-> "Io", BadConfirm |-> "InvalidConst"]
DataError == [Unparsed |-> "NotImplemented", UnknownData |-> "InvalidCast",
              CutData |-> "Io", BadSynchronize |-> "InvalidConst"]

ControlTypes == {"Cooperate", "Granted", "OtherControl"}
ParsedDataTypes == ControlTypes \cup {"Synchronize", "FontMap", "ErrorInfo"}
DataTypes == ParsedDataTypes \cup DOMAIN DataError
ServerTypes == DataTypes \cup DOMAIN ControlError
               \cup {"DemandActive", "ConfirmActive", "DeactivateAll", "Malformed"}
ServerPDU == [type : ServerTypes, share : Nat]

ClientTypes == {"ConfirmActive", "Synchronize", "Cooperate", "RequestControl",
                "FontList", "Input", "Ultimatum"}
ClientPDU == [type : ClientTypes, share : Nat]

\* FastPathUpdate::from_fp: read_fast_path calls back for a Bitmap, drops a
\* Pointer and prints the error of an Unparsed one.  n names a bitmap.
Update == [type : {"Bitmap", "Pointer", "Unparsed"}, n : Nat]

(***************************************************************************)
(* What mcs::Client::read returns: a payload of the global channel, raw or *)
(* fast path, or one of its own outcomes (a Disconnect Provider Ultimatum, *)
(* the user channel, a channel never joined, another MCS opcode).          *)
(***************************************************************************)
Raw(pdus) == [kind |-> "Raw", pdus |-> pdus, updates |-> <<>>]
FastPath(updates) == [kind |-> "FastPath", pdus |-> <<>>, updates |-> updates]
Switch(kind) == [kind |-> kind, pdus |-> <<>>, updates |-> <<>>]
SwitchKinds == {"Disconnect", "UserChannel", "UnknownChannel", "BadOpcode"}

Payload == [kind : {"Raw", "FastPath"} \cup SwitchKinds,
            pdus : Seq(ServerPDU), updates : Seq(Update)]

Errors == {"Io", "InvalidCast", "InvalidConst", "NotImplemented",
           "UnexpectedType", "InvalidAutomata", "Disconnect", "Unknown", "InvalidData"}

ASSUME GlobalAssumption ==
    /\ Tls \in BOOLEAN
    /\ Payloads \subseteq Payload
    /\ MaxQueue \in Nat /\ MaxSent \in Nat /\ MaxEvents \in Nat

-----------------------------------------------------------------------------
TypeOK ==
    /\ state \in ClientState
    /\ share_id \in Nat
    /\ server_capabilities \in Seq(Nat)
    /\ handled \in Seq(Update)
    /\ result \in {"Ok"} \cup Errors
    /\ link \in {"up", "down"}
    /\ s2c \in Seq(Payload)
    /\ c2s \in Seq(ClientPDU)

\* Client::new over a connected link.
Init ==
    /\ state = "DemandActivePDU"
    /\ share_id = NoShare
    /\ server_capabilities = <<>>
    /\ handled = <<>>
    /\ result = "Ok"
    /\ link = "up"
    /\ s2c = <<>>
    /\ c2s = <<>>

-----------------------------------------------------------------------------
(***************************************************************************)
(* Writing.  write_pdu is called once per PDU and `?' stops at the first   *)
(* failure: all of pdus reach the link, or a strict prefix of them does    *)
(* and the link is gone.                                                   *)
(***************************************************************************)
Written(pdus) ==
    /\ link = "up"
    /\ c2s' = c2s \o pdus
    /\ UNCHANGED link

WriteFailed(pdus) ==
    /\ \E k \in 0 .. Len(pdus) - 1 :
          /\ link = "down" => k = 0
          /\ c2s' = c2s \o SubSeq(pdus, 1, k)
    /\ link' = "down"

RoomFor(n) == link = "up" => Len(c2s) + n <= MaxSent

ConfirmActive(s) == [type |-> "ConfirmActive", share |-> s]

\* Faults of Answer: RequestControl after the font list, no font list.
AnswerSwapped(s) ==
    << ConfirmActive(s),
       [type |-> "Synchronize", share |-> s],
       [type |-> "Cooperate", share |-> s],
       [type |-> "FontList", share |-> s],
       [type |-> "RequestControl", share |-> s] >>

AnswerWithoutFontList(s) ==
    << ConfirmActive(s),
       [type |-> "Synchronize", share |-> s],
       [type |-> "Cooperate", share |-> s],
       [type |-> "RequestControl", share |-> s] >>

\* write_confirm_active_pdu, then write_client_finalize.
Answer(s) ==
    << ConfirmActive(s),
       [type |-> "Synchronize", share |-> s],
       [type |-> "Cooperate", share |-> s],
       [type |-> "RequestControl", share |-> s],
       [type |-> "FontList", share |-> s] >>

-----------------------------------------------------------------------------
(***************************************************************************)
(* Reading takes the oldest payload.  A handshake state reads the first    *)
(* share control PDU of a raw payload and drops whatever follows it.       *)
(***************************************************************************)
payload == Head(s2c)
Received == s2c # <<>> /\ s2c' = Tail(s2c)

FirstType(p) ==
    IF p.kind = "FastPath" THEN "FastPath"
    ELSE IF p.pdus = <<>> THEN "Malformed" ELSE p.pdus[1].type

\* Fault of Refusal: a PDU out of the sequence is an error, not ignored.
RefusalStrict(t, wanted) ==
    CASE t = "FastPath"  -> "InvalidCast"
      [] t = "Malformed" -> "Io"
      [] t \in DOMAIN ControlError -> ControlError[t]
      [] t \in DOMAIN DataError -> DataError[t]
      [] OTHER -> "UnexpectedType"

\* What a handshake state answers to a first PDU of type t other than the
\* one it waits for, parsed by PDU::from_stream and then, when data is
\* wanted, by DataPDU::from_pdu.
Refusal(t, wanted) ==
    CASE t = "FastPath"  -> "InvalidCast"
      [] t = "Malformed" -> "Io"
      [] t \in DOMAIN ControlError -> ControlError[t]
      [] t \in DOMAIN DataError /\ wanted # "DemandActive" -> DataError[t]
      [] t \in ControlTypes /\ wanted \in ControlTypes -> "UnexpectedType"
      [] OTHER -> "Ok"

\* Faults of ReadDemandActivePdu: the state moves on before the writes; the
\* answer goes out for the share of the activation before.
ReadDemandActivePduEarly ==
    /\ state = "DemandActivePDU"
    /\ Received
    /\ payload.kind = "Raw"
    /\ FirstType(payload) = "DemandActive"
    /\ RoomFor(5)
    /\ state' = "SynchronizePDU"
    /\ LET share == payload.pdus[1].share IN
          /\ share_id' = share
          /\ server_capabilities' = Append(server_capabilities, share)
          /\ \/ Written(Answer(share)) /\ result' = "Ok"
             \/ WriteFailed(Answer(share)) /\ result' = "Io"
    /\ UNCHANGED handled

ReadDemandActivePduStale ==
    /\ state = "DemandActivePDU"
    /\ Received
    /\ payload.kind = "Raw"
    /\ FirstType(payload) = "DemandActive"
    /\ RoomFor(5)
    /\ share_id' = payload.pdus[1].share
    /\ server_capabilities' = Append(server_capabilities, share_id')
    /\ \/ Written(Answer(share_id)) /\ state' = "SynchronizePDU" /\ result' = "Ok"
       \/ WriteFailed(Answer(share_id)) /\ result' = "Io" /\ UNCHANGED state
    /\ UNCHANGED handled

\* read_demand_active_pdu pushes the capabilities and sets share_id before
\* the five writes; the state moves only when all of them were written.
ReadDemandActivePdu ==
    /\ state = "DemandActivePDU"
    /\ Received
    /\ payload.kind = "Raw"
    /\ FirstType(payload) = "DemandActive"
    /\ RoomFor(5)
    /\ LET share == payload.pdus[1].share IN
          /\ share_id' = share
          /\ server_capabilities' = Append(server_capabilities, share)
          /\ \/ /\ Written(Answer(share))
                /\ state' = "SynchronizePDU"
                /\ result' = "Ok"
             \/ /\ WriteFailed(Answer(share))
                /\ result' = "Io"
                /\ UNCHANGED state
    /\ UNCHANGED handled

\* Fault of Advance: any data PDU moves the handshake on.
AdvanceOnAny(from, wanted, to) ==
    /\ state = from
    /\ Received
    /\ payload.kind = "Raw"
    /\ FirstType(payload) \in ParsedDataTypes
    /\ state' = to
    /\ result' = "Ok"
    /\ UNCHANGED <<share_id, server_capabilities, handled, link, c2s>>

\* A handshake state that gets the PDU it waits for moves on and writes
\* nothing; the share of the PDU is not looked at.
Advance(from, wanted, to) ==
    /\ state = from
    /\ Received
    /\ payload.kind = "Raw"
    /\ FirstType(payload) = wanted
    /\ state' = to
    /\ result' = "Ok"
    /\ UNCHANGED <<share_id, server_capabilities, handled, link, c2s>>

\* Faults of two of these: Data without a font map, a state of no ClientState.
ReadControlGrantedSkips == Advance("ControlGranted", "Granted", "Data")
ReadFontMapPduUntyped == Advance("FontMap", "FontMap", "Active")

ReadSynchronizePdu == Advance("SynchronizePDU", "Synchronize", "ControlCooperate")
ReadControlCooperate == Advance("ControlCooperate", "Cooperate", "ControlGranted")
ReadControlGranted == Advance("ControlGranted", "Granted", "FontMap")
ReadFontMapPdu == Advance("FontMap", "FontMap", "Data")

Wanted == [DemandActivePDU |-> "DemandActive", SynchronizePDU |-> "Synchronize",
           ControlCooperate |-> "Cooperate", ControlGranted |-> "Granted",
           FontMap |-> "FontMap"]

\* ... and one that gets anything else ignores it or fails, and stays.
ReadUnwanted ==
    /\ state # "Data"
    /\ Received
    /\ payload.kind \in {"Raw", "FastPath"}
    /\ FirstType(payload) # Wanted[state]
    /\ result' = Refusal(FirstType(payload), Wanted[state])
    /\ UNCHANGED <<state, share_id, server_capabilities, handled, link, c2s>>

(***************************************************************************)
(* read_data_pdu: the array of share control headers ends without an error *)
(* at the first that is not whole; a PDU from_control fails on aborts the  *)
(* loop with its error, and keeps what the PDUs before it have changed.    *)
(* Any other PDU is passed over, a data PDU from_pdu fails on among them.  *)
(***************************************************************************)
Reaches(pdus, i) ==
    \A j \in 1 .. i - 1 : pdus[j].type \notin {"Malformed"} \cup DOMAIN ControlError

\* Faults of Deactivates: the first PDU of the payload is passed over; the
\* loop goes on behind a PDU from_control fails on.
DeactivatesLater(pdus) ==
    \E i \in DOMAIN pdus \ {1} : pdus[i].type = "DeactivateAll" /\ Reaches(pdus, i)

DeactivatesBehind(pdus) ==
    \E i \in DOMAIN pdus :
        /\ pdus[i].type = "DeactivateAll"
        /\ \A j \in 1 .. i - 1 : pdus[j].type # "Malformed"

Deactivates(pdus) ==
    \E i \in DOMAIN pdus : pdus[i].type = "DeactivateAll" /\ Reaches(pdus, i)

AbortsAt(pdus, i) == pdus[i].type \in DOMAIN ControlError /\ Reaches(pdus, i)

ReadDataPdu ==
    /\ state = "Data"
    /\ Received
    /\ payload.kind = "Raw"
    /\ state' = IF Deactivates(payload.pdus) THEN "DemandActivePDU" ELSE "Data"
    /\ \/ \E i \in DOMAIN payload.pdus :
             AbortsAt(payload.pdus, i) /\ result' = ControlError[payload.pdus[i].type]
       \/ /\ \A i \in DOMAIN payload.pdus : ~AbortsAt(payload.pdus, i)
          /\ result' = "Ok"
    /\ UNCHANGED <<share_id, server_capabilities, handled, link, c2s>>

\* Fault of ReadFastPath: the first update it does not parse ends the payload.
ReadFastPathStops ==
    /\ state = "Data"
    /\ Received
    /\ payload.kind = "FastPath"
    /\ Len(handled) + Len(payload.updates) <= MaxEvents
    /\ handled' = handled \o
           LET parsed(n) == \A i \in 1 .. n : payload.updates[i].type # "Unparsed"
           IN  SubSeq(payload.updates, 1,
                      CHOOSE n \in 0 .. Len(payload.updates) :
                          parsed(n) /\ (n < Len(payload.updates) => ~parsed(n + 1)))
    /\ result' = "Ok"
    /\ UNCHANGED <<state, share_id, server_capabilities, link, c2s>>

\* read_fast_path: every update is gone through in the order of the payload,
\* one it does not parse is printed and passed over.
ReadFastPath ==
    /\ state = "Data"
    /\ Received
    /\ payload.kind = "FastPath"
    /\ Len(handled) + Len(payload.updates) <= MaxEvents
    /\ handled' = handled \o payload.updates
    /\ result' = "Ok"
    /\ UNCHANGED <<state, share_id, server_capabilities, link, c2s>>

\* RdpClient::read returns what the MCS layer made of the payload before
\* the global channel sees it.
SwitchError == [Disconnect |-> "Disconnect", UserChannel |-> "UnexpectedType",
                UnknownChannel |-> "Unknown", BadOpcode |-> "InvalidData"]

ReadNotGlobal ==
    /\ Received
    /\ payload.kind \in SwitchKinds
    /\ result' = SwitchError[payload.kind]
    /\ UNCHANGED <<state, share_id, server_capabilities, handled, link, c2s>>

\* A read on a link that is gone, once what was received before is used up.
ReadEof ==
    /\ link = "down"
    /\ s2c = <<>>
    /\ result' = "Io"
    /\ UNCHANGED <<state, share_id, server_capabilities, handled, linkVars>>

-----------------------------------------------------------------------------
\* write_input_event, through RdpClient::write.
Input == <<[type |-> "Input", share |-> share_id]>>

\* Fault of Write: the automaton is not asked.
WriteUnguarded ==
    /\ RoomFor(6)
    /\ \/ Written(Input) /\ result' = "Ok"
       \/ WriteFailed(Input) /\ result' = "Io"
    /\ UNCHANGED <<state, share_id, server_capabilities, handled, s2c>>

Write ==
    /\ \/ /\ state = "Data"
          /\ RoomFor(6)    \* an answer of five keeps its place
          /\ \/ Written(Input) /\ result' = "Ok"
             \/ WriteFailed(Input) /\ result' = "Io"
       \/ /\ state # "Data"
          /\ result' = "InvalidAutomata"
          /\ UNCHANGED <<link, c2s>>
    /\ UNCHANGED <<state, share_id, server_capabilities, handled, s2c>>

\* RdpClient::try_write: the same, and InvalidAutomata becomes Ok.
TryWrite ==
    \/ state = "Data" /\ Write
    \/ /\ state # "Data"
       /\ result' = "Ok"
       /\ UNCHANGED <<state, share_id, server_capabilities, handled, linkVars>>

\* RdpClient::shutdown: an MCS Disconnect Provider Ultimatum, then
\* Link::shutdown, which closes a TLS stream and leaves a raw one alone.
Ultimatum == <<[type |-> "Ultimatum", share |-> NoShare]>>

\* Fault of Shutdown: the TLS stream stays open.
ShutdownLeavesOpen ==
    /\ RoomFor(1)
    /\ \/ Written(Ultimatum) /\ result' = "Ok"
       \/ WriteFailed(Ultimatum) /\ result' = "Io"
    /\ UNCHANGED <<state, share_id, server_capabilities, handled, s2c>>

Shutdown ==
    /\ RoomFor(1)
    /\ \/ /\ link = "up"
          /\ c2s' = c2s \o Ultimatum
          /\ link' = IF Tls THEN "down" ELSE "up"
          /\ result' \in IF Tls THEN {"Ok", "Io"} ELSE {"Ok"}
       \/ WriteFailed(Ultimatum) /\ result' = "Io"
    /\ UNCHANGED <<state, share_id, server_capabilities, handled, s2c>>

-----------------------------------------------------------------------------
\* The peer and the network.
Deliver(p) ==
    /\ link = "up"
    /\ Len(s2c) < MaxQueue
    /\ s2c' = Append(s2c, p)
    /\ UNCHANGED <<clientVars, link, c2s>>

LinkDrop ==
    /\ link = "up"
    /\ link' = "down"
    /\ UNCHANGED <<clientVars, s2c, c2s>>

Read ==
    \/ ReadDemandActivePdu
    \/ ReadSynchronizePdu
    \/ ReadControlCooperate
    \/ ReadControlGranted
    \/ ReadFontMapPdu
    \/ ReadUnwanted
    \/ ReadDataPdu
    \/ ReadFastPath
    \/ ReadNotGlobal
    \/ ReadEof

Next ==
    \/ Read
    \/ Write
    \/ TryWrite
    \/ Shutdown
    \/ \E p \in Payloads : Deliver(p)
    \/ LinkDrop

Spec == Init /\ [][Next]_vars

-----------------------------------------------------------------------------
(***************************************************************************)
(* Properties.  They hold against every peer.                              *)
(***************************************************************************)

\* What may come directly after what, within one share.
Follows == { <<"ConfirmActive", "Synchronize">>, <<"Synchronize", "Cooperate">>,
             <<"Cooperate", "RequestControl">>, <<"RequestControl", "FontList">>,
             <<"FontList", "Input">>, <<"Input", "Input">> }

(***************************************************************************)
(* The client writes in the order of the protocol: a PDU other than a      *)
(* Confirm Active directly follows its predecessor in the activation       *)
(* sequence, for the same share, so input is never written before the font *)
(* list nor for another share (global.rs write_client_finalize and         *)
(* write_input_event), whatever the peer sends and wherever the link       *)
(* drops.  Only a raw link lets the client write after its own ultimatum.  *)
(***************************************************************************)
InOrder(i) ==
    /\ i > 1
    /\ \/ /\ c2s[i - 1].share = c2s[i].share
          /\ <<c2s[i - 1].type, c2s[i].type>> \in Follows
       \/ ~Tls /\ c2s[i - 1].type = "Ultimatum"

HandshakeOrder ==
    \A i \in DOMAIN c2s :
        c2s[i].type \notin {"ConfirmActive", "Ultimatum"} => InOrder(i)

(***************************************************************************)
(* A client past DemandActivePDU has put all five PDUs of its share on the *)
(* link, in one piece, and nothing but input after them: a write that      *)
(* fails midway in `read' never lets the state advance.                    *)
(***************************************************************************)
HandshakeComplete ==
    state # "DemandActivePDU" =>
        \E i \in DOMAIN c2s :
            /\ i + 4 <= Len(c2s)
            /\ SubSeq(c2s, i, i + 4) = Answer(share_id)
            /\ \A j \in i + 5 .. Len(c2s) : c2s[j].type \in {"Input", "Ultimatum"}

(***************************************************************************)
(* Once the ultimatum is written a TLS client writes nothing more          *)
(* (Link::shutdown closed the stream), though nothing in Client::state     *)
(* records that it has shut down.                                          *)
(***************************************************************************)
SilentAfterShutdown ==
    Tls => \A i \in DOMAIN c2s : c2s[i].type = "Ultimatum" => i = Len(c2s)

(***************************************************************************)
(* Every Demand Active PDU the client accepted was answered by one Confirm *)
(* Active, in order, while the link is up; when it fails, at most the last *)
(* answers are missing.  server_capabilities is never cleared, so it lists *)
(* all the activations.                                                    *)
(***************************************************************************)
Confirms == {i \in DOMAIN c2s : c2s[i].type = "ConfirmActive"}
Turn(i) == Cardinality({j \in Confirms : j <= i})

DemandsAnswered ==
    /\ \A i \in Confirms :
          /\ Turn(i) <= Len(server_capabilities)
          /\ c2s[i].share = server_capabilities[Turn(i)]
    /\ link = "up" => Cardinality(Confirms) = Len(server_capabilities)

(***************************************************************************)
(* A call moves the state and returns an error exactly when it reads, in   *)
(* Data, a raw payload with a Deactivate All before the first PDU that     *)
(* from_control fails on: the error is that PDU's, and the deactivation is *)
(* neither lost with it nor taken from behind it.  No other failure moves  *)
(* the handshake: the five writes of an answer come before the state, and  *)
(* a handshake state that gets what it cannot parse stays.                 *)
(***************************************************************************)
FailsDeactivated(pdus, error) ==
    \E i, j \in DOMAIN pdus :
        /\ i < j
        /\ pdus[i].type = "DeactivateAll"
        /\ pdus[j].type \in DOMAIN ControlError /\ error = ControlError[pdus[j].type]
        /\ \A k \in 1 .. j - 1 : pdus[k].type \notin {"Malformed"} \cup DOMAIN ControlError

DataRead == state = "Data" /\ Received /\ payload.kind = "Raw"

ErrorsDoNotAdvance ==
    [][state' # state /\ result' # "Ok" <=>
          DataRead /\ FailsDeactivated(payload.pdus, result')]_vars
=============================================================================
