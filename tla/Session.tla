------------------------------ MODULE Session ------------------------------
(***************************************************************************)
(* GlobalChannel composed with a server that follows the activation        *)
(* sequence.  The server is not part of the repository: it is modelled     *)
(* from the PDUs src/core/global.rs waits for and answers, in the order of *)
(* the ClientState chain.  It offers a share, waits for the Confirm        *)
(* Active, synchronises, cooperates, grants control once asked for it,     *)
(* sends the font map once it has the font list, then sends bitmaps, and   *)
(* may deactivate the share and offer another one.                         *)
(*                                                                         *)
(* Its PDUs go through outbox, from which it fills one payload with up to  *)
(* Batch of them: read_data_pdu reads an array of PDUs, the handshake      *)
(* states read one.  Servers differ in their manners:                      *)
(*   orderly     one PDU in a payload, Set Error Info PDUs at any time;    *)
(*   coalescing  the same with up to MaxBatch PDUs in a payload;           *)
(*   unruly      also deactivates a share it has not opened, and mixes     *)
(*               data PDUs the client does not parse with the handshake.   *)
(***************************************************************************)
EXTENDS GlobalChannel

CONSTANTS
    MaxShare,         \* bound: activations the server offers
    MaxBitmaps,       \* bound: bitmaps the server sends (1 if it is unruly)
    MaxBatch,         \* bound: PDUs a coalescing or unruly server puts in a payload
    Servers           \* manners of the servers the client may meet

VARIABLES
    manners,     \* of this server
    phase,       \* where the server is in the activation of share `offered'
    offered,     \* last share offered; 0 before the first
    requested, fonts,  \* has it Request Control, the font list, of this share?
    taken,       \* PDUs of c2s the server has read
    outbox,      \* PDUs not yet in a payload
    bitmaps      \* bitmaps sent

srvVars == <<manners, phase, offered, requested, fonts, taken, outbox, bitmaps>>
sessionVars == <<vars, srvVars>>

Phase == {"Idle", "Demanded", "Confirmed", "Synchronized", "Cooperating",
          "Controlled", "Active"}

ASSUME SessionAssumption ==
    /\ MaxShare \in Nat /\ MaxBitmaps \in Nat \ {0} /\ MaxBatch \in Nat \ {0}
    /\ Servers \subseteq {"orderly", "coalescing", "unruly"}

Orderly == manners = "orderly"
Unruly == manners = "unruly"
Batch == IF Orderly THEN 1 ELSE MaxBatch
HandshakeNoise == IF Unruly THEN {"ErrorInfo", "Unparsed"} ELSE {"ErrorInfo"}

SessionTypeOK ==
    /\ TypeOK
    /\ manners \in Servers
    /\ phase \in Phase
    /\ offered \in 0 .. MaxShare
    /\ requested \in BOOLEAN /\ fonts \in BOOLEAN
    /\ taken \in 0 .. Len(c2s)
    /\ outbox \in Seq(ServerPDU)
    /\ bitmaps \in 0 .. MaxBitmaps

SessionInit ==
    /\ Init
    /\ manners \in Servers
    /\ phase = "Idle" /\ offered = 0
    /\ requested = FALSE /\ fonts = FALSE
    /\ taken = 0 /\ outbox = <<>> /\ bitmaps = 0

-----------------------------------------------------------------------------
\* The PDUs of the server wait in outbox for Flush.
Say(type) ==
    /\ link = "up"
    /\ Len(outbox) < Batch
    /\ outbox' = Append(outbox, [type |-> type, share |-> offered'])
    /\ UNCHANGED <<vars, manners>>

\* The bound on the queue is one lower for an unruly server.
Room(n) == Len(s2c) + n <= MaxQueue - IF Unruly THEN 1 ELSE 0

Flush ==
    /\ Room(1)
    /\ \E n \in 1 .. Len(outbox) :
          /\ n <= Batch
          /\ Deliver(Raw(SubSeq(outbox, 1, n)))
          /\ outbox' = SubSeq(outbox, n + 1, Len(outbox))
    /\ UNCHANGED <<manners, phase, offered, requested, fonts, taken, bitmaps>>

SrvDemand ==
    /\ phase = "Idle"
    /\ offered < MaxShare
    /\ offered' = offered + 1
    /\ phase' = "Demanded"
    /\ requested' = FALSE /\ fonts' = FALSE
    /\ Say("DemandActive")
    /\ UNCHANGED <<taken, bitmaps>>

Step(from, to, type) ==
    /\ phase = from
    /\ phase' = to
    /\ UNCHANGED offered
    /\ Say(type)
    /\ UNCHANGED <<requested, fonts, taken, bitmaps>>

SrvSynchronize == Step("Confirmed", "Synchronized", "Synchronize")
SrvCooperate == Step("Synchronized", "Cooperating", "Cooperate")
SrvGrant == requested /\ Step("Cooperating", "Controlled", "Granted")
SrvFontMap == fonts /\ Step("Controlled", "Active", "FontMap")

SrvDeactivate ==
    \/ Step("Active", "Idle", "DeactivateAll")
    \/ /\ Unruly
       /\ \E from \in Phase \ {"Idle", "Active"} : Step(from, "Idle", "DeactivateAll")

\* Data PDUs that are no part of the sequence; the last place of the queue
\* is kept for those that are.
SrvNoise ==
    /\ outbox = <<>>
    /\ Room(2)
    /\ \E type \in IF phase = "Active" THEN {"ErrorInfo", "Unparsed"} ELSE HandshakeNoise :
          Deliver(Raw(<<[type |-> type, share |-> offered]>>))
    /\ UNCHANGED srvVars

SrvUpdate ==
    /\ phase = "Active"
    /\ outbox = <<>>
    /\ Room(1)
    /\ bitmaps < IF Unruly THEN 1 ELSE MaxBitmaps
    /\ bitmaps' = bitmaps + 1
    /\ LET bitmap == [type |-> "Bitmap", n |-> bitmaps']
       IN  \/ Deliver(FastPath(<<bitmap>>))
           \/ \E type \in {"Pointer", "Unparsed"} :
                 Deliver(FastPath(<<[type |-> type, n |-> 0], bitmap>>))
    /\ UNCHANGED <<manners, phase, offered, requested, fonts, taken, outbox>>

\* The server reads the next PDU of the client; one of another share than
\* the last it offered comes late and is dropped.
SrvReceive ==
    /\ link = "up"
    /\ taken < Len(c2s)
    /\ taken' = taken + 1
    /\ LET m == c2s[taken'] IN
          IF m.share = offered
          THEN /\ phase' = IF m.type = "ConfirmActive" /\ phase = "Demanded"
                           THEN "Confirmed" ELSE phase
               /\ requested' = (requested \/ m.type = "RequestControl")
               /\ fonts' = (fonts \/ m.type = "FontList")
          ELSE UNCHANGED <<phase, requested, fonts>>
    /\ UNCHANGED <<vars, manners, offered, outbox, bitmaps>>

-----------------------------------------------------------------------------
ClientStep ==
    /\ Read \/ Write \/ TryWrite \/ Shutdown \/ LinkDrop
    /\ UNCHANGED srvVars

ServerStep ==
    \/ SrvDemand \/ SrvSynchronize \/ SrvCooperate \/ SrvGrant \/ SrvFontMap
    \/ SrvDeactivate \/ SrvNoise \/ SrvUpdate \/ SrvReceive \/ Flush

SessionNext == ClientStep \/ ServerStep

(***************************************************************************)
(* The caller reads again and again, and the server answers what it got;   *)
(* nobody has to write, to deactivate, to send a bitmap or to hang up.     *)
(***************************************************************************)
Fairness ==
    /\ WF_sessionVars(Read /\ UNCHANGED srvVars)
    /\ WF_sessionVars(SrvReceive)
    /\ WF_sessionVars(Flush)
    /\ WF_sessionVars(SrvSynchronize \/ SrvCooperate \/ SrvGrant \/ SrvFontMap)

SessionSpec == SessionInit /\ [][SessionNext]_sessionVars
FairSession == SessionSpec /\ Fairness

-----------------------------------------------------------------------------
Rank == [SynchronizePDU |-> 1, ControlCooperate |-> 2, ControlGranted |-> 3,
         FontMap |-> 4, Data |-> 5]
Reached == [Demanded |-> 1, Confirmed |-> 1, Synchronized |-> 2,
            Cooperating |-> 3, Controlled |-> 4, Active |-> 5, Idle |-> 5]

(***************************************************************************)
(* The client is never further in an activation than the server: although  *)
(* no handshake state of global.rs looks at the share of the PDU it reads, *)
(* what is left over from one activation never moves the next one on.      *)
(***************************************************************************)
NeverAhead ==
    state # "DemandActivePDU" =>
        \/ share_id < offered
        \/ share_id = offered /\ Rank[state] <= Reached[phase]

(***************************************************************************)
(* Whatever the server reads next is something it can expect there: it is  *)
(* late (of a share that is over), or it is the next PDU of the sequence   *)
(* write_client_finalize and write_input_event follow; in particular input *)
(* for an open share reaches the server after it sent the font map.        *)
(***************************************************************************)
ServerNeverSurprised ==
    taken < Len(c2s) /\ c2s[taken + 1].type # "Ultimatum" =>
        LET m == c2s[taken + 1] IN
            \/ m.share < offered
            \/ /\ m.share = offered
               /\ phase # "Idle" =>
                     CASE m.type = "ConfirmActive"  -> phase = "Demanded" /\ ~requested
                       [] m.type = "RequestControl" -> phase # "Demanded" /\ ~requested
                       [] m.type = "FontList"       -> requested /\ ~fonts
                       [] m.type = "Input"          -> fonts /\ phase = "Active"
                       [] OTHER                     -> phase # "Demanded" /\ ~requested

(***************************************************************************)
(* Against an orderly server no read fails while the link is up.  Against  *)
(* a coalescing one this is false: a handshake state drops the PDUs behind *)
(* the first of a payload, and then meets what it does not take.           *)
(***************************************************************************)
NoReadError ==
    link = "up" /\ Orderly => result \in {"Ok", "InvalidAutomata"}

(***************************************************************************)
(* The bitmaps given to the callback, then those still in the queue, are   *)
(* all the bitmaps the server sent, in order: none is lost to a state that *)
(* does not take fast path payloads, doubled or overtaken (read_fast_path, *)
(* across reactivations).  The others lose bitmaps with the PDUs that the  *)
(* client drops.                                                           *)
(***************************************************************************)
Line == [k \in 0 .. Len(s2c) |-> IF k = 0 THEN handled ELSE s2c[k].updates]
BitmapPlaces == {p \in UNION {{k} \X DOMAIN Line[k] : k \in DOMAIN Line} :
                    Line[p[1]][p[2]].type = "Bitmap"}
NumberAt(p) == Line[p[1]][p[2]].n
Earlier(p, q) == p[1] < q[1] \/ (p[1] = q[1] /\ p[2] < q[2])

NoBitmapLost ==
    Orderly =>
        /\ {NumberAt(p) : p \in BitmapPlaces} = 1 .. bitmaps
        /\ \A p, q \in BitmapPlaces : Earlier(p, q) => NumberAt(p) < NumberAt(q)

(***************************************************************************)
(* A share an orderly server offers is activated by a client that keeps    *)
(* reading, unless the link goes down (global.rs, the ClientState chain).  *)
(***************************************************************************)
Activates ==
    \A s \in 1 .. MaxShare :
        (phase = "Demanded" /\ offered = s /\ Orderly) ~>
            (state = "Data" /\ share_id = s) \/ link = "down"

(***************************************************************************)
(* ... also after a Deactivate All PDU, which the comment "Ask for a new   *)
(* handshake" in read_data_pdu is about: once the client was active, an    *)
(* offered share is answered.                                              *)
(***************************************************************************)
Reactivates ==
    \A s \in 2 .. MaxShare :
        (phase = "Demanded" /\ offered = s /\ state = "Data" /\ ~Unruly) ~>
            (\E i \in DOMAIN c2s : c2s[i] = ConfirmActive(s)) \/ link = "down"

IsBitmap(update) == update.type = "Bitmap"
Shown == SelectSeq(handled, IsBitmap)

(***************************************************************************)
(* Every bitmap an orderly server sends reaches the callback of a client   *)
(* that keeps reading.                                                     *)
(***************************************************************************)
EveryBitmapShown ==
    \A n \in 1 .. MaxBitmaps :
        (bitmaps = n /\ Orderly) ~> Len(Shown) >= n \/ link = "down"

-----------------------------------------------------------------------------
\* Activation, seen in this state.  The font list is the last PDU of a
\* complete answer, so a share without it was never entered.
Answered == \E i \in DOMAIN c2s : c2s[i].type = "FontList" /\ c2s[i].share = share_id
Before(n) == IF n = 0 THEN 0 ELSE n - 1

Seen(share) == IF Unruly THEN 0 ELSE share

A == INSTANCE Activation WITH
        offered <- Seen(offered),
        opened  <- Seen(IF phase \in {"Active", "Idle"} THEN offered ELSE Before(offered)),
        closed  <- Seen(IF phase = "Idle" THEN offered ELSE Before(offered)),
        active  <- Seen(IF state = "Data" THEN share_id ELSE 0),
        entered <- Seen(IF state \in {"DemandActivePDU", "Data"}
                             /\ (share_id = NoShare \/ Answered)
                        THEN share_id ELSE Before(share_id))

(***************************************************************************)
(* The session implements the handover of Activation: nothing is claimed   *)
(* of an unruly server, which may close a share it has not opened.         *)
(***************************************************************************)
Handover == A!Spec
=============================================================================
