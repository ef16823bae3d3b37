--------------------------- MODULE SessionProofs ---------------------------
(***************************************************************************)
(* What the session of client and server keeps, for every manner of        *)
(* server, every number of activations, every size of payload and of       *)
(* queue, both kinds of link, and a link that may drop at any time.        *)
(*                                                                         *)
(* The proof goes in layers, each from the ones before.  Flow is about the *)
(* PDUs on their way to the client, Log about those the client has         *)
(* written, Heard about what the server has made of them.  Two more layers *)
(* are in OrderlyProofs: Handed, about the shares both have been through,  *)
(* and Paced, about an orderly server.                                     *)
(***************************************************************************)
EXTENDS Session, GlobalChannelProofs

-----------------------------------------------------------------------------
(***************************************************************************)
(* What a call of the client can do.  Answers is read_demand_active_pdu,   *)
(* Takes any other read of a payload, Writes every other call.             *)
(***************************************************************************)
Answers ==
    /\ state = "DemandActivePDU"
    /\ s2c # <<>> /\ s2c' = Tail(s2c)
    /\ Head(s2c).kind = "Raw" /\ Head(s2c).pdus # <<>>
    /\ Head(s2c).pdus[1].type = "DemandActive"
    /\ share_id' = Head(s2c).pdus[1].share
    /\ \E k \in 0 .. 5 :
          /\ c2s' = c2s \o SubSeq(Answer(share_id'), 1, k)
          /\ \/ k = 5 /\ state' = "SynchronizePDU" /\ link' = "up" /\ result' = "Ok"
             \/ k < 5 /\ state' = "DemandActivePDU" /\ link' = "down"

Takes ==
    /\ s2c # <<>> /\ s2c' = Tail(s2c)
    /\ UNCHANGED <<share_id, link, c2s>>
    /\ \/ UNCHANGED state
       \/ ReadSynchronizePdu \/ ReadControlCooperate
       \/ ReadControlGranted \/ ReadFontMapPdu
       \/ /\ state = "Data" /\ state' = "DemandActivePDU"
          /\ \E j \in DOMAIN Head(s2c).pdus : Head(s2c).pdus[j].type = "DeactivateAll"

Writes ==
    /\ UNCHANGED <<state, share_id, s2c>>
    /\ link' = "up" => link = "up"
    /\ \/ c2s' = c2s
       \/ state = "Data" /\ c2s' = c2s \o Input
       \/ c2s' = c2s \o Ultimatum

\* A read answers a demand, takes a PDU or writes nothing of the handshake.
LEMMA ReadActs ==
    ASSUME TypeOK, Read
    PROVE  Answers \/ Takes \/ Writes
  <1>1. CASE ReadDemandActivePdu
    <2>1. payload \in Payload /\ payload.pdus[1].share \in Nat
      BY <1>1, PayloadReceived, FirstPdu DEF ReadDemandActivePdu
    <2> DEFINE s == payload.pdus[1].share
    <2>2. /\ state = "DemandActivePDU" /\ Received
          /\ payload.kind = "Raw" /\ FirstType(payload) = "DemandActive"
          /\ share_id' = s
          /\ \/ Written(Answer(s)) /\ state' = "SynchronizePDU" /\ result' = "Ok"
             \/ WriteFailed(Answer(s)) /\ UNCHANGED state
      BY <1>1 DEF ReadDemandActivePdu
    <2>3. s \in Nat
      BY <2>1
    <2>4. payload.pdus # <<>> /\ payload.pdus[1].type = "DemandActive"
      BY <2>2 DEF FirstType
    <2> HIDE DEF s
    <2>5. Answer(s) \in Seq(ClientPDU) /\ Len(Answer(s)) = 5
      BY <2>3, AnswerType
    <2>6. CASE Written(Answer(s)) /\ state' = "SynchronizePDU" /\ result' = "Ok"
      <3>1. SubSeq(Answer(s), 1, 5) = Answer(s)
        BY <2>3, WholeAnswer
      <3>2. link' = "up" /\ c2s' = c2s \o Answer(s)
        BY <2>6 DEF Written
      <3>3. c2s' = c2s \o SubSeq(Answer(share_id'), 1, 5)
        BY <2>2, <3>1, <3>2, Zenon
      <3>4. 5 \in 0 .. 5
        OBVIOUS
      <3> QED
        BY <2>2, <2>4, <2>6, <3>2, <3>3, <3>4, Zenon DEF Answers, s, payload, Received
    <2>7. CASE WriteFailed(Answer(s)) /\ UNCHANGED state
      <3>1. PICK k \in 0 .. Len(Answer(s)) - 1 : c2s' = c2s \o SubSeq(Answer(s), 1, k)
        BY <2>7 DEF WriteFailed
      <3>2. k \in 0 .. 5 /\ k < 5
        BY <2>5
      <3>3. link' = "down" /\ state' = "DemandActivePDU"
        BY <2>2, <2>7 DEF WriteFailed
      <3> QED
        BY <2>2, <2>4, <3>1, <3>2, <3>3, Zenon DEF Answers, s, payload, Received
    <2> QED
      BY <2>2, <2>6, <2>7
  <1>2. CASE ReadSynchronizePdu \/ ReadControlCooperate \/ ReadControlGranted \/ ReadFontMapPdu
    <2>1. Received /\ UNCHANGED <<share_id, link, c2s>>
      BY <1>2 DEF ReadSynchronizePdu, ReadControlCooperate, ReadControlGranted,
                  ReadFontMapPdu, Advance
    <2> QED
      BY <1>2, <2>1 DEF Takes, Received
  <1>3. CASE ReadUnwanted \/ ReadNotGlobal \/ ReadFastPath
    <2>1. Received /\ UNCHANGED <<state, share_id, link, c2s>>
      BY <1>3 DEF ReadUnwanted, ReadNotGlobal, ReadFastPath
    <2> QED
      BY <2>1 DEF Takes, Received
  <1>4. CASE ReadDataPdu
    <2>1. Received /\ state = "Data" /\ UNCHANGED <<share_id, link, c2s>>
      BY <1>4 DEF ReadDataPdu
    <2>2. \/ UNCHANGED state
          \/ state' = "DemandActivePDU" /\ Deactivates(payload.pdus)
      BY <1>4 DEF ReadDataPdu
    <2>3. Deactivates(payload.pdus) =>
              \E j \in DOMAIN Head(s2c).pdus : Head(s2c).pdus[j].type = "DeactivateAll"
      BY Zenon DEF Deactivates, payload
    <2> QED
      BY <2>1, <2>2, <2>3 DEF Takes, Received
  <1>5. CASE ReadEof
    BY <1>5 DEF ReadEof, Writes, linkVars
  <1> QED
    BY <1>1, <1>2, <1>3, <1>4, <1>5 DEF Read

\* So does every step of the client.
LEMMA ClientActs ==
    ASSUME TypeOK, ClientStep
    PROVE  Answers \/ Takes \/ Writes
  <1>1. CASE Read
    BY <1>1, ReadActs
  <1>2. ASSUME Write
        PROVE  Writes
    <2>1. UNCHANGED <<state, share_id, s2c>>
      BY <1>2 DEF Write
    <2>2. CASE state = "Data" /\ Written(Input)
      BY <2>1, <2>2 DEF Written, Writes
    <2>3. CASE WriteFailed(Input)
      BY <2>1, <2>3, InputType, OnePdu DEF Writes
    <2>4. CASE UNCHANGED <<link, c2s>>
      BY <2>1, <2>4 DEF Writes
    <2> QED
      BY <1>2, <2>2, <2>3, <2>4 DEF Write
  <1>3. CASE TryWrite
    <2>1. CASE UNCHANGED <<state, share_id, server_capabilities, handled, linkVars>>
      BY <2>1 DEF linkVars, Writes
    <2> QED
      BY <1>2, <1>3, <2>1 DEF TryWrite
  <1>4. CASE Shutdown
    <2>1. UNCHANGED <<state, share_id, s2c>>
      BY <1>4 DEF Shutdown
    <2>2. CASE WriteFailed(Ultimatum)
      BY <2>1, <2>2, UltimatumType, OnePdu DEF Writes
    <2>3. CASE link = "up" /\ c2s' = c2s \o Ultimatum
      BY <2>1, <2>3 DEF Writes
    <2> QED
      BY <1>4, <2>2, <2>3 DEF Shutdown
  <1>5. CASE LinkDrop
    BY <1>5 DEF LinkDrop, Writes, clientVars
  <1> QED
    BY <1>1, <1>2, <1>3, <1>4, <1>5 DEF ClientStep

-----------------------------------------------------------------------------
(***************************************************************************)
(* Flow: the PDUs of the server that the client has not read.  Each is of  *)
(* a share the client has not left and the server has offered, and says no *)
(* more of the last share than the server has done; they come in the order *)
(* of the shares, and a Demand Active PDU before any other of its share.   *)
(***************************************************************************)
Unread ==
    {m \in ServerPDU : \/ \E i \in DOMAIN s2c : \E j \in DOMAIN s2c[i].pdus : m = s2c[i].pdus[j]
                       \/ \E k \in DOMAIN outbox : m = outbox[k]}

Level == [Synchronize |-> 2, Cooperate |-> 3, Granted |-> 4, FontMap |-> 5]

Known(m) ==
    /\ m.share <= offered
    /\ m.share = offered /\ m.type \in DOMAIN Level => Level[m.type] <= Reached[phase]
    /\ m.share = offered /\ m.type = "DeactivateAll" => phase = "Idle"
    /\ state # "DemandActivePDU" => m.share >= share_id
    /\ m.type = "DemandActive" => m.share > share_id

AllKnown == \A m \in Unread : Known(m)

Precedes(a, b) ==
    /\ a.share <= b.share
    /\ b.type = "DemandActive" => a.share < b.share

\* All of a before all of b.
AllPrecede(a, b) == \A j \in DOMAIN a, l \in DOMAIN b : Precedes(a[j], b[l])

InTurn ==
    /\ \A i, k \in DOMAIN s2c : i < k => AllPrecede(s2c[i].pdus, s2c[k].pdus)
    /\ \A i \in DOMAIN s2c : AllPrecede(s2c[i].pdus, outbox)
    /\ \A j, k \in DOMAIN outbox : j < k => Precedes(outbox[j], outbox[k])

Flow ==
    /\ AllKnown
    /\ InTurn
    /\ share_id <= offered
    /\ state # "DemandActivePDU" => share_id > 0
    /\ NeverAhead

Typed == SessionTypeOK /\ IInv

-----------------------------------------------------------------------------
\* How the queues change.
LEMMA TailShifts ==
    ASSUME NEW S, NEW q \in Seq(S), q # <<>>, NEW r, r = Tail(q)
    PROVE  /\ r \in Seq(S) /\ Len(q) \in Nat
           /\ DOMAIN r = 1 .. Len(q) - 1 /\ DOMAIN q = 1 .. Len(q)
           /\ \A i \in DOMAIN r : i + 1 \in DOMAIN q /\ r[i] = q[i + 1]
           /\ 1 \in DOMAIN q /\ Head(q) = q[1]
  BY SMT

\* To read the first payload keeps the order of the rest.
LEMMA ReadTurn ==
    ASSUME TypeOK, outbox \in Seq(ServerPDU), InTurn,
           s2c # <<>>, s2c' = Tail(s2c), outbox' = outbox
    PROVE  /\ InTurn'
           /\ Unread' \subseteq Unread
           /\ \A m \in Unread', j \in DOMAIN Head(s2c).pdus : Precedes(Head(s2c).pdus[j], m)
  <1>1. s2c \in Seq(Payload)
    BY DEF TypeOK
  <1>2. /\ Len(s2c) \in Nat
        /\ DOMAIN s2c' = 1 .. Len(s2c) - 1 /\ DOMAIN s2c = 1 .. Len(s2c)
        /\ \A i \in DOMAIN s2c' : i + 1 \in DOMAIN s2c /\ s2c'[i] = s2c[i + 1]
        /\ 1 \in DOMAIN s2c /\ Head(s2c) = s2c[1]
    BY <1>1, TailShifts
  <1>3. InTurn'
    <2>1. ASSUME NEW i \in DOMAIN s2c', NEW k \in DOMAIN s2c', i < k
          PROVE  AllPrecede(s2c'[i].pdus, s2c'[k].pdus)
      <3>1. i + 1 \in DOMAIN s2c /\ k + 1 \in DOMAIN s2c /\ i + 1 < k + 1
        BY <1>2, <2>1
      <3> QED
        BY <1>2, <3>1 DEF InTurn
    <2>2. ASSUME NEW i \in DOMAIN s2c'
          PROVE  AllPrecede(s2c'[i].pdus, outbox)
      BY <1>2 DEF InTurn
    <2>3. \A i \in DOMAIN s2c' : AllPrecede(s2c'[i].pdus, outbox')
      BY <2>2
    <2>4. \A j, k \in DOMAIN outbox' : j < k => Precedes(outbox'[j], outbox'[k])
      BY DEF InTurn
    <2> QED
      BY <2>1, <2>3, <2>4, Zenon DEF InTurn, AllPrecede, Precedes
  <1>4. ASSUME NEW m \in Unread'
        PROVE  m \in Unread /\ \A j \in DOMAIN Head(s2c).pdus : Precedes(Head(s2c).pdus[j], m)
    <2>1. CASE \E i \in DOMAIN s2c' : \E l \in DOMAIN s2c'[i].pdus : m = s2c'[i].pdus[l]
      <3>1. PICK i \in DOMAIN s2c' : \E l \in DOMAIN s2c'[i].pdus : m = s2c'[i].pdus[l]
        BY <2>1
      <3>2. i + 1 \in DOMAIN s2c /\ s2c'[i] = s2c[i + 1] /\ 1 < i + 1
        BY <1>2, <3>1
      <3>3. AllPrecede(s2c[1].pdus, s2c[i + 1].pdus)
        BY <1>2, <3>2 DEF InTurn
      <3>4. PICK l \in DOMAIN s2c[i + 1].pdus : m = s2c[i + 1].pdus[l]
        BY <3>1, <3>2
      <3> QED
        BY <1>2, <3>2, <3>3, <3>4, Zenon DEF Unread, AllPrecede
    <2>2. CASE \E k \in DOMAIN outbox : m = outbox[k]
      BY <1>2, <2>2, Zenon DEF Unread, InTurn, AllPrecede
    <2> QED
      BY <2>1, <2>2 DEF Unread
  <1> QED
    BY <1>3, <1>4

\* What is queued and what is said are unread.
LEMMA UnreadHas ==
    ASSUME TypeOK, outbox \in Seq(ServerPDU)
    PROVE  /\ \A i \in DOMAIN s2c, j \in Nat :
                 j \in DOMAIN s2c[i].pdus => s2c[i].pdus[j] \in Unread
           /\ \A k \in DOMAIN outbox : outbox[k] \in Unread
           /\ \A i \in DOMAIN s2c : s2c[i].pdus \in Seq(ServerPDU)
  <1>1. ASSUME NEW i \in DOMAIN s2c
        PROVE  s2c[i].pdus \in Seq(ServerPDU)
    <2>1. s2c[i] \in Payload
      BY <1>1 DEF TypeOK
    <2> QED
      BY <2>1 DEF Payload
  <1>2. ASSUME NEW i \in DOMAIN s2c, NEW j \in Nat, j \in DOMAIN s2c[i].pdus
        PROVE  s2c[i].pdus[j] \in Unread
    <2>1. s2c[i].pdus[j] \in ServerPDU
      <3>1. PICK q : q = s2c[i].pdus
        OBVIOUS
      <3>2. q \in Seq(ServerPDU) /\ j \in DOMAIN q
        BY <1>1, <1>2, <3>1
      <3> QED
        BY <3>1, <3>2
    <2> QED
      BY <1>2, <2>1, Zenon DEF Unread
  <1>3. ASSUME NEW k \in DOMAIN outbox
        PROVE  outbox[k] \in Unread
    <2>1. outbox[k] \in ServerPDU
      BY <1>3
    <2> QED
      BY <1>3, <2>1, Zenon DEF Unread
  <1> QED
    BY <1>1, <1>2, <1>3

\* A payload delivered at once comes after all that is unread.
LEMMA DeliverTurn ==
    ASSUME TypeOK, InTurn, outbox = <<>>, outbox' = outbox,
           NEW p \in Payload, s2c' = Append(s2c, p),
           \A m \in Unread, l \in DOMAIN p.pdus : Precedes(m, p.pdus[l])
    PROVE  /\ InTurn'
           /\ \A m \in Unread' : m \in Unread \/ \E l \in DOMAIN p.pdus : m = p.pdus[l]
  <1>1. s2c \in Seq(Payload)
    BY DEF TypeOK
  <1>2. /\ Len(s2c) \in Nat /\ DOMAIN s2c = 1 .. Len(s2c)
        /\ DOMAIN s2c' = 1 .. Len(s2c) + 1
        /\ \A i \in DOMAIN s2c : s2c'[i] = s2c[i]
        /\ s2c'[Len(s2c) + 1] = p
    BY <1>1
  <1>3. DOMAIN outbox = {} /\ outbox \in Seq(ServerPDU)
    <2>1. DOMAIN <<>> = {} /\ <<>> \in Seq(ServerPDU)
      BY SMT
    <2> QED
      BY <2>1
  <1>4. InTurn'
    <2>1. ASSUME NEW i \in DOMAIN s2c', NEW k \in DOMAIN s2c', i < k
          PROVE  AllPrecede(s2c'[i].pdus, s2c'[k].pdus)
      <3>1. i \in DOMAIN s2c /\ s2c'[i] = s2c[i]
        BY <1>2, <2>1
      <3>2. CASE k \in DOMAIN s2c
        BY <1>2, <2>1, <3>1, <3>2 DEF InTurn
      <3>3. CASE k \notin DOMAIN s2c
        <4>1. k = Len(s2c) + 1
          BY <1>2, <3>3
        <4>2. s2c'[k] = p
          BY <1>2, <4>1
        <4>3. \A j \in DOMAIN s2c[i].pdus : s2c[i].pdus[j] \in Unread
          <5>1. s2c[i].pdus \in Seq(ServerPDU)
            BY <1>3, <3>1, UnreadHas
          <5>2. \A j \in DOMAIN s2c[i].pdus : j \in Nat
            BY <5>1
          <5> QED
            BY <1>3, <3>1, <5>2, UnreadHas
        <4> QED
          BY <3>1, <4>2, <4>3, Zenon DEF AllPrecede
      <3> QED
        BY <3>2, <3>3
    <2>2. \A i \in DOMAIN s2c' : AllPrecede(s2c'[i].pdus, outbox')
      BY <1>3, Zenon DEF AllPrecede
    <2>3. \A j, k \in DOMAIN outbox' : j < k => Precedes(outbox'[j], outbox'[k])
      BY <1>3
    <2> QED
      BY <2>1, <2>2, <2>3, Zenon DEF InTurn, AllPrecede, Precedes
  <1>5. ASSUME NEW m \in Unread'
        PROVE  m \in Unread \/ \E l \in DOMAIN p.pdus : m = p.pdus[l]
    <2> DEFINE Waits == \E i \in DOMAIN s2c' : \E j \in DOMAIN s2c'[i].pdus : m = s2c'[i].pdus[j]
    <2>0. Waits
      <3>1. Waits \/ \E k \in DOMAIN outbox' : m = outbox'[k]
        BY <1>5, Zenon DEF Unread
      <3>2. DOMAIN outbox' = {}
        BY <1>3
      <3> QED
        BY <3>1, <3>2
    <2>1. PICK i \in DOMAIN s2c' : \E j \in DOMAIN s2c'[i].pdus : m = s2c'[i].pdus[j]
      BY <2>0
    <2>2. CASE i \in DOMAIN s2c
      <3>1. \E j \in DOMAIN s2c[i].pdus : m = s2c[i].pdus[j]
        BY <1>2, <2>1, <2>2
      <3>2. m \in ServerPDU
        BY <1>5, Zenon DEF Unread
      <3> QED
        BY <2>2, <3>1, <3>2, Zenon DEF Unread
    <2>3. CASE i \notin DOMAIN s2c
      <3>1. i = Len(s2c) + 1
        BY <1>2, <2>3
      <3> QED
        BY <1>2, <2>1, <3>1
    <2> QED
      BY <2>2, <2>3
  <1> QED
    BY <1>4, <1>5

\* So does a PDU that the server says.
LEMMA SayTurn ==
    ASSUME TypeOK, outbox \in Seq(ServerPDU), InTurn, s2c' = s2c,
           NEW m \in ServerPDU, outbox' = Append(outbox, m),
           \A u \in Unread : Precedes(u, m)
    PROVE  InTurn' /\ Unread' \subseteq Unread \cup {m}
  <1>1. /\ Len(outbox) \in Nat /\ DOMAIN outbox = 1 .. Len(outbox)
        /\ DOMAIN outbox' = 1 .. Len(outbox) + 1
        /\ \A k \in DOMAIN outbox : outbox'[k] = outbox[k]
        /\ outbox'[Len(outbox) + 1] = m
    OBVIOUS
  <1>2. ASSUME NEW i \in DOMAIN s2c
        PROVE  AllPrecede(s2c[i].pdus, outbox')
    <2> SUFFICES ASSUME NEW j \in DOMAIN s2c[i].pdus, NEW k \in DOMAIN outbox'
                 PROVE  Precedes(s2c[i].pdus[j], outbox'[k])
      BY DEF AllPrecede
    <2>1. CASE k \in DOMAIN outbox
      BY <1>1, <2>1 DEF InTurn, AllPrecede
    <2>2. CASE k \notin DOMAIN outbox
      <3>1. outbox'[k] = m
        BY <1>1, <2>2
      <3>2. s2c[i].pdus \in Seq(ServerPDU)
        BY UnreadHas
      <3>3. j \in Nat
        BY <3>2
      <3>4. s2c[i].pdus[j] \in Unread
        BY <3>3, UnreadHas
      <3> QED
        BY <3>1, <3>4
    <2> QED
      BY <2>1, <2>2
  <1>3. ASSUME NEW j \in DOMAIN outbox', NEW k \in DOMAIN outbox', j < k
        PROVE  Precedes(outbox'[j], outbox'[k])
    <2>1. j \in DOMAIN outbox
      BY <1>1, <1>3
    <2>2. CASE k \in DOMAIN outbox
      BY <1>1, <1>3, <2>1, <2>2 DEF InTurn
    <2>3. CASE k \notin DOMAIN outbox
      <3>1. outbox'[k] = m
        BY <1>1, <2>3
      <3>2. outbox[j] \in Unread
        BY <2>1, UnreadHas
      <3> QED
        BY <1>1, <2>1, <3>1, <3>2
    <2> QED
      BY <2>2, <2>3
  <1>4. InTurn'
    <2>1. \A i, k \in DOMAIN s2c' : i < k => AllPrecede(s2c'[i].pdus, s2c'[k].pdus)
      BY DEF InTurn
    <2>2. \A i \in DOMAIN s2c' : AllPrecede(s2c'[i].pdus, outbox')
      BY <1>2
    <2> QED
      BY <1>3, <2>1, <2>2, Zenon DEF InTurn, AllPrecede, Precedes
  <1>5. ASSUME NEW u \in Unread'
        PROVE  u \in Unread \/ u = m
    <2>1. CASE \E k \in DOMAIN outbox' : u = outbox'[k]
      <3>1. PICK k \in DOMAIN outbox' : u = outbox'[k]
        BY <2>1
      <3>2. k \in DOMAIN outbox \/ k = Len(outbox) + 1
        BY <1>1
      <3>3. CASE k \in DOMAIN outbox
        BY <1>1, <3>1, <3>3, UnreadHas
      <3> QED
        BY <1>1, <3>1, <3>2, <3>3
    <2>2. CASE \E i \in DOMAIN s2c : \E j \in DOMAIN s2c[i].pdus : u = s2c[i].pdus[j]
      BY <1>5, <2>2, Zenon DEF Unread
    <2> QED
      BY <1>5, <2>1, <2>2, Zenon DEF Unread
  <1> QED
    BY <1>4, <1>5

\* A sequence cut in two.
LEMMA Split ==
    ASSUME NEW S, NEW q \in Seq(S), NEW n \in 1 .. Len(q),
           NEW r, r = SubSeq(q, 1, n), NEW t, t = SubSeq(q, n + 1, Len(q))
    PROVE  /\ r \in Seq(S) /\ t \in Seq(S)
           /\ DOMAIN r = 1 .. n
           /\ \A l \in 1 .. n : l \in DOMAIN q /\ r[l] = q[l]
           /\ DOMAIN t = 1 .. Len(q) - n
           /\ \A k \in 1 .. Len(q) - n : n + k \in DOMAIN q /\ t[k] = q[n + k]
  BY SMT

\* To flush moves PDUs from the outbox to the queue, in their order.
LEMMA FlushTurn ==
    ASSUME TypeOK, outbox \in Seq(ServerPDU), InTurn, NEW n \in 1 .. Len(outbox),
           s2c' = Append(s2c, Raw(SubSeq(outbox, 1, n))),
           outbox' = SubSeq(outbox, n + 1, Len(outbox))
    PROVE  InTurn' /\ Unread' \subseteq Unread
  <1>0. PICK q : q = SubSeq(outbox, 1, n)
    OBVIOUS
  <1>1. /\ q \in Seq(ServerPDU) /\ outbox' \in Seq(ServerPDU)
        /\ DOMAIN q = 1 .. n
        /\ \A l \in 1 .. n : l \in DOMAIN outbox /\ q[l] = outbox[l]
        /\ DOMAIN outbox' = 1 .. Len(outbox) - n
        /\ \A k \in 1 .. Len(outbox) - n : n + k \in DOMAIN outbox /\ outbox'[k] = outbox[n + k]
    <2>1. PICK t : t = outbox'
      OBVIOUS
    <2>2. /\ q \in Seq(ServerPDU) /\ t \in Seq(ServerPDU)
          /\ DOMAIN q = 1 .. n
          /\ \A l \in 1 .. n : l \in DOMAIN outbox /\ q[l] = outbox[l]
          /\ DOMAIN t = 1 .. Len(outbox) - n
          /\ \A k \in 1 .. Len(outbox) - n : n + k \in DOMAIN outbox /\ t[k] = outbox[n + k]
      BY <1>0, <2>1, Split, SMTT(30)
    <2> QED
      BY <2>1, <2>2
  <1>a. PICK p : p = Raw(q)
    OBVIOUS
  <1>2. p = Raw(q) /\ p.pdus = q
    BY <1>a DEF Raw
  <1>3. /\ Len(s2c) \in Nat /\ DOMAIN s2c = 1 .. Len(s2c)
        /\ DOMAIN s2c' = 1 .. Len(s2c) + 1
        /\ \A i \in DOMAIN s2c : s2c'[i] = s2c[i]
        /\ s2c'[Len(s2c) + 1] = p
    <2>1. s2c' = Append(s2c, p)
      BY <1>0, <1>2
    <2>2. s2c \in Seq(Payload)
      BY DEF TypeOK
    <2> QED
      BY <2>1, <2>2
  <1>4. \A i \in DOMAIN s2c' : i \in DOMAIN s2c \/ i = Len(s2c) + 1
    BY <1>3
  <1>5. \A i \in DOMAIN s2c : AllPrecede(s2c[i].pdus, q) /\ AllPrecede(s2c[i].pdus, outbox')
    BY <1>1 DEF InTurn, AllPrecede
  <1>6. AllPrecede(q, outbox')
    <2> SUFFICES ASSUME NEW j \in 1 .. n, NEW k \in 1 .. Len(outbox) - n
                 PROVE  Precedes(outbox[j], outbox[n + k])
      BY <1>1 DEF AllPrecede
    <2>1. j \in DOMAIN outbox /\ n + k \in DOMAIN outbox /\ j < n + k
      BY <1>1
    <2> QED
      BY <2>1 DEF InTurn
  <1>7. ASSUME NEW j \in DOMAIN outbox', NEW k \in DOMAIN outbox', j < k
        PROVE  Precedes(outbox'[j], outbox'[k])
    <2>1. n + j \in DOMAIN outbox /\ n + k \in DOMAIN outbox /\ n + j < n + k
      BY <1>1, <1>7
    <2>2. outbox'[j] = outbox[n + j] /\ outbox'[k] = outbox[n + k]
      BY <1>1
    <2> QED
      BY <2>1, <2>2 DEF InTurn
  <1>8. InTurn'
    <2>1. ASSUME NEW i \in DOMAIN s2c', NEW k \in DOMAIN s2c', i < k
          PROVE  AllPrecede(s2c'[i].pdus, s2c'[k].pdus)
      <3>1. i \in DOMAIN s2c /\ s2c'[i] = s2c[i]
        BY <1>3, <2>1
      <3>2. CASE k \in DOMAIN s2c
        BY <1>3, <2>1, <3>1, <3>2 DEF InTurn
      <3>3. CASE k = Len(s2c) + 1
        <4>1. s2c'[k].pdus = q
          BY <1>2, <1>3, <3>3
        <4> QED
          BY <1>5, <3>1, <4>1
      <3> QED
        BY <1>4, <3>2, <3>3
    <2>2. ASSUME NEW i \in DOMAIN s2c'
          PROVE  AllPrecede(s2c'[i].pdus, outbox')
      <3>1. CASE i \in DOMAIN s2c
        BY <1>3, <1>5, <3>1
      <3>2. CASE i = Len(s2c) + 1
        <4>1. s2c'[i].pdus = q
          BY <1>2, <1>3, <3>2
        <4> QED
          BY <1>6, <4>1
      <3> QED
        BY <1>4, <3>1, <3>2
    <2> QED
      BY <1>7, <2>1, <2>2, Zenon DEF InTurn, AllPrecede, Precedes
  <1>9. ASSUME NEW m \in Unread'
        PROVE  m \in Unread
    <2>1. m \in ServerPDU
      BY <1>9, Zenon DEF Unread
    <2>2. CASE \E k \in DOMAIN outbox' : m = outbox'[k]
      <3>1. \E k \in DOMAIN outbox : m = outbox[k]
        BY <1>1, <2>2
      <3> QED
        BY <2>1, <3>1, Zenon DEF Unread
    <2>3. CASE \E i \in DOMAIN s2c' : \E j \in DOMAIN s2c'[i].pdus : m = s2c'[i].pdus[j]
      <3>1. PICK i \in DOMAIN s2c' : \E j \in DOMAIN s2c'[i].pdus : m = s2c'[i].pdus[j]
        BY <2>3
      <3>2. CASE i \in DOMAIN s2c
        <4>1. \E j \in DOMAIN s2c[i].pdus : m = s2c[i].pdus[j]
          BY <1>3, <3>1, <3>2
        <4> QED
          BY <2>1, <3>2, <4>1, Zenon DEF Unread
      <3>3. CASE i = Len(s2c) + 1
        <4>1. \E l \in DOMAIN outbox : m = outbox[l]
          BY <1>1, <1>2, <1>3, <3>1, <3>3
        <4> QED
          BY <2>1, <4>1, Zenon DEF Unread
      <3> QED
        BY <1>4, <3>2, <3>3
    <2> QED
      BY <1>9, <2>2, <2>3, Zenon DEF Unread
  <1> QED
    BY <1>8, <1>9

-----------------------------------------------------------------------------
\* The types, and what GlobalChannelProofs keeps for every peer.
LEMMA LogGrows ==
    ASSUME TypeOK, TypeOK', Answers \/ Takes \/ Writes
    PROVE  /\ Len(c2s) \in Nat /\ Len(c2s') \in Nat /\ Len(c2s) <= Len(c2s')
           /\ \A i \in 1 .. Len(c2s) : c2s'[i] = c2s[i]
  <1>1. c2s \in Seq(ClientPDU) /\ c2s' \in Seq(ClientPDU) /\ share_id' \in Nat
    BY DEF TypeOK
  <1>2. ASSUME NEW q \in Seq(ClientPDU), c2s' = c2s \o q
        PROVE  Len(c2s) <= Len(c2s') /\ \A i \in 1 .. Len(c2s) : c2s'[i] = c2s[i]
    BY <1>1, <1>2
  <1>3. CASE Answers
    <2>1. PICK k \in 0 .. 5 : c2s' = c2s \o SubSeq(Answer(share_id'), 1, k)
      BY <1>3 DEF Answers
    <2>2. Answer(share_id') \in Seq(ClientPDU) /\ Len(Answer(share_id')) = 5
      BY <1>1, AnswerType
    <2>3. k \in 0 .. Len(Answer(share_id'))
      BY <2>2
    <2>4. Len(c2s') = Len(c2s) + k /\ \A i \in 1 .. Len(c2s) : c2s'[i] = c2s[i]
      BY <1>1, <2>1, <2>2, <2>3, Prefix
    <2> QED
      BY <1>1, <2>4
  <1>4. CASE c2s' = c2s
    BY <1>1, <1>4
  <1>5. CASE c2s' = c2s \o Input \/ c2s' = c2s \o Ultimatum
    BY <1>1, <1>2, <1>5, InputType, UltimatumType
  <1>6. Takes => c2s' = c2s
    BY DEF Takes
  <1>7. Writes => c2s' = c2s \/ c2s' = c2s \o Input \/ c2s' = c2s \o Ultimatum
    BY DEF Writes
  <1> QED
    BY <1>1, <1>3, <1>4, <1>5, <1>6, <1>7

\* What the server puts on the link has the type of a payload.
LEMMA OfferType ==
    /\ \A q \in Seq(ServerPDU) : Raw(q) \in Payload
    /\ \A q \in Seq(Update) : FastPath(q) \in Payload
  <1>1. <<>> \in Seq(ServerPDU) /\ <<>> \in Seq(Update)
    BY SMT
  <1> QED
    BY <1>1, Zenon DEF Raw, FastPath, Payload

\* The server says one PDU.
LEMMA SayType ==
    ASSUME SessionTypeOK, NEW type \in ServerTypes, offered' \in Nat, Say(type)
    PROVE  /\ [type |-> type, share |-> offered'] \in ServerPDU
           /\ outbox' = Append(outbox, [type |-> type, share |-> offered'])
           /\ outbox' \in Seq(ServerPDU)
           /\ UNCHANGED vars /\ manners' = manners
  <1>1. [type |-> type, share |-> offered'] \in ServerPDU
    BY DEF ServerPDU
  <1>2. outbox' = Append(outbox, [type |-> type, share |-> offered'])
    BY DEF Say
  <1>3. outbox \in Seq(ServerPDU)
    BY DEF SessionTypeOK
  <1>4. outbox' \in Seq(ServerPDU)
    BY <1>1, <1>2, <1>3
  <1> QED
    BY <1>1, <1>2, <1>4 DEF Say

\* The steps of the server from one Demand Active PDU to the next: from what
\* to what phase, with which PDU.
Spoken(from, to, type) ==
    \/ from = "Confirmed" /\ to = "Synchronized" /\ type = "Synchronize"
    \/ from = "Synchronized" /\ to = "Cooperating" /\ type = "Cooperate"
    \/ from = "Cooperating" /\ to = "Controlled" /\ type = "Granted" /\ requested
    \/ from = "Controlled" /\ to = "Active" /\ type = "FontMap" /\ fonts
    \/ /\ from # "Idle" /\ to = "Idle" /\ type = "DeactivateAll"
       /\ from = "Active" \/ Unruly

Speaks ==
    SrvSynchronize \/ SrvCooperate \/ SrvGrant \/ SrvFontMap \/ SrvDeactivate

\* What a step of the server says leads from one phase to another.
LEMMA Speaking ==
    ASSUME SessionTypeOK, Speaks
    PROVE  \E from, to \in Phase, type \in ServerTypes :
              Spoken(from, to, type) /\ Step(from, to, type)
  <1>1. /\ Phase = {"Idle", "Demanded", "Confirmed", "Synchronized", "Cooperating",
                    "Controlled", "Active"}
        /\ {"Synchronize", "Cooperate", "Granted", "FontMap", "DeactivateAll"}
               \subseteq ServerTypes
    BY DEF Phase, ServerTypes, DataTypes, ParsedDataTypes, ControlTypes
  <1>2. CASE SrvSynchronize
    <2>1. Spoken("Confirmed", "Synchronized", "Synchronize")
      BY DEF Spoken
    <2> QED
      BY <1>1, <1>2, <2>1, Zenon DEF SrvSynchronize
  <1>3. CASE SrvCooperate
    <2>1. Spoken("Synchronized", "Cooperating", "Cooperate")
      BY DEF Spoken
    <2> QED
      BY <1>1, <1>3, <2>1, Zenon DEF SrvCooperate
  <1>4. CASE SrvGrant
    <2>1. Spoken("Cooperating", "Controlled", "Granted")
      BY <1>4 DEF SrvGrant, Spoken
    <2> QED
      BY <1>1, <1>4, <2>1, Zenon DEF SrvGrant
  <1>5. CASE SrvFontMap
    <2>1. Spoken("Controlled", "Active", "FontMap")
      BY <1>5 DEF SrvFontMap, Spoken
    <2> QED
      BY <1>1, <1>5, <2>1, Zenon DEF SrvFontMap
  <1>6. CASE SrvDeactivate
    <2>1. CASE Step("Active", "Idle", "DeactivateAll")
      <3>1. Spoken("Active", "Idle", "DeactivateAll")
        BY DEF Spoken
      <3> QED
        BY <1>1, <2>1, <3>1, Zenon
    <2>2. CASE Unruly /\ \E from \in Phase \ {"Idle", "Active"} : Step(from, "Idle", "DeactivateAll")
      <3>1. PICK from \in Phase \ {"Idle", "Active"} : Step(from, "Idle", "DeactivateAll")
        BY <2>2
      <3>2. Spoken(from, "Idle", "DeactivateAll")
        BY <2>2 DEF Spoken
      <3> QED
        BY <1>1, <3>1, <3>2, Zenon
    <2> QED
      BY <1>6, <2>1, <2>2, Zenon DEF SrvDeactivate
  <1> QED
    BY <1>2, <1>3, <1>4, <1>5, <1>6, Zenon DEF Speaks

\* The server keeps the types, and does not touch the client.
LEMMA ServerType ==
    ASSUME SessionTypeOK, ServerStep
    PROVE  SessionTypeOK' /\ UNCHANGED <<state, share_id, result, link, c2s, manners>>
  <1> USE SessionAssumption
  <1>1. /\ TypeOK /\ manners \in Servers /\ phase \in Phase /\ offered \in 0 .. MaxShare
        /\ requested \in BOOLEAN /\ fonts \in BOOLEAN /\ taken \in 0 .. Len(c2s)
        /\ outbox \in Seq(ServerPDU) /\ bitmaps \in 0 .. MaxBitmaps
    BY DEF SessionTypeOK
  <1>2. ASSUME NEW type \in ServerTypes, Say(type), offered' \in 0 .. MaxShare, phase' \in Phase,
               requested' \in BOOLEAN, fonts' \in BOOLEAN, UNCHANGED <<taken, bitmaps>>
        PROVE  SessionTypeOK' /\ UNCHANGED <<state, share_id, result, link, c2s, manners>>
    <2>1. outbox' \in Seq(ServerPDU) /\ UNCHANGED vars /\ manners' = manners
      <3>1. offered' \in Nat
        BY <1>2
      <3> QED
        BY <1>2, <3>1, SayType
    <2> QED
      BY <1>1, <1>2, <2>1 DEF SessionTypeOK, TypeOK, vars, clientVars, linkVars
  <1>3. ASSUME NEW p \in Payload, Deliver(p), UNCHANGED <<manners, phase, offered, requested, fonts, taken>>,
               outbox' \in Seq(ServerPDU), bitmaps' \in 0 .. MaxBitmaps
        PROVE  SessionTypeOK' /\ UNCHANGED <<state, share_id, result, link, c2s, manners>>
    <2>1. TypeOK' /\ UNCHANGED <<state, share_id, result, link, c2s>>
      BY <1>1, <1>3 DEF Deliver, TypeOK, clientVars
    <2> QED
      BY <1>1, <1>3, <2>1 DEF SessionTypeOK
  <1>4. CASE SrvDemand
    <2>1. /\ Say("DemandActive") /\ offered' \in 0 .. MaxShare /\ phase' = "Demanded"
          /\ requested' = FALSE /\ fonts' = FALSE /\ UNCHANGED <<taken, bitmaps>>
      BY <1>1, <1>4 DEF SrvDemand
    <2>2. "DemandActive" \in ServerTypes /\ "Demanded" \in Phase
      BY DEF ServerTypes, Phase
    <2> QED
      BY <1>2, <2>1, <2>2
  <1>5. CASE Speaks
    <2>1. PICK from, to \in Phase, type \in ServerTypes : Step(from, to, type)
      BY <1>5, Speaking
    <2> QED
      BY <1>1, <1>2, <2>1 DEF Step
  <1>6. CASE SrvNoise
    <2>1. PICK type \in {"ErrorInfo", "Unparsed"} : Deliver(Raw(<<[type |-> type, share |-> offered]>>))
      BY <1>6 DEF SrvNoise, HandshakeNoise
    <2>2. <<[type |-> type, share |-> offered]>> \in Seq(ServerPDU)
      <3>1. [type |-> type, share |-> offered] \in ServerPDU
        BY <1>1 DEF ServerPDU, ServerTypes, DataTypes, DataError, ParsedDataTypes
      <3> QED
        BY <3>1
    <2>3. Raw(<<[type |-> type, share |-> offered]>>) \in Payload
      BY <2>2, OfferType
    <2> QED
      BY <1>1, <1>3, <1>6, <2>1, <2>3 DEF SrvNoise, srvVars
  <1>7. CASE SrvUpdate
    <2>1. bitmaps' \in 0 .. MaxBitmaps
      <3>1. bitmaps < MaxBitmaps \/ bitmaps < 1
        BY <1>7, Zenon DEF SrvUpdate
      <3>2. bitmaps' = bitmaps + 1
        BY <1>7 DEF SrvUpdate
      <3>3. bitmaps \in Nat /\ MaxBitmaps \in Nat \ {0}
        BY <1>1
      <3> QED
        BY <3>1, <3>2, <3>3
    <2>2. PICK b : b = [type |-> "Bitmap", n |-> bitmaps']
      OBVIOUS
    <2>3. \/ Deliver(FastPath(<<b>>))
          \/ \E type \in {"Pointer", "Unparsed"} : Deliver(FastPath(<<[type |-> type, n |-> 0], b>>))
      BY <1>7, <2>2, Zenon DEF SrvUpdate
    <2>4. /\ <<b>> \in Seq(Update)
          /\ \A type \in {"Pointer", "Unparsed"} : <<[type |-> type, n |-> 0], b>> \in Seq(Update)
      <3>1. b \in Update /\ \A type \in {"Pointer", "Unparsed"} : [type |-> type, n |-> 0] \in Update
        BY <2>1, <2>2 DEF Update
      <3> QED
        BY <3>1
    <2>5. \E p \in Payload : Deliver(p)
      BY <2>3, <2>4, OfferType, Zenon
    <2> QED
      BY <1>1, <1>3, <1>7, <2>1, <2>5 DEF SrvUpdate
  <1>8. CASE SrvReceive
    <2>1. /\ taken < Len(c2s) /\ taken' = taken + 1
          /\ UNCHANGED <<vars, manners, offered, outbox, bitmaps>>
      BY <1>8 DEF SrvReceive
    <2>2. TypeOK' /\ UNCHANGED <<state, share_id, result, link, c2s, manners>>
      BY <1>1, <2>1 DEF TypeOK, vars, clientVars, linkVars
    <2>3. taken' \in 0 .. Len(c2s)
      <3>1. c2s \in Seq(ClientPDU)
        BY <1>1 DEF TypeOK
      <3> QED
        BY <1>1, <2>1, <3>1
    <2>4. PICK m : m = c2s[taken']
      OBVIOUS
    <2>5. /\ phase' = "Confirmed" \/ phase' = phase
          /\ requested' = (requested \/ m.type = "RequestControl") \/ requested' = requested
          /\ fonts' = (fonts \/ m.type = "FontList") \/ fonts' = fonts
      BY <1>8, <2>4, Zenon DEF SrvReceive
    <2>6. phase' \in Phase /\ requested' \in BOOLEAN /\ fonts' \in BOOLEAN
      <3>1. "Confirmed" \in Phase
        BY DEF Phase
      <3> QED
        BY <1>1, <2>5, <3>1
    <2> QED
      BY <1>1, <2>1, <2>2, <2>3, <2>6 DEF SessionTypeOK
  <1>9. CASE Flush
    <2>1. PICK n \in 1 .. Len(outbox) :
              /\ Deliver(Raw(SubSeq(outbox, 1, n)))
              /\ outbox' = SubSeq(outbox, n + 1, Len(outbox))
      BY <1>9 DEF Flush
    <2>2. SubSeq(outbox, 1, n) \in Seq(ServerPDU) /\ outbox' \in Seq(ServerPDU)
      BY <1>1, <2>1
    <2> QED
      BY <1>1, <1>3, <1>9, <2>1, <2>2, OfferType DEF Flush
  <1> QED
    BY <1>4, <1>5, <1>6, <1>7, <1>8, <1>9, Zenon DEF ServerStep, Speaks

\* Every step keeps the types.
LEMMA TypedStep ==
    ASSUME Typed, [SessionNext]_sessionVars
    PROVE  Typed'
  <1>1. SessionTypeOK /\ IInv /\ TypeOK
    BY DEF Typed, SessionTypeOK
  <1>2. CASE ClientStep
    <2>1. Next /\ UNCHANGED srvVars
      BY <1>2 DEF ClientStep, Next
    <2>2. IInv' /\ TypeOK'
      BY <1>1, <2>1, TypePreserved, Inductive
    <2>3. Len(c2s) \in Nat /\ Len(c2s') \in Nat /\ Len(c2s) <= Len(c2s')
      BY <1>1, <1>2, <2>2, ClientActs, LogGrows
    <2>4. taken' \in 0 .. Len(c2s')
      BY <1>1, <2>1, <2>3 DEF SessionTypeOK, srvVars
    <2> QED
      BY <1>1, <2>1, <2>2, <2>4 DEF Typed, SessionTypeOK, srvVars
  <1>3. CASE ServerStep
    <2>1. SessionTypeOK' /\ UNCHANGED <<state, share_id, result, link, c2s, manners>>
      BY <1>1, <1>3, ServerType
    <2>2. TypeOK'
      BY <2>1 DEF SessionTypeOK
    <2>3. IInv'
      BY <1>1, <2>1, <2>2, NothingWritten
    <2> QED
      BY <2>1, <2>3 DEF Typed
  <1>4. CASE UNCHANGED sessionVars
    <2>1. TypeOK' /\ UNCHANGED <<state, share_id, link, c2s>>
      BY <1>1, <1>4 DEF TypeOK, sessionVars, vars, clientVars, linkVars
    <2>2. IInv'
      BY <1>1, <2>1, NothingWritten
    <2> QED
      BY <1>1, <1>4, <2>1, <2>2 DEF Typed, SessionTypeOK, sessionVars, srvVars
  <1> QED
    BY <1>2, <1>3, <1>4 DEF SessionNext

\* They hold at first.
LEMMA TypedInit == SessionInit => Typed
  <1>1. Init => IInv
    BY DEF Init, IInv, TypeOK, ClientState, NoShare, HandshakeOrder, Complete, Closed
  <1>2. SessionInit => SessionTypeOK
    <2> SUFFICES ASSUME SessionInit
                 PROVE  SessionTypeOK
      OBVIOUS
    <2>1. TypeOK
      BY <1>1 DEF SessionInit, IInv
    <2>2. taken \in 0 .. Len(c2s)
      BY DEF SessionInit, Init
    <2>3. /\ manners \in Servers /\ phase = "Idle" /\ offered = 0 /\ requested = FALSE
          /\ fonts = FALSE /\ outbox = <<>> /\ bitmaps = 0
      BY DEF SessionInit
    <2>4. offered \in 0 .. MaxShare /\ bitmaps \in 0 .. MaxBitmaps
      BY <2>3, SessionAssumption
    <2>5. outbox \in Seq(ServerPDU)
      BY <2>3
    <2>6. phase \in Phase
      BY <2>3 DEF Phase
    <2> QED
      BY <2>1, <2>2, <2>3, <2>4, <2>5, <2>6 DEF SessionTypeOK
  <1> QED
    BY <1>1, <1>2 DEF SessionInit, Typed

(***************************************************************************)
(* Client and server keep to their types, whatever the manners.            *)
(***************************************************************************)
THEOREM SessionTyped == SessionSpec => []SessionTypeOK
  <1>1. Typed => SessionTypeOK
    BY DEF Typed
  <1> QED
    BY <1>1, TypedInit, TypedStep, PTL DEF SessionSpec

-----------------------------------------------------------------------------
\* Flow is kept.
LEMMA Phases ==
    /\ \A p \in Phase : Reached[p] \in 1 .. 5
    /\ \A s \in ClientState : s # "DemandActivePDU" => Rank[s] \in 1 .. 5
    /\ Rank["SynchronizePDU"] = 1
    /\ DOMAIN Level = {"Synchronize", "Cooperate", "Granted", "FontMap"}
    /\ \A t \in DOMAIN Level : Level[t] \in 2 .. 5
  BY SMT DEF Phase, Reached, ClientState, Rank, Level

\* A client that reads on finds PDUs of the share it is in, or later ones.
LEMMA FlowTakes ==
    ASSUME Typed, Flow, Takes, UNCHANGED srvVars
    PROVE  Flow'
  <1>1. /\ TypeOK /\ SessionTypeOK /\ AllKnown /\ InTurn /\ NeverAhead /\ share_id <= offered
        /\ state # "DemandActivePDU" => share_id > 0
        /\ outbox \in Seq(ServerPDU) /\ phase \in Phase
    BY DEF Typed, SessionTypeOK, Flow
  <1>2. /\ s2c # <<>> /\ s2c' = Tail(s2c) /\ share_id' = share_id /\ offered' = offered
        /\ phase' = phase /\ outbox' = outbox
    BY DEF Takes, srvVars
  <1>3. InTurn' /\ Unread' \subseteq Unread
    BY <1>1, <1>2, ReadTurn
  <1>4. \/ UNCHANGED state
        \/ state' = "DemandActivePDU"
        \/ /\ state # "DemandActivePDU"
           /\ \E m \in Unread : /\ m.type \in DOMAIN Level
                                /\ Rank[state'] = Level[m.type]
    <2>1. ASSUME NEW from, NEW wanted \in DOMAIN Level, NEW to, Advance(from, wanted, to),
                 from # "DemandActivePDU", Rank[to] = Level[wanted]
          PROVE  /\ state # "DemandActivePDU"
                 /\ \E m \in Unread : m.type \in DOMAIN Level /\ Rank[state'] = Level[m.type]
      <3>1. /\ state = from /\ state' = to /\ Received /\ payload.kind = "Raw"
            /\ FirstType(payload) = wanted
        BY <2>1 DEF Advance
      <3>2. wanted # "Malformed" /\ wanted # "FastPath"
        BY <2>1, Phases
      <3>3. Head(s2c).pdus # <<>> /\ Head(s2c).pdus[1].type = wanted
        BY <3>1, <3>2 DEF FirstType, payload
      <3>4. Head(s2c).pdus[1] \in Unread
        <4>1. s2c \in Seq(Payload)
          BY <1>1 DEF TypeOK
        <4>2. 1 \in DOMAIN s2c /\ Head(s2c) = s2c[1]
          BY <1>2, <4>1, TailShifts
        <4>3. s2c[1].pdus \in Seq(ServerPDU)
          BY <1>1, <4>2, UnreadHas
        <4>4. 1 \in DOMAIN s2c[1].pdus /\ 1 \in Nat
          BY <3>3, <4>2, <4>3
        <4> QED
          BY <1>1, <4>2, <4>4, UnreadHas
      <3> QED
        BY <2>1, <3>1, <3>3, <3>4
    <2>2. CASE ReadSynchronizePdu
      <3>1. "Synchronize" \in DOMAIN Level /\ Rank["ControlCooperate"] = Level["Synchronize"]
        BY SMT DEF Level, Rank
      <3> QED
        BY <2>1, <2>2, <3>1 DEF ReadSynchronizePdu
    <2>3. CASE ReadControlCooperate
      <3>1. "Cooperate" \in DOMAIN Level /\ Rank["ControlGranted"] = Level["Cooperate"]
        BY SMT DEF Level, Rank
      <3> QED
        BY <2>1, <2>3, <3>1 DEF ReadControlCooperate
    <2>4. CASE ReadControlGranted
      <3>1. "Granted" \in DOMAIN Level /\ Rank["FontMap"] = Level["Granted"]
        BY SMT DEF Level, Rank
      <3> QED
        BY <2>1, <2>4, <3>1 DEF ReadControlGranted
    <2>5. CASE ReadFontMapPdu
      <3>1. "FontMap" \in DOMAIN Level /\ Rank["Data"] = Level["FontMap"]
        BY SMT DEF Level, Rank
      <3> QED
        BY <2>1, <2>5, <3>1 DEF ReadFontMapPdu
    <2> QED
      BY <2>2, <2>3, <2>4, <2>5 DEF Takes
  <1>5. state' # "DemandActivePDU" => state # "DemandActivePDU"
    BY <1>4
  <1>6. AllKnown'
    <2> SUFFICES ASSUME NEW m \in Unread'
                 PROVE  Known(m)'
      BY DEF AllKnown
    <2>1. Known(m)
      BY <1>1, <1>3 DEF AllKnown
    <2> QED
      BY <1>2, <1>5, <2>1 DEF Known
  <1>7. NeverAhead'
    <2>1. CASE UNCHANGED state
      BY <1>1, <1>2, <2>1 DEF NeverAhead
    <2>2. CASE state' = "DemandActivePDU"
      BY <2>2 DEF NeverAhead
    <2>3. CASE /\ state # "DemandActivePDU"
               /\ \E m \in Unread : m.type \in DOMAIN Level /\ Rank[state'] = Level[m.type]
      <3>1. PICK m \in Unread : m.type \in DOMAIN Level /\ Rank[state'] = Level[m.type]
        BY <2>3
      <3>2. Known(m) /\ m \in ServerPDU
        BY <1>1, <3>1 DEF AllKnown, Unread
      <3>3. m.share \in Nat /\ share_id \in Nat /\ offered \in Nat
        BY <1>1, <3>2 DEF ServerPDU, SessionTypeOK, TypeOK
      <3>4. m.share >= share_id /\ m.share <= offered
        BY <2>3, <3>2 DEF Known
      <3>5. m.share = offered => Level[m.type] <= Reached[phase]
        BY <3>1, <3>2 DEF Known
      <3>6. CASE share_id = offered
        <4>1. m.share = offered
          BY <3>3, <3>4, <3>6
        <4>2. Rank[state'] <= Reached[phase']
          BY <1>2, <3>1, <3>5, <4>1
        <4> QED
          BY <1>2, <3>6, <4>2 DEF NeverAhead
      <3>7. CASE share_id # offered
        <4>1. share_id' < offered'
          BY <1>1, <1>2, <3>3, <3>7
        <4> QED
          BY <4>1 DEF NeverAhead
      <3> QED
        BY <3>6, <3>7
    <2> QED
      BY <1>4, <2>1, <2>2, <2>3
  <1> QED
    BY <1>1, <1>2, <1>3, <1>5, <1>6, <1>7 DEF Flow

\* The Demand Active PDU a client answers is of a share after all it has
\* seen, and what comes behind it is of that share or a later one.
LEMMA Demanded ==
    ASSUME Typed, AllKnown, Answers
    PROVE  /\ share_id' \in Nat /\ share_id < share_id' /\ share_id' <= offered
           /\ Head(s2c).pdus \in Seq(ServerPDU)
           /\ 1 \in DOMAIN Head(s2c).pdus
           /\ Head(s2c).pdus[1] \in Unread
           /\ Head(s2c).pdus[1].type = "DemandActive"
           /\ Head(s2c).pdus[1].share = share_id'
  <1>1. TypeOK /\ SessionTypeOK /\ outbox \in Seq(ServerPDU)
    BY DEF Typed, SessionTypeOK
  <1>2. /\ s2c # <<>> /\ Head(s2c).pdus # <<>>
        /\ Head(s2c).pdus[1].type = "DemandActive"
        /\ share_id' = Head(s2c).pdus[1].share
    BY DEF Answers
  <1>3. 1 \in DOMAIN s2c /\ Head(s2c) = s2c[1]
    <2>1. s2c \in Seq(Payload)
      BY <1>1 DEF TypeOK
    <2> QED
      BY <1>2, <2>1, TailShifts
  <1>4. s2c[1].pdus \in Seq(ServerPDU)
    BY <1>1, <1>3, UnreadHas
  <1>5. 1 \in DOMAIN s2c[1].pdus /\ 1 \in Nat
    BY <1>2, <1>3, <1>4
  <1>6. s2c[1].pdus[1] \in Unread
    BY <1>1, <1>3, <1>5, UnreadHas
  <1>7. Known(s2c[1].pdus[1]) /\ s2c[1].pdus[1] \in ServerPDU
    BY <1>6 DEF AllKnown, Unread
  <1>8. share_id' \in Nat
    BY <1>2, <1>3, <1>7 DEF ServerPDU
  <1>9. share_id < share_id' /\ share_id' <= offered
    BY <1>1, <1>2, <1>3, <1>7, <1>8 DEF Known, TypeOK
  <1> QED
    BY <1>2, <1>3, <1>4, <1>5, <1>6, <1>8, <1>9

\* An answer to a demand keeps Flow.
LEMMA FlowAnswers ==
    ASSUME Typed, Typed', Flow, Answers, UNCHANGED srvVars
    PROVE  Flow'
  <1>1. /\ TypeOK /\ SessionTypeOK /\ AllKnown /\ InTurn
        /\ outbox \in Seq(ServerPDU) /\ phase \in Phase /\ offered \in Nat
    BY DEF Typed, SessionTypeOK, Flow
  <1>2. /\ s2c # <<>> /\ s2c' = Tail(s2c) /\ offered' = offered
        /\ phase' = phase /\ outbox' = outbox
        /\ state' = "SynchronizePDU" \/ state' = "DemandActivePDU"
    BY DEF Answers, srvVars
  <1>3. /\ InTurn' /\ Unread' \subseteq Unread
        /\ \A m \in Unread', j \in DOMAIN Head(s2c).pdus : Precedes(Head(s2c).pdus[j], m)
    BY <1>1, <1>2, ReadTurn
  <1>4. /\ share_id \in Nat /\ share_id' \in Nat /\ share_id < share_id' /\ share_id' <= offered
        /\ 1 \in DOMAIN Head(s2c).pdus /\ Head(s2c).pdus[1].share = share_id'
    BY <1>1, Demanded DEF TypeOK
  <1>5. AllKnown'
    <2> SUFFICES ASSUME NEW m \in Unread'
                 PROVE  Known(m)'
      BY DEF AllKnown
    <2>1. Known(m)
      BY <1>1, <1>3 DEF AllKnown
    <2>2. m.share >= share_id' /\ (m.type = "DemandActive" => m.share > share_id')
      <3>1. Precedes(Head(s2c).pdus[1], m)
        BY <1>3, <1>4
      <3>2. m \in ServerPDU
        BY <1>3 DEF Unread
      <3>3. m.share \in Nat
        BY <3>2 DEF ServerPDU
      <3> QED
        BY <1>4, <3>1, <3>3 DEF Precedes
    <2> QED
      BY <1>2, <2>1, <2>2 DEF Known
  <1>6. NeverAhead'
    <2>1. CASE state' = "DemandActivePDU"
      BY <2>1 DEF NeverAhead
    <2>2. CASE state' = "SynchronizePDU"
      <3>1. Rank[state'] <= Reached[phase']
        BY <1>1, <1>2, <2>2, Phases
      <3>2. share_id' < offered' \/ share_id' = offered'
        BY <1>1, <1>2, <1>4
      <3> QED
        BY <3>1, <3>2 DEF NeverAhead
    <2> QED
      BY <1>2, <2>1, <2>2
  <1>7. share_id' <= offered' /\ share_id' > 0
    BY <1>1, <1>2, <1>4
  <1> QED
    BY <1>3, <1>5, <1>6, <1>7 DEF Flow

\* The server goes on: what it says of the last share is what it has done.
LEMMA FlowServer ==
    ASSUME Typed, Typed', Flow, ServerStep
    PROVE  Flow'
  <1>1. /\ TypeOK /\ SessionTypeOK /\ AllKnown /\ InTurn /\ NeverAhead
        /\ outbox \in Seq(ServerPDU) /\ phase \in Phase /\ offered \in Nat
        /\ phase' \in Phase /\ offered' \in Nat
        /\ share_id \in Nat /\ share_id <= offered
        /\ state # "DemandActivePDU" => share_id > 0
        /\ state \in ClientState
    BY SessionAssumption DEF Typed, SessionTypeOK, Flow, TypeOK
  <1>2. UNCHANGED <<state, share_id, result, link, c2s, manners>>
    BY <1>1, ServerType
  <1>3. \A m \in Unread : m \in ServerPDU /\ m.share \in Nat /\ m.share <= offered
    BY <1>1 DEF AllKnown, Known, Unread, ServerPDU
  <1>4. ASSUME offered' = offered, Reached[phase] <= Reached[phase'],
               phase = "Idle" => phase' = "Idle", InTurn',
               \A m \in Unread' : m \in Unread \/ Known(m)'
        PROVE  Flow'
    <2>1. Reached[phase] \in Nat /\ Reached[phase'] \in Nat
      BY <1>1, Phases
    <2>2. ASSUME NEW m \in Unread
          PROVE  Known(m)'
      <3>1. Known(m)
        BY <1>1, <2>2 DEF AllKnown
      <3>2. m.type \in DOMAIN Level => Level[m.type] \in Nat
        BY Phases
      <3>3. m.share = offered /\ m.type \in DOMAIN Level => Level[m.type] <= Reached[phase']
        BY <1>4, <2>1, <3>1, <3>2 DEF Known
      <3> QED
        BY <1>2, <1>4, <3>1, <3>3 DEF Known
    <2>3. AllKnown'
      BY <1>4, <2>2 DEF AllKnown
    <2>4. NeverAhead'
      <3>1. state # "DemandActivePDU" => Rank[state] \in Nat
        BY <1>1, Phases
      <3> QED
        BY <1>1, <1>2, <1>4, <2>1, <3>1 DEF NeverAhead
    <2> QED
      BY <1>1, <1>2, <1>4, <2>3, <2>4 DEF Flow
  <1>5. CASE SrvDemand
    <2> DEFINE m == [type |-> "DemandActive", share |-> offered']
    <2>1. /\ Say("DemandActive") /\ offered' = offered + 1 /\ phase' = "Demanded"
      BY <1>5 DEF SrvDemand
    <2>2. m \in ServerPDU /\ outbox' = Append(outbox, m) /\ s2c' = s2c
      <3>1. "DemandActive" \in ServerTypes
        BY DEF ServerTypes
      <3> QED
        BY <1>1, <2>1, <3>1, SayType DEF vars, linkVars
    <2>3. m.type = "DemandActive" /\ m.share = offered'
      OBVIOUS
    <2> HIDE DEF m
    <2>4. InTurn' /\ Unread' \subseteq Unread \cup {m}
      <3>1. \A u \in Unread : Precedes(u, m)
        BY <1>1, <1>3, <2>1, <2>3 DEF Precedes
      <3> QED
        BY <1>1, <2>2, <3>1, SayTurn
    <2>5. AllKnown'
      <3> SUFFICES ASSUME NEW u \in Unread'
                   PROVE  Known(u)'
        BY DEF AllKnown
      <3>1. CASE u = m
        BY <1>1, <1>2, <2>1, <2>3, <3>1, Phases DEF Known
      <3>2. CASE u \in Unread
        <4>1. Known(u) /\ u.share \in Nat /\ u.share <= offered
          BY <1>1, <1>3, <3>2 DEF AllKnown
        <4> QED
          BY <1>1, <1>2, <2>1, <4>1 DEF Known
      <3> QED
        BY <2>4, <3>1, <3>2
    <2>6. share_id' < offered'
      BY <1>1, <1>2, <2>1
    <2> QED
      BY <1>1, <1>2, <2>4, <2>5, <2>6 DEF Flow, NeverAhead
  <1>6. CASE Speaks
    <2>1. PICK from, to \in Phase, type \in ServerTypes :
              Spoken(from, to, type) /\ Step(from, to, type)
      BY <1>1, <1>6, Speaking
    <2>a. PICK m : m = [type |-> type, share |-> offered']
      OBVIOUS
    <2>2. phase = from /\ phase' = to /\ offered' = offered /\ Say(type)
      BY <2>1 DEF Step
    <2>3. m \in ServerPDU /\ outbox' = Append(outbox, m) /\ s2c' = s2c
      BY <1>1, <2>a, <2>2, SayType DEF vars, linkVars
    <2>4. m.type = type /\ m.share = offered'
      BY <2>a
    <2>5. /\ Reached[from] <= Reached[to] /\ from # "Idle" /\ type # "DemandActive"
          /\ type \in DOMAIN Level => Level[type] <= Reached[to]
          /\ type = "DeactivateAll" => to = "Idle"
      <3>1. CASE type = "DeactivateAll"
        <4>1. Reached["Idle"] = 5 /\ from # "Idle" /\ to = "Idle"
          BY <2>1, <3>1 DEF Spoken, Reached
        <4> QED
          BY <2>1, <3>1, <4>1, Phases
      <3>2. CASE type # "DeactivateAll"
        BY <2>1, <3>2 DEF Spoken, Reached, Level
      <3> QED
        BY <3>1, <3>2
    <2>6. InTurn' /\ Unread' \subseteq Unread \cup {m}
      <3>1. \A u \in Unread : Precedes(u, m)
        BY <1>1, <1>3, <2>2, <2>4, <2>5 DEF Precedes
      <3> QED
        BY <1>1, <2>3, <3>1, SayTurn
    <2>7. Known(m)'
      BY <1>1, <1>2, <2>2, <2>4, <2>5 DEF Known
    <2> QED
      BY <1>4, <2>2, <2>5, <2>6, <2>7
  <1>7. CASE SrvNoise
    <2>1. PICK type \in {"ErrorInfo", "Unparsed"} : Deliver(Raw(<<[type |-> type, share |-> offered]>>))
      BY <1>7 DEF SrvNoise, HandshakeNoise
    <2>2. outbox = <<>> /\ UNCHANGED srvVars
      BY <1>7 DEF SrvNoise
    <2>3. PICK m : m = [type |-> type, share |-> offered]
      OBVIOUS
    <2>4. PICK p : p = Raw(<<m>>)
      OBVIOUS
    <2>5. /\ m \in ServerPDU /\ m.share = offered /\ m.type = type
          /\ type # "DemandActive" /\ type \notin DOMAIN Level /\ type # "DeactivateAll"
      BY <1>1, <2>3, Phases DEF ServerPDU, ServerTypes, DataTypes, DataError, ParsedDataTypes
    <2>6. p \in Payload /\ DOMAIN p.pdus = {1} /\ p.pdus[1] = m
      <3>1. <<m>> \in Seq(ServerPDU) /\ DOMAIN <<m>> = {1} /\ <<m>>[1] = m
        BY <2>5
      <3>2. p.pdus = <<m>>
        BY <2>4 DEF Raw
      <3> QED
        BY <2>4, <3>1, <3>2, OfferType
    <2>7. s2c' = Append(s2c, p)
      BY <2>1, <2>3, <2>4 DEF Deliver
    <2>8. InTurn' /\ \A u \in Unread' : u \in Unread \/ u = m
      <3>1. \A u \in Unread, l \in DOMAIN p.pdus : Precedes(u, p.pdus[l])
        BY <1>3, <2>5, <2>6 DEF Precedes
      <3>2. InTurn' /\ \A u \in Unread' : u \in Unread \/ \E l \in DOMAIN p.pdus : u = p.pdus[l]
        BY <1>1, <2>2, <2>6, <2>7, <3>1, DeliverTurn DEF srvVars
      <3> QED
        BY <2>6, <3>2
    <2>9. UNCHANGED <<offered, phase, outbox>>
      BY <2>2 DEF srvVars
    <2>10. Reached[phase] <= Reached[phase']
      BY <1>1, <2>9, Phases
    <2>11. Known(m)'
      BY <1>1, <1>2, <2>5, <2>9 DEF Known
    <2> QED
      BY <1>4, <2>8, <2>9, <2>10, <2>11
  <1>8. CASE SrvUpdate
    <2>1. PICK q : s2c' = Append(s2c, FastPath(q)) /\ FastPath(q) \in Payload
      <3>1. s2c' \in Seq(Payload) /\ s2c \in Seq(Payload)
        BY <1>1 DEF Typed, IInv, TypeOK
      <3>2. \E q : s2c' = Append(s2c, FastPath(q))
        BY <1>8, Zenon DEF SrvUpdate, Deliver
      <3>3. ASSUME NEW q, s2c' = Append(s2c, FastPath(q))
            PROVE  FastPath(q) \in Payload
        <4>1. PICK p : p = FastPath(q)
          OBVIOUS
        <4>2. s2c' = Append(s2c, p)
          BY <3>3, <4>1
        <4>3. s2c'[Len(s2c) + 1] = p /\ Len(s2c) + 1 \in DOMAIN s2c'
          BY <3>1, <4>2
        <4> QED
          BY <3>1, <4>1, <4>3
      <3> QED
        BY <3>2, <3>3
    <2>2. outbox = <<>> /\ UNCHANGED <<phase, offered, outbox>>
      BY <1>8 DEF SrvUpdate
    <2>3. PICK p : p = FastPath(q)
      OBVIOUS
    <2>4. DOMAIN p.pdus = {}
      BY <2>3 DEF FastPath
    <2>5. InTurn' /\ \A u \in Unread' : u \in Unread
      <3>1. p \in Payload /\ s2c' = Append(s2c, p)
        BY <2>1, <2>3
      <3>2. \A u \in Unread, l \in DOMAIN p.pdus : Precedes(u, p.pdus[l])
        BY <2>4
      <3>3. InTurn' /\ \A u \in Unread' : u \in Unread \/ \E l \in DOMAIN p.pdus : u = p.pdus[l]
        BY <1>1, <2>2, <3>1, <3>2, DeliverTurn
      <3> QED
        BY <2>4, <3>3
    <2>6. Reached[phase] <= Reached[phase']
      BY <1>1, <2>2, Phases
    <2> QED
      BY <1>4, <2>2, <2>5, <2>6
  <1>9. CASE SrvReceive
    <2>1. offered' = offered /\ s2c' = s2c /\ outbox' = outbox
      BY <1>9 DEF SrvReceive, vars, linkVars
    <2>2. phase' = phase \/ (phase = "Demanded" /\ phase' = "Confirmed")
      <3>1. PICK m : m = c2s[taken']
        OBVIOUS
      <3>2. \/ phase' = IF m.type = "ConfirmActive" /\ phase = "Demanded" THEN "Confirmed" ELSE phase
            \/ phase' = phase
        BY <1>9, <3>1, Zenon DEF SrvReceive
      <3> QED
        BY <3>2
    <2>3. Reached[phase] <= Reached[phase']
      <3>1. Reached["Demanded"] <= Reached["Confirmed"]
        BY DEF Reached
      <3> QED
        BY <1>1, <2>2, <3>1, Phases
    <2>4. InTurn'
      <3>1. /\ \A i, k \in DOMAIN s2c' : i < k => AllPrecede(s2c'[i].pdus, s2c'[k].pdus)
            /\ \A i \in DOMAIN s2c' : AllPrecede(s2c'[i].pdus, outbox')
            /\ \A j, k \in DOMAIN outbox' : j < k => Precedes(outbox'[j], outbox'[k])
        BY <1>1, <2>1 DEF InTurn
      <3> QED
        BY <3>1, Zenon DEF InTurn, AllPrecede, Precedes
    <2>5. Unread' = Unread
      BY <2>1, Zenon DEF Unread
    <2> QED
      BY <1>4, <2>1, <2>2, <2>3, <2>4, <2>5
  <1>10. CASE Flush
    <2>1. PICK n \in 1 .. Len(outbox) :
              /\ Deliver(Raw(SubSeq(outbox, 1, n)))
              /\ outbox' = SubSeq(outbox, n + 1, Len(outbox))
      BY <1>10 DEF Flush
    <2>2. s2c' = Append(s2c, Raw(SubSeq(outbox, 1, n)))
      BY <2>1 DEF Deliver
    <2>3. InTurn' /\ Unread' \subseteq Unread
      BY <1>1, <2>1, <2>2, FlushTurn
    <2>4. offered' = offered /\ phase' = phase /\ Reached[phase] <= Reached[phase']
      BY <1>1, <1>10, Phases DEF Flush
    <2> QED
      BY <1>4, <2>3, <2>4
  <1> QED
    BY <1>5, <1>6, <1>7, <1>8, <1>9, <1>10, Zenon DEF ServerStep, Speaks

\* So does what writes nothing of the handshake.
LEMMA FlowWrites ==
    ASSUME Typed, Flow, Writes, UNCHANGED srvVars
    PROVE  Flow'
  <1>1. /\ state' = state /\ share_id' = share_id /\ s2c' = s2c
        /\ phase' = phase /\ offered' = offered /\ outbox' = outbox
    BY DEF Writes, srvVars
  <1>2. Unread' = Unread
    BY <1>1, Zenon DEF Unread
  <1>3. AllKnown' /\ NeverAhead'
    BY <1>1, <1>2 DEF Flow, AllKnown, Known, NeverAhead
  <1>4. InTurn'
    <2>1. /\ \A i, k \in DOMAIN s2c' : i < k => AllPrecede(s2c'[i].pdus, s2c'[k].pdus)
          /\ \A i \in DOMAIN s2c' : AllPrecede(s2c'[i].pdus, outbox')
          /\ \A j, k \in DOMAIN outbox' : j < k => Precedes(outbox'[j], outbox'[k])
      BY <1>1 DEF Flow, InTurn
    <2> QED
      BY <2>1, Zenon DEF InTurn, AllPrecede, Precedes
  <1> QED
    BY <1>1, <1>3, <1>4 DEF Flow

\* So does every step.
LEMMA FlowStep ==
    ASSUME Typed, Typed', Flow, [SessionNext]_sessionVars
    PROVE  Flow'
  <1>1. CASE ClientStep
    <2>1. (Answers \/ Takes \/ Writes) /\ UNCHANGED srvVars
      BY <1>1, ClientActs DEF Typed, IInv, ClientStep
    <2> QED
      BY <2>1, FlowAnswers, FlowTakes, FlowWrites
  <1>2. CASE ServerStep
    BY <1>2, FlowServer
  <1>3. CASE UNCHANGED sessionVars
    <2>1. Writes /\ UNCHANGED srvVars
      BY <1>3 DEF sessionVars, vars, clientVars, linkVars, Writes
    <2> QED
      BY <2>1, FlowWrites
  <1> QED
    BY <1>1, <1>2, <1>3 DEF SessionNext

\* Nothing is on its way at first.
LEMMA FlowInit == SessionInit => Flow
  <1> SUFFICES ASSUME SessionInit
               PROVE  Flow
    OBVIOUS
  <1>1. /\ s2c = <<>> /\ outbox = <<>> /\ state = "DemandActivePDU" /\ share_id = 0 /\ offered = 0
    BY DEF SessionInit, Init, NoShare
  <1>2. DOMAIN s2c = {} /\ DOMAIN outbox = {}
    BY <1>1
  <1>3. Unread = {}
    BY <1>2, Zenon DEF Unread
  <1> QED
    BY <1>1, <1>2, <1>3 DEF Flow, AllKnown, InTurn, NeverAhead

Base == Typed /\ Flow

\* The types, the invariant of the channel and Flow hold.
LEMMA BaseHolds == SessionSpec => []Base
  <1>1. SessionInit => Base
    BY TypedInit, FlowInit DEF Base
  <1>2. Base /\ [SessionNext]_sessionVars => Base'
    BY TypedStep, FlowStep DEF Base
  <1> QED
    BY <1>1, <1>2, PTL DEF SessionSpec

(***************************************************************************)
(* A client is never further in an activation than the server, whatever    *)
(* the manners of the server and however many shares it offers: no state   *)
(* of global.rs looks at the share of the PDU it reads, but those it can   *)
(* still read are of the share it is in, or of later ones.                 *)
(***************************************************************************)
THEOREM ClientNeverAhead == SessionSpec => []NeverAhead
  <1>1. Base => NeverAhead
    BY DEF Base, Flow
  <1> QED
    BY <1>1, BaseHolds, PTL

-----------------------------------------------------------------------------
(***************************************************************************)
(* Log: the PDUs of the client.  Each share is answered once, the shares   *)
(* only grow, every PDU of an answer has all those before it in front of   *)
(* it, and input comes after the font list of its share.                   *)
(***************************************************************************)
FontList(s) == [type |-> "FontList", share |-> s]
RequestControl(s) == [type |-> "RequestControl", share |-> s]

\* The PDU at i is the k-th of an answer, and the k - 1 before it are there.
PartOfAnswer(i, k) ==
    /\ k <= i
    /\ \A n \in 1 .. k : c2s[i - k + n] = Answer(c2s[i].share)[n]

Past == \A i \in DOMAIN c2s : c2s[i].share <= share_id

OneAnswer ==
    \A i, j \in DOMAIN c2s :
        i < j /\ c2s[j].type = "ConfirmActive" => c2s[i].share < c2s[j].share

InAnswers ==
    \A i \in DOMAIN c2s :
        c2s[i].type \notin {"Input", "Ultimatum"} => \E k \in 1 .. 5 : PartOfAnswer(i, k)

Backed ==
    \A i \in DOMAIN c2s :
        c2s[i].type = "Input" =>
            \E j \in DOMAIN c2s : j < i /\ c2s[j] = FontList(c2s[i].share)

Log == Past /\ OneAnswer /\ InAnswers /\ Backed

\* What the invariants make of the PDUs that were there before a step.
LEMMA LogKeeps ==
    ASSUME TypeOK, TypeOK', Answers \/ Takes \/ Writes
    PROVE  /\ DOMAIN c2s = 1 .. Len(c2s) /\ DOMAIN c2s' = 1 .. Len(c2s')
           /\ Len(c2s) \in Nat /\ Len(c2s') \in Nat
           /\ \A i \in DOMAIN c2s : i \in DOMAIN c2s' /\ c2s'[i] = c2s[i]
           /\ \A i \in DOMAIN c2s, j \in DOMAIN c2s' : j < i => j \in DOMAIN c2s
           /\ \A i \in DOMAIN c2s : c2s[i] \in ClientPDU
           /\ \A i \in DOMAIN c2s' : c2s'[i] \in ClientPDU
           /\ \A i \in DOMAIN c2s, k \in 1 .. 5 : PartOfAnswer(i, k) => PartOfAnswer(i, k)'
  <1>1. c2s \in Seq(ClientPDU) /\ c2s' \in Seq(ClientPDU)
    BY DEF TypeOK
  <1>2. /\ Len(c2s) \in Nat /\ Len(c2s') \in Nat /\ Len(c2s) <= Len(c2s')
        /\ \A i \in 1 .. Len(c2s) : c2s'[i] = c2s[i]
        /\ DOMAIN c2s = 1 .. Len(c2s) /\ DOMAIN c2s' = 1 .. Len(c2s')
    BY <1>1, LogGrows
  <1>3. /\ \A i \in DOMAIN c2s : c2s[i] \in ClientPDU
        /\ \A i \in DOMAIN c2s' : c2s'[i] \in ClientPDU
    BY <1>1
  <1>4. ASSUME NEW i \in DOMAIN c2s, NEW k \in 1 .. 5, PartOfAnswer(i, k)
        PROVE  PartOfAnswer(i, k)'
    <2>1. k <= i /\ \A n \in 1 .. k : c2s[i - k + n] = Answer(c2s[i].share)[n]
      BY <1>4 DEF PartOfAnswer
    <2>2. c2s'[i] = c2s[i] /\ \A n \in 1 .. k : i - k + n \in 1 .. Len(c2s)
      BY <1>2, <2>1
    <2>3. \A n \in 1 .. k : c2s'[i - k + n] = Answer(c2s'[i].share)[n]
      BY <1>2, <2>1, <2>2
    <2> QED
      BY <2>1, <2>3 DEF PartOfAnswer
  <1> QED
    BY <1>2, <1>3, <1>4

\* The PDUs of an answer.
LEMMA AnswerElements ==
    ASSUME NEW s \in Nat
    PROVE  /\ \A j \in 1 .. 5 : Answer(s)[j].share = s
           /\ \A j \in 1 .. 5 : Answer(s)[j].type \notin {"Input", "Ultimatum"}
           /\ Answer(s)[1] = ConfirmActive(s)
           /\ Answer(s)[2] = [type |-> "Synchronize", share |-> s]
           /\ Answer(s)[3] = [type |-> "Cooperate", share |-> s]
           /\ Answer(s)[4] = RequestControl(s)
           /\ Answer(s)[5] = FontList(s)
           /\ \A j \in 2 .. 5 : Answer(s)[j].type # "ConfirmActive"
  <1>1. /\ \A j \in 1 .. 5 : j = 1 \/ j = 2 \/ j = 3 \/ j = 4 \/ j = 5
        /\ \A j \in 2 .. 5 : j = 2 \/ j = 3 \/ j = 4 \/ j = 5
    BY SMT
  <1> QED
    BY <1>1, SMT DEF Answer, ConfirmActive, FontList, RequestControl

\* An answer keeps Log.
LEMMA LogAnswers ==
    ASSUME Base, Typed', Log, Answers
    PROVE  Log'
  <1>1. TypeOK /\ TypeOK' /\ AllKnown /\ Typed
    BY DEF Base, Typed, IInv, Flow
  <1>2. share_id \in Nat /\ share_id' \in Nat /\ share_id < share_id'
    BY <1>1, Demanded DEF TypeOK
  <1> DEFINE s == share_id'
  <1>3. PICK k \in 0 .. 5 : c2s' = c2s \o SubSeq(Answer(s), 1, k)
    BY DEF Answers
  <1>4. /\ DOMAIN c2s = 1 .. Len(c2s) /\ DOMAIN c2s' = 1 .. Len(c2s') /\ Len(c2s) \in Nat
        /\ \A i \in DOMAIN c2s : i \in DOMAIN c2s' /\ c2s'[i] = c2s[i]
        /\ \A i \in DOMAIN c2s, j \in DOMAIN c2s' : j < i => j \in DOMAIN c2s
        /\ \A i \in DOMAIN c2s : c2s[i] \in ClientPDU
        /\ \A i \in DOMAIN c2s, n \in 1 .. 5 : PartOfAnswer(i, n) => PartOfAnswer(i, n)'
    BY <1>1, LogKeeps
  <1>5. Len(c2s') = Len(c2s) + k /\ \A j \in 1 .. k : c2s'[Len(c2s) + j] = Answer(s)[j]
    <2>1. Answer(s) \in Seq(ClientPDU) /\ Len(Answer(s)) = 5 /\ c2s \in Seq(ClientPDU)
      BY <1>1, <1>2, AnswerType DEF TypeOK
    <2>2. k \in 0 .. Len(Answer(s))
      BY <2>1
    <2> QED
      BY <1>3, <2>1, <2>2, Prefix
  <1> HIDE DEF s
  <1>6. s \in Nat /\ s = share_id' /\ share_id < s
    BY <1>2 DEF s
  <1>a. \A j \in 1 .. k :
            /\ j \in 1 .. 5
            /\ Answer(s)[j].share = s
            /\ Answer(s)[j].type \notin {"Input", "Ultimatum"}
            /\ j # 1 => Answer(s)[j].type # "ConfirmActive"
    <2>1. /\ \A j \in 1 .. 5 : Answer(s)[j].share = s
          /\ \A j \in 1 .. 5 : Answer(s)[j].type \notin {"Input", "Ultimatum"}
          /\ \A j \in 2 .. 5 : Answer(s)[j].type # "ConfirmActive"
      BY <1>6, AnswerElements
    <2>2. \A j \in 1 .. k : j \in 1 .. 5 /\ (j # 1 => j \in 2 .. 5)
      OBVIOUS
    <2> QED
      BY <2>1, <2>2
  <1>7. \A i \in DOMAIN c2s' : i \notin DOMAIN c2s =>
            \E j \in 1 .. k : i = Len(c2s) + j /\ c2s'[i] = Answer(s)[j]
    <2> SUFFICES ASSUME NEW i \in DOMAIN c2s', i \notin DOMAIN c2s
                 PROVE  \E j \in 1 .. k : i = Len(c2s) + j /\ c2s'[i] = Answer(s)[j]
      OBVIOUS
    <2>1. i - Len(c2s) \in 1 .. k /\ i = Len(c2s) + (i - Len(c2s))
      BY <1>4, <1>5
    <2> QED
      BY <1>5, <2>1
  <1>8. \A i \in DOMAIN c2s : c2s[i].share \in Nat /\ c2s[i].share < s
    BY <1>2, <1>4, <1>6 DEF Log, Past, ClientPDU
  <1>9. Past'
    <2> SUFFICES ASSUME NEW i \in DOMAIN c2s'
                 PROVE  c2s'[i].share <= s
      BY <1>6 DEF Past
    <2>1. CASE i \in DOMAIN c2s
      BY <1>4, <1>6, <1>8, <2>1
    <2>2. CASE i \notin DOMAIN c2s
      <3>1. PICK j \in 1 .. k : c2s'[i] = Answer(s)[j]
        BY <1>7, <2>2
      <3>2. c2s'[i].share = s
        BY <1>a, <3>1
      <3> QED
        BY <1>6, <3>2
    <2> QED
      BY <2>1, <2>2
  <1>10. OneAnswer'
    <2> SUFFICES ASSUME NEW i \in DOMAIN c2s', NEW j \in DOMAIN c2s', i < j,
                        c2s'[j].type = "ConfirmActive"
                 PROVE  c2s'[i].share < c2s'[j].share
      BY DEF OneAnswer
    <2>1. CASE j \in DOMAIN c2s
      <3>1. i \in DOMAIN c2s
        BY <1>4, <2>1
      <3> QED
        BY <1>4, <2>1, <3>1 DEF Log, OneAnswer
    <2>2. CASE j \notin DOMAIN c2s
      <3>1. PICK l \in 1 .. k : j = Len(c2s) + l /\ c2s'[j] = Answer(s)[l]
        BY <1>7, <2>2
      <3>3. l = 1
        BY <1>a, <3>1
      <3>4. i \in DOMAIN c2s
        BY <1>4, <3>1, <3>3
      <3>5. c2s'[j].share = s
        BY <1>a, <3>1
      <3> QED
        BY <1>4, <1>8, <3>4, <3>5
    <2> QED
      BY <2>1, <2>2
  <1>11. InAnswers'
    <2> SUFFICES ASSUME NEW i \in DOMAIN c2s', c2s'[i].type \notin {"Input", "Ultimatum"}
                 PROVE  \E n \in 1 .. 5 : PartOfAnswer(i, n)'
      BY DEF InAnswers
    <2>1. CASE i \in DOMAIN c2s
      BY <1>4, <2>1 DEF Log, InAnswers
    <2>2. CASE i \notin DOMAIN c2s
      <3>1. PICK j \in 1 .. k : i = Len(c2s) + j /\ c2s'[i] = Answer(s)[j]
        BY <1>7, <2>2
      <3>2. j \in 1 .. 5 /\ j <= i
        BY <1>4, <3>1
      <3>3. c2s'[i].share = s
        BY <1>a, <3>1
      <3>4. \A n \in 1 .. j : c2s'[i - j + n] = Answer(s)[n]
        <4>1. \A n \in 1 .. j : n \in 1 .. k /\ i - j + n = Len(c2s) + n
          BY <1>4, <3>1
        <4> QED
          BY <1>5, <4>1
      <3>5. PartOfAnswer(i, j)'
        BY <3>2, <3>3, <3>4 DEF PartOfAnswer
      <3> QED
        BY <3>2, <3>5
    <2> QED
      BY <2>1, <2>2
  <1>12. Backed'
    <2> SUFFICES ASSUME NEW i \in DOMAIN c2s', c2s'[i].type = "Input"
                 PROVE  \E j \in DOMAIN c2s' : j < i /\ c2s'[j] = FontList(c2s'[i].share)
      BY DEF Backed, FontList
    <2>1. i \in DOMAIN c2s
      BY <1>7, <1>a
    <2> QED
      BY <1>4, <2>1 DEF Log, Backed
  <1> QED
    BY <1>9, <1>10, <1>11, <1>12 DEF Log

\* Input and ultimatums: of the share of the client, and no part of an answer.
LEMMA LogAppends ==
    ASSUME Base, Typed', Log, Writes, share_id' = share_id,
           NEW m \in ClientPDU, c2s' = Append(c2s, m),
           m.share <= share_id, m.type \in {"Input", "Ultimatum"},
           m.type = "Input" => \E j \in DOMAIN c2s : c2s[j] = FontList(m.share)
    PROVE  Log'
  <1>1. TypeOK /\ TypeOK' /\ c2s \in Seq(ClientPDU)
    BY DEF Base, Typed, IInv, TypeOK
  <1>2. /\ DOMAIN c2s = 1 .. Len(c2s) /\ DOMAIN c2s' = 1 .. Len(c2s) + 1 /\ Len(c2s) \in Nat
        /\ c2s'[Len(c2s) + 1] = m
    BY <1>1
  <1>3. /\ \A i \in DOMAIN c2s : i \in DOMAIN c2s' /\ c2s'[i] = c2s[i]
        /\ \A i \in DOMAIN c2s, j \in DOMAIN c2s' : j < i => j \in DOMAIN c2s
        /\ \A i \in DOMAIN c2s, n \in 1 .. 5 : PartOfAnswer(i, n) => PartOfAnswer(i, n)'
    BY <1>1, LogKeeps
  <1>4. \A i \in DOMAIN c2s' : i \in DOMAIN c2s \/ (i = Len(c2s) + 1 /\ c2s'[i] = m)
    BY <1>2
  <1>5. Past'
    BY <1>3, <1>4 DEF Log, Past
  <1>6. OneAnswer'
    <2> SUFFICES ASSUME NEW i \in DOMAIN c2s', NEW j \in DOMAIN c2s', i < j,
                        c2s'[j].type = "ConfirmActive"
                 PROVE  c2s'[i].share < c2s'[j].share
      BY DEF OneAnswer
    <2>1. j \in DOMAIN c2s
      BY <1>4
    <2>2. i \in DOMAIN c2s
      BY <1>3, <2>1
    <2> QED
      BY <1>3, <2>1, <2>2 DEF Log, OneAnswer
  <1>7. InAnswers'
    <2> SUFFICES ASSUME NEW i \in DOMAIN c2s', c2s'[i].type \notin {"Input", "Ultimatum"}
                 PROVE  \E n \in 1 .. 5 : PartOfAnswer(i, n)'
      BY DEF InAnswers
    <2>1. i \in DOMAIN c2s
      BY <1>4
    <2> QED
      BY <1>3, <2>1 DEF Log, InAnswers
  <1>8. Backed'
    <2> SUFFICES ASSUME NEW i \in DOMAIN c2s', c2s'[i].type = "Input"
                 PROVE  \E j \in DOMAIN c2s' : j < i /\ c2s'[j] = FontList(c2s'[i].share)
      BY DEF Backed, FontList
    <2>1. CASE i \in DOMAIN c2s
      BY <1>3, <2>1 DEF Log, Backed
    <2>2. CASE i = Len(c2s) + 1 /\ c2s'[i] = m
      <3>1. PICK j \in DOMAIN c2s : c2s[j] = FontList(m.share)
        BY <2>2
      <3>2. j < i
        BY <1>2, <2>2
      <3> QED
        BY <1>3, <2>2, <3>1, <3>2
    <2> QED
      BY <1>4, <2>1, <2>2
  <1> QED
    BY <1>5, <1>6, <1>7, <1>8 DEF Log

\* A client past DemandActivePDU has written the font list of its share.
LEMMA FontListWritten ==
    ASSUME Typed, state # "DemandActivePDU"
    PROVE  \E j \in DOMAIN c2s : c2s[j] = FontList(share_id)
  <1>1. Complete /\ TypeOK /\ share_id \in Nat /\ c2s \in Seq(ClientPDU)
    BY DEF Typed, IInv, TypeOK
  <1>2. PICK i \in Nat \ {0} : CompleteAt(i)
    BY <1>1 DEF Complete
  <1>3. i + 4 <= Len(c2s) /\ c2s[i + 5 - 1] = Answer(share_id)[5]
    BY <1>2 DEF CompleteAt
  <1>4. i + 4 \in DOMAIN c2s /\ i + 5 - 1 = i + 4
    BY <1>1, <1>3
  <1>5. Answer(share_id)[5] = FontList(share_id)
    BY <1>1, AnswerElements
  <1> QED
    BY <1>3, <1>4, <1>5

\* So does a step that writes nothing.
LEMMA LogSame ==
    ASSUME Base, Typed', Log, c2s' = c2s, share_id' = share_id
    PROVE  Log'
  <1>1. /\ Past' /\ OneAnswer' /\ Backed'
    BY DEF Log, Past, OneAnswer, Backed
  <1>2. InAnswers'
    BY DEF Log, InAnswers, PartOfAnswer
  <1> QED
    BY <1>1, <1>2 DEF Log

\* So does a step that writes.
LEMMA LogWrites ==
    ASSUME Base, Typed', Log, Writes
    PROVE  Log'
  <1>1. /\ TypeOK /\ share_id' = share_id /\ share_id \in Nat /\ c2s \in Seq(ClientPDU)
    BY DEF Base, Typed, IInv, TypeOK, Writes
  <1>2. CASE c2s' = c2s
    BY <1>1, <1>2, LogSame
  <1>3. CASE state = "Data" /\ c2s' = c2s \o Input
    <2>1. PICK m : m = [type |-> "Input", share |-> share_id]
      OBVIOUS
    <2>2. m \in ClientPDU /\ m.share = share_id /\ m.type = "Input"
      BY <1>1, <2>1 DEF ClientPDU, ClientTypes
    <2>3. c2s' = Append(c2s, m)
      <3>1. c2s' = c2s \o <<m>>
        BY <1>3, <2>1 DEF Input
      <3> QED
        BY <1>1, <2>2, <3>1
    <2>4. \E j \in DOMAIN c2s : c2s[j] = FontList(share_id)
      BY <1>3, FontListWritten DEF Base
    <2>5. m.share <= share_id
      BY <1>1, <2>2
    <2> QED
      BY <1>1, <2>2, <2>3, <2>4, <2>5, LogAppends
  <1>4. CASE c2s' = c2s \o Ultimatum
    <2>1. PICK m : m = [type |-> "Ultimatum", share |-> NoShare]
      OBVIOUS
    <2>2. m \in ClientPDU /\ m.share = 0 /\ m.type = "Ultimatum"
      BY <2>1 DEF ClientPDU, ClientTypes, NoShare
    <2>3. c2s' = Append(c2s, m)
      <3>1. c2s' = c2s \o <<m>>
        BY <1>4, <2>1 DEF Ultimatum
      <3> QED
        BY <1>1, <2>2, <3>1
    <2>4. m.share <= share_id /\ m.type # "Input"
      BY <1>1, <2>2
    <2> QED
      BY <1>1, <2>2, <2>3, <2>4, LogAppends
  <1> QED
    BY <1>2, <1>3, <1>4 DEF Writes

\* Log holds.
LEMMA LogHolds == SessionSpec => [](Base /\ Log)
  <1>1. SessionInit => Log
    <2>1. SessionInit => DOMAIN c2s = {}
      BY DEF SessionInit, Init
    <2> QED
      BY <2>1, Zenon DEF Log, Past, OneAnswer, InAnswers, Backed
  <1>2. Base /\ Base' /\ Log /\ [SessionNext]_sessionVars => Log'
    <2> SUFFICES ASSUME Base, Base', Log, [SessionNext]_sessionVars
                 PROVE  Log'
      OBVIOUS
    <2>1. Typed /\ Typed' /\ TypeOK /\ SessionTypeOK
      BY DEF Base, Typed, IInv
    <2>2. CASE ClientStep
      <3>1. Takes => c2s' = c2s /\ share_id' = share_id
        BY DEF Takes
      <3> QED
        BY <2>1, <2>2, <3>1, ClientActs, LogAnswers, LogSame, LogWrites
    <2>3. CASE ServerStep
      <3>1. c2s' = c2s /\ share_id' = share_id
        BY <2>1, <2>3, ServerType
      <3> QED
        BY <2>1, <3>1, LogSame
    <2>4. CASE UNCHANGED sessionVars
      <3>1. c2s' = c2s /\ share_id' = share_id
        BY <2>4 DEF sessionVars, vars, clientVars, linkVars
      <3> QED
        BY <2>1, <3>1, LogSame
    <2> QED
      BY <2>2, <2>3, <2>4 DEF SessionNext
  <1> QED
    BY <1>1, <1>2, BaseHolds, PTL DEF SessionSpec

-----------------------------------------------------------------------------
(***************************************************************************)
(* Where a PDU of an answer is tells which one it is, and the answer of a  *)
(* share is in one place.                                                  *)
(***************************************************************************)
LEMMA Parts ==
    ASSUME Typed, NEW i \in DOMAIN c2s, NEW k \in 1 .. 5, PartOfAnswer(i, k)
    PROVE  /\ c2s[i] = Answer(c2s[i].share)[k]
           /\ c2s[i].share \in Nat
           /\ i - k + 1 \in DOMAIN c2s /\ i - k + 1 <= i
           /\ c2s[i - k + 1] = ConfirmActive(c2s[i].share)
  <1>1. c2s \in Seq(ClientPDU)
    BY DEF Typed, IInv, TypeOK
  <1>2. i \in 1 .. Len(c2s) /\ DOMAIN c2s = 1 .. Len(c2s) /\ Len(c2s) \in Nat
        /\ c2s[i] \in ClientPDU
    BY <1>1
  <1>3. c2s[i].share \in Nat
    BY <1>2 DEF ClientPDU
  <1>4. k <= i /\ \A n \in 1 .. k : c2s[i - k + n] = Answer(c2s[i].share)[n]
    BY DEF PartOfAnswer
  <1>5. 1 \in 1 .. k /\ k \in 1 .. k /\ i - k + k = i
    BY <1>2
  <1>6. c2s[i] = Answer(c2s[i].share)[k] /\ c2s[i - k + 1] = Answer(c2s[i].share)[1]
    <2>1. c2s[i - k + k] = Answer(c2s[i].share)[k] /\ c2s[i - k + 1] = Answer(c2s[i].share)[1]
      BY <1>4, <1>5
    <2> QED
      BY <1>5, <2>1
  <1>7. Answer(c2s[i].share)[1] = ConfirmActive(c2s[i].share)
    BY <1>3, AnswerElements
  <1>8. i - k + 1 \in DOMAIN c2s /\ i - k + 1 <= i
    BY <1>2, <1>4
  <1> QED
    BY <1>3, <1>6, <1>7, <1>8

\* The place of a PDU in the answer.
Place == [ConfirmActive |-> 1, Synchronize |-> 2, Cooperate |-> 3,
          RequestControl |-> 4, FontList |-> 5]

\* A PDU of the log is in its place of an answer.
LEMMA Placed ==
    ASSUME Typed, Log, NEW i \in DOMAIN c2s, c2s[i].type \notin {"Input", "Ultimatum"}
    PROVE  /\ c2s[i].type \in DOMAIN Place
           /\ Place[c2s[i].type] \in 1 .. 5
           /\ PartOfAnswer(i, Place[c2s[i].type])
  <1>1. PICK k \in 1 .. 5 : PartOfAnswer(i, k)
    BY DEF Log, InAnswers
  <1>2. PICK s \in Nat : s = c2s[i].share
    BY <1>1, Parts
  <1>3. c2s[i] = Answer(s)[k]
    BY <1>1, <1>2, Parts
  <1>4. /\ Answer(s)[1] = ConfirmActive(s)
        /\ Answer(s)[2] = [type |-> "Synchronize", share |-> s]
        /\ Answer(s)[3] = [type |-> "Cooperate", share |-> s]
        /\ Answer(s)[4] = RequestControl(s)
        /\ Answer(s)[5] = FontList(s)
    BY <1>2, AnswerElements
  <1>5. k = 1 \/ k = 2 \/ k = 3 \/ k = 4 \/ k = 5
    OBVIOUS
  <1>6. \/ k = 1 /\ c2s[i].type = "ConfirmActive"
        \/ k = 2 /\ c2s[i].type = "Synchronize"
        \/ k = 3 /\ c2s[i].type = "Cooperate"
        \/ k = 4 /\ c2s[i].type = "RequestControl"
        \/ k = 5 /\ c2s[i].type = "FontList"
    BY <1>3, <1>4, <1>5 DEF ConfirmActive, RequestControl, FontList
  <1>7. c2s[i].type \in DOMAIN Place /\ k = Place[c2s[i].type]
    BY <1>6 DEF Place
  <1> QED
    BY <1>1, <1>7

\* Two PDUs of a share are of the same answer.
LEMMA OnePlace ==
    ASSUME Typed, Log,
           NEW i \in DOMAIN c2s, NEW k \in 1 .. 5, PartOfAnswer(i, k),
           NEW j \in DOMAIN c2s, NEW l \in 1 .. 5, PartOfAnswer(j, l),
           c2s[i].share = c2s[j].share
    PROVE  i - k = j - l
  <1>1. PICK s \in Nat : s = c2s[i].share
    BY Parts
  <1>2. PICK a \in DOMAIN c2s : a = i - k + 1 /\ c2s[a] = ConfirmActive(s)
    BY <1>1, Parts
  <1>3. PICK b \in DOMAIN c2s : b = j - l + 1 /\ c2s[b] = ConfirmActive(s)
    <2>1. j - l + 1 \in DOMAIN c2s /\ c2s[j - l + 1] = ConfirmActive(c2s[j].share)
      BY Parts
    <2>2. c2s[j].share = s
      BY <1>1
    <2> QED
      BY <2>1, <2>2
  <1>4. ConfirmActive(s).type = "ConfirmActive" /\ ConfirmActive(s).share = s
    BY DEF ConfirmActive
  <1>5. c2s[a].type = "ConfirmActive" /\ c2s[a].share = s
        /\ c2s[b].type = "ConfirmActive" /\ c2s[b].share = s
    BY <1>2, <1>3, <1>4
  <1>6. ~(a < b) /\ ~(b < a)
    <2>1. a < b => s < s
      BY <1>5, Zenon DEF Log, OneAnswer
    <2>2. b < a => s < s
      BY <1>5, Zenon DEF Log, OneAnswer
    <2> QED
      BY <1>1, <2>1, <2>2
  <1>7. c2s \in Seq(ClientPDU)
    BY DEF Typed, IInv, TypeOK
  <1>8. i \in Nat /\ j \in Nat /\ a \in Nat /\ b \in Nat
    BY <1>7
  <1> QED
    BY <1>2, <1>3, <1>6, <1>8

-----------------------------------------------------------------------------
(***************************************************************************)
(* Heard: what the server makes of the PDUs it has read.                   *)
(***************************************************************************)
HeardOf(m) == \E i \in 1 .. taken : c2s[i] = m

Waiting ==
    phase = "Demanded" =>
        \A i \in 1 .. taken : c2s[i].share < offered \/ c2s[i].type = "Ultimatum"
Taken ==
    /\ phase \notin {"Demanded", "Idle"} => HeardOf(ConfirmActive(offered))
    /\ requested => HeardOf(RequestControl(offered))
    /\ HeardOf(RequestControl(offered)) => requested
    /\ fonts => HeardOf(FontList(offered))
    /\ HeardOf(FontList(offered)) => fonts
InputLast ==
    \A i \in DOMAIN c2s :
        c2s[i].type = "Input" /\ c2s[i].share = offered => phase \in {"Active", "Idle"}

Heard ==
    /\ phase # "Idle" => offered > 0
    /\ Waiting
    /\ Taken
    /\ InputLast

\* A client step adds to the log what the server has not read.
LEMMA HeardClient ==
    ASSUME Base, Base', Log, Heard, Answers \/ Takes \/ Writes, UNCHANGED srvVars
    PROVE  Heard'
  <1>1. /\ TypeOK /\ TypeOK' /\ SessionTypeOK /\ Typed /\ share_id \in Nat /\ offered \in Nat
        /\ phase \in Phase
    BY SessionAssumption DEF Base, Typed, IInv, TypeOK, SessionTypeOK
  <1>2. /\ phase' = phase /\ offered' = offered /\ requested' = requested /\ fonts' = fonts
        /\ taken' = taken
    BY DEF srvVars
  <1>3. /\ DOMAIN c2s = 1 .. Len(c2s) /\ DOMAIN c2s' = 1 .. Len(c2s') /\ Len(c2s) \in Nat
        /\ \A i \in DOMAIN c2s : i \in DOMAIN c2s' /\ c2s'[i] = c2s[i]
    BY <1>1, LogKeeps
  <1>4. \A i \in 1 .. taken : c2s'[i] = c2s[i]
    <2>1. taken \in 0 .. Len(c2s)
      BY <1>1 DEF SessionTypeOK
    <2> QED
      BY <1>3, <2>1
  <1>5. Waiting' /\ Taken'
    BY <1>2, <1>4 DEF Heard, Waiting, Taken, HeardOf, ConfirmActive, RequestControl, FontList
  <1>6. ASSUME NEW i \in DOMAIN c2s', i \notin DOMAIN c2s, c2s'[i].type = "Input"
        PROVE  state = "Data" /\ c2s'[i].share = share_id
    <2>1. c2s' # c2s
      BY <1>6
    <2>2. CASE Answers
      <3>1. PICK k \in 0 .. 5 : c2s' = c2s \o SubSeq(Answer(share_id'), 1, k)
        BY <2>2 DEF Answers
      <3>2. /\ Answer(share_id') \in Seq(ClientPDU) /\ Len(Answer(share_id')) = 5
            /\ c2s \in Seq(ClientPDU) /\ share_id' \in Nat
        BY <1>1, AnswerType DEF TypeOK
      <3>3. k \in 0 .. Len(Answer(share_id'))
        BY <3>2
      <3>4. Len(c2s') = Len(c2s) + k /\ \A j \in 1 .. k : c2s'[Len(c2s) + j] = Answer(share_id')[j]
        BY <3>1, <3>2, <3>3, Prefix
      <3>5. i - Len(c2s) \in 1 .. k /\ i = Len(c2s) + (i - Len(c2s)) /\ i - Len(c2s) \in 1 .. 5
        BY <1>3, <1>6, <3>4
      <3>6. \A j \in 1 .. 5 : Answer(share_id')[j].type \notin {"Input", "Ultimatum"}
        BY <3>2, AnswerElements
      <3>7. c2s'[i] = Answer(share_id')[i - Len(c2s)]
        BY <3>4, <3>5
      <3> QED
        BY <1>6, <3>5, <3>6, <3>7
    <2>3. CASE Writes /\ state = "Data" /\ c2s' = c2s \o Input
      <3>1. PICK m : m = [type |-> "Input", share |-> share_id]
        OBVIOUS
      <3>2. c2s' = c2s \o <<m>> /\ m \in ClientPDU /\ c2s \in Seq(ClientPDU)
        BY <1>1, <2>3, <3>1 DEF Input, TypeOK, ClientPDU, ClientTypes
      <3>3. i = Len(c2s) + 1 /\ c2s'[i] = m
        BY <1>3, <1>6, <3>2
      <3> QED
        BY <2>3, <3>1, <3>3
    <2>4. CASE Writes /\ c2s' = c2s \o Ultimatum
      <3>1. PICK m : m = [type |-> "Ultimatum", share |-> NoShare]
        OBVIOUS
      <3>2. c2s' = c2s \o <<m>> /\ m \in ClientPDU /\ c2s \in Seq(ClientPDU)
        BY <1>1, <2>4, <3>1 DEF Ultimatum, TypeOK, ClientPDU, ClientTypes, NoShare
      <3>3. i = Len(c2s) + 1 /\ c2s'[i] = m
        BY <1>3, <1>6, <3>2
      <3> QED
        BY <1>6, <3>1, <3>3
    <2>5. ~Takes
      BY <2>1 DEF Takes
    <2> QED
      BY <2>1, <2>2, <2>3, <2>4, <2>5 DEF Writes
  <1>7. InputLast'
    <2> SUFFICES ASSUME NEW i \in DOMAIN c2s', c2s'[i].type = "Input", c2s'[i].share = offered
                 PROVE  phase \in {"Active", "Idle"}
      BY <1>2 DEF InputLast
    <2>1. CASE i \in DOMAIN c2s
      BY <1>3, <2>1 DEF Heard, InputLast
    <2>2. CASE i \notin DOMAIN c2s
      <3>1. state = "Data" /\ share_id = offered
        BY <1>6, <2>2
      <3>2. Rank["Data"] <= Reached[phase]
        BY <1>1, <3>1 DEF Base, Flow, NeverAhead
      <3> QED
        BY <1>1, <3>2 DEF Rank, Reached, Phase
    <2> QED
      BY <2>1, <2>2
  <1> QED
    BY <1>2, <1>5, <1>7 DEF Heard

\* What the client has written is of no share beyond the last one offered.
LEMMA LogShares ==
    ASSUME Base, Log
    PROVE  /\ c2s \in Seq(ClientPDU) /\ DOMAIN c2s = 1 .. Len(c2s) /\ Len(c2s) \in Nat
           /\ offered \in Nat /\ taken \in 0 .. Len(c2s)
           /\ \A i \in DOMAIN c2s : /\ c2s[i] \in ClientPDU
                                    /\ c2s[i].share \in Nat
                                    /\ c2s[i].share <= offered
  <1>1. /\ c2s \in Seq(ClientPDU) /\ DOMAIN c2s = 1 .. Len(c2s) /\ Len(c2s) \in Nat
        /\ offered \in Nat /\ taken \in 0 .. Len(c2s) /\ share_id \in Nat /\ share_id <= offered
    BY SessionAssumption DEF Base, Flow, Typed, IInv, TypeOK, SessionTypeOK
  <1>2. ASSUME NEW i \in DOMAIN c2s
        PROVE  c2s[i] \in ClientPDU /\ c2s[i].share \in Nat
    <2>1. c2s[i] \in ClientPDU
      BY <1>1, <1>2
    <2> QED
      BY <2>1 DEF ClientPDU
  <1>3. \A i \in DOMAIN c2s : c2s[i].share <= offered
    BY <1>1, <1>2 DEF Log, Past
  <1> QED
    BY <1>1, <1>2, <1>3

\* Before a PDU that is not the first of its share the server has heard the
\* Confirm Active PDU of the share.
LEMMA AfterConfirm ==
    ASSUME Base, Log, NEW i \in DOMAIN c2s,
           c2s[i].type \notin {"ConfirmActive", "Ultimatum"}
    PROVE  \E j \in DOMAIN c2s : j < i /\ c2s[j] = ConfirmActive(c2s[i].share)
  <1>1. Typed
    BY DEF Base
  <1>2. DOMAIN c2s = 1 .. Len(c2s) /\ Len(c2s) \in Nat
    BY LogShares
  <1>3. ASSUME NEW k \in DOMAIN c2s, c2s[k].type \notin {"ConfirmActive", "Input", "Ultimatum"}
        PROVE  \E j \in DOMAIN c2s : j < k /\ c2s[j] = ConfirmActive(c2s[k].share)
    <2>1. /\ c2s[k].type \in DOMAIN Place
          /\ Place[c2s[k].type] \in 1 .. 5
          /\ PartOfAnswer(k, Place[c2s[k].type])
      BY <1>1, <1>3, Placed
    <2>2. PICK n \in 2 .. 5 : n = Place[c2s[k].type]
      BY <1>3, <2>1 DEF Place
    <2>3. n \in 1 .. 5 /\ PartOfAnswer(k, n)
      BY <2>1, <2>2
    <2>4. k - n + 1 \in DOMAIN c2s /\ c2s[k - n + 1] = ConfirmActive(c2s[k].share)
      BY <1>1, <2>3, Parts
    <2>5. k - n + 1 < k
      BY <1>2, <2>2
    <2> QED
      BY <2>4, <2>5
  <1>4. CASE c2s[i].type # "Input"
    BY <1>3, <1>4
  <1>5. CASE c2s[i].type = "Input"
    <2>1. PICK k \in DOMAIN c2s : k < i /\ c2s[k] = FontList(c2s[i].share)
      BY <1>5 DEF Log, Backed
    <2>2. c2s[k].type = "FontList" /\ c2s[k].share = c2s[i].share
      BY <2>1 DEF FontList
    <2>3. PICK j \in DOMAIN c2s : j < k /\ c2s[j] = ConfirmActive(c2s[k].share)
      BY <1>3, <2>2
    <2>4. j < i
      BY <1>2, <2>1, <2>3
    <2> QED
      BY <2>2, <2>3, <2>4
  <1> QED
    BY <1>4, <1>5

\* The server's receipt of a PDU keeps Heard.
LEMMA HeardReceive ==
    ASSUME Base, Base', Log, Heard, SrvReceive
    PROVE  Heard'
  <1>1. /\ c2s \in Seq(ClientPDU) /\ DOMAIN c2s = 1 .. Len(c2s) /\ Len(c2s) \in Nat
        /\ offered \in Nat /\ taken \in 0 .. Len(c2s)
        /\ \A i \in DOMAIN c2s : /\ c2s[i] \in ClientPDU
                                 /\ c2s[i].share \in Nat
                                 /\ c2s[i].share <= offered
    BY LogShares
  <1>2. phase \in Phase /\ requested \in BOOLEAN /\ fonts \in BOOLEAN
    BY DEF Base, Typed, SessionTypeOK
  <1>3. /\ taken < Len(c2s) /\ taken' = taken + 1 /\ offered' = offered /\ c2s' = c2s
    BY DEF SrvReceive, vars, linkVars
  <1>4. PICK m : m = c2s[taken']
    OBVIOUS
  <1>5. /\ taken + 1 \in DOMAIN c2s /\ m = c2s[taken + 1]
        /\ m \in ClientPDU /\ m.share \in Nat /\ m.share <= offered
    <2>1. taken + 1 \in DOMAIN c2s
      BY <1>1, <1>3
    <2> QED
      BY <1>1, <1>3, <1>4, <2>1
  <1>6. \A i \in 1 .. taken' : i \in 1 .. taken \/ i = taken + 1
    BY <1>1, <1>3
  <1>7. \A x : HeardOf(x)' <=> HeardOf(x) \/ x = m
    <2>1. \A i \in 1 .. taken : i \in 1 .. taken'
      BY <1>1, <1>3
    <2>2. taken + 1 \in 1 .. taken'
      BY <1>1, <1>3
    <2> QED
      BY <1>3, <1>5, <1>6, <2>1, <2>2 DEF HeardOf
  <1>8. ASSUME m.share # offered
        PROVE  Heard'
    <2>1. phase' = phase /\ requested' = requested /\ fonts' = fonts
      BY <1>4, <1>8 DEF SrvReceive
    <2>2. \A s : ConfirmActive(s).share = s /\ RequestControl(s).share = s /\ FontList(s).share = s
      BY DEF ConfirmActive, RequestControl, FontList
    <2>3. Waiting'
      <3>1. m.share < offered
        BY <1>1, <1>5, <1>8
      <3> QED
        BY <1>3, <1>5, <1>6, <2>1, <3>1 DEF Heard, Waiting
    <2>4. /\ HeardOf(ConfirmActive(offered))' <=> HeardOf(ConfirmActive(offered))
          /\ HeardOf(RequestControl(offered))' <=> HeardOf(RequestControl(offered))
          /\ HeardOf(FontList(offered))' <=> HeardOf(FontList(offered))
      <3>1. /\ ConfirmActive(offered) # m
            /\ RequestControl(offered) # m
            /\ FontList(offered) # m
        BY <1>8, <2>2
      <3> QED
        BY <1>3, <1>6, <1>7, <3>1 DEF HeardOf, ConfirmActive, RequestControl, FontList
    <2>5. Taken'
      BY <1>3, <2>1, <2>4 DEF Heard, Taken
    <2>6. InputLast' /\ (phase' # "Idle" => offered' > 0)
      BY <1>3, <2>1 DEF Heard, InputLast
    <2> QED
      BY <2>3, <2>5, <2>6 DEF Heard
  <1>9. ASSUME m.share = offered
        PROVE  Heard'
    <2>1. /\ phase' = IF m.type = "ConfirmActive" /\ phase = "Demanded"
                     THEN "Confirmed" ELSE phase
          /\ requested' = (requested \/ m.type = "RequestControl")
          /\ fonts' = (fonts \/ m.type = "FontList")
      BY <1>4, <1>9, Zenon DEF SrvReceive
    <2>2. CASE m.type = "ConfirmActive" /\ phase = "Demanded"
      <3>1. phase' = "Confirmed" /\ offered' > 0
        BY <1>3, <2>1, <2>2 DEF Heard
      <3>2. m = ConfirmActive(offered)
        BY <1>5, <1>9, <2>2 DEF ClientPDU, ConfirmActive
      <3>3. HeardOf(ConfirmActive(offered))'
        BY <1>3, <1>7, <3>2 DEF HeardOf, ConfirmActive
      <3>4. ASSUME NEW x, x \in {RequestControl(offered), FontList(offered)}
            PROVE  HeardOf(x)' <=> HeardOf(x)
        BY <1>7, <3>2, <3>4 DEF RequestControl, FontList, ConfirmActive
      <3>5. /\ HeardOf(RequestControl(offered))' <=> HeardOf(RequestControl(offered))
            /\ HeardOf(FontList(offered))' <=> HeardOf(FontList(offered))
        BY <1>3, <3>4 DEF RequestControl, FontList
      <3>6. requested' = requested /\ fonts' = fonts
        BY <1>2, <2>1, <2>2
      <3>7. Taken'
        BY <1>3, <3>3, <3>5, <3>6 DEF Heard, Taken, HeardOf, RequestControl, FontList, ConfirmActive
      <3>8. InputLast'
        BY <1>3, <2>2, <3>1 DEF Heard, InputLast
      <3> QED
        BY <3>1, <3>7, <3>8 DEF Heard, Waiting
    <2>3. CASE ~(m.type = "ConfirmActive" /\ phase = "Demanded")
      <3>1. phase' = phase
        BY <2>1, <2>3
      <3>2. Waiting'
        <4> SUFFICES ASSUME phase = "Demanded"
                     PROVE  \A i \in 1 .. taken' : c2s[i].share < offered \/ c2s[i].type = "Ultimatum"
          BY <1>3, <3>1 DEF Waiting
        <4>1. m.type = "Ultimatum"
          <5> SUFFICES ASSUME m.type # "Ultimatum" PROVE FALSE
            OBVIOUS
          <5>1. m.type # "ConfirmActive"
            BY <2>3
          <5>2. PICK j \in DOMAIN c2s : j < taken + 1 /\ c2s[j] = ConfirmActive(m.share)
            BY <1>5, <5>1, AfterConfirm
          <5>3. j \in 1 .. taken
            BY <1>1, <5>2
          <5>4. c2s[j].share < offered \/ c2s[j].type = "Ultimatum"
            BY <5>3 DEF Heard, Waiting
          <5>5. c2s[j].share = offered /\ c2s[j].type = "ConfirmActive"
            BY <1>9, <5>2 DEF ConfirmActive
          <5> QED
            BY <1>1, <5>4, <5>5
        <4> QED
          BY <1>5, <1>6, <4>1 DEF Heard, Waiting
      <3>3. phase' \notin {"Demanded", "Idle"} => HeardOf(ConfirmActive(offered))'
        BY <1>3, <1>7, <3>1 DEF Heard, Taken, HeardOf, ConfirmActive
      <3>4. m.type = "RequestControl" <=> m = RequestControl(offered)
        BY <1>5, <1>9 DEF ClientPDU, RequestControl
      <3>5. m.type = "FontList" <=> m = FontList(offered)
        BY <1>5, <1>9 DEF ClientPDU, FontList
      <3>6. /\ requested <=> HeardOf(RequestControl(offered))
            /\ fonts <=> HeardOf(FontList(offered))
        BY DEF Heard, Taken
      <3>7. /\ HeardOf(RequestControl(offered))' <=> requested'
            /\ HeardOf(FontList(offered))' <=> fonts'
        <4>1. /\ HeardOf(RequestControl(offered))' <=> HeardOf(RequestControl(offered)) \/ m = RequestControl(offered)
              /\ HeardOf(FontList(offered))' <=> HeardOf(FontList(offered)) \/ m = FontList(offered)
          BY <1>3, <1>7 DEF HeardOf, RequestControl, FontList
        <4> QED
          BY <2>1, <3>4, <3>5, <3>6, <4>1, Zenon
      <3>8. Taken'
        BY <1>3, <3>3, <3>7 DEF Taken
      <3>9. InputLast' /\ (phase' # "Idle" => offered' > 0)
        BY <1>3, <3>1 DEF Heard, InputLast
      <3> QED
        BY <3>2, <3>8, <3>9 DEF Heard
    <2> QED
      BY <2>2, <2>3
  <1> QED
    BY <1>8, <1>9

\* So does every step of the server.
LEMMA HeardServer ==
    ASSUME Base, Base', Log, Heard, ServerStep
    PROVE  Heard'
  <1>1. /\ c2s \in Seq(ClientPDU) /\ DOMAIN c2s = 1 .. Len(c2s) /\ Len(c2s) \in Nat
        /\ offered \in Nat /\ taken \in 0 .. Len(c2s)
        /\ \A i \in DOMAIN c2s : /\ c2s[i] \in ClientPDU
                                 /\ c2s[i].share \in Nat
                                 /\ c2s[i].share <= offered
    BY LogShares
  <1>2. /\ SessionTypeOK /\ phase \in Phase /\ \A i \in 1 .. taken : i \in DOMAIN c2s
    BY <1>1 DEF Base, Typed, SessionTypeOK
  <1>3. c2s' = c2s
    BY <1>2, ServerType
  <1>4. ASSUME UNCHANGED <<offered, phase, requested, fonts, taken>>
        PROVE  Heard'
    <2>1. /\ Waiting' /\ InputLast' /\ (phase' # "Idle" => offered' > 0)
      BY <1>3, <1>4 DEF Heard, Waiting, InputLast
    <2>2. Taken'
      BY <1>3, <1>4 DEF Heard, Taken, HeardOf, ConfirmActive, RequestControl, FontList
    <2> QED
      BY <2>1, <2>2 DEF Heard
  <1>5. CASE SrvDemand
    <2>1. /\ offered' = offered + 1 /\ phase' = "Demanded" /\ requested' = FALSE /\ fonts' = FALSE
          /\ taken' = taken
      BY <1>5 DEF SrvDemand
    <2>2. \A i \in DOMAIN c2s : c2s[i].share < offered'
      BY <1>1, <2>1
    <2>3. Waiting' /\ InputLast' /\ offered' > 0
      <3>1. \A i \in DOMAIN c2s : c2s[i].share # offered'
        BY <1>1, <2>1, <2>2
      <3> QED
        BY <1>1, <1>2, <1>3, <2>1, <2>2, <3>1 DEF Waiting, InputLast
    <2>4. Taken'
      <3>1. ASSUME NEW x, x.share = offered', NEW i \in 1 .. taken
            PROVE  c2s[i] # x
        BY <1>1, <1>2, <2>2, <3>1
      <3>2. RequestControl(offered').share = offered' /\ FontList(offered').share = offered'
        BY DEF RequestControl, FontList
      <3>3. \A i \in 1 .. taken : c2s[i] # RequestControl(offered') /\ c2s[i] # FontList(offered')
        BY <3>1, <3>2
      <3>4. ~HeardOf(RequestControl(offered))' /\ ~HeardOf(FontList(offered))'
        BY <1>3, <2>1, <3>3 DEF HeardOf, RequestControl, FontList
      <3> QED
        BY <2>1, <3>4 DEF Taken
    <2> QED
      BY <2>3, <2>4 DEF Heard
  <1>6. CASE Speaks
    <2>1. PICK from, to \in Phase, type \in ServerTypes :
              Spoken(from, to, type) /\ Step(from, to, type)
      BY <1>2, <1>6, Speaking
    <2>2. /\ phase = from /\ phase' = to /\ offered' = offered
          /\ requested' = requested /\ fonts' = fonts /\ taken' = taken
      BY <2>1 DEF Step
    <2>3. from # "Idle" /\ to # "Demanded"
      BY <2>1 DEF Spoken
    <2>4. /\ to = "Idle" \/ (from # "Demanded" /\ to # "Idle")
          /\ from \in {"Active", "Idle"} => to = "Idle"
      BY <2>1 DEF Spoken
    <2>5. Waiting' /\ offered' > 0
      BY <2>2, <2>3 DEF Heard, Waiting
    <2>6. Taken'
      <3>1. phase' \notin {"Demanded", "Idle"} => HeardOf(ConfirmActive(offered))
        BY <2>2, <2>3, <2>4 DEF Heard, Taken
      <3> QED
        BY <1>3, <2>2, <3>1 DEF Heard, Taken, HeardOf, ConfirmActive, RequestControl, FontList
    <2>7. InputLast'
      BY <1>3, <2>2, <2>4 DEF Heard, InputLast
    <2> QED
      BY <2>5, <2>6, <2>7 DEF Heard
  <1>7. CASE SrvNoise
    <2>1. UNCHANGED <<offered, phase, requested, fonts, taken>>
      BY <1>7 DEF SrvNoise, srvVars
    <2> QED
      BY <1>4, <2>1
  <1>8. CASE SrvUpdate
    <2>1. UNCHANGED <<offered, phase, requested, fonts, taken>>
      BY <1>8 DEF SrvUpdate
    <2> QED
      BY <1>4, <2>1
  <1>9. CASE SrvReceive
    BY <1>9, HeardReceive
  <1>10. CASE Flush
    <2>1. UNCHANGED <<offered, phase, requested, fonts, taken>>
      BY <1>10 DEF Flush
    <2> QED
      BY <1>4, <2>1
  <1> QED
    BY <1>5, <1>6, <1>7, <1>8, <1>9, <1>10, Zenon DEF ServerStep, Speaks

\* Heard holds.
LEMMA HeardHolds == SessionSpec => [](Base /\ Log /\ Heard)
  <1>1. SessionInit => Heard
    <2> SUFFICES ASSUME SessionInit PROVE Heard
      OBVIOUS
    <2>1. DOMAIN c2s = {} /\ phase = "Idle" /\ requested = FALSE /\ fonts = FALSE /\ taken = 0
      BY DEF SessionInit, Init
    <2>2. \A x : ~HeardOf(x)
      BY <2>1 DEF HeardOf
    <2> QED
      BY <2>1, <2>2 DEF Heard, Waiting, Taken, InputLast
  <1>2. (Base /\ Log) /\ (Base /\ Log)' /\ Heard /\ [SessionNext]_sessionVars => Heard'
    <2> SUFFICES ASSUME Base, Base', Log, Log', Heard, [SessionNext]_sessionVars
                 PROVE  Heard'
      OBVIOUS
    <2>1. Typed /\ Typed' /\ TypeOK /\ SessionTypeOK
      BY DEF Base, Typed, IInv
    <2>2. CASE ClientStep
      <3>1. Answers \/ Takes \/ Writes
        BY <2>1, <2>2, ClientActs
      <3>2. UNCHANGED srvVars
        BY <2>2 DEF ClientStep
      <3> QED
        BY <3>1, <3>2, HeardClient
    <2>3. CASE ServerStep
      BY <2>3, HeardServer
    <2>4. CASE UNCHANGED sessionVars
      <3>1. /\ UNCHANGED <<offered, phase, requested, fonts, taken>>
            /\ c2s' = c2s
        BY <2>4 DEF sessionVars, vars, linkVars, srvVars
      <3>2. /\ Waiting' /\ InputLast' /\ (phase' # "Idle" => offered' > 0)
        BY <3>1 DEF Heard, Waiting, InputLast
      <3>3. Taken'
        BY <3>1 DEF Heard, Taken, HeardOf, ConfirmActive, RequestControl, FontList
      <3> QED
        BY <3>2, <3>3 DEF Heard
    <2> QED
      BY <2>2, <2>3, <2>4 DEF SessionNext
  <1> QED
    BY <1>1, <1>2, LogHolds, PTL DEF SessionSpec

\* Together these give that the server is not surprised.
LEMMA Expected ==
    ASSUME Base, Log, Heard
    PROVE  ServerNeverSurprised
  <1>1. /\ c2s \in Seq(ClientPDU) /\ DOMAIN c2s = 1 .. Len(c2s) /\ Len(c2s) \in Nat
        /\ offered \in Nat /\ taken \in 0 .. Len(c2s)
        /\ \A i \in DOMAIN c2s : /\ c2s[i] \in ClientPDU
                                 /\ c2s[i].share \in Nat
                                 /\ c2s[i].share <= offered
    BY LogShares
  <1>2. Typed
    BY DEF Base
  <1>3. /\ requested <=> HeardOf(RequestControl(offered))
        /\ fonts <=> HeardOf(FontList(offered))
    BY DEF Heard, Taken
  <1>4. ASSUME NEW k \in DOMAIN c2s, k = taken + 1, NEW m, m = c2s[k],
               m.type # "Ultimatum", m.share = offered, phase # "Idle"
        PROVE  CASE m.type = "ConfirmActive"  -> phase = "Demanded" /\ ~requested
                 [] m.type = "RequestControl" -> phase # "Demanded" /\ ~requested
                 [] m.type = "FontList"       -> requested /\ ~fonts
                 [] m.type = "Input"          -> fonts /\ phase = "Active"
                 [] OTHER                     -> phase # "Demanded" /\ ~requested
    <2>1. \A i \in 1 .. taken : i \in DOMAIN c2s /\ i < k
      BY <1>1, <1>4
    <2>2. \A i \in DOMAIN c2s : i < k => i \in 1 .. taken
      BY <1>1, <1>4
    <2>3. /\ ConfirmActive(offered).type = "ConfirmActive" /\ ConfirmActive(offered).share = offered
          /\ RequestControl(offered).type = "RequestControl" /\ RequestControl(offered).share = offered
          /\ FontList(offered).type = "FontList" /\ FontList(offered).share = offered
      BY DEF ConfirmActive, RequestControl, FontList
    <2>4. CASE m.type = "ConfirmActive"
      <3>1. ASSUME NEW x, HeardOf(x), x.share = offered
            PROVE  FALSE
        <4>1. PICK i \in 1 .. taken : c2s[i] = x
          BY <3>1 DEF HeardOf
        <4>2. c2s[i].share < c2s[k].share
          BY <1>4, <2>1, <2>4, <4>1 DEF Log, OneAnswer
        <4> QED
          BY <1>1, <1>4, <3>1, <4>1, <4>2
      <3>2. ~HeardOf(ConfirmActive(offered)) /\ ~requested
        BY <1>3, <2>3, <3>1
      <3>3. phase = "Demanded"
        BY <1>4, <3>2 DEF Heard, Taken
      <3> QED
        BY <2>4, <3>2, <3>3
    <2>5. m.type # "ConfirmActive" => phase # "Demanded"
      <3> SUFFICES ASSUME m.type # "ConfirmActive" PROVE phase # "Demanded"
        OBVIOUS
      <3>1. PICK j \in DOMAIN c2s : j < k /\ c2s[j] = ConfirmActive(offered)
        BY <1>4, AfterConfirm
      <3>2. j \in 1 .. taken /\ ~(c2s[j].share < offered) /\ c2s[j].type # "Ultimatum"
        BY <1>1, <2>2, <2>3, <3>1
      <3> QED
        BY <3>2 DEF Heard, Waiting
    <2>6. ASSUME m.type \notin {"ConfirmActive", "Input"}, NEW i \in 1 .. taken,
                 NEW n \in {4, 5}, c2s[i] = Answer(offered)[n]
          PROVE  Place[m.type] > n
      <3>1. /\ m.type \in DOMAIN Place /\ Place[m.type] \in 1 .. 5
            /\ PartOfAnswer(k, Place[m.type])
        BY <1>2, <1>4, <2>6, Placed
      <3>a. /\ Answer(offered)[4] = RequestControl(offered)
            /\ Answer(offered)[5] = FontList(offered)
        BY <1>1, AnswerElements
      <3>2. \/ c2s[i] = RequestControl(offered) /\ n = 4
            \/ c2s[i] = FontList(offered) /\ n = 5
        BY <2>6, <3>a
      <3>3. i \in DOMAIN c2s /\ c2s[i].share = offered /\ n \in 1 .. 5
            /\ c2s[i].type \notin {"Input", "Ultimatum"} /\ Place[c2s[i].type] = n
        BY <2>1, <2>3, <3>2 DEF Place
      <3>4. PartOfAnswer(i, n)
        BY <1>2, <3>3, Placed
      <3>5. i - n = k - Place[m.type]
        BY <1>2, <1>4, <3>1, <3>3, <3>4, OnePlace
      <3> QED
        BY <1>1, <1>4, <3>1, <3>5
    <2>7. /\ Answer(offered)[4] = RequestControl(offered) /\ Answer(offered)[5] = FontList(offered)
      BY <1>1, AnswerElements
    <2>8. CASE m.type \notin {"ConfirmActive", "FontList", "Input"}
      <3>1. m.type \in DOMAIN Place /\ Place[m.type] <= 4
        <4>1. m.type \in DOMAIN Place
          BY <1>2, <1>4, <2>8, Placed
        <4> QED
          BY <2>8, <4>1 DEF Place
      <3>2. ~requested
        <4> SUFFICES ASSUME HeardOf(RequestControl(offered)) PROVE FALSE
          BY <1>3
        <4>1. PICK i \in 1 .. taken : c2s[i] = RequestControl(offered)
          BY DEF HeardOf
        <4>2. 4 \in {4, 5} /\ c2s[i] = Answer(offered)[4]
          BY <2>7, <4>1
        <4>3. Place[m.type] > 4
          BY <2>6, <2>8, <4>2
        <4>4. Place[m.type] \in 1 .. 5
          BY <1>2, <1>4, <2>8, Placed
        <4> QED
          BY <3>1, <4>3, <4>4
      <3> QED
        BY <2>5, <2>8, <3>2
    <2>9. CASE m.type = "FontList"
      <3>1. Place[m.type] = 5
        BY <2>9 DEF Place
      <3>2. PartOfAnswer(k, 5)
        <4>1. c2s[k].type \notin {"Input", "Ultimatum"} /\ Place[c2s[k].type] = 5
          BY <1>4, <2>9, <3>1
        <4> QED
          BY <1>2, <4>1, Placed
      <3>3. 5 <= k /\ c2s[k - 5 + 4] = Answer(c2s[k].share)[4]
        BY <3>2 DEF PartOfAnswer
      <3>4. k - 5 + 4 \in 1 .. taken /\ c2s[k - 5 + 4] = RequestControl(offered)
        BY <1>1, <1>4, <2>7, <3>3
      <3>5. requested
        BY <1>3, <3>4 DEF HeardOf
      <3>6. ~fonts
        <4> SUFFICES ASSUME HeardOf(FontList(offered)) PROVE FALSE
          BY <1>3
        <4>1. PICK i \in 1 .. taken : c2s[i] = FontList(offered)
          BY DEF HeardOf
        <4>2. 5 \in {4, 5} /\ c2s[i] = Answer(offered)[5]
          BY <2>7, <4>1
        <4>3. Place[m.type] > 5
          BY <2>6, <2>9, <4>2
        <4> QED
          BY <3>1, <4>3
      <3> QED
        BY <2>9, <3>5, <3>6
    <2>10. CASE m.type = "Input"
      <3>1. PICK j \in DOMAIN c2s : j < k /\ c2s[j] = FontList(offered)
        BY <1>4, <2>10 DEF Log, Backed
      <3>2. fonts
        BY <1>3, <2>2, <3>1 DEF HeardOf
      <3>3. phase = "Active"
        BY <1>4, <2>10 DEF Heard, InputLast
      <3> QED
        BY <2>10, <3>2, <3>3
    <2> QED
      BY <2>4, <2>8, <2>9, <2>10
  <1>5. ASSUME taken < Len(c2s), c2s[taken + 1].type # "Ultimatum"
        PROVE  LET m == c2s[taken + 1] IN
                 \/ m.share < offered
                 \/ /\ m.share = offered
                    /\ phase # "Idle" =>
                          CASE m.type = "ConfirmActive"  -> phase = "Demanded" /\ ~requested
                            [] m.type = "RequestControl" -> phase # "Demanded" /\ ~requested
                            [] m.type = "FontList"       -> requested /\ ~fonts
                            [] m.type = "Input"          -> fonts /\ phase = "Active"
                            [] OTHER                     -> phase # "Demanded" /\ ~requested
    <2>1. taken + 1 \in DOMAIN c2s
      BY <1>1, <1>5
    <2>2. PICK m : m = c2s[taken + 1]
      OBVIOUS
    <2>3. m.share < offered \/ m.share = offered
      BY <1>1, <2>1, <2>2
    <2>4. m.share = offered /\ phase # "Idle" =>
             CASE m.type = "ConfirmActive"  -> phase = "Demanded" /\ ~requested
               [] m.type = "RequestControl" -> phase # "Demanded" /\ ~requested
               [] m.type = "FontList"       -> requested /\ ~fonts
               [] m.type = "Input"          -> fonts /\ phase = "Active"
               [] OTHER                     -> phase # "Demanded" /\ ~requested
      BY <1>4, <1>5, <2>1, <2>2
    <2> QED
      BY <2>2, <2>3, <2>4, Zenon
  <1> QED
    BY <1>5, Zenon DEF ServerNeverSurprised

(***************************************************************************)
(* Whatever the server reads next it can expect there: the answers that    *)
(* write_client_finalize starts and the input of write_input_event keep to *)
(* the sequence of the share, however many activations there are and       *)
(* whatever the manners of the server.                                     *)
(***************************************************************************)
THEOREM ServerExpects == SessionSpec => []ServerNeverSurprised
  <1>1. Base /\ Log /\ Heard => ServerNeverSurprised
    BY Expected
  <1> QED
    BY <1>1, HeardHolds, PTL
====
