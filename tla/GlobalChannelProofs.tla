------------------------ MODULE GlobalChannelProofs ------------------------
(***************************************************************************)
(* What GlobalChannel guarantees for every set of payloads, every bound,   *)
(* and both kinds of link.                                                 *)
(***************************************************************************)
EXTENDS GlobalChannel, SequenceTheorems, FiniteSetTheorems, TLAPS

-----------------------------------------------------------------------------
\* Facts about sequences and about the answer to a Demand Active PDU.

\* The first element of a queue, and the rest.
LEMMA HeadTail ==
    ASSUME NEW S, NEW q \in Seq(S), q # <<>>
    PROVE  Head(q) \in S /\ Tail(q) \in Seq(S)
  BY SMT

\* The answer to a demand is five PDUs.
LEMMA AnswerType ==
    ASSUME NEW s \in Nat
    PROVE  /\ Answer(s) \in Seq(ClientPDU)
           /\ Len(Answer(s)) = 5
  BY SMT DEF Answer, ConfirmActive, ClientPDU, ClientTypes

\* A payload that begins with a demand names a share.
LEMMA FirstPdu ==
    ASSUME NEW p \in Payload, p.kind = "Raw", FirstType(p) = "DemandActive"
    PROVE  p.pdus[1] \in ServerPDU /\ p.pdus[1].share \in Nat
  <1>1. p.pdus \in Seq(ServerPDU)
    BY DEF Payload
  <1>2. p.pdus # <<>>
    BY DEF FirstType
  <1>3. p.pdus[1] \in ServerPDU
    BY <1>1, <1>2, SMT
  <1> QED
    BY <1>3 DEF ServerPDU

\* What is appended, in whole or in part, follows what was there.
LEMMA Prefix ==
    ASSUME NEW S, NEW p \in Seq(S), NEW q \in Seq(S), NEW k \in 0 .. Len(q),
           NEW r, r = p \o SubSeq(q, 1, k)
    PROVE  /\ r \in Seq(S)
           /\ Len(r) = Len(p) + k
           /\ \A i \in 1 .. Len(p) : r[i] = p[i]
           /\ \A i \in 1 .. k : r[Len(p) + i] = q[i]
  <1> DEFINE q1 == SubSeq(q, 1, k)
  <1>1. q1 \in Seq(S) /\ Len(q1) = k /\ \A i \in 1 .. k : q1[i] = q[i]
    BY SMT
  <1>2. r = p \o q1
    OBVIOUS
  <1> HIDE DEF q1
  <1>3. /\ r \in Seq(S)
        /\ Len(r) = Len(p) + k
        /\ \A i \in 1 .. Len(p) : r[i] = p[i]
        /\ \A i \in 1 .. k : r[Len(p) + i] = q1[i]
    BY <1>1, <1>2, SMT
  <1> QED
    BY <1>1, <1>3

\* To append nothing.
LEMMA NoPrefix ==
    ASSUME NEW S, NEW p \in Seq(S), NEW q \in Seq(S)
    PROVE  p \o SubSeq(q, 1, 0) = p
  <1>1. SubSeq(q, 1, 0) = <<>>
    BY SMT
  <1> QED
    BY <1>1, SMT

\* The five PDUs are all of the answer.
LEMMA WholeAnswer ==
    ASSUME NEW s \in Nat
    PROVE  SubSeq(Answer(s), 1, 5) = Answer(s)
  BY AnswerType, SMT

-----------------------------------------------------------------------------
(***************************************************************************)
(* The inductive invariant.  Complete is HandshakeComplete element by      *)
(* element, with the share of the input that follows; Closed says why      *)
(* nothing follows an ultimatum: the link is down.                         *)
(***************************************************************************)
CompleteAt(i) ==
    /\ i + 4 <= Len(c2s)
    /\ \A n \in 1 .. 5 : c2s[i + n - 1] = Answer(share_id)[n]
    /\ \A j \in DOMAIN c2s : j > i + 4 =>
          c2s[j].type = "Ultimatum" \/ c2s[j] = [type |-> "Input", share |-> share_id]

Complete == state # "DemandActivePDU" => \E i \in Nat \ {0} : CompleteAt(i)

Closed ==
    Tls => \A i \in DOMAIN c2s :
              c2s[i].type = "Ultimatum" => link = "down" /\ i = Len(c2s)

IInv == TypeOK /\ HandshakeOrder /\ Complete /\ Closed

-----------------------------------------------------------------------------
(***************************************************************************)
(* How a step may change what the invariant is about: it writes nothing,   *)
(* a prefix of an answer, an input or an ultimatum.                        *)
(***************************************************************************)
LEMMA NothingWritten ==
    ASSUME IInv, TypeOK', c2s' = c2s,
           link = "down" => link' = "down",
           \/ state' = "DemandActivePDU"
           \/ state # "DemandActivePDU" /\ share_id' = share_id
    PROVE  IInv'
  <1>1. HandshakeOrder'
    BY DEF IInv, HandshakeOrder, InOrder
  <1>2. Complete'
    BY DEF IInv, Complete, CompleteAt
  <1>3. Closed'
    BY DEF IInv, Closed
  <1> QED
    BY <1>1, <1>2, <1>3 DEF IInv

\* The answer in order: what HandshakeOrder asks of its PDUs.
LEMMA AnswerInOrder ==
    ASSUME NEW s \in Nat
    PROVE  /\ \A j \in 1 .. 5 : Answer(s)[j].share = s /\ Answer(s)[j].type # "Ultimatum"
           /\ Answer(s)[1].type = "ConfirmActive"
           /\ \A j \in 2 .. 5 : <<Answer(s)[j - 1].type, Answer(s)[j].type>> \in Follows
  <1>1. /\ \A j \in 1 .. 5 : j = 1 \/ j = 2 \/ j = 3 \/ j = 4 \/ j = 5
        /\ \A j \in 2 .. 5 : j = 2 \/ j = 3 \/ j = 4 \/ j = 5
    BY SMT
  <1> QED
    BY <1>1, SMT DEF Answer, ConfirmActive, Follows

\* An answer keeps the invariant, in whole, or cut when the demand is waited for.
LEMMA AnswerWritten ==
    ASSUME IInv, TypeOK', NEW s \in Nat, NEW k \in 0 .. 5, link = "up",
           c2s' = c2s \o SubSeq(Answer(s), 1, k),
           \/ state' = "DemandActivePDU"
           \/ k = 5 /\ share_id' = s
    PROVE  IInv'
  <1>1. c2s \in Seq(ClientPDU) /\ c2s' \in Seq(ClientPDU)
    BY DEF IInv, TypeOK
  <1>2. /\ Len(c2s') = Len(c2s) + k
        /\ \A i \in 1 .. Len(c2s) : c2s'[i] = c2s[i]
        /\ \A j \in 1 .. k : c2s'[Len(c2s) + j] = Answer(s)[j]
    <2>1. Answer(s) \in Seq(ClientPDU) /\ k \in 0 .. Len(Answer(s))
      BY AnswerType
    <2> QED
      BY SMTT(30), <1>1, <2>1, Prefix
  <1>3. Len(c2s) \in Nat /\ DOMAIN c2s = 1 .. Len(c2s) /\ DOMAIN c2s' = 1 .. Len(c2s')
    BY <1>1
  <1>4. \A i \in DOMAIN c2s' : i \in DOMAIN c2s \/ \E j \in 1 .. k : i = Len(c2s) + j
    <2> SUFFICES ASSUME NEW i \in DOMAIN c2s', i \notin DOMAIN c2s
                 PROVE  \E j \in 1 .. k : i = Len(c2s) + j
      OBVIOUS
    <2> WITNESS i - Len(c2s) \in 1 .. k
    <2> QED
      BY <1>3
  <1>5. HandshakeOrder'
    <2> SUFFICES ASSUME NEW i \in DOMAIN c2s',
                        c2s'[i].type \notin {"ConfirmActive", "Ultimatum"}
                 PROVE  InOrder(i)'
      BY DEF HandshakeOrder
    <2>1. CASE i \in DOMAIN c2s
      <3>1. InOrder(i)
        BY <1>2, <1>3, <2>1 DEF IInv, HandshakeOrder
      <3>2. c2s'[i - 1] = c2s[i - 1] /\ c2s'[i] = c2s[i]
        BY <1>2, <1>3, <2>1, <3>1 DEF InOrder
      <3> QED
        BY <3>1, <3>2 DEF InOrder
    <2>2. CASE i \notin DOMAIN c2s
      <3>1. PICK j \in 1 .. k : i = Len(c2s) + j
        BY <1>4, <2>2
      <3>2. c2s'[i] = Answer(s)[j]
        BY <1>2, <3>1
      <3>3. j \in 2 .. 5
        <4>1. Answer(s)[1].type = "ConfirmActive"
          BY AnswerInOrder
        <4>2. j # 1
          BY <3>2, <4>1
        <4> QED
          BY <4>2
      <3>4. i > 1 /\ i - 1 = Len(c2s) + (j - 1) /\ j - 1 \in 1 .. k /\ j - 1 \in 1 .. 5
        BY <1>3, <3>1, <3>3
      <3>5. c2s'[i - 1] = Answer(s)[j - 1]
        BY <1>2, <3>4
      <3>6. Answer(s)[j].share = s /\ Answer(s)[j - 1].share = s
        <4>1. \A n \in 1 .. 5 : Answer(s)[n].share = s
          BY AnswerInOrder
        <4> QED
          BY <3>3, <3>4, <4>1
      <3>7. <<Answer(s)[j - 1].type, Answer(s)[j].type>> \in Follows
        BY <3>3, AnswerInOrder
      <3> QED
        BY <3>2, <3>4, <3>5, <3>6, <3>7 DEF InOrder
    <2> QED
      BY <2>1, <2>2
  <1>6. Complete'
    <2> SUFFICES ASSUME k = 5, share_id' = s, NEW i \in Nat \ {0}, i = Len(c2s) + 1
                 PROVE  CompleteAt(i)'
      BY <1>3 DEF Complete
    <2>1. i + 4 <= Len(c2s')
      BY <1>2, <1>3
    <2>2. \A n \in 1 .. 5 : c2s'[i + n - 1] = Answer(share_id')[n]
      <3>1. \A n \in 1 .. 5 : c2s'[Len(c2s) + n] = Answer(share_id')[n]
        BY <1>2
      <3>2. \A n \in 1 .. 5 : i + n - 1 = Len(c2s) + n
        BY <1>3
      <3> QED
        BY <3>1, <3>2
    <2>3. \A j \in DOMAIN c2s' : ~(j > i + 4)
      BY <1>2, <1>3
    <2> QED
      BY <2>1, <2>2, <2>3 DEF CompleteAt
  <1>7. \A i \in DOMAIN c2s' : i \notin DOMAIN c2s => c2s'[i].type # "Ultimatum"
    <2> SUFFICES ASSUME NEW j \in 1 .. k
                 PROVE  c2s'[Len(c2s) + j].type # "Ultimatum"
      BY <1>4
    <2>1. c2s'[Len(c2s) + j] = Answer(s)[j]
      BY <1>2
    <2>2. Answer(s)[j].type # "Ultimatum"
      <3>1. j \in 1 .. 5
        OBVIOUS
      <3> QED
        BY <3>1, AnswerInOrder
    <2> QED
      BY <2>1, <2>2
  <1>8. Closed'
    <2>1. Tls => \A i \in DOMAIN c2s : c2s[i].type # "Ultimatum"
      BY Zenon DEF IInv, Closed
    <2>2. \A i \in DOMAIN c2s : c2s'[i] = c2s[i]
      BY <1>2, <1>3
    <2> QED
      BY <1>7, <2>1, <2>2, Zenon DEF Closed
  <1> QED
    BY <1>5, <1>6, <1>8 DEF IInv

\* One PDU written after the others.
LEMMA Appended ==
    ASSUME NEW S, NEW p \in Seq(S), NEW m \in S, NEW r, r = p \o <<m>>
    PROVE  /\ r \in Seq(S)
           /\ Len(r) = Len(p) + 1
           /\ r[Len(p) + 1] = m
           /\ \A i \in DOMAIN p : r[i] = p[i]
           /\ DOMAIN p = 1 .. Len(p) /\ DOMAIN r = 1 .. Len(p) + 1
  BY SMT

(***************************************************************************)
(* The last PDU of a client past DemandActivePDU is the font list of its   *)
(* share, or an input for it, or an ultimatum.                             *)
(***************************************************************************)
LEMMA LastWritten ==
    ASSUME IInv, state # "DemandActivePDU"
    PROVE  LET m == c2s[Len(c2s)] IN
           /\ Len(c2s) > 4
           /\ \/ m.type = "Ultimatum"
              \/ m.share = share_id /\ m.type \in {"FontList", "Input"}
  <1>1. PICK i \in Nat \ {0} : CompleteAt(i)
    BY DEF IInv, Complete
  <1>2. Len(c2s) \in Nat /\ DOMAIN c2s = 1 .. Len(c2s)
    BY DEF IInv, TypeOK
  <1>3. i + 4 <= Len(c2s) /\ Len(c2s) > 4 /\ Len(c2s) \in DOMAIN c2s
    BY <1>1, <1>2 DEF CompleteAt
  <1>4. CASE Len(c2s) = i + 4
    <2>1. c2s[i + 5 - 1] = Answer(share_id)[5]
      BY <1>1 DEF CompleteAt
    <2>2. Answer(share_id)[5] = [type |-> "FontList", share |-> share_id]
      BY SMT DEF Answer
    <2>3. c2s[Len(c2s)] = [type |-> "FontList", share |-> share_id]
      BY <1>2, <1>4, <2>1, <2>2
    <2> QED
      BY <1>3, <2>3
  <1>5. CASE Len(c2s) > i + 4
    <2>1. \/ c2s[Len(c2s)].type = "Ultimatum"
          \/ c2s[Len(c2s)] = [type |-> "Input", share |-> share_id]
      BY <1>1, <1>3, <1>5 DEF CompleteAt
    <2> QED
      BY <1>3, <2>1
  <1>6. Len(c2s) = i + 4 \/ Len(c2s) > i + 4
    <2>1. Len(c2s) \in Nat
      BY <1>2
    <2>2. i + 4 <= Len(c2s)
      BY <1>3
    <2> QED
      BY <2>1, <2>2
  <1> QED
    BY <1>4, <1>5, <1>6

\* Input keeps it in the state Data.
LEMMA InputWritten ==
    ASSUME IInv, TypeOK', state = "Data", link = "up", link' = "up",
           c2s' = c2s \o Input,
           UNCHANGED <<state, share_id>>
    PROVE  IInv'
  <1> DEFINE m == [type |-> "Input", share |-> share_id]
  <1>1. c2s \in Seq(ClientPDU) /\ m \in ClientPDU
    BY DEF IInv, TypeOK, ClientPDU, ClientTypes
  <1>2. c2s' = c2s \o <<m>>
    BY DEF Input
  <1> HIDE DEF m
  <1>3. /\ Len(c2s') = Len(c2s) + 1
        /\ c2s'[Len(c2s) + 1] = m
        /\ \A i \in DOMAIN c2s : c2s'[i] = c2s[i]
        /\ DOMAIN c2s = 1 .. Len(c2s) /\ DOMAIN c2s' = 1 .. Len(c2s) + 1
        /\ Len(c2s) \in Nat
    BY <1>1, <1>2, Appended
  <1>4. m.type = "Input" /\ m.share = share_id
    BY DEF m
  <1>5. HandshakeOrder'
    <2> SUFFICES ASSUME NEW i \in DOMAIN c2s',
                        c2s'[i].type \notin {"ConfirmActive", "Ultimatum"}
                 PROVE  InOrder(i)'
      BY DEF HandshakeOrder
    <2>1. CASE i \in DOMAIN c2s
      <3>1. InOrder(i)
        BY <1>3, <2>1 DEF IInv, HandshakeOrder
      <3>2. c2s'[i - 1] = c2s[i - 1] /\ c2s'[i] = c2s[i]
        BY <1>3, <2>1, <3>1 DEF InOrder
      <3> QED
        BY <3>1, <3>2 DEF InOrder
    <2>2. CASE i \notin DOMAIN c2s
      <3>1. i = Len(c2s) + 1 /\ i - 1 = Len(c2s) /\ i > 1 /\ Len(c2s) \in DOMAIN c2s
        BY <1>3, <2>2, LastWritten
      <3>2. c2s'[i] = m /\ c2s'[i - 1] = c2s[Len(c2s)]
        BY <1>3, <3>1
      <3>3. CASE c2s[Len(c2s)].type = "Ultimatum"
        <4>1. ~Tls
          BY <3>1, <3>3, Zenon DEF IInv, Closed
        <4>2. c2s'[i - 1].type = "Ultimatum"
          BY <3>2, <3>3
        <4> QED
          BY <3>1, <4>1, <4>2, Zenon DEF InOrder
      <3>4. CASE c2s[Len(c2s)].type # "Ultimatum"
        <4>1. c2s[Len(c2s)].share = share_id /\ c2s[Len(c2s)].type \in {"FontList", "Input"}
          BY <3>4, LastWritten
        <4>2. c2s'[i - 1].share = c2s'[i].share
          BY <1>4, <3>2, <4>1
        <4>3. <<c2s'[i - 1].type, c2s'[i].type>> \in Follows
          BY <1>4, <3>2, <4>1 DEF Follows
        <4> QED
          BY <3>1, <4>2, <4>3 DEF InOrder
      <3> QED
        BY <3>3, <3>4
    <2> QED
      BY <2>1, <2>2
  <1>6. Complete'
    <2>1. PICK i \in Nat \ {0} : CompleteAt(i)
      BY DEF IInv, Complete
    <2>2. i + 4 <= Len(c2s')
      BY <1>3, <2>1 DEF CompleteAt
    <2>3. \A n \in 1 .. 5 : c2s'[i + n - 1] = Answer(share_id')[n]
      <3>1. \A n \in 1 .. 5 : i + n - 1 \in DOMAIN c2s
        BY <1>3, <2>1 DEF CompleteAt
      <3> QED
        BY <1>3, <2>1, <3>1 DEF CompleteAt
    <2>4. \A j \in DOMAIN c2s' : j > i + 4 =>
             c2s'[j].type = "Ultimatum" \/ c2s'[j] = [type |-> "Input", share |-> share_id']
      <3> SUFFICES ASSUME NEW j \in DOMAIN c2s', j > i + 4
                   PROVE  \/ c2s'[j].type = "Ultimatum"
                          \/ c2s'[j] = [type |-> "Input", share |-> share_id']
        OBVIOUS
      <3>1. CASE j \in DOMAIN c2s
        <4>1. c2s[j].type = "Ultimatum" \/ c2s[j] = [type |-> "Input", share |-> share_id]
          BY <2>1, <3>1 DEF CompleteAt
        <4> QED
          BY <1>3, <3>1, <4>1
      <3>2. CASE j \notin DOMAIN c2s
        BY <1>3, <3>2 DEF m
      <3> QED
        BY <3>1, <3>2
    <2> QED
      BY <2>2, <2>3, <2>4 DEF Complete, CompleteAt
  <1>7. Closed'
    <2>1. Tls => \A i \in DOMAIN c2s : c2s[i].type # "Ultimatum"
      BY Zenon DEF IInv, Closed
    <2>2. \A i \in DOMAIN c2s' : (i \in DOMAIN c2s /\ c2s'[i] = c2s[i]) \/ c2s'[i].type = "Input"
      BY <1>3, <1>4
    <2> QED
      BY <2>1, <2>2, Zenon DEF Closed
  <1> QED
    BY <1>5, <1>6, <1>7 DEF IInv

\* The ultimatum keeps it, and is the last on TLS.
LEMMA UltimatumWritten ==
    ASSUME IInv, TypeOK', link = "up", Tls => link' = "down",
           c2s' = c2s \o Ultimatum,
           UNCHANGED <<state, share_id>>
    PROVE  IInv'
  <1> DEFINE m == [type |-> "Ultimatum", share |-> NoShare]
  <1>1. c2s \in Seq(ClientPDU) /\ m \in ClientPDU
    BY DEF IInv, TypeOK, ClientPDU, ClientTypes, NoShare
  <1>2. c2s' = c2s \o <<m>>
    BY DEF Ultimatum
  <1>3. m.type = "Ultimatum"
    OBVIOUS
  <1> HIDE DEF m
  <1>4. /\ Len(c2s') = Len(c2s) + 1
        /\ c2s'[Len(c2s) + 1] = m
        /\ \A i \in DOMAIN c2s : c2s'[i] = c2s[i]
        /\ DOMAIN c2s = 1 .. Len(c2s) /\ DOMAIN c2s' = 1 .. Len(c2s) + 1
        /\ Len(c2s) \in Nat
    BY <1>1, <1>2, Appended
  <1>5. \A i \in DOMAIN c2s' : i \in DOMAIN c2s \/ (c2s'[i].type = "Ultimatum" /\ i = Len(c2s'))
    BY <1>3, <1>4
  <1>6. HandshakeOrder'
    <2> SUFFICES ASSUME NEW i \in DOMAIN c2s',
                        c2s'[i].type \notin {"ConfirmActive", "Ultimatum"}
                 PROVE  InOrder(i)'
      BY DEF HandshakeOrder
    <2>1. i \in DOMAIN c2s
      BY <1>5
    <2>2. InOrder(i)
      BY <1>4, <2>1 DEF IInv, HandshakeOrder
    <2>3. c2s'[i - 1] = c2s[i - 1] /\ c2s'[i] = c2s[i]
      BY <1>4, <2>1, <2>2 DEF InOrder
    <2> QED
      BY <2>2, <2>3 DEF InOrder
  <1>7. Complete'
    <2> SUFFICES ASSUME state # "DemandActivePDU"
                 PROVE  \E i \in Nat \ {0} : CompleteAt(i)'
      BY DEF Complete
    <2>1. PICK i \in Nat \ {0} : CompleteAt(i)
      BY DEF IInv, Complete
    <2>2. i + 4 <= Len(c2s')
      BY <1>4, <2>1 DEF CompleteAt
    <2>3. \A n \in 1 .. 5 : c2s'[i + n - 1] = Answer(share_id')[n]
      <3>1. \A n \in 1 .. 5 : i + n - 1 \in DOMAIN c2s
        BY SMTT(30), <1>4, <2>1 DEF CompleteAt
      <3> QED
        BY <1>4, <2>1, <3>1 DEF CompleteAt
    <2>4. \A j \in DOMAIN c2s' : j > i + 4 =>
             c2s'[j].type = "Ultimatum" \/ c2s'[j] = [type |-> "Input", share |-> share_id']
      <3>1. \A j \in DOMAIN c2s : j > i + 4 =>
               c2s[j].type = "Ultimatum" \/ c2s[j] = [type |-> "Input", share |-> share_id]
        BY <2>1 DEF CompleteAt
      <3> QED
        BY <1>4, <1>5, <3>1
    <2> QED
      BY <2>2, <2>3, <2>4 DEF CompleteAt
  <1>8. Closed'
    <2>1. Tls => \A i \in DOMAIN c2s : c2s[i].type # "Ultimatum"
      BY Zenon DEF IInv, Closed
    <2>2. \A i \in DOMAIN c2s : c2s'[i] = c2s[i]
      BY <1>4
    <2> QED
      BY <1>5, <2>1, <2>2, Zenon DEF Closed
  <1> QED
    BY <1>6, <1>7, <1>8 DEF IInv

-----------------------------------------------------------------------------
\* The log of a failed write: nothing, or a strict prefix and the link was up.
LEMMA FailedPrefix ==
    ASSUME TypeOK, NEW q \in Seq(ClientPDU), Len(q) > 0, WriteFailed(q)
    PROVE  /\ link' = "down"
           /\ \/ c2s' = c2s
              \/ link = "up" /\ \E k \in 0 .. Len(q) - 1 : c2s' = c2s \o SubSeq(q, 1, k)
  <1>1. c2s \in Seq(ClientPDU) /\ link \in {"up", "down"}
    BY DEF TypeOK
  <1>2. PICK k \in 0 .. Len(q) - 1 :
            (link = "down" => k = 0) /\ c2s' = c2s \o SubSeq(q, 1, k)
    BY DEF WriteFailed
  <1>3. CASE link = "up"
    BY <1>2, <1>3 DEF WriteFailed
  <1>4. CASE link = "down"
    <2>1. c2s' = c2s \o SubSeq(q, 1, 0)
      BY <1>2, <1>4
    <2> QED
      BY <1>1, <2>1, NoPrefix DEF WriteFailed
  <1> QED
    BY <1>1, <1>3, <1>4

\* A write appends PDUs, or fails.
LEMMA LogType ==
    ASSUME TypeOK, NEW q \in Seq(ClientPDU), Len(q) > 0, WriteFailed(q) \/ Written(q)
    PROVE  c2s' \in Seq(ClientPDU) /\ link' \in {"up", "down"}
  <1>1. c2s \in Seq(ClientPDU) /\ link \in {"up", "down"}
    BY DEF TypeOK
  <1>2. CASE Written(q)
    BY <1>1, <1>2 DEF Written
  <1>3. CASE WriteFailed(q)
    <2>1. \A k \in 0 .. Len(q) - 1 : k \in 0 .. Len(q)
      OBVIOUS
    <2> QED
      BY <1>1, <1>3, <2>1, FailedPrefix, Prefix
  <1> QED
    BY <1>2, <1>3

\* Input is one PDU.
LEMMA InputType == ASSUME TypeOK PROVE Input \in Seq(ClientPDU) /\ Len(Input) = 1
  BY SMT DEF TypeOK, Input, ClientPDU, ClientTypes

\* So is the ultimatum.
LEMMA UltimatumType == Ultimatum \in Seq(ClientPDU) /\ Len(Ultimatum) = 1
  BY SMT DEF Ultimatum, ClientPDU, ClientTypes, NoShare

\* A write of one PDU that fails writes nothing.
LEMMA OnePdu ==
    ASSUME TypeOK, NEW q \in Seq(ClientPDU), Len(q) = 1, WriteFailed(q)
    PROVE  c2s' = c2s /\ link' = "down"
  <1>1. c2s \in Seq(ClientPDU)
    BY DEF TypeOK
  <1>2. c2s' = c2s \o SubSeq(q, 1, 0)
    <2>1. 0 .. Len(q) - 1 = {0}
      OBVIOUS
    <2> QED
      BY <2>1 DEF WriteFailed
  <1> QED
    BY <1>1, <1>2, NoPrefix DEF WriteFailed

-----------------------------------------------------------------------------
\* What is received is a payload.
LEMMA PayloadReceived ==
    ASSUME TypeOK, Received
    PROVE  payload \in Payload /\ s2c' \in Seq(Payload)
  BY HeadTail DEF TypeOK, Received, payload

\* What parsing fails with is an error of the code.
LEMMA ParseErrors ==
    /\ \A t \in DOMAIN ControlError : ControlError[t] \in Errors
    /\ \A t \in DOMAIN DataError : DataError[t] \in Errors
    /\ "Ok" \notin Errors
  BY DEF ControlError, DataError, Errors

\* A refusal is an error of the code.
LEMMA RefusalType ==
    ASSUME NEW t, NEW wanted
    PROVE  Refusal(t, wanted) \in {"Ok"} \cup Errors
  <1>1. {"InvalidCast", "Io", "UnexpectedType"} \subseteq Errors
    BY DEF Errors
  <1> QED
    BY <1>1, ParseErrors DEF Refusal

\* Every step keeps the types.
LEMMA TypePreserved ==
    ASSUME TypeOK, Next
    PROVE  TypeOK'
  <1> USE DEF TypeOK, clientVars, linkVars
  <1>1. CASE ReadDemandActivePdu
    <2>1. payload \in Payload /\ s2c' \in Seq(Payload)
      BY <1>1, PayloadReceived DEF ReadDemandActivePdu
    <2>2. payload.pdus[1].share \in Nat
      BY <1>1, <2>1, FirstPdu DEF ReadDemandActivePdu
    <2> DEFINE s == payload.pdus[1].share
    <2>3. /\ share_id' = s
          /\ server_capabilities' = Append(server_capabilities, s)
          /\ \/ Written(Answer(s)) /\ state' = "SynchronizePDU" /\ result' = "Ok"
             \/ WriteFailed(Answer(s)) /\ result' = "Io" /\ UNCHANGED state
          /\ UNCHANGED handled
      BY <1>1 DEF ReadDemandActivePdu
    <2> HIDE DEF s
    <2>4. s \in Nat
      BY <2>2 DEF s
    <2>5. Answer(s) \in Seq(ClientPDU) /\ Len(Answer(s)) = 5
      BY <2>4, AnswerType
    <2>6. c2s' \in Seq(ClientPDU) /\ link' \in {"up", "down"}
      <3> HIDE DEF TypeOK
      <3>1. Len(Answer(s)) > 0
        BY <2>5
      <3> QED
        BY <2>3, <2>5, <3>1, LogType
    <2>7. state' \in ClientState /\ result' \in {"Ok"} \cup Errors
      BY <2>3 DEF ClientState, Errors
    <2>8. server_capabilities' \in Seq(Nat)
      BY <2>3, <2>4
    <2> QED
      BY <2>1, <2>3, <2>4, <2>6, <2>7, <2>8
  <1>2. ASSUME NEW from, NEW wanted, NEW to \in ClientState, Advance(from, wanted, to)
        PROVE  TypeOK'
    <2>1. s2c' \in Seq(Payload)
      BY <1>2, PayloadReceived DEF Advance
    <2> QED
      BY <1>2, <2>1 DEF Advance
  <1>3. CASE ReadSynchronizePdu \/ ReadControlCooperate \/ ReadControlGranted \/ ReadFontMapPdu
    BY <1>2, <1>3 DEF ReadSynchronizePdu, ReadControlCooperate, ReadControlGranted,
                      ReadFontMapPdu, ClientState
  <1>4. CASE ReadUnwanted
    <2>1. s2c' \in Seq(Payload)
      BY <1>4, PayloadReceived DEF ReadUnwanted
    <2>2. result' \in {"Ok"} \cup Errors
      BY <1>4, RefusalType DEF ReadUnwanted
    <2> QED
      BY <1>4, <2>1, <2>2 DEF ReadUnwanted
  <1>5. CASE ReadDataPdu
    <2>1. s2c' \in Seq(Payload)
      BY <1>5, PayloadReceived DEF ReadDataPdu
    <2>2. state' \in ClientState
      BY <1>5 DEF ReadDataPdu, ClientState
    <2>3. result' \in {"Ok"} \cup Errors
      BY <1>5, ParseErrors DEF ReadDataPdu, AbortsAt
    <2> QED
      BY <1>5, <2>1, <2>2, <2>3 DEF ReadDataPdu
  <1>6. CASE ReadFastPath
    <2>1. payload \in Payload /\ s2c' \in Seq(Payload)
      BY <1>6, PayloadReceived DEF ReadFastPath
    <2>2. handled' \in Seq(Update)
      <3>1. payload.updates \in Seq(Update)
        BY <2>1 DEF Payload
      <3>2. handled \in Seq(Update) /\ handled' = handled \o payload.updates
        BY <1>6 DEF ReadFastPath
      <3> QED
        BY <3>1, <3>2
    <2> QED
      BY <1>6, <2>1, <2>2 DEF ReadFastPath
  <1>7. CASE ReadNotGlobal
    <2>1. s2c' \in Seq(Payload)
      BY <1>7, PayloadReceived DEF ReadNotGlobal
    <2>2. result' \in {"Ok"} \cup Errors
      BY <1>7 DEF ReadNotGlobal, SwitchKinds, SwitchError, Errors
    <2> QED
      BY <1>7, <2>1, <2>2 DEF ReadNotGlobal
  <1>8. CASE ReadEof
    BY <1>8 DEF ReadEof, Errors
  <1>9. ASSUME Write
        PROVE  TypeOK'
    <2>1. CASE state = "Data"
      <3>1. (Written(Input) /\ result' = "Ok") \/ (WriteFailed(Input) /\ result' = "Io")
        BY <1>9, <2>1 DEF Write
      <3>2. c2s' \in Seq(ClientPDU) /\ link' \in {"up", "down"}
        <4> HIDE DEF TypeOK
        <4>1. Input \in Seq(ClientPDU) /\ Len(Input) = 1
          BY InputType, Zenon
        <4>2. Len(Input) > 0
          BY <4>1
        <4> QED
          BY <3>1, <4>1, <4>2, LogType
      <3> QED
        BY <1>9, <3>1, <3>2 DEF Write, Errors
    <2>2. CASE state # "Data"
      BY <1>9, <2>2 DEF Write, Errors
    <2> QED
      BY <2>1, <2>2
  <1>10. CASE TryWrite
    BY <1>9, <1>10 DEF TryWrite
  <1>11. CASE Shutdown
    <2>1. c2s' \in Seq(ClientPDU) /\ link' \in {"up", "down"}
      <3>1. CASE WriteFailed(Ultimatum)
        <4> HIDE DEF TypeOK
        <4>1. Ultimatum \in Seq(ClientPDU) /\ Len(Ultimatum) > 0
          BY UltimatumType
        <4> QED
          BY <3>1, <4>1, LogType
      <3>2. CASE c2s' = c2s \o Ultimatum /\ link' = IF Tls THEN "down" ELSE "up"
        <4>1. c2s' \in Seq(ClientPDU)
          BY <3>2, UltimatumType
        <4>2. link' \in {"up", "down"}
          BY <3>2, Zenon
        <4> QED
          BY <4>1, <4>2
      <3> QED
        BY <1>11, <3>1, <3>2 DEF Shutdown
    <2>2. result' \in {"Ok"} \cup Errors
      <3>1. result' \in {"Ok", "Io"}
        BY <1>11, Zenon DEF Shutdown
      <3> QED
        BY <3>1 DEF Errors
    <2> QED
      BY <1>11, <2>1, <2>2 DEF Shutdown
  <1>12. ASSUME NEW p \in Payloads, Deliver(p)
         PROVE  TypeOK'
    <2>1. p \in Payload
      BY GlobalAssumption
    <2> QED
      BY <1>12, <2>1 DEF Deliver
  <1>13. CASE LinkDrop
    BY <1>13 DEF LinkDrop
  <1> QED
    BY <1>1, <1>3, <1>4, <1>5, <1>6, <1>7, <1>8, <1>9, <1>10, <1>11, <1>12, <1>13
       DEF Next, Read

(***************************************************************************)
(* For every peer, every field of the client has its type: in particular   *)
(* every PDU the client logs is one of ClientTypes with a share in Nat.    *)
(***************************************************************************)
THEOREM TypeCorrect == Spec => []TypeOK
  <1>1. Init => TypeOK
    BY DEF Init, TypeOK, ClientState, NoShare
  <1>2. TypeOK /\ [Next]_vars => TypeOK'
    <2>1. ASSUME TypeOK, UNCHANGED vars
          PROVE  TypeOK'
      BY <2>1 DEF TypeOK, vars, clientVars, linkVars
    <2> QED
      BY <2>1, TypePreserved
  <1> QED
    BY <1>1, <1>2, PTL DEF Spec

-----------------------------------------------------------------------------
\* Every step keeps the invariant.
LEMMA Inductive ==
    ASSUME IInv, Next
    PROVE  IInv'
  <1>1. TypeOK /\ TypeOK'
    BY TypePreserved DEF IInv
  <1>2. CASE ReadDemandActivePdu
    <2>1. payload \in Payload /\ payload.pdus[1].share \in Nat
      BY <1>1, <1>2, PayloadReceived, FirstPdu DEF ReadDemandActivePdu
    <2> DEFINE s == payload.pdus[1].share
    <2>2. /\ state = "DemandActivePDU"
          /\ share_id' = s
          /\ Written(Answer(s)) \/ (WriteFailed(Answer(s)) /\ UNCHANGED state)
      BY <1>2 DEF ReadDemandActivePdu
    <2>3. s \in Nat
      BY <2>1
    <2> HIDE DEF s
    <2>4. Answer(s) \in Seq(ClientPDU) /\ Len(Answer(s)) = 5
      BY <2>3, AnswerType
    <2>5. CASE Written(Answer(s))
      <3>1. link = "up" /\ c2s' = c2s \o SubSeq(Answer(s), 1, 5) /\ 5 \in 0 .. 5
        <4>1. SubSeq(Answer(s), 1, 5) = Answer(s)
          BY <2>3, WholeAnswer
        <4>2. link = "up" /\ c2s' = c2s \o Answer(s)
          BY <2>5 DEF Written
        <4>3. c2s' = c2s \o SubSeq(Answer(s), 1, 5)
          BY <4>1, <4>2, Zenon
        <4> QED
          BY <4>2, <4>3
      <3> QED
        BY <1>1, <2>2, <2>3, <3>1, AnswerWritten
    <2>6. CASE WriteFailed(Answer(s)) /\ UNCHANGED state
      <3>1. CASE c2s' = c2s
        BY <1>1, <2>2, <2>6, <3>1, NothingWritten DEF WriteFailed
      <3>2. CASE link = "up" /\ \E k \in 0 .. 4 : c2s' = c2s \o SubSeq(Answer(s), 1, k)
        <4>1. PICK k \in 0 .. 4 : c2s' = c2s \o SubSeq(Answer(s), 1, k)
          BY <3>2
        <4>2. k \in 0 .. 5 /\ state' = "DemandActivePDU"
          BY <2>2, <2>6
        <4> QED
          BY <1>1, <2>3, <3>2, <4>1, <4>2, AnswerWritten
      <3>3. /\ link' = "down"
            /\ \/ c2s' = c2s
               \/ link = "up" /\ \E k \in 0 .. Len(Answer(s)) - 1 :
                                    c2s' = c2s \o SubSeq(Answer(s), 1, k)
        <4>1. Len(Answer(s)) > 0
          BY <2>4
        <4> QED
          BY <1>1, <2>4, <2>6, <4>1, FailedPrefix
      <3>4. Len(Answer(s)) - 1 = 4
        BY <2>4
      <3> QED
        BY <3>1, <3>2, <3>3, <3>4
    <2> QED
      BY <2>2, <2>5, <2>6
  <1>3. CASE ReadSynchronizePdu \/ ReadControlCooperate \/ ReadControlGranted \/ ReadFontMapPdu
    <2>1. state # "DemandActivePDU" /\ UNCHANGED <<share_id, link, c2s>>
      BY <1>3 DEF ReadSynchronizePdu, ReadControlCooperate, ReadControlGranted,
                  ReadFontMapPdu, Advance
    <2> QED
      BY <1>1, <2>1, NothingWritten
  <1>4. CASE ReadUnwanted \/ ReadNotGlobal
    <2>1. UNCHANGED <<state, share_id, link, c2s>>
      BY <1>4 DEF ReadUnwanted, ReadNotGlobal
    <2> QED
      BY <1>1, <2>1, NothingWritten
  <1>5. CASE ReadDataPdu
    <2>1. state # "DemandActivePDU" /\ UNCHANGED <<share_id, link, c2s>>
      BY <1>5 DEF ReadDataPdu
    <2> QED
      BY <1>1, <2>1, NothingWritten
  <1>6. CASE ReadFastPath \/ ReadEof
    <2>1. UNCHANGED <<state, share_id, link, c2s>>
      BY <1>6 DEF ReadFastPath, ReadEof, linkVars
    <2> QED
      BY <1>1, <2>1, NothingWritten
  <1>7. ASSUME Write
        PROVE  IInv'
    <2>1. UNCHANGED <<state, share_id>>
      BY <1>7 DEF Write
    <2>2. CASE state = "Data" /\ Written(Input)
      BY <1>1, <2>1, <2>2, InputWritten DEF Written
    <2>3. CASE WriteFailed(Input)
      <3>1. c2s' = c2s /\ link' = "down"
        BY <1>1, <2>3, InputType, OnePdu
      <3> QED
        BY <1>1, <2>1, <3>1, NothingWritten
    <2>4. CASE UNCHANGED <<link, c2s>>
      BY <1>1, <2>1, <2>4, NothingWritten
    <2> QED
      BY <1>7, <2>2, <2>3, <2>4 DEF Write
  <1>8. CASE TryWrite
    <2>1. CASE UNCHANGED <<state, share_id, server_capabilities, handled, linkVars>>
      BY <1>1, <2>1, NothingWritten DEF linkVars
    <2> QED
      BY <1>7, <1>8, <2>1 DEF TryWrite
  <1>9. CASE Shutdown
    <2>1. UNCHANGED <<state, share_id>>
      BY <1>9 DEF Shutdown
    <2>2. CASE WriteFailed(Ultimatum)
      <3>1. c2s' = c2s /\ link' = "down"
        BY <1>1, <2>2, UltimatumType, OnePdu
      <3> QED
        BY <1>1, <2>1, <3>1, NothingWritten
    <2>3. CASE link = "up" /\ c2s' = c2s \o Ultimatum /\ (link' = IF Tls THEN "down" ELSE "up")
      <3>1. Tls => link' = "down"
        BY <2>3, Zenon
      <3> QED
        BY <1>1, <2>1, <2>3, <3>1, UltimatumWritten
    <2> QED
      BY <1>9, <2>2, <2>3 DEF Shutdown
  <1>10. CASE LinkDrop \/ \E p \in Payloads : Deliver(p)
    <2>1. UNCHANGED <<state, share_id, c2s>> /\ (link = "down" => link' = "down")
      BY <1>10 DEF LinkDrop, Deliver, clientVars
    <2> QED
      BY <1>1, <2>1, NothingWritten
  <1> QED
    BY <1>2, <1>3, <1>4, <1>5, <1>6, <1>7, <1>8, <1>9, <1>10 DEF Next, Read

\* The invariant holds.
LEMMA Invariance == Spec => []IInv
  <1>1. Init => IInv
    BY DEF Init, IInv, TypeOK, ClientState, NoShare, HandshakeOrder, Complete, Closed
  <1>2. IInv /\ [Next]_vars => IInv'
    <2>1. ASSUME IInv, UNCHANGED vars
          PROVE  IInv'
      <3>1. TypeOK' /\ UNCHANGED <<state, share_id, link, c2s>>
        BY <2>1 DEF IInv, TypeOK, vars, clientVars, linkVars
      <3> QED
        BY <2>1, <3>1, NothingWritten
    <2> QED
      BY <2>1, Inductive
  <1> QED
    BY <1>1, <1>2, PTL DEF Spec

(***************************************************************************)
(* The client writes in the order of the protocol, whatever the peer sends *)
(* and wherever the link drops (write_client_finalize, write_input_event). *)
(***************************************************************************)
THEOREM InProtocolOrder == Spec => []HandshakeOrder
  <1>1. IInv => HandshakeOrder
    BY DEF IInv
  <1> QED
    BY <1>1, Invariance, PTL

(***************************************************************************)
(* A client past DemandActivePDU has written the whole answer for its      *)
(* share, and only input or an ultimatum since (read, write_client_finalize*)
(* and the early returns of `?').                                          *)
(***************************************************************************)
THEOREM AnswersAreComplete == Spec => []HandshakeComplete
  <1>1. IInv => HandshakeComplete
    <2> SUFFICES ASSUME IInv, state # "DemandActivePDU"
                 PROVE  \E i \in DOMAIN c2s :
                            /\ i + 4 <= Len(c2s)
                            /\ SubSeq(c2s, i, i + 4) = Answer(share_id)
                            /\ \A j \in i + 5 .. Len(c2s) : c2s[j].type \in {"Input", "Ultimatum"}
      BY DEF HandshakeComplete
    <2>1. PICK i \in Nat \ {0} : CompleteAt(i)
      BY DEF IInv, Complete
    <2>2. c2s \in Seq(ClientPDU) /\ share_id \in Nat
      BY DEF IInv, TypeOK
    <2>3. Len(c2s) \in Nat /\ DOMAIN c2s = 1 .. Len(c2s)
      BY <2>2
    <2>4. i \in DOMAIN c2s /\ i + 4 <= Len(c2s)
      BY <2>1, <2>3 DEF CompleteAt
    <2>5. SubSeq(c2s, i, i + 4) = Answer(share_id)
      <3> DEFINE r == SubSeq(c2s, i, i + 4)
      <3>1. r \in Seq(ClientPDU) /\ Len(r) = 5 /\ \A n \in 1 .. 5 : r[n] = c2s[i + n - 1]
        BY <2>2, <2>3, <2>4
      <3>2. \A n \in 1 .. 5 : c2s[i + n - 1] = Answer(share_id)[n]
        BY <2>1 DEF CompleteAt
      <3>3. Answer(share_id) \in Seq(ClientPDU) /\ Len(Answer(share_id)) = 5
        BY <2>2, AnswerType
      <3> HIDE DEF r
      <3>4. Len(r) = Len(Answer(share_id)) /\ \A n \in 1 .. Len(r) : r[n] = Answer(share_id)[n]
        BY <3>1, <3>2, <3>3
      <3>5. r = Answer(share_id)
        BY <3>1, <3>3, <3>4, SeqEqual
      <3> QED
        BY <3>5 DEF r
    <2>6. \A j \in i + 5 .. Len(c2s) : c2s[j].type \in {"Input", "Ultimatum"}
      <3> SUFFICES ASSUME NEW j \in i + 5 .. Len(c2s)
                   PROVE  c2s[j].type \in {"Input", "Ultimatum"}
        OBVIOUS
      <3>1. j \in DOMAIN c2s /\ j > i + 4
        BY <2>3
      <3>2. c2s[j].type = "Ultimatum" \/ c2s[j] = [type |-> "Input", share |-> share_id]
        BY <2>1, <3>1 DEF CompleteAt
      <3> QED
        BY <3>2
    <2> QED
      BY <2>4, <2>5, <2>6
  <1> QED
    BY <1>1, Invariance, PTL

(***************************************************************************)
(* A TLS client writes nothing after its Disconnect Provider Ultimatum     *)
(* (mcs::Client::shutdown then Link::shutdown).                            *)
(***************************************************************************)
THEOREM ShutdownIsLast == Spec => []SilentAfterShutdown
  <1>1. IInv => SilentAfterShutdown
    BY Zenon DEF IInv, Closed, SilentAfterShutdown
  <1> QED
    BY <1>1, Invariance, PTL

\* Only a read takes a payload off the queue.
LEMMA QueueShorter ==
    ASSUME TypeOK, Received
    PROVE  s2c' # s2c
  <1>1. PICK q \in Seq(Payload) : q = s2c
    BY DEF TypeOK
  <1>2. q # <<>> => Len(Tail(q)) = Len(q) - 1 /\ Len(q) \in Nat
    BY <1>1
  <1>3. q # <<>> => Tail(q) # q
    BY <1>2
  <1> QED
    BY <1>1, <1>3, Zenon DEF Received

\* read_data_pdu moves the state and fails in one way.
LEMMA DataFailures ==
    ASSUME TypeOK, ReadDataPdu
    PROVE  state' # state /\ result' # "Ok" <=>
               DataRead /\ FailsDeactivated(payload.pdus, result')
  <1>1. payload \in Payload
    BY PayloadReceived DEF ReadDataPdu
  <1>2. PICK q \in Seq(ServerPDU) : q = payload.pdus
    BY <1>1 DEF Payload
  <1>3. DOMAIN q \subseteq Nat
    OBVIOUS
  <1>4. /\ DataRead /\ state = "Data"
        /\ state' = IF Deactivates(q) THEN "DemandActivePDU" ELSE "Data"
        /\ \/ \E i \in DOMAIN q : AbortsAt(q, i) /\ result' = ControlError[q[i].type]
           \/ (\A i \in DOMAIN q : ~AbortsAt(q, i)) /\ result' = "Ok"
    BY <1>2, Zenon DEF ReadDataPdu, DataRead
  <1>5. \A t \in DOMAIN ControlError : ControlError[t] # "Ok"
    BY ParseErrors
  <1>6. "DeactivateAll" \notin {"Malformed"} \cup DOMAIN ControlError
    BY DEF ControlError
  <1>7. ASSUME state' # state, result' # "Ok"
        PROVE  FailsDeactivated(q, result')
    <2>1. PICK i \in DOMAIN q : q[i].type = "DeactivateAll" /\ Reaches(q, i)
      BY <1>4, <1>7, Zenon DEF Deactivates
    <2>2. PICK j \in DOMAIN q : AbortsAt(q, j) /\ result' = ControlError[q[j].type]
      BY <1>4, <1>7
    <2>3. i \in Nat /\ j \in Nat /\ i >= 1 /\ j >= 1 /\ q[j].type \in DOMAIN ControlError
      BY <1>3, <2>1, <2>2 DEF AbortsAt
    <2>4. i # j
      BY <1>6, <2>1, <2>3
    <2>5. ~ j < i
      <3> SUFFICES ASSUME j < i PROVE FALSE
        OBVIOUS
      <3>1. j \in 1 .. i - 1
        BY <2>3
      <3> QED
        BY <2>1, <2>3, <3>1 DEF Reaches
    <2>6. i < j
      BY <2>3, <2>4, <2>5
    <2> QED
      BY <2>1, <2>2, <2>3, <2>6 DEF FailsDeactivated, AbortsAt, Reaches
  <1>8. ASSUME FailsDeactivated(q, result')
        PROVE  state' # state /\ result' # "Ok"
    <2>1. PICK i \in DOMAIN q, j \in DOMAIN q :
              /\ i < j /\ q[i].type = "DeactivateAll"
              /\ q[j].type \in DOMAIN ControlError /\ result' = ControlError[q[j].type]
              /\ \A k \in 1 .. j - 1 : q[k].type \notin {"Malformed"} \cup DOMAIN ControlError
      BY <1>8 DEF FailsDeactivated
    <2>2. 1 .. i - 1 \subseteq 1 .. j - 1
      BY <1>3, <2>1
    <2>3. Deactivates(q)
      BY <2>1, <2>2 DEF Deactivates, Reaches
    <2> QED
      BY <1>4, <1>5, <2>1, <2>3
  <1> QED
    BY <1>2, <1>4, <1>7, <1>8

(***************************************************************************)
(* For every peer and every payload, a call that fails moves the state     *)
(* exactly when it reads a payload with a Deactivate All before the first  *)
(* PDU from_control fails on, whatever the failure: the five writes of an  *)
(* answer come before the state moves, and read_data_pdu keeps what the    *)
(* PDUs before the failing one did.                                        *)
(***************************************************************************)
THEOREM FailuresStay == Spec => ErrorsDoNotAdvance
  <1> DEFINE Exactly == state' # state /\ result' # "Ok" <=>
                            DataRead /\ FailsDeactivated(payload.pdus, result')
  <1>1. TypeOK /\ [Next]_vars => [Exactly]_vars
    <2> SUFFICES ASSUME TypeOK, Next PROVE Exactly
      OBVIOUS
    <2>1. CASE ReadDataPdu
      BY <2>1, DataFailures
    <2>2. ASSUME ~(state' # state /\ result' # "Ok"),
                 state # "Data" \/ ~Received \/ payload.kind # "Raw"
          PROVE  Exactly
      BY <2>2 DEF DataRead
    <2>3. CASE ReadDemandActivePdu
      <3>1. state # "Data" /\ ~(state' # state /\ result' # "Ok")
        BY <2>3 DEF ReadDemandActivePdu
      <3> QED
        BY <2>2, <3>1
    <2>4. CASE ReadSynchronizePdu \/ ReadControlCooperate \/ ReadControlGranted \/ ReadFontMapPdu
      <3>1. state # "Data" /\ result' = "Ok"
        BY <2>4 DEF ReadSynchronizePdu, ReadControlCooperate, ReadControlGranted,
                    ReadFontMapPdu, Advance
      <3> QED
        BY <2>2, <3>1
    <2>5. CASE ReadUnwanted \/ ReadNotGlobal \/ ReadFastPath
      <3>1. state' = state /\ (state # "Data" \/ payload.kind # "Raw")
        BY <2>5 DEF ReadUnwanted, ReadNotGlobal, ReadFastPath, SwitchKinds
      <3> QED
        BY <2>2, <3>1
    <2>6. CASE ReadEof \/ Write \/ TryWrite \/ Shutdown \/ LinkDrop
      <3>1. state' = state /\ s2c' = s2c
        BY <2>6 DEF ReadEof, Write, TryWrite, Shutdown, LinkDrop, clientVars, linkVars
      <3> QED
        BY <2>2, <3>1, QueueShorter
    <2>7. ASSUME NEW p \in Payloads, Deliver(p)
          PROVE  Exactly
      <3>1. state' = state /\ s2c' = Append(s2c, p)
        BY <2>7 DEF Deliver, clientVars
      <3>2. ~Received
        <4>1. PICK q \in Seq(Payload) : q = s2c
          BY DEF TypeOK
        <4>2. q # <<>> => Len(Tail(q)) = Len(q) - 1 /\ Len(Append(q, p)) = Len(q) + 1 /\ Len(q) \in Nat
          BY <4>1
        <4> QED
          BY <3>1, <4>1, <4>2 DEF Received
      <3> QED
        BY <2>2, <3>1, <3>2
    <2> QED
      BY <2>1, <2>3, <2>4, <2>5, <2>6, <2>7 DEF Next, Read
  <1> QED
    BY <1>1, TypeCorrect, PTL DEF Spec, ErrorsDoNotAdvance

-----------------------------------------------------------------------------
(***************************************************************************)
(* Demands and confirmations.  Three kinds of steps matter: the log stays, *)
(* it grows by a PDU that confirms nothing, or by a prefix of an answer.   *)
(***************************************************************************)
WritesNothing ==
    /\ UNCHANGED <<server_capabilities, c2s>>
    /\ link = "down" => link' = "down"

WritesOther(m) ==
    /\ link = "up"
    /\ m.type # "ConfirmActive"
    /\ c2s' = c2s \o <<m>>
    /\ UNCHANGED server_capabilities

WritesAnswer(s, k) ==
    /\ server_capabilities' = Append(server_capabilities, s)
    /\ \/ c2s' = c2s /\ link' = "down"
       \/ /\ link = "up"
          /\ c2s' = c2s \o SubSeq(Answer(s), 1, k)
          /\ k = 5 \/ link' = "down"

\* A PDU other than Confirm Active adds no turn.
LEMMA OnePduWritten ==
    ASSUME TypeOK, NEW m \in ClientPDU, m.type # "ConfirmActive", UNCHANGED server_capabilities,
           Written(<<m>>) \/ WriteFailed(<<m>>)
    PROVE  WritesNothing \/ WritesOther(m)
  <1>1. <<m>> \in Seq(ClientPDU) /\ Len(<<m>>) = 1
    OBVIOUS
  <1>2. WriteFailed(<<m>>) => WritesNothing
    BY <1>1, OnePdu DEF WritesNothing
  <1>3. Written(<<m>>) => WritesOther(m)
    BY DEF Written, WritesOther
  <1> QED
    BY <1>2, <1>3

\* A step writes nothing, one other PDU, or an answer in whole or in part.
LEMMA WhatIsWritten ==
    ASSUME TypeOK, Next
    PROVE  \/ WritesNothing
           \/ \E m \in ClientPDU : WritesOther(m)
           \/ \E s \in Nat, k \in 0 .. 5 : WritesAnswer(s, k)
  <1>1. CASE ReadDemandActivePdu
    <2>1. payload \in Payload /\ payload.pdus[1].share \in Nat
      BY <1>1, PayloadReceived, FirstPdu DEF ReadDemandActivePdu
    <2>2. PICK s \in Nat : s = payload.pdus[1].share
      BY <2>1
    <2>3. /\ server_capabilities' = Append(server_capabilities, s)
          /\ Written(Answer(s)) \/ WriteFailed(Answer(s))
      BY <1>1, <2>2 DEF ReadDemandActivePdu
    <2>4. CASE Written(Answer(s))
      <3>1. SubSeq(Answer(s), 1, 5) = Answer(s) /\ 5 \in 0 .. 5
        BY WholeAnswer
      <3> QED
        BY <2>3, <2>4, <3>1 DEF WritesAnswer, Written
    <2>5. CASE WriteFailed(Answer(s))
      <3>1. PICK q \in Seq(ClientPDU) : q = Answer(s) /\ Len(q) = 5
        BY AnswerType
      <3>2. q \in Seq(ClientPDU) /\ q = Answer(s) /\ Len(q) = 5 /\ Len(q) > 0
        BY <3>1
      <3>3. /\ link' = "down"
            /\ \/ c2s' = c2s
               \/ link = "up" /\ \E k \in 0 .. Len(q) - 1 : c2s' = c2s \o SubSeq(q, 1, k)
        BY <2>5, <3>2, FailedPrefix
      <3>4. ASSUME NEW k \in 0 .. Len(q) - 1, link = "up", c2s' = c2s \o SubSeq(q, 1, k)
            PROVE  \E n \in 0 .. 5 : WritesAnswer(s, n)
        <4>1. k \in 0 .. 5 /\ q = Answer(s)
          BY <3>2
        <4> QED
          BY <2>3, <3>3, <3>4, <4>1 DEF WritesAnswer
      <3>5. (c2s' = c2s => WritesAnswer(s, 0)) /\ 0 \in 0 .. 5
        BY <2>3, <3>3 DEF WritesAnswer
      <3> QED
        BY <3>3, <3>4, <3>5
    <2> QED
      BY <2>3, <2>4, <2>5
  <1>2. CASE ReadSynchronizePdu \/ ReadControlCooperate \/ ReadControlGranted \/ ReadFontMapPdu
    BY <1>2 DEF WritesNothing, ReadSynchronizePdu, ReadControlCooperate, ReadControlGranted,
                ReadFontMapPdu, Advance
  <1>3. CASE ReadUnwanted \/ ReadDataPdu \/ ReadFastPath \/ ReadNotGlobal \/ ReadEof
    BY <1>3 DEF WritesNothing, ReadUnwanted, ReadDataPdu, ReadFastPath, ReadNotGlobal, ReadEof, linkVars
  <1>4. ASSUME Write
        PROVE  WritesNothing \/ \E m \in ClientPDU : WritesOther(m)
    <2>1. CASE state = "Data"
      <3>1. PICK m : m = [type |-> "Input", share |-> share_id]
        OBVIOUS
      <3>2. m \in ClientPDU /\ m.type # "ConfirmActive"
        BY <3>1 DEF TypeOK, ClientPDU, ClientTypes
      <3>3. Written(<<m>>) \/ WriteFailed(<<m>>)
        BY <1>4, <2>1, <3>1 DEF Write, Input
      <3>4. UNCHANGED server_capabilities
        BY <1>4 DEF Write
      <3> QED
        BY <3>2, <3>3, <3>4, OnePduWritten
    <2>2. CASE state # "Data"
      BY <1>4, <2>2 DEF Write, WritesNothing
    <2> QED
      BY <2>1, <2>2
  <1>5. CASE TryWrite
    BY <1>4, <1>5 DEF TryWrite, WritesNothing, linkVars
  <1>6. CASE Shutdown
    <2>1. PICK m : m = [type |-> "Ultimatum", share |-> NoShare]
      OBVIOUS
    <2>2. m \in ClientPDU /\ m.type # "ConfirmActive" /\ Ultimatum = <<m>>
      BY <2>1 DEF NoShare, ClientPDU, ClientTypes, Ultimatum
    <2>3. /\ UNCHANGED server_capabilities
          /\ WriteFailed(<<m>>) \/ (link = "up" /\ c2s' = c2s \o <<m>>)
      BY <1>6, <2>2 DEF Shutdown
    <2> QED
      BY <2>2, <2>3, OnePduWritten DEF WritesOther
  <1>7. CASE (\E p \in Payloads : Deliver(p)) \/ LinkDrop
    BY <1>7 DEF Deliver, LinkDrop, WritesNothing, clientVars
  <1> QED
    BY <1>1, <1>2, <1>3, <1>4, <1>5, <1>6, <1>7 DEF Next, Read

\* The confirmations up to a place do not change when the log grows.
LEMMA TurnsStay ==
    ASSUME TypeOK, TypeOK', NEW q \in Seq(ClientPDU), c2s' = c2s \o q
    PROVE  /\ \A i \in DOMAIN c2s : c2s'[i] = c2s[i] /\ Turn(i)' = Turn(i)
           /\ \A i \in Confirms' : i \in Confirms \/ \E k \in DOMAIN q : i = Len(c2s) + k
           /\ \A k \in DOMAIN q : c2s'[Len(c2s) + k] = q[k]
           /\ Confirms \subseteq Confirms'
           /\ DOMAIN c2s = 1 .. Len(c2s) /\ DOMAIN c2s' = 1 .. Len(c2s) + Len(q)
           /\ DOMAIN q = 1 .. Len(q) /\ Len(q) \in Nat /\ Len(c2s) \in Nat
  <1>1. c2s \in Seq(ClientPDU) /\ c2s' \in Seq(ClientPDU)
    BY DEF TypeOK
  <1>2. /\ DOMAIN c2s = 1 .. Len(c2s) /\ DOMAIN c2s' = 1 .. Len(c2s) + Len(q)
        /\ DOMAIN q = 1 .. Len(q) /\ Len(q) \in Nat /\ Len(c2s) \in Nat
        /\ \A i \in DOMAIN c2s : c2s'[i] = c2s[i]
        /\ \A k \in DOMAIN q : c2s'[Len(c2s) + k] = q[k]
    BY <1>1
  <1>3. Confirms \subseteq Confirms'
    BY <1>2 DEF Confirms
  <1>4. ASSUME NEW i \in DOMAIN c2s
        PROVE  Turn(i)' = Turn(i)
    <2>1. {j \in Confirms' : j <= i} = {j \in Confirms : j <= i}
      <3>1. ASSUME NEW j \in Confirms', j <= i
            PROVE  j \in Confirms
        BY <1>2, <3>1 DEF Confirms
      <3> QED
        BY <1>3, <3>1
    <2> QED
      BY <2>1 DEF Turn
  <1>5. ASSUME NEW i \in Confirms', i \notin Confirms
        PROVE  \E k \in DOMAIN q : i = Len(c2s) + k
    <2>1. i \in 1 .. Len(c2s) + Len(q) /\ i \notin 1 .. Len(c2s)
      BY <1>2, <1>5 DEF Confirms
    <2>2. i - Len(c2s) \in 1 .. Len(q) /\ i = Len(c2s) + (i - Len(c2s))
      BY <1>2, <2>1
    <2> QED
      BY <1>2, <2>2
  <1> QED
    BY <1>2, <1>3, <1>4, <1>5

\* The Confirm Actives of the log, and their turns.
LEMMA ConfirmsFinite ==
    ASSUME TypeOK
    PROVE  /\ IsFiniteSet(Confirms) /\ Cardinality(Confirms) \in Nat
           /\ \A i \in Confirms : i \in DOMAIN c2s /\ Turn(i) \in Nat /\ Turn(i) >= 1
  <1>1. Len(c2s) \in Nat /\ DOMAIN c2s = 1 .. Len(c2s)
    BY DEF TypeOK
  <1>2. IsFiniteSet(1 .. Len(c2s)) /\ Confirms \subseteq 1 .. Len(c2s)
    BY <1>1, FS_Interval DEF Confirms
  <1>3. IsFiniteSet(Confirms)
    BY <1>2, FS_Subset
  <1>4. ASSUME NEW i \in Confirms
        PROVE  i \in DOMAIN c2s /\ Turn(i) \in Nat /\ Turn(i) >= 1
    <2>1. i \in {j \in Confirms : j <= i} /\ {j \in Confirms : j <= i} \subseteq Confirms
      BY <1>1, <1>2
    <2>2. IsFiniteSet({j \in Confirms : j <= i})
      BY <1>3, <2>1, FS_Subset
    <2>3. Cardinality({j \in Confirms : j <= i}) \in Nat
      BY <2>2, FS_CardinalityType
    <2>4. Cardinality({j \in Confirms : j <= i}) # 0
      BY <2>1, <2>2, FS_EmptySet
    <2> QED
      BY <1>1, <1>2, <2>3, <2>4 DEF Turn
  <1> QED
    BY <1>3, <1>4, FS_CardinalityType

\* The first k elements of a sequence.
LEMMA FirstElements ==
    ASSUME NEW S, NEW a \in Seq(S), NEW k \in 0 .. Len(a)
    PROVE  /\ SubSeq(a, 1, k) \in Seq(S) /\ Len(SubSeq(a, 1, k)) = k
           /\ \A j \in 1 .. k : SubSeq(a, 1, k)[j] = a[j]
  <1>1. \A i \in 1 .. k : a[i] \in S
    OBVIOUS
  <1>2. k - 1 + 1 = k /\ (1 <= k => k - 1 + 1 = k) /\ (~(1 <= k) => k = 0)
    OBVIOUS
  <1>3. Len(SubSeq(a, 1, k)) = IF 1 <= k THEN k - 1 + 1 ELSE 0
    BY <1>1, SubSeqProperties
  <1>4. SubSeq(a, 1, k) \in Seq(S)
    BY <1>1, SubSeqProperties
  <1>5. \A j \in 1 .. k - 1 + 1 : SubSeq(a, 1, k)[j] = a[1 + j - 1]
    BY <1>1, SubSeqProperties
  <1>6. \A j \in 1 .. k : 1 + j - 1 = j
    OBVIOUS
  <1> QED
    BY <1>2, <1>3, <1>4, <1>5, <1>6

\* Every step keeps DemandsAnswered.
LEMMA DemandsStep ==
    ASSUME TypeOK, TypeOK', DemandsAnswered, Next
    PROVE  DemandsAnswered'
  <1>1. /\ server_capabilities \in Seq(Nat) /\ c2s \in Seq(ClientPDU)
        /\ link \in {"up", "down"} /\ link' \in {"up", "down"}
    BY DEF TypeOK
  <1>2. CASE WritesNothing
    <2>1. /\ Confirms' = Confirms /\ \A i : Turn(i)' = Turn(i)
          /\ UNCHANGED <<c2s, server_capabilities>> /\ (link' = "up" => link = "up")
      BY <1>1, <1>2 DEF WritesNothing, Confirms, Turn
    <2> QED
      BY <2>1 DEF DemandsAnswered
  <1>3. ASSUME NEW m \in ClientPDU, WritesOther(m)
        PROVE  DemandsAnswered'
    <2>1. <<m>> \in Seq(ClientPDU) /\ DOMAIN <<m>> = {1} /\ <<m>>[1] = m
      OBVIOUS
    <2>2. c2s' = c2s \o <<m>> /\ link = "up" /\ server_capabilities' = server_capabilities
      BY <1>3 DEF WritesOther
    <2>3. Confirms' = Confirms
      <3>1. ASSUME NEW i \in Confirms', i \notin Confirms
            PROVE  FALSE
        <4>1. PICK k \in DOMAIN <<m>> : i = Len(c2s) + k
          BY <2>1, <2>2, <3>1, TurnsStay
        <4>2. c2s'[i] = m
          <5>1. c2s'[Len(c2s) + k] = <<m>>[k] /\ k = 1
            BY <2>1, <2>2, <4>1, TurnsStay
          <5> QED
            BY <4>1, <5>1
        <4> QED
          BY <1>3, <4>2 DEF Confirms, WritesOther
      <3> QED
        BY <2>1, <2>2, <3>1, TurnsStay
    <2>4. \A i \in Confirms : i \in DOMAIN c2s /\ c2s'[i] = c2s[i] /\ Turn(i)' = Turn(i)
      BY <2>1, <2>2, TurnsStay, ConfirmsFinite
    <2> QED
      BY <2>2, <2>3, <2>4 DEF DemandsAnswered
  <1>4. ASSUME NEW s \in Nat, NEW k \in 0 .. 5, WritesAnswer(s, k)
        PROVE  DemandsAnswered'
    <2>1. server_capabilities' = Append(server_capabilities, s)
      BY <1>4 DEF WritesAnswer
    <2>2. /\ Len(server_capabilities) \in Nat
          /\ Len(server_capabilities') = Len(server_capabilities) + 1
          /\ \A n \in 1 .. Len(server_capabilities) :
                server_capabilities'[n] = server_capabilities[n]
          /\ server_capabilities'[Len(server_capabilities) + 1] = s
      BY <1>1, <2>1
    <2>3. ASSUME NEW i \in Confirms, c2s'[i] = c2s[i], Turn(i)' = Turn(i)
          PROVE  /\ Turn(i)' <= Len(server_capabilities')
                 /\ c2s'[i].share = server_capabilities'[Turn(i)']
      <3>1. /\ Turn(i) \in Nat /\ Turn(i) >= 1 /\ Turn(i) <= Len(server_capabilities)
            /\ c2s[i].share = server_capabilities[Turn(i)]
        BY ConfirmsFinite DEF DemandsAnswered
      <3> QED
        BY <2>2, <2>3, <3>1
    <2>4. CASE c2s' = c2s /\ link' = "down"
      <3>1. Confirms' = Confirms /\ \A i : Turn(i)' = Turn(i)
        BY <2>4 DEF Confirms, Turn
      <3> QED
        BY <2>3, <2>4, <3>1 DEF DemandsAnswered
    <2>5. CASE link = "up" /\ c2s' = c2s \o SubSeq(Answer(s), 1, k) /\ (k = 5 \/ link' = "down")
      <3>1. PICK q : q = SubSeq(Answer(s), 1, k)
        OBVIOUS
      <3>2. /\ q \in Seq(ClientPDU) /\ Len(q) = k /\ DOMAIN q = 1 .. k
            /\ \A j \in 1 .. k : q[j] = Answer(s)[j]
        <4>1. PICK a \in Seq(ClientPDU) : a = Answer(s) /\ Len(a) = 5
          BY AnswerType
        <4>2. k \in 0 .. Len(a)
          BY <4>1
        <4>3. q = SubSeq(a, 1, k)
          BY <3>1, <4>1
        <4>4. /\ q \in Seq(ClientPDU) /\ Len(q) = k
              /\ \A j \in 1 .. k : q[j] = a[j]
          BY <4>1, <4>2, <4>3, FirstElements
        <4> QED
          BY <4>1, <4>4
      <3>3. /\ \A j \in 1 .. 5 : Answer(s)[j].share = s
            /\ Answer(s)[1].type = "ConfirmActive"
            /\ \A j \in 2 .. 5 : Answer(s)[j].type # "ConfirmActive"
        <4>1. \A j \in 2 .. 5 : j = 2 \/ j = 3 \/ j = 4 \/ j = 5
          OBVIOUS
        <4>2. /\ Answer(s)[2].type # "ConfirmActive" /\ Answer(s)[3].type # "ConfirmActive"
              /\ Answer(s)[4].type # "ConfirmActive" /\ Answer(s)[5].type # "ConfirmActive"
          BY DEF Answer
        <4> QED
          BY <4>1, <4>2, AnswerInOrder
      <3>4. c2s' = c2s \o q
        BY <2>5, <3>1
      <3>5. \A i \in Confirms : i \in DOMAIN c2s /\ c2s'[i] = c2s[i] /\ Turn(i)' = Turn(i)
        BY <3>2, <3>4, TurnsStay, ConfirmsFinite
      <3>6. ASSUME NEW i \in Confirms', i \notin Confirms
            PROVE  i = Len(c2s) + 1 /\ k >= 1
        <4>1. PICK j \in 1 .. k : i = Len(c2s) + j /\ c2s'[i] = q[j]
          BY <3>2, <3>4, <3>6, TurnsStay
        <4>2. q[j].type = "ConfirmActive" /\ j \in 1 .. 5
          BY <4>1 DEF Confirms
        <4>3. j = 1
          BY <3>2, <3>3, <4>2
        <4> QED
          BY <4>1, <4>3
      <3>7. CASE k = 0
        <4>1. Confirms' = Confirms
          <5>1. ~ k >= 1
            BY <3>7
          <5>2. Confirms \subseteq Confirms'
            BY <3>2, <3>4, TurnsStay
          <5> QED
            BY <3>6, <5>1, <5>2
        <4>2. link' # "up"
          BY <2>5, <3>7
        <4> QED
          BY <2>3, <3>5, <4>1, <4>2 DEF DemandsAnswered
      <3>8. CASE k >= 1
        <4>1. PICK n \in Nat : n = Len(c2s) + 1
          BY <1>1
        <4>2. n \in DOMAIN c2s' /\ c2s'[n] = Answer(s)[1] /\ n \notin Confirms
          <5>1. 1 \in DOMAIN q /\ q[1] = Answer(s)[1]
            BY <3>2, <3>8
          <5> QED
            BY <3>2, <3>4, <3>8, <4>1, <5>1, TurnsStay DEF Confirms
        <4>3. Confirms' = Confirms \cup {n}
          <5>1. n \in Confirms'
            BY <3>3, <4>2 DEF Confirms
          <5> QED
            BY <3>2, <3>4, <3>6, <4>1, <5>1, TurnsStay
        <4>4. Cardinality(Confirms') = Len(server_capabilities) + 1
          <5>1. Cardinality(Confirms \cup {n}) = Cardinality(Confirms) + 1
            BY <4>2, ConfirmsFinite, FS_AddElement
          <5> QED
            BY <2>5, <4>3, <5>1 DEF DemandsAnswered
        <4>5. Turn(n)' = Len(server_capabilities) + 1
          <5>1. \A j \in Confirms' : j <= n
            BY <1>1, <4>1, <4>3, ConfirmsFinite
          <5>2. {j \in Confirms' : j <= n} = Confirms'
            BY <5>1
          <5> QED
            BY <4>4, <5>2 DEF Turn
        <4>6. /\ Turn(n)' <= Len(server_capabilities')
              /\ c2s'[n].share = server_capabilities'[Turn(n)']
          BY <2>2, <3>3, <4>2, <4>5
        <4>7. \A i \in Confirms' : /\ Turn(i)' <= Len(server_capabilities')
                                   /\ c2s'[i].share = server_capabilities'[Turn(i)']
          BY <2>3, <3>5, <4>3, <4>6
        <4> QED
          BY <2>2, <4>4, <4>7 DEF DemandsAnswered
      <3> QED
        BY <3>7, <3>8
    <2> QED
      BY <1>4, <2>4, <2>5 DEF WritesAnswer
  <1> QED
    BY <1>2, <1>3, <1>4, WhatIsWritten

(***************************************************************************)
(* For every peer, each Confirm Active answers a demand of its own: the    *)
(* n-th one carries the share of the n-th Demand Active that was read, and *)
(* none is missing while the link is up (read_demand_active_pdu sets       *)
(* share_id and pushes the capabilities before it writes).                 *)
(***************************************************************************)
THEOREM EveryDemandAnswered == Spec => []DemandsAnswered
  <1>1. Init => DemandsAnswered
    <2> SUFFICES ASSUME Init PROVE DemandsAnswered
      OBVIOUS
    <2>1. Confirms = {}
      BY DEF Init, Confirms
    <2> QED
      BY <2>1, FS_EmptySet DEF Init, DemandsAnswered
  <1>2. TypeOK /\ TypeOK' /\ DemandsAnswered /\ [Next]_vars => DemandsAnswered'
    <2>1. ASSUME TypeOK, TypeOK', DemandsAnswered, UNCHANGED vars
          PROVE  DemandsAnswered'
      <3>1. UNCHANGED <<server_capabilities, c2s, link>>
        BY <2>1 DEF vars, clientVars, linkVars
      <3>2. Confirms' = Confirms /\ \A i : Turn(i)' = Turn(i)
        BY <3>1 DEF Confirms, Turn
      <3> QED
        BY <2>1, <3>1, <3>2 DEF DemandsAnswered
    <2> QED
      BY <2>1, DemandsStep
  <1> QED
    BY <1>1, <1>2, TypeCorrect, PTL DEF Spec
=============================================================================
