--------------------------- MODULE OrderlyProofs ---------------------------
(***************************************************************************)
(* What the sequence of PDUs between client and server comes to: a         *)
(* handover of shares with an orderly or a coalescing server, and with an  *)
(* orderly one a walk through the same places, without a surprise and      *)
(* without a loss.                                                         *)
(***************************************************************************)
EXTENDS SessionProofs

-----------------------------------------------------------------------------
(***************************************************************************)
(* With a server that is not unruly the session implements Activation:     *)
(* step by step, the sequence of PDUs that global.rs and the server        *)
(* exchange is a handover of shares, each opened, entered, closed and left *)
(* before the next is opened.                                              *)
(*                                                                         *)
(* Handed: what server and client leave behind them.  A client that waits  *)
(* for a Demand Active PDU after a complete answer has seen the share      *)
(* closed; a server that is not unruly has had the font list of every      *)
(* share it has opened.                                                    *)
(***************************************************************************)
HasAnswered(s) == \E i \in DOMAIN c2s : c2s[i] = FontList(s)

Left ==
    state = "DemandActivePDU" /\ share_id = offered /\ HasAnswered(share_id) =>
        phase = "Idle"

Completed ==
    ~Unruly =>
        \A s \in 1 .. offered :
            s < offered \/ phase \in {"Active", "Idle"} => HasAnswered(s)

Handed == Left /\ Completed

\* A font list of a share, by its fields or whole.
LEMMA FontListIn ==
    ASSUME NEW q \in Seq(ClientPDU), NEW s
    PROVE  (\E i \in DOMAIN q : q[i].type = "FontList" /\ q[i].share = s)
               <=> (\E i \in DOMAIN q : q[i] = FontList(s))
  <1>1. ASSUME NEW i \in DOMAIN q
        PROVE  q[i].type = "FontList" /\ q[i].share = s <=> q[i] = FontList(s)
    <2>1. q[i] \in ClientPDU
      BY <1>1
    <2> QED
      BY <2>1 DEF ClientPDU, FontList
  <1> QED
    BY <1>1

\* The client has answered in full, or not, by its log.
LEMMA FontLists ==
    ASSUME Base, Log
    PROVE  /\ share_id \in Nat /\ offered \in Nat /\ share_id <= offered
           /\ Answered <=> HasAnswered(share_id)
           /\ \A s \in Nat : HasAnswered(s) => s <= share_id
  <1>1. /\ c2s \in Seq(ClientPDU) /\ share_id \in Nat /\ offered \in Nat /\ share_id <= offered
    BY LogShares DEF Base, Flow, Typed, IInv, TypeOK
  <1>3. Answered <=> HasAnswered(share_id)
    BY <1>1, FontListIn DEF Answered, HasAnswered
  <1>4. ASSUME NEW s \in Nat, HasAnswered(s)
        PROVE  s <= share_id
    <2>1. PICK i \in DOMAIN c2s : c2s[i] = FontList(s)
      BY <1>4 DEF HasAnswered
    <2>2. c2s[i].share = s
      BY <2>1 DEF FontList
    <2> QED
      BY <2>2 DEF Log, Past
  <1> QED
    BY <1>1, <1>3, <1>4

\* A client is at most one share behind, and never behind an open one.
LEMMA Behind ==
    ASSUME Base, Log, Handed, ~Unruly
    PROVE  /\ offered > 0 => offered - 1 <= share_id
           /\ phase \in {"Active", "Idle"} => share_id = offered
  <1>1. /\ share_id \in Nat /\ offered \in Nat /\ share_id <= offered
        /\ \A s \in Nat : HasAnswered(s) => s <= share_id
    BY FontLists
  <1>2. \A s \in 1 .. offered :
            s < offered \/ phase \in {"Active", "Idle"} => HasAnswered(s)
    BY DEF Handed, Completed
  <1>3. ASSUME offered > 1
        PROVE  offered - 1 <= share_id
    <2>1. offered - 1 \in 1 .. offered /\ offered - 1 < offered /\ offered - 1 \in Nat
      BY <1>1, <1>3
    <2>2. HasAnswered(offered - 1)
      BY <1>2, <2>1
    <2> QED
      BY <1>1, <2>1, <2>2
  <1>4. ASSUME phase \in {"Active", "Idle"}, offered > 0
        PROVE  share_id = offered
    <2>1. offered \in 1 .. offered
      BY <1>1, <1>4
    <2>2. HasAnswered(offered)
      BY <1>2, <1>4, <2>1
    <2> QED
      BY <1>1, <2>2
  <1> QED
    BY <1>1, <1>3, <1>4

-----------------------------------------------------------------------------
\* Only a complete answer adds a font list to what the client has written.
LEMMA NewFontList ==
    ASSUME Base, Base', Log, Answers \/ Takes \/ Writes
    PROVE  /\ \A s \in Nat : HasAnswered(s) => HasAnswered(s)'
           /\ ~Answers => \A s \in Nat : HasAnswered(s)' => HasAnswered(s)
           /\ Answers /\ state' = "DemandActivePDU" => ~HasAnswered(share_id)'
  <1>1. /\ TypeOK /\ TypeOK' /\ Typed /\ share_id \in Nat /\ share_id' \in Nat
        /\ c2s \in Seq(ClientPDU)
    BY DEF Base, Typed, IInv, TypeOK
  <1>2. /\ DOMAIN c2s = 1 .. Len(c2s) /\ DOMAIN c2s' = 1 .. Len(c2s') /\ Len(c2s) \in Nat
        /\ \A i \in DOMAIN c2s : i \in DOMAIN c2s' /\ c2s'[i] = c2s[i]
    BY <1>1, LogKeeps
  <1>3. \A s \in Nat : HasAnswered(s) => HasAnswered(s)'
    BY <1>2 DEF HasAnswered, FontList
  <1>4. \A s : FontList(s).type = "FontList" /\ FontList(s).share = s
    BY DEF FontList
  <1>5. ASSUME NEW m, c2s' = c2s \o <<m>>, m.type # "FontList", NEW s \in Nat, HasAnswered(s)'
        PROVE  HasAnswered(s)
    <2>1. PICK i \in DOMAIN c2s' : c2s'[i] = FontList(s)
      BY <1>5 DEF HasAnswered, FontList
    <2>2. Len(c2s') = Len(c2s) + 1 /\ c2s'[Len(c2s) + 1] = m
      BY <1>1, <1>5
    <2>3. i # Len(c2s) + 1
      BY <1>4, <1>5, <2>1, <2>2
    <2>4. i \in DOMAIN c2s
      BY <1>2, <2>2, <2>3
    <2> QED
      BY <1>2, <2>1, <2>4 DEF HasAnswered
  <1>6. ASSUME ~Answers, NEW s \in Nat, HasAnswered(s)'
        PROVE  HasAnswered(s)
    <2>1. CASE c2s' = c2s
      BY <1>6, <2>1 DEF HasAnswered, FontList
    <2>2. CASE c2s' = c2s \o Input
      <3>1. PICK m : m = [type |-> "Input", share |-> share_id]
        OBVIOUS
      <3>2. c2s' = c2s \o <<m>> /\ m.type # "FontList"
        BY <2>2, <3>1 DEF Input
      <3> QED
        BY <1>5, <1>6, <3>2
    <2>3. CASE c2s' = c2s \o Ultimatum
      <3>1. PICK m : m = [type |-> "Ultimatum", share |-> NoShare]
        OBVIOUS
      <3>2. c2s' = c2s \o <<m>> /\ m.type # "FontList"
        BY <2>3, <3>1 DEF Ultimatum
      <3> QED
        BY <1>5, <1>6, <3>2
    <2> QED
      BY <1>6, <2>1, <2>2, <2>3 DEF Takes, Writes
  <1>7. ASSUME Answers, state' = "DemandActivePDU", HasAnswered(share_id)'
        PROVE  FALSE
    <2>1. share_id < share_id'
      BY <1>1, <1>7, Demanded DEF Base, Flow
    <2>2. PICK k \in 0 .. 5 :
              /\ c2s' = c2s \o SubSeq(Answer(share_id'), 1, k)
              /\ k < 5
      BY <1>7 DEF Answers
    <2>3. PICK i \in DOMAIN c2s' : c2s'[i] = FontList(share_id')
      BY <1>7 DEF HasAnswered, FontList
    <2>4. CASE i \in DOMAIN c2s
      <3>1. c2s[i].share = share_id' /\ c2s[i].share <= share_id
        BY <1>2, <1>4, <2>3, <2>4 DEF Log, Past
      <3> QED
        BY <1>1, <2>1, <3>1
    <2>5. CASE i \notin DOMAIN c2s
      <3>1. Answer(share_id') \in Seq(ClientPDU) /\ Len(Answer(share_id')) = 5
        BY <1>1, AnswerType
      <3>2. Len(c2s') = Len(c2s) + k /\ \A j \in 1 .. k : c2s'[Len(c2s) + j] = Answer(share_id')[j]
        <4>1. k \in 0 .. Len(Answer(share_id'))
          BY <3>1
        <4> QED
          BY <1>1, <2>2, <3>1, <4>1, Prefix
      <3>3. i - Len(c2s) \in 1 .. k /\ i = Len(c2s) + (i - Len(c2s)) /\ i - Len(c2s) \in 1 .. 4
        BY <1>2, <2>2, <2>5, <3>2
      <3>4. Answer(share_id')[i - Len(c2s)] = FontList(share_id')
        BY <2>3, <3>2, <3>3
      <3>5. Answer(share_id')[i - Len(c2s)].type # "FontList"
        <4>1. /\ Answer(share_id')[1] = ConfirmActive(share_id')
              /\ Answer(share_id')[2] = [type |-> "Synchronize", share |-> share_id']
              /\ Answer(share_id')[3] = [type |-> "Cooperate", share |-> share_id']
              /\ Answer(share_id')[4] = RequestControl(share_id')
          BY <1>1, AnswerElements
        <4>2. i - Len(c2s) = 1 \/ i - Len(c2s) = 2 \/ i - Len(c2s) = 3 \/ i - Len(c2s) = 4
          BY <3>3
        <4> QED
          BY <4>1, <4>2 DEF ConfirmActive, RequestControl
      <3> QED
        BY <1>4, <3>4, <3>5
    <2> QED
      BY <2>4, <2>5
  <1> QED
    BY <1>3, <1>6, <1>7

\* The PDUs of the payload that is read next are among the unread ones.
LEMMA HeadUnread ==
    ASSUME Typed, s2c # <<>>
    PROVE  \A j \in DOMAIN Head(s2c).pdus : Head(s2c).pdus[j] \in Unread
  <1>1. s2c \in Seq(Payload) /\ outbox \in Seq(ServerPDU)
    BY DEF Typed, IInv, TypeOK, SessionTypeOK
  <1>2. 1 \in DOMAIN s2c /\ Head(s2c) = s2c[1]
    BY <1>1
  <1>3. s2c[1].pdus \in Seq(ServerPDU) /\ TypeOK
    BY <1>1, <1>2, UnreadHas DEF Typed, IInv
  <1>4. \A j \in DOMAIN s2c[1].pdus : j \in Nat
    BY <1>3
  <1> QED
    BY <1>1, <1>2, <1>3, <1>4, UnreadHas

\* The client keeps Handed.
LEMMA HandedClient ==
    ASSUME Base, Base', Log, Handed, Answers \/ Takes \/ Writes, UNCHANGED srvVars
    PROVE  Handed'
  <1>1. /\ UNCHANGED <<phase, offered, manners>>
        /\ TypeOK /\ share_id \in Nat /\ share_id' \in Nat /\ offered \in Nat
    BY FontLists DEF srvVars, Base, Typed, IInv, TypeOK
  <1>2. /\ \A s \in Nat : HasAnswered(s) => HasAnswered(s)'
        /\ ~Answers => \A s \in Nat : HasAnswered(s)' => HasAnswered(s)
        /\ Answers /\ state' = "DemandActivePDU" => ~HasAnswered(share_id)'
    BY NewFontList
  <1>3. Completed'
    <2>1. \A s \in 1 .. offered : s \in Nat
      BY <1>1
    <2>2. Unruly' = Unruly
      BY <1>1 DEF Unruly
    <2>3. ~Unruly =>
              \A s \in 1 .. offered :
                  s < offered \/ phase \in {"Active", "Idle"} => HasAnswered(s)'
      BY <1>2, <2>1 DEF Handed, Completed
    <2> QED
      BY <1>1, <2>2, <2>3 DEF Completed, HasAnswered, FontList
  <1>4. Left'
    <2> SUFFICES ASSUME state' = "DemandActivePDU", share_id' = offered, HasAnswered(share_id)'
                 PROVE  phase = "Idle"
      BY <1>1 DEF Left
    <2>1. ~Answers /\ share_id' = share_id
      BY <1>2 DEF Takes, Writes
    <2>2. HasAnswered(share_id)
      <3>1. HasAnswered(offered)'
        BY <1>1, <2>1 DEF HasAnswered, FontList
      <3>2. HasAnswered(offered)
        BY <1>1, <1>2, <2>1, <3>1 DEF HasAnswered, FontList
      <3> QED
        BY <2>1, <3>2
    <2>3. CASE state = "DemandActivePDU"
      BY <2>1, <2>2, <2>3 DEF Handed, Left
    <2>4. CASE state # "DemandActivePDU"
      <3>1. /\ Takes /\ state = "Data"
            /\ \E j \in DOMAIN Head(s2c).pdus : Head(s2c).pdus[j].type = "DeactivateAll"
        BY <2>1, <2>4 DEF Takes, Writes, ReadSynchronizePdu, ReadControlCooperate,
                          ReadControlGranted, ReadFontMapPdu, Advance
      <3>2. PICK j \in DOMAIN Head(s2c).pdus : Head(s2c).pdus[j].type = "DeactivateAll"
        BY <3>1
      <3>3. PICK m : m = Head(s2c).pdus[j]
        OBVIOUS
      <3>4. m \in Unread
        BY <1>1, <3>1, <3>3, HeadUnread DEF Takes, Base
      <3>5. Known(m) /\ m.share \in Nat
        BY <3>4 DEF Base, Flow, AllKnown, Unread, ServerPDU
      <3>6. m.share = offered /\ m.type = "DeactivateAll"
        BY <1>1, <2>1, <2>4, <3>2, <3>3, <3>5 DEF Known
      <3> QED
        BY <3>5, <3>6 DEF Known
    <2> QED
      BY <2>3, <2>4
  <1> QED
    BY <1>3, <1>4 DEF Handed

\* So does the server.
LEMMA HandedServer ==
    ASSUME Base, Base', Log, Heard, Handed, ServerStep
    PROVE  Handed'
  <1>1. /\ SessionTypeOK /\ UNCHANGED <<state, share_id, c2s, manners>>
        /\ share_id \in Nat /\ offered \in Nat /\ share_id <= offered
    BY ServerType, FontLists DEF Base, Typed
  <1>2. \A s : HasAnswered(s)' <=> HasAnswered(s)
    BY <1>1 DEF HasAnswered, FontList
  <1>3. Unruly' = Unruly /\ HasAnswered(share_id)' = HasAnswered(share_id)
    BY <1>1 DEF Unruly, HasAnswered, FontList
  <1>4. CASE UNCHANGED <<phase, offered>>
    <2>1. Left'
      BY <1>1, <1>3, <1>4 DEF Handed, Left
    <2>2. Completed'
      BY <1>1, <1>2, <1>3, <1>4 DEF Handed, Completed, HasAnswered, FontList
    <2> QED
      BY <2>1, <2>2 DEF Handed
  <1>5. CASE SrvDemand
    <2>1. phase = "Idle" /\ phase' = "Demanded" /\ offered' = offered + 1
      BY <1>5 DEF SrvDemand
    <2>2. Left'
      BY <1>1, <2>1 DEF Left
    <2>3. Completed'
      <3> SUFFICES ASSUME ~Unruly, NEW s \in 1 .. offered', s < offered'
                   PROVE  \E i \in DOMAIN c2s : c2s[i] = FontList(s)
        BY <1>1, <1>3, <2>1 DEF Completed, HasAnswered, FontList
      <3>1. s \in 1 .. offered
        BY <1>1, <2>1
      <3> QED
        BY <2>1, <3>1 DEF Handed, Completed, HasAnswered
    <2> QED
      BY <2>2, <2>3 DEF Handed
  <1>6. CASE Speaks
    <2>1. PICK from, to \in Phase, type \in ServerTypes :
              Spoken(from, to, type) /\ Step(from, to, type)
      BY <1>1, <1>6, Speaking DEF SessionTypeOK
    <2>2. phase = from /\ phase' = to /\ offered' = offered
      BY <2>1 DEF Step
    <2>3. Left'
      <3>1. phase # "Idle" /\ (phase = "Idle" => phase' = "Idle")
        BY <2>1, <2>2 DEF Spoken
      <3> QED
        BY <1>1, <1>3, <2>2, <3>1 DEF Handed, Left
    <2>4. Completed'
      <3> SUFFICES ASSUME ~Unruly, NEW s \in 1 .. offered, s < offered \/ to \in {"Active", "Idle"}
                   PROVE  HasAnswered(s)
        BY <1>1, <1>2, <1>3, <2>2 DEF Completed, HasAnswered, FontList
      <3>1. CASE s < offered \/ from = "Active"
        BY <2>2, <3>1 DEF Handed, Completed
      <3>2. CASE ~(s < offered) /\ from # "Active"
        <4>1. fonts /\ s = offered
          BY <1>1, <2>1, <3>2 DEF Spoken
        <4>2. PICK i \in 1 .. taken : c2s[i] = FontList(offered)
          BY <4>1 DEF Heard, Taken, HeardOf
        <4>3. i \in DOMAIN c2s
          BY <4>2, LogShares
        <4> QED
          BY <4>1, <4>2, <4>3 DEF HasAnswered
      <3> QED
        BY <3>1, <3>2
    <2> QED
      BY <2>3, <2>4 DEF Handed
  <1>7. CASE SrvReceive
    <2>1. offered' = offered /\ (phase' = phase \/ (phase = "Demanded" /\ phase' = "Confirmed"))
      <3>1. PICK m : m = c2s[taken']
        OBVIOUS
      <3>2. \/ phase' = IF m.type = "ConfirmActive" /\ phase = "Demanded" THEN "Confirmed" ELSE phase
            \/ phase' = phase
        BY <1>7, <3>1, Zenon DEF SrvReceive
      <3>3. offered' = offered
        BY <1>7 DEF SrvReceive
      <3> QED
        BY <3>2, <3>3
    <2>2. CASE phase' = phase
      BY <1>4, <2>1, <2>2
    <2>3. CASE phase = "Demanded" /\ phase' = "Confirmed"
      <3>1. Left'
        BY <1>1, <1>3, <2>1, <2>3 DEF Handed, Left
      <3>2. Completed'
        BY <1>1, <1>2, <1>3, <2>1, <2>3 DEF Handed, Completed, HasAnswered, FontList
      <3> QED
        BY <3>1, <3>2 DEF Handed
    <2> QED
      BY <2>1, <2>2, <2>3
  <1>8. CASE SrvNoise \/ SrvUpdate \/ Flush
    <2>1. UNCHANGED <<phase, offered>>
      BY <1>8 DEF SrvNoise, SrvUpdate, Flush, srvVars
    <2> QED
      BY <1>4, <2>1
  <1> QED
    BY <1>5, <1>6, <1>7, <1>8, Zenon DEF ServerStep, Speaks

\* What holds of a session, all layers together.
All == Base /\ Log /\ Heard /\ Handed

\* Handed holds.
LEMMA HandedHolds == SessionSpec => []All
  <1>1. SessionInit => Handed
    <2> SUFFICES ASSUME SessionInit PROVE Handed
      OBVIOUS
    <2>1. phase = "Idle" /\ offered = 0
      BY DEF SessionInit
    <2>2. 1 .. 0 = {}
      BY SMT
    <2> QED
      BY <2>1, <2>2 DEF Handed, Left, Completed
  <1>2. (Base /\ Log /\ Heard) /\ (Base /\ Log /\ Heard)' /\ Handed /\ [SessionNext]_sessionVars
            => Handed'
    <2> SUFFICES ASSUME Base, Base', Log, Log', Heard, Heard', Handed, [SessionNext]_sessionVars
                 PROVE  Handed'
      OBVIOUS
    <2>1. Typed /\ TypeOK /\ SessionTypeOK
      BY DEF Base, Typed, IInv
    <2>2. CASE ClientStep
      <3>1. Answers \/ Takes \/ Writes
        BY <2>1, <2>2, ClientActs
      <3>2. UNCHANGED srvVars
        BY <2>2 DEF ClientStep
      <3> QED
        BY <3>1, <3>2, HandedClient
    <2>3. CASE ServerStep
      BY <2>3, HandedServer
    <2>4. CASE UNCHANGED sessionVars
      <3>1. UNCHANGED <<state, share_id, phase, offered, manners, c2s>>
        BY <2>4 DEF sessionVars, vars, clientVars, linkVars, srvVars
      <3>2. Unruly' = Unruly /\ HasAnswered(share_id)' = HasAnswered(share_id)
        BY <3>1 DEF Unruly, HasAnswered, FontList
      <3>3. Left'
        BY <3>1, <3>2 DEF Handed, Left
      <3>4. Completed'
        BY <3>1, <3>2 DEF Handed, Completed, HasAnswered, FontList
      <3> QED
        BY <3>3, <3>4 DEF Handed
    <2> QED
      BY <2>2, <2>3, <2>4 DEF SessionNext
  <1> QED
    BY <1>1, <1>2, HeardHolds, PTL DEF SessionSpec, All

-----------------------------------------------------------------------------
(***************************************************************************)
(* The refinement.  These are the terms Session gives to the variables of  *)
(* Activation, for a server that is not unruly.                            *)
(***************************************************************************)
LastOpened == IF phase \in {"Active", "Idle"} THEN offered ELSE Before(offered)
LastClosed == IF phase = "Idle" THEN offered ELSE Before(offered)
InShare == IF state = "Data" THEN share_id ELSE 0
LastEntered ==
    IF state \in {"DemandActivePDU", "Data"} /\ (share_id = NoShare \/ Answered)
    THEN share_id ELSE Before(share_id)

Handovers == <<offered, LastOpened, LastClosed, LastEntered, InShare>>

\* When the variables of Activation change so, it is a step of it.
LEMMA Refined ==
    ASSUME ~Unruly, manners' = manners
    PROVE  /\ UNCHANGED Handovers => UNCHANGED A!shareVars
           /\ /\ offered = LastClosed /\ offered' = offered + 1
              /\ UNCHANGED <<LastOpened, LastClosed, LastEntered, InShare>>
              => A!Offer
           /\ /\ LastOpened < offered /\ InShare = 0 /\ LastEntered = LastOpened
              /\ LastOpened' = offered
              /\ UNCHANGED <<offered, LastClosed, LastEntered, InShare>>
              => A!Open
           /\ /\ InShare = 0 /\ LastEntered < LastOpened
              /\ InShare' = LastOpened /\ LastEntered' = LastOpened
              /\ UNCHANGED <<offered, LastOpened, LastClosed>>
              => A!Enter
           /\ /\ LastClosed < LastOpened /\ LastClosed' = LastOpened
              /\ UNCHANGED <<offered, LastOpened, LastEntered, InShare>>
              => A!Close
           /\ /\ InShare # 0 /\ LastClosed = InShare /\ InShare' = 0
              /\ UNCHANGED <<offered, LastOpened, LastClosed, LastEntered>>
              => A!Leave
  <1>1. ~Unruly'
    BY DEF Unruly
  <1>2. /\ \A x : Seen(x) = x
        /\ Seen(offered)' = offered'
        /\ Seen(LastOpened)' = LastOpened' /\ Seen(LastClosed)' = LastClosed'
        /\ Seen(LastEntered)' = LastEntered' /\ Seen(InShare)' = InShare'
    BY <1>1 DEF Seen
  <1> QED
    BY <1>2 DEF A!shareVars, A!Offer, A!Open, A!Enter, A!Close, A!Leave,
                LastOpened, LastClosed, LastEntered, InShare, Handovers

\* Both start without a share.
LEMMA RefinedInit == SessionInit => A!Init
  <1> SUFFICES ASSUME SessionInit
               PROVE  A!Init
    OBVIOUS
  <1>1. state = "DemandActivePDU" /\ share_id = NoShare /\ phase = "Idle" /\ offered = 0
    BY DEF SessionInit, Init
  <1>2. Seen(0) = 0
    BY DEF Seen
  <1>3. /\ Seen(offered) = 0 /\ Seen(LastOpened) = 0 /\ Seen(LastClosed) = 0
        /\ Seen(LastEntered) = 0 /\ Seen(InShare) = 0
    BY <1>1, <1>2 DEF LastOpened, LastClosed, LastEntered, InShare, NoShare
  <1> QED
    BY <1>3 DEF A!Init, LastOpened, LastClosed, LastEntered, InShare

\* An unruly server offers none.
LEMMA UnrulyStutters ==
    ASSUME Unruly, manners' = manners
    PROVE  UNCHANGED A!shareVars
  <1>1. Unruly'
    BY DEF Unruly
  <1>2. (\A x : Seen(x) = 0) /\ Seen(offered)' = 0
        /\ Seen(LastOpened)' = 0 /\ Seen(LastClosed)' = 0
        /\ Seen(LastEntered)' = 0 /\ Seen(InShare)' = 0
    BY <1>1 DEF Seen
  <1> QED
    BY <1>2 DEF A!shareVars, LastOpened, LastClosed, LastEntered, InShare

\* A step of the client enters, leaves or stutters.
LEMMA RefinedClient ==
    ASSUME All, All', Answers \/ Takes \/ Writes, UNCHANGED srvVars
    PROVE  [A!Next]_(A!shareVars)
  <1>1. /\ UNCHANGED <<phase, offered, manners>>
        /\ phase \in Phase /\ state \in ClientState
        /\ TypeOK /\ Typed /\ Base /\ Log /\ Handed /\ Base' /\ Log' /\ Handed' /\ Flow
    BY DEF srvVars, All, Base, Typed, SessionTypeOK, IInv, TypeOK
  <1>2. /\ share_id \in Nat /\ offered \in Nat /\ share_id <= offered
        /\ Answered <=> HasAnswered(share_id)
        /\ \A s \in Nat : HasAnswered(s) => s <= share_id
    BY <1>1, FontLists
  <1>3. /\ share_id' \in Nat /\ (Answered' <=> HasAnswered(share_id)')
    <2>1. share_id' \in Nat /\ c2s' \in Seq(ClientPDU)
      BY <1>1 DEF Base, Typed, IInv, TypeOK
    <2>2. \A s : (\E i \in DOMAIN c2s' : c2s'[i].type = "FontList" /\ c2s'[i].share = s)
                   <=> (\E i \in DOMAIN c2s' : c2s'[i] = FontList(s))
      BY Zenon, <2>1, FontListIn
    <2> QED
      BY <2>1, <2>2 DEF Answered, HasAnswered, FontList
  <1>4. LastOpened' = LastOpened /\ LastClosed' = LastClosed
    BY <1>1 DEF LastOpened, LastClosed, Before
  <1> SUFFICES ASSUME ~Unruly
               PROVE  [A!Next]_(A!shareVars)
    BY <1>1, UnrulyStutters
  <1>5. /\ offered > 0 => offered - 1 <= share_id
        /\ phase \in {"Active", "Idle"} => share_id = offered
    BY <1>1, Behind
  <1>6. share_id > 0 => LastOpened = share_id \/ phase \notin {"Active", "Idle"}
    BY <1>5 DEF LastOpened
  <1>7. CASE Answers
    <2>1. share_id < share_id' /\ share_id' <= offered
      BY <1>1, <1>2, <1>3, <1>7, Demanded DEF Flow
    <2>2. share_id' = share_id + 1 /\ share_id' = offered
      BY <1>2, <1>3, <1>5, <2>1
    <2>3. InShare = 0 /\ InShare' = 0
      BY <1>7 DEF Answers, InShare
    <2>4. share_id = NoShare \/ Answered
      <3>1. share_id # 0 => share_id \in 1 .. offered /\ share_id < offered
        BY <1>2, <1>3, <2>1
      <3>2. share_id # 0 => HasAnswered(share_id)
        BY <1>1, <3>1 DEF Handed, Completed
      <3> QED
        BY <1>2, <3>2 DEF NoShare
    <2>5. LastEntered = share_id
      BY <1>7, <2>4 DEF LastEntered, Answers
    <2>6. LastEntered' = share_id
      <3>1. state' = "DemandActivePDU" => ~Answered'
        BY <1>1, <1>3, <1>7, NewFontList
      <3>2. state' # "Data" /\ share_id' # NoShare
        <4>1. state' # "Data"
          BY <1>7 DEF Answers
        <4> QED
          BY <1>2, <2>2, <4>1 DEF NoShare
      <3>3. LastEntered' = Before(share_id')
        BY <3>1, <3>2 DEF LastEntered
      <3> QED
        BY <1>2, <2>2, <3>3 DEF Before
    <2>7. UNCHANGED Handovers
      BY <1>1, <1>4, <2>3, <2>5, <2>6 DEF Handovers
    <2> QED
      BY <1>1, <2>7, Refined
  <1>8. CASE ~Answers
    <2>1. share_id' = share_id
      BY <1>8 DEF Takes, Writes
    <2>2. Answered' <=> Answered
      <3>1. HasAnswered(share_id) => HasAnswered(share_id)'
        <4>1. HasAnswered(share_id) => \E i \in DOMAIN c2s' : c2s'[i] = FontList(share_id)
          <5>1. \A s \in Nat : HasAnswered(s) => HasAnswered(s)'
            BY <1>1, NewFontList
          <5> QED
            BY <1>2, <5>1 DEF HasAnswered, FontList
        <4> QED
          BY <2>1, <4>1 DEF HasAnswered, FontList
      <3>2. HasAnswered(share_id)' => HasAnswered(share_id)
        <4>1. \A s \in Nat : HasAnswered(s)' => HasAnswered(s)
          BY <1>1, <1>8, NewFontList
        <4> QED
          BY <1>2, <2>1, <4>1 DEF HasAnswered, FontList
      <3> QED
        BY <1>2, <1>3, <3>1, <3>2
    <2>3. ASSUME state' \in {"DemandActivePDU", "Data"} <=> state \in {"DemandActivePDU", "Data"}
          PROVE  LastEntered' = LastEntered
      BY <2>1, <2>2, <2>3 DEF LastEntered, Before
    <2>4. CASE state' = state
      <3>1. UNCHANGED Handovers
        BY <1>1, <1>4, <2>1, <2>3, <2>4 DEF Handovers, InShare
      <3> QED
        BY <1>1, <3>1, Refined
    <2>5. CASE ReadSynchronizePdu \/ ReadControlCooperate \/ ReadControlGranted
      <3>1. /\ state \notin {"DemandActivePDU", "Data"}
            /\ state' \notin {"DemandActivePDU", "Data"}
        BY <2>5 DEF ReadSynchronizePdu, ReadControlCooperate, ReadControlGranted, Advance
      <3>2. UNCHANGED Handovers
        BY <1>1, <1>4, <2>1, <2>3, <3>1 DEF Handovers, InShare
      <3> QED
        BY <1>1, <3>2, Refined
    <2>6. CASE ReadFontMapPdu
      <3>1. state = "FontMap" /\ state' = "Data"
        BY <2>6 DEF ReadFontMapPdu, Advance
      <3>2. share_id > 0 /\ Answered
        <4>1. \E j \in DOMAIN c2s : c2s[j] = FontList(share_id)
          BY <1>1, <3>1, FontListWritten
        <4> QED
          BY <1>1, <1>2, <3>1, <4>1 DEF Flow, HasAnswered
      <3>3. LastOpened = share_id
        <4>1. CASE phase \in {"Active", "Idle"}
          BY <1>5, <4>1 DEF LastOpened
        <4>2. CASE phase \notin {"Active", "Idle"}
          <5>1. NeverAhead'
            BY <1>1 DEF Base, Flow
          <5>2. Rank["Data"] <= Reached[phase] => phase \in {"Active", "Idle"}
            BY <1>1 DEF Rank, Reached, Phase
          <5>3. share_id < offered
            BY <1>1, <2>1, <3>1, <4>2, <5>1, <5>2 DEF NeverAhead
          <5>4. LastOpened = offered - 1
            BY <1>2, <4>2, <5>3 DEF LastOpened, Before
          <5> QED
            BY <1>2, <1>5, <5>3, <5>4
        <4> QED
          BY <4>1, <4>2
      <3>4. LastEntered = share_id - 1 /\ LastEntered' = share_id
        BY <1>2, <2>1, <2>2, <3>1, <3>2 DEF LastEntered, Before
      <3>5. InShare = 0 /\ InShare' = share_id
        BY <2>1, <3>1 DEF InShare
      <3>6. /\ InShare = 0 /\ LastEntered < LastOpened
            /\ InShare' = LastOpened /\ LastEntered' = LastOpened
            /\ UNCHANGED <<offered, LastOpened, LastClosed>>
        BY <1>1, <1>2, <1>4, <3>3, <3>4, <3>5
      <3> QED
        BY <1>1, <3>6, Refined DEF A!Next
    <2>7. CASE /\ Takes /\ state = "Data" /\ state' = "DemandActivePDU"
               /\ \E j \in DOMAIN Head(s2c).pdus : Head(s2c).pdus[j].type = "DeactivateAll"
      <3>1. PICK j \in DOMAIN Head(s2c).pdus : Head(s2c).pdus[j].type = "DeactivateAll"
        BY <2>7
      <3>2. PICK m : m = Head(s2c).pdus[j]
        OBVIOUS
      <3>3. m \in Unread
        BY <1>1, <2>7, <3>2, HeadUnread DEF Takes
      <3>4. Known(m) /\ m.share \in Nat
        BY <1>1, <3>3 DEF Flow, AllKnown, Unread, ServerPDU
      <3>5. m.share >= share_id /\ m.share <= offered /\ m.type = "DeactivateAll"
            /\ (m.share = offered => phase = "Idle")
        BY <2>7, <3>1, <3>2, <3>4 DEF Known
      <3>6. share_id > 0
        BY <1>1, <2>7 DEF Flow
      <3>7. LastClosed = share_id
        <4>1. CASE share_id = offered
          <5>1. phase = "Idle"
            BY <1>2, <3>4, <3>5, <4>1
          <5> QED
            BY <4>1, <5>1 DEF LastClosed
        <4>2. CASE share_id # offered
          <5>1. phase # "Idle"
            BY <1>5, <4>2
          <5>2. offered > 0 /\ share_id = offered - 1
            BY <1>2, <1>5, <4>2
          <5> QED
            BY <1>2, <5>1, <5>2 DEF LastClosed, Before
        <4> QED
          BY <4>1, <4>2
      <3>8. InShare = share_id /\ InShare' = 0
        BY <2>7 DEF InShare
      <3>9. LastEntered' = LastEntered
        BY <2>3, <2>7
      <3>10. /\ InShare # 0 /\ LastClosed = InShare /\ InShare' = 0
             /\ UNCHANGED <<offered, LastOpened, LastClosed, LastEntered>>
        BY <1>1, <1>2, <1>4, <3>6, <3>7, <3>8, <3>9
      <3> QED
        BY <1>1, <3>10, Refined DEF A!Next
    <2> QED
      BY <1>8, <2>4, <2>5, <2>6, <2>7 DEF Takes, Writes
  <1> QED
    BY <1>7, <1>8

\* A step of the server offers, opens, closes or stutters.
LEMMA RefinedServer ==
    ASSUME All, All', ServerStep
    PROVE  [A!Next]_(A!shareVars)
  <1>1. /\ SessionTypeOK /\ phase \in Phase /\ state \in ClientState
        /\ Typed /\ Base /\ Log /\ Heard /\ Handed /\ Flow
    BY DEF All, Base, Typed, SessionTypeOK, TypeOK
  <1>2. /\ share_id \in Nat /\ offered \in Nat /\ share_id <= offered
        /\ Answered <=> HasAnswered(share_id)
    BY <1>1, FontLists
  <1>3. UNCHANGED <<state, share_id, c2s, manners>>
    BY <1>1, <1>2, ServerType
  <1>4. InShare' = InShare /\ LastEntered' = LastEntered
    <2>1. Answered' <=> Answered
      BY <1>3 DEF Answered
    <2> QED
      BY <1>3, <2>1 DEF InShare, LastEntered, Before
  <1> SUFFICES ASSUME ~Unruly
               PROVE  [A!Next]_(A!shareVars)
    BY <1>3, UnrulyStutters
  <1>5. ASSUME UNCHANGED <<offered, LastOpened, LastClosed>>
        PROVE  [A!Next]_(A!shareVars)
    <2>1. UNCHANGED Handovers
      BY <1>4, <1>5 DEF Handovers
    <2> QED
      BY <1>3, <2>1, Refined
  <1>6. CASE SrvDemand
    <2>1. phase = "Idle" /\ phase' = "Demanded" /\ offered' = offered + 1
      BY <1>6 DEF SrvDemand
    <2>2. /\ LastOpened = offered /\ LastClosed = offered
          /\ LastOpened' = offered /\ LastClosed' = offered
      BY <1>2, <2>1 DEF LastOpened, LastClosed, Before
    <2>3. /\ offered = LastClosed /\ offered' = offered + 1
          /\ UNCHANGED <<LastOpened, LastClosed, LastEntered, InShare>>
      BY <1>4, <2>1, <2>2
    <2> QED
      BY <1>3, <2>3, Refined DEF A!Next
  <1>7. CASE Speaks
    <2>1. PICK from, to \in Phase, type \in ServerTypes :
              Spoken(from, to, type) /\ Step(from, to, type)
      BY <1>1, <1>7, Speaking
    <2>2. phase = from /\ phase' = to /\ offered' = offered
      BY <2>1 DEF Step
    <2>3. offered > 0
      BY <1>1, <2>1, <2>2 DEF Spoken, Heard
    <2>4. CASE from \notin {"Active", "Idle"} /\ to \notin {"Active", "Idle"}
      <3>1. LastOpened' = LastOpened /\ LastClosed' = LastClosed
        BY <2>2, <2>4 DEF LastOpened, LastClosed, Before
      <3> QED
        BY <1>5, <2>2, <3>1
    <2>5. CASE from = "Controlled" /\ to = "Active" /\ fonts
      <3>1. HasAnswered(offered)
        <4>1. PICK i \in 1 .. taken : c2s[i] = FontList(offered)
          BY <1>1, <2>5 DEF Heard, Taken, HeardOf
        <4>2. i \in DOMAIN c2s
          BY <1>1, <4>1, LogShares
        <4> QED
          BY <4>1, <4>2 DEF HasAnswered
      <3>2. share_id = offered /\ HasAnswered(share_id)
        <4>1. offered <= share_id
          BY <1>1, <1>2, <3>1, FontLists
        <4>2. share_id = offered
          BY <1>2, <4>1
        <4> QED
          BY <3>1, <4>2
      <3>3. state # "DemandActivePDU"
        BY <1>1, <2>2, <2>5, <3>2 DEF Handed, Left
      <3>4. state # "Data"
        <4>1. state = "Data" => Rank["Data"] <= Reached["Controlled"]
          BY <1>1, <1>2, <2>2, <2>5, <3>2 DEF Flow, NeverAhead
        <4> QED
          BY <4>1 DEF Rank, Reached
      <3>5. InShare = 0 /\ LastEntered = offered - 1
        BY <2>3, <3>2, <3>3, <3>4 DEF InShare, LastEntered, Before
      <3>6. /\ LastOpened = offered - 1 /\ LastOpened' = offered
            /\ LastClosed' = LastClosed
        BY <2>2, <2>3, <2>5 DEF LastOpened, LastClosed, Before
      <3>7. /\ LastOpened < offered /\ InShare = 0 /\ LastEntered = LastOpened
            /\ LastOpened' = offered
            /\ UNCHANGED <<offered, LastClosed, LastEntered, InShare>>
        BY <1>2, <1>4, <2>2, <3>5, <3>6
      <3> QED
        BY <1>3, <3>7, Refined DEF A!Next
    <2>6. CASE from = "Active" /\ to = "Idle"
      <3>1. /\ LastOpened = offered /\ LastOpened' = offered
            /\ LastClosed = offered - 1 /\ LastClosed' = offered
        BY <2>2, <2>3, <2>6 DEF LastOpened, LastClosed, Before
      <3>2. /\ LastClosed < LastOpened /\ LastClosed' = LastOpened
            /\ UNCHANGED <<offered, LastOpened, LastEntered, InShare>>
        BY <1>2, <1>4, <2>2, <3>1
      <3> QED
        BY <1>3, <3>2, Refined DEF A!Next
    <2> QED
      BY <2>1, <2>4, <2>5, <2>6 DEF Spoken
  <1>8. CASE SrvReceive
    <2>1. PICK m : m = c2s[taken']
      OBVIOUS
    <2>2. \/ phase' = IF m.type = "ConfirmActive" /\ phase = "Demanded" THEN "Confirmed" ELSE phase
          \/ phase' = phase
      BY <1>8, <2>1, Zenon DEF SrvReceive
    <2>3. offered' = offered
      BY <1>8 DEF SrvReceive
    <2>4. LastOpened' = LastOpened /\ LastClosed' = LastClosed
      BY <2>2, <2>3 DEF LastOpened, LastClosed, Before
    <2> QED
      BY <1>5, <2>3, <2>4
  <1>9. CASE SrvNoise \/ SrvUpdate \/ Flush
    <2>1. UNCHANGED <<phase, offered>>
      BY <1>9 DEF SrvNoise, SrvUpdate, Flush, srvVars
    <2>2. LastOpened' = LastOpened /\ LastClosed' = LastClosed
      BY <2>1 DEF LastOpened, LastClosed, Before
    <2> QED
      BY <1>5, <2>1, <2>2
  <1> QED
    BY <1>6, <1>7, <1>8, <1>9, Zenon DEF ServerStep, Speaks

\* A step of the session is a step of Activation, or none.
LEMMA RefinedStep ==
    ASSUME All, All', [SessionNext]_sessionVars
    PROVE  [A!Next]_(A!shareVars)
  <1>1. TypeOK
    BY DEF All, Base, Typed, IInv
  <1>2. CASE ClientStep
    <2>1. (Answers \/ Takes \/ Writes) /\ UNCHANGED srvVars
      BY <1>1, <1>2, ClientActs DEF ClientStep
    <2> QED
      BY <2>1, RefinedClient
  <1>3. CASE ServerStep
    BY <1>3, RefinedServer
  <1>4. CASE UNCHANGED sessionVars
    <2>1. Writes /\ UNCHANGED srvVars
      BY <1>4 DEF sessionVars, vars, clientVars, linkVars, Writes
    <2> QED
      BY <2>1, RefinedClient
  <1> QED
    BY <1>2, <1>3, <1>4 DEF SessionNext

\* Activation over the shares themselves, without the exception Seen makes.
Shares == INSTANCE Activation WITH
             opened <- LastOpened, closed <- LastClosed,
             active <- InShare, entered <- LastEntered

\* Where no server is unruly, Seen hides nothing.
LEMMA NothingHidden ==
    ASSUME "unruly" \notin Servers, All, All'
    PROVE  [A!Next]_(A!shareVars) <=> [Shares!Next]_(Shares!shareVars)
  <1>1. ~Unruly /\ ~Unruly'
    BY DEF All, Base, Typed, SessionTypeOK, Unruly
  <1>2. /\ \A x : Seen(x) = x
        /\ Seen(offered)' = offered'
        /\ Seen(LastOpened)' = LastOpened' /\ Seen(LastClosed)' = LastClosed'
        /\ Seen(LastEntered)' = LastEntered' /\ Seen(InShare)' = InShare'
    BY <1>1 DEF Seen
  <1>3. UNCHANGED A!shareVars <=> UNCHANGED Shares!shareVars
    BY <1>2 DEF A!shareVars, Shares!shareVars, LastOpened, LastClosed, LastEntered, InShare
  <1>4. (A!Offer <=> Shares!Offer) /\ (A!Open <=> Shares!Open)
    BY <1>2 DEF A!Offer, Shares!Offer, A!Open, Shares!Open,
                LastOpened, LastClosed, LastEntered, InShare
  <1>5. (A!Enter <=> Shares!Enter) /\ (A!Close <=> Shares!Close) /\ (A!Leave <=> Shares!Leave)
    BY <1>2 DEF A!Enter, Shares!Enter, A!Close, Shares!Close, A!Leave, Shares!Leave,
                LastOpened, LastClosed, LastEntered, InShare
  <1> QED
    BY <1>3, <1>4, <1>5 DEF A!Next, Shares!Next

(***************************************************************************)
(* Where servers are orderly or coalescing, the sequence of PDUs of        *)
(* read_demand_active_pdu, the four states after it and the return of      *)
(* read_data_pdu to the handshake implement Activation, for every number   *)
(* of shares: no share is opened before the client has left the one        *)
(* before, and the client enters the shares the server opens, each at most *)
(* once and in order.  Of an unruly server this says nothing, and so does  *)
(* Handover; Shares!Spec is Handover without that exception.               *)
(***************************************************************************)
THEOREM SharesAreHandedOver ==
    ASSUME "unruly" \notin Servers
    PROVE  SessionSpec => Handover /\ Shares!Spec
  <1>1. SessionInit => A!Init /\ Shares!Init
    <2> SUFFICES ASSUME SessionInit PROVE A!Init /\ Shares!Init
      OBVIOUS
    <2>1. A!Init
      BY RefinedInit
    <2>2. /\ offered = 0 /\ LastOpened = 0 /\ LastClosed = 0
          /\ LastEntered = 0 /\ InShare = 0
      BY DEF SessionInit, Init, LastOpened, LastClosed, LastEntered, InShare, NoShare
    <2> QED
      BY <2>1, <2>2 DEF Shares!Init
  <1>2. All /\ All' /\ [SessionNext]_sessionVars
            => [A!Next]_(A!shareVars) /\ [Shares!Next]_(Shares!shareVars)
    BY RefinedStep, NothingHidden
  <1> QED
    BY <1>1, <1>2, HandedHolds, PTL DEF SessionSpec, Handover, A!Spec, Shares!Spec

-----------------------------------------------------------------------------
(***************************************************************************)
(* Client and orderly server walk through the same sequence of places, six *)
(* to a share, one place with each PDU of the sequence.  What is under way *)
(* leads from the place of the client to the place of the server, so the   *)
(* client meets just the PDU it waits for, or one it can ignore there.     *)
(* Fast path payloads have their place in the Data state only, so that no  *)
(* update is dropped: handled and the queue are one line of bitmaps.       *)
(***************************************************************************)

\* A PDU of the sequence is sent, and wanted, at its place.
Pos == [DemandActive |-> 0, Synchronize |-> 1, Cooperate |-> 2, Granted |-> 3,
        FontMap |-> 4, DeactivateAll |-> 5]
At(m) == 6 * m.share + Pos[m.type]

\* How far an active share has come with the server.
Done == [Demanded |-> 1, Confirmed |-> 1, Synchronized |-> 2, Cooperating |-> 3,
         Controlled |-> 4, Active |-> 5]

ClientAt ==
    IF state = "DemandActivePDU" THEN 6 * (share_id + 1) ELSE 6 * share_id + Rank[state]
ServerAt ==
    IF phase = "Idle" THEN 6 * (offered + 1) ELSE 6 * offered + Done[phase]

\* A payload takes its reader from place a to place b.
Fits(p, a, b) ==
    \/ \E m \in ServerPDU : /\ p = Raw(<<m>>)
                            /\ m.type \in DOMAIN Pos
                            /\ a = At(m) /\ b = a + 1
    \/ \E m \in ServerPDU : /\ p = Raw(<<m>>)
                            /\ m.type = "ErrorInfo"
                            /\ b = a
    \/ /\ \/ p.kind = "FastPath"
          \/ \E m \in ServerPDU : p = Raw(<<m>>) /\ m.type = "Unparsed"
       /\ \E s \in Nat : a = 6 * s + 5
       /\ b = a

\* ... and a queue of them does.
Between(q, a, b) ==
    \E g \in [1 .. Len(q) + 1 -> Nat] :
        /\ g[1] = a /\ g[Len(q) + 1] = b
        /\ \A i \in DOMAIN q : Fits(q[i], g[i], g[i + 1])
        /\ \A i, j \in 1 .. Len(q) + 1 : i <= j => g[i] <= g[j]

\* The last PDU of the server may still be in outbox.
Behindhand(b) ==
    \/ outbox = <<>> /\ b = ServerAt
    \/ \E m \in ServerPDU : /\ outbox = <<m>>
                            /\ m.type \in DOMAIN Pos
                            /\ b = At(m) /\ ServerAt = b + 1

OnTheWay == \E b \in Nat : Between(s2c, ClientAt, b) /\ Behindhand(b)

\* A client whose answer was cut short is no longer on the way, but there is
\* nothing left that it could lose.
Quiet == \A i \in DOMAIN s2c : s2c[i].updates = <<>>

Paced ==
    Orderly =>
        /\ link = "up" => result \in {"Ok", "InvalidAutomata"}
        /\ OnTheWay \/ (link = "down" /\ Quiet)

-----------------------------------------------------------------------------
\* The places of the PDUs in a share.
LEMMA Places ==
    /\ DOMAIN Pos = {"DemandActive", "Synchronize", "Cooperate", "Granted", "FontMap",
                     "DeactivateAll"}
    /\ Pos["DemandActive"] = 0 /\ Pos["Synchronize"] = 1 /\ Pos["Cooperate"] = 2
    /\ Pos["Granted"] = 3 /\ Pos["FontMap"] = 4 /\ Pos["DeactivateAll"] = 5
    /\ Done["Demanded"] = 1 /\ Done["Confirmed"] = 1 /\ Done["Synchronized"] = 2
    /\ Done["Cooperating"] = 3 /\ Done["Controlled"] = 4 /\ Done["Active"] = 5
    /\ Rank["SynchronizePDU"] = 1 /\ Rank["ControlCooperate"] = 2
    /\ Rank["ControlGranted"] = 3 /\ Rank["FontMap"] = 4 /\ Rank["Data"] = 5
  BY SMT DEF Pos, Done, Rank

\* A place is of one share.
LEMMA PlaceOf ==
    ASSUME NEW s \in Nat, NEW t \in Nat, NEW a \in 0 .. 5, NEW b \in 0 .. 5,
           6 * s + a = 6 * t + b
    PROVE  s = t /\ a = b
  BY SMT

\* An empty queue leads nowhere.
LEMMA EmptyQueue ==
    ASSUME NEW a \in Nat
    PROVE  Between(<<>>, a, a)
  <1>1. PICK g : g = [i \in 1 .. 1 |-> a]
    OBVIOUS
  <1>2. Len(<<>>) = 0 /\ DOMAIN <<>> = {} /\ 0 + 1 = 1
    OBVIOUS
  <1>3. g \in [1 .. Len(<<>>) + 1 -> Nat] /\ g[1] = a /\ g[Len(<<>>) + 1] = a
    BY <1>1, <1>2
  <1>4. \A i, j \in 1 .. Len(<<>>) + 1 : i <= j => g[i] <= g[j]
    BY <1>1, <1>2
  <1> QED
    BY <1>2, <1>3, <1>4 DEF Between

\* To read takes the first step off the way,
LEMMA ReadOne ==
    ASSUME NEW q \in Seq(Payload), q # <<>>, NEW a, NEW c, Between(q, a, c)
    PROVE  \E b \in Nat : Fits(Head(q), a, b) /\ Between(Tail(q), b, c)
  <1>1. PICK g \in [1 .. Len(q) + 1 -> Nat] :
            /\ g[1] = a /\ g[Len(q) + 1] = c
            /\ \A i \in DOMAIN q : Fits(q[i], g[i], g[i + 1])
            /\ \A i, j \in 1 .. Len(q) + 1 : i <= j => g[i] <= g[j]
    BY DEF Between
  <1>2. PICK r : r = Tail(q)
    OBVIOUS
  <1>3. /\ r \in Seq(Payload) /\ Len(q) \in Nat /\ Len(q) > 0 /\ Len(r) = Len(q) - 1
        /\ DOMAIN r = 1 .. Len(q) - 1 /\ DOMAIN q = 1 .. Len(q) /\ Head(q) = q[1]
        /\ \A i \in DOMAIN r : i + 1 \in DOMAIN q /\ r[i] = q[i + 1]
    BY <1>2
  <1>4. PICK h : h = [i \in 1 .. Len(r) + 1 |-> g[i + 1]]
    OBVIOUS
  <1>5. \A i \in 1 .. Len(r) + 1 : i + 1 \in 1 .. Len(q) + 1 /\ h[i] = g[i + 1]
    BY <1>3, <1>4
  <1>6. h \in [1 .. Len(r) + 1 -> Nat]
    BY <1>1, <1>4, <1>5
  <1>7. h[1] = g[2] /\ h[Len(r) + 1] = c /\ g[2] \in Nat
    <2>1. 1 \in 1 .. Len(r) + 1 /\ Len(r) + 1 \in 1 .. Len(r) + 1 /\ 1 + 1 = 2
          /\ Len(r) + 1 + 1 = Len(q) + 1
      BY <1>3
    <2> QED
      BY <1>1, <1>5, <2>1
  <1>8. ASSUME NEW i \in DOMAIN r
        PROVE  Fits(r[i], h[i], h[i + 1])
    <2>1. i + 1 \in DOMAIN q /\ r[i] = q[i + 1]
          /\ i \in 1 .. Len(r) + 1 /\ i + 1 \in 1 .. Len(r) + 1
      BY <1>3, <1>8
    <2>2. Fits(q[i + 1], g[i + 1], g[i + 1 + 1])
      BY <1>1, <2>1
    <2>3. h[i] = g[i + 1] /\ h[i + 1] = g[i + 1 + 1]
      BY <1>5, <2>1
    <2> QED
      BY <2>1, <2>2, <2>3
  <1>11. \A i, j \in 1 .. Len(r) + 1 : i <= j => h[i] <= h[j]
    <2> SUFFICES ASSUME NEW i \in 1 .. Len(r) + 1, NEW j \in 1 .. Len(r) + 1, i <= j
                 PROVE  h[i] <= h[j]
      OBVIOUS
    <2>1. i + 1 \in 1 .. Len(q) + 1 /\ j + 1 \in 1 .. Len(q) + 1 /\ i + 1 <= j + 1
          /\ h[i] = g[i + 1] /\ h[j] = g[j + 1]
      BY <1>3, <1>5
    <2> QED
      BY <1>1, <2>1
  <1>9. Between(r, g[2], c)
    BY <1>6, <1>7, <1>8, <1>11 DEF Between
  <1>10. Fits(Head(q), a, g[2])
    <2>1. 1 \in DOMAIN q /\ 1 + 1 = 2
      BY <1>3
    <2>2. Fits(q[1], g[1], g[2])
      BY <1>1, <2>1
    <2> QED
      BY <1>1, <1>3, <2>2
  <1> QED
    BY <1>2, <1>7, <1>9, <1>10

\* and to send appends one.
LEMMA SendOne ==
    ASSUME NEW q \in Seq(Payload), NEW p \in Payload, NEW a, NEW b, NEW c \in Nat,
           Between(q, a, b), b \in Nat, b <= c, Fits(p, b, c)
    PROVE  Between(Append(q, p), a, c)
  <1>1. PICK g \in [1 .. Len(q) + 1 -> Nat] :
            /\ g[1] = a /\ g[Len(q) + 1] = b
            /\ \A i \in DOMAIN q : Fits(q[i], g[i], g[i + 1])
            /\ \A i, j \in 1 .. Len(q) + 1 : i <= j => g[i] <= g[j]
    BY DEF Between
  <1>2. PICK r : r = Append(q, p)
    OBVIOUS
  <1>3. /\ r \in Seq(Payload) /\ Len(q) \in Nat /\ Len(r) = Len(q) + 1
        /\ DOMAIN r = 1 .. Len(q) + 1 /\ DOMAIN q = 1 .. Len(q)
        /\ \A i \in DOMAIN q : r[i] = q[i]
        /\ r[Len(q) + 1] = p
    BY <1>2
  <1>4. PICK h : h = [i \in 1 .. Len(r) + 1 |-> IF i <= Len(q) + 1 THEN g[i] ELSE c]
    OBVIOUS
  <1>5. /\ \A i \in 1 .. Len(q) + 1 : h[i] = g[i]
        /\ h[Len(q) + 2] = c /\ Len(q) + 2 = Len(r) + 1
    BY <1>3, <1>4
  <1>6. h \in [1 .. Len(r) + 1 -> Nat]
    BY <1>1, <1>3, <1>4
  <1>7. h[1] = a /\ h[Len(r) + 1] = c
    BY <1>1, <1>3, <1>5
  <1>8. ASSUME NEW i \in DOMAIN r
        PROVE  Fits(r[i], h[i], h[i + 1])
    <2>1. CASE i \in DOMAIN q
      <3>1. i \in 1 .. Len(q) + 1 /\ i + 1 \in 1 .. Len(q) + 1
        BY <1>3, <2>1
      <3>2. h[i] = g[i] /\ h[i + 1] = g[i + 1] /\ r[i] = q[i]
        BY <1>3, <1>5, <2>1, <3>1
      <3> QED
        BY <1>1, <2>1, <3>2
    <2>2. CASE i \notin DOMAIN q
      <3>1. i = Len(q) + 1 /\ i + 1 = Len(q) + 2
        BY <1>3, <2>2
      <3>2. r[i] = p /\ h[i] = b /\ h[i + 1] = c
        BY <1>1, <1>3, <1>5, <3>1
      <3> QED
        BY <3>2
    <2> QED
      BY <2>1, <2>2
  <1>9. \A i, j \in 1 .. Len(r) + 1 : i <= j => h[i] <= h[j]
    <2> SUFFICES ASSUME NEW i \in 1 .. Len(r) + 1, NEW j \in 1 .. Len(r) + 1, i <= j
                 PROVE  h[i] <= h[j]
      OBVIOUS
    <2>1. Len(q) + 1 \in 1 .. Len(q) + 1
      BY <1>3
    <2>2. CASE j \in 1 .. Len(q) + 1
      <3>1. i \in 1 .. Len(q) + 1 /\ h[i] = g[i] /\ h[j] = g[j]
        BY <1>5, <2>2
      <3> QED
        BY <1>1, <2>2, <3>1
    <2>3. CASE i \in 1 .. Len(q) + 1 /\ j \notin 1 .. Len(q) + 1
      <3>1. h[j] = c /\ h[i] = g[i]
        BY <1>3, <1>5, <2>3
      <3>2. g[i] <= b /\ g[i] \in Nat
        BY <1>1, <1>3, <2>1, <2>3
      <3> QED
        BY <3>1, <3>2
    <2>4. CASE i \notin 1 .. Len(q) + 1
      <3>1. h[i] = c /\ h[j] = c
        BY <1>3, <1>5, <2>4
      <3> QED
        BY <3>1
    <2> QED
      BY <2>2, <2>3, <2>4
  <1> QED
    BY <1>2, <1>6, <1>7, <1>8, <1>9 DEF Between

-----------------------------------------------------------------------------
\* What an orderly server puts in front of the client.
LEMMA Single ==
    ASSUME NEW m \in ServerPDU
    PROVE  /\ Raw(<<m>>) \in Payload
           /\ Raw(<<m>>).kind = "Raw" /\ Raw(<<m>>).pdus = <<m>>
           /\ <<m>> # <<>> /\ <<m>>[1] = m /\ DOMAIN <<m>> = {1}
           /\ FirstType(Raw(<<m>>)) = m.type
           /\ m.type \in ServerTypes /\ m.share \in Nat
  <1>1. <<m>> \in Seq(ServerPDU) /\ <<m>> # <<>> /\ <<m>>[1] = m /\ DOMAIN <<m>> = {1}
    OBVIOUS
  <1>2. PICK p : p = Raw(<<m>>)
    OBVIOUS
  <1>3. p \in Payload /\ p.kind = "Raw" /\ p.pdus = <<m>>
    BY <1>1, <1>2, OfferType DEF Raw
  <1>4. FirstType(p) = m.type
    BY <1>1, <1>3 DEF FirstType
  <1>5. m.type \in ServerTypes /\ m.share \in Nat
    BY DEF ServerPDU
  <1> QED
    BY <1>1, <1>2, <1>3, <1>4, <1>5

\* The PDU of the sequence that the client comes to next.
Due == IF state = "Data" THEN "DeactivateAll" ELSE Wanted[state]

Meets(p, b) ==
    \/ \E m \in ServerPDU :
           /\ p = Raw(<<m>>) /\ b = ClientAt + 1
           /\ state = "DemandActivePDU" => m.share = share_id + 1
           /\ m.type = Due
    \/ \E m \in ServerPDU : p = Raw(<<m>>) /\ m.type = "ErrorInfo" /\ b = ClientAt
    \/ /\ state = "Data" /\ b = ClientAt
       /\ \/ p.kind = "FastPath"
          \/ \E m \in ServerPDU : p = Raw(<<m>>) /\ m.type = "Unparsed"

\* A payload that fits the place of the client is met by it.
LEMMA Met ==
    ASSUME TypeOK, NEW p \in Payload, NEW b, Fits(p, ClientAt, b)
    PROVE  Meets(p, b)
  <1>1. state \in ClientState /\ share_id \in Nat
    BY DEF TypeOK
  <1>2. PICK s \in Nat, k \in 0 .. 5 :
            /\ ClientAt = 6 * s + k
            /\ state = "DemandActivePDU" => s = share_id + 1 /\ k = 0
            /\ state # "DemandActivePDU" => s = share_id /\ k = Rank[state]
    <2>1. CASE state = "DemandActivePDU"
      <3>1. ClientAt = 6 * (share_id + 1) + 0 /\ share_id + 1 \in Nat /\ 0 \in 0 .. 5
        BY <1>1, <2>1 DEF ClientAt
      <3> QED
        BY <2>1, <3>1
    <2>2. CASE state # "DemandActivePDU"
      <3>1. ClientAt = 6 * share_id + Rank[state] /\ Rank[state] \in 0 .. 5
        BY <1>1, <2>2, Phases DEF ClientAt
      <3> QED
        BY <1>1, <2>2, <3>1
    <2> QED
      BY <2>1, <2>2
  <1>3. /\ k = 0 <=> state = "DemandActivePDU"
        /\ k = 1 <=> state = "SynchronizePDU"
        /\ k = 2 <=> state = "ControlCooperate"
        /\ k = 3 <=> state = "ControlGranted"
        /\ k = 4 <=> state = "FontMap"
        /\ k = 5 <=> state = "Data"
    BY <1>1, <1>2, Places DEF ClientState
  <1>4. CASE \E m \in ServerPDU : /\ p = Raw(<<m>>)
                                  /\ m.type \in DOMAIN Pos
                                  /\ ClientAt = At(m) /\ b = ClientAt + 1
    <2>1. PICK m \in ServerPDU : /\ p = Raw(<<m>>)
                                 /\ m.type \in DOMAIN Pos
                                 /\ ClientAt = At(m) /\ b = ClientAt + 1
      BY <1>4
    <2>2. m.share \in Nat
      BY Single
    <2>3. Pos[m.type] \in 0 .. 5 /\ 6 * s + k = 6 * m.share + Pos[m.type]
      BY <1>2, <2>1, Places DEF At
    <2>4. s = m.share /\ k = Pos[m.type]
      BY <2>2, <2>3, PlaceOf
    <2>5. state = "DemandActivePDU" => m.share = share_id + 1
      BY <1>2, <2>4
    <2>6. m.type = Due
      <3>1. /\ k = 0 => m.type = "DemandActive"
            /\ k = 1 => m.type = "Synchronize"
            /\ k = 2 => m.type = "Cooperate"
            /\ k = 3 => m.type = "Granted"
            /\ k = 4 => m.type = "FontMap"
            /\ k = 5 => m.type = "DeactivateAll"
        BY <2>1, <2>4, Places
      <3> QED
        BY <1>1, <1>3, <3>1 DEF ClientState, Wanted, Due
    <2> QED
      BY <2>1, <2>5, <2>6 DEF Meets
  <1>5. CASE \E m \in ServerPDU : /\ p = Raw(<<m>>)
                                  /\ m.type = "ErrorInfo"
                                  /\ b = ClientAt
    BY <1>5 DEF Meets
  <1>6. CASE /\ \/ p.kind = "FastPath"
                \/ \E m \in ServerPDU : p = Raw(<<m>>) /\ m.type = "Unparsed"
             /\ \E t \in Nat : ClientAt = 6 * t + 5
             /\ b = ClientAt
    <2>1. PICK t \in Nat : ClientAt = 6 * t + 5
      BY <1>6
    <2>2. 6 * s + k = 6 * t + 5 /\ 5 \in 0 .. 5
      BY <1>2, <2>1
    <2>3. k = 5
      BY <2>2, PlaceOf
    <2> QED
      BY <1>3, <1>6, <2>3 DEF Meets
  <1> QED
    BY <1>4, <1>5, <1>6 DEF Fits

\* A read goes on along the way, or is cut short by the network.
LEMMA PacedRead ==
    ASSUME TypeOK, TypeOK', Orderly, OnTheWay, Read, s2c # <<>>, UNCHANGED srvVars
    PROVE  \/ result' \in {"Ok", "InvalidAutomata"} /\ OnTheWay'
           \/ ReadDemandActivePdu /\ link' = "down"
  <1>1. state \in ClientState /\ share_id \in Nat /\ s2c \in Seq(Payload)
    BY DEF TypeOK
  <1>2. Received
    <2>1. ~ReadEof
      BY DEF ReadEof
    <2> QED
      BY <2>1 DEF Read, ReadDemandActivePdu, ReadSynchronizePdu, ReadControlCooperate,
               ReadControlGranted, ReadFontMapPdu, Advance, ReadUnwanted, ReadDataPdu,
               ReadFastPath, ReadNotGlobal
  <1>3. PICK c \in Nat : Between(s2c, ClientAt, c) /\ Behindhand(c)
    BY DEF OnTheWay
  <1>4. s2c # <<>> /\ s2c' = Tail(s2c)
    BY <1>2 DEF Received
  <1>5. PICK b \in Nat : Fits(payload, ClientAt, b) /\ Between(s2c', b, c)
    BY <1>1, <1>3, <1>4, ReadOne DEF payload
  <1>6. payload \in Payload
    BY <1>1, <1>4 DEF payload
  <1>7. ASSUME ClientAt' = b
        PROVE  OnTheWay'
    <2>1. Behindhand(c)'
      BY <1>3 DEF srvVars, Behindhand, ServerAt, At
    <2>2. Between(s2c, ClientAt, c)'
      BY <1>5, <1>7, Zenon
    <2> QED
      BY <2>1, <2>2 DEF OnTheWay
  <1>8. ASSUME payload.kind = "FastPath"
        PROVE  state = "Data" /\ b = ClientAt
    <2>1. ~\E m \in ServerPDU : payload = Raw(<<m>>)
      BY <1>8, Single
    <2>2. Meets(payload, b)
      BY <1>5, <1>6, Met
    <2> QED
      BY <2>1, <2>2, Zenon DEF Meets
  <1>9. ASSUME payload.kind # "FastPath"
        PROVE  \E m \in ServerPDU :
                  /\ payload = Raw(<<m>>)
                  /\ \/ /\ m.type = Due
                        /\ state = "DemandActivePDU" => m.share = share_id + 1
                        /\ b = ClientAt + 1
                     \/ m.type = "ErrorInfo" /\ b = ClientAt
                     \/ state = "Data" /\ m.type = "Unparsed" /\ b = ClientAt
    <2>1. Meets(payload, b)
      BY <1>5, <1>6, Met
    <2> QED
      BY <1>9, <2>1, Zenon DEF Meets
  <1>10. payload.kind \in {"Raw", "FastPath"}
    BY <1>9, Single
  <1>11. ASSUME NEW m \in ServerPDU, payload = Raw(<<m>>)
         PROVE  /\ payload.kind = "Raw" /\ payload.pdus = <<m>> /\ payload.pdus[1] = m
                /\ DOMAIN payload.pdus = {1} /\ FirstType(payload) = m.type
    BY <1>11, Single
  <1>12. CASE ReadDemandActivePdu /\ link' # "down"
    <2>1. /\ state = "DemandActivePDU" /\ payload.kind = "Raw"
          /\ FirstType(payload) = "DemandActive"
      BY <1>12 DEF ReadDemandActivePdu
    <2>2. PICK m \in ServerPDU :
              /\ payload = Raw(<<m>>)
              /\ \/ m.share = share_id + 1 /\ b = ClientAt + 1
                 \/ m.type = "ErrorInfo"
      BY <1>9, <2>1 DEF Due
    <2>3. m.share = share_id + 1 /\ b = ClientAt + 1
      BY <1>11, <2>1, <2>2
    <2>4. share_id' = m.share /\ state' = "SynchronizePDU" /\ result' = "Ok"
      <3>1. payload.pdus[1] = m
        BY <1>11, <2>2
      <3>2. PICK t : t = payload.pdus[1].share
        OBVIOUS
      <3>3. /\ share_id' = t
            /\ \/ state' = "SynchronizePDU" /\ result' = "Ok"
               \/ WriteFailed(Answer(t))
        BY <1>12, <3>2, Zenon DEF ReadDemandActivePdu
      <3>4. ~WriteFailed(Answer(t))
        BY <1>12 DEF WriteFailed
      <3> QED
        BY <3>1, <3>2, <3>3, <3>4
    <2>5. ClientAt' = b
      BY <1>1, <2>1, <2>3, <2>4, Places DEF ClientAt
    <2> QED
      BY <1>7, <2>4, <2>5
  <1>13. ASSUME NEW from \in ClientState \ {"DemandActivePDU", "Data"}, NEW to \in ClientState,
                Advance(from, Wanted[from], to), to # "DemandActivePDU", Rank[to] = Rank[from] + 1
         PROVE  result' \in {"Ok", "InvalidAutomata"} /\ OnTheWay'
    <2>1. /\ state = from /\ state' = to /\ share_id' = share_id /\ result' = "Ok"
          /\ payload.kind = "Raw" /\ FirstType(payload) = Wanted[from]
      BY <1>13 DEF Advance
    <2>2. PICK m \in ServerPDU :
              /\ payload = Raw(<<m>>)
              /\ b = ClientAt + 1 \/ m.type = "ErrorInfo"
      BY <1>9, <1>13, <2>1
    <2>3. m.type # "ErrorInfo"
      <3>1. Wanted[from] # "ErrorInfo"
        BY <1>13 DEF Wanted, ClientState
      <3> QED
        BY <1>11, <2>1, <2>2, <3>1
    <2>4. Rank[from] \in Nat
      BY <1>13, Phases
    <2>5. ClientAt' = b
      BY <1>1, <1>13, <2>1, <2>2, <2>3, <2>4 DEF ClientAt
    <2> QED
      BY <1>7, <2>1, <2>5
  <1>14. CASE ReadSynchronizePdu \/ ReadControlCooperate \/ ReadControlGranted \/ ReadFontMapPdu
    <2>1. ClientState = {"DemandActivePDU", "SynchronizePDU", "ControlCooperate",
                         "ControlGranted", "FontMap", "Data"}
      BY DEF ClientState
    <2>2. /\ Wanted["SynchronizePDU"] = "Synchronize" /\ Wanted["ControlCooperate"] = "Cooperate"
          /\ Wanted["ControlGranted"] = "Granted" /\ Wanted["FontMap"] = "FontMap"
      BY SMT DEF Wanted
    <2>3. CASE ReadSynchronizePdu
      <3>1. Advance("SynchronizePDU", Wanted["SynchronizePDU"], "ControlCooperate")
        BY <2>2, <2>3 DEF ReadSynchronizePdu
      <3> QED
        BY <1>13, <2>1, <3>1, Places
    <2>4. CASE ReadControlCooperate
      <3>1. Advance("ControlCooperate", Wanted["ControlCooperate"], "ControlGranted")
        BY <2>2, <2>4 DEF ReadControlCooperate
      <3> QED
        BY <1>13, <2>1, <3>1, Places
    <2>5. CASE ReadControlGranted
      <3>1. Advance("ControlGranted", Wanted["ControlGranted"], "FontMap")
        BY <2>2, <2>5 DEF ReadControlGranted
      <3> QED
        BY <1>13, <2>1, <3>1, Places
    <2>6. CASE ReadFontMapPdu
      <3>1. Advance("FontMap", Wanted["FontMap"], "Data")
        BY <2>2, <2>6 DEF ReadFontMapPdu
      <3> QED
        BY <1>13, <2>1, <3>1, Places
    <2> QED
      BY <1>14, <2>3, <2>4, <2>5, <2>6
  <1>15. CASE ReadUnwanted
    <2>1. /\ state # "Data" /\ payload.kind \in {"Raw", "FastPath"}
          /\ FirstType(payload) # Wanted[state]
          /\ result' = Refusal(FirstType(payload), Wanted[state])
          /\ state' = state /\ share_id' = share_id
      BY <1>15 DEF ReadUnwanted
    <2>2. PICK m \in ServerPDU :
              /\ payload = Raw(<<m>>)
              /\ m.type = Wanted[state] \/ (m.type = "ErrorInfo" /\ b = ClientAt)
      BY <1>8, <1>9, <2>1 DEF Due
    <2>3. FirstType(payload) = "ErrorInfo" /\ b = ClientAt
      BY <1>11, <2>1, <2>2
    <2>4. Refusal("ErrorInfo", Wanted[state]) = "Ok"
      BY DEF Refusal, ControlTypes, ControlError, DataError
    <2>5. ClientAt' = b
      BY <2>1, <2>3 DEF ClientAt
    <2> QED
      BY <1>7, <2>1, <2>3, <2>4, <2>5
  <1>16. CASE ReadDataPdu
    <2>1. /\ state = "Data" /\ payload.kind = "Raw" /\ share_id' = share_id
          /\ state' = IF Deactivates(payload.pdus) THEN "DemandActivePDU" ELSE "Data"
          /\ \/ \E i \in DOMAIN payload.pdus :
                   AbortsAt(payload.pdus, i) /\ result' = ControlError[payload.pdus[i].type]
             \/ (\A i \in DOMAIN payload.pdus : ~AbortsAt(payload.pdus, i)) /\ result' = "Ok"
      BY <1>16, Zenon DEF ReadDataPdu
    <2>2. PICK m \in ServerPDU :
              /\ payload = Raw(<<m>>)
              /\ \/ m.type = "DeactivateAll" /\ b = ClientAt + 1
                 \/ m.type = "ErrorInfo" /\ b = ClientAt
                 \/ m.type = "Unparsed" /\ b = ClientAt
      BY <1>9, <2>1 DEF Due
    <2>3. PICK q : q = payload.pdus
      OBVIOUS
    <2>4. DOMAIN q = {1} /\ q[1] = m
      BY <1>11, <2>2, <2>3
    <2>5. \A i \in DOMAIN q : ~AbortsAt(q, i)
      <3>1. m.type \notin DOMAIN ControlError
        BY <2>2 DEF ControlError
      <3> QED
        BY <2>4, <3>1 DEF AbortsAt
    <2>6. Deactivates(q) <=> m.type = "DeactivateAll"
      <3>1. Reaches(q, 1)
        BY DEF Reaches
      <3> QED
        BY <2>4, <3>1 DEF Deactivates
    <2>7. result' = "Ok" /\ state' = IF m.type = "DeactivateAll" THEN "DemandActivePDU" ELSE "Data"
      BY <2>1, <2>3, <2>5, <2>6
    <2>8. ClientAt' = b
      <3>1. ClientAt = 6 * share_id + 5
        BY <2>1, Places DEF ClientAt
      <3>2. CASE m.type = "DeactivateAll"
        <4>1. b = ClientAt + 1 /\ ClientAt' = 6 * (share_id + 1)
          BY <2>1, <2>2, <2>7, <3>2 DEF ClientAt
        <4> QED
          BY <1>1, <3>1, <4>1
      <3>3. CASE m.type # "DeactivateAll"
        <4>1. b = ClientAt /\ ClientAt' = 6 * share_id + 5
          BY <2>1, <2>2, <2>7, <3>3, Places DEF ClientAt
        <4> QED
          BY <3>1, <4>1
      <3> QED
        BY <3>2, <3>3
    <2> QED
      BY <1>7, <2>7, <2>8
  <1>17. CASE ReadFastPath
    <2>1. /\ state = "Data" /\ payload.kind = "FastPath" /\ state' = state
          /\ share_id' = share_id /\ result' = "Ok"
      BY <1>17 DEF ReadFastPath
    <2>2. ClientAt' = b
      BY <1>8, <2>1 DEF ClientAt
    <2> QED
      BY <1>7, <2>1, <2>2
  <1>18. ~ReadNotGlobal
    BY <1>10 DEF ReadNotGlobal, SwitchKinds
  <1>19. ~ReadEof
    BY DEF ReadEof
  <1> QED
    BY <1>12, <1>14, <1>15, <1>16, <1>17, <1>18, <1>19 DEF Read

\* While a client waits for a demand, the server waits for its answer.
LEMMA NothingYet ==
    ASSUME All, Orderly, OnTheWay, state = "DemandActivePDU"
    PROVE  Quiet
  <1>1. /\ share_id \in Nat /\ offered \in Nat /\ phase \in Phase
        /\ s2c \in Seq(Payload) /\ c2s \in Seq(ClientPDU) /\ taken \in 0 .. Len(c2s)
    BY SessionAssumption DEF All, Base, Typed, SessionTypeOK, TypeOK
  <1>2. ClientAt = 6 * (share_id + 1)
    BY DEF ClientAt
  <1>3. ~HasAnswered(share_id + 1)
    <2>1. \A i \in DOMAIN c2s : c2s[i].share <= share_id
      BY DEF All, Log, Past
    <2>2. FontList(share_id + 1).share = share_id + 1
      BY DEF FontList
    <2> QED
      BY <1>1, <2>1, <2>2 DEF HasAnswered
  <1>4. offered <= share_id + 1 /\ (offered = share_id + 1 => phase = "Demanded")
    <2>1. ~Unruly
      BY DEF Unruly, Orderly
    <2>2. \A s \in 1 .. offered : s < offered \/ phase \in {"Active", "Idle"} => HasAnswered(s)
      BY <2>1 DEF All, Handed, Completed
    <2>3. offered <= share_id + 1
      BY <1>1, <1>3, <2>2
    <2>4. ASSUME offered = share_id + 1, phase # "Demanded"
          PROVE  FALSE
      <3>1. phase \notin {"Active", "Idle"}
        BY <1>1, <1>3, <2>2, <2>4
      <3>2. PICK i \in 1 .. taken : c2s[i] = ConfirmActive(offered)
        BY <2>4, <3>1 DEF All, Heard, Taken, HeardOf
      <3>3. i \in DOMAIN c2s /\ c2s[i].share = offered
        BY <1>1, <3>2 DEF ConfirmActive
      <3> QED
        BY <1>1, <2>4, <3>3 DEF All, Log, Past
    <2> QED
      BY <2>3, <2>4
  <1>5. ServerAt \in Nat /\ ServerAt <= 6 * (share_id + 1) + 1
    <2>1. phase # "Idle" => Done[phase] \in 1 .. 5
      BY <1>1, Places DEF Phase
    <2>2. CASE phase = "Idle"
      <3>1. ServerAt = 6 * (offered + 1) /\ offered <= share_id
        BY <1>1, <1>4, <2>2 DEF ServerAt
      <3> QED
        BY <1>1, <3>1
    <2>3. CASE phase = "Demanded"
      <3>1. ServerAt = 6 * offered + 1
        BY <2>3, Places DEF ServerAt
      <3> QED
        BY <1>1, <1>4, <3>1
    <2>4. CASE phase \notin {"Idle", "Demanded"}
      <3>1. ServerAt = 6 * offered + Done[phase] /\ offered <= share_id
        BY <1>1, <1>4, <2>4 DEF ServerAt
      <3> QED
        BY <1>1, <2>1, <2>4, <3>1
    <2> QED
      BY <2>2, <2>3, <2>4
  <1>6. PICK c \in Nat : Between(s2c, ClientAt, c) /\ Behindhand(c)
    BY DEF OnTheWay
  <1>7. c <= ServerAt
    BY <1>5, <1>6 DEF Behindhand
  <1>8. PICK g \in [1 .. Len(s2c) + 1 -> Nat] :
            /\ g[1] = ClientAt /\ g[Len(s2c) + 1] = c
            /\ \A i \in DOMAIN s2c : Fits(s2c[i], g[i], g[i + 1])
            /\ \A i, j \in 1 .. Len(s2c) + 1 : i <= j => g[i] <= g[j]
    BY <1>6 DEF Between
  <1>9. ASSUME NEW i \in DOMAIN s2c
        PROVE  s2c[i].updates = <<>>
    <2>1. i \in 1 .. Len(s2c) + 1 /\ 1 \in 1 .. Len(s2c) + 1 /\ Len(s2c) + 1 \in 1 .. Len(s2c) + 1
          /\ 1 <= i /\ i <= Len(s2c) + 1
      BY <1>1
    <2>2. g[i] \in Nat /\ 6 * (share_id + 1) <= g[i] /\ g[i] <= 6 * (share_id + 1) + 1
      <3>1. g[1] <= g[i] /\ g[i] <= g[Len(s2c) + 1] /\ g[i] \in Nat
        BY <1>8, <2>1
      <3>2. PICK x \in Nat, y \in Nat : x = g[i] /\ y = 6 * (share_id + 1)
        BY <1>1, <3>1
      <3>3. y <= x /\ x <= c /\ c <= y + 1
        BY <1>2, <1>5, <1>7, <1>8, <3>1, <3>2
      <3> QED
        BY <3>2, <3>3
    <2>3. ~\E t \in Nat : g[i] = 6 * t + 5
      BY <1>1, <2>2
    <2>4. PICK m : s2c[i] = Raw(<<m>>)
      BY <1>8, <2>3 DEF Fits
    <2> QED
      BY <2>4 DEF Raw
  <1> QED
    BY <1>9 DEF Quiet

\* The client keeps Paced.
LEMMA PacedClient ==
    ASSUME All, TypeOK, TypeOK', Paced, ClientStep
    PROVE  Paced'
  <1> SUFFICES ASSUME Orderly'
               PROVE  /\ link' = "up" => result' \in {"Ok", "InvalidAutomata"}
                      /\ OnTheWay' \/ (link' = "down" /\ Quiet')
    BY DEF Paced
  <1>1. /\ Orderly /\ UNCHANGED srvVars
        /\ link \in {"up", "down"} /\ link' \in {"up", "down"} /\ s2c \in Seq(Payload)
    BY DEF ClientStep, srvVars, Orderly, TypeOK
  <1>2. ASSUME Quiet, s2c' = s2c \/ (s2c # <<>> /\ s2c' = Tail(s2c))
        PROVE  Quiet'
    <2>1. CASE s2c' = s2c
      BY <1>2, <2>1 DEF Quiet
    <2>2. CASE s2c # <<>> /\ s2c' = Tail(s2c)
      <3>1. \A i \in DOMAIN s2c' : i + 1 \in DOMAIN s2c /\ s2c'[i] = s2c[i + 1]
        BY <1>1, <2>2, TailShifts
      <3> QED
        BY <1>2, <3>1 DEF Quiet
    <2> QED
      BY <1>2, <2>1, <2>2
  <1>3. ASSUME OnTheWay, UNCHANGED <<state, share_id, s2c>>
        PROVE  OnTheWay'
    <2>1. PICK c \in Nat : Between(s2c, ClientAt, c) /\ Behindhand(c)
      BY <1>3 DEF OnTheWay
    <2>2. Behindhand(c)'
      BY <1>1, <2>1 DEF srvVars, Behindhand, ServerAt, At
    <2>3. ClientAt' = ClientAt
      BY <1>3 DEF ClientAt
    <2>4. Between(s2c, ClientAt, c)'
      BY <1>3, <2>1, <2>3, Zenon
    <2> QED
      BY <2>2, <2>4 DEF OnTheWay
  <1>4. Answers \/ Takes \/ Writes
    BY ClientActs
  <1>5. s2c' = s2c \/ (s2c # <<>> /\ s2c' = Tail(s2c))
    BY <1>4 DEF Answers, Takes, Writes
  <1>6. ASSUME Write
        PROVE  /\ link' = "up" => result' \in {"Ok", "InvalidAutomata"} /\ link = "up"
               /\ UNCHANGED <<state, share_id, s2c>>
    BY <1>6 DEF Write, Written, WriteFailed
  <1>7. CASE Write \/ TryWrite \/ Shutdown \/ LinkDrop
    <2>1. /\ link' = "up" => result' \in {"Ok", "InvalidAutomata"} /\ link = "up"
          /\ UNCHANGED <<state, share_id, s2c>>
      <3>1. CASE TryWrite
        BY <1>6, <3>1 DEF TryWrite, linkVars
      <3>2. CASE Shutdown
        BY <3>2 DEF Shutdown, WriteFailed
      <3>3. CASE LinkDrop
        BY <3>3 DEF LinkDrop, clientVars
      <3> QED
        BY <1>6, <1>7, <3>1, <3>2, <3>3
    <2>2. OnTheWay' \/ (link' = "down" /\ Quiet')
      BY <1>1, <1>2, <1>3, <1>5, <2>1 DEF Paced
    <2> QED
      BY <2>1, <2>2
  <1>8. CASE Read
    <2>1. CASE s2c = <<>>
      <3>1. ReadEof
        BY <1>8, <2>1 DEF Read, ReadDemandActivePdu, ReadSynchronizePdu, ReadControlCooperate,
               ReadControlGranted, ReadFontMapPdu, Advance, ReadUnwanted, ReadDataPdu,
               ReadFastPath, ReadNotGlobal, Received
      <3>2. link' = "down" /\ UNCHANGED <<state, share_id, s2c>>
        BY <3>1 DEF ReadEof, linkVars
      <3> QED
        BY <1>1, <1>2, <1>3, <1>5, <3>2 DEF Paced
    <2>2. CASE s2c # <<>> /\ OnTheWay
      <3>1. \/ result' \in {"Ok", "InvalidAutomata"} /\ OnTheWay'
            \/ ReadDemandActivePdu /\ link' = "down"
        BY <1>1, <1>8, <2>2, PacedRead
      <3>2. ReadDemandActivePdu => Quiet
        BY <1>1, <2>2, NothingYet DEF ReadDemandActivePdu
      <3> QED
        BY <1>2, <1>5, <3>1, <3>2
    <2>3. CASE link = "down" /\ Quiet
      <3>1. link' = "down"
        BY <1>8, <2>3 DEF Read, ReadDemandActivePdu, ReadSynchronizePdu, ReadControlCooperate,
               ReadControlGranted, ReadFontMapPdu, Advance, ReadUnwanted, ReadDataPdu,
               ReadFastPath, ReadNotGlobal, ReadEof, linkVars, Written, WriteFailed
      <3> QED
        BY <1>2, <1>5, <2>3, <3>1
    <2> QED
      BY <1>1, <2>1, <2>2, <2>3 DEF Paced
  <1> QED
    BY <1>7, <1>8 DEF ClientStep

\* Every step of an orderly server starts at its place and leaves the way whole.
LEMMA PacedServer ==
    ASSUME Typed, Typed', Paced, ServerStep
    PROVE  Paced'
  <1>1. /\ SessionTypeOK /\ TypeOK /\ phase \in Phase /\ phase' \in Phase
        /\ offered \in Nat /\ offered' \in Nat
        /\ s2c \in Seq(Payload) /\ outbox \in Seq(ServerPDU)
    BY SessionAssumption DEF Typed, SessionTypeOK, TypeOK
  <1>2. UNCHANGED <<state, share_id, result, link, c2s, manners>> /\ ClientAt' = ClientAt
    BY <1>1, ServerType DEF ClientAt
  <1> SUFFICES ASSUME Orderly
               PROVE  OnTheWay'
    BY <1>2 DEF Paced, Orderly
  <1>16. link = "up"
    <2>1. \A type : Say(type) => link = "up"
      BY DEF Say
    <2>2. \A p : Deliver(p) => link = "up"
      BY DEF Deliver
    <2> QED
      BY <2>1, <2>2, Zenon DEF ServerStep, SrvDemand, SrvSynchronize, SrvCooperate, SrvGrant,
             SrvFontMap, SrvDeactivate, Step, SrvNoise, SrvUpdate, SrvReceive, Flush
  <1>3. PICK c \in Nat : Between(s2c, ClientAt, c) /\ Behindhand(c)
    BY <1>16 DEF Paced, OnTheWay
  <1>4. ASSUME s2c' = s2c
        PROVE  Between(s2c, ClientAt, c)'
    BY <1>2, <1>3, <1>4, Zenon
  <1>5. ASSUME NEW p \in Payload, s2c' = Append(s2c, p), NEW d \in Nat, c <= d, Fits(p, c, d)
        PROVE  Between(s2c, ClientAt, d)'
    <2>1. Between(Append(s2c, p), ClientAt, d)
      BY <1>1, <1>3, <1>5, SendOne
    <2> QED
      BY <1>2, <1>5, <2>1, Zenon
  <1>6. outbox = <<>> => c = ServerAt
    <2>1. \A m : <<>> # <<m>>
      OBVIOUS
    <2> QED
      BY <1>3, <2>1 DEF Behindhand
  \* The server says the PDU of its place, and is one place further.
  <1>7. ASSUME NEW m \in ServerPDU, Say(m.type), m.share = offered', m.type \in DOMAIN Pos,
               At(m) = ServerAt, ServerAt' = ServerAt + 1
        PROVE  OnTheWay'
    <2>1. outbox = <<>>
      <3>1. Len(outbox) < 1
        BY <1>7 DEF Say, Batch
      <3> QED
        BY <1>1, <3>1
    <2>2. outbox' = <<m>> /\ s2c' = s2c
      <3>1. outbox' = Append(outbox, [type |-> m.type, share |-> offered']) /\ s2c' = s2c
        BY <1>7 DEF Say, vars, linkVars
      <3>2. m = [type |-> m.type, share |-> offered']
        BY <1>7 DEF ServerPDU
      <3> QED
        BY <2>1, <3>1, <3>2
    <2>3. c = At(m) /\ ServerAt' = c + 1
      BY <1>6, <1>7, <2>1
    <2>4. Behindhand(c)'
      BY <1>7, <2>2, <2>3 DEF Behindhand, At
    <2> QED
      BY <1>4, <2>2, <2>4 DEF OnTheWay
  <1>8. CASE SrvDemand
    <2>1. phase = "Idle" /\ phase' = "Demanded" /\ offered' = offered + 1 /\ Say("DemandActive")
      BY <1>8 DEF SrvDemand
    <2>2. PICK m : m = [type |-> "DemandActive", share |-> offered']
      OBVIOUS
    <2>3. m \in ServerPDU /\ m.type = "DemandActive" /\ m.share = offered'
      BY <1>1, <2>2 DEF ServerPDU, ServerTypes
    <2>4. ServerAt = 6 * (offered + 1) /\ ServerAt' = 6 * (offered + 1) + 1
      BY <1>1, <2>1, Places DEF ServerAt
    <2>5. At(m) = 6 * (offered + 1) + 0
      BY <2>1, <2>3, Places DEF At
    <2>6. At(m) = ServerAt /\ ServerAt' = ServerAt + 1
      BY <1>1, <2>4, <2>5
    <2> QED
      BY <1>7, <2>1, <2>3, <2>6, Places
  <1>9. CASE Speaks
    <2>1. PICK from, to \in Phase, type \in ServerTypes :
              Spoken(from, to, type) /\ Step(from, to, type)
      BY <1>1, <1>9, Speaking
    <2>2. phase = from /\ phase' = to /\ offered' = offered /\ Say(type)
      BY <2>1 DEF Step
    <2>3. PICK m : m = [type |-> type, share |-> offered']
      OBVIOUS
    <2>4. m \in ServerPDU /\ m.type = type /\ m.share = offered'
      BY <1>1, <2>3 DEF ServerPDU
    <2>5. from # "Active" => to # "Idle"
      BY <2>1 DEF Spoken, Unruly, Orderly
    <2>6. /\ type \in DOMAIN Pos /\ from # "Idle" /\ Done[from] = Pos[type] /\ Pos[type] \in Nat
          /\ to = "Idle" => Pos[type] = 5
          /\ to # "Idle" => Done[to] = Pos[type] + 1
      BY <2>1, <2>5, Places DEF Spoken
    <2>7. ServerAt = 6 * offered + Pos[type] /\ At(m) = 6 * offered + Pos[type]
      BY <2>2, <2>4, <2>6 DEF ServerAt, At
    <2>8. ServerAt' = 6 * offered + Pos[type] + 1
      <3>1. CASE to = "Idle"
        <4>1. ServerAt' = 6 * (offered + 1)
          BY <2>2, <3>1 DEF ServerAt
        <4> QED
          BY <1>1, <2>6, <3>1, <4>1
      <3>2. CASE to # "Idle"
        <4>1. ServerAt' = 6 * offered + Done[to]
          BY <2>2, <3>2 DEF ServerAt
        <4> QED
          BY <1>1, <2>6, <3>2, <4>1
      <3> QED
        BY <3>1, <3>2
    <2> QED
      BY <1>7, <2>2, <2>4, <2>6, <2>7, <2>8
  \* ... or it adds a payload that moves nobody on.
  <1>10. ASSUME NEW p \in Payload, Deliver(p), outbox = <<>>, UNCHANGED <<phase, offered, outbox>>,
                Fits(p, ServerAt, ServerAt)
         PROVE  OnTheWay'
    <2>1. s2c' = Append(s2c, p) /\ c = ServerAt
      BY <1>6, <1>10 DEF Deliver
    <2>2. Between(s2c, ClientAt, c)'
      BY <1>5, <1>10, <2>1
    <2>3. Behindhand(c)'
      BY <1>10, <2>1 DEF Behindhand, ServerAt
    <2> QED
      BY <2>2, <2>3 DEF OnTheWay
  <1>11. phase = "Active" => ServerAt = 6 * offered + 5
    BY Places DEF ServerAt
  <1>12. CASE SrvNoise
    <2>1. PICK type \in {"ErrorInfo", "Unparsed"} :
              /\ Deliver(Raw(<<[type |-> type, share |-> offered]>>))
              /\ type = "Unparsed" => phase = "Active"
      <3>1. ~Unruly
        BY DEF Unruly, Orderly
      <3> QED
        BY <1>12, <3>1 DEF SrvNoise, HandshakeNoise
    <2>2. outbox = <<>> /\ UNCHANGED <<phase, offered, outbox>>
      BY <1>12 DEF SrvNoise, srvVars
    <2>3. PICK m : m = [type |-> type, share |-> offered]
      OBVIOUS
    <2>4. m \in ServerPDU /\ m.type = type
      BY <1>1, <2>3 DEF ServerPDU, ServerTypes, DataTypes, DataError, ParsedDataTypes
    <2>5. PICK p : p = Raw(<<m>>)
      OBVIOUS
    <2>6. p \in Payload /\ Deliver(p)
      BY <2>1, <2>3, <2>4, <2>5, Single
    <2>7. Fits(p, ServerAt, ServerAt)
      <3>1. CASE type = "ErrorInfo"
        BY <2>4, <2>5, <3>1 DEF Fits
      <3>2. CASE type = "Unparsed"
        BY <1>1, <1>11, <2>1, <2>4, <2>5, <3>2 DEF Fits
      <3> QED
        BY <2>1, <3>1, <3>2
    <2> QED
      BY <1>10, <2>2, <2>6, <2>7
  <1>13. CASE SrvUpdate
    <2>1. PICK q : Deliver(FastPath(q))
      BY <1>13, Zenon DEF SrvUpdate
    <2>2. PICK p : p = FastPath(q)
      OBVIOUS
    <2>3. /\ phase = "Active" /\ outbox = <<>> /\ UNCHANGED <<phase, offered, outbox>>
          /\ s2c' = Append(s2c, p) /\ Deliver(p)
      BY <1>13, <2>1, <2>2 DEF SrvUpdate, Deliver
    <2>4. p \in Payload
      <3>1. s2c' \in Seq(Payload)
        BY DEF Typed, SessionTypeOK, TypeOK
      <3>2. s2c'[Len(s2c) + 1] = p /\ Len(s2c) + 1 \in DOMAIN s2c'
        BY <1>1, <2>3, <3>1
      <3> QED
        BY <3>1, <3>2
    <2>5. p.kind = "FastPath"
      BY <2>2 DEF FastPath
    <2>6. Fits(p, ServerAt, ServerAt)
      BY <1>1, <1>11, <2>3, <2>5 DEF Fits
    <2> QED
      BY <1>10, <2>3, <2>4, <2>6
  <1>14. CASE SrvReceive
    <2>1. UNCHANGED <<offered, s2c, outbox>>
      BY <1>14 DEF SrvReceive, vars, linkVars
    <2>2. phase' = phase \/ (phase = "Demanded" /\ phase' = "Confirmed")
      <3>1. PICK m : m = c2s[taken']
        OBVIOUS
      <3>2. \/ phase' = IF m.type = "ConfirmActive" /\ phase = "Demanded" THEN "Confirmed" ELSE phase
            \/ phase' = phase
        BY <1>14, <3>1, Zenon DEF SrvReceive
      <3> QED
        BY <3>2
    <2>3. ServerAt' = ServerAt
      BY <2>1, <2>2, Places DEF ServerAt
    <2>4. Behindhand(c)'
      BY <1>3, <2>1, <2>3 DEF Behindhand, At
    <2> QED
      BY <1>4, <2>1, <2>4 DEF OnTheWay
  <1>15. CASE Flush
    <2>1. PICK n \in 1 .. Len(outbox) :
              /\ Deliver(Raw(SubSeq(outbox, 1, n)))
              /\ outbox' = SubSeq(outbox, n + 1, Len(outbox))
      BY <1>15 DEF Flush
    <2>2. outbox # <<>>
      BY <1>1, <2>1
    <2>3. PICK m \in ServerPDU : /\ outbox = <<m>>
                                 /\ m.type \in DOMAIN Pos
                                 /\ c = At(m) /\ ServerAt = c + 1
      BY <1>3, <2>2 DEF Behindhand
    <2>4. n = 1 /\ SubSeq(<<m>>, 1, 1) = <<m>> /\ outbox' = <<>>
      <3>1. <<m>> \in Seq(ServerPDU) /\ Len(<<m>>) = 1
        OBVIOUS
      <3>2. n = 1
        BY <2>1, <2>3, <3>1
      <3>3. SubSeq(<<m>>, 1, 1) = <<m>>
        <4>1. PICK r : r = SubSeq(<<m>>, 1, 1)
          OBVIOUS
        <4>2. r \in Seq(ServerPDU) /\ Len(r) = 1 /\ r[1] = m
          BY <3>1, <4>1
        <4>3. r = <<m>>
          BY <4>2
        <4> QED
          BY <4>1, <4>3
      <3>4. SubSeq(<<m>>, 2, 1) = <<>>
        BY <3>1
      <3> QED
        BY <2>1, <2>3, <3>1, <3>2, <3>3, <3>4
    <2>5. Raw(<<m>>) \in Payload /\ s2c' = Append(s2c, Raw(<<m>>))
      BY <2>1, <2>3, <2>4, Single DEF Deliver
    <2>6. Fits(Raw(<<m>>), c, c + 1)
      BY <2>3 DEF Fits
    <2>7. Between(s2c, ClientAt, c + 1)'
      BY <1>3, <1>5, <2>5, <2>6
    <2>8. ServerAt' = ServerAt
      BY <1>15 DEF Flush, ServerAt
    <2>9. Behindhand(c + 1)'
      BY <2>3, <2>4, <2>8 DEF Behindhand
    <2> QED
      BY <1>3, <2>7, <2>9 DEF OnTheWay
  <1> QED
    BY <1>8, <1>9, <1>12, <1>13, <1>14, <1>15, Zenon DEF ServerStep, Speaks

\* Paced holds.
LEMMA PacedHolds == SessionSpec => []Paced
  <1>1. SessionInit => Paced
    <2> SUFFICES ASSUME SessionInit PROVE Paced
      OBVIOUS
    <2>1. /\ state = "DemandActivePDU" /\ share_id = 0 /\ result = "Ok" /\ s2c = <<>>
          /\ phase = "Idle" /\ offered = 0 /\ outbox = <<>>
      BY DEF SessionInit, Init, NoShare
    <2>2. ClientAt = 6 /\ ServerAt = 6
      BY <2>1 DEF ClientAt, ServerAt
    <2>3. Between(s2c, 6, 6)
      BY <2>1, EmptyQueue
    <2>4. Behindhand(6)
      BY <2>1, <2>2 DEF Behindhand
    <2> QED
      BY <2>1, <2>2, <2>3, <2>4 DEF Paced, OnTheWay
  <1>2. All /\ All' /\ Paced /\ [SessionNext]_sessionVars => Paced'
    <2> SUFFICES ASSUME All, All', Paced, [SessionNext]_sessionVars
                 PROVE  Paced'
      OBVIOUS
    <2>1. Typed /\ Typed' /\ TypeOK /\ TypeOK'
      BY DEF All, Base, Typed, IInv
    <2>2. CASE ClientStep
      BY <2>1, <2>2, PacedClient
    <2>3. CASE ServerStep
      BY <2>1, <2>3, PacedServer
    <2>4. CASE UNCHANGED sessionVars
      <3>1. UNCHANGED <<state, share_id, result, link, s2c, phase, offered, outbox, manners>>
        BY <2>4 DEF sessionVars, vars, clientVars, linkVars, srvVars
      <3>2. ClientAt' = ClientAt /\ ServerAt' = ServerAt /\ Orderly' = Orderly
        BY <3>1 DEF ClientAt, ServerAt, Orderly
      <3>3. ASSUME NEW b \in Nat, Between(s2c, ClientAt, b), Behindhand(b)
            PROVE  Between(s2c, ClientAt, b)' /\ Behindhand(b)'
        <4>1. Between(s2c, ClientAt, b)'
          BY <3>1, <3>2, <3>3, Zenon
        <4>2. Behindhand(b)'
          BY <3>1, <3>2, <3>3 DEF Behindhand, At
        <4> QED
          BY <4>1, <4>2
      <3>4. OnTheWay => OnTheWay'
        BY <3>3 DEF OnTheWay
      <3>5. Quiet => Quiet'
        BY <3>1 DEF Quiet
      <3> QED
        BY <3>1, <3>2, <3>4, <3>5 DEF Paced
    <2> QED
      BY <2>2, <2>3, <2>4 DEF SessionNext
  <1> QED
    BY <1>1, <1>2, HandedHolds, PTL DEF SessionSpec

(***************************************************************************)
(* Against an orderly server no read fails while the link is up: each      *)
(* state of global.rs meets the PDU it waits for before any it would       *)
(* refuse, in every activation, and also when the queue is full, the       *)
(* server runs ahead or Set Error Info PDUs come in between.               *)
(***************************************************************************)
THEOREM NoReadFails == SessionSpec => []NoReadError
  <1>1. Paced => NoReadError
    BY DEF Paced, NoReadError
  <1> QED
    BY <1>1, PacedHolds, PTL

-----------------------------------------------------------------------------
(***************************************************************************)
(* The bitmaps of a line of payloads bear the numbers 1 to b, in order.    *)
(***************************************************************************)
Carries(u, k, i) == k \in DOMAIN u /\ i \in DOMAIN u[k] /\ u[k][i].type = "Bitmap"
Ahead(k, i, l, j) == k < l \/ (k = l /\ i < j)

Lossless(u, b) ==
    /\ \A k, i : Carries(u, k, i) => u[k][i].n \in 1 .. b
    /\ \A v \in 1 .. b : \E k, i : Carries(u, k, i) /\ u[k][i].n = v
    /\ \A k, i, l, j : Carries(u, k, i) /\ Carries(u, l, j) /\ Ahead(k, i, l, j)
                           => u[k][i].n < u[l][j].n

\* Two sequences, one after the other.
LEMMA Joined ==
    ASSUME NEW S, NEW s \in Seq(S), NEW t \in Seq(S), NEW r, r = s \o t
    PROVE  /\ r \in Seq(S) /\ Len(s) \in Nat /\ Len(t) \in Nat
           /\ DOMAIN s = 1 .. Len(s) /\ DOMAIN t = 1 .. Len(t) /\ DOMAIN r = 1 .. Len(s) + Len(t)
           /\ \A i \in 1 .. Len(s) : r[i] = s[i]
           /\ \A i \in 1 .. Len(t) : r[Len(s) + i] = t[i]
  <1>1. /\ r \in Seq(S) /\ Len(s) \in Nat /\ Len(t) \in Nat /\ Len(r) = Len(s) + Len(t)
        /\ DOMAIN s = 1 .. Len(s) /\ DOMAIN t = 1 .. Len(t) /\ DOMAIN r = 1 .. Len(r)
    OBVIOUS
  <1>2. \A i \in 1 .. Len(s) : r[i] = s[i]
    BY <1>1
  <1>3. ASSUME NEW i \in 1 .. Len(t)
        PROVE  r[Len(s) + i] = t[i]
    BY <1>1
  <1> QED
    BY <1>1, <1>2, <1>3

\* The first x of x + y updates at place 0, then y, come from places 0 and 1;
\* what is behind comes from the place one further.
From(x, y, n, k, i, l, j) ==
    \/ k = 0 /\ l = 0 /\ j = i /\ i \in 1 .. x
    \/ k = 0 /\ l = 1 /\ i = x + j /\ j \in 1 .. y
    \/ k \in 1 .. n /\ l = k + 1 /\ j = i /\ i \in Nat

\* When the first two of a line are joined the order of its places stays.
LEMMA Shifted ==
    ASSUME NEW x \in Nat, NEW y \in Nat, NEW n \in Nat, NEW k, NEW i, NEW l, NEW j,
           NEW k2, NEW i2, NEW l2, NEW j2,
           From(x, y, n, k, i, k2, i2), From(x, y, n, l, j, l2, j2), Ahead(k, i, l, j)
    PROVE  Ahead(k2, i2, l2, j2)
  <1>1. CASE k = 0 /\ l = 0
    BY <1>1 DEF From, Ahead
  <1>2. CASE k = 0 /\ l # 0
    BY <1>2 DEF From, Ahead
  <1>3. CASE k # 0 /\ l = 0
    BY <1>3 DEF From, Ahead
  <1>4. CASE k # 0 /\ l # 0
    BY <1>4 DEF From, Ahead
  <1> QED
    BY <1>1, <1>2, <1>3, <1>4

\* Whoever takes the first payload of the line adds its updates to his own.
Shortened(u, w, n, x, y) ==
    /\ u \in [0 .. n + 1 -> Seq(Update)] /\ w \in [0 .. n -> Seq(Update)]
    /\ DOMAIN u[0] = 1 .. x /\ DOMAIN u[1] = 1 .. y /\ DOMAIN w[0] = 1 .. x + y
    /\ \A i \in 1 .. x : w[0][i] = u[0][i]
    /\ \A i \in 1 .. y : w[0][x + i] = u[1][i]
    /\ \A k \in 1 .. n : w[k] = u[k + 1]

\* To join the first two of the line loses no bitmap.
LEMMA LosslessRead ==
    ASSUME NEW n \in Nat, NEW x \in Nat, NEW y \in Nat, NEW u, NEW w, NEW b \in Nat,
           Shortened(u, w, n, x, y), Lossless(u, b)
    PROVE  Lossless(w, b)
  <1>0. /\ u \in [0 .. n + 1 -> Seq(Update)] /\ w \in [0 .. n -> Seq(Update)]
        /\ DOMAIN u[0] = 1 .. x /\ DOMAIN u[1] = 1 .. y /\ DOMAIN w[0] = 1 .. x + y
        /\ \A i \in 1 .. x : w[0][i] = u[0][i]
        /\ \A i \in 1 .. y : w[0][x + i] = u[1][i]
        /\ \A k \in 1 .. n : w[k] = u[k + 1]
    BY DEF Shortened
  <1> USE <1>0
  <1>1. DOMAIN u = 0 .. n + 1 /\ DOMAIN w = 0 .. n
    OBVIOUS
  \* The place in u of what is at k, i in w.
  <1>2. ASSUME NEW k, NEW i, Carries(w, k, i)
        PROVE  \E l, j : /\ Carries(u, l, j) /\ u[l][j] = w[k][i]
                         /\ From(x, y, n, k, i, l, j)
    <2>1. k \in 0 .. n /\ i \in DOMAIN w[k] /\ w[k][i].type = "Bitmap"
      BY <1>1, <1>2 DEF Carries
    <2>2. CASE k = 0 /\ i \in 1 .. x
      <3>1. w[0][i] = u[0][i] /\ i \in DOMAIN u[0] /\ 0 \in DOMAIN u
        BY <1>1, <2>2
      <3>2. Carries(u, 0, i) /\ u[0][i] = w[k][i]
        BY <2>1, <2>2, <3>1, Zenon DEF Carries
      <3> QED
        BY <2>2, <3>2 DEF From
    <2>3. CASE k = 0 /\ i \notin 1 .. x
      <3>1. i \in 1 .. x + y
        BY <1>1, <2>1, <2>3, Zenon
      <3>2. PICK j \in 1 .. y : i = x + j
        <4>1. i - x \in 1 .. y /\ i = x + (i - x)
          BY <2>3, <3>1
        <4> QED
          BY <4>1
      <3>3. w[0][i] = u[1][j] /\ j \in DOMAIN u[1] /\ 1 \in DOMAIN u
        BY <1>1, <3>2
      <3>4. Carries(u, 1, j) /\ u[1][j] = w[k][i]
        BY <2>1, <2>3, <3>3, Zenon DEF Carries
      <3> QED
        BY <2>3, <3>2, <3>4 DEF From
    <2>4. CASE k # 0
      <3>1. k \in 1 .. n /\ k + 1 \in 0 .. n + 1 /\ w[k] = u[k + 1]
        BY <2>1, <2>4
      <3>2. Carries(u, k + 1, i) /\ u[k + 1][i] = w[k][i]
        BY <1>1, <2>1, <3>1 DEF Carries
      <3>3. i \in Nat
        <4>1. w[k] \in Seq(Update)
          BY <2>1
        <4>2. DOMAIN w[k] = 1 .. Len(w[k])
          BY <4>1
        <4> QED
          BY <2>1, <4>2
      <3> QED
        BY <3>1, <3>2, <3>3 DEF From
    <2> QED
      BY <2>2, <2>3, <2>4
  \* ... and the place in w of what is at l, j in u.
  <1>3. ASSUME NEW l, NEW j, Carries(u, l, j)
        PROVE  \E k, i : Carries(w, k, i) /\ w[k][i] = u[l][j]
    <2>1. l \in 0 .. n + 1 /\ j \in DOMAIN u[l] /\ u[l][j].type = "Bitmap"
      BY <1>1, <1>3 DEF Carries
    <2>2. CASE l = 0
      <3>1. j \in 1 .. x
        BY <1>1, <2>1, <2>2, Zenon
      <3>2. w[0][j] = u[0][j] /\ j \in DOMAIN w[0] /\ 0 \in DOMAIN w
        BY <1>1, <3>1
      <3>3. Carries(w, 0, j) /\ w[0][j] = u[l][j]
        BY <2>1, <2>2, <3>2, Zenon DEF Carries
      <3> QED
        BY <3>3
    <2>3. CASE l = 1
      <3>1. j \in 1 .. y
        BY <1>1, <2>1, <2>3, Zenon
      <3>2. PICK i : i = x + j
        OBVIOUS
      <3>3. w[0][i] = u[1][j] /\ i \in DOMAIN w[0] /\ 0 \in DOMAIN w
        BY <1>1, <3>1, <3>2
      <3>4. Carries(w, 0, i) /\ w[0][i] = u[l][j]
        BY <2>1, <2>3, <3>3, Zenon DEF Carries
      <3> QED
        BY <3>4
    <2>4. CASE l \notin {0, 1}
      <3>1. PICK k \in 1 .. n : l = k + 1
        <4>1. l - 1 \in 1 .. n /\ l = (l - 1) + 1
          BY <2>1, <2>4
        <4> QED
          BY <4>1
      <3>2. Carries(w, k, j) /\ w[k][j] = u[l][j]
        BY <1>1, <2>1, <3>1 DEF Carries
      <3> QED
        BY <3>2
    <2> QED
      BY <2>2, <2>3, <2>4
  <1>4. ASSUME NEW k, NEW i, Carries(w, k, i)
        PROVE  w[k][i].n \in 1 .. b
    <2>1. PICK l, j : Carries(u, l, j) /\ u[l][j] = w[k][i]
      BY <1>2, <1>4
    <2>2. u[l][j].n \in 1 .. b
      BY <2>1, Zenon DEF Lossless
    <2> QED
      BY <2>1, <2>2
  <1>5. ASSUME NEW v \in 1 .. b
        PROVE  \E k, i : Carries(w, k, i) /\ w[k][i].n = v
    <2>1. PICK l, j : Carries(u, l, j) /\ u[l][j].n = v
      BY Zenon DEF Lossless
    <2>2. PICK k, i : Carries(w, k, i) /\ w[k][i] = u[l][j]
      BY <1>3, <2>1
    <2> QED
      BY <2>1, <2>2
  <1>6. ASSUME NEW k, NEW i, NEW l, NEW j, Carries(w, k, i), Carries(w, l, j), Ahead(k, i, l, j)
        PROVE  w[k][i].n < w[l][j].n
    <2>1. PICK k2, i2 : Carries(u, k2, i2) /\ u[k2][i2] = w[k][i] /\ From(x, y, n, k, i, k2, i2)
      BY <1>2, <1>6
    <2>2. PICK l2, j2 : Carries(u, l2, j2) /\ u[l2][j2] = w[l][j] /\ From(x, y, n, l, j, l2, j2)
      BY <1>2, <1>6
    <2>3. Ahead(k2, i2, l2, j2)
      BY <1>6, <2>1, <2>2, Shifted
    <2>4. u[k2][i2].n < u[l2][j2].n
      BY <2>1, <2>2, <2>3, Zenon DEF Lossless
    <2> QED
      BY <2>1, <2>2, <2>4
  <1> QED
    BY <1>4, <1>5, <1>6, Zenon DEF Lossless

\* A payload at the end of the line brings no bitmap, or the next.
Lengthened(u, w, n, b, c) ==
    /\ u \in [0 .. n -> Seq(Update)] /\ w \in [0 .. n + 1 -> Seq(Update)]
    /\ \A k \in 0 .. n : w[k] = u[k]
    /\ \/ c = b /\ \A i : ~Carries(w, n + 1, i)
       \/ /\ c = b + 1
          /\ \E i : /\ Carries(w, n + 1, i) /\ w[n + 1][i].n = c
                    /\ \A j : Carries(w, n + 1, j) => j = i

\* To append one payload brings no bitmap or the next.
LEMMA LosslessSend ==
    ASSUME NEW n \in Nat, NEW b \in Nat, NEW c \in Nat, NEW u, NEW w,
           Lengthened(u, w, n, b, c), Lossless(u, b)
    PROVE  Lossless(w, c)
  <1>0. /\ u \in [0 .. n -> Seq(Update)] /\ w \in [0 .. n + 1 -> Seq(Update)]
        /\ \A k \in 0 .. n : w[k] = u[k]
        /\ \/ c = b /\ \A i : ~Carries(w, n + 1, i)
           \/ /\ c = b + 1
              /\ \E i : /\ Carries(w, n + 1, i) /\ w[n + 1][i].n = c
                        /\ \A j : Carries(w, n + 1, j) => j = i
    BY DEF Lengthened
  <1> USE <1>0
  <1>1. DOMAIN u = 0 .. n /\ DOMAIN w = 0 .. n + 1
    OBVIOUS
  <1>2. ASSUME NEW k, NEW i, Carries(w, k, i), k # n + 1
        PROVE  Carries(u, k, i) /\ w[k][i] = u[k][i] /\ w[k][i].n \in 1 .. b /\ k \in 0 .. n
    <2>1. k \in 0 .. n /\ w[k] = u[k]
      BY <1>1, <1>2 DEF Carries
    <2>2. Carries(u, k, i)
      BY <1>1, <1>2, <2>1 DEF Carries
    <2>3. u[k][i].n \in 1 .. b
      BY <2>2, Zenon DEF Lossless
    <2> QED
      BY <2>1, <2>2, <2>3
  <1>3. ASSUME NEW i, Carries(w, n + 1, i)
        PROVE  /\ c = b + 1 /\ w[n + 1][i].n = c
               /\ i \in Nat
               /\ \A j : Carries(w, n + 1, j) => j = i
    <2>1. n + 1 \in 0 .. n + 1 /\ i \in DOMAIN w[n + 1]
      BY <1>1, <1>3 DEF Carries
    <2>2. i \in Nat
      BY <2>1
    <2>3. PICK h : /\ c = b + 1
                   /\ Carries(w, n + 1, h) /\ w[n + 1][h].n = c
                   /\ \A j : Carries(w, n + 1, j) => j = h
      BY <1>3
    <2>4. h = i
      BY <1>3, <2>3
    <2> QED
      BY <2>2, <2>3, <2>4
  <1>4. ASSUME NEW k, NEW i, Carries(w, k, i)
        PROVE  w[k][i].n \in 1 .. c
    <2>1. b <= c
      OBVIOUS
    <2>2. CASE k = n + 1
      <3>1. w[k][i].n = c /\ c = b + 1
        BY <1>3, <1>4, <2>2
      <3> QED
        BY <3>1
    <2>3. CASE k # n + 1
      <3>1. w[k][i].n \in 1 .. b
        BY <1>2, <1>4, <2>3
      <3> QED
        BY <2>1, <3>1
    <2> QED
      BY <2>2, <2>3
  <1>5. ASSUME NEW v \in 1 .. c
        PROVE  \E k, i : Carries(w, k, i) /\ w[k][i].n = v
    <2>1. CASE v \in 1 .. b
      <3>1. PICK k, i : Carries(u, k, i) /\ u[k][i].n = v
        BY <2>1, Zenon DEF Lossless
      <3>2. k \in 0 .. n /\ w[k] = u[k] /\ k \in 0 .. n + 1
        BY <1>1, <3>1 DEF Carries
      <3>3. Carries(w, k, i) /\ w[k][i].n = v
        BY <1>1, <3>1, <3>2 DEF Carries
      <3> QED
        BY <3>3
    <2>2. CASE v \notin 1 .. b
      <3>1. c = b + 1 /\ v = c
        BY <2>2
      <3>2. PICK i : Carries(w, n + 1, i) /\ w[n + 1][i].n = c
        BY <3>1
      <3> QED
        BY <3>1, <3>2
    <2> QED
      BY <2>1, <2>2
  <1>6. ASSUME NEW k, NEW i, NEW l, NEW j, Carries(w, k, i), Carries(w, l, j), Ahead(k, i, l, j)
        PROVE  w[k][i].n < w[l][j].n
    <2>1. CASE k # n + 1 /\ l # n + 1
      <3>1. /\ Carries(u, k, i) /\ w[k][i] = u[k][i]
            /\ Carries(u, l, j) /\ w[l][j] = u[l][j]
        BY <1>2, <1>6, <2>1
      <3>2. u[k][i].n < u[l][j].n
        BY <1>6, <3>1, Zenon DEF Lossless
      <3> QED
        BY <3>1, <3>2
    <2>2. CASE k # n + 1 /\ l = n + 1
      <3>1. w[k][i].n \in 1 .. b
        BY <1>2, <1>6, <2>2
      <3>2. w[l][j].n = b + 1
        BY <1>3, <1>6, <2>2
      <3> QED
        BY <3>1, <3>2
    <2>3. CASE k = n + 1 /\ l # n + 1
      <3>1. l \in 0 .. n
        BY <1>2, <1>6, <2>3
      <3> QED
        BY <1>6, <2>3, <3>1 DEF Ahead
    <2>4. CASE k = n + 1 /\ l = n + 1
      <3>1. i = j /\ i \in Nat
        BY <1>3, <1>6, <2>4
      <3> QED
        BY <1>6, <2>4, <3>1 DEF Ahead
    <2> QED
      BY <2>1, <2>2, <2>3, <2>4
  <1> QED
    BY <1>4, <1>5, <1>6, Zenon DEF Lossless

Kept == Orderly => Lossless(Line, bitmaps)

\* The line: what is handled, then the payloads of the queue.
LEMMA LineType ==
    ASSUME NEW h \in Seq(Update), NEW q \in Seq(Payload), NEW u,
           u = [k \in 0 .. Len(q) |-> IF k = 0 THEN h ELSE q[k].updates]
    PROVE  /\ Len(q) \in Nat /\ u \in [0 .. Len(q) -> Seq(Update)]
           /\ u[0] = h /\ \A k \in 1 .. Len(q) : u[k] = q[k].updates
  <1>1. Len(q) \in Nat /\ DOMAIN q = 1 .. Len(q)
    OBVIOUS
  <1>2. ASSUME NEW k \in 1 .. Len(q)
        PROVE  q[k].updates \in Seq(Update)
    <2>1. q[k] \in Payload
      BY <1>1, <1>2
    <2> QED
      BY <2>1 DEF Payload
  <1>3. \A k \in 0 .. Len(q) : k = 0 \/ k \in 1 .. Len(q)
    BY <1>1
  <1>4. 0 \in 0 .. Len(q) /\ \A k \in 1 .. Len(q) : k \in 0 .. Len(q) /\ k # 0
    BY <1>1
  <1> QED
    BY <1>1, <1>2, <1>3, <1>4

\* A read goes through all the updates of the payload it takes.
LEMMA ReadTakes ==
    ASSUME TypeOK, Read, s2c # <<>>, OnTheWay \/ Quiet
    PROVE  s2c' = Tail(s2c) /\ handled' = handled \o Head(s2c).updates
  <1>1. s2c \in Seq(Payload) /\ handled \in Seq(Update) /\ state \in ClientState
    BY DEF TypeOK
  <1>2. Received /\ ~ReadEof
    <2>1. ~ReadEof
      BY DEF ReadEof
    <2> QED
      BY <2>1 DEF Read, ReadDemandActivePdu, ReadSynchronizePdu, ReadControlCooperate,
               ReadControlGranted, ReadFontMapPdu, Advance, ReadUnwanted, ReadDataPdu,
               ReadFastPath, ReadNotGlobal
  <1>3. s2c' = Tail(s2c)
    BY <1>2 DEF Received
  <1>4. payload \in Payload /\ payload = Head(s2c) /\ payload = s2c[1] /\ 1 \in DOMAIN s2c
    BY <1>1 DEF payload
  <1>5. CASE ReadFastPath
    BY <1>3, <1>4, <1>5 DEF ReadFastPath
  <1>6. CASE ~ReadFastPath
    <2>1. handled' = handled
      BY <1>2, <1>6 DEF Read, ReadDemandActivePdu, ReadSynchronizePdu, ReadControlCooperate,
               ReadControlGranted, ReadFontMapPdu, Advance, ReadUnwanted, ReadDataPdu,
               ReadNotGlobal
    <2>2. payload.updates = <<>>
      <3>1. CASE Quiet
        BY <1>4, <3>1 DEF Quiet
      <3>2. CASE OnTheWay
        <4>1. PICK c \in Nat : Between(s2c, ClientAt, c)
          BY <3>2 DEF OnTheWay
        <4>2. PICK b : Fits(payload, ClientAt, b)
          BY <1>1, <1>4, <4>1, ReadOne
        <4>3. \/ \E m \in ServerPDU : payload = Raw(<<m>>)
              \/ state = "Data" /\ payload.kind = "FastPath"
          <5>1. Meets(payload, b)
            BY <1>4, <4>2, Met
          <5> QED
            BY <5>1, Zenon DEF Meets
        <4>4. CASE \E m \in ServerPDU : payload = Raw(<<m>>)
          <5>1. PICK m \in ServerPDU : payload = Raw(<<m>>)
            BY <4>4
          <5> QED
            BY <5>1 DEF Raw
        <4>5. CASE state = "Data" /\ payload.kind = "FastPath"
          <5>1. ~(ReadDemandActivePdu \/ ReadSynchronizePdu \/ ReadControlCooperate
                    \/ ReadControlGranted \/ ReadFontMapPdu \/ ReadUnwanted \/ ReadDataPdu)
            BY <4>5 DEF ReadDemandActivePdu, ReadSynchronizePdu, ReadControlCooperate,
               ReadControlGranted, ReadFontMapPdu, Advance, ReadUnwanted, ReadDataPdu
          <5>2. ~ReadNotGlobal
            BY <4>5 DEF ReadNotGlobal, SwitchKinds
          <5> QED
            BY <1>2, <1>6, <5>1, <5>2 DEF Read
        <4> QED
          BY <4>3, <4>4, <4>5
      <3> QED
        BY <3>1, <3>2
    <2>3. handled \o <<>> = handled
      BY <1>1
    <2> QED
      BY <1>3, <1>4, <2>1, <2>2, <2>3
  <1> QED
    BY <1>5, <1>6

\* A read joins the first two of the line.
LEMMA KeptRead ==
    ASSUME TypeOK, TypeOK', NEW b \in Nat, Lossless(Line, b),
           s2c # <<>>, s2c' = Tail(s2c), handled' = handled \o Head(s2c).updates
    PROVE  Lossless(Line, b)'
  <1>1. s2c \in Seq(Payload) /\ handled \in Seq(Update)
    BY DEF TypeOK
  <1>2. PICK n \in Nat : n = Len(s2c) - 1
    <2>1. Len(s2c) \in Nat /\ Len(s2c) > 0
      BY <1>1
    <2>2. Len(s2c) - 1 \in Nat
      BY <2>1
    <2> QED
      BY <2>2
  <1>3. /\ Len(s2c) = n + 1 /\ Len(s2c') = n
        /\ DOMAIN s2c = 1 .. n + 1 /\ DOMAIN s2c' = 1 .. n
        /\ \A i \in 1 .. n : i + 1 \in 1 .. n + 1 /\ s2c'[i] = s2c[i + 1]
        /\ Head(s2c) = s2c[1] /\ 1 \in DOMAIN s2c
    <2>1. PICK r : r = Tail(s2c)
      OBVIOUS
    <2>2. /\ r \in Seq(Payload) /\ Len(s2c) \in Nat
          /\ DOMAIN r = 1 .. Len(s2c) - 1 /\ DOMAIN s2c = 1 .. Len(s2c)
          /\ \A i \in DOMAIN r : i + 1 \in DOMAIN s2c /\ r[i] = s2c[i + 1]
          /\ 1 \in DOMAIN s2c /\ Head(s2c) = s2c[1]
      BY <1>1, <2>1, TailShifts
    <2>3. Len(r) = n
      BY <1>1, <1>2, <2>1
    <2> QED
      BY <1>2, <2>1, <2>2, <2>3
  <1>4. PICK u : u = Line
    OBVIOUS
  <1>5. PICK w : w = Line'
    OBVIOUS
  <1>6. /\ u \in [0 .. n + 1 -> Seq(Update)] /\ u[0] = handled
        /\ \A k \in 1 .. n + 1 : u[k] = s2c[k].updates
    <2>1. PICK h \in Seq(Update), q \in Seq(Payload) : h = handled /\ q = s2c
      BY <1>1
    <2>2. u = [k \in 0 .. Len(q) |-> IF k = 0 THEN h ELSE q[k].updates]
      BY <1>4, <2>1, Zenon DEF Line
    <2>3. /\ u \in [0 .. Len(q) -> Seq(Update)] /\ u[0] = h
          /\ \A k \in 1 .. Len(q) : u[k] = q[k].updates
      BY <2>2, LineType
    <2>4. Len(q) = n + 1
      BY <1>3, <2>1
    <2> QED
      BY <2>1, <2>3, <2>4, Zenon
  <1>7. /\ w \in [0 .. n -> Seq(Update)] /\ w[0] = handled'
        /\ \A k \in 1 .. n : w[k] = s2c'[k].updates
    <2>1. PICK h \in Seq(Update), q \in Seq(Payload) : h = handled' /\ q = s2c'
      BY DEF TypeOK
    <2>2. w = [k \in 0 .. Len(q) |-> IF k = 0 THEN h ELSE q[k].updates]
      BY <1>5, <2>1, Zenon DEF Line
    <2>3. /\ w \in [0 .. Len(q) -> Seq(Update)] /\ w[0] = h
          /\ \A k \in 1 .. Len(q) : w[k] = q[k].updates
      BY <2>2, LineType
    <2>4. Len(q) = n
      BY <1>3, <2>1
    <2> QED
      BY <2>1, <2>3, <2>4, Zenon
  <1>8. PICK s \in Seq(Update), t \in Seq(Update) :
            s = handled /\ t = Head(s2c).updates /\ u[0] = s /\ u[1] = t
    <2>1. Head(s2c).updates = u[1] /\ u[1] \in Seq(Update)
      <3>1. 1 \in 1 .. n + 1 /\ 1 \in 0 .. n + 1
        OBVIOUS
      <3> QED
        BY <1>3, <1>6, <3>1
    <2> QED
      BY <1>1, <1>6, <2>1
  <1>9. w[0] = s \o t
    BY <1>7, <1>8
  <1>10. PICK r : r = s \o t
    OBVIOUS
  <1>11. PICK x \in Nat, y \in Nat :
            /\ DOMAIN s = 1 .. x /\ DOMAIN t = 1 .. y /\ DOMAIN r = 1 .. x + y
            /\ \A i \in 1 .. x : r[i] = s[i]
            /\ \A i \in 1 .. y : r[x + i] = t[i]
    <2>1. /\ Len(s) \in Nat /\ Len(t) \in Nat
          /\ DOMAIN s = 1 .. Len(s) /\ DOMAIN t = 1 .. Len(t) /\ DOMAIN r = 1 .. Len(s) + Len(t)
          /\ \A i \in 1 .. Len(s) : r[i] = s[i]
          /\ \A i \in 1 .. Len(t) : r[Len(s) + i] = t[i]
      BY <1>10, Joined
    <2> QED
      BY <2>1
  <1>12. /\ DOMAIN u[0] = 1 .. x /\ DOMAIN u[1] = 1 .. y /\ DOMAIN w[0] = 1 .. x + y
         /\ \A i \in 1 .. x : w[0][i] = u[0][i]
         /\ \A i \in 1 .. y : w[0][x + i] = u[1][i]
    BY <1>8, <1>9, <1>10, <1>11
  <1>13. \A k \in 1 .. n : w[k] = u[k + 1]
    BY <1>3, <1>6, <1>7
  <1>14. Lossless(u, b)
    BY <1>4
  <1>15. Shortened(u, w, n, x, y)
    BY <1>6, <1>7, <1>12, <1>13, Zenon DEF Shortened
  <1>16. Lossless(w, b)
    BY <1>14, <1>15, LosslessRead, Zenon
  <1> QED
    BY <1>5, <1>16

\* A send appends to the line.
LEMMA KeptSend ==
    ASSUME TypeOK, TypeOK', NEW b \in Nat, NEW c \in Nat, Lossless(Line, b),
           NEW p, s2c' = Append(s2c, p), handled' = handled,
           \/ c = b /\ p.updates = <<>>
           \/ /\ c = b + 1
              /\ \E i : /\ i \in DOMAIN p.updates
                        /\ p.updates[i].type = "Bitmap" /\ p.updates[i].n = c
                        /\ \A j \in DOMAIN p.updates : p.updates[j].type = "Bitmap" => j = i
    PROVE  Lossless(Line, c)'
  <1>1. s2c \in Seq(Payload) /\ s2c' \in Seq(Payload) /\ handled \in Seq(Update)
    BY DEF TypeOK
  <1>2. PICK n \in Nat : n = Len(s2c)
    BY <1>1
  <1>3. /\ Len(s2c') = n + 1 /\ DOMAIN s2c = 1 .. n /\ DOMAIN s2c' = 1 .. n + 1
        /\ \A k \in 1 .. n : s2c'[k] = s2c[k]
        /\ s2c'[n + 1] = p
    <2>1. /\ Len(s2c') = n + 1 /\ DOMAIN s2c = 1 .. n /\ DOMAIN s2c' = 1 .. n + 1
      BY <1>1, <1>2
    <2> QED
      BY <1>1, <1>2, <2>1
  <1>4. PICK u : u = Line
    OBVIOUS
  <1>5. PICK w : w = Line'
    OBVIOUS
  <1>6. /\ u \in [0 .. n -> Seq(Update)] /\ u[0] = handled
        /\ \A k \in 1 .. n : u[k] = s2c[k].updates
    <2>1. PICK h \in Seq(Update), q \in Seq(Payload) : h = handled /\ q = s2c
      BY <1>1
    <2>2. u = [k \in 0 .. Len(q) |-> IF k = 0 THEN h ELSE q[k].updates]
      BY <1>4, <2>1, Zenon DEF Line
    <2>3. /\ u \in [0 .. Len(q) -> Seq(Update)] /\ u[0] = h
          /\ \A k \in 1 .. Len(q) : u[k] = q[k].updates
      BY <2>2, LineType
    <2>4. Len(q) = n
      BY <1>2, <2>1
    <2> QED
      BY <2>1, <2>3, <2>4, Zenon
  <1>7. /\ w \in [0 .. n + 1 -> Seq(Update)] /\ w[0] = handled
        /\ \A k \in 1 .. n + 1 : w[k] = s2c'[k].updates
    <2>1. PICK h \in Seq(Update), q \in Seq(Payload) : h = handled' /\ q = s2c'
      BY DEF TypeOK
    <2>2. w = [k \in 0 .. Len(q) |-> IF k = 0 THEN h ELSE q[k].updates]
      BY <1>5, <2>1, Zenon DEF Line
    <2>3. /\ w \in [0 .. Len(q) -> Seq(Update)] /\ w[0] = h
          /\ \A k \in 1 .. Len(q) : w[k] = q[k].updates
      BY <2>2, LineType
    <2>4. Len(q) = n + 1
      BY <1>3, <2>1
    <2> QED
      BY <2>1, <2>3, <2>4, Zenon
  <1>8. \A k \in 0 .. n : w[k] = u[k]
    <2>1. \A k \in 0 .. n : k = 0 \/ (k \in 1 .. n /\ k \in 1 .. n + 1)
      OBVIOUS
    <2> QED
      BY <1>3, <1>6, <1>7, <2>1
  <1>9. w[n + 1] = p.updates /\ n + 1 \in DOMAIN w
    BY <1>3, <1>7
  <1>10. \/ c = b /\ \A i : ~Carries(w, n + 1, i)
         \/ /\ c = b + 1
            /\ \E i : /\ Carries(w, n + 1, i) /\ w[n + 1][i].n = c
                      /\ \A j : Carries(w, n + 1, j) => j = i
    <2>1. CASE c = b /\ p.updates = <<>>
      <3>1. DOMAIN <<>> = {}
        OBVIOUS
      <3> QED
        BY <1>9, <2>1, <3>1, Zenon DEF Carries
    <2>2. CASE /\ c = b + 1
               /\ \E i : /\ i \in DOMAIN p.updates
                         /\ p.updates[i].type = "Bitmap" /\ p.updates[i].n = c
                         /\ \A j \in DOMAIN p.updates : p.updates[j].type = "Bitmap" => j = i
      BY <1>9, <2>2, Zenon DEF Carries
    <2> QED
      BY <2>1, <2>2
  <1>11. Lossless(w, c)
    <2>1. Lossless(u, b)
      BY <1>4
    <2>2. Lengthened(u, w, n, b, c)
      BY <1>6, <1>7, <1>8, <1>10, Zenon DEF Lengthened
    <2> QED
      BY <2>1, <2>2, LosslessSend, Zenon
  <1> QED
    BY <1>5, <1>11

\* The client keeps Kept.
LEMMA KeptClient ==
    ASSUME Typed, TypeOK, TypeOK', Paced, Kept, ClientStep
    PROVE  Kept'
  <1> SUFFICES ASSUME Orderly'
               PROVE  Lossless(Line, bitmaps)'
    BY DEF Kept
  <1>1. Orderly /\ UNCHANGED srvVars /\ bitmaps' = bitmaps /\ bitmaps \in Nat
    BY SessionAssumption DEF ClientStep, srvVars, Orderly, Typed, SessionTypeOK
  <1>2. PICK b \in Nat : b = bitmaps
    BY <1>1
  <1>3. Lossless(Line, b)
    BY <1>1, <1>2 DEF Kept
  <1>4. ASSUME s2c' = s2c, handled' = handled
        PROVE  Lossless(Line, b)'
    <2>1. Line' = Line
      BY <1>4 DEF Line
    <2> QED
      BY <1>3, <2>1, Zenon
  <1>5. CASE Write \/ TryWrite \/ Shutdown \/ LinkDrop
    <2>1. Write => s2c' = s2c /\ handled' = handled
      BY DEF Write
    <2>2. s2c' = s2c /\ handled' = handled
      BY <1>5, <2>1 DEF TryWrite, Shutdown, LinkDrop, linkVars, clientVars
    <2> QED
      BY <1>1, <1>2, <1>4, <2>2, Zenon
  <1>6. CASE Read
    <2>1. CASE s2c = <<>>
      <3>1. ReadEof
        BY <1>6, <2>1 DEF Read, ReadDemandActivePdu, ReadSynchronizePdu, ReadControlCooperate,
               ReadControlGranted, ReadFontMapPdu, Advance, ReadUnwanted, ReadDataPdu,
               ReadFastPath, ReadNotGlobal, Received
      <3>2. s2c' = s2c /\ handled' = handled
        BY <3>1 DEF ReadEof, linkVars
      <3> QED
        BY <1>1, <1>2, <1>4, <3>2, Zenon
    <2>2. CASE s2c # <<>>
      <3>1. OnTheWay \/ Quiet
        BY <1>1 DEF Paced
      <3>2. s2c' = Tail(s2c) /\ handled' = handled \o Head(s2c).updates
        BY <1>6, <2>2, <3>1, ReadTakes
      <3>3. Lossless(Line, b)'
        BY <1>3, <2>2, <3>2, KeptRead
      <3> QED
        BY <1>1, <1>2, <3>3, Zenon
    <2> QED
      BY <2>1, <2>2
  <1> QED
    BY <1>5, <1>6 DEF ClientStep

\* So does the server.
LEMMA KeptServer ==
    ASSUME Typed, Typed', TypeOK, TypeOK', Kept, ServerStep
    PROVE  Kept'
  <1>1. SessionTypeOK /\ bitmaps \in Nat
    BY SessionAssumption DEF Typed, SessionTypeOK
  <1>2. manners' = manners
    BY <1>1, ServerType
  <1> SUFFICES ASSUME Orderly
               PROVE  Lossless(Line, bitmaps)'
    BY <1>2 DEF Kept, Orderly
  <1>3. PICK b \in Nat : b = bitmaps
    BY <1>1
  <1>4. Lossless(Line, b)
    BY <1>3 DEF Kept
  <1>5. ASSUME s2c' = s2c, handled' = handled, bitmaps' = bitmaps
        PROVE  Lossless(Line, bitmaps)'
    <2>1. Line' = Line
      BY <1>5 DEF Line
    <2> QED
      BY <1>3, <1>4, <1>5, <2>1, Zenon
  <1>6. ASSUME NEW p, Deliver(p), p.updates = <<>>, bitmaps' = bitmaps
        PROVE  Lossless(Line, bitmaps)'
    <2>1. s2c' = Append(s2c, p) /\ handled' = handled
      BY <1>6 DEF Deliver, clientVars
    <2>2. Lossless(Line, b)'
      BY <1>4, <1>6, <2>1, KeptSend
    <2> QED
      BY <1>3, <1>6, <2>2, Zenon
  <1>7. CASE SrvDemand \/ Speaks
    <2>1. \A type : Say(type) => s2c' = s2c /\ handled' = handled
      BY DEF Say, vars, clientVars, linkVars
    <2>2. CASE SrvDemand
      BY <1>5, <2>1, <2>2 DEF SrvDemand
    <2>3. CASE Speaks
      <3>1. PICK from, to \in Phase, type \in ServerTypes : Step(from, to, type)
        BY <1>1, <2>3, Speaking
      <3> QED
        BY <1>5, <2>1, <3>1 DEF Step
    <2> QED
      BY <1>7, <2>2, <2>3
  <1>8. CASE SrvReceive
    <2>1. UNCHANGED <<vars, bitmaps>>
      BY <1>8 DEF SrvReceive
    <2> QED
      BY <1>5, <2>1 DEF vars, clientVars, linkVars
  <1>9. CASE SrvNoise
    <2>1. PICK q : Deliver(Raw(q))
      BY <1>9, Zenon DEF SrvNoise
    <2>2. PICK p : p = Raw(q)
      OBVIOUS
    <2>3. Deliver(p) /\ p.updates = <<>> /\ bitmaps' = bitmaps
      BY <1>9, <2>1, <2>2 DEF SrvNoise, srvVars, Raw
    <2> QED
      BY <1>6, <2>3
  <1>10. CASE Flush
    <2>1. PICK q : Deliver(Raw(q))
      BY <1>10, Zenon DEF Flush
    <2>2. PICK p : p = Raw(q)
      OBVIOUS
    <2>3. Deliver(p) /\ p.updates = <<>> /\ bitmaps' = bitmaps
      BY <1>10, <2>1, <2>2 DEF Flush, Raw
    <2> QED
      BY <1>6, <2>3
  <1>11. CASE SrvUpdate
    <2>1. PICK c \in Nat : c = b + 1
      OBVIOUS
    <2>2. bitmaps' = c
      BY <1>3, <1>11, <2>1 DEF SrvUpdate
    <2>3. PICK m : m = [type |-> "Bitmap", n |-> bitmaps']
      OBVIOUS
    <2>4. m.type = "Bitmap" /\ m.n = c
      BY <2>2, <2>3
    <2>5. ASSUME NEW q \in Seq(Update), Deliver(FastPath(q)), NEW i \in DOMAIN q, q[i] = m,
                 \A j \in DOMAIN q : q[j].type = "Bitmap" => j = i
          PROVE  Lossless(Line, bitmaps)'
      <3>1. PICK p : p = FastPath(q)
        OBVIOUS
      <3>2. p.updates = q
        BY <3>1 DEF FastPath
      <3>3. s2c' = Append(s2c, p) /\ handled' = handled
        BY <2>5, <3>1 DEF Deliver, clientVars
      <3>4. \E h : /\ h \in DOMAIN p.updates
                   /\ p.updates[h].type = "Bitmap" /\ p.updates[h].n = c
                   /\ \A j \in DOMAIN p.updates : p.updates[j].type = "Bitmap" => j = h
        BY <2>4, <2>5, <3>2
      <3>5. Lossless(Line, c)'
        BY <1>4, <2>1, <3>3, <3>4, KeptSend
      <3> QED
        BY <2>2, <3>5, Zenon
    <2>6. m \in Update
      BY <2>2, <2>3 DEF Update
    <2>7. CASE Deliver(FastPath(<<m>>))
      <3>1. PICK q : q = <<m>>
        OBVIOUS
      <3>2. q \in Seq(Update) /\ DOMAIN q = {1} /\ q[1] = m
        BY <2>6, <3>1
      <3>3. Deliver(FastPath(q))
        BY <2>7, <3>1, Zenon
      <3> QED
        BY <2>5, <3>2, <3>3
    <2>8. CASE \E type \in {"Pointer", "Unparsed"} :
                  Deliver(FastPath(<<[type |-> type, n |-> 0], m>>))
      <3>1. PICK type \in {"Pointer", "Unparsed"} :
                  Deliver(FastPath(<<[type |-> type, n |-> 0], m>>))
        BY <2>8
      <3>2. PICK l : l = [type |-> type, n |-> 0]
        OBVIOUS
      <3>3. l \in Update /\ l.type # "Bitmap"
        BY <3>2 DEF Update
      <3>4. PICK q : q = <<l, m>>
        OBVIOUS
      <3>5. q \in Seq(Update) /\ DOMAIN q = {1, 2} /\ q[1] = l /\ q[2] = m
        BY <2>6, <3>3, <3>4
      <3>6. Deliver(FastPath(q))
        BY <3>1, <3>2, <3>4, Zenon
      <3>7. \A j \in DOMAIN q : q[j].type = "Bitmap" => j = 2
        BY <3>3, <3>5
      <3> QED
        BY <2>5, <3>5, <3>6, <3>7
    <2>9. \/ Deliver(FastPath(<<m>>))
          \/ \E type \in {"Pointer", "Unparsed"} :
                Deliver(FastPath(<<[type |-> type, n |-> 0], m>>))
      BY <1>11, <2>3, Zenon DEF SrvUpdate
    <2> QED
      BY <2>7, <2>8, <2>9
  <1> QED
    BY <1>7, <1>8, <1>9, <1>10, <1>11, Zenon DEF ServerStep, Speaks

\* In places of Session: the numbers are those of the bitmaps sent.
LEMMA KeptSays ==
    ASSUME TypeOK, Kept
    PROVE  NoBitmapLost
  <1> SUFFICES ASSUME Orderly
               PROVE  /\ {NumberAt(p) : p \in BitmapPlaces} = 1 .. bitmaps
                      /\ \A p, q \in BitmapPlaces : Earlier(p, q) => NumberAt(p) < NumberAt(q)
    BY DEF NoBitmapLost
  <1>1. PICK u : u = Line
    OBVIOUS
  <1>2. Lossless(u, bitmaps)
    BY <1>1 DEF Kept
  <1>3. ASSUME NEW p \in BitmapPlaces
        PROVE  \E k, i : p = <<k, i>> /\ Carries(u, k, i) /\ NumberAt(p) = u[k][i].n
    <2>1. PICK k \in DOMAIN u : p \in {k} \X DOMAIN u[k] /\ u[p[1]][p[2]].type = "Bitmap"
      BY <1>1, <1>3 DEF BitmapPlaces
    <2>2. PICK i \in DOMAIN u[k] : p = <<k, i>>
      BY <2>1
    <2>3. p[1] = k /\ p[2] = i
      BY <2>2
    <2>4. Carries(u, k, i)
      BY <2>1, <2>2, <2>3 DEF Carries
    <2>5. NumberAt(p) = u[k][i].n
      BY <1>1, <2>3 DEF NumberAt
    <2> QED
      BY <2>2, <2>4, <2>5
  <1>4. ASSUME NEW k, NEW i, Carries(u, k, i)
        PROVE  \E p \in BitmapPlaces : NumberAt(p) = u[k][i].n
    <2>1. k \in DOMAIN u /\ i \in DOMAIN u[k] /\ u[k][i].type = "Bitmap"
      BY <1>4 DEF Carries
    <2>2. PICK p : p = <<k, i>>
      OBVIOUS
    <2>3. p[1] = k /\ p[2] = i /\ p \in {k} \X DOMAIN u[k]
      BY <2>1, <2>2
    <2>4. p \in BitmapPlaces
      BY <1>1, <2>1, <2>3 DEF BitmapPlaces
    <2>5. NumberAt(p) = u[k][i].n
      BY <1>1, <2>3 DEF NumberAt
    <2> QED
      BY <2>4, <2>5
  <1>5. {NumberAt(p) : p \in BitmapPlaces} = 1 .. bitmaps
    <2>1. ASSUME NEW p \in BitmapPlaces
          PROVE  NumberAt(p) \in 1 .. bitmaps
      <3>1. PICK k, i : Carries(u, k, i) /\ NumberAt(p) = u[k][i].n
        BY <1>3
      <3>2. u[k][i].n \in 1 .. bitmaps
        BY <1>2, <3>1, Zenon DEF Lossless
      <3> QED
        BY <3>1, <3>2
    <2>2. ASSUME NEW v \in 1 .. bitmaps
          PROVE  \E p \in BitmapPlaces : NumberAt(p) = v
      <3>1. PICK k, i : Carries(u, k, i) /\ u[k][i].n = v
        BY <1>2, Zenon DEF Lossless
      <3> QED
        BY <1>4, <3>1
    <2> QED
      BY <2>1, <2>2
  <1>6. ASSUME NEW p \in BitmapPlaces, NEW q \in BitmapPlaces, Earlier(p, q)
        PROVE  NumberAt(p) < NumberAt(q)
    <2>1. PICK k, i : p = <<k, i>> /\ Carries(u, k, i) /\ NumberAt(p) = u[k][i].n
      BY <1>3
    <2>2. PICK l, j : q = <<l, j>> /\ Carries(u, l, j) /\ NumberAt(q) = u[l][j].n
      BY <1>3
    <2>3. p[1] = k /\ p[2] = i /\ q[1] = l /\ q[2] = j
      BY <2>1, <2>2
    <2>4. Ahead(k, i, l, j)
      BY <1>6, <2>3, Zenon DEF Earlier, Ahead
    <2>5. u[k][i].n < u[l][j].n
      BY <1>2, <2>1, <2>2, <2>4, Zenon DEF Lossless
    <2> QED
      BY <2>1, <2>2, <2>5
  <1> QED
    BY <1>5, <1>6

(***************************************************************************)
(* No bitmap of an orderly server is lost, doubled or overtaken: a client  *)
(* is in the Data state whenever it meets a fast path payload, over any    *)
(* number of activations, and read_fast_path goes through all of it; also  *)
(* once the link is down and what was received before is used up.          *)
(***************************************************************************)
THEOREM NoBitmapIsLost == SessionSpec => []NoBitmapLost
  <1>1. SessionInit => Kept
    <2> SUFFICES ASSUME SessionInit PROVE Kept
      OBVIOUS
    <2>1. handled = <<>> /\ s2c = <<>> /\ bitmaps = 0
      BY DEF SessionInit, Init
    <2>2. Len(<<>>) = 0 /\ DOMAIN <<>> = {} /\ 0 .. 0 = {0} /\ 1 .. 0 = {}
      BY SMT
    <2>3. PICK u : u = Line
      OBVIOUS
    <2>4. DOMAIN u = {0} /\ u[0] = <<>>
      BY <2>1, <2>2, <2>3 DEF Line
    <2>5. \A k, i : ~Carries(u, k, i)
      BY <2>2, <2>4, Zenon DEF Carries
    <2>6. Lossless(u, 0)
      BY <2>2, <2>5, Zenon DEF Lossless
    <2> QED
      BY <2>1, <2>3, <2>6, Zenon DEF Kept
  <1>2. All /\ All' /\ Paced /\ Kept /\ [SessionNext]_sessionVars => Kept'
    <2> SUFFICES ASSUME All, All', Paced, Kept, [SessionNext]_sessionVars
                 PROVE  Kept'
      OBVIOUS
    <2>1. Typed /\ Typed' /\ TypeOK /\ TypeOK'
      BY DEF All, Base, Typed, IInv
    <2>2. CASE ClientStep
      BY <2>1, <2>2, KeptClient
    <2>3. CASE ServerStep
      BY <2>1, <2>3, KeptServer
    <2>4. CASE UNCHANGED sessionVars
      <3>1. handled' = handled /\ s2c' = s2c /\ bitmaps' = bitmaps /\ manners' = manners
        BY <2>4 DEF sessionVars, vars, clientVars, linkVars, srvVars
      <3>2. Line' = Line /\ (Orderly' <=> Orderly)
        BY <3>1 DEF Line, Orderly
      <3> QED
        BY <3>1, <3>2, Zenon DEF Kept
    <2> QED
      BY <2>2, <2>3, <2>4 DEF SessionNext
  <1>3. All /\ Kept => NoBitmapLost
    <2>1. All => TypeOK
      BY DEF All, Base, Typed, IInv
    <2> QED
      BY <2>1, KeptSays
  <1> QED
    BY <1>1, <1>2, <1>3, HandedHolds, PacedHolds, PTL DEF SessionSpec
====
