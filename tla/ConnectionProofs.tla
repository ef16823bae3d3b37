-------------------------- MODULE ConnectionProofs --------------------------
(***************************************************************************)
(* Connector::connect against the servers of Connection, for every set of  *)
(* messages, of versions and of MCS users.                                 *)
(***************************************************************************)
EXTENDS Connection, ConnectProofs, FiniteSetTheorems

-----------------------------------------------------------------------------
\* The state of a server keeps its fields.
SrvTyped ==
    /\ srv = [kind |-> srv.kind, version |-> srv.version, expects |-> srv.expects,
              heard |-> srv.heard, granted |-> srv.granted, selected |-> srv.selected,
              security |-> srv.security, user |-> srv.user, joined |-> srv.joined]
    /\ srv.heard \in Nat /\ srv.granted \in Nat

\* The part of the invariant that does not ask what the server is.
Sound == IInv /\ Attached /\ SrvTyped

(***************************************************************************)
(* A stranger gets no further than the TSRequest that should prove it      *)
(* knows the account.                                                      *)
(***************************************************************************)

\* What the client answers a challenge is made with the key of its account.
Authentic(m) == m.auth.proof = Hmac(ResponseKey(Account), m.auth.proof[3])

StrangerOut ==
    srv.kind = "stranger" =>
        /\ \A i \in 1 .. Total : i = 3 /\ Before = 4 => Authentic(Message(i))
        /\ \A i \in DOMAIN s2c :
              s2c[i].t = "Validate" => s2c[i].sealed.checksum.key = SealKey(Guess, "server")
        /\ link.selected = "Hybrid" =>
              Total <= 3 /\ pc \notin {"response", "attach", "join", "license", "connected"}

-----------------------------------------------------------------------------
(***************************************************************************)
(* The inductive invariant of a conforming server.  What it has heard is a *)
(* prefix of the list of the client, and what it has said is one message   *)
(* at the most, which answers the last one of the list.                    *)
(***************************************************************************)
First == IF srv.selected = "Hybrid" THEN 4 ELSE 1

Expecting ==
    CASE srv.heard = 0                 -> "Request"
      [] srv.heard = 1 /\ First = 4    -> "Negotiate"
      [] srv.heard = 2 /\ First = 4    -> "Authenticate"
      [] srv.heard = 3 /\ First = 4    -> "Credentials"
      [] srv.heard = First             -> "ConnectInitial"
      [] srv.heard = First + 1         -> "Erect"
      [] srv.heard = First + 2         -> "AttachRequest"
      [] srv.heard \in {First + 3, First + 4} -> "JoinRequest"
      [] srv.heard = First + 5         -> "Info"
      [] OTHER                         -> "nothing"

\* What the server has heard at least when the client waits for a message.
Heeded ==
    CASE pc = "confirm" -> 0
      [] pc \in {"tls", "challenge"} -> 1
      [] pc = "validate" -> 2
      [] pc = "response" -> IF First = 4 THEN 3 ELSE 1
      [] pc = "attach"   -> First + 1
      [] pc = "join"     -> IF mcs.todo = {} THEN First + 4 ELSE First + 3
      [] pc = "license"  -> First + 5
      [] OTHER           -> First + 6

\* How the server follows the list.
Listening ==
    /\ srv.heard \in 0 .. Len(sent) /\ srv.heard <= First + 6
    /\ srv.expects = Expecting
    /\ srv.heard = 0 <=> srv.selected = "none"
    /\ srv.selected \in {"none", "SSL", "Hybrid"}
    /\ link.selected \in {"none", srv.selected}
    /\ link.selected = "none" => Total <= 1
    /\ pc # "panicked" /\ (pc = "failed" => ~link.up)
    /\ pc # "failed" => srv.heard >= Heeded
    /\ \A i \in 1 .. Total : i = 1 => Message(i).protocols = Requested

\* The security interface of the server, before and after the credentials.
SrvIdle == SecurityInterface(NoKey, "server")
SrvProved == AfterWrap(AfterUnwrap(SecurityInterface(Exported, "server")))
SrvDone == AfterUnwrap(SrvProved)
ValidateAnswer ==
    [t |-> "Validate",
     sealed |-> Wrapped(AfterUnwrap(SecurityInterface(Exported, "server")), PubKeyPlusOne)]

\* What is sealed.
Sealing ==
    /\ srv.security = IF First = 1 \/ srv.heard < 3 THEN SrvIdle
                      ELSE IF srv.heard = 3 THEN SrvProved ELSE SrvDone
    /\ First = 4 /\ Total >= 4 => nla = NlaDone
    /\ First = 4 /\ Total = 3 /\ srv.heard = 3 => s2c = <<ValidateAnswer>>
    /\ \A i \in 1 .. Total : i = 3 /\ Before = 4 =>
          /\ "sealed" \in DOMAIN Message(i)
          /\ Message(i).auth = AuthenticateMessage(Account, Negotiate.t,
                                 [nonce |-> SrvNonce, info |-> TargetInfo], Nonce, Exported)
          /\ Message(i).sealed = Wrapped(SecurityInterface(Exported, "client"), PubKey)
    /\ \A i \in 1 .. Total : i = 4 /\ Before = 4 =>
          /\ "sealed" \in DOMAIN Message(i)
          /\ Message(i).sealed = Wrapped(NlaHeard, <<TsCredentials>>)

\* The user the server gave, and the channels it let it join.
SrvUser ==
    /\ srv.heard >= First + 3 => srv.user \in 1001 .. U16 - 1
    /\ Total >= First + 4 => mcs.user_id = srv.user
    /\ srv.joined = {Message(i).channel : i \in {j \in First + 4 .. First + 5 : j <= srv.heard}}

\* The answer the client waits for.
Answer(m) ==
    CASE pc = "confirm"   -> m = [t |-> "Confirm", type |-> "Response", protocol |-> srv.selected]
      [] pc = "challenge" -> m = [t |-> "Challenge", form |-> "good", nonce |-> SrvNonce,
                                  info |-> TargetInfo]
      [] pc = "validate"  -> m = ValidateAnswer
      [] pc = "response"  -> m = [t |-> "Response", blocks |-> {"core", "net"},
                                  version |-> srv.version]
      [] pc = "attach"    -> m = [t |-> "Attach", result |-> 0, initiator |-> srv.user - 1001]
      [] pc = "join"      -> m = [t |-> "Joined", initiator |-> srv.user - 1001,
                                  channel |-> Message(Total).channel]
      [] pc = "license"   -> /\ m.t = "License" /\ m.channel = 1003 /\ m.flag
                             /\ m.type \in {"NewLicense", "ErrorAlert"}
                             /\ m.code = "StatusValidClient" /\ m.transition = "StNoTransition"
      [] OTHER            -> FALSE
Answers ==
    pc \notin {"failed", "panicked"} =>
        IF srv.heard = Total /\ pc \notin {"tls", "connected"}
        THEN Len(s2c) = 1 /\ Answer(s2c[1])
        ELSE s2c = <<>>

Conforming ==
    srv.kind = "conforming" => Listening /\ Sealing /\ SrvUser /\ Answers
-----------------------------------------------------------------------------
\* The invariant of connect holds with every server.

\* What the server says follows what is not yet read.
LEMMA Said ==
    ASSUME IsSeq(s2c), NEW m, NEW new \in Seq({m}), s2c' = s2c \o new
    PROVE  /\ IsSeq(s2c)'
           /\ \A i \in DOMAIN s2c' : (i \in DOMAIN s2c /\ s2c'[i] = s2c[i]) \/ s2c'[i] = m
  <1> DEFINE S == Range(s2c) \cup {m}
  <1>1. /\ s2c \in Seq(S) /\ new \in Seq(S) /\ Len(s2c) \in Nat /\ Len(new) \in Nat
        /\ DOMAIN s2c = 1 .. Len(s2c) /\ \A k \in 1 .. Len(new) : new[k] = m
    <2>1. s2c \in Seq(S)
      BY SeqFacts, SeqMonotonic
    <2>2. new \in Seq(S)
      BY SeqMonotonic
    <2>3. Len(new) \in Nat /\ new \in [1 .. Len(new) -> {m}]
      BY LenProperties
    <2> QED
      BY <2>1, <2>2, <2>3, SeqFacts
  <1> HIDE DEF S
  <1>2. /\ s2c \o new \in Seq(S) /\ Len(s2c \o new) = Len(s2c) + Len(new)
        /\ \A i \in 1 .. Len(s2c) + Len(new) :
              (s2c \o new)[i] = IF i <= Len(s2c) THEN s2c[i] ELSE new[i - Len(s2c)]
    BY <1>1, ConcatProperties
  <1>3. IsSeq(s2c)' /\ DOMAIN s2c' = 1 .. Len(s2c) + Len(new)
    <2>1. IsSeq(s2c') /\ Len(s2c') = Len(s2c) + Len(new)
      BY <1>2, SeqIsSeq
    <2> QED
      BY <2>1, SeqFacts
  <1>4. ASSUME NEW i \in DOMAIN s2c'
        PROVE  (i \in DOMAIN s2c /\ s2c'[i] = s2c[i]) \/ s2c'[i] = m
    <2>1. i \in 1 .. Len(s2c) + Len(new)
      BY <1>3
    <2>2. CASE i <= Len(s2c)
      BY <1>1, <1>2, <2>1, <2>2
    <2>3. CASE ~(i <= Len(s2c))
      <3>1. i - Len(s2c) \in 1 .. Len(new)
        BY <1>1, <2>1, <2>3
      <3> QED
        BY <1>1, <1>2, <2>1, <2>3, <3>1
    <2> QED
      BY <2>2, <2>3
  <1> QED
    BY <1>3, <1>4

\* A server says one message, or one in two records.
LEMMA OneOrTwo ==
    ASSUME NEW m
    PROVE  <<m>> \in Seq({m}) /\ <<m, m>> \in Seq({m})
  OBVIOUS

\* What the server may say: an attach confirm with one of its users, and a
\* TSRequest sealed with the key the client sent it or, failing that, a guess.
SrvSecurity == SecurityInterface(IF Opened(Heard.auth) = NoKey THEN Guess
                                 ELSE Opened(Heard.auth), "server")
Sayable(m) ==
    /\ m.t = "Attach" => m.initiator \in Initiators
    /\ m.t = "Validate" => /\ Heard.t = "Authenticate"
                           /\ m.sealed = Wrapped(AfterUnwrap(SrvSecurity), PubKeyPlusOne)
ServerSays ==
    \/ UNCHANGED s2c
    \/ \E m : Sayable(m) /\ \E new : new \in Seq({m}) /\ s2c' = s2c \o new

\* To say one message.
LEMMA SaysOne ==
    ASSUME NEW m, Sayable(m), s2c' = s2c \o <<m>>
    PROVE  ServerSays
  <1>1. PICK new : new = <<m>>
    OBVIOUS
  <1>2. new \in Seq({m}) /\ s2c' = s2c \o new
    BY <1>1, OneOrTwo
  <1> QED
    BY <1>2 DEF ServerSays

\* To say a TSRequest, in one record or in two.
LEMMA SaysRecords ==
    ASSUME NEW m, Sayable(m), s2c' = s2c \o Records(m)
    PROVE  ServerSays
  <1>1. PICK new : new = Records(m)
    OBVIOUS
  <1>2. CASE srv.kind = "split"
    <2>1. PICK part : part = [t |-> "Part"]
      OBVIOUS
    <2>2. new \in Seq({part})
      BY <1>1, <1>2, <2>1, OneOrTwo DEF Records
    <2>3. Sayable(part)
      BY <2>1 DEF Sayable
    <2> QED
      BY <1>1, <2>2, <2>3 DEF ServerSays
  <1>3. CASE srv.kind # "split"
    BY <1>3, SaysOne DEF Records
  <1> QED
    BY <1>2, <1>3

\* How a server goes on.
LEMMA FollowsFacts ==
    ASSUME SrvTyped, NEW next, NEW n \in Nat
    PROVE  Follows(next, n) =
              [kind |-> srv.kind, version |-> srv.version, expects |-> next,
               heard |-> srv.heard + 1, granted |-> srv.granted + n, selected |-> srv.selected,
               security |-> srv.security, user |-> srv.user, joined |-> srv.joined]
  <1>1. PICK h \in Nat, g \in Nat : h = srv.heard /\ g = srv.granted
    BY DEF SrvTyped
  <1>2. PICK a, b, c, d, e, f, x :
            /\ srv = [kind |-> a, version |-> b, expects |-> c, heard |-> h, granted |-> g,
                      selected |-> d, security |-> e, user |-> f, joined |-> x]
            /\ a = srv.kind /\ b = srv.version /\ d = srv.selected
            /\ e = srv.security /\ f = srv.user /\ x = srv.joined
    BY <1>1 DEF SrvTyped
  <1>3. PICK r : r = [kind |-> a, version |-> b, expects |-> c, heard |-> h, granted |-> g,
                      selected |-> d, security |-> e, user |-> f, joined |-> x]
    OBVIOUS
  <1>4. PICK w : w = [r EXCEPT !.heard = @ + 1, !.expects = next, !.granted = @ + n]
    OBVIOUS
  <1>5. w = [kind |-> a, version |-> b, expects |-> next, heard |-> h + 1, granted |-> g + n,
             selected |-> d, security |-> e, user |-> f, joined |-> x]
    BY <1>3, <1>4
  <1>6. Follows(next, n) = w
    BY <1>2, <1>3, <1>4 DEF Follows
  <1> QED
    BY <1>1, <1>2, <1>5, <1>6

\* A server that goes on keeps its kind and its version.
LEMMA Kept ==
    ASSUME SrvTyped, NEW next, NEW n \in Nat, NEW p,
           \/ srv' = Follows(next, n)
           \/ srv' = [Follows(next, n) EXCEPT !.selected = p]
           \/ srv' = [Follows(next, n) EXCEPT !.security = p]
           \/ srv' = [Follows(next, n) EXCEPT !.user = p]
           \/ srv' = [Follows(next, n) EXCEPT !.joined = p]
    PROVE  /\ SrvTyped' /\ srv'.kind = srv.kind /\ srv'.version = srv.version
           /\ srv'.heard = srv.heard + 1
  <1>1. PICK h \in Nat, g \in Nat : h = srv.heard + 1 /\ g = srv.granted + n
    BY DEF SrvTyped
  <1>2. PICK a, b, d, e, f, x :
            Follows(next, n) = [kind |-> a, version |-> b, expects |-> next, heard |-> h,
                                granted |-> g, selected |-> d, security |-> e, user |-> f,
                                joined |-> x]
            /\ a = srv.kind /\ b = srv.version
    BY <1>1, FollowsFacts
  <1>3. PICK y : y = srv'
    OBVIOUS
  <1>4. /\ y = [kind |-> a, version |-> b, expects |-> next, heard |-> h, granted |-> g,
                selected |-> y.selected, security |-> y.security, user |-> y.user,
                joined |-> y.joined]
    BY <1>2, <1>3
  <1> QED
    BY <1>1, <1>2, <1>3, <1>4 DEF SrvTyped

\* That is so for every step of a server.
LEMMA ServerKeeps ==
    ASSUME SrvTyped, Server
    PROVE  /\ SrvTyped' /\ srv'.kind = srv.kind /\ srv'.version = srv.version
           /\ srv'.heard = srv.heard + 1
  <1> DEFINE Goal == /\ SrvTyped' /\ srv'.kind = srv.kind /\ srv'.version = srv.version
                     /\ srv'.heard = srv.heard + 1
  <1> SUFFICES Goal
    OBVIOUS
  <1>1. ASSUME NEW next, NEW n \in Nat, NEW p,
               \/ srv' = Follows(next, n)
               \/ srv' = [Follows(next, n) EXCEPT !.selected = p]
               \/ srv' = [Follows(next, n) EXCEPT !.security = p]
               \/ srv' = [Follows(next, n) EXCEPT !.user = p]
               \/ srv' = [Follows(next, n) EXCEPT !.joined = p]
        PROVE  Goal
    BY <1>1, Kept
  <1> HIDE DEF Goal
  <1>2. 0 \in Nat /\ 1 \in Nat
    OBVIOUS
  <1>3. ASSUME NEW a, NEW sec, srv' = [Follows(a, 0) EXCEPT !.security = AfterUnwrap(@)]
        PROVE  Goal
    BY <1>1, <1>2, <1>3
  <1>4. CASE SrvConfirm
    BY <1>1, <1>2, <1>4 DEF SrvConfirm
  <1>5. CASE SrvChallenge
    BY <1>1, <1>2, <1>5 DEF SrvChallenge
  <1>6. CASE SrvValidate
    <2>1. \/ \E x : srv' = [Follows("Credentials", 1) EXCEPT !.security = x]
          \/ srv' = [Follows("nothing more", 0) EXCEPT !.security = AfterUnwrap(@)]
      BY <1>6, Zenon DEF SrvValidate, Reject
    <2>2. ASSUME NEW x, srv' = [Follows("Credentials", 1) EXCEPT !.security = x]
          PROVE  Goal
      BY <1>1, <1>2, <2>2
    <2>3. CASE srv' = [Follows("nothing more", 0) EXCEPT !.security = AfterUnwrap(@)]
      BY <1>3, <2>3
    <2> QED
      BY <2>1, <2>2, <2>3
  <1>7. CASE SrvCredentials
    BY <1>1, <1>2, <1>3, <1>7 DEF SrvCredentials, Reject
  <1>8. CASE SrvResponse
    BY <1>1, <1>2, <1>8 DEF SrvResponse
  <1>9. CASE SrvErect
    BY <1>1, <1>2, <1>9 DEF SrvErect
  <1>10. CASE SrvAttach
    <2>1. ASSUME NEW x, srv' = [Follows("JoinRequest", 1) EXCEPT !.user = x]
          PROVE  Goal
      BY <1>1, <1>2, <2>1
    <2>2. \E i \in Initiators : srv' = [Follows("JoinRequest", 1) EXCEPT !.user = i + 1001]
      BY <1>10 DEF SrvAttach
    <2>3. ASSUME NEW i, srv' = [Follows("JoinRequest", 1) EXCEPT !.user = i + 1001]
          PROVE  Goal
      BY <2>1, <2>3
    <2> QED
      BY <2>2, <2>3
  <1>11. CASE SrvJoin
    <2>1. \E next, x : srv' = [Follows(next, 1) EXCEPT !.joined = x]
      <3>1. PICK next : next = IF srv.joined = {} THEN "JoinRequest" ELSE "Info"
        OBVIOUS
      <3>2. srv' = [Follows(next, 1) EXCEPT !.joined = @ \cup {Heard.channel}]
        BY <1>11, <3>1 DEF SrvJoin
      <3> QED
        BY <3>2, Zenon
    <2>2. PICK next, x : srv' = [Follows(next, 1) EXCEPT !.joined = x]
      BY <2>1
    <2> QED
      BY <1>1, <1>2, <2>2
  <1>12. CASE SrvLicense
    BY <1>1, <1>2, <1>12 DEF SrvLicense
  <1> QED
    BY <1>4, <1>5, <1>6, <1>7, <1>8, <1>9, <1>10, <1>11, <1>12 DEF Server

\* A server answers a message on the stream, and does not touch the client.
LEMMA ServerFacts ==
    ASSUME SrvTyped, Server
    PROVE  /\ UNCHANGED client /\ link.up /\ srv.heard < Len(sent) /\ srv.kind # "any"
           /\ srv'.kind = srv.kind
           /\ ServerSays
  <1>1. UNCHANGED client /\ link.up /\ srv.heard < Len(sent) /\ srv.kind # "any"
    BY DEF Server, SrvConfirm, SrvChallenge, SrvValidate, SrvCredentials, SrvResponse, SrvErect,
           SrvAttach, SrvJoin, SrvLicense, SrvHears
  <1>2. ASSUME SrvConfirm
        PROVE  ServerSays
    <2>1. PICK p : s2c' = s2c \o <<[t |-> "Confirm", type |-> "Response", protocol |-> p]>>
      BY <1>2 DEF SrvConfirm, Say
    <2>2. Sayable([t |-> "Confirm", type |-> "Response", protocol |-> p])
      BY DEF Sayable
    <2> QED
      BY <2>1, <2>2, SaysOne
  <1>3. ASSUME SrvChallenge
        PROVE  ServerSays
    <2>1. PICK m : m = [t |-> "Challenge", form |-> "good", nonce |-> SrvNonce, info |-> TargetInfo]
      OBVIOUS
    <2>2. s2c' = s2c \o Records(m) /\ Sayable(m)
      BY <1>3, <2>1 DEF SrvChallenge, Say, Sayable
    <2> QED
      BY <2>2, SaysRecords
  <1>4. ASSUME SrvValidate
        PROVE  ServerSays
    <2>1. PICK m : m = [t |-> "Validate", sealed |-> Wrapped(AfterUnwrap(SrvSecurity), PubKeyPlusOne)]
      OBVIOUS
    <2>2. Sayable(m)
      BY <1>4, <2>1 DEF SrvValidate, SrvHears, Sayable
    <2>3. s2c' = s2c \o Records(m) \/ UNCHANGED s2c
      BY <1>4, <2>1 DEF SrvValidate, Say, Reject, SrvSecurity
    <2> QED
      BY <2>2, <2>3, SaysRecords DEF ServerSays
  <1>5. ASSUME SrvCredentials \/ SrvErect
        PROVE  ServerSays
    BY <1>5 DEF SrvCredentials, SrvErect, Reject, ServerSays
  <1>6. ASSUME SrvResponse
        PROVE  ServerSays
    <2>1. Sayable([t |-> "Response", blocks |-> {"core", "net"}, version |-> srv.version])
      BY DEF Sayable
    <2> QED
      BY <1>6, <2>1, SaysOne DEF SrvResponse, Say
  <1>7. ASSUME SrvAttach
        PROVE  ServerSays
    <2>1. PICK i \in Initiators : s2c' = s2c \o <<[t |-> "Attach", result |-> 0, initiator |-> i]>>
      BY <1>7 DEF SrvAttach, Say
    <2>2. Sayable([t |-> "Attach", result |-> 0, initiator |-> i])
      BY DEF Sayable
    <2> QED
      BY <2>1, <2>2, SaysOne
  <1>8. ASSUME SrvJoin
        PROVE  ServerSays
    <2>1. Sayable([t |-> "Joined", initiator |-> srv.user - 1001, channel |-> Heard.channel])
      BY DEF Sayable
    <2> QED
      BY <1>8, <2>1, SaysOne DEF SrvJoin, Say
  <1>9. ASSUME SrvLicense
        PROVE  ServerSays
    <2>1. \E type \in {"NewLicense", "ErrorAlert"} : s2c' = s2c \o
                <<[t |-> "License", channel |-> 1003, flag |-> TRUE, type |-> type,
                   code |-> "StatusValidClient", transition |-> "StNoTransition"]>>
      BY <1>9, Zenon DEF SrvLicense, Say
    <2>2. ASSUME NEW type, s2c' = s2c \o
                <<[t |-> "License", channel |-> 1003, flag |-> TRUE, type |-> type,
                   code |-> "StatusValidClient", transition |-> "StNoTransition"]>>
          PROVE  ServerSays
      <3>1. PICK m : m = [t |-> "License", channel |-> 1003, flag |-> TRUE, type |-> type,
                          code |-> "StatusValidClient", transition |-> "StNoTransition"]
        OBVIOUS
      <3>2. Sayable(m)
        BY <3>1 DEF Sayable
      <3> QED
        BY ZenonT(40), <2>2, <3>1, <3>2, SaysOne
    <2> QED
      BY <2>1, <2>2
  <1>10. srv'.kind = srv.kind
    BY ServerKeeps
  <1> QED
    BY <1>1, <1>2, <1>3, <1>4, <1>5, <1>6, <1>7, <1>8, <1>9, <1>10 DEF Server

\* What the server says is well formed.
LEMMA AttachedSays ==
    ASSUME Attached, ServerSays
    PROVE  Attached'
  <1>1. CASE UNCHANGED s2c
    BY <1>1 DEF Attached, IsSeq
  <1>2. ASSUME NEW m, Sayable(m), NEW new \in Seq({m}), s2c' = s2c \o new
        PROVE  Attached'
    <2>1. /\ IsSeq(s2c)'
          /\ \A i \in DOMAIN s2c' : (i \in DOMAIN s2c /\ s2c'[i] = s2c[i]) \/ s2c'[i] = m
      BY <1>2, Said DEF Attached
    <2>2. m.t = "Attach" => m.initiator \in Nat
      BY <1>2, ConnectionAssumption DEF Sayable
    <2> QED
      BY <2>1, <2>2 DEF Attached
  <1> QED
    BY <1>1, <1>2 DEF ServerSays

\* A server of kind any sends a message of Messages.
LEMMA PeerAttached ==
    ASSUME Attached, Peer
    PROVE  Attached' /\ UNCHANGED client
  <1>1. PICK m \in Messages : Deliver(m)
    BY DEF Peer
  <1>2. m.t = "Attach" => m.initiator \in Nat
    BY ConnectAssumption
  <1> QED
    BY <1>1, <1>2, AttachedAppend DEF Deliver

\* The first state is sound.
LEMMA SoundInit ==
    ASSUME ConnectionInit
    PROVE  Sound
  <1>1. IInv
    BY InitialState DEF ConnectionInit
  <1>2. Attached
    <2>1. s2c = <<>>
      BY DEF ConnectionInit, Init
    <2>2. s2c \in Seq({}) /\ DOMAIN s2c = {}
      BY <2>1, EmptySeq
    <2> QED
      BY <2>2, SeqIsSeq DEF Attached
  <1>3. SrvTyped
    <2>1. PICK kind, version, security :
             srv = [kind |-> kind, version |-> version, expects |-> "Request", heard |-> 0,
                    granted |-> 0, selected |-> "none", security |-> security,
                    user |-> NoUser, joined |-> {}]
      BY DEF ConnectionInit, SrvInit
    <2> QED
      BY <2>1 DEF SrvTyped
  <1> QED
    BY <1>1, <1>2, <1>3 DEF Sound

\* Every step keeps it so.
LEMMA SoundNext ==
    ASSUME Sound, [ConnectionNext]_all
    PROVE  Sound'
  <1> USE DEF Sound
  <1>1. CASE Server
    BY <1>1, ServerFacts, ServerKeeps, OthersKeep, AttachedSays
  <1>2. CASE (ClientSteps \/ LinkDrop) /\ UNCHANGED srv
    <2>1. (Client \/ SslFails \/ LinkDrop) /\ SrvTyped'
      BY <1>2 DEF ClientSteps, SrvTyped
    <2>2. ASSUME s2c' = s2c PROVE Attached'
      BY <2>2 DEF Attached, IsSeq
    <2>3. ASSUME s2c # <<>>, s2c' = Tail(s2c) PROVE Attached'
      BY <2>3, AttachedTail
    <2> QED
      BY <2>1, <2>2, <2>3, ClientKeeps, ClientTakes
  <1>3. CASE Peer /\ UNCHANGED srv
    BY <1>3, PeerAttached, OthersKeep DEF SrvTyped
  <1>4. CASE UNCHANGED all
    <2>1. UNCHANGED <<client, s2c, srv>>
      BY <1>4 DEF all, vars
    <2> QED
      BY <2>1, OthersKeep DEF Attached, IsSeq, SrvTyped
  <1> QED
    BY <1>1, <1>2, <1>3, <1>4 DEF ConnectionNext

\* Whatever the server, connect keeps its invariant.
THEOREM Soundness == ConnectionSpec => []Sound
  <1>1. ConnectionInit => Sound
    BY SoundInit
  <1>2. Sound /\ [ConnectionNext]_all => Sound'
    BY SoundNext
  <1> QED
    BY <1>1, <1>2, PTL DEF ConnectionSpec

-----------------------------------------------------------------------------
\* How a step of the client changes the list.

\* A step writes, or leaves the list alone, or lines up messages at the end of it.
LEMMA ClientMoves ==
    ASSUME IInv, Client \/ SslFails \/ LinkDrop
    PROVE  \/ Write
           \/ /\ UNCHANGED <<sent, out, cfg>> /\ link'.selected = link.selected
              /\ pc' \in {pc, "failed", "panicked"}
           \/ /\ UNCHANGED <<sent, cfg>> /\ out = <<>>
              /\ \/ pc = "confirm" /\ pc' \in {"tls", "response"}
                    /\ (link'.selected = "Hybrid" => pc' = "tls")
                 \/ /\ link'.selected = link.selected
                    /\ \/ pc = "tls" /\ (link.selected = "Hybrid" => pc' = "challenge")
                       \/ ReadChallenge /\ pc' = "validate"
                       \/ pc = "validate" /\ s2c # <<>> /\ Head(s2c).t = "Validate"
                             /\ Verified(nla, Head(s2c).sealed)
                       \/ pc \in {"response", "attach", "join", "license"}
  <1>1. CASE WriteFails \/ SslFails \/ ReadEof
    BY <1>1 DEF WriteFails, SslFails, ReadEof, Fail
  <1>11. CASE LinkDrop
    <2>1. UNCHANGED <<sent, out, cfg, pc>> /\ link' = [link EXCEPT !.up = FALSE]
      BY <1>11 DEF LinkDrop
    <2>2. link'.selected = link.selected
      BY <2>1 DEF IInv, Typed
    <2> QED
      BY <2>1, <2>2
  <1>2. CASE ReadOther
    BY <1>2 DEF ReadOther, Fail, Receive
  <1>3. CASE StartSsl
    <2>1. /\ pc = "tls" /\ out = <<>> /\ UNCHANGED <<sent, cfg>> /\ link'.selected = link.selected
          /\ link.selected = "Hybrid" => pc' = "challenge"
      BY <1>3 DEF StartSsl, IInv, Layer, Typed, Goto
    <2> QED
      BY <2>1
  <1>4. CASE ReadConnectionConfirm
    <2>1. pc = "confirm" /\ out = <<>> /\ UNCHANGED <<sent, cfg>>
      BY <1>4 DEF ReadConnectionConfirm, Receive, Waits
    <2>2. CASE Accepts(msg)
      <3>1. link'.selected = msg.protocol
        BY <1>4, <2>2 DEF ReadConnectionConfirm, IInv, Typed
      <3>2. pc' = IF msg.protocol = "RDP" THEN "response" ELSE "tls"
        BY <1>4, <2>2 DEF ReadConnectionConfirm, Goto
      <3> QED
        BY <2>1, <3>1, <3>2
    <2>3. CASE ~Accepts(msg)
      BY <1>4, <2>1, <2>3 DEF ReadConnectionConfirm, Fail
    <2> QED
      BY <2>2, <2>3
  <1>5. CASE ReadChallenge
    BY <1>5 DEF ReadChallenge, Receive, Waits, Goto, Fail, Panic
  <1>6. CASE ReadValidate
    BY <1>6 DEF ReadValidate, Receive, Waits, Goto, Fail, msg
  <1>7. CASE ReadConnectResponse
    BY <1>7 DEF ReadConnectResponse, Receive, Waits
  <1>8. CASE ReadAttachUserConfirm
    BY <1>8 DEF ReadAttachUserConfirm, Receive, Waits
  <1>9. CASE ReadChannelJoinConfirm
    BY <1>9 DEF ReadChannelJoinConfirm, Receive, Waits
  <1>10. CASE ReadLicense
    BY <1>10 DEF ReadLicense, Receive, Waits
  <1> QED
    BY <1>1, <1>2, <1>3, <1>4, <1>5, <1>6, <1>7, <1>8, <1>9, <1>10, <1>11
       DEF Client, Read

\* The list only grows.
LEMMA Grows ==
    ASSUME IInv, IInv', Client \/ SslFails \/ LinkDrop
    PROVE  /\ Total \in Nat /\ Total' \in Nat /\ Total <= Total'
           /\ \A i \in 1 .. Total : Message(i)' = Message(i)
  <1>1. /\ Total \in Nat /\ Len(sent) \in Nat /\ Len(out) \in Nat
        /\ Total' \in Nat /\ Len(sent') \in Nat /\ Len(out') \in Nat
    <2>1. Len(sent) \in Nat /\ Len(out) \in Nat /\ Total \in Nat
      BY ListFacts
    <2>2. IsSeq(sent') /\ IsSeq(out')
      BY DEF IInv, Typed, IsSeq
    <2>3. Len(sent') \in Nat /\ Len(out') \in Nat
      BY <2>2, SeqFacts
    <2> QED
      BY <2>1, <2>3 DEF Total
  <1>2. CASE Write
    BY <1>1, <1>2, Written
  <1>3. CASE UNCHANGED <<sent, out>>
    BY <1>1, <1>3 DEF Total, Message
  <1>4. CASE UNCHANGED sent /\ out = <<>>
    <2>1. Len(out) = 0
      BY <1>4, EmptySeq
    <2>2. Total = Len(sent) /\ Total' = Len(sent) + Len(out')
      BY <1>1, <1>4, <2>1 DEF Total
    <2>3. ASSUME NEW i \in 1 .. Total PROVE Message(i)' = Message(i)
      BY <1>1, <1>4, <2>2, <2>3 DEF Message
    <2> QED
      BY <1>1, <2>2, <2>3
  <1> QED
    BY <1>2, <1>3, <1>4, ClientMoves

-----------------------------------------------------------------------------
\* A stranger cannot open what the client sends, and its guess is not verified.

\* Hmacs under different keys differ.
LEMMA KeyOfHmac ==
    ASSUME NEW a, NEW b, NEW c, NEW d, a # c
    PROVE  Hmac(a, b) # Hmac(c, d)
  BY DEF Hmac

\* A stranger has another key.
LEMMA OtherKey ==
    ASSUME srv.kind = "stranger"
    PROVE  ResponseKey(SrvAccount) # ResponseKey(Account)
  <1>1. /\ SrvAccount.user = <<"user">> /\ SrvAccount.secret = <<"another password">>
        /\ ~SrvAccount.hashed
    BY DEF SrvAccount
  <1>2. ResponseKey(SrvAccount) = Hmac(Md4(<<"another password">>), <<"user">>)
    BY <1>1 DEF ResponseKey, NtOwf, NtOwfHash
  <1>3. ResponseKey(Account) = Hmac(Md4(<<"password">>), <<"user">>)
    <2>1. CASE cfg.hashed
      BY <2>1 DEF ResponseKey, NtOwfHash, Account, Password
    <2>2. CASE ~cfg.hashed
      BY <2>2 DEF ResponseKey, NtOwf, NtOwfHash, Account, Password
    <2> QED
      BY <2>1, <2>2
  <1>4. Md4(<<"another password">>) # Md4(<<"password">>)
    BY DEF Md4
  <1> QED
    BY <1>2, <1>3, <1>4, KeyOfHmac

\* It does not get the session key out of the client's answer.
LEMMA NotOpened ==
    ASSUME srv.kind = "stranger", NEW m, Authentic(m)
    PROVE  Opened(m.auth) = NoKey
  <1>1. m.auth.proof # Proof(ResponseKey(SrvAccount), SrvNonce, m.auth.nonce, TargetInfo)
    BY OtherKey DEF Authentic, Proof, Hmac
  <1> QED
    BY <1>1 DEF Opened

\* What it seals has a checksum under the key of its guess,
LEMMA Guessed ==
    ASSUME NEW data
    PROVE  Wrapped(AfterUnwrap(SecurityInterface(Guess, "server")), data).checksum.key
              = SealKey(Guess, "server")
  <1>1. PICK x : x = AfterUnwrap(SecurityInterface(Guess, "server"))
    OBVIOUS
  <1>2. x.encrypt = [key |-> SealKey(Guess, "server"), at |-> 0]
    BY <1>1 DEF AfterUnwrap, SecurityInterface
  <1>3. Used(x.encrypt).key = SealKey(Guess, "server")
    BY <1>2 DEF Used
  <1> QED
    BY <1>1, <1>3 DEF Wrapped, Process

\* which the client does not accept.
LEMMA NotVerified ==
    ASSUME nla = NlaAsked, NEW m, m.checksum.key = SealKey(Guess, "server")
    PROVE  ~Verified(nla, m)
  <1>1. nla.decrypt = [key |-> SealKey(Exported, "server"), at |-> 0]
    BY NlaFacts DEF Interface
  <1>2. Used(nla.decrypt).key = SealKey(Exported, "server")
    BY <1>1 DEF Used
  <1>3. SealKey(Exported, "server") # SealKey(Guess, "server")
    BY DEF SealKey, Exported, Guess
  <1>4. Plain(Used(nla.decrypt), m.checksum) = <<"garbage">>
    BY <1>2, <1>3 DEF Plain
  <1>5. \A a, b : <<"garbage">> # Hmac(a, b)
    BY DEF Hmac
  <1> QED
    BY <1>4, <1>5 DEF Verified

\* An answer of the stranger keeps StrangerOut.
LEMMA StrangerHears ==
    ASSUME Sound, StrangerOut, Server
    PROVE  StrangerOut'
  <1> SUFFICES ASSUME srv'.kind = "stranger"
               PROVE  StrangerOut'
    BY DEF StrangerOut
  <1> USE DEF Sound
  <1>1. /\ UNCHANGED client /\ srv.kind = "stranger" /\ srv.heard < Len(sent) /\ srv.heard \in Nat
        /\ ServerSays
    BY ServerFacts, SrvTyped DEF SrvTyped
  <1>2. /\ Total' = Total /\ Before' = Before /\ \A i : Message(i)' = Message(i)
        /\ UNCHANGED <<cfg, link, pc>> /\ Account' = Account
    BY <1>1 DEF client, Total, Before, Message, Account
  <1>3. \A i \in 1 .. Total' : i = 3 /\ Before' = 4 => Authentic(Message(i))'
    BY <1>1, <1>2 DEF StrangerOut, Authentic
  <1>4. \A i \in DOMAIN s2c' :
           s2c'[i].t = "Validate" => s2c'[i].sealed.checksum.key = SealKey(Guess, "server")
    <2>1. CASE UNCHANGED s2c
      BY <1>1, <2>1 DEF StrangerOut
    <2>2. ASSUME NEW m, Sayable(m), NEW new \in Seq({m}), s2c' = s2c \o new,
                 NEW i \in DOMAIN s2c', s2c'[i].t = "Validate"
          PROVE  s2c'[i].sealed.checksum.key = SealKey(Guess, "server")
      <3>1. (i \in DOMAIN s2c /\ s2c'[i] = s2c[i]) \/ s2c'[i] = m
        BY <2>2, Said DEF Attached
      <3>2. CASE i \in DOMAIN s2c /\ s2c'[i] = s2c[i]
        BY <1>1, <2>2, <3>2 DEF StrangerOut
      <3>3. CASE s2c'[i] = m
        <4>1. Heard.t = "Authenticate" /\ m.sealed = Wrapped(AfterUnwrap(SrvSecurity), PubKeyPlusOne)
          BY <2>2, <3>3 DEF Sayable
        <4>2. srv.heard + 1 \in DOMAIN sent
          BY <1>1, ListFacts
        <4>3. Heard = Message(srv.heard + 1) /\ Heard.t = ScriptAt(srv.heard + 1)
              /\ srv.heard + 1 \in 1 .. Total
          BY <4>2, OnTheStream DEF Heard
        <4>4. srv.heard + 1 = 3 /\ Before = 4
          BY <4>1, <4>3 DEF ScriptAt
        <4>5. Authentic(Heard)
          BY <1>1, <4>3, <4>4 DEF StrangerOut
        <4>6. SrvSecurity = SecurityInterface(Guess, "server")
          BY <1>1, <4>5, NotOpened DEF SrvSecurity
        <4> QED
          BY <3>3, <4>1, <4>6, Guessed
      <3> QED
        BY <3>1, <3>2, <3>3
    <2> QED
      BY <1>1, <2>1, <2>2 DEF ServerSays
  <1>5. link'.selected = "Hybrid" =>
          Total' <= 3 /\ pc' \notin {"response", "attach", "join", "license", "connected"}
    BY <1>1, <1>2 DEF StrangerOut
  <1> QED
    BY <1>3, <1>4, <1>5 DEF StrangerOut

\* What is read leaves the rest in its place.
LEMMA Shifted ==
    ASSUME IsSeq(s2c), s2c # <<>>, s2c' = Tail(s2c), NEW i \in DOMAIN s2c'
    PROVE  \E j \in DOMAIN s2c : s2c'[i] = s2c[j]
  <1>1. s2c \in Seq(Range(s2c)) /\ Len(s2c) \in Nat /\ DOMAIN s2c = 1 .. Len(s2c) /\ Len(s2c) # 0
    BY SeqFacts, EmptySeq
  <1>2. /\ Tail(s2c) \in Seq(Range(s2c)) /\ Len(Tail(s2c)) = Len(s2c) - 1
        /\ \A k \in 1 .. Len(Tail(s2c)) : Tail(s2c)[k] = s2c[k + 1]
    BY <1>1, HeadTailProperties
  <1>3. DOMAIN Tail(s2c) = 1 .. Len(Tail(s2c))
    BY <1>2, SeqIsSeq, SeqFacts
  <1>4. i \in 1 .. Len(s2c) - 1 /\ s2c'[i] = s2c[i + 1]
    BY <1>2, <1>3
  <1> QED
    BY <1>1, <1>4

\* The first of a sequence.
LEMMA HeadOf ==
    ASSUME NEW s, IsSeq(s), s # <<>>
    PROVE  1 \in DOMAIN s /\ Head(s) = s[1]
  BY SeqFacts, EmptySeq, HeadTailProperties

\* The answer to a challenge is made with the key of the account.
LEMMA Answering ==
    ASSUME IInv, IInv', ReadChallenge, pc' = "validate"
    PROVE  Total = 2 /\ Message(3)' = out'[1]
           /\ out' = <<[t      |-> "Authenticate",
                        auth   |-> AuthenticateMessage(Account, Negotiate.t, msg, Nonce, Exported),
                        sealed |-> Wrapped(SecurityInterface(Exported, "client"), PubKey)]>>
  <1>1. pc = "challenge" /\ out = <<>> /\ UNCHANGED sent /\ msg.form = "good"
    BY DEF ReadChallenge, Receive, Waits, Fail, Panic
  <1>2. Total = 2 /\ Len(sent) = 2
    <2>1. Total = 2
      BY <1>1 DEF IInv, InScript, Planned
    <2> QED
      BY <1>1, <2>1, ListFacts, EmptySeq DEF Total
  <1>3. ~(3 <= Len(sent')) /\ 3 - Len(sent') = 1
    BY <1>1, <1>2
  <1> QED
    BY <1>1, <1>2, <1>3 DEF ReadChallenge, Goto, Message

\* So does what the client makes of it.
LEMMA StrangerAnswered ==
    ASSUME Sound, IInv', StrangerOut, Client \/ SslFails \/ LinkDrop, UNCHANGED srv
    PROVE  StrangerOut'
  <1> SUFFICES ASSUME srv.kind = "stranger"
               PROVE  StrangerOut'
    BY DEF StrangerOut
  <1> USE DEF Sound
  <1>1. /\ Total \in Nat /\ Total' \in Nat /\ Total <= Total'
        /\ \A i \in 1 .. Total : Message(i)' = Message(i)
        /\ Before \in {1, 4} /\ (Before = 4) <=> (link.selected = "Hybrid")
        /\ Before' \in {1, 4} /\ (Before' = 4) <=> (link'.selected = "Hybrid")
    BY Grows, ListFacts DEF Before
  <1>2. \A i \in DOMAIN s2c :
           s2c[i].t = "Validate" => s2c[i].sealed.checksum.key = SealKey(Guess, "server")
    BY DEF StrangerOut
  <1>3. \A i \in DOMAIN s2c' :
           s2c'[i].t = "Validate" => s2c'[i].sealed.checksum.key = SealKey(Guess, "server")
    BY <1>2, ClientTakes, Shifted DEF Attached
  <1>4. \A i \in 1 .. Total : i = 3 /\ Before = 4 => Authentic(Message(i))
    BY DEF StrangerOut
  <1>5. link.selected = "Hybrid" =>
          Total <= 3 /\ pc \notin {"response", "attach", "join", "license", "connected"}
    BY DEF StrangerOut
  <1> DEFINE New == /\ \A i \in 1 .. Total' : i = 3 /\ Before' = 4 => Authentic(Message(i))'
                    /\ link'.selected = "Hybrid" =>
                         /\ Total' <= 3
                         /\ pc' \notin {"response", "attach", "join", "license", "connected"}
  <1>6. SUFFICES New
    BY <1>3 DEF StrangerOut
  <1> HIDE DEF New
  <1>7. CASE Write
    BY <1>1, <1>4, <1>5, <1>7, Written DEF New, Write, Before, Authentic, Account
  <1>8. CASE /\ UNCHANGED <<sent, out, cfg>> /\ link'.selected = link.selected
             /\ pc' \in {pc, "failed", "panicked"}
    <2>1. Total' = Total /\ Account' = Account
      BY <1>8 DEF Total, Account
    <2> QED
      BY <1>1, <1>4, <1>5, <1>8, <2>1 DEF New, Before, Authentic
  <1>9. CASE link'.selected # "Hybrid"
    BY <1>1, <1>9 DEF New
  <1>10. CASE link'.selected = "Hybrid" /\ Total' <= 2
              /\ pc' \in {"tls", "challenge"}
    BY <1>1, <1>10 DEF New
  <1>11. CASE pc = "confirm" /\ link'.selected = "Hybrid" /\ pc' = "tls"
    <2>1. Total' = 1
      BY <1>11 DEF IInv, InScript, Planned
    <2> QED
      BY <1>10, <1>11, <2>1
  <1>12. CASE pc = "tls" /\ link'.selected = "Hybrid" /\ pc' = "challenge"
    <2>1. Total' = 2
      BY <1>12 DEF IInv, InScript, Planned
    <2> QED
      BY <1>10, <1>12, <2>1
  <1>13. CASE ReadChallenge /\ pc' = "validate" /\ link'.selected = "Hybrid"
    <2>1. Total' = 3
      BY <1>13 DEF IInv, InScript, Planned
    <2>2. Authentic(Message(3))'
      <3>1. PICK key, data : key = ResponseKey(Account) /\ data = <<msg.nonce, Nonce, msg.info>>
        OBVIOUS
      <3>2. AuthenticateMessage(Account, Negotiate.t, msg, Nonce, Exported).proof = Hmac(key, data)
        BY <3>1 DEF AuthenticateMessage, Proof
      <3>3. Message(3)'.auth.proof = Hmac(key, data)
        <4>1. PICK m : m = Message(3)'
          OBVIOUS
        <4>2. m.auth = AuthenticateMessage(Account, Negotiate.t, msg, Nonce, Exported)
          BY <1>13, <4>1, Answering
        <4> QED
          BY <3>2, <4>1, <4>2
      <3>4. Hmac(key, data)[3] = data
        BY DEF Hmac
      <3>5. ResponseKey(Account)' = key
        BY <1>13, <3>1 DEF ReadChallenge, Receive, ResponseKey, Account
      <3> QED
        BY <3>3, <3>4, <3>5 DEF Authentic
    <2> QED
      BY <1>13, <2>1, <2>2 DEF New
  <1>14. pc = "validate" /\ link.selected = "Hybrid" /\ s2c # <<>> /\ Head(s2c).t = "Validate"
         => ~Verified(nla, Head(s2c).sealed)
    BY <1>2, HeadOf, NotVerified DEF IInv, Nla, Attached
  <1>15. pc = "validate" => link.selected = "Hybrid"
    BY DEF IInv, Layer
  <1>16. CASE pc \in {"response", "attach", "join", "license"} /\ link'.selected = link.selected
    BY <1>5, <1>9, <1>16
  <1> QED
    BY <1>7, <1>8, <1>9, <1>11, <1>12, <1>13, <1>14, <1>15, <1>16, ClientMoves

\* Every step keeps StrangerOut.
LEMMA StrangerNext ==
    ASSUME Sound, StrangerOut, [ConnectionNext]_all
    PROVE  StrangerOut'
  <1>1. IInv'
    BY SoundNext DEF Sound
  <1>2. CASE Server
    BY <1>2, StrangerHears
  <1>3. CASE (ClientSteps \/ LinkDrop) /\ UNCHANGED srv
    BY <1>1, <1>3, StrangerAnswered DEF ClientSteps
  <1>4. CASE Peer /\ UNCHANGED srv
    BY <1>4 DEF Peer, StrangerOut
  <1>5. CASE UNCHANGED all
    <2>1. UNCHANGED <<client, s2c, srv>>
      BY <1>5 DEF all, vars
    <2>2. /\ Total' = Total /\ Before' = Before /\ \A i : Message(i)' = Message(i)
          /\ UNCHANGED <<link, pc>> /\ Account' = Account
      BY <2>1 DEF client, Total, Before, Message, Account
    <2> QED
      BY <2>1, <2>2 DEF StrangerOut, Authentic
  <1> QED
    BY <1>2, <1>3, <1>4, <1>5 DEF ConnectionNext

\* A server that does not have the account is never sent the TSCredentials, and
\* connect does not end well with it once it selected CredSSP: the answer it would
\* have to seal needs a session key it cannot open (nla/cssp.rs:189-203).
THEOREM StrangersStayOut == ConnectionSpec => []OnlyTheAccountHolder
  <1>1. ConnectionInit => StrangerOut
    <2> SUFFICES ASSUME ConnectionInit PROVE StrangerOut
      OBVIOUS
    <2>1. pc = "confirm" /\ link.selected = "none" /\ s2c = <<>>
      BY DEF ConnectionInit, Init
    <2> QED
      BY <2>1 DEF StrangerOut, Before
  <1>2. Sound /\ StrangerOut /\ [ConnectionNext]_all => StrangerOut'
    BY StrangerNext
  <1>3. Sound /\ StrangerOut => OnlyTheAccountHolder
    <2> SUFFICES ASSUME Sound, StrangerOut, srv.kind = "stranger", link.selected = "Hybrid"
                 PROVE  pc # "connected" /\ \A i \in DOMAIN sent : sent[i].m.t # "Credentials"
      BY DEF OnlyTheAccountHolder
    <2>1. pc # "connected" /\ Total <= 3
      BY DEF StrangerOut
    <2>2. ASSUME NEW i \in DOMAIN sent
          PROVE  sent[i].m.t # "Credentials"
      <3>1. i \in 1 .. Total /\ Total \in Nat /\ sent[i].m.t = ScriptAt(i)
        BY OnTheStream, ListFacts DEF Sound
      <3>2. i \in 1 .. 3 /\ Before = 4
        BY <2>1, <3>1 DEF Before
      <3> QED
        BY <3>1, <3>2 DEF ScriptAt
    <2> QED
      BY <2>1, <2>2
  <1> QED
    BY <1>1, <1>2, <1>3, Soundness, PTL DEF ConnectionSpec

-----------------------------------------------------------------------------
\* Where a conforming server and the client stand.

\* After the request both ends agree on the protocol.
LEMMA SameFirst ==
    ASSUME IInv, Listening, Total > 1
    PROVE  /\ First = Before /\ link.selected = srv.selected
           /\ srv.selected \in {"SSL", "Hybrid"}
  <1>1. Total \in Nat
    BY ListFacts
  <1>2. link.selected # "none"
    BY <1>1 DEF Listening
  <1> QED
    BY <1>2 DEF Listening, First, Before

\* The client waits for the answer to a message that the server has not heard.
LEMMA Pinned ==
    ASSUME IInv, Listening, pc \in Steps \cup {"connected"}, srv.heard < Total
    PROVE  \/ srv.heard = 0 /\ pc = "confirm" /\ Total = 1
           \/ /\ First = 4
              /\ \/ srv.heard = 1 /\ pc = "challenge" /\ Total = 2
                 \/ srv.heard = 2 /\ pc = "validate" /\ Total = 3
                 \/ srv.heard = 3 /\ pc = "response" /\ Total = 5
           \/ srv.heard = First /\ pc = "response" /\ Total = First + 1
           \/ srv.heard \in {First + 1, First + 2} /\ pc = "attach" /\ Total = First + 3
           \/ srv.heard = First + 3 /\ pc = "join" /\ mcs.todo # {} /\ Total = First + 4
           \/ srv.heard = First + 4 /\ pc = "join" /\ mcs.todo = {} /\ Total = First + 5
           \/ srv.heard = First + 5 /\ pc = "license" /\ Total = First + 6
  <1>1. PICK h \in Nat : h = srv.heard /\ h >= Heeded /\ h < Total
    <2>1. srv.heard \in Nat /\ Len(sent) \in Nat
      BY ListFacts DEF Listening
    <2> QED
      BY <2>1 DEF Listening, Steps
  <1>2. Total = Planned /\ Total \in Nat
    BY ListFacts DEF IInv, InScript, Steps
  <1>3. pc # "tls"
    BY <1>1, <1>2 DEF Planned, Heeded
  <1>4. CASE pc = "confirm"
    BY <1>1, <1>2, <1>4 DEF Planned
  <1>5. CASE pc \in {"challenge", "validate", "response", "attach", "join", "license", "connected"}
    <2>1. Total > 1
      <3>1. PICK x \in {1, 4} : x = Before
        BY ListFacts
      <3>2. Total \in {2, 3, x + 1, x + 3, x + 4, x + 5, x + 6}
        BY <1>2, <1>5, <3>1 DEF Planned
      <3> QED
        BY <3>2
    <2>2. PICK b \in {1, 4} : b = First /\ b = Before
      BY <2>1, SameFirst DEF First
    <2>3. pc \in {"challenge", "validate"} => b = 4
      BY <2>2 DEF IInv, Layer, Before
    <2>4. PICK n \in Nat : n = Total
      BY <1>2
    <2>5. /\ n = CASE pc = "challenge" -> 2
                   [] pc = "validate" -> 3
                   [] pc = "response" -> b + 1
                   [] pc = "attach" -> b + 3
                   [] pc = "join" -> IF mcs.todo = {} THEN b + 5 ELSE b + 4
                   [] OTHER -> b + 6
      BY <1>2, <1>5, <2>2, <2>4 DEF Planned
    <2>6. h >= CASE pc = "challenge" -> 1
                 [] pc = "validate" -> 2
                 [] pc = "response" -> IF b = 4 THEN 3 ELSE 1
                 [] pc = "attach" -> b + 1
                 [] pc = "join" -> IF mcs.todo = {} THEN b + 4 ELSE b + 3
                 [] pc = "license" -> b + 5
                 [] OTHER -> b + 6
      BY <1>1, <1>5, <2>2 DEF Heeded
    <2>7. h < n
      BY <1>1, <2>4
    <2>8. CASE pc \in {"challenge", "validate"}
      BY <1>1, <2>2, <2>3, <2>4, <2>5, <2>6, <2>7, <2>8
    <2>9. CASE pc = "response"
      <3>1. n = b + 1 /\ h < b + 1 /\ h >= IF b = 4 THEN 3 ELSE 1
        BY <2>5, <2>6, <2>7, <2>9
      <3>2. h = b \/ (b = 4 /\ h = 3)
        BY <3>1
      <3> QED
        BY <1>1, <2>2, <2>4, <2>9, <3>1, <3>2
    <2>10. CASE pc = "attach"
      <3>1. n = b + 3 /\ h \in {b + 1, b + 2}
        BY <2>5, <2>6, <2>7, <2>10
      <3> QED
        BY <1>1, <2>2, <2>4, <2>10, <3>1
    <2>11. CASE pc = "join"
      <3>1. IF mcs.todo = {} THEN n = b + 5 /\ h = b + 4 ELSE n = b + 4 /\ h = b + 3
        BY <2>5, <2>6, <2>7, <2>11
      <3> QED
        BY <1>1, <2>2, <2>4, <2>11, <3>1
    <2>12. CASE pc = "license"
      <3>1. n = b + 6 /\ h = b + 5
        BY <2>5, <2>6, <2>7, <2>12
      <3> QED
        BY <1>1, <2>2, <2>4, <2>12, <3>1
    <2>13. CASE pc = "connected"
      BY <2>5, <2>6, <2>7, <2>13
    <2> QED
      BY <1>5, <2>8, <2>9, <2>10, <2>11, <2>12, <2>13
  <1> QED
    BY <1>3, <1>4, <1>5 DEF Steps

\* What a server becomes.
Becomes(next, selected, security, user, joined) ==
    /\ srv'.kind = srv.kind /\ srv'.heard = srv.heard + 1 /\ srv'.expects = next
    /\ srv'.selected = selected /\ srv'.security = security
    /\ srv'.user = user /\ srv'.joined = joined

\* The fields of a server that goes on.
LEMMA Becoming ==
    ASSUME SrvTyped, NEW next, NEW n \in Nat, NEW x
    PROVE  /\ srv' = Follows(next, n) =>
                 Becomes(next, srv.selected, srv.security, srv.user, srv.joined)
           /\ srv' = [Follows(next, n) EXCEPT !.selected = x] =>
                 Becomes(next, x, srv.security, srv.user, srv.joined)
           /\ srv' = [Follows(next, n) EXCEPT !.security = x] =>
                 Becomes(next, srv.selected, x, srv.user, srv.joined)
           /\ srv' = [Follows(next, n) EXCEPT !.user = x] =>
                 Becomes(next, srv.selected, srv.security, x, srv.joined)
           /\ srv' = [Follows(next, n) EXCEPT !.joined = x] =>
                 Becomes(next, srv.selected, srv.security, srv.user, x)
  <1>1. PICK h \in Nat, g \in Nat : h = srv.heard + 1 /\ g = srv.granted + n
    BY DEF SrvTyped
  <1>2. PICK a, b, d, e, f, z :
            /\ Follows(next, n) = [kind |-> a, version |-> b, expects |-> next, heard |-> h,
                                   granted |-> g, selected |-> d, security |-> e, user |-> f,
                                   joined |-> z]
            /\ a = srv.kind /\ b = srv.version /\ d = srv.selected /\ e = srv.security
            /\ f = srv.user /\ z = srv.joined
    BY <1>1, FollowsFacts
  <1>3. PICK y : y = srv'
    OBVIOUS
  <1>4. CASE y = Follows(next, n)
    BY <1>1, <1>2, <1>3, <1>4 DEF Becomes
  <1>5. ASSUME y = [Follows(next, n) EXCEPT !.selected = x]
        PROVE  Becomes(next, x, srv.security, srv.user, srv.joined)
    BY <1>1, <1>2, <1>3, <1>5 DEF Becomes
  <1>6. ASSUME y = [Follows(next, n) EXCEPT !.security = x]
        PROVE  Becomes(next, srv.selected, x, srv.user, srv.joined)
    BY <1>1, <1>2, <1>3, <1>6 DEF Becomes
  <1>7. ASSUME y = [Follows(next, n) EXCEPT !.user = x]
        PROVE  Becomes(next, srv.selected, srv.security, x, srv.joined)
    BY <1>1, <1>2, <1>3, <1>7 DEF Becomes
  <1>8. ASSUME y = [Follows(next, n) EXCEPT !.joined = x]
        PROVE  Becomes(next, srv.selected, srv.security, srv.user, x)
    BY <1>1, <1>2, <1>3, <1>8 DEF Becomes
  <1>9. ASSUME y = Follows(next, n)
        PROVE  Becomes(next, srv.selected, srv.security, srv.user, srv.joined)
    BY <1>1, <1>2, <1>3, <1>9 DEF Becomes
  <1> QED
    BY <1>3, <1>5, <1>6, <1>7, <1>8, <1>9

-----------------------------------------------------------------------------
\* Who has the account opens what the client sealed.

\* The states of the server's interface, field by field.
LEMMA SrvFacts ==
    LET At(e, d, n) == Interface(SealKey(Exported, "server"), e, SealKey(Exported, "client"), d,
                                 SignKey(Exported, "server"), SignKey(Exported, "client"), n)
    IN  /\ SecurityInterface(Exported, "server") = At(0, 0, 0)
        /\ AfterUnwrap(SecurityInterface(Exported, "server")) = At(0, 2, 0)
        /\ SrvProved = At(2, 2, 1) /\ SrvDone = At(2, 4, 1)
  <1> DEFINE At(e, d, n) ==
        Interface(SealKey(Exported, "server"), e, SealKey(Exported, "client"), d,
                  SignKey(Exported, "server"), SignKey(Exported, "client"), n)
  <1>1. ASSUME NEW e \in Nat, NEW d \in Nat, NEW n \in Nat
        PROVE  /\ AfterWrap(At(e, d, n)) = At(e + 2, d, n + 1)
               /\ AfterUnwrap(At(e, d, n)) = At(e, d + 2, n)
    <2>1. AfterWrap(At(e, d, n)) = At(e + 2, d, n + 1)
      BY Wraps
    <2>2. AfterUnwrap(At(e, d, n)) = At(e, d + 2, n)
      BY Unwraps
    <2> QED
      BY <2>1, <2>2
  <1>2. SecurityInterface(Exported, "server") = At(0, 0, 0)
    BY Ended
  <1> HIDE DEF At
  <1>3. AfterUnwrap(At(0, 0, 0)) = At(0, 2, 0)
    BY <1>1
  <1>4. AfterWrap(At(0, 2, 0)) = At(2, 2, 1)
    BY <1>1
  <1>5. AfterUnwrap(At(2, 2, 1)) = At(2, 4, 1)
    BY <1>1
  <1>6. /\ SecurityInterface(Exported, "server") = At(0, 0, 0)
        /\ AfterUnwrap(SecurityInterface(Exported, "server")) = At(0, 2, 0)
        /\ SrvProved = At(2, 2, 1) /\ SrvDone = At(2, 4, 1)
    BY <1>2, <1>3, <1>4, <1>5 DEF SrvProved, SrvDone
  <1> QED
    BY <1>6 DEF At

\* What is sealed at one end is verified and opened at the other.
LEMMA Opens ==
    ASSUME NEW k, NEW at \in Nat, NEW v, NEW n,
           NEW a, NEW b, NEW c, NEW d, NEW e, NEW f, NEW g, NEW i, NEW data
    PROVE  /\ Verified(Interface(a, b, k, at, c, v, d), Wrapped(Interface(k, at, e, f, v, g, n), data))
           /\ Unwrapped(Interface(a, b, k, at, c, v, d), Wrapped(Interface(k, at, e, f, v, g, n), data))
                 = data
  <1>1. PICK x, y : x = Interface(a, b, k, at, c, v, d) /\ y = Interface(k, at, e, f, v, g, n)
    OBVIOUS
  <1>2. x.decrypt = [key |-> k, at |-> at] /\ x.verify = v
    BY <1>1 DEF Interface
  <1>3. y.encrypt = [key |-> k, at |-> at] /\ y.signing = v
    BY <1>1 DEF Interface
  <1>4. PICK u, w : u = Used(x.decrypt) /\ w = Used(y.encrypt) /\ u = w
    BY <1>2, <1>3
  <1>5. PICK m : m = Wrapped(y, data)
    OBVIOUS
  <1>6. /\ m.payload = Process(y.encrypt, data)
        /\ m.checksum = Process(w, Hmac(v, <<y.seq_num, data>>))
        /\ m.seq_num = y.seq_num
    BY <1>3, <1>4, <1>5 DEF Wrapped
  <1>7. Unwrapped(x, m) = data
    BY <1>2, <1>3, <1>6 DEF Unwrapped, Plain, Process
  <1>8. Plain(u, m.checksum) = Hmac(v, <<y.seq_num, data>>)
    BY <1>4, <1>6 DEF Plain, Process
  <1>9. Verified(x, m)
    BY <1>2, <1>4, <1>6, <1>7, <1>8 DEF Verified
  <1> QED
    BY <1>1, <1>5, <1>7, <1>9

\* Who is no stranger has the key of the client's account,
LEMMA SameKey ==
    ASSUME srv.kind # "stranger"
    PROVE  ResponseKey(SrvAccount) = ResponseKey(Account)
  <1>1. ResponseKey(SrvAccount) = Hmac(Md4(Password), <<"user">>)
    BY DEF SrvAccount, ResponseKey, NtOwf, NtOwfHash
  <1>2. CASE cfg.hashed
    BY <1>1, <1>2 DEF ResponseKey, NtOwfHash, Account
  <1>3. CASE ~cfg.hashed
    BY <1>1, <1>3 DEF ResponseKey, NtOwf, NtOwfHash, Account
  <1> QED
    BY <1>2, <1>3

\* and gets the session key.
LEMMA OpenedRight ==
    ASSUME srv.kind # "stranger"
    PROVE  Opened(AuthenticateMessage(Account, Negotiate.t, [nonce |-> SrvNonce, info |-> TargetInfo],
                                      Nonce, Exported)) = Exported
  <1>1. PICK key : key = ResponseKey(Account) /\ key = ResponseKey(SrvAccount)
    BY SameKey
  <1>2. PICK auth : auth = AuthenticateMessage(Account, Negotiate.t,
                              [nonce |-> SrvNonce, info |-> TargetInfo], Nonce, Exported)
    OBVIOUS
  <1>3. /\ auth.nonce = Nonce /\ auth.proof = Proof(key, SrvNonce, Nonce, TargetInfo)
        /\ auth.key = Rc4k(BaseKey(key, auth.proof), Exported)
        /\ auth.mic = Mic(Exported, Negotiate.t, SrvNonce)
    BY <1>1, <1>2 DEF AuthenticateMessage
  <1>4. auth.key[3] = Exported
    BY <1>3 DEF Rc4k
  <1>5. Opened(auth) = Exported
    BY <1>1, <1>3, <1>4 DEF Opened
  <1> QED
    BY <1>2, <1>5

-----------------------------------------------------------------------------
\* The steps of a conforming server.
Peaceful == Listening /\ Sealing /\ SrvUser /\ Answers

\* What depends on the client alone.
LEMMA Unmoved ==
    ASSUME UNCHANGED client
    PROVE  /\ Total' = Total /\ Before' = Before /\ Planned' = Planned
           /\ \A i : Message(i)' = Message(i)
           /\ UNCHANGED <<cfg, pc, link, nla, mcs, out, sent>>
           /\ Account' = Account /\ TsCredentials' = TsCredentials /\ Requested' = Requested
  BY DEF client, Total, Before, Planned, Message, Account, TsCredentials, Requested

\* What the server hears is the message its place in the list says.
LEMMA Hearing ==
    ASSUME Sound, Peaceful, NEW type, SrvHears(type)
    PROVE  /\ UNCHANGED client /\ link.up /\ srv.kind # "any"
           /\ srv.heard \in Nat /\ srv.heard < Len(sent) /\ srv.heard < Total
           /\ Len(sent) \in Nat /\ Total \in Nat
           /\ pc \in Steps \cup {"connected"} /\ s2c = <<>>
           /\ srv.heard + 1 \in 1 .. Total /\ Heard = Message(srv.heard + 1)
           /\ type = Expecting
  <1> USE DEF Sound
  <1>1. /\ UNCHANGED client /\ link.up /\ srv.kind # "any" /\ srv.heard \in Nat
        /\ srv.heard < Len(sent) /\ type = Expecting
    BY DEF SrvHears, Peaceful, Listening, SrvTyped
  <1>2. /\ srv.heard + 1 \in DOMAIN sent /\ Len(sent) \in Nat /\ Len(out) \in Nat
        /\ Total \in Nat /\ Total = Len(sent) + Len(out)
    BY <1>1, ListFacts DEF Total
  <1>3. srv.heard + 1 \in 1 .. Total /\ Heard = Message(srv.heard + 1)
    BY <1>2, OnTheStream DEF Heard
  <1>4. srv.heard < Total
    BY <1>1, <1>2
  <1>5. pc \in Steps \cup {"connected"}
    BY <1>1 DEF Peaceful, Listening, IInv, Typed, Final
  <1>6. s2c = <<>>
    <2>1. srv.heard # Total
      BY <1>1, <1>2, <1>4
    <2> QED
      BY <1>5, <2>1 DEF Peaceful, Answers, Steps
  <1> QED
    BY <1>1, <1>2, <1>3, <1>4, <1>5, <1>6

\* How Listening is kept by a server that goes on after the first message,
LEMMA ListensOn ==
    ASSUME Listening, UNCHANGED client, srv.heard \in Nat, Len(sent) \in Nat,
           srv.heard < Len(sent), srv.heard # 0, NEW b \in {1, 4}, First = b,
           srv.heard + 1 <= b + 6,
           srv'.heard = srv.heard + 1, srv'.selected = srv.selected, srv'.expects = Expecting'
    PROVE  Listening'
  <1>1. First' = First /\ Heeded' = Heeded
    BY Unmoved DEF First, Heeded
  <1>2. PICK h \in Nat, l \in Nat : h = srv.heard /\ l = Len(sent)
    OBVIOUS
  <1>3. PICK e \in Nat : e = Heeded
    <2>1. Heeded \in {0, 1, 2, 3, b + 1, b + 3, b + 4, b + 5, b + 6}
      BY DEF Heeded
    <2> QED
      BY <2>1
  <1>4. srv'.heard \in 0 .. Len(sent) /\ srv'.heard <= First' + 6 /\ srv'.heard # 0
    BY <1>1, <1>2
  <1>5. pc # "failed" => srv'.heard >= Heeded'
    BY <1>1, <1>2, <1>3 DEF Listening
  <1> QED
    BY <1>1, <1>4, <1>5, Unmoved DEF Listening

\* and SrvUser, when no user or channel is given.
LEMMA UserStays ==
    ASSUME SrvUser, UNCHANGED client, srv.heard \in Nat, NEW b \in {1, 4}, First = b,
           srv'.heard = srv.heard + 1, srv'.selected = srv.selected,
           srv'.user = srv.user, srv'.joined = srv.joined,
           srv.heard + 1 \notin {b + 3, b + 4, b + 5}
    PROVE  SrvUser'
  <1>1. First' = b
    BY DEF First
  <1>2. PICK h \in Nat : h = srv.heard
    OBVIOUS
  <1>3. {j \in b + 4 .. b + 5 : j <= h} = {j \in b + 4 .. b + 5 : j <= h + 1}
    BY <1>2
  <1>4. srv'.joined = {Message(i).channel : i \in {j \in b + 4 .. b + 5 : j <= h + 1}}
    BY <1>2, <1>3 DEF SrvUser
  <1>5. h + 1 >= b + 3 => h >= b + 3
    BY <1>2
  <1>6. srv'.heard >= b + 3 => srv'.user \in 1001 .. U16 - 1
    BY <1>2, <1>5 DEF SrvUser
  <1> QED
    BY <1>1, <1>2, <1>4, <1>6, Unmoved DEF SrvUser

\* The security of the server only changes with the TSRequests.
LEMMA SealingStays ==
    ASSUME Sealing, UNCHANGED client, srv.heard \in Nat,
           srv'.heard = srv.heard + 1, srv'.selected = srv.selected,
           srv'.security = srv.security, First = 4 => srv.heard \notin {2, 3}
    PROVE  Sealing'
  <1>1. First' = First
    BY DEF First
  <1>2. PICK h \in Nat : h = srv.heard
    OBVIOUS
  <1>3. srv'.security = IF First = 1 \/ h + 1 < 3 THEN SrvIdle
                        ELSE IF h + 1 = 3 THEN SrvProved ELSE SrvDone
    <2>1. srv.security = IF First = 1 \/ h < 3 THEN SrvIdle
                         ELSE IF h = 3 THEN SrvProved ELSE SrvDone
      BY <1>2 DEF Sealing
    <2> QED
      BY <1>2, <2>1 DEF First
  <1>4. ~(First = 4 /\ Total = 3 /\ h + 1 = 3)
    BY <1>2
  <1> QED
    BY <1>1, <1>2, <1>3, <1>4, Unmoved DEF Sealing

\* A conforming server answers the request with a protocol that was asked for.
LEMMA ConfirmSaid ==
    ASSUME Sound, Peaceful, SrvConfirm
    PROVE  Peaceful'
  <1>1. /\ UNCHANGED client /\ srv.heard \in Nat /\ srv.heard < Len(sent) /\ Len(sent) \in Nat
        /\ srv.heard < Total /\ pc \in Steps \cup {"connected"} /\ s2c = <<>>
        /\ 1 \in 1 .. Total /\ srv.heard = 0 /\ Heard = Message(1)
    <2>1. /\ UNCHANGED client /\ srv.heard \in Nat /\ srv.heard < Len(sent) /\ Len(sent) \in Nat
          /\ srv.heard < Total /\ pc \in Steps \cup {"connected"} /\ s2c = <<>>
          /\ srv.heard + 1 \in 1 .. Total /\ Heard = Message(srv.heard + 1)
          /\ Expecting = "Request"
      BY Hearing DEF SrvConfirm
    <2>2. srv.heard = 0
      BY <2>1 DEF Expecting
    <2> QED
      BY <2>1, <2>2
  <1>2. pc = "confirm" /\ Total = 1
    BY <1>1, Pinned DEF Sound, Peaceful, First
  <1>3. PICK p \in Requested :
           /\ s2c' = s2c \o <<[t |-> "Confirm", type |-> "Response", protocol |-> p]>>
           /\ srv' = [Follows(IF p = "Hybrid" THEN "Negotiate" ELSE "ConnectInitial", 1)
                        EXCEPT !.selected = p]
    <2>1. Heard.protocols = Requested
      BY <1>1 DEF Peaceful, Listening
    <2> QED
      BY <2>1 DEF SrvConfirm, Say
  <1>4. p \in {"SSL", "Hybrid"}
    BY <1>3 DEF Requested
  <1>5. Becomes(IF p = "Hybrid" THEN "Negotiate" ELSE "ConnectInitial", p, srv.security,
                srv.user, srv.joined)
    BY <1>3, Becoming DEF Sound
  <1>6. /\ srv'.heard = 1 /\ srv'.selected = p /\ srv'.security = srv.security
        /\ srv'.expects = IF p = "Hybrid" THEN "Negotiate" ELSE "ConnectInitial"
        /\ srv'.joined = srv.joined
        /\ First' = IF p = "Hybrid" THEN 4 ELSE 1
    BY <1>1, <1>5 DEF Becomes, First
  <1>7. s2c' = <<[t |-> "Confirm", type |-> "Response", protocol |-> p]>>
    BY <1>1, <1>3
  <1>8. link.selected = "none"
    BY <1>2 DEF Sound, IInv, Layer
  <1>9. Listening'
    <2>1. Expecting' = IF p = "Hybrid" THEN "Negotiate" ELSE "ConnectInitial"
      BY <1>4, <1>6 DEF Expecting
    <2>2. Heeded' = 0
      BY <1>1, <1>2, Unmoved DEF Heeded
    <2>3. 1 \in 0 .. Len(sent)
      BY <1>1
    <2> QED
      BY <1>1, <1>2, <1>4, <1>6, <1>8, <2>1, <2>2, <2>3, Unmoved DEF Peaceful, Listening
  <1>10. Sealing'
    <2>1. srv.security = SrvIdle /\ Before = 1
      BY <1>1, <1>8 DEF Peaceful, Sealing, Before
    <2> QED
      BY <1>1, <1>2, <1>6, <2>1, Unmoved DEF Sealing
  <1>11. SrvUser'
    <2>1. srv.joined = {}
      BY <1>1 DEF Peaceful, SrvUser, First
    <2> QED
      BY <1>1, <1>2, <1>4, <1>6, <2>1, Unmoved DEF SrvUser
  <1>12. Answers'
    BY <1>1, <1>2, <1>6, <1>7, OneMessage, Unmoved DEF Answers, Answer
  <1> QED
    BY <1>9, <1>10, <1>11, <1>12 DEF Peaceful

\* Where the two are when the server hears another message than the first.
LEMMA Heeding ==
    ASSUME Sound, Peaceful, NEW type, SrvHears(type), type # "Request"
    PROVE  /\ First \in {1, 4} /\ First = Before /\ link.selected = srv.selected
           /\ srv.heard # 0 /\ srv.heard < First + 6
           /\ type = "Negotiate" =>
                 First = 4 /\ srv.heard = 1 /\ pc = "challenge" /\ Total = 2
           /\ type = "Authenticate" =>
                 First = 4 /\ srv.heard = 2 /\ pc = "validate" /\ Total = 3
           /\ type = "Credentials" =>
                 First = 4 /\ srv.heard = 3 /\ pc = "response" /\ Total = 5
           /\ type = "ConnectInitial" =>
                 srv.heard = First /\ pc = "response" /\ Total = First + 1
           /\ type = "Erect" =>
                 srv.heard = First + 1 /\ pc = "attach" /\ Total = First + 3
           /\ type = "AttachRequest" =>
                 srv.heard = First + 2 /\ pc = "attach" /\ Total = First + 3
           /\ type = "JoinRequest" =>
                 /\ srv.heard \in {First + 3, First + 4} /\ pc = "join"
                 /\ Total = srv.heard + 1
           /\ type = "Info" =>
                 srv.heard = First + 5 /\ pc = "license" /\ Total = First + 6
  <1>1. /\ srv.heard \in Nat /\ srv.heard < Total /\ Total \in Nat
        /\ pc \in Steps \cup {"connected"} /\ type = Expecting
    BY Hearing
  <1>5. PICK b \in {1, 4} : First = b
    BY DEF First
  <1>2. srv.heard # 0
    <2>1. srv.heard = 0 => Expecting = "Request"
      BY <1>5 DEF Expecting
    <2> QED
      BY <1>1, <2>1
  <1>3. Total > 1
    BY <1>1, <1>2
  <1>4. First = Before /\ link.selected = srv.selected
    BY <1>3, SameFirst DEF Sound, Peaceful
  <1>6. PICK h \in Nat : h = srv.heard
    BY <1>1
  <1>7. type = CASE h = 1 /\ b = 4 -> "Negotiate"
                 [] h = 2 /\ b = 4 -> "Authenticate"
                 [] h = 3 /\ b = 4 -> "Credentials"
                 [] h = b -> "ConnectInitial"
                 [] h = b + 1 -> "Erect"
                 [] h = b + 2 -> "AttachRequest"
                 [] h \in {b + 3, b + 4} -> "JoinRequest"
                 [] h = b + 5 -> "Info"
                 [] OTHER -> "nothing"
    BY <1>1, <1>2, <1>5, <1>6 DEF Expecting
  <1>8. \/ b = 4 /\ h = 1 /\ pc = "challenge" /\ Total = 2
        \/ b = 4 /\ h = 2 /\ pc = "validate" /\ Total = 3
        \/ b = 4 /\ h = 3 /\ pc = "response" /\ Total = 5
        \/ h = b /\ pc = "response" /\ Total = b + 1
        \/ h \in {b + 1, b + 2} /\ pc = "attach" /\ Total = b + 3
        \/ h = b + 3 /\ pc = "join" /\ Total = b + 4
        \/ h = b + 4 /\ pc = "join" /\ Total = b + 5
        \/ h = b + 5 /\ pc = "license" /\ Total = b + 6
    BY <1>1, <1>2, <1>5, <1>6, Pinned DEF Sound, Peaceful
  <1>9. h < b + 6
    BY <1>8
  <1>10. CASE b = 1
    BY <1>2, <1>4, <1>5, <1>6, <1>7, <1>8, <1>9, <1>10
  <1>11. CASE b = 4
    BY <1>2, <1>4, <1>5, <1>6, <1>7, <1>8, <1>9, <1>11
  <1> QED
    BY <1>10, <1>11

\* It answers the negotiation with its challenge.
LEMMA ChallengeSaid ==
    ASSUME Sound, Peaceful, srv.kind = "conforming", SrvChallenge
    PROVE  Peaceful'
  <1>1. /\ UNCHANGED client /\ Len(sent) \in Nat /\ 1 < Len(sent) /\ s2c = <<>>
        /\ srv.heard = 1 /\ First = 4 /\ pc = "challenge" /\ Total = 2
    BY Hearing, Heeding DEF SrvChallenge
  <1>2. PICK m : m = [t |-> "Challenge", form |-> "good", nonce |-> SrvNonce, info |-> TargetInfo]
    OBVIOUS
  <1>3. s2c' = <<m>> /\ srv' = Follows("Authenticate", 1)
    BY <1>1, <1>2 DEF SrvChallenge, Say, Records
  <1>4. Becomes("Authenticate", srv.selected, srv.security, srv.user, srv.joined)
    BY <1>3, Becoming DEF Sound
  <1>5. /\ srv'.heard = 2 /\ srv'.selected = srv.selected /\ srv'.security = srv.security
        /\ srv'.expects = "Authenticate" /\ srv'.joined = srv.joined /\ srv'.user = srv.user
        /\ First' = 4
    BY <1>1, <1>4 DEF Becomes, First
  <1>6. Expecting' = "Authenticate"
    BY <1>5 DEF Expecting
  <1>7. Listening'
    BY <1>1, <1>5, <1>6, ListensOn DEF Peaceful
  <1>8. Sealing'
    BY <1>1, <1>5, SealingStays DEF Peaceful
  <1>9. SrvUser'
    BY <1>1, <1>5, UserStays DEF Peaceful
  <1>10. Answers'
    BY <1>1, <1>2, <1>3, <1>5, OneMessage, Unmoved DEF Answers, Answer
  <1> QED
    BY <1>7, <1>8, <1>9, <1>10 DEF Peaceful

\* It answers the connect request of MCS.
LEMMA ResponseSaid ==
    ASSUME Sound, Peaceful, SrvResponse
    PROVE  Peaceful'
  <1>1. /\ UNCHANGED client /\ Len(sent) \in Nat /\ First < Len(sent) /\ s2c = <<>>
        /\ srv.heard = First /\ pc = "response" /\ Total = First + 1
    BY Hearing, Heeding DEF SrvResponse
  <1>2. PICK m : m = [t |-> "Response", blocks |-> {"core", "net"}, version |-> srv.version]
    OBVIOUS
  <1>3. s2c' = <<m>> /\ srv' = Follows("Erect", 1)
    BY <1>1, <1>2 DEF SrvResponse, Say
  <1>4. Becomes("Erect", srv.selected, srv.security, srv.user, srv.joined)
    BY <1>3, Becoming DEF Sound
  <1>0. PICK b \in {1, 4} : First = b /\ First' = b
    BY <1>4 DEF First, Becomes
  <1>5. /\ srv'.heard = b + 1 /\ srv'.selected = srv.selected /\ srv'.security = srv.security
        /\ srv'.expects = "Erect" /\ srv'.joined = srv.joined /\ srv'.user = srv.user
        /\ srv'.version = srv.version
    BY <1>0, <1>1, <1>3, <1>4, Kept DEF Becomes, Sound
  <1>6. Expecting' = "Erect"
    BY <1>0, <1>5 DEF Expecting
  <1>7. Listening'
    BY <1>0, <1>1, <1>5, <1>6, ListensOn DEF Peaceful
  <1>8. Sealing'
    BY <1>0, <1>1, <1>5, SealingStays DEF Peaceful
  <1>9. SrvUser'
    BY <1>0, <1>1, <1>5, UserStays DEF Peaceful
  <1>10. Answers'
    BY <1>0, <1>1, <1>2, <1>3, <1>5, OneMessage, Unmoved DEF Answers, Answer
  <1> QED
    BY <1>7, <1>8, <1>9, <1>10 DEF Peaceful

\* It does not answer the erect request.
LEMMA ErectHeard ==
    ASSUME Sound, Peaceful, SrvErect
    PROVE  Peaceful'
  <1>1. /\ UNCHANGED client /\ Len(sent) \in Nat /\ First + 1 < Len(sent) /\ s2c = <<>>
        /\ srv.heard = First + 1 /\ pc = "attach" /\ Total = First + 3
    BY Hearing, Heeding DEF SrvErect
  <1>3. s2c' = <<>> /\ srv' = Follows("AttachRequest", 0)
    BY <1>1 DEF SrvErect
  <1>4. Becomes("AttachRequest", srv.selected, srv.security, srv.user, srv.joined)
    BY <1>3, Becoming DEF Sound
  <1>0. PICK b \in {1, 4} : First = b /\ First' = b
    BY <1>4 DEF First, Becomes
  <1>5. /\ srv'.heard = b + 2 /\ srv'.selected = srv.selected /\ srv'.security = srv.security
        /\ srv'.expects = "AttachRequest" /\ srv'.joined = srv.joined /\ srv'.user = srv.user
    BY <1>0, <1>1, <1>4 DEF Becomes
  <1>6. Expecting' = "AttachRequest"
    BY <1>0, <1>5 DEF Expecting
  <1>7. Listening'
    BY <1>0, <1>1, <1>5, <1>6, ListensOn DEF Peaceful
  <1>8. Sealing'
    BY <1>0, <1>1, <1>5, SealingStays DEF Peaceful
  <1>9. SrvUser'
    BY <1>0, <1>1, <1>5, UserStays DEF Peaceful
  <1>10. Answers'
    BY <1>0, <1>1, <1>3, <1>5, Unmoved DEF Answers
  <1> QED
    BY <1>7, <1>8, <1>9, <1>10 DEF Peaceful

\* A sum that fits is in the range.
LEMMA Ranged ==
    ASSUME NEW n \in Nat, NEW a \in Nat, NEW b \in Nat, n + a < b
    PROVE  n + a \in a .. b - 1
  OBVIOUS

\* It gives a user id.
LEMMA AttachSaid ==
    ASSUME Sound, Peaceful, SrvAttach
    PROVE  Peaceful'
  <1>1. /\ UNCHANGED client /\ Len(sent) \in Nat /\ First + 2 < Len(sent) /\ s2c = <<>>
        /\ srv.heard = First + 2 /\ pc = "attach" /\ Total = First + 3
    BY Hearing, Heeding DEF SrvAttach
  <1>2. PICK i \in Initiators :
           /\ s2c' = s2c \o <<[t |-> "Attach", result |-> 0, initiator |-> i]>>
           /\ srv' = [Follows("JoinRequest", 1) EXCEPT !.user = i + 1001]
    BY DEF SrvAttach, Say
  <1>3. PICK m : m = [t |-> "Attach", result |-> 0, initiator |-> i]
    OBVIOUS
  <1>4. s2c' = <<m>>
    BY <1>1, <1>2, <1>3
  <1>5. i \in Nat /\ i + 1001 \in 1001 .. U16 - 1 /\ (i + 1001) - 1001 = i
    <2>1. i \in Nat /\ i + 1001 < U16
      BY ConnectionAssumption
    <2>2. 1001 \in Nat /\ U16 \in Nat
      BY Width
    <2>3. i + 1001 \in 1001 .. U16 - 1
      BY <2>1, <2>2, Ranged
    <2>4. (i + 1001) - 1001 = i
      BY <2>1
    <2> QED
      BY <2>1, <2>3, <2>4
  <1>6. Becomes("JoinRequest", srv.selected, srv.security, i + 1001, srv.joined)
    <2>1. PICK u : u = i + 1001
      OBVIOUS
    <2>2. srv' = [Follows("JoinRequest", 1) EXCEPT !.user = u]
      BY <1>2, <2>1
    <2>3. Becomes("JoinRequest", srv.selected, srv.security, u, srv.joined)
      BY <2>2, Becoming DEF Sound
    <2> QED
      BY <2>1, <2>3
  <1>0. PICK b \in {1, 4} : First = b /\ First' = b
    BY <1>6 DEF First, Becomes
  <1>7. /\ srv'.heard = b + 3 /\ srv'.selected = srv.selected /\ srv'.security = srv.security
        /\ srv'.expects = "JoinRequest" /\ srv'.joined = srv.joined
        /\ srv'.user \in 1001 .. U16 - 1 /\ srv'.user - 1001 = i
    BY <1>0, <1>1, <1>5, <1>6 DEF Becomes
  <1>8. Expecting' = "JoinRequest"
    BY <1>0, <1>7 DEF Expecting
  <1>9. Listening'
    BY <1>0, <1>1, <1>7, <1>8, ListensOn DEF Peaceful
  <1>10. Sealing'
    BY <1>0, <1>1, <1>7, SealingStays DEF Peaceful
  <1>11. SrvUser'
    <2>1. {j \in b + 4 .. b + 5 : j <= b + 2} = {j \in b + 4 .. b + 5 : j <= b + 3}
      OBVIOUS
    <2>2. srv'.joined = {Message(k).channel : k \in {j \in b + 4 .. b + 5 : j <= b + 3}}
      BY <1>0, <1>1, <1>7, <2>1 DEF Peaceful, SrvUser
    <2>3. ~(Total >= b + 4)
      BY <1>0, <1>1
    <2> QED
      BY <1>0, <1>1, <1>7, <2>2, <2>3, Unmoved DEF SrvUser
  <1>12. Answers'
    BY <1>0, <1>1, <1>3, <1>4, <1>7, OneMessage, Unmoved DEF Answers, Answer
  <1> QED
    BY <1>9, <1>10, <1>11, <1>12 DEF Peaceful

\* It lets the user join the channel.
LEMMA JoinSaid ==
    ASSUME Sound, Peaceful, SrvJoin
    PROVE  Peaceful'
  <1>1. /\ UNCHANGED client /\ Len(sent) \in Nat /\ srv.heard < Len(sent) /\ s2c = <<>>
        /\ srv.heard \in Nat /\ srv.heard \in {First + 3, First + 4} /\ pc = "join"
        /\ Total = srv.heard + 1 /\ Heard = Message(Total)
    BY Hearing, Heeding DEF SrvJoin
  <1>2. PICK m : m = [t |-> "Joined", initiator |-> srv.user - 1001, channel |-> Message(Total).channel]
    BY ZenonT(40)
  <1>3. /\ s2c' = <<m>>
        /\ srv' = [Follows(IF srv.joined = {} THEN "JoinRequest" ELSE "Info", 1)
                     EXCEPT !.joined = @ \cup {Message(Total).channel}]
    BY <1>1, <1>2 DEF SrvJoin, Say
  <1>4. PICK next, joined :
           /\ next = IF srv.joined = {} THEN "JoinRequest" ELSE "Info"
           /\ joined = srv.joined \cup {Message(Total).channel}
           /\ srv' = [Follows(next, 1) EXCEPT !.joined = joined]
    <2>1. PICK next : next = IF srv.joined = {} THEN "JoinRequest" ELSE "Info"
      OBVIOUS
    <2>2. Follows(next, 1).joined = srv.joined
      BY FollowsFacts DEF Sound
    <2> QED
      BY <1>3, <2>1, <2>2
  <1>5. Becomes(next, srv.selected, srv.security, srv.user, joined)
    BY <1>4, Becoming DEF Sound
  <1>0. PICK b \in {1, 4} : First = b /\ First' = b
    BY <1>5 DEF First, Becomes
  <1>6. PICK h \in {b + 3, b + 4} : srv.heard = h
    BY <1>0, <1>1
  <1>7. /\ srv'.heard = h + 1 /\ srv'.selected = srv.selected /\ srv'.security = srv.security
        /\ srv'.expects = next /\ srv'.joined = joined /\ srv'.user = srv.user
    BY <1>5, <1>6 DEF Becomes
  <1>8. srv.joined = {Message(k).channel : k \in {j \in b + 4 .. b + 5 : j <= h}}
    BY <1>0, <1>6 DEF Peaceful, SrvUser
  <1>9. Expecting' = next
    <2>1. CASE h = b + 3
      <3>1. {j \in b + 4 .. b + 5 : j <= h} = {}
        BY <2>1
      <3>2. next = "JoinRequest"
        BY <1>4, <1>8, <3>1
      <3> QED
        BY <1>0, <1>7, <2>1, <3>2 DEF Expecting
    <2>2. CASE h = b + 4
      <3>1. b + 4 \in {j \in b + 4 .. b + 5 : j <= h}
        BY <2>2
      <3>2. next = "Info"
        BY <1>4, <1>8, <3>1
      <3> QED
        BY <1>0, <1>7, <2>2, <3>2 DEF Expecting
    <2> QED
      BY <2>1, <2>2
  <1>10. Listening'
    BY <1>0, <1>1, <1>6, <1>7, <1>9, ListensOn DEF Peaceful
  <1>11. Sealing'
    BY <1>0, <1>1, <1>6, <1>7, SealingStays DEF Peaceful
  <1>12. SrvUser'
    <2>1. {j \in b + 4 .. b + 5 : j <= h + 1} = {j \in b + 4 .. b + 5 : j <= h} \cup {h + 1}
      OBVIOUS
    <2>2. joined = {Message(k).channel : k \in {j \in b + 4 .. b + 5 : j <= h + 1}}
      BY <1>1, <1>4, <1>6, <1>8, <2>1
    <2>3. srv.heard >= b + 3 /\ Total >= b + 4
      BY <1>1, <1>6
    <2>4. srv.user \in 1001 .. U16 - 1 /\ mcs.user_id = srv.user
      BY <1>0, <2>3 DEF Peaceful, SrvUser
    <2> QED
      BY <1>0, <1>1, <1>7, <2>2, <2>4, Unmoved DEF SrvUser
  <1>13. Answers'
    BY <1>0, <1>1, <1>2, <1>3, <1>6, <1>7, OneMessage, Unmoved DEF Answers, Answer
  <1> QED
    BY <1>10, <1>11, <1>12, <1>13 DEF Peaceful

\* It answers the info packet with a license.
LEMMA LicenseSaid ==
    ASSUME Sound, Peaceful, SrvLicense
    PROVE  Peaceful'
  <1>1. /\ UNCHANGED client /\ Len(sent) \in Nat /\ First + 5 < Len(sent) /\ s2c = <<>>
        /\ srv.heard = First + 5 /\ pc = "license" /\ Total = First + 6
    BY Hearing, Heeding DEF SrvLicense
  <1>2. srv' = Follows("nothing", 1)
    BY DEF SrvLicense
  <1>3. \E type \in {"NewLicense", "ErrorAlert"} : s2c' = s2c \o
              <<[t |-> "License", channel |-> 1003, flag |-> TRUE, type |-> type,
                 code |-> "StatusValidClient", transition |-> "StNoTransition"]>>
    BY Zenon DEF SrvLicense, Say
  <1>4. Becomes("nothing", srv.selected, srv.security, srv.user, srv.joined)
    BY <1>2, Becoming DEF Sound
  <1>0. PICK b \in {1, 4} : First = b /\ First' = b
    BY <1>4 DEF First, Becomes
  <1>5. /\ srv'.heard = b + 6 /\ srv'.selected = srv.selected /\ srv'.security = srv.security
        /\ srv'.expects = "nothing" /\ srv'.joined = srv.joined /\ srv'.user = srv.user
    BY <1>0, <1>1, <1>4 DEF Becomes
  <1>6. Expecting' = "nothing"
    BY <1>0, <1>5 DEF Expecting
  <1>7. Listening'
    BY <1>0, <1>1, <1>5, <1>6, ListensOn DEF Peaceful
  <1>8. Sealing'
    BY <1>0, <1>1, <1>5, SealingStays DEF Peaceful
  <1>9. SrvUser'
    BY <1>0, <1>1, <1>5, UserStays DEF Peaceful
  <1>10. Answers'
    <2>1. PICK type \in {"NewLicense", "ErrorAlert"} : s2c' = s2c \o
                <<[t |-> "License", channel |-> 1003, flag |-> TRUE, type |-> type,
                   code |-> "StatusValidClient", transition |-> "StNoTransition"]>>
      BY <1>3, Zenon
    <2>2. Len(s2c') = 1 /\ Answer(s2c[1])'
      <3>1. PICK m : m = [t |-> "License", channel |-> 1003, flag |-> TRUE, type |-> type,
                          code |-> "StatusValidClient", transition |-> "StNoTransition"]
        OBVIOUS
      <3>2. s2c' = <<m>>
        BY <1>1, <2>1, <3>1
      <3> QED
        BY <1>1, <2>1, <3>1, <3>2, OneMessage, Unmoved DEF Answer
    <2> QED
      BY <1>0, <1>1, <1>5, <2>2, Unmoved DEF Answers
  <1> QED
    BY <1>7, <1>8, <1>9, <1>10 DEF Peaceful

\* It opens the client's answer, and finds the public key in it.
LEMMA ProofRight ==
    ASSUME Sound, Peaceful, srv.kind = "conforming", SrvHears("Authenticate")
    PROVE  /\ Opened(Heard.auth) = Exported
           /\ Right(SecurityInterface(Exported, "server"), PubKey)
  <1>1. /\ Heard = Message(3) /\ Before = 4 /\ 3 \in 1 .. Total
    BY Hearing, Heeding
  <1>2. /\ Heard.auth = AuthenticateMessage(Account, Negotiate.t,
                          [nonce |-> SrvNonce, info |-> TargetInfo], Nonce, Exported)
        /\ Heard.sealed = Wrapped(SecurityInterface(Exported, "client"), PubKey)
    BY <1>1 DEF Peaceful, Sealing
  <1>3. Opened(Heard.auth) = Exported
    BY <1>2, OpenedRight
  <1>4. PICK c, s : /\ c = SecurityInterface(Exported, "client")
                    /\ s = SecurityInterface(Exported, "server")
    OBVIOUS
  <1>5. /\ c = Interface(SealKey(Exported, "client"), 0, SealKey(Exported, "server"), 0,
                         SignKey(Exported, "client"), SignKey(Exported, "server"), 0)
        /\ s = Interface(SealKey(Exported, "server"), 0, SealKey(Exported, "client"), 0,
                         SignKey(Exported, "server"), SignKey(Exported, "client"), 0)
    BY <1>4, Ended
  <1>6. Verified(s, Wrapped(c, PubKey)) /\ Unwrapped(s, Wrapped(c, PubKey)) = PubKey
    BY <1>5, Opens
  <1> QED
    BY <1>2, <1>3, <1>4, <1>6 DEF Right

\* So it sends the proof that it has the account.
LEMMA ValidateSaid ==
    ASSUME Sound, Peaceful, srv.kind = "conforming", SrvValidate
    PROVE  Peaceful'
  <1>1. /\ UNCHANGED client /\ Len(sent) \in Nat /\ 2 < Len(sent) /\ s2c = <<>>
        /\ srv.heard = 2 /\ First = 4 /\ pc = "validate" /\ Total = 3 /\ link.selected = srv.selected
    BY Hearing, Heeding DEF SrvValidate
  <1>2. Opened(Heard.auth) = Exported /\ Right(SecurityInterface(Exported, "server"), PubKey)
    BY ProofRight DEF SrvValidate
  <1>3. Exported # NoKey
    BY DEF Exported, NoKey
  <1>4. /\ s2c' = <<ValidateAnswer>>
        /\ srv' = [Follows("Credentials", 1) EXCEPT !.security = SrvProved]
    <2>1. PICK security : security = SecurityInterface(Exported, "server")
      OBVIOUS
    <2>2. /\ Say(Records([t |-> "Validate",
                          sealed |-> Wrapped(AfterUnwrap(security), PubKeyPlusOne)]))
          /\ srv' = [Follows("Credentials", 1)
                       EXCEPT !.security = AfterWrap(AfterUnwrap(security))]
      BY <1>2, <1>3, <2>1 DEF SrvValidate
    <2>3. ValidateAnswer = [t |-> "Validate",
                            sealed |-> Wrapped(AfterUnwrap(security), PubKeyPlusOne)]
      BY <2>1 DEF ValidateAnswer
    <2>4. SrvProved = AfterWrap(AfterUnwrap(security))
      BY <2>1 DEF SrvProved
    <2>5. s2c' = s2c \o <<ValidateAnswer>>
      BY <2>2, <2>3 DEF Say, Records
    <2> QED
      BY <1>1, <2>2, <2>4, <2>5
  <1>5. Becomes("Credentials", srv.selected, SrvProved, srv.user, srv.joined)
    BY <1>4, Becoming DEF Sound
  <1>6. /\ srv'.heard = 3 /\ srv'.selected = srv.selected /\ srv'.security = SrvProved
        /\ srv'.expects = "Credentials" /\ srv'.joined = srv.joined /\ srv'.user = srv.user
        /\ First' = 4
    BY <1>1, <1>5 DEF Becomes, First
  <1>7. Expecting' = "Credentials"
    BY <1>6 DEF Expecting
  <1>8. Listening'
    BY <1>1, <1>6, <1>7, ListensOn DEF Peaceful
  <1>9. Sealing'
    BY <1>1, <1>4, <1>6, Unmoved DEF Peaceful, Sealing
  <1>10. SrvUser'
    BY <1>1, <1>6, UserStays DEF Peaceful
  <1>11. Answers'
    <2>1. PICK m : m = ValidateAnswer
      OBVIOUS
    <2>2. ValidateAnswer' = ValidateAnswer
      BY DEF ValidateAnswer
    <2> QED
      BY <1>1, <1>4, <1>6, <2>1, <2>2, OneMessage, Unmoved DEF Answers, Answer
  <1> QED
    BY <1>8, <1>9, <1>10, <1>11 DEF Peaceful

\* It takes the credentials without an answer.
LEMMA CredentialsHeard ==
    ASSUME Sound, Peaceful, srv.kind = "conforming", SrvCredentials
    PROVE  Peaceful'
  <1>1. /\ UNCHANGED client /\ Len(sent) \in Nat /\ 3 < Len(sent) /\ s2c = <<>>
        /\ srv.heard = 3 /\ First = 4 /\ Before = 4 /\ pc = "response" /\ Total = 5
        /\ Heard = Message(4) /\ 4 \in 1 .. Total
    BY Hearing, Heeding DEF SrvCredentials
  <1>2. srv.security = SrvProved /\ Heard.sealed = Wrapped(NlaHeard, <<TsCredentials>>)
    BY <1>1 DEF Peaceful, Sealing
  <1>3. Right(srv.security, <<TsCredentials>>)
    <2>1. PICK s, c, d : s = SrvProved /\ c = NlaHeard /\ d = <<TsCredentials>>
      OBVIOUS
    <2>2. /\ s = Interface(SealKey(Exported, "server"), 2, SealKey(Exported, "client"), 2,
                           SignKey(Exported, "server"), SignKey(Exported, "client"), 1)
          /\ c = Interface(SealKey(Exported, "client"), 2, SealKey(Exported, "server"), 2,
                           SignKey(Exported, "client"), SignKey(Exported, "server"), 1)
      BY <2>1, SrvFacts, NlaFacts
    <2>3. Verified(s, Wrapped(c, d)) /\ Unwrapped(s, Wrapped(c, d)) = d
      BY <2>2, Opens
    <2> QED
      BY <1>2, <2>1, <2>3 DEF Right
  <1>4. s2c' = <<>> /\ srv' = [Follows("ConnectInitial", 0) EXCEPT !.security = SrvDone]
    <2>1. Follows("ConnectInitial", 0).security = SrvProved
      BY <1>2, FollowsFacts DEF Sound
    <2> QED
      BY <1>1, <1>3, <2>1 DEF SrvCredentials, SrvDone
  <1>5. Becomes("ConnectInitial", srv.selected, SrvDone, srv.user, srv.joined)
    BY <1>4, Becoming DEF Sound
  <1>6. /\ srv'.heard = 4 /\ srv'.selected = srv.selected /\ srv'.security = SrvDone
        /\ srv'.expects = "ConnectInitial" /\ srv'.joined = srv.joined /\ srv'.user = srv.user
        /\ First' = 4
    BY <1>1, <1>5 DEF Becomes, First
  <1>7. Expecting' = "ConnectInitial"
    BY <1>6 DEF Expecting
  <1>8. Listening'
    BY <1>1, <1>6, <1>7, ListensOn DEF Peaceful
  <1>9. Sealing'
    BY <1>1, <1>4, <1>6, Unmoved DEF Peaceful, Sealing
  <1>10. SrvUser'
    BY <1>1, <1>6, UserStays DEF Peaceful
  <1>11. Answers'
    BY <1>1, <1>4, <1>6, Unmoved DEF Answers
  <1> QED
    BY <1>8, <1>9, <1>10, <1>11 DEF Peaceful

\* Every step of a server keeps Conforming.
LEMMA ServerSpeaks ==
    ASSUME Sound, Conforming, Server
    PROVE  Conforming'
  <1> SUFFICES ASSUME srv'.kind = "conforming"
               PROVE  Peaceful'
    BY DEF Conforming, Peaceful
  <1>1. srv.kind = "conforming"
    BY ServerKeeps DEF Sound
  <1>2. Peaceful
    BY <1>1 DEF Conforming, Peaceful
  <1> QED
    BY <1>1, <1>2, ConfirmSaid, ChallengeSaid, ValidateSaid, CredentialsHeard, ResponseSaid,
       ErectHeard, AttachSaid, JoinSaid, LicenseSaid DEF Server

-----------------------------------------------------------------------------
\* The steps of the client with a conforming server.

\* What it reads is the answer it waits for.
LEMMA Reads ==
    ASSUME Sound, Peaceful, NEW step \in DOMAIN Expected, NEW type, Receive(step, type)
    PROVE  /\ pc = step /\ out = <<>> /\ UNCHANGED <<cfg, sent>>
           /\ srv.heard = Total /\ Total \in Nat /\ Total = Planned
           /\ s2c' = <<>> /\ Answer(msg) /\ msg.t = type
  <1> USE DEF Sound
  <1>1. /\ pc = step /\ out = <<>> /\ UNCHANGED <<cfg, sent>> /\ Total \in Nat /\ Total = Planned
        /\ s2c # <<>> /\ pc \in Steps /\ s2c' = Tail(s2c) /\ msg.t = type
    BY Reading DEF Receive
  <1>2. pc \notin {"failed", "panicked"}
    BY <1>1 DEF Steps
  <1>3. srv.heard = Total /\ Len(s2c) = 1 /\ Answer(s2c[1])
    BY <1>1, <1>2 DEF Peaceful, Answers
  <1>4. s2c \in Seq(Range(s2c))
    BY SeqFacts DEF Attached
  <1>5. Head(s2c) = s2c[1] /\ Tail(s2c) \in Seq(Range(s2c)) /\ Len(Tail(s2c)) = 0
    BY <1>3, <1>4, <1>1, HeadTailProperties
  <1>6. Tail(s2c) = <<>>
    BY <1>5, EmptySeq
  <1> QED
    BY <1>1, <1>3, <1>5, <1>6 DEF msg

\* The answer the client waits for is of the type it parses.
LEMMA AnswerExpected ==
    ASSUME NEW m, Answer(m), pc \in DOMAIN Expected
    PROVE  m.t = Expected[pc]
  <1>1. pc \in {"confirm", "challenge", "validate", "response", "attach", "join", "license"}
    BY DEF Expected
  <1> QED
    BY <1>1 DEF Answer, Expected, ValidateAnswer

\* So with a conforming server nothing else is ever read.
LEMMA NothingElse ==
    ASSUME Sound, Peaceful
    PROVE  ~ReadOther
  <1> SUFFICES ASSUME ReadOther PROVE FALSE
    OBVIOUS
  <1>1. PICK type : pc \in DOMAIN Expected /\ type # Expected[pc] /\ Receive(pc, type)
    BY DEF ReadOther
  <1>2. Answer(msg) /\ msg.t = type
    BY <1>1, Reads
  <1> QED
    BY <1>1, <1>2, AnswerExpected

\* A step that leaves the list as it is.
LEMMA Stays ==
    ASSUME Sound, Peaceful, UNCHANGED <<srv, cfg, s2c, mcs, nla>>, Total' = Total,
           \A i \in 1 .. Total : Message(i)' = Message(i),
           link'.selected = link.selected, Len(sent) \in Nat, Len(sent') \in Nat,
           Len(sent) <= Len(sent'), pc' = pc \/ pc' = "failed", pc' = "failed" => ~link'.up
    PROVE  Peaceful'
  <1>1. First' = First /\ Expecting' = Expecting /\ Before' = Before /\ Total \in Nat
    BY ListFacts DEF First, Expecting, Before, Sound
  <1>2. pc' # "failed" => Heeded' = Heeded
    BY DEF Heeded, First
  <1>3. srv.heard \in 0 .. Len(sent')
    BY DEF Peaceful, Listening
  <1>4. Listening'
    BY <1>1, <1>2, <1>3 DEF Peaceful, Listening, Requested
  <1>5. TsCredentials' = TsCredentials /\ Account' = Account
    BY DEF TsCredentials, Account
  <1>6. Sealing'
    BY <1>1, <1>5 DEF Peaceful, Sealing
  <1>7. SrvUser'
    <2>1. First \in {1, 4} /\ srv.heard \in Nat /\ srv.heard <= Total
      <3>1. Len(out) \in Nat /\ Total = Len(sent) + Len(out)
        BY ListFacts DEF Sound, Total
      <3> QED
        BY <3>1 DEF Peaceful, Listening, First
    <2>2. ASSUME NEW j \in First + 4 .. First + 5, j <= srv.heard PROVE Message(j)' = Message(j)
      BY <1>1, <2>1, <2>2
    <2>3. {Message(i).channel : i \in {j \in First + 4 .. First + 5 : j <= srv.heard}}
           = {Message(i)'.channel : i \in {j \in First + 4 .. First + 5 : j <= srv.heard}}
      BY <2>2
    <2> QED
      BY <1>1, <2>3 DEF Peaceful, SrvUser
  <1>8. Answers'
    <2> SUFFICES ASSUME pc' \notin {"failed", "panicked"} PROVE Answers'
      BY DEF Answers
    <2>1. pc' = pc
      OBVIOUS
    <2>2. CASE srv.heard = Total /\ pc \notin {"tls", "connected"}
      <3>1. Len(s2c) = 1 /\ Answer(s2c[1])
        BY <2>1, <2>2 DEF Peaceful, Answers
      <3>2. pc = "join" => Message(Total)' = Message(Total)
        <4>1. Before \in {1, 4}
          BY ListFacts DEF Sound
        <4>2. pc = "join" => Total \in {Before + 4, Before + 5}
          BY DEF Sound, IInv, InScript, Planned
        <4>3. pc = "join" => Total \in 1 .. Total
          BY <4>1, <4>2
        <4> QED
          BY <4>3
      <3>3. Answer(s2c[1])'
        BY <2>1, <3>1, <3>2 DEF Answer, ValidateAnswer
      <3> QED
        BY <2>1, <2>2, <3>1, <3>3 DEF Answers
    <2>3. CASE ~(srv.heard = Total /\ pc \notin {"tls", "connected"})
      BY <2>1, <2>3 DEF Peaceful, Answers
    <2> QED
      BY <2>2, <2>3
  <1> QED
    BY <1>4, <1>6, <1>7, <1>8 DEF Peaceful

\* A step that goes on to the next message.
LEMMA GoesOn ==
    ASSUME Sound, IInv', Peaceful, Client, UNCHANGED <<srv, cfg, sent>>,
           srv.heard = Total, s2c' = <<>>, pc' \in Steps \cup {"connected"},
           srv.heard >= Heeded', Total < Total' \/ pc' \in {"tls", "connected"},
           link'.selected = srv.selected, Total' >= First + 4 => mcs'.user_id = srv.user
    PROVE  Listening' /\ SrvUser' /\ Answers'
  <1>1. /\ Total \in Nat /\ Total' \in Nat /\ Total <= Total'
        /\ \A i \in 1 .. Total : Message(i)' = Message(i)
    BY Grows DEF Sound
  <1>2. First' = First /\ Expecting' = Expecting /\ First \in {1, 4} /\ Requested' = Requested
    BY DEF First, Expecting, Requested
  <1>3. Total > 0
    <2>1. Total = Planned
      <3>1. pc \notin {"failed", "panicked"}
        BY DEF Client, Read, ReadConnectionConfirm, ReadChallenge, ReadValidate,
               ReadConnectResponse, ReadAttachUserConfirm, ReadChannelJoinConfirm, ReadLicense,
               ReadOther, ReadEof, Receive, Waits, Write, WriteFails, StartSsl, Expected, Final
      <3> QED
        BY <3>1 DEF Sound, IInv, InScript
    <2>2. PICK b \in {1, 4} : Before = b
      BY ListFacts DEF Sound
    <2>3. Planned \in {1, 2, 3, b + 1, b + 3, b + 4, b + 5, b + 6}
      BY <2>2 DEF Planned
    <2> QED
      BY <1>1, <2>1, <2>2, <2>3
  <1>4. Listening'
    <2>1. srv.heard # 0 /\ srv.selected # "none"
      BY <1>3 DEF Peaceful, Listening
    <2>2. \A i \in 1 .. Total' : i = 1 => Message(i)' = Message(i) /\ i \in 1 .. Total
      BY <1>1, <1>3
    <2>3. \A i \in 1 .. Total' : i = 1 => Message(i)'.protocols = Requested
      BY <2>2 DEF Peaceful, Listening
    <2>4. pc' # "panicked" /\ pc' # "failed"
      BY DEF Steps
    <2> QED
      BY <1>2, <2>1, <2>3, <2>4 DEF Peaceful, Listening
  <1>5. SrvUser'
    <2>1. ASSUME NEW j \in First + 4 .. First + 5, j <= srv.heard PROVE Message(j)' = Message(j)
      <3>1. j \in 1 .. Total
        BY <1>1, <1>2, <2>1
      <3> QED
        BY <1>1, <3>1
    <2>2. {Message(i).channel : i \in {j \in First + 4 .. First + 5 : j <= srv.heard}}
           = {Message(i)'.channel : i \in {j \in First + 4 .. First + 5 : j <= srv.heard}}
      BY <2>1
    <2> QED
      BY <1>2, <2>2 DEF Peaceful, SrvUser
  <1>6. Answers'
    <2>1. ~(srv'.heard = Total' /\ pc' \notin {"tls", "connected"})
      <3>1. Total < Total' => Total # Total'
        BY <1>1
      <3> QED
        BY <3>1
    <2> QED
      BY <2>1 DEF Answers
  <1> QED
    BY <1>4, <1>5, <1>6

\* The messages of CredSSP are the third and the fourth.
ThirdRight(m) ==
    /\ "sealed" \in DOMAIN m
    /\ m.auth = AuthenticateMessage(Account, Negotiate.t,
                  [nonce |-> SrvNonce, info |-> TargetInfo], Nonce, Exported)
    /\ m.sealed = Wrapped(SecurityInterface(Exported, "client"), PubKey)
FourthRight(m) == "sealed" \in DOMAIN m /\ m.sealed = Wrapped(NlaHeard, <<TsCredentials>>)

\* How Sealing is kept by a step of the client.
LEMMA SealsOn ==
    ASSUME Sound, IInv', Sealing, Client, UNCHANGED <<srv, cfg>>,
           First = 4 /\ Total' >= 4 => nla' = NlaDone,
           ~(First = 4 /\ Total' = 3 /\ srv.heard = 3),
           Before' = Before \/ Total = 1,
           Total < 3 /\ Total' >= 3 /\ Before' = 4 => ThirdRight(Message(3)'),
           Total < 4 /\ Total' >= 4 /\ Before' = 4 => FourthRight(Message(4)')
    PROVE  Sealing'
  <1>1. /\ Total \in Nat /\ Total' \in Nat /\ Total <= Total'
        /\ \A i \in 1 .. Total : Message(i)' = Message(i)
    BY Grows DEF Sound
  <1>2. First' = First /\ TsCredentials' = TsCredentials /\ Account' = Account
    BY DEF First, TsCredentials, Account
  <1>3. ASSUME NEW i \in 1 .. Total', i = 3, Before' = 4
        PROVE  ThirdRight(Message(i)')
    <2>1. CASE Total < 3
      BY <1>1, <1>3, <2>1
    <2>2. CASE ~(Total < 3)
      <3>1. i \in 1 .. Total /\ Before = 4
        BY <1>1, <1>3, <2>2
      <3> QED
        BY <1>1, <1>3, <3>1 DEF Sealing, ThirdRight
    <2> QED
      BY <2>1, <2>2
  <1>4. ASSUME NEW i \in 1 .. Total', i = 4, Before' = 4
        PROVE  FourthRight(Message(i)')
    <2>1. CASE Total < 4
      BY <1>1, <1>4, <2>1
    <2>2. CASE ~(Total < 4)
      <3>1. i \in 1 .. Total /\ Before = 4
        BY <1>1, <1>4, <2>2
      <3> QED
        BY <1>1, <1>4, <3>1 DEF Sealing, FourthRight
    <2> QED
      BY <2>1, <2>2
  <1> QED
    BY <1>2, <1>3, <1>4 DEF Sealing, ThirdRight, FourthRight

\* Before the second message the two may differ on the protocol, later they do not.
LEMMA Agreed ==
    ASSUME Sound, Peaceful, srv.heard = Total, Total \in Nat, Total > 0
    PROVE  /\ srv.selected \in {"SSL", "Hybrid"}
           /\ Total > 1 => First = Before /\ link.selected = srv.selected
  <1>1. srv.selected \in {"SSL", "Hybrid"}
    BY DEF Peaceful, Listening
  <1>2. Total > 1 => First = Before /\ link.selected = srv.selected
    BY SameFirst DEF Sound, Peaceful
  <1> QED
    BY <1>1, <1>2

\* The client takes the server's protocol.
LEMMA ConfirmRead ==
    ASSUME Sound, IInv', Peaceful, ReadConnectionConfirm, UNCHANGED srv
    PROVE  Peaceful'
  <1>1. /\ pc = "confirm" /\ out = <<>> /\ UNCHANGED <<cfg, sent, nla, mcs>>
        /\ srv.heard = 1 /\ Total = 1 /\ s2c' = <<>> /\ Answer(msg)
    <2>1. "confirm" \in DOMAIN Expected
      BY DEF Expected
    <2> QED
      BY <2>1, Reads DEF ReadConnectionConfirm, Planned
  <1>2. srv.selected \in {"SSL", "Hybrid"}
    BY <1>1, Agreed
  <1>3. msg.type = "Response" /\ msg.protocol = srv.selected
    BY <1>1 DEF Answer
  <1>4. Accepts(msg)
    BY <1>2, <1>3 DEF Accepts, Handled
  <1>5. link' = [link EXCEPT !.selected = srv.selected] /\ pc' = "tls"
    BY <1>2, <1>3, <1>4 DEF ReadConnectionConfirm, Goto
  <1>6. link'.selected = srv.selected
    BY <1>5 DEF Sound, IInv, Typed
  <1>7. Heeded' = 1 /\ Total' = 1
    BY <1>5 DEF Heeded, IInv, InScript, Planned
  <1>8. Client
    BY DEF Client, Read
  <1>9. First \in {1, 4}
    BY DEF First
  <1>10. Listening' /\ SrvUser' /\ Answers'
    BY <1>1, <1>5, <1>6, <1>7, <1>8, <1>9, GoesOn DEF Steps
  <1>11. Sealing'
    BY <1>1, <1>7, <1>8, SealsOn DEF Peaceful
  <1> QED
    BY <1>10, <1>11 DEF Peaceful

\* It starts TLS.
LEMMA SslStarted ==
    ASSUME Sound, IInv', Peaceful, StartSsl, UNCHANGED srv
    PROVE  Peaceful'
  <1>1. /\ pc = "tls" /\ out = <<>> /\ UNCHANGED <<cfg, sent, nla, mcs, s2c>>
        /\ link.selected \in {"SSL", "Hybrid"} /\ link'.selected = link.selected
        /\ pc' = IF link.selected = "Hybrid" THEN "challenge" ELSE "response"
    BY DEF StartSsl, Goto, Sound, IInv, Layer, Typed
  <1>2. Total = 1 /\ Len(sent) = 1
    <2>1. Total = 1
      BY <1>1 DEF Sound, IInv, InScript, Planned
    <2> QED
      BY <1>1, <2>1, ListFacts, EmptySeq DEF Sound, Total
  <1>3. srv.heard = 1 /\ s2c = <<>>
    <2>1. srv.heard \in 0 .. 1 /\ srv.heard >= 1
      BY <1>1, <1>2 DEF Peaceful, Listening, Heeded
    <2> QED
      BY <1>1, <2>1 DEF Peaceful, Answers
  <1>4. link.selected = srv.selected
    BY <1>1 DEF Peaceful, Listening
  <1>5. PICK b \in {1, 4} : /\ b = Before /\ b = First /\ Before' = b /\ First' = b
                            /\ b = 4 <=> link.selected = "Hybrid"
    BY <1>1, <1>4 DEF Before, First
  <1>6. Total' = 2
    <2>1. pc' \in {"challenge", "response"} /\ Total' = Planned'
      BY <1>1 DEF IInv, InScript
    <2>2. CASE b = 4
      <3>1. pc' = "challenge"
        BY <1>1, <1>5, <2>2
      <3> QED
        BY <2>1, <3>1 DEF Planned
    <2>3. CASE b = 1
      <3>1. pc' = "response" /\ Before' + 1 = 2
        BY <1>1, <1>5, <2>3
      <3> QED
        BY <2>1, <3>1 DEF Planned
    <2> QED
      BY <1>5, <2>2, <2>3
  <1>7. Heeded' = 1
    <2>1. CASE b = 4
      <3>1. pc' = "challenge"
        BY <1>1, <1>5, <2>1
      <3> QED
        BY <3>1 DEF Heeded
    <2>2. CASE b = 1
      <3>1. pc' = "response" /\ First' # 4
        BY <1>1, <1>5, <2>2
      <3> QED
        BY <3>1 DEF Heeded
    <2> QED
      BY <1>5, <2>1, <2>2
  <1>8. Client
    BY DEF Client
  <1>9. Listening' /\ SrvUser' /\ Answers'
    <2>1. pc' \in Steps \cup {"connected"}
      BY <1>1 DEF Steps
    <2>2. srv.heard = Total /\ srv.heard >= Heeded' /\ Total < Total' /\ s2c' = <<>>
      BY <1>1, <1>2, <1>3, <1>6, <1>7
    <2>3. ~(Total' >= First + 4)
      <3>1. ~(2 >= b + 4)
        OBVIOUS
      <3> QED
        BY <1>5, <1>6, <3>1
    <2> QED
      BY <1>1, <1>4, <1>8, <2>1, <2>2, <2>3, GoesOn
  <1>10. Sealing'
    <2>1. ~(Total' >= 4) /\ ~(Total' = 3) /\ ~(Total' >= 3) /\ Before' = Before
      BY <1>5, <1>6
    <2> QED
      BY <1>1, <1>8, <2>1, SealsOn DEF Peaceful
  <1> QED
    BY <1>9, <1>10 DEF Peaceful

\* It answers the challenge.
LEMMA ChallengeRead ==
    ASSUME Sound, IInv', Peaceful, ReadChallenge, UNCHANGED srv
    PROVE  Peaceful'
  <1>1. /\ pc = "challenge" /\ out = <<>> /\ UNCHANGED <<cfg, sent, link, mcs>>
        /\ srv.heard = 2 /\ Total = 2 /\ s2c' = <<>> /\ Answer(msg)
    <2>1. "challenge" \in DOMAIN Expected
      BY DEF Expected
    <2> QED
      BY <2>1, Reads DEF ReadChallenge, Planned
  <1>2. First = Before /\ link.selected = srv.selected /\ First = 4
    BY <1>1, Agreed DEF Sound, IInv, Layer, Before
  <1>3. msg.form = "good" /\ msg.nonce = SrvNonce /\ msg.info = TargetInfo
    BY <1>1 DEF Answer
  <1>4. pc' = "validate" /\ nla' = NlaAsked
    BY <1>3 DEF ReadChallenge, Goto, NlaAsked
  <1>5. Heeded' = 2 /\ Total' = 3
    BY <1>4 DEF Heeded, IInv, InScript, Planned
  <1>6. Client
    BY DEF Client, Read
  <1>7. Listening' /\ SrvUser' /\ Answers'
    BY <1>1, <1>2, <1>4, <1>5, <1>6, GoesOn DEF Steps
  <1>8. ThirdRight(Message(3)')
    <2>1. AuthenticateMessage(Account, Negotiate.t, msg, Nonce, Exported) =
             AuthenticateMessage(Account, Negotiate.t,
                                 [nonce |-> SrvNonce, info |-> TargetInfo], Nonce, Exported)
      BY <1>3 DEF AuthenticateMessage
    <2>2. PICK m, auth, sealed :
             /\ m = Message(3)'
             /\ auth = AuthenticateMessage(Account, Negotiate.t, msg, Nonce, Exported)
             /\ sealed = Wrapped(SecurityInterface(Exported, "client"), PubKey)
      OBVIOUS
    <2>3. m = [t |-> "Authenticate", auth |-> auth, sealed |-> sealed]
      BY <1>4, <2>2, Answering DEF Sound
    <2> QED
      BY <2>1, <2>2, <2>3 DEF ThirdRight
  <1>9. Before' = Before
    BY <1>1 DEF Before
  <1>10. Sealing'
    <2>1. ~(Total' >= 4) /\ srv.heard # 3
      BY <1>1, <1>5
    <2> QED
      BY <1>1, <1>6, <1>8, <1>9, <2>1, SealsOn DEF Peaceful
  <1> QED
    BY <1>7, <1>10 DEF Peaceful

\* It verifies the answer, and gives the credentials.
LEMMA ValidateRead ==
    ASSUME Sound, IInv', Peaceful, ReadValidate, UNCHANGED srv
    PROVE  Peaceful'
  <1>1. /\ pc = "validate" /\ out = <<>> /\ UNCHANGED <<cfg, sent, link, mcs>>
        /\ srv.heard = 3 /\ Total = 3 /\ s2c' = <<>> /\ Answer(msg)
    <2>1. "validate" \in DOMAIN Expected
      BY DEF Expected
    <2> QED
      BY <2>1, Reads DEF ReadValidate, Planned
  <1>2. First = Before /\ link.selected = srv.selected /\ First = 4 /\ nla = NlaAsked
    BY <1>1, Agreed DEF Sound, IInv, Layer, Before, Nla
  <1>3. Verified(nla, msg.sealed) /\ Unwrapped(nla, msg.sealed) = PubKeyPlusOne
    <2>1. PICK c, s, d : /\ c = NlaAsked /\ d = PubKeyPlusOne
                         /\ s = AfterUnwrap(SecurityInterface(Exported, "server"))
      OBVIOUS
    <2>2. /\ s = Interface(SealKey(Exported, "server"), 0, SealKey(Exported, "client"), 2,
                           SignKey(Exported, "server"), SignKey(Exported, "client"), 0)
          /\ c = Interface(SealKey(Exported, "client"), 2, SealKey(Exported, "server"), 0,
                           SignKey(Exported, "client"), SignKey(Exported, "server"), 1)
      BY <2>1, SrvFacts, NlaFacts
    <2>3. Verified(c, Wrapped(s, d)) /\ Unwrapped(c, Wrapped(s, d)) = d
      BY <2>2, Opens
    <2>4. msg.sealed = Wrapped(s, d)
      BY <1>1, <2>1 DEF Answer, ValidateAnswer
    <2> QED
      BY <1>2, <2>1, <2>3, <2>4
  <1>4. PICK a, b, new :
           /\ a = [t |-> "Credentials", sealed |-> Wrapped(NlaHeard, <<TsCredentials>>)]
           /\ b = ConnectInitial("Hybrid") /\ new = <<a, b>>
           /\ nla' = NlaDone /\ pc' = "response" /\ out' = new
    BY <1>2, <1>3 DEF ReadValidate, Goto, NlaHeard, NlaDone
  <1>5. Before' = 4 /\ First' = 4
    BY <1>1, <1>2 DEF Before, First
  <1>6. Heeded' = 3 /\ Total' = 5
    BY <1>4, <1>5 DEF Heeded, IInv, InScript, Planned
  <1>7. Client
    BY DEF Client, Read
  <1>8. Listening' /\ SrvUser' /\ Answers'
    <2>1. /\ pc' \in Steps /\ srv.heard >= Heeded' /\ Total < Total' /\ srv.heard = Total
          /\ ~(Total' >= First + 4)
      BY <1>1, <1>2, <1>4, <1>6 DEF Steps
    <2> QED
      BY <1>1, <1>2, <1>7, <2>1, GoesOn
  <1>9. FourthRight(Message(4)')
    <2>1. new \in Seq({a, b}) /\ Len(new) = 2 /\ new[1] = a
      BY <1>4, TwoMessages
    <2>2. \A i \in Total + 1 .. Total + Len(new) : Message(i)' = new[i - Total]
      BY <1>1, <1>4, <2>1, LinedUp DEF Sound
    <2>3. 4 \in Total + 1 .. Total + Len(new) /\ 4 - Total = 1
      BY <1>1, <2>1
    <2>4. PICK m : m = Message(4)' /\ m = a
      BY <2>1, <2>2, <2>3
    <2>5. "sealed" \in DOMAIN m /\ m.sealed = Wrapped(NlaHeard, <<TsCredentials>>)
      BY <1>4, <2>4
    <2> QED
      BY <2>4, <2>5 DEF FourthRight
  <1>10. Sealing'
    <2>1. ~(Total' = 3) /\ ~(Total < 3)
      BY <1>1, <1>6
    <2> QED
      BY <1>1, <1>2, <1>4, <1>5, <1>7, <1>9, <2>1, SealsOn DEF Peaceful
  <1> QED
    BY <1>8, <1>10 DEF Peaceful

\* After CredSSP nothing is sealed.
LEMMA LaterSeals ==
    ASSUME Sound, IInv', Peaceful, Client, UNCHANGED <<srv, cfg, link, nla>>, Total > Before
    PROVE  Sealing'
  <1>1. PICK b \in {1, 4} : Before = b /\ Before' = b
    BY ListFacts DEF Sound, Before
  <1>2. PICK n \in Nat, o \in Nat : n = Total /\ o = Total' /\ n <= o /\ n > b
    BY <1>1, Grows DEF Sound
  <1>3. First = b
    <2>1. n > 1
      BY <1>2
    <2> QED
      BY <1>1, <1>2, <2>1, SameFirst DEF Sound, Peaceful
  <1>4. CASE b = 4
    <2>1. n >= 4 /\ ~(n < 3) /\ ~(n < 4) /\ o # 3
      BY <1>2, <1>4
    <2>2. nla' = NlaDone
      BY <1>2, <1>3, <1>4, <2>1 DEF Peaceful, Sealing
    <2> QED
      BY <1>1, <1>2, <2>1, <2>2, SealsOn DEF Peaceful
  <1>5. CASE b = 1
    <2>1. First # 4 /\ Before' # 4
      BY <1>1, <1>3, <1>5
    <2> QED
      BY <1>1, <2>1, SealsOn DEF Peaceful
  <1> QED
    BY <1>4, <1>5

\* It takes the connect response.
LEMMA ResponseRead ==
    ASSUME Sound, IInv', Peaceful, ReadConnectResponse, UNCHANGED srv
    PROVE  Peaceful'
  <1>1. /\ pc = "response" /\ out = <<>> /\ UNCHANGED <<cfg, sent, link, nla>>
        /\ srv.heard = Total /\ Total = Before + 1 /\ s2c' = <<>> /\ Answer(msg)
    <2>1. "response" \in DOMAIN Expected
      BY DEF Expected
    <2> QED
      BY <2>1, Reads DEF ReadConnectResponse, Planned
  <1>2. PICK b \in {1, 4} : Before = b /\ Before' = b
    BY <1>1, ListFacts DEF Sound, Before
  <1>3. PICK n \in Nat : n = Total /\ n = b + 1 /\ n > 1 /\ n > b
    BY <1>1, <1>2
  <1>4. First = b /\ First' = b /\ link.selected = srv.selected
    BY <1>1, <1>2, <1>3, Agreed DEF First
  <1>5. msg.blocks = {"core", "net"}
    BY <1>1 DEF Answer
  <1>6. pc' = "attach"
    BY <1>5 DEF ReadConnectResponse, Goto
  <1>7. Heeded' = b + 1 /\ Total' = b + 3
    BY <1>2, <1>4, <1>6 DEF Heeded, IInv, InScript, Planned
  <1>8. Client
    BY DEF Client, Read
  <1>9. Listening' /\ SrvUser' /\ Answers'
    <2>1. /\ pc' \in Steps /\ srv.heard >= Heeded' /\ Total < Total'
          /\ ~(Total' >= First + 4)
      BY <1>1, <1>2, <1>3, <1>4, <1>6, <1>7 DEF Steps
    <2> QED
      BY <1>1, <1>4, <1>8, <2>1, GoesOn
  <1>10. Sealing'
    BY <1>1, <1>2, <1>3, <1>8, LaterSeals
  <1> QED
    BY <1>9, <1>10 DEF Peaceful

\* The sum of the initiator stays in 16 bits.
LEMMA UserRange ==
    ASSUME NEW u \in 1001 .. U16 - 1
    PROVE  /\ u \in Nat /\ u < U16 /\ u \in 0 .. U16 - 1 /\ (u - 1001) + 1001 = u
           /\ u % U16 = u /\ ~(u >= U16)
  <1>1. U16 \in Nat /\ U16 > 0
    BY Width
  <1>2. u \in Nat /\ u < U16 /\ u \in 0 .. U16 - 1 /\ (u - 1001) + 1001 = u
    BY <1>1
  <1>3. u % U16 = u
    BY <1>1, <1>2, Remainder
  <1> QED
    BY <1>1, <1>2, <1>3

\* It takes the user id.
LEMMA AttachRead ==
    ASSUME Sound, IInv', Peaceful, ReadAttachUserConfirm, UNCHANGED srv
    PROVE  Peaceful'
  <1>1. /\ pc = "attach" /\ out = <<>> /\ UNCHANGED <<cfg, sent, link, nla>>
        /\ srv.heard = Total /\ Total = Before + 3 /\ s2c' = <<>> /\ Answer(msg)
    <2>1. "attach" \in DOMAIN Expected
      BY DEF Expected
    <2> QED
      BY <2>1, Reads DEF ReadAttachUserConfirm, Planned
  <1>2. PICK b \in {1, 4} : Before = b /\ Before' = b
    BY <1>1, ListFacts DEF Sound, Before
  <1>3. PICK n \in Nat : n = Total /\ n = b + 3 /\ n > 1 /\ n > b
    BY <1>1, <1>2
  <1>4. First = b /\ First' = b /\ link.selected = srv.selected
    BY <1>1, <1>2, <1>3, Agreed DEF First
  <1>5. srv.user \in 1001 .. U16 - 1
    BY <1>1, <1>3, <1>4 DEF Peaceful, SrvUser
  <1>0. PICK u \in 1001 .. U16 - 1 : u = srv.user
    BY <1>5
  <1>6. /\ u = srv.user /\ u \in Nat /\ u \in 0 .. U16 - 1
        /\ (u - 1001) + 1001 = u /\ u % U16 = u /\ ~(u >= U16)
    BY <1>0, UserRange
  <1>7. msg.result = 0 /\ msg.initiator + 1001 = u
    BY <1>1, <1>6 DEF Answer
  <1>8. JoinNext([mcs EXCEPT !.user_id = (msg.initiator + 1001) % U16], Channels)
    BY <1>6, <1>7 DEF ReadAttachUserConfirm
  <1>9. PICK m : m = [mcs EXCEPT !.user_id = u] /\ JoinNext(m, Channels)
    BY <1>6, <1>7, <1>8
  <1>10. PICK name \in Channels :
             /\ mcs' = [m EXCEPT !.joining = name, !.todo = Channels \ {name}]
             /\ pc' = "join"
    BY <1>9 DEF JoinNext, Goto
  <1>11. mcs'.user_id = u /\ mcs'.todo = Channels \ {name}
    <2>1. /\ m \in [user_id : 0 .. (U16 - 1), joining : Channels \cup {"none"},
                    todo : SUBSET Channels,
                    version : {"none", "RdpVersion5plus", "RdpVersion", "Unknown"}]
          /\ m.user_id = u
      BY <1>6, <1>9 DEF Sound, IInv, Typed
    <2> QED
      BY <1>10, <2>1
  <1>12. mcs'.todo # {}
    BY <1>11 DEF Channels
  <1>13. Heeded' = b + 3 /\ Total' = b + 4
    BY <1>2, <1>4, <1>10, <1>12 DEF Heeded, IInv, InScript, Planned
  <1>14. Client
    BY DEF Client, Read
  <1>15. Listening' /\ SrvUser' /\ Answers'
    <2>1. /\ pc' \in Steps /\ srv.heard >= Heeded' /\ Total < Total'
          /\ mcs'.user_id = srv.user
      BY <1>1, <1>3, <1>6, <1>10, <1>11, <1>13 DEF Steps
    <2> QED
      BY <1>1, <1>4, <1>14, <2>1, GoesOn
  <1>16. Sealing'
    BY <1>1, <1>2, <1>3, <1>14, LaterSeals
  <1> QED
    BY <1>15, <1>16 DEF Peaceful

\* The initiator is the user, and the channel the one that was asked for.
LEMMA JoinedRead ==
    ASSUME Sound, IInv', Peaceful, ReadChannelJoinConfirm, UNCHANGED srv
    PROVE  Peaceful'
  <1>1. /\ pc = "join" /\ out = <<>> /\ UNCHANGED <<cfg, sent, link, nla>>
        /\ srv.heard = Total /\ Total = Planned /\ Total \in Nat
        /\ s2c' = <<>> /\ Answer(msg)
    <2>1. "join" \in DOMAIN Expected
      BY DEF Expected
    <2> QED
      BY <2>1, Reads DEF ReadChannelJoinConfirm
  <1>2. PICK b \in {1, 4} : Before = b /\ Before' = b
    BY <1>1, ListFacts DEF Sound, Before
  <1>3. PICK n \in Nat : n = Total /\ n = IF mcs.todo = {} THEN b + 5 ELSE b + 4
    BY <1>1, <1>2 DEF Planned
  <1>4. n > 1 /\ n > b /\ n >= b + 3 /\ n >= b + 4 /\ n \in 1 .. n
    BY <1>3
  <1>5. First = b /\ First' = b /\ link.selected = srv.selected
    BY <1>1, <1>2, <1>3, <1>4, Agreed DEF First
  <1>6. srv.user \in 1001 .. U16 - 1 /\ mcs.user_id = srv.user
    BY <1>1, <1>3, <1>4, <1>5 DEF Peaceful, SrvUser
  <1>0. PICK u \in 1001 .. U16 - 1 : u = srv.user
    BY <1>6
  <1>7. /\ u = srv.user /\ u \in Nat
        /\ (u - 1001) + 1001 = u /\ u % U16 = u /\ ~(u >= U16)
    BY <1>0, UserRange
  <1>8. msg.initiator = u - 1001 /\ msg.channel = Message(Total).channel
    BY <1>1, <1>7 DEF Answer
  <1>9. msg.channel = ChannelId(mcs, mcs.joining)
    <2>1. Total \in 1 .. Total
      BY <1>3, <1>4
    <2> QED
      BY <1>1, <1>8, <2>1 DEF Sound, IInv, Joined
  <1>10. /\ ~(msg.initiator + 1001 >= U16)
         /\ (msg.initiator + 1001) % U16 = mcs.user_id
    <2>1. PICK i : i = msg.initiator /\ i = u - 1001 /\ i + 1001 = u
      BY <1>7, <1>8
    <2> QED
      BY <1>6, <1>7, <2>1
  <1>11. IF mcs.todo # {} THEN JoinNext(mcs, mcs.todo)
         ELSE Goto("license", <<Info(mcs)>>) /\ mcs' = [mcs EXCEPT !.joining = "none"]
    BY <1>9, <1>10 DEF ReadChannelJoinConfirm
  <1>12. Client
    BY DEF Client, Read
  <1>13. /\ pc' \in Steps /\ mcs'.user_id = srv.user
         /\ srv.heard >= Heeded' /\ Total < Total'
    <2>1. /\ mcs \in [user_id : 0 .. (U16 - 1), joining : Channels \cup {"none"},
                      todo : SUBSET Channels,
                      version : {"none", "RdpVersion5plus", "RdpVersion", "Unknown"}]
          /\ mcs.joining \in Channels /\ mcs.todo \subseteq Channels \ {mcs.joining}
      BY <1>1 DEF Sound, IInv, Typed, Joined
    <2>2. CASE mcs.todo # {}
      <3>1. PICK name \in mcs.todo :
               /\ mcs' = [mcs EXCEPT !.joining = name, !.todo = mcs.todo \ {name}]
               /\ pc' = "join"
        BY <1>11, <2>2 DEF JoinNext, Goto
      <3>2. mcs'.user_id = srv.user /\ mcs'.todo = mcs.todo \ {name}
        BY <1>6, <2>1, <3>1
      <3>3. mcs'.todo = {}
        BY <2>1, <3>2 DEF Channels
      <3>4. Heeded' = b + 4 /\ Total' = b + 5
        BY <1>2, <1>5, <3>1, <3>3 DEF Heeded, IInv, InScript, Planned
      <3> QED
        BY <1>1, <1>3, <2>2, <3>1, <3>2, <3>4 DEF Steps
    <2>3. CASE mcs.todo = {}
      <3>1. pc' = "license" /\ mcs' = [mcs EXCEPT !.joining = "none"]
        BY <1>11, <2>3 DEF Goto
      <3>2. mcs'.user_id = srv.user
        BY <1>6, <2>1, <3>1
      <3>3. Heeded' = b + 5 /\ Total' = b + 6
        BY <1>2, <1>5, <3>1 DEF Heeded, IInv, InScript, Planned
      <3> QED
        BY <1>1, <1>3, <2>3, <3>1, <3>2, <3>3 DEF Steps
    <2> QED
      BY <2>2, <2>3
  <1>14. Listening' /\ SrvUser' /\ Answers'
    BY <1>1, <1>5, <1>12, <1>13, GoesOn
  <1>15. Sealing'
    BY <1>1, <1>2, <1>3, <1>4, <1>12, LaterSeals
  <1> QED
    BY <1>14, <1>15 DEF Peaceful

\* It takes the license.
LEMMA LicenseRead ==
    ASSUME Sound, IInv', Peaceful, ReadLicense, UNCHANGED srv
    PROVE  Peaceful'
  <1>1. /\ pc = "license" /\ out = <<>> /\ UNCHANGED <<cfg, sent, link, nla, mcs>>
        /\ srv.heard = Total /\ Total = Before + 6 /\ s2c' = <<>> /\ Answer(msg)
    <2>1. "license" \in DOMAIN Expected
      BY DEF Expected
    <2> QED
      BY <2>1, Reads DEF ReadLicense, Planned
  <1>2. PICK b \in {1, 4} : Before = b /\ Before' = b
    BY <1>1, ListFacts DEF Sound, Before
  <1>3. PICK n \in Nat : n = Total /\ n = b + 6 /\ n > 1 /\ n > b /\ n >= b + 4
    BY <1>1, <1>2
  <1>4. First = b /\ First' = b /\ link.selected = srv.selected
    BY <1>1, <1>2, <1>3, Agreed DEF First
  <1>5. /\ msg.channel = 1003 /\ msg.flag /\ msg.type \in {"NewLicense", "ErrorAlert"}
        /\ msg.code = "StatusValidClient" /\ msg.transition = "StNoTransition"
    BY <1>1 DEF Answer
  <1>6. SecError(msg) = "Ok"
    <2>1. LicenseError(msg) = "Ok"
      BY <1>5 DEF LicenseError, AlertError, AlertCodes, Transitions
    <2>2. ChannelId(mcs, "global") = 1003 /\ "global" \in Channels
      BY DEF ChannelId, Channels
    <2> QED
      BY <1>5, <2>1, <2>2 DEF SecError
  <1>7. pc' = "connected"
    BY <1>6 DEF ReadLicense
  <1>8. Heeded' = b + 6
    BY <1>4, <1>7 DEF Heeded
  <1>9. Client
    BY DEF Client, Read
  <1>10. mcs'.user_id = srv.user
    BY <1>1, <1>3, <1>4 DEF Peaceful, SrvUser
  <1>11. Listening' /\ SrvUser' /\ Answers'
    <2>1. srv.heard >= Heeded'
      BY <1>1, <1>3, <1>8
    <2> QED
      BY <1>1, <1>4, <1>7, <1>9, <1>10, <2>1, GoesOn
  <1>12. Sealing'
    BY <1>1, <1>2, <1>3, <1>9, LaterSeals
  <1> QED
    BY <1>11, <1>12 DEF Peaceful

\* The steps that leave the list as it is.
LEMMA Quiet ==
    ASSUME Sound, IInv', Peaceful, UNCHANGED srv,
           Write \/ WriteFails \/ ReadEof \/ (SslFails /\ ~link.up) \/ LinkDrop
    PROVE  Peaceful'
  <1>1. Len(sent) \in Nat /\ Total \in Nat
    BY ListFacts DEF Sound
  <1>2. CASE Write
    <2>1. /\ Total' = Total /\ Len(sent') = Len(sent) + 1
          /\ \A i \in 1 .. Total : Message(i)' = Message(i)
      BY <1>2, Written DEF Sound
    <2>2. Len(sent') \in Nat /\ Len(sent) <= Len(sent')
      BY <1>1, <2>1
    <2>3. UNCHANGED <<cfg, s2c, mcs, nla, pc, link>> /\ pc # "failed"
      BY <1>2 DEF Write, Final
    <2> QED
      BY <1>1, <2>1, <2>2, <2>3, Stays
  <1>3. CASE WriteFails \/ ReadEof \/ (SslFails /\ ~link.up)
    <2>1. UNCHANGED <<cfg, s2c, mcs, nla, sent, out, link>> /\ pc' = "failed" /\ ~link.up
      BY <1>3 DEF WriteFails, ReadEof, SslFails, Fail
    <2>2. Total' = Total /\ \A i \in 1 .. Total : Message(i)' = Message(i)
      BY <2>1 DEF Total, Message
    <2> QED
      BY <1>1, <2>1, <2>2, Stays
  <1>4. CASE LinkDrop
    <2>1. /\ UNCHANGED <<cfg, s2c, mcs, nla, sent, out, pc>> /\ pc # "failed"
          /\ link' = [link EXCEPT !.up = FALSE]
      BY <1>4 DEF LinkDrop, Final
    <2>2. Total' = Total /\ \A i \in 1 .. Total : Message(i)' = Message(i)
      BY <2>1 DEF Total, Message
    <2>3. link'.selected = link.selected
      BY <2>1 DEF Sound, IInv, Typed
    <2> QED
      BY <1>1, <2>1, <2>2, <2>3, Stays
  <1> QED
    BY <1>2, <1>3, <1>4

\* Every step keeps Conforming.
LEMMA ConformingNext ==
    ASSUME Sound, Conforming, [ConnectionNext]_all
    PROVE  Conforming'
  <1>0. IInv'
    BY SoundNext DEF Sound
  <1>1. CASE Server
    BY <1>1, ServerSpeaks
  <1>2. CASE (ClientSteps \/ LinkDrop) /\ UNCHANGED srv
    <2> SUFFICES ASSUME srv.kind = "conforming" PROVE Peaceful'
      BY <1>2 DEF Conforming, Peaceful
    <2>1. Peaceful
      BY DEF Conforming, Peaceful
    <2>2. Client \/ (SslFails /\ ~link.up) \/ LinkDrop
      BY <1>2 DEF ClientSteps
    <2> QED
      BY <1>0, <1>2, <2>1, <2>2, ConfirmRead, SslStarted, ChallengeRead, ValidateRead,
         ResponseRead, AttachRead, JoinedRead, LicenseRead, NothingElse, Quiet
         DEF Client, Read
  <1>3. CASE Peer /\ UNCHANGED srv
    BY <1>3 DEF Peer, Conforming
  <1>4. CASE UNCHANGED all
    <2> SUFFICES ASSUME srv.kind = "conforming" PROVE Peaceful'
      BY <1>4 DEF Conforming, Peaceful, all
    <2>1. Peaceful
      BY DEF Conforming, Peaceful
    <2>2. UNCHANGED <<srv, cfg, s2c, mcs, nla, sent, out, link, pc>>
      BY <1>4 DEF all, vars, client
    <2>3. Total' = Total /\ \A i \in 1 .. Total : Message(i)' = Message(i)
      BY <2>2 DEF Total, Message
    <2>4. Len(sent) \in Nat
      BY ListFacts DEF Sound
    <2>5. pc' = "failed" => ~link'.up
      BY <2>1, <2>2 DEF Peaceful, Listening
    <2> QED
      BY <2>1, <2>2, <2>3, <2>4, <2>5, Stays
  <1> QED
    BY <1>1, <1>2, <1>3, <1>4 DEF ConnectionNext

\* Nothing is heard and nothing said at first.
LEMMA ConformingInit ==
    ASSUME ConnectionInit
    PROVE  Conforming
  <1>1. /\ pc = "confirm" /\ link.selected = "none" /\ s2c = <<>> /\ sent = <<>>
        /\ out = <<Request>>
    BY DEF ConnectionInit, Init
  <1>2. PICK kind, version :
           srv = [kind |-> kind, version |-> version, expects |-> "Request", heard |-> 0,
                  granted |-> 0, selected |-> "none",
                  security |-> SecurityInterface(NoKey, "server"),
                  user |-> NoUser, joined |-> {}]
    BY DEF ConnectionInit, SrvInit
  <1>3. /\ srv.expects = "Request" /\ srv.heard = 0 /\ srv.selected = "none"
        /\ srv.security = SrvIdle /\ srv.joined = {}
    BY <1>2 DEF SrvIdle
  <1>4. First = 1 /\ Before = 1
    BY <1>1, <1>3 DEF First, Before
  <1>5. Len(sent) = 0 /\ Total = 1 /\ Message(1) = Request
    <2>1. Len(sent) = 0 /\ Len(out) = 1 /\ out[1] = Request
      BY <1>1, OneMessage, EmptySeq
    <2> QED
      BY <2>1 DEF Total, Message
  <1>6. Listening
    <2>1. Expecting = "Request"
      BY <1>3, <1>4 DEF Expecting
    <2>3. Heeded = 0
      BY <1>1 DEF Heeded
    <2>2. \A i \in 1 .. Total : i = 1 => Message(i).protocols = Requested
      BY <1>5 DEF Request
    <2> QED
      BY <1>1, <1>3, <1>4, <1>5, <2>1, <2>2, <2>3 DEF Listening
  <1>7. Sealing
    BY <1>3, <1>4, <1>5 DEF Sealing
  <1>8. SrvUser
    <2>1. {j \in First + 4 .. First + 5 : j <= srv.heard} = {}
      BY <1>3, <1>4
    <2>2. srv.joined = {Message(i).channel : i \in {j \in First + 4 .. First + 5 : j <= srv.heard}}
      BY <1>3, <2>1
    <2> QED
      BY <1>3, <1>4, <1>5, <2>2 DEF SrvUser
  <1>9. Answers
    BY <1>1, <1>3, <1>5 DEF Answers
  <1> QED
    BY <1>6, <1>7, <1>8, <1>9 DEF Conforming

\* A conforming server and the client keep to the list, and to their keys.
THEOREM Conformance == ConnectionSpec => []Conforming
  <1>1. ConnectionInit => Conforming
    BY ConformingInit
  <1>2. Sound /\ Conforming /\ [ConnectionNext]_all => Conforming'
    BY ConformingNext
  <1> QED
    BY <1>1, <1>2, Soundness, PTL DEF ConnectionSpec

-----------------------------------------------------------------------------
\* When connect returns Ok, a conforming server has finished too.
LEMMA Agree ==
    ASSUME Sound, Conforming
    PROVE  Agreement
  <1> SUFFICES ASSUME pc = "connected", srv.kind = "conforming"
               PROVE  /\ srv.expects = "nothing" /\ srv.selected = link.selected
                      /\ srv.user = mcs.user_id /\ srv.joined = {1003, mcs.user_id}
    BY DEF Agreement
  <1>1. Peaceful
    BY DEF Conforming, Peaceful
  <1>2. PICK h \in Nat, n \in Nat, b \in {1, 4} : h = srv.heard /\ n = Total /\ b = Before
    BY ListFacts DEF Sound, SrvTyped
  <1>3. n = b + 6 /\ n > 1 /\ n >= b + 4 /\ n >= b + 5
    <2>1. n = b + 6
      BY <1>2 DEF Sound, IInv, InScript, Planned
    <2> QED
      BY <2>1
  <1>4. First = b /\ link.selected = srv.selected
    BY <1>1, <1>2, <1>3, SameFirst DEF Sound, Peaceful
  <1>5. h = b + 6
    <2>1. h >= b + 6
      BY <1>1, <1>2, <1>4 DEF Peaceful, Listening, Heeded
    <2>2. h <= b + 6
      BY <1>1, <1>2, <1>4 DEF Peaceful, Listening
    <2> QED
      BY <2>1, <2>2
  <1>6. srv.expects = "nothing"
    <2>1. Expecting = "nothing"
      BY <1>2, <1>4, <1>5 DEF Expecting
    <2> QED
      BY <1>1, <2>1 DEF Peaceful, Listening
  <1>7. srv.user = mcs.user_id
    BY <1>1, <1>2, <1>3, <1>4 DEF Peaceful, SrvUser
  <1>8. srv.joined = {1003, mcs.user_id}
    <2>1. {j \in b + 4 .. b + 5 : j <= h} = {b + 4, b + 5}
      BY <1>5
    <2>2. srv.joined = {Message(i).channel : i \in {j \in b + 4 .. b + 5 : j <= h}}
      BY <1>1, <1>2, <1>4 DEF Peaceful, SrvUser
    <2>3. srv.joined = {Message(b + 4).channel, Message(b + 5).channel}
      BY <2>1, <2>2
    <2>4. {Message(b + 4).channel, Message(b + 5).channel} = {1003, mcs.user_id}
      BY <1>2, <1>3 DEF Sound, IInv, Joined
    <2> QED
      BY <2>3, <2>4
  <1> QED
    BY <1>4, <1>6, <1>7, <1>8

\* What it is sent is what it expects.
LEMMA NoAlarm ==
    ASSUME Sound, Conforming
    PROVE  NoFalseAlarm
  <1> SUFFICES ASSUME srv.kind = "conforming", link.up
               PROVE  /\ pc \notin {"failed", "panicked"} /\ srv.expects # "nothing more"
                      /\ srv.heard < Len(sent) => Heard.t = srv.expects
    BY DEF NoFalseAlarm
  <1>1. Peaceful
    BY DEF Conforming, Peaceful
  <1>2. pc \notin {"failed", "panicked"} /\ srv.expects = Expecting
    BY <1>1 DEF Peaceful, Listening
  <1>3. Expecting # "nothing more"
    BY DEF Expecting, First
  <1>4. ASSUME srv.heard < Len(sent) PROVE Heard.t = Expecting
    <2>1. PICK h \in Nat, n \in Nat, b \in {1, 4} : h = srv.heard /\ n = Total /\ b = Before
      BY ListFacts DEF Sound, SrvTyped
    <2>2. h + 1 \in DOMAIN sent /\ h + 1 \in 1 .. n
      BY <1>4, <2>1, ListFacts DEF Sound, Total
    <2>3. Heard.t = ScriptAt(h + 1) /\ h + 1 <= b + 6
      BY <2>1, <2>2, OnTheStream DEF Sound, Heard
    <2>4. CASE h = 0
      <3>1. First \in {1, 4}
        BY DEF First
      <3>2. Expecting = "Request"
        BY <2>1, <2>4, <3>1 DEF Expecting
      <3>3. ScriptAt(h + 1) = "Request"
        BY <2>4, ScriptFacts
      <3> QED
        BY <2>3, <3>2, <3>3
    <2>5. CASE h > 0
      <3>1. First = b
        <4>1. n > 1
          BY <2>2, <2>5
        <4> QED
          BY <1>1, <2>1, <4>1, SameFirst DEF Sound, Peaceful
      <3>2. CASE b = 4
        <4>1. h \in 1 .. 9
          BY <2>2, <2>3, <2>5, <3>2
        <4> QED
          BY <2>1, <2>3, <3>1, <3>2, <4>1 DEF Expecting, ScriptAt
      <3>3. CASE b = 1
        <4>1. h \in 1 .. 6
          BY <2>2, <2>3, <2>5, <3>3
        <4> QED
          BY <2>1, <2>3, <3>1, <3>3, <4>1 DEF Expecting, ScriptAt
      <3> QED
        BY <3>2, <3>3
    <2> QED
      BY <2>4, <2>5
  <1> QED
    BY <1>2, <1>3, <1>4

\* The client does not use its interface before the third message.
Unused == Total < 3 \/ Before = 1 => nla = NlaIdle

\* Every step keeps Unused.
LEMMA UnusedNext ==
    ASSUME Sound, Unused, [ConnectionNext]_all
    PROVE  Unused'
  <1>0. IInv /\ IInv'
    BY SoundNext DEF Sound
  <1>1. CASE UNCHANGED client
    <2>1. Total' = Total /\ Before' = Before /\ nla' = nla
      BY <1>1 DEF client, Total, Before
    <2> QED
      BY <2>1 DEF Unused
  <1>2. CASE Client \/ SslFails \/ LinkDrop
    <2>1. /\ Total \in Nat /\ Total' \in Nat /\ Total <= Total'
      BY <1>0, <1>2, Grows
    <2>2. CASE pc \in {"challenge", "validate"}
      <3>1. Total >= 2 /\ Before = 4
        BY <1>0, <2>2 DEF IInv, InScript, Layer, Planned, Before
      <3>2. link'.selected = link.selected
        BY <1>2, <2>2, ClientMoves, <1>0 DEF Write
      <3>3. Before' = 4
        BY <3>1, <3>2 DEF Before
      <3>4. nla' = nla \/ Total' >= 3
        <4>1. ASSUME nla' # nla PROVE Total' >= 3
          <5>1. CASE ReadChallenge
            <6>1. pc' = "validate"
              BY <4>1, <5>1 DEF ReadChallenge, Goto, Fail, Panic
            <6> QED
              BY <1>0, <6>1 DEF IInv, InScript, Planned
          <5>2. CASE ReadValidate
            <6>1. pc = "validate"
              BY <5>2 DEF ReadValidate, Receive, Waits
            <6>2. Total = 3
              BY <1>0, <6>1 DEF IInv, InScript, Planned
            <6> QED
              BY <2>1, <6>2
          <5>3. CASE ~ReadChallenge /\ ~ReadValidate
            BY <1>2, <4>1, <5>3
               DEF Client, Read, ReadConnectionConfirm, ReadConnectResponse,
                   ReadAttachUserConfirm, ReadChannelJoinConfirm, ReadLicense, ReadOther,
                   ReadEof, Write, WriteFails, StartSsl, SslFails, LinkDrop
          <5> QED
            BY <5>1, <5>2, <5>3
        <4> QED
          BY <4>1
      <3> QED
        BY <2>1, <3>1, <3>3, <3>4 DEF Unused
    <2>3. CASE pc \notin {"challenge", "validate"}
      <3>1. nla' = nla
        BY <1>2, <2>3
           DEF Client, Read, ReadConnectionConfirm, ReadChallenge, ReadValidate,
               ReadConnectResponse, ReadAttachUserConfirm, ReadChannelJoinConfirm, ReadLicense,
               ReadOther, ReadEof, Receive, Waits, Write, WriteFails, StartSsl, SslFails, LinkDrop
      <3>2. link'.selected = link.selected \/ pc = "confirm"
        BY <1>0, <1>2, ClientMoves DEF Write
      <3>3. CASE pc = "confirm"
        <4>1. Total = 1
          BY <1>0, <3>3 DEF IInv, InScript, Planned
        <4> QED
          BY <3>1, <4>1 DEF Unused
      <3>4. CASE link'.selected = link.selected
        <4>1. Before' = Before
          BY <3>4 DEF Before
        <4> QED
          BY <2>1, <3>1, <4>1 DEF Unused
      <3> QED
        BY <3>2, <3>3, <3>4
    <2> QED
      BY <2>2, <2>3
  <1>3. Server => UNCHANGED client
    BY DEF Server, SrvConfirm, SrvChallenge, SrvValidate, SrvCredentials, SrvResponse,
           SrvErect, SrvAttach, SrvJoin, SrvLicense, SrvHears
  <1>4. Peer => UNCHANGED client
    BY DEF Peer, Deliver
  <1>5. UNCHANGED all => UNCHANGED client
    BY DEF all, vars
  <1> QED
    BY <1>1, <1>2, <1>3, <1>4, <1>5 DEF ConnectionNext, ClientSteps

\* A message of the list that the server has not heard is under way.
LEMMA OnItsWay ==
    ASSUME Sound, NEW i \in 1 .. Total, srv.heard \in Nat, srv.heard < i
    PROVE  Message(i) \in UnderWay
  <1>1. PICK l \in Nat, o \in Nat :
           /\ l = Len(sent) /\ o = Len(out) /\ Total = l + o
           /\ DOMAIN sent = 1 .. l /\ DOMAIN out = 1 .. o
    BY ListFacts DEF Sound, Total
  <1>2. CASE i <= l
    <2>1. i \in DOMAIN sent /\ i \in (srv.heard + 1) .. Len(sent)
      BY <1>1, <1>2
    <2>2. Message(i) = sent[i].m
      BY <2>1, ListFacts DEF Sound
    <2> QED
      BY <2>1, <2>2 DEF UnderWay
  <1>3. CASE ~(i <= l)
    <2>1. i - l \in DOMAIN out
      BY <1>1, <1>3
    <2>2. Message(i) = out[i - l]
      BY <1>1, <1>3 DEF Message
    <2> QED
      BY <2>1, <2>2 DEF UnderWay, Range
  <1> QED
    BY <1>2, <1>3

\* The keystreams of the two ends, when nothing sealed is under way.
LEMMA Steady ==
    ASSUME Sound, Conforming, Unused
    PROVE  InStep
  <1> SUFFICES ASSUME srv.kind = "conforming",
                      \A m \in UnderWay : "sealed" \notin DOMAIN m
               PROVE  /\ nla.encrypt = srv.security.decrypt
                      /\ nla.decrypt = srv.security.encrypt
    BY DEF InStep
  <1>1. Peaceful
    BY DEF Conforming, Peaceful
  <1>2. PICK h \in Nat, n \in Nat : h = srv.heard /\ n = Total /\ h <= n
    <2>1. PICK h \in Nat, n \in Nat, l \in Nat : h = srv.heard /\ n = Total /\ l = Len(sent) /\ l <= n
      BY ListFacts DEF Sound, SrvTyped, Total
    <2>2. h <= l
      BY <1>1, <2>1 DEF Peaceful, Listening
    <2>3. h <= n
      BY <2>1, <2>2
    <2> QED
      BY <2>1, <2>3
  <1>3. n > 1 => First = Before
    BY <1>1, <1>2, SameFirst DEF Sound, Peaceful
  <1>4. CASE First = 1 \/ h < 3
    <2>1. srv.security = SrvIdle
      BY <1>1, <1>2, <1>4 DEF Peaceful, Sealing
    <2>2. n < 3 \/ Before = 1
      <3> SUFFICES ASSUME n >= 3, Before = 4 PROVE FALSE
        BY <1>2 DEF Before
      <3>1. 3 \in 1 .. Total /\ srv.heard < 3
        BY <1>2, <1>3, <1>4
      <3>2. "sealed" \in DOMAIN Message(3)
        BY <1>1, <3>1 DEF Peaceful, Sealing
      <3>3. Message(3) \in UnderWay
        BY <1>2, <3>1, OnItsWay
      <3> QED
        BY <3>2, <3>3
    <2>3. nla = NlaIdle
      BY <1>2, <2>2 DEF Unused
    <2>4. PICK s, c : s = SrvIdle /\ c = NlaIdle
      OBVIOUS
    <2>5. /\ s = Interface(SealKey(NoKey, "server"), 0, SealKey(NoKey, "client"), 0,
                           SignKey(NoKey, "server"), SignKey(NoKey, "client"), 0)
          /\ c = Interface(SealKey(NoKey, "client"), 0, SealKey(NoKey, "server"), 0,
                           SignKey(NoKey, "client"), SignKey(NoKey, "server"), 0)
      BY <2>4, Ended DEF SrvIdle, NlaIdle, NoKey
    <2>6. c.encrypt = s.decrypt /\ c.decrypt = s.encrypt
      BY <2>5 DEF Interface
    <2> QED
      BY <2>1, <2>3, <2>4, <2>6
  <1>5. CASE First = 4 /\ h = 3
    <2>1. CASE n = 3
      <3>1. PICK v : v = ValidateAnswer
        OBVIOUS
      <3>2. s2c = <<v>>
        BY <1>1, <1>2, <1>5, <2>1, <3>1 DEF Peaceful, Sealing
      <3>3. v \in UnderWay
        BY <3>2 DEF UnderWay, Range
      <3> QED
        BY <3>1, <3>3 DEF ValidateAnswer
    <2>2. CASE n # 3
      <3>1. 4 \in 1 .. Total /\ srv.heard < 4 /\ Before = 4
        BY <1>2, <1>3, <1>5, <2>2
      <3>2. "sealed" \in DOMAIN Message(4)
        BY <1>1, <3>1 DEF Peaceful, Sealing
      <3>3. Message(4) \in UnderWay
        BY <1>2, <3>1, OnItsWay
      <3> QED
        BY <3>2, <3>3
    <2> QED
      BY <2>1, <2>2
  <1>6. CASE First = 4 /\ h > 3
    <2>1. srv.security = SrvDone /\ nla = NlaDone
      <3>1. n >= 4 /\ ~(h < 3) /\ h # 3
        BY <1>2, <1>6
      <3> QED
        BY <1>1, <1>2, <1>6, <3>1 DEF Peaceful, Sealing
    <2>2. PICK s, c : s = SrvDone /\ c = NlaDone
      OBVIOUS
    <2>3. /\ s = Interface(SealKey(Exported, "server"), 2, SealKey(Exported, "client"), 4,
                           SignKey(Exported, "server"), SignKey(Exported, "client"), 1)
          /\ c = Interface(SealKey(Exported, "client"), 4, SealKey(Exported, "server"), 2,
                           SignKey(Exported, "client"), SignKey(Exported, "server"), 2)
      BY <2>2, SrvFacts, NlaFacts
    <2>4. c.encrypt = s.decrypt /\ c.decrypt = s.encrypt
      BY <2>3 DEF Interface
    <2> QED
      BY <2>1, <2>2, <2>4
  <1> QED
    BY <1>2, <1>4, <1>5, <1>6 DEF First

\* A conforming server and the client agree on the protocol, the user and the
\* channels when connect returns Ok (core/mcs.rs:226-248).
THEOREM BothAgree == ConnectionSpec => []Agreement
  <1>1. Sound /\ Conforming => Agreement
    BY Agree
  <1> QED
    BY <1>1, Soundness, Conformance, PTL

\* The keystreams of the two ends stand at the same places (nla/ntlm.rs:681-725).
THEOREM KeysInStep == ConnectionSpec => []InStep
  <1>1. ConnectionInit => Unused
    BY DEF ConnectionInit, Init, Unused, NlaIdle
  <1>2. Sound /\ Unused /\ [ConnectionNext]_all => Unused'
    BY UnusedNext
  <1>3. Sound /\ Conforming /\ Unused => InStep
    BY Steady
  <1> QED
    BY <1>1, <1>2, <1>3, Soundness, Conformance, PTL DEF ConnectionSpec

\* While the network holds, a conforming server never makes connect fail or
\* panic and is never sent what it does not expect (core/client.rs:240-269).
THEOREM NothingUnexpected == ConnectionSpec => []NoFalseAlarm
  <1>1. Sound /\ Conforming => NoFalseAlarm
    BY NoAlarm
  <1> QED
    BY <1>1, Soundness, Conformance, PTL

-----------------------------------------------------------------------------
(***************************************************************************)
(* The sequence implements Layers.  The places of the messages that ask    *)
(* are known, so what was asked follows from how many messages are on the  *)
(* stream, and what a conforming server granted from how many it heard.    *)
(***************************************************************************)

\* How many of the first n messages of the list ask for something.
Asks(n, b) == n - (IF b = 4 /\ n >= 4 THEN 1 ELSE 0) - (IF n >= b + 2 THEN 1 ELSE 0)

\* It grows by one with each message that asks, and never shrinks.
LEMMA AsksFacts ==
    ASSUME NEW b \in {1, 4}, NEW n \in Nat
    PROVE  /\ Asks(n, b) \in Nat
           /\ Asks(n + 1, b) = IF (b = 4 /\ n = 3) \/ n = b + 1 THEN Asks(n, b) ELSE Asks(n, b) + 1
           /\ \A m \in Nat : n <= m => Asks(n, b) <= Asks(m, b)
  BY DEF Asks

\* The request asks, whatever comes after it.
LEMMA FirstAsk ==
    ASSUME NEW b \in {1, 4}
    PROVE  Asks(0, b) = 0 /\ Asks(0 + 1, b) = 1
  <1>1. Asks(0, 1) = 0 /\ Asks(1, 1) = 1 /\ Asks(0, 4) = 0 /\ Asks(1, 4) = 1
    BY DEF Asks
  <1> QED
    BY <1>1

\* The messages that ask for nothing are the credentials and the erect request.
LEMMA AskingTypes ==
    ASSUME Before \in {1, 4}, NEW i \in 1 .. Before + 6
    PROVE  ScriptAt(i) \in Questions <=> ~((Before = 4 /\ i = 4) \/ i = Before + 2)
  <1>1. PICK b \in {1, 4} : b = Before
    OBVIOUS
  <1>2. CASE b = 4
    <2>1. i \in 1 .. 10
      BY <1>1, <1>2
    <2> QED
      BY <1>1, <1>2, <2>1 DEF ScriptAt, Questions
  <1>3. CASE b = 1
    <2>1. i \in 1 .. 7
      BY <1>1, <1>3
    <2> QED
      BY <1>1, <1>3, <2>1 DEF ScriptAt, Questions
  <1> QED
    BY <1>1, <1>2, <1>3

\* Which messages of the list ask, by their places.
LEMMA AskingMessages ==
    ASSUME IInv, NEW i \in 1 .. Total
    PROVE  Message(i).t \in Questions <=> ~((Before = 4 /\ i = 4) \/ i = Before + 2)
  <1>1. PICK n \in Nat, b \in {1, 4} : n = Total /\ b = Before /\ n <= b + 6
    BY ListFacts DEF IInv, InScript
  <1>2. i \in 1 .. Before + 6
    BY <1>1
  <1>3. Message(i).t = ScriptAt(i)
    BY DEF IInv, InScript
  <1> QED
    BY <1>1, <1>2, <1>3, AskingTypes

\* What was asked, counted on the stream.
LEMMA Counting ==
    ASSUME NEW log, NEW n \in Nat, NEW b \in {1, 4}, DOMAIN log = 1 .. n,
           \A i \in 1 .. n : log[i].m.t \in Questions <=> ~((b = 4 /\ i = 4) \/ i = b + 2)
    PROVE  Cardinality({i \in DOMAIN log : log[i].m.t \in Questions}) = Asks(n, b)
  <1>1. PICK S : S = {i \in DOMAIN log : log[i].m.t \in Questions}
    OBVIOUS
  <1>2. \A i \in 1 .. n : i \in S <=> ~((b = 4 /\ i = 4) \/ i = b + 2)
    BY <1>1
  <1>3. S \subseteq 1 .. n
    BY <1>1
  <1>4. PICK T : T = 1 .. n
    OBVIOUS
  <1>5. IsFiniteSet(T) /\ Cardinality(T) = n
    BY <1>4, FS_Interval
  <1>6. PICK U, x : U = T \ {x} /\ x = b + 2
    OBVIOUS
  <1>7. /\ IsFiniteSet(U)
        /\ Cardinality(U) = n - (IF n >= b + 2 THEN 1 ELSE 0)
    <2>1. x \in T <=> n >= b + 2
      BY <1>4, <1>6
    <2>2. IsFiniteSet(T \ {x}) /\ Cardinality(T \ {x}) = IF x \in T THEN Cardinality(T) - 1 ELSE Cardinality(T)
      BY <1>5, FS_RemoveElement
    <2> QED
      BY <1>5, <1>6, <2>1, <2>2
  <1>8. CASE b = 1
    <2>1. \A i \in 1 .. n : i \in S <=> i \in U
      BY <1>2, <1>4, <1>6, <1>8
    <2>2. S = U
      <3>1. U \subseteq 1 .. n
        BY <1>4, <1>6
      <3> QED
        BY <1>3, <2>1, <3>1
    <2>3. Asks(n, b) = n - (IF n >= b + 2 THEN 1 ELSE 0)
      BY <1>8 DEF Asks
    <2>4. Cardinality(S) = Asks(n, b)
      BY <1>7, <2>2, <2>3
    <2> QED
      BY <1>1, <2>4
  <1>9. CASE b = 4
    <2>1. PICK y : y = 4
      OBVIOUS
    <2>2. S = U \ {y}
      BY <1>2, <1>3, <1>4, <1>6, <1>9, <2>1
    <2>3. y \in U <=> n >= 4
      BY <1>4, <1>6, <1>9, <2>1
    <2>4. Cardinality(U \ {y}) = IF y \in U THEN Cardinality(U) - 1 ELSE Cardinality(U)
      BY <1>7, FS_RemoveElement
    <2>5. Cardinality(S) = n - (IF n >= b + 2 THEN 1 ELSE 0) - (IF n >= 4 THEN 1 ELSE 0)
      BY <1>7, <2>2, <2>3, <2>4
    <2>6. Asks(n, b) = n - (IF n >= b + 2 THEN 1 ELSE 0) - (IF n >= 4 THEN 1 ELSE 0)
      BY <1>9 DEF Asks
    <2> QED
      BY <1>1, <2>5, <2>6
  <1> QED
    BY <1>8, <1>9

\* Those on the stream are counted by Asks.
LEMMA OnStreamAsks ==
    ASSUME IInv, NEW l \in Nat, NEW b \in {1, 4}, l = Len(sent), b = Before
    PROVE  /\ DOMAIN sent = 1 .. l
           /\ \A i \in 1 .. l :
                 sent[i].m.t \in Questions <=> ~((b = 4 /\ i = 4) \/ i = b + 2)
           /\ Cardinality({i \in DOMAIN sent : sent[i].m.t \in Questions}) = Asks(l, b)
  <1>1. DOMAIN sent = 1 .. l
    BY ListFacts
  <1>2. ASSUME NEW i \in 1 .. l
        PROVE  sent[i].m.t \in Questions <=> ~((b = 4 /\ i = 4) \/ i = b + 2)
    <2>1. sent[i].m = Message(i) /\ i \in 1 .. Total
      BY <1>1, ListFacts
    <2> QED
      BY <2>1, AskingMessages
  <1> QED
    BY <1>1, <1>2, Counting

\* What a conforming server has granted, by what it has heard.
Granting == srv.kind = "conforming" => srv.granted = Asks(srv.heard, First)

\* How the fields of a server follow.
Goes(next, n, p) ==
    \/ srv' = Follows(next, n)
    \/ srv' = [Follows(next, n) EXCEPT !.security = p]
    \/ srv' = [Follows(next, n) EXCEPT !.user = p]
    \/ srv' = [Follows(next, n) EXCEPT !.joined = p]
\* A server that goes on grants as many as Follows says.
LEMMA Granted ==
    ASSUME SrvTyped, NEW next, NEW n \in Nat, NEW p,
           Goes(next, n, p) \/ srv' = [Follows(next, n) EXCEPT !.selected = p]
    PROVE  /\ srv'.granted = srv.granted + n /\ srv'.expects = next
           /\ Goes(next, n, p) => srv'.selected = srv.selected
  <1>1. PICK h \in Nat, g \in Nat : h = srv.heard + 1 /\ g = srv.granted + n
    BY DEF SrvTyped
  <1>2. PICK a, b, d, e, f, x :
            /\ Follows(next, n) = [kind |-> a, version |-> b, expects |-> next, heard |-> h,
                                   granted |-> g, selected |-> d, security |-> e, user |-> f,
                                   joined |-> x]
            /\ d = srv.selected
    BY <1>1, FollowsFacts
  <1>3. PICK y : y = srv'
    OBVIOUS
  <1>4. y.granted = g /\ y.expects = next
    BY <1>2, <1>3 DEF Goes
  <1>5. Goes(next, n, p) => y.selected = d
    BY <1>2, <1>3 DEF Goes
  <1> QED
    BY <1>1, <1>2, <1>3, <1>4, <1>5

\* A server grants what it is asked for, or rejects the client.
Grants == /\ srv'.granted = srv.granted + (IF srv.expects \in Questions THEN 1 ELSE 0)
          /\ srv.expects # "Request" => srv'.selected = srv.selected

\* Every answer of a server is as many grants as what it expected asked for.
LEMMA ServerGrants ==
    ASSUME SrvTyped, Server
    PROVE  Grants \/ srv'.expects = "nothing more"
  <1> DEFINE Goal == Grants \/ srv'.expects = "nothing more"
  <1> SUFFICES Goal
    OBVIOUS
  <1>1. ASSUME NEW next, NEW p
        PROVE  /\ Goes(next, 1, p) /\ srv.expects \in Questions => Goal
               /\ Goes(next, 0, p) /\ srv.expects \notin Questions => Goal
    BY Granted DEF Grants
  <1>2. ASSUME srv' = [Follows("nothing more", 0) EXCEPT !.security = AfterUnwrap(@)]
        PROVE  Goal
    <2>1. PICK p : srv' = [Follows("nothing more", 0) EXCEPT !.security = p]
      BY <1>2
    <2> QED
      BY <2>1, Granted DEF Goes
  <1> HIDE DEF Goal
  <1>3. \A type : SrvHears(type) => srv.expects = type
    BY DEF SrvHears
  <1>4. CASE SrvConfirm
    <2>1. PICK next, p : srv' = [Follows(next, 1) EXCEPT !.selected = p]
      BY <1>4, Zenon DEF SrvConfirm
    <2>2. srv'.granted = srv.granted + 1
      BY <2>1, Granted
    <2>3. srv.expects = "Request"
      BY <1>3, <1>4 DEF SrvConfirm
    <2> QED
      BY <2>2, <2>3 DEF Goal, Grants, Questions
  <1>5. CASE SrvChallenge
    <2>1. srv.expects = "Negotiate" /\ srv' = Follows("Authenticate", 1)
      BY <1>3, <1>5 DEF SrvChallenge
    <2> QED
      BY <1>1, <2>1 DEF Questions, Goes
  <1>6. CASE SrvValidate
    <2>1. \/ \E x : srv' = [Follows("Credentials", 1) EXCEPT !.security = x]
          \/ srv' = [Follows("nothing more", 0) EXCEPT !.security = AfterUnwrap(@)]
      BY <1>6, Zenon DEF SrvValidate, Reject
    <2>2. srv.expects = "Authenticate"
      BY <1>3, <1>6 DEF SrvValidate
    <2>3. ASSUME NEW x, srv' = [Follows("Credentials", 1) EXCEPT !.security = x]
          PROVE  Goal
      BY <1>1, <2>2, <2>3 DEF Questions, Goes
    <2> QED
      BY <1>2, <2>1, <2>3
  <1>7. CASE SrvCredentials
    <2>1. \/ \E x : srv' = [Follows("ConnectInitial", 0) EXCEPT !.security = x]
          \/ srv' = [Follows("nothing more", 0) EXCEPT !.security = AfterUnwrap(@)]
      BY <1>7, Zenon DEF SrvCredentials, Reject
    <2>2. srv.expects = "Credentials"
      BY <1>3, <1>7 DEF SrvCredentials
    <2>3. ASSUME NEW x, srv' = [Follows("ConnectInitial", 0) EXCEPT !.security = x]
          PROVE  Goal
      BY <1>1, <2>2, <2>3 DEF Questions, Goes
    <2> QED
      BY <1>2, <2>1, <2>3
  <1>8. CASE SrvResponse
    <2>1. srv.expects = "ConnectInitial" /\ srv' = Follows("Erect", 1)
      BY <1>3, <1>8 DEF SrvResponse
    <2> QED
      BY <1>1, <2>1 DEF Questions, Goes
  <1>9. CASE SrvErect
    <2>1. srv.expects = "Erect" /\ srv' = Follows("AttachRequest", 0)
      BY <1>3, <1>9 DEF SrvErect
    <2> QED
      BY <1>1, <2>1 DEF Questions, Goes
  <1>10. CASE SrvAttach
    <2>1. srv.expects = "AttachRequest"
      BY <1>3, <1>10 DEF SrvAttach
    <2>2. PICK x : srv' = [Follows("JoinRequest", 1) EXCEPT !.user = x]
      <3>1. PICK i \in Initiators : srv' = [Follows("JoinRequest", 1) EXCEPT !.user = i + 1001]
        BY <1>10 DEF SrvAttach
      <3>2. PICK y : y = i + 1001
        OBVIOUS
      <3>3. srv' = [Follows("JoinRequest", 1) EXCEPT !.user = y]
        BY <3>1, <3>2
      <3> QED
        BY <3>3
    <2> QED
      BY <1>1, <2>1, <2>2 DEF Questions, Goes
  <1>11. CASE SrvJoin
    <2>1. srv.expects = "JoinRequest"
      BY <1>3, <1>11 DEF SrvJoin
    <2>2. PICK next, x : srv' = [Follows(next, 1) EXCEPT !.joined = x]
      <3>1. PICK next : next = IF srv.joined = {} THEN "JoinRequest" ELSE "Info"
        OBVIOUS
      <3>2. srv' = [Follows(next, 1) EXCEPT !.joined = @ \cup {Heard.channel}]
        BY <1>11, <3>1 DEF SrvJoin
      <3> QED
        BY <3>2, Zenon
    <2> QED
      BY <1>1, <2>1, <2>2 DEF Questions, Goes
  <1>12. CASE SrvLicense
    <2>1. srv.expects = "Info" /\ srv' = Follows("nothing", 1)
      BY <1>3, <1>12 DEF SrvLicense
    <2> QED
      BY <1>1, <2>1 DEF Questions, Goes
  <1> QED
    BY <1>4, <1>5, <1>6, <1>7, <1>8, <1>9, <1>10, <1>11, <1>12 DEF Server

\* What the server expects after the first message, and whether it asks.
LEMMA AskingExpected ==
    ASSUME NEW b \in {1, 4}, NEW h \in Nat, b = First, h = srv.heard, h # 0, h + 1 <= b + 6
    PROVE  Expecting \in Questions <=> ~((b = 4 /\ h = 3) \/ h = b + 1)
  <1>1. CASE b = 1
    <2>1. h \in 1 .. 6
      BY <1>1
    <2> QED
      BY <1>1, <2>1 DEF Expecting, Questions
  <1>2. CASE b = 4
    <2>1. h \in 1 .. 9
      BY <1>2
    <2> QED
      BY <1>2, <2>1 DEF Expecting, Questions
  <1> QED
    BY <1>1, <1>2

\* A conforming server grants by what it hears.
LEMMA GrantingServer ==
    ASSUME Sound, Conforming, Conforming', Granting, Server
    PROVE  Granting'
  <1> SUFFICES ASSUME srv'.kind = "conforming" PROVE srv'.granted = Asks(srv'.heard, First')
    BY DEF Granting
  <1>1. /\ srv.kind = "conforming" /\ srv'.heard = srv.heard + 1
        /\ srv.heard \in Nat /\ srv.granted \in Nat
    BY ServerKeeps DEF Sound, SrvTyped
  <1>2. Listening /\ Listening'
    BY <1>1 DEF Conforming
  <1>3. PICK b \in {1, 4}, h \in Nat : b = First /\ h = srv.heard
    BY <1>1 DEF First
  <1>4. srv.expects = Expecting /\ srv.granted = Asks(h, b)
    BY <1>1, <1>2, <1>3 DEF Listening, Granting
  <1>5. h + 1 <= b + 6
    <2>1. First' \in {1, 4} /\ srv'.heard <= First' + 6
      BY <1>2 DEF Listening, First
    <2>2. CASE h = 0
      BY <1>3, <2>2
    <2>3. CASE h # 0
      <3>1. srv.selected # "none" /\ srv'.selected # "none"
        BY <1>1, <1>2, <1>3, <2>3 DEF Listening
      <3>2. srv.expects # "Request"
        BY <1>3, <1>4, <2>3 DEF Expecting
      <3>3. Grants
        BY <1>2, ServerGrants DEF Listening, Expecting, Sound
      <3> QED
        BY <1>1, <1>3, <2>1, <3>2, <3>3 DEF Grants, First
    <2> QED
      BY <2>2, <2>3
  <1>6. Grants
    <2>1. srv'.expects # "nothing more"
      BY <1>2 DEF Listening, Expecting
    <2> QED
      BY <2>1, ServerGrants DEF Sound
  <1>7. CASE h = 0
    <2>1. srv.expects = "Request"
      BY <1>3, <1>4, <1>7 DEF Expecting
    <2>2. srv'.granted = srv.granted + 1
      BY <1>6, <2>1 DEF Grants, Questions
    <2>3. PICK x \in {1, 4} : x = First'
      BY DEF First
    <2>4. Asks(h, b) = 0 /\ Asks(h + 1, x) = 1
      BY <1>7, FirstAsk
    <2> QED
      BY <1>1, <1>3, <1>4, <2>2, <2>3, <2>4
  <1>8. CASE h # 0
    <2>1. srv.expects # "Request"
      BY <1>3, <1>4, <1>8 DEF Expecting
    <2>2. First' = b
      BY <1>3, <1>6, <2>1 DEF Grants, First
    <2>3. srv.expects \in Questions <=> ~((b = 4 /\ h = 3) \/ h = b + 1)
      BY <1>3, <1>4, <1>5, <1>8, AskingExpected
    <2>4. Asks(h + 1, b) = Asks(h, b) + (IF srv.expects \in Questions THEN 1 ELSE 0)
      <3>1. /\ Asks(h, b) \in Nat
            /\ Asks(h + 1, b) = IF (b = 4 /\ h = 3) \/ h = b + 1 THEN Asks(h, b) ELSE Asks(h, b) + 1
        BY AsksFacts
      <3>2. CASE (b = 4 /\ h = 3) \/ h = b + 1
        BY <2>3, <3>1, <3>2
      <3>3. CASE ~((b = 4 /\ h = 3) \/ h = b + 1)
        BY <2>3, <3>1, <3>3
      <3> QED
        BY <3>2, <3>3
    <2> QED
      BY <1>1, <1>3, <1>4, <1>6, <2>2, <2>4 DEF Grants
  <1> QED
    BY <1>7, <1>8

\* Every step keeps Granting.
LEMMA GrantingNext ==
    ASSUME Sound, Conforming, Conforming', Granting, [ConnectionNext]_all
    PROVE  Granting'
  <1>1. CASE UNCHANGED srv
    <2>1. First' = First
      BY <1>1 DEF First
    <2> QED
      BY <1>1, <2>1 DEF Granting
  <1>2. CASE Server
    BY <1>2, GrantingServer
  <1> QED
    BY <1>1, <1>2 DEF ConnectionNext, all

\* Nothing is heard and nothing granted at first.
LEMMA GrantingInit ==
    ASSUME ConnectionInit
    PROVE  Granting
  <1>1. srv.heard = 0 /\ srv.granted = 0 /\ srv.selected = "none"
    BY DEF ConnectionInit, SrvInit
  <1>2. First = 1
    BY <1>1 DEF First
  <1>3. Asks(0, 1) = 0
    BY DEF Asks
  <1> QED
    BY <1>1, <1>2, <1>3 DEF Granting

-----------------------------------------------------------------------------
\* How far the client is.
\* At most one of the two channels is left to ask for.
LEMMA TodoCount ==
    ASSUME IInv, pc = "join"
    PROVE  /\ Cardinality(mcs.todo) = IF mcs.todo = {} THEN 0 ELSE 1
           /\ \A name \in mcs.todo : mcs.todo \ {name} = {}
  <1>1. mcs.joining \in {"global", "user"} /\ mcs.todo \subseteq {"global", "user"} \ {mcs.joining}
    BY DEF IInv, Joined, Channels
  <1>2. ASSUME mcs.todo # {} PROVE \E x : mcs.todo = {x}
    <2>1. PICK x \in mcs.todo : TRUE
      BY <1>2
    <2>2. mcs.todo = {x}
      BY <1>1, <2>1
    <2> QED
      BY <2>2
  <1>3. CASE mcs.todo = {}
    BY <1>3, FS_EmptySet
  <1>4. CASE mcs.todo # {}
    <2>1. PICK x : mcs.todo = {x}
      BY <1>2, <1>4
    <2>2. Cardinality({x}) = 1
      BY FS_Singleton
    <2> QED
      BY <1>4, <2>1, <2>2
  <1> QED
    BY <1>3, <1>4

\* The last thing asked for is what the client has not entered.
LEMMA Entering ==
    ASSUME IInv, pc \in Steps \cup {"connected"}
    PROVE  /\ Entered \in Nat
           /\ pc \notin {"tls", "connected"} => Asks(Total, Before) = Entered + 1
  <1>1. PICK b \in {1, 4}, n \in Nat : b = Before /\ n = Total /\ n = Planned
    BY ListFacts DEF IInv, InScript, Steps
  <1>2. Security = IF b = 4 THEN 3 ELSE 1
    BY <1>1 DEF Security, Before
  <1>3. /\ pc \in {"challenge", "validate"} => b = 4
        /\ pc = "confirm" => b = 1
    BY <1>1 DEF IInv, Layer, Before
  <1>4. pc = "join" => Cardinality(mcs.todo) = IF mcs.todo = {} THEN 0 ELSE 1
    BY TodoCount
  <1>5. Entered = CASE pc = "confirm"   -> 0
                    [] pc = "tls"       -> 1
                    [] pc = "challenge" -> 1
                    [] pc = "validate"  -> 2
                    [] pc = "response"  -> Security
                    [] pc = "attach"    -> Security + 1
                    [] pc = "join"      -> IF mcs.todo = {} THEN Security + 3 ELSE Security + 2
                    [] pc = "license"   -> Security + 4
                    [] OTHER            -> Security + 5
    BY <1>2, <1>4 DEF Entered
  <1>6. n = CASE pc \in {"confirm", "tls"} -> 1
              [] pc = "challenge" -> 2
              [] pc = "validate"  -> 3
              [] pc = "response"  -> b + 1
              [] pc = "attach"    -> b + 3
              [] pc = "join"      -> IF mcs.todo = {} THEN b + 5 ELSE b + 4
              [] OTHER            -> b + 6
    BY <1>1 DEF Planned
  <1>7. Entered \in Nat
    BY <1>2, <1>5
  <1>8. ASSUME pc \notin {"tls", "connected"}
        PROVE  Asks(n, b) = Entered + 1
    <2>1. CASE b = 1
      BY <1>2, <1>3, <1>5, <1>6, <1>8, <2>1 DEF Asks, Steps
    <2>2. CASE b = 4
      BY <1>2, <1>3, <1>5, <1>6, <1>8, <2>2 DEF Asks, Steps
    <2> QED
      BY <2>1, <2>2
  <1> QED
    BY <1>1, <1>7, <1>8

\* The message that asks is the last one lined up.
LEMMA LastAsks ==
    ASSUME Sound, Peaceful, pc \in Steps \cup {"connected"}, Len(sent) < Total
    PROVE  Total = Len(sent) + 1 \/ (Before = 4 /\ Len(sent) = 3) \/ Len(sent) = Before + 1
  <1>1. PICK h \in Nat, l \in Nat, n \in Nat, b \in {1, 4} :
           h = srv.heard /\ l = Len(sent) /\ n = Total /\ b = Before
    BY ListFacts DEF Sound, SrvTyped
  <1>2. h <= l /\ l < n
    BY <1>1 DEF Peaceful, Listening
  <1>3. n > 1 => First = b
    BY <1>1, SameFirst DEF Sound, Peaceful
  <1>4. h < n
    BY <1>2
  <1>5. \/ h = 0 /\ n = 1
        \/ /\ First = 4
           /\ \/ h = 1 /\ n = 2
              \/ h = 2 /\ n = 3
              \/ h = 3 /\ n = 5
        \/ h = First /\ n = First + 1
        \/ h \in {First + 1, First + 2} /\ n = First + 3
        \/ h = First + 3 /\ n = First + 4
        \/ h = First + 4 /\ n = First + 5
        \/ h = First + 5 /\ n = First + 6
    BY <1>1, <1>4, Pinned DEF Sound, Peaceful
  <1>6. CASE n = 1
    BY <1>1, <1>2, <1>6
  <1>7. CASE n > 1
    BY <1>1, <1>2, <1>3, <1>5, <1>7
  <1> QED
    BY <1>1, <1>2, <1>6, <1>7

\* When the server has heard everything it has granted all that was asked.
LEMMA GrantedAll ==
    ASSUME Sound, Peaceful, srv.granted = Asks(srv.heard, First), srv.heard = Total
    PROVE  srv.granted = Asks(Total, Before)
  <1>1. PICK n \in Nat, b \in {1, 4}, f \in {1, 4} : n = Total /\ b = Before /\ f = First
    BY ListFacts DEF Sound, First
  <1>2. CASE n > 1
    BY <1>1, <1>2, SameFirst DEF Sound, Peaceful
  <1>3. CASE n \in {0, 1}
    <2>1. Asks(n, b) = n /\ Asks(n, f) = n
      BY <1>3, FirstAsk
    <2> QED
      BY <1>1, <2>1
  <1> QED
    BY <1>1, <1>2, <1>3

-----------------------------------------------------------------------------
\* The steps.

\* What is written asks for something only when everything before was entered.
LEMMA WriteAsks ==
    ASSUME Sound, Peaceful, Write, IInv'
    PROVE  LET asked == Cardinality({i \in DOMAIN sent : sent[i].m.t \in Questions})
           IN  /\ asked \in Nat
               /\ asked' = asked \/ (asked = Entered /\ asked' = asked + 1)
  <1> DEFINE asked == Cardinality({i \in DOMAIN sent : sent[i].m.t \in Questions})
  <1>1. PICK l \in Nat, n \in Nat, b \in {1, 4} : l = Len(sent) /\ n = Total /\ b = Before
    BY ListFacts DEF Sound
  <1>2. l < n /\ Len(sent') = l + 1
    BY <1>1, Written DEF Sound
  <1>3. /\ DOMAIN sent = 1 .. l
        /\ \A i \in 1 .. l : sent[i].m.t \in Questions <=> ~((b = 4 /\ i = 4) \/ i = b + 2)
    BY <1>1, OnStreamAsks DEF Sound
  <1>4. asked = Asks(l, b)
    BY <1>1, OnStreamAsks DEF Sound
  <1>5. asked' = Asks(l + 1, b)
    <2>1. /\ DOMAIN sent' = 1 .. l + 1 /\ l + 1 \in 1 .. Total
          /\ \A i \in 1 .. l : sent'[i] = sent[i]
          /\ sent'[l + 1].m = Message(l + 1)
      <3>1. sent'[l + 1] = [m |-> Message(l + 1), tls |-> link.tls]
        BY <1>1, Written DEF Sound
      <3> QED
        BY <1>1, <1>2, <1>3, <3>1, Written DEF Sound
    <2>2. ASSUME NEW i \in 1 .. l + 1
          PROVE  sent'[i].m.t \in Questions <=> ~((b = 4 /\ i = 4) \/ i = b + 2)
      <3>1. CASE i = l + 1
        BY <1>1, <2>1, <3>1, AskingMessages DEF Sound
      <3>2. CASE i # l + 1
        <4>1. i \in 1 .. l
          BY <3>2
        <4> QED
          BY <1>3, <2>1, <4>1
      <3> QED
        BY <3>1, <3>2
    <2>3. PICK log : log = sent'
      OBVIOUS
    <2>0. PICK k \in Nat : k = l + 1
      OBVIOUS
    <2>4. DOMAIN log = 1 .. k
      BY <2>0, <2>1, <2>3
    <2>5. \A i \in 1 .. k : log[i].m.t \in Questions <=> ~((b = 4 /\ i = 4) \/ i = b + 2)
      BY <2>0, <2>2, <2>3
    <2>6. Cardinality({i \in DOMAIN log : log[i].m.t \in Questions}) = Asks(k, b)
      BY <2>4, <2>5, Counting
    <2> QED
      BY <2>0, <2>3, <2>6
  <1> HIDE DEF asked
  <1>6. pc \in Steps \cup {"connected"}
    BY DEF Write, Sound, IInv, Typed, Final
  <1>7. /\ Asks(l, b) \in Nat
        /\ Asks(l + 1, b) = IF (b = 4 /\ l = 3) \/ l = b + 1 THEN Asks(l, b) ELSE Asks(l, b) + 1
    BY AsksFacts
  <1>8. CASE (b = 4 /\ l = 3) \/ l = b + 1
    BY <1>4, <1>5, <1>7, <1>8 DEF asked
  <1>9. CASE ~((b = 4 /\ l = 3) \/ l = b + 1)
    <2>1. n = l + 1
      BY <1>1, <1>2, <1>6, <1>9, LastAsks
    <2>2. pc \notin {"tls", "connected"}
      <3>1. out # <<>>
        BY DEF Write
      <3> QED
        BY <3>1 DEF Sound, IInv, Layer, InScript
    <2>3. Asks(n, b) = Entered + 1 /\ Entered \in Nat
      BY <1>1, <1>6, <2>2, Entering DEF Sound
    <2>4. Asks(l, b) = Entered
      BY <1>7, <1>9, <2>1, <2>3
    <2> QED
      BY <1>4, <1>5, <1>7, <1>9, <2>4 DEF asked
  <1> QED
    BY <1>8, <1>9

\* A server grants what was asked and not yet granted.
LEMMA ServerAnswers ==
    ASSUME Sound, Conforming, Granting, srv.kind = "conforming", Server, Grants
    PROVE  /\ srv.granted \in Nat
           /\ \/ srv'.granted = srv.granted
              \/ /\ srv.granted < Asks(Len(sent), Before)
                 /\ srv'.granted = srv.granted + 1
  <1>1. Peaceful
    BY DEF Conforming, Peaceful
  <1>2. PICK h \in Nat, l \in Nat, n \in Nat, b \in {1, 4}, f \in {1, 4}, g \in Nat :
           /\ h = srv.heard /\ l = Len(sent) /\ n = Total /\ b = Before /\ f = First
           /\ g = srv.granted
    BY ListFacts DEF Sound, SrvTyped, First
  <1>3. h < l /\ l <= n /\ n <= b + 6
    <2>1. h < l
      BY <1>2, ServerFacts DEF Sound
    <2>2. l <= n
      BY <1>2, ListFacts DEF Sound, Total
    <2> QED
      BY <1>2, <2>1, <2>2 DEF Sound, IInv, InScript
  <1>4. g = Asks(h, f) /\ srv.expects = Expecting
    BY <1>1, <1>2 DEF Granting, Peaceful, Listening
  <1>5. CASE srv.expects \notin Questions
    BY <1>2, <1>5 DEF Grants
  <1>6. CASE srv.expects \in Questions
    <2>1. srv'.granted = g + 1
      BY <1>2, <1>6 DEF Grants
    <2>2. Asks(h, f) + 1 <= Asks(l, b)
      <3>1. CASE h = 0
        <4>1. Asks(h, f) = 0 /\ Asks(1, b) = 1
          BY <3>1, FirstAsk
        <4>2. Asks(1, b) <= Asks(l, b) /\ Asks(l, b) \in Nat
          <5>1. 1 \in Nat /\ 1 <= l
            BY <1>3
          <5> QED
            BY <5>1, AsksFacts
        <4> QED
          BY <4>1, <4>2
      <3>2. CASE h # 0
        <4>1. f = b
          BY <1>1, <1>2, <1>3, <3>2, SameFirst DEF Sound, Peaceful
        <4>2. ~((f = 4 /\ h = 3) \/ h = f + 1)
          <5>1. h + 1 <= f + 6
            BY <1>3, <4>1
          <5> QED
            BY <1>2, <1>4, <1>6, <3>2, <5>1, AskingExpected
        <4>3. Asks(h + 1, b) = Asks(h, b) + 1
          BY <4>1, <4>2, AsksFacts
        <4>4. h + 1 \in Nat /\ h + 1 <= l
          BY <1>3
        <4>5. Asks(h + 1, b) <= Asks(l, b)
          BY <4>4, AsksFacts
        <4> QED
          BY <4>1, <4>3, <4>5
      <3> QED
        BY <3>1, <3>2
    <2>3. Asks(h, f) \in Nat /\ Asks(l, b) \in Nat
      BY AsksFacts
    <2> QED
      BY <1>2, <1>4, <2>1, <2>2, <2>3
  <1> QED
    BY <1>5, <1>6

\* Each message the client reads and accepts takes it into one more layer.
Moved == pc' \notin {"failed", "panicked"}

\* A step that goes on neither failed nor panicked.
LEMMA MovedOn ==
    ASSUME Moved
    PROVE  ~Panic /\ \A kind : ~Fail(kind)
  BY Zenon DEF Moved, Panic, Fail

\* The confirm takes the client into the negotiated protocol.
LEMMA ConfirmEnters ==
    ASSUME Sound, Peaceful, ReadConnectionConfirm, Moved
    PROVE  Entered' = Entered + 1
  <1>1. /\ pc = "confirm" /\ srv.heard = Total /\ Total = Planned
        /\ msg = [t |-> "Confirm", type |-> "Response", protocol |-> srv.selected]
    <2>1. Receive("confirm", "Confirm") /\ "confirm" \in DOMAIN Expected
      BY DEF ReadConnectionConfirm, Expected
    <2>2. pc = "confirm" /\ srv.heard = Total /\ Total = Planned /\ Answer(msg)
      BY <2>1, Reads
    <2> QED
      BY <2>2 DEF Answer
  <1>2. srv.heard = 1
    BY <1>1 DEF Planned
  <1>3. srv.selected \in {"SSL", "Hybrid"}
    BY <1>2 DEF Peaceful, Listening
  <1>4. pc' = "tls"
    BY <1>1, <1>3 DEF ReadConnectionConfirm, Accepts, Handled, Goto
  <1> QED
    BY <1>1, <1>4 DEF Entered

\* The challenge takes it into the first round of CredSSP.
LEMMA ChallengeEnters ==
    ASSUME Sound, Peaceful, ReadChallenge, Moved
    PROVE  Entered' = Entered + 1
  <1>1. pc = "challenge"
    BY DEF ReadChallenge, Receive, Waits
  <1>2. pc' = "validate"
    BY DEF ReadChallenge, Goto, Fail, Panic, Moved
  <1> QED
    BY <1>1, <1>2 DEF Entered

\* The validation takes it into the second, the last.
LEMMA ValidateEnters ==
    ASSUME Sound, Peaceful, ReadValidate, Moved
    PROVE  Entered' = Entered + 1
  <1>1. pc = "validate" /\ link' = link
    BY DEF ReadValidate, Receive, Waits
  <1>2. pc' = "response"
    BY MovedOn, Zenon DEF ReadValidate, Goto
  <1>3. Security' = 3
    BY <1>1 DEF Security, Sound, IInv, Layer
  <1> QED
    BY <1>1, <1>2, <1>3 DEF Entered

\* The connect response takes it into MCS.
LEMMA ResponseEnters ==
    ASSUME Sound, Peaceful, ReadConnectResponse, Moved
    PROVE  Entered' = Entered + 1
  <1>1. pc = "response" /\ link' = link
    BY DEF ReadConnectResponse, Receive, Waits
  <1>2. pc' = "attach"
    BY DEF ReadConnectResponse, Goto, Fail, Panic, Moved
  <1>3. Security' = Security
    BY <1>1 DEF Security
  <1> QED
    BY <1>1, <1>2, <1>3 DEF Entered

\* The attach confirm takes it into its user channel.
LEMMA AttachEnters ==
    ASSUME Sound, Peaceful, ReadAttachUserConfirm, Moved
    PROVE  Entered' = Entered + 1
  <1>1. pc = "attach" /\ link' = link
    BY DEF ReadAttachUserConfirm, Receive, Waits
  <1>2. ~Fail("RejectedByServer") /\ ~Panic
    BY MovedOn
  <1>3. CASE JoinNext([mcs EXCEPT !.user_id = (msg.initiator + 1001) % U16], Channels)
    <2>1. PICK id, m : id = (msg.initiator + 1001) % U16 /\ m = [mcs EXCEPT !.user_id = id]
      BY ZenonT(40)
    <2>2. JoinNext(m, Channels)
      BY <1>3, <2>1
    <2>3. PICK name \in Channels :
             mcs' = [m EXCEPT !.joining = name, !.todo = Channels \ {name}] /\ pc' = "join"
      BY <2>2 DEF JoinNext, Goto
    <2>4. mcs'.todo = Channels \ {name}
      BY <2>1, <2>3 DEF Sound, IInv, Typed
    <2>5. \E x : Channels \ {name} = {x}
      BY <2>3 DEF Channels
    <2>6. Cardinality(Channels \ {name}) = 1
      BY <2>5, FS_Singleton
    <2>7. Security' = Security /\ Security \in {1, 3}
      BY <1>1 DEF Security
    <2>8. Entered' = Security + 3 - 1
      BY <2>3, <2>4, <2>6, <2>7 DEF Entered
    <2>9. Entered = Security + 1
      BY <1>1 DEF Entered
    <2> QED
      BY <2>7, <2>8, <2>9
  <1> QED
    BY <1>2, <1>3 DEF ReadAttachUserConfirm

\* Each join confirm takes it into one more channel.
LEMMA JoinedEnters ==
    ASSUME Sound, Peaceful, ReadChannelJoinConfirm, Moved
    PROVE  Entered' = Entered + 1
  <1>1. pc = "join" /\ link' = link
    BY DEF ReadChannelJoinConfirm, Receive, Waits
  <1>2. Security' = Security /\ Security \in {1, 3}
    BY <1>1 DEF Security
  <1>3. Cardinality(mcs.todo) = IF mcs.todo = {} THEN 0 ELSE 1
    BY <1>1, TodoCount DEF Sound
  <1>4. Entered = Security + 3 - Cardinality(mcs.todo)
    BY <1>1 DEF Entered
  <1>5. IF mcs.todo # {} THEN JoinNext(mcs, mcs.todo) ELSE Goto("license", <<Info(mcs)>>)
    BY MovedOn DEF ReadChannelJoinConfirm
  <1>6. CASE mcs.todo = {}
    <2>1. pc' = "license"
      BY <1>6, <1>5 DEF Goto
    <2>2. Entered' = Security + 4
      BY <1>2, <2>1 DEF Entered
    <2> QED
      BY <1>2, <1>3, <1>4, <1>6, <2>2
  <1>7. CASE mcs.todo # {}
    <2>1. JoinNext(mcs, mcs.todo)
      BY <1>7, <1>5
    <2>2. PICK name \in mcs.todo :
             mcs' = [mcs EXCEPT !.joining = name, !.todo = mcs.todo \ {name}] /\ pc' = "join"
      BY <2>1 DEF JoinNext, Goto
    <2>3. mcs'.todo = mcs.todo \ {name}
      BY <2>2 DEF Sound, IInv, Typed
    <2>4. mcs'.todo = {}
      BY <1>1, <2>2, <2>3, TodoCount DEF Sound
    <2>5. Cardinality(mcs'.todo) = 0
      BY <2>4, FS_EmptySet
    <2>6. Entered' = Security + 3 - 0
      BY <1>2, <2>2, <2>5 DEF Entered
    <2> QED
      BY <1>2, <1>3, <1>4, <1>7, <2>6
  <1> QED
    BY <1>6, <1>7

\* The license takes it into the session.
LEMMA LicenseEnters ==
    ASSUME Sound, Peaceful, ReadLicense, Moved
    PROVE  Entered' = Entered + 1
  <1>1. pc = "license" /\ link' = link
    BY DEF ReadLicense, Receive, Waits
  <1>2. pc' = "connected"
    BY MovedOn, Zenon DEF ReadLicense
  <1>3. Security' = Security /\ Security \in {1, 3}
    BY <1>1 DEF Security
  <1>4. Entered' = Security + 5 /\ Entered = Security + 4
    BY <1>1, <1>2, <1>3 DEF Entered
  <1> QED
    BY <1>3, <1>4

\* To start TLS enters nothing more: the request was for it.
LEMMA SslEnters ==
    ASSUME Sound, Peaceful, StartSsl
    PROVE  Entered' = Entered
  <1>1. /\ pc = "tls" /\ link'.selected = link.selected
        /\ pc' = IF link.selected = "Hybrid" THEN "challenge" ELSE "response"
    BY DEF StartSsl, Goto, Sound, IInv, Typed
  <1>2. link.selected # "Hybrid" => Security' = 1
    BY <1>1 DEF Security
  <1> QED
    BY <1>1, <1>2 DEF Entered

-----------------------------------------------------------------------------
(***************************************************************************)
(* The refinement.                                                         *)
(***************************************************************************)

\* Who is over stays over.
LEMMA OverStays ==
    ASSUME Sound, [ConnectionNext]_all, Over
    PROVE  Over' /\ srv'.kind = srv.kind
  <1>1. srv'.kind = srv.kind
    BY ServerKeeps DEF Sound, ConnectionNext, all
  <1>2. ASSUME UNCHANGED client PROVE Over'
    BY <1>1, <1>2 DEF client, Over
  <1>3. ASSUME Client \/ SslFails \/ LinkDrop PROVE Over'
    <2>1. CASE pc \in {"failed", "panicked"}
      BY <1>3, <2>1
         DEF Client, Read, ReadConnectionConfirm, ReadChallenge, ReadValidate, ReadConnectResponse,
             ReadAttachUserConfirm, ReadChannelJoinConfirm, ReadLicense, ReadOther, ReadEof,
             Receive, Waits, Write, WriteFails, StartSsl, SslFails, LinkDrop, Final, Expected
    <2>2. CASE ~link.up
      <3>1. ASSUME link' = link PROVE Over'
        BY <2>2, <3>1 DEF Over
      <3>2. CASE ReadConnectionConfirm
        <4>1. link' = link \/ link' = [link EXCEPT !.selected = msg.protocol]
          BY <3>2 DEF ReadConnectionConfirm
        <4>2. ~link'.up
          BY <2>2, <4>1 DEF Sound, IInv, Typed
        <4> QED
          BY <4>2 DEF Over
      <3>3. CASE ~ReadConnectionConfirm
        BY <1>3, <2>2, <3>1, <3>3
           DEF Client, Read, ReadChallenge, ReadValidate, ReadConnectResponse,
               ReadAttachUserConfirm, ReadChannelJoinConfirm, ReadLicense, ReadOther, ReadEof,
               Write, WriteFails, StartSsl, SslFails, LinkDrop
      <3> QED
        BY <3>2, <3>3
    <2>3. CASE srv.kind # "conforming"
      BY <1>1, <2>3 DEF Over
    <2> QED
      BY <2>1, <2>2, <2>3 DEF Over
  <1>4. Server => UNCHANGED client
    BY ServerFacts DEF Sound
  <1>5. Peer => UNCHANGED client
    BY DEF Peer, Deliver
  <1>6. UNCHANGED all => UNCHANGED client
    BY DEF all, vars
  <1> QED
    BY <1>1, <1>2, <1>3, <1>4, <1>5, <1>6 DEF ConnectionNext, ClientSteps

\* While it is not over, the state of Layers is the count of what was asked, what
\* the server granted and what was entered.
Count == Cardinality({i \in DOMAIN sent : sent[i].m.t \in Questions})

\* The state of Layers, by whether the sequence is over.
LEMMA OpenState ==
    /\ ~Over => /\ LayersAsked = Count /\ LayersGranted = srv.granted
                /\ LayersEntered = Entered /\ LayersOver = FALSE
    /\ Over => /\ LayersAsked = 0 /\ LayersGranted = 0 /\ LayersEntered = 0
               /\ LayersOver = (srv.kind = "conforming")
  BY DEF LayersAsked, LayersGranted, LayersEntered, LayersOver, Count

\* While it is not over, a step asks, grants, enters or does none of these.
LEMMA OpenStep ==
    ASSUME Sound, IInv', Conforming, Conforming', Granting, [ConnectionNext]_all, ~Over, ~Over'
    PROVE  \/ Count' = Count /\ srv'.granted = srv.granted /\ Entered' = Entered
           \/ /\ Count = Entered /\ Count' = Count + 1
              /\ srv'.granted = srv.granted /\ Entered' = Entered
           \/ /\ srv.granted < Count /\ srv'.granted = srv.granted + 1
              /\ Count' = Count /\ Entered' = Entered
           \/ /\ Entered < srv.granted /\ Entered' = Entered + 1
              /\ Count' = Count /\ srv'.granted = srv.granted
  <1>1. /\ srv.kind = "conforming" /\ link.up /\ link'.up
        /\ pc \notin {"failed", "panicked"} /\ pc' \notin {"failed", "panicked"}
    BY DEF Over
  <1>2. Peaceful
    BY <1>1 DEF Conforming, Peaceful
  <1>3. pc \in Steps \cup {"connected"}
    BY <1>1 DEF Sound, IInv, Typed, Final
  <1>4. UNCHANGED client => Count' = Count /\ Entered' = Entered
    BY DEF client, Count, Entered, Security
  <1>5. CASE Server
    <2>1. UNCHANGED client
      BY <1>5, ServerFacts DEF Sound
    <2>2. srv'.kind = "conforming"
      BY <1>1, <1>5, ServerKeeps DEF Sound
    <2>3. srv'.expects # "nothing more"
      BY <2>2 DEF Conforming, Listening, Expecting
    <2>4. Grants
      BY <1>5, <2>3, ServerGrants DEF Sound
    <2>5. PICK l \in Nat, b \in {1, 4} : l = Len(sent) /\ b = Before
      BY ListFacts DEF Sound
    <2>6. Count = Asks(Len(sent), Before)
      BY <2>5, OnStreamAsks DEF Count, Sound
    <2>7. \/ srv'.granted = srv.granted
          \/ srv.granted < Count /\ srv'.granted = srv.granted + 1
      BY <1>1, <1>5, <2>4, <2>6, ServerAnswers
    <2> QED
      BY <1>4, <2>1, <2>7
  <1>6. CASE (ClientSteps \/ LinkDrop) /\ UNCHANGED srv
    <2>1. srv'.granted = srv.granted
      BY <1>6
    <2>2. CASE Write
      <3>1. Entered' = Entered
        BY <2>2 DEF Write, Entered, Security
      <3>2. Count' = Count \/ (Count = Entered /\ Count' = Count + 1)
        BY <1>2, <2>2, WriteAsks DEF Count
      <3> QED
        BY <2>1, <3>1, <3>2
    <2>3. CASE StartSsl
      <3>1. Count' = Count
        BY <2>3 DEF StartSsl, Count
      <3> QED
        BY <1>2, <2>1, <2>3, <3>1, SslEnters
    <2>4. CASE \/ ReadConnectionConfirm \/ ReadChallenge \/ ReadValidate \/ ReadConnectResponse
               \/ ReadAttachUserConfirm \/ ReadChannelJoinConfirm \/ ReadLicense
      <3>1. Entered' = Entered + 1
        BY <1>1, <1>2, <2>4, ConfirmEnters, ChallengeEnters, ValidateEnters, ResponseEnters,
           AttachEnters, JoinedEnters, LicenseEnters DEF Moved
      <3>2. PICK step \in DOMAIN Expected : \E type : Receive(step, type)
        BY <2>4 DEF ReadConnectionConfirm, ReadChallenge, ReadValidate, ReadConnectResponse,
                    ReadAttachUserConfirm, ReadChannelJoinConfirm, ReadLicense, Expected
      <3>3. pc = step /\ UNCHANGED sent /\ srv.heard = Total
        BY <1>2, <3>2, Reads
      <3>4. srv.granted = Asks(Total, Before)
        BY <1>1, <1>2, <3>3, GrantedAll DEF Granting
      <3>5. pc \notin {"tls", "connected"}
        BY <3>3 DEF Expected
      <3>6. Entered \in Nat /\ srv.granted = Entered + 1
        BY <1>3, <3>4, <3>5, Entering DEF Sound
      <3>7. Count' = Count
        BY <3>3 DEF Count
      <3>8. Entered < srv.granted
        BY <3>6
      <3> QED
        BY <2>1, <3>1, <3>7, <3>8
    <2>5. ~ReadOther
      BY <1>2, NothingElse
    <2>6. ~(WriteFails \/ ReadEof \/ SslFails \/ LinkDrop)
      BY <1>1 DEF WriteFails, ReadEof, SslFails, LinkDrop, Fail, Sound, IInv, Typed
    <2> QED
      BY <1>6, <2>2, <2>3, <2>4, <2>5, <2>6 DEF ClientSteps, Client, Read
  <1>7. CASE Peer
    BY <1>1, <1>7 DEF Peer
  <1>8. CASE UNCHANGED all
    BY <1>4, <1>8 DEF all, vars
  <1> QED
    BY <1>5, <1>6, <1>7, <1>8 DEF ConnectionNext

\* Every step is a step of Layers or a stutter.
LEMMA LayersNext ==
    ASSUME Sound, IInv', Conforming, Conforming', Granting, [ConnectionNext]_all
    PROVE  [L!Next]_(L!vars)
  <1>1. srv'.kind = srv.kind
    BY ServerKeeps DEF Sound, ConnectionNext, all
  <1>2. /\ ~Over' => /\ LayersAsked' = Count' /\ LayersGranted' = srv'.granted
                     /\ LayersEntered' = Entered' /\ LayersOver' = FALSE
        /\ Over' => /\ LayersAsked' = 0 /\ LayersGranted' = 0 /\ LayersEntered' = 0
                    /\ LayersOver' = (srv'.kind = "conforming")
    BY DEF LayersAsked, LayersGranted, LayersEntered, LayersOver, Count
  <1>3. CASE Over
    <2>1. Over'
      BY <1>3, OverStays
    <2>2. /\ LayersAsked' = LayersAsked /\ LayersGranted' = LayersGranted
          /\ LayersEntered' = LayersEntered /\ LayersOver' = LayersOver
      BY <1>1, <1>2, <1>3, <2>1, OpenState
    <2> QED
      BY <2>2 DEF L!vars
  <1>4. CASE ~Over /\ Over'
    <2>1. srv'.kind = "conforming"
      BY <1>1, <1>4 DEF Over
    <2>2. /\ LayersAsked' = 0 /\ LayersGranted' = 0 /\ LayersEntered' = 0
          /\ LayersOver' = TRUE /\ LayersOver = FALSE
      BY <1>2, <1>4, <2>1, OpenState
    <2> QED
      BY <2>2 DEF L!Next, L!End
  <1>5. CASE ~Over /\ ~Over'
    <2>1. /\ LayersAsked = Count /\ LayersGranted = srv.granted
          /\ LayersEntered = Entered /\ LayersOver = FALSE
      BY <1>5, OpenState
    <2>2. /\ LayersAsked' = Count' /\ LayersGranted' = srv'.granted
          /\ LayersEntered' = Entered' /\ LayersOver' = FALSE
      BY <1>2, <1>5
    <2>3. CASE Count' = Count /\ srv'.granted = srv.granted /\ Entered' = Entered
      BY <2>1, <2>2, <2>3 DEF L!vars
    <2>4. CASE /\ Count = Entered /\ Count' = Count + 1
               /\ srv'.granted = srv.granted /\ Entered' = Entered
      BY <2>1, <2>2, <2>4 DEF L!Next, L!Ask
    <2>5. CASE /\ srv.granted < Count /\ srv'.granted = srv.granted + 1
               /\ Count' = Count /\ Entered' = Entered
      BY <2>1, <2>2, <2>5 DEF L!Next, L!Grant
    <2>6. CASE /\ Entered < srv.granted /\ Entered' = Entered + 1
               /\ Count' = Count /\ srv'.granted = srv.granted
      BY <2>1, <2>2, <2>6 DEF L!Next, L!Enter
    <2> QED
      BY <1>5, <2>3, <2>4, <2>5, <2>6, OpenStep
  <1> QED
    BY <1>3, <1>4, <1>5

\* The sequence starts where Layers does.
LEMMA LayersInit ==
    ASSUME ConnectionInit
    PROVE  L!Init
  <1>1. pc = "confirm" /\ link.up /\ sent = <<>> /\ srv.granted = 0
    BY DEF ConnectionInit, Init, SrvInit
  <1>2. Count = 0
    <2>1. {i \in DOMAIN sent : sent[i].m.t \in Questions} = {}
      BY <1>1
    <2> QED
      BY <2>1, FS_EmptySet DEF Count
  <1>3. Entered = 0
    BY <1>1 DEF Entered
  <1>4. LayersOver = FALSE
    BY <1>1 DEF LayersOver, Over
  <1>5. LayersAsked = 0 /\ LayersGranted = 0 /\ LayersEntered = 0
    BY <1>1, <1>2, <1>3, OpenState
  <1> QED
    BY <1>4, <1>5 DEF L!Init

(***************************************************************************)
(* The sequence of Connector::connect (core/client.rs:240-269) implements  *)
(* Layers: with a conforming server, whatever channels are joined in what  *)
(* order, a layer is asked for when the one before is entered, and entered *)
(* when it is granted; and a sequence that ends stays ended.               *)
(***************************************************************************)
THEOREM LayersFollowed == ConnectionSpec => LayerByLayer
  <1>1. ConnectionInit => L!Init /\ Granting
    BY LayersInit, GrantingInit
  <1>2. Sound /\ Conforming /\ Conforming' /\ Granting /\ [ConnectionNext]_all => Granting'
    BY GrantingNext
  <1>3. /\ Sound /\ Sound' /\ Conforming /\ Conforming' /\ Granting /\ [ConnectionNext]_all
        => [L!Next]_(L!vars)
    BY LayersNext DEF Sound
  <1> QED
    BY <1>1, <1>2, <1>3, Soundness, Conformance, PTL DEF ConnectionSpec, LayerByLayer, L!Spec
=============================================================================
