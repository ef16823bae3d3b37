------------------------------ MODULE Connect ------------------------------
(***************************************************************************)
(* Connector::connect (core/client.rs): X.224 negotiation, TLS, CredSSP,   *)
(* MCS, SEC and licensing, one after the other on one stream, against a    *)
(* peer that may answer anything at any time.  An action is what the       *)
(* client does with one message: it reads it, changes its layers and lines *)
(* up in `out' what it writes before its next read.                        *)
(***************************************************************************)
EXTENDS Ntlm, FiniteSets, SequencesExt

CONSTANTS Messages,      \* what the peer may send
          MaxFlight      \* messages of the peer not yet read

\* The initiator of an attach user confirm is read as a number.
ASSUME ConnectAssumption ==
    /\ MaxFlight \in Nat
    /\ \A m \in Messages : m.t = "Attach" => m.initiator \in Nat

VARIABLES cfg,     \* the fields of the Connector
          pc,      \* the message the client waits for
          result,  \* what connect has returned
          link,    \* selected protocol, TLS, and whether the stream is up
          nla,     \* the security interface of CredSSP
          mcs,     \* user id, channels, version of the server
          out,     \* what is written before the next read
          sent,    \* everything that reached the stream, and whether over TLS
          s2c      \* messages of the peer not yet read

client == <<cfg, pc, result, link, nla, mcs, out, sent>>
vars == <<client, s2c>>

Configs == [use_nla : BOOLEAN, restricted : BOOLEAN, blank : BOOLEAN, hashed : BOOLEAN]
Steps == {"confirm", "tls", "challenge", "validate", "response", "attach",
          "join", "license"}
Final == {"connected", "failed", "panicked"}
Protocols == {"RDP", "SSL", "Hybrid", "HybridEx"}
Channels == {"global", "user"}

PubKey == <<"public key">>
PubKeyPlusOne == <<"public key plus one">>
Password == <<"password">>
Exported == <<"exported session key">>
Nonce == <<"client challenge">>

\* Connector: the account of NTLM, by password or by its hash, and what of the
\* credentials goes into TSCredentials and into the info packet.
Account == [user   |-> <<"user">>,
            hashed |-> cfg.hashed,
            secret |-> IF cfg.hashed THEN Md4(Password) ELSE Password]
Requested == {"SSL"} \cup (IF cfg.use_nla THEN {"Hybrid"} ELSE {})
\* A fault: blank_creds is forgotten.
TsCredentialsUnblanked == IF cfg.restricted THEN "blank" ELSE IF cfg.hashed THEN "name" ELSE "all"
TsCredentials == IF cfg.restricted \/ cfg.blank THEN "blank"
                 ELSE IF cfg.hashed THEN "name" ELSE "all"
InfoCredentials == IF cfg.restricted THEN "blank" ELSE "all"

Request == [t |-> "Request", protocols |-> Requested, restricted |-> cfg.restricted]
Negotiate == [t |-> "Negotiate"]
ConnectInitial(selected) == [t |-> "ConnectInitial", selected |-> selected]
ErectDomain == [t |-> "Erect"]
AttachUser == [t |-> "AttachRequest"]
Join(user, channel) == [t |-> "JoinRequest", user |-> user, channel |-> channel]
Info(m) == [t |-> "Info", user |-> m.user_id, credentials |-> InfoCredentials,
            extended |-> m.version = "RdpVersion5plus"]

NoUser == 0
Init ==
    /\ cfg \in Configs
    /\ pc = "confirm"
    /\ result = "none"
    /\ link = [selected |-> "none", tls |-> FALSE, up |-> TRUE]
    /\ nla = SecurityInterface(<<"none">>, "client")
    /\ mcs = [user_id |-> NoUser, version |-> "none", joining |-> "none", todo |-> {}]
    /\ out = <<Request>>
    /\ sent = <<>>
    /\ s2c = <<>>
-----------------------------------------------------------------------------
\* How a step ends.
Goto(step, messages) == pc' = step /\ out' = messages /\ UNCHANGED result
Fail(kind) == pc' = "failed" /\ result' = kind /\ UNCHANGED out
Panic == pc' = "panicked" /\ UNCHANGED <<result, out>>

Waits(step) == pc = step /\ out = <<>>
msg == Head(s2c)
Receive(step, type) ==
    /\ Waits(step)
    /\ s2c # <<>> /\ msg.t = type
    /\ s2c' = Tail(s2c)
    /\ UNCHANGED <<cfg, sent>>

\* Link::write of the next message.
Write ==
    /\ pc \notin Final /\ out # <<>> /\ link.up
    /\ sent' = Append(sent, [m |-> Head(out), tls |-> link.tls])
    /\ out' = Tail(out)
    /\ UNCHANGED <<cfg, pc, result, link, nla, mcs, s2c>>
WriteFails ==
    /\ pc \notin Final /\ out # <<>> /\ ~link.up
    /\ Fail("Io")
    /\ UNCHANGED <<cfg, link, nla, mcs, sent, s2c>>

\* The message a step parses.
Expected == [confirm |-> "Confirm", challenge |-> "Challenge", validate |-> "Validate",
             response |-> "Response", attach |-> "Attach", join |-> "Joined",
             license |-> "License"]

\* Link::read(0) of CredSSP may return nothing instead of an error.
EofKinds == IF pc \in {"challenge", "validate"} THEN {"Io", "ASN1Error"} ELSE {"Io"}
\* A fault: CredSSP reads until it has something.
ReadEofPatient ==
    /\ pc \in DOMAIN Expected \ {"challenge", "validate"}
    /\ Waits(pc) /\ s2c = <<>> /\ ~link.up
    /\ Fail("Io")
    /\ UNCHANGED <<cfg, link, nla, mcs, sent, s2c>>
ReadEof ==
    /\ pc \in DOMAIN Expected /\ Waits(pc) /\ s2c = <<>> /\ ~link.up
    /\ \E kind \in EofKinds : Fail(kind)
    /\ UNCHANGED <<cfg, link, nla, mcs, sent, s2c>>

\* What a step says to another message.
Unparsed ==
    CASE pc \in {"challenge", "validate"} -> "ASN1Error"
      [] pc \notin {"challenge", "validate"} /\ msg.t = "FastPath" -> "InvalidCast"
      [] pc = "license" /\ msg.t = "Ultimatum" -> "Disconnect"
      [] OTHER -> "InvalidData"
ReadOther ==
    /\ pc \in DOMAIN Expected
    /\ \E type \in {m.t : m \in Range(s2c)} \ {Expected[pc]} : Receive(pc, type)
    /\ Fail(Unparsed)
    /\ UNCHANGED <<link, nla, mcs>>
-----------------------------------------------------------------------------
\* x224::Client::connect.  The protocol is not compared with the request.
NegotiationError(m) ==
    CASE m.type = "Failure" -> "ProtocolNegFailure"
      [] m.type = "Request" -> "InvalidAutomata"
      [] m.type = "Response" /\ m.protocol = "HybridEx" -> "InvalidProtocol"
      [] OTHER -> "TryError"
Handled == {"RDP", "SSL", "Hybrid"}
Accepts(m) == m.type = "Response" /\ m.protocol \in Handled
ReadConnectionConfirm ==
    /\ Receive("confirm", "Confirm")
    /\ IF Accepts(msg)
       THEN /\ link' = [link EXCEPT !.selected = msg.protocol]
            /\ IF msg.protocol = "RDP"
               THEN Goto("response", <<ConnectInitial("RDP")>>)
               ELSE Goto("tls", <<>>)
       ELSE Fail(NegotiationError(msg)) /\ UNCHANGED link
    /\ UNCHANGED <<nla, mcs>>

\* Link::start_ssl, and the first message on the new link.
StartSsl ==
    /\ pc = "tls" /\ link.up
    /\ link' = [link EXCEPT !.tls = TRUE]
    /\ IF link.selected = "Hybrid"
       THEN Goto("challenge", <<Negotiate>>)
       ELSE Goto("response", <<ConnectInitial("SSL")>>)
    /\ UNCHANGED <<cfg, nla, mcs, sent, s2c>>
SslFails ==
    /\ pc = "tls"
    /\ Fail("SslHandshakeError")
    /\ UNCHANGED <<cfg, link, nla, mcs, sent, s2c>>

\* Why a challenge is refused: a wrong signature or message type, an end before
\* the end of a field or of the target info, an id of the target info the client
\* does not know.
ChallengeError == [unsigned |-> "InvalidConst", cut |-> "Io", unknown |-> "InvalidCast"]

\* cssp_connect up to its second read.  The TSRequest must be whole in what one
\* read returns (a part of it is another message, for ReadOther); a list without
\* tokens, a challenge without a timestamp and a field outside of the payload
\* are panics.
ReadChallenge ==
    /\ Receive("challenge", "Challenge")
    /\ IF msg.form = "good"
       THEN LET security == SecurityInterface(Exported, "client")
            IN  /\ nla' = AfterWrap(security)
                /\ Goto("validate",
                     <<[t      |-> "Authenticate",
                        auth   |-> AuthenticateMessage(Account, Negotiate.t, msg, Nonce, Exported),
                        sealed |-> Wrapped(security, PubKey)]>>)
       ELSE /\ \/ msg.form \in DOMAIN ChallengeError /\ Fail(ChallengeError[msg.form])
               \/ msg.form \notin DOMAIN ChallengeError /\ Panic
            /\ UNCHANGED nla
    /\ UNCHANGED <<link, mcs>>

\* The rest of cssp_connect: only the owner of the public key may get the
\* credentials.  The connect request of MCS follows.
\* A fault: the answer of the server is not verified.
ReadValidateTrusting ==
    /\ Receive("validate", "Validate")
    /\ nla' = AfterWrap(AfterUnwrap(nla))
    /\ Goto("response", <<[t |-> "Credentials",
                           sealed |-> Wrapped(AfterUnwrap(nla), <<TsCredentials>>)],
                         ConnectInitial("Hybrid")>>)
    /\ UNCHANGED <<link, mcs>>
ReadValidate ==
    /\ Receive("validate", "Validate")
    /\ LET security == AfterUnwrap(nla)
       IN  IF ~Verified(nla, msg.sealed)
           THEN Fail("InvalidChecksum") /\ nla' = security
           ELSE IF Unwrapped(nla, msg.sealed) # PubKeyPlusOne
           THEN Fail("PossibleMITM") /\ nla' = security
           ELSE /\ nla' = AfterWrap(security)
                /\ Goto("response",
                     <<[t |-> "Credentials",
                        sealed |-> Wrapped(security, <<TsCredentials>>)],
                       ConnectInitial("Hybrid")>>)
    /\ UNCHANGED <<link, mcs>>
-----------------------------------------------------------------------------
\* Version::from, which has the two versions the wrong way round.
VersionFrom(version) ==
    CASE version = "00080001" -> "RdpVersion5plus"
      [] version = "00080004" -> "RdpVersion"
      [] OTHER -> "Unknown"

\* mcs::Client::connect.  The result in the response is not looked at; a block
\* that is missing is a panic, one whose length is less than its header is a
\* panic or, unchecked, the end of the stream.
ReadConnectResponse ==
    /\ Receive("response", "Response")
    /\ \/ /\ msg.blocks = {"core", "net"}
          /\ mcs' = [mcs EXCEPT !.version = VersionFrom(msg.version)]
          /\ Goto("attach", <<ErectDomain, AttachUser>>)
       \/ /\ msg.blocks # {"core", "net"}
          /\ Panic \/ ("short" \in msg.blocks /\ Fail("Io"))
          /\ UNCHANGED mcs
    /\ UNCHANGED <<link, nla>>

U16 == 65536
ChannelId(m, name) == IF name = "global" THEN 1003 ELSE m.user_id

\* The next channel in the order of a HashMap.
\* A fault: all the requests at once.
JoinNextAhead(m, names) ==
    \E name \in names :
        /\ mcs' = [m EXCEPT !.joining = name, !.todo = names \ {name}]
        /\ Goto("join", IF Cardinality(names) = 1 THEN <<>> ELSE
               <<Join(m.user_id, ChannelId(m, name))>>
               \o SetToSeq({Join(m.user_id, ChannelId(m, n)) : n \in names \ {name}}))
JoinNext(m, names) ==
    \E name \in names :
        /\ mcs' = [m EXCEPT !.joining = name, !.todo = names \ {name}]
        /\ Goto("join", <<Join(m.user_id, ChannelId(m, name))>>)

\* The sum overflows: a panic where overflows are checked, or modulo 2^16.
\* A fault: a user id of more than 16 bits.
ReadAttachUserConfirmWide ==
    /\ Receive("attach", "Attach")
    /\ IF msg.result # 0 THEN Fail("RejectedByServer") /\ UNCHANGED mcs
       ELSE JoinNext([mcs EXCEPT !.user_id = msg.initiator + 1001], Channels)
    /\ UNCHANGED <<link, nla>>
ReadAttachUserConfirm ==
    /\ Receive("attach", "Attach")
    /\ \/ msg.result # 0 /\ Fail("RejectedByServer") /\ UNCHANGED mcs
       \/ /\ msg.result = 0
          /\ JoinNext([mcs EXCEPT !.user_id = (msg.initiator + 1001) % U16], Channels)
       \/ msg.result = 0 /\ msg.initiator + 1001 >= U16 /\ Panic /\ UNCHANGED mcs
    /\ UNCHANGED <<link, nla>>

\* A rejected channel is printed.  sec::connect follows the last one.
\* Two faults: only one channel is joined; the license is not waited for.
ReadChannelJoinConfirmOnce ==
    /\ Receive("join", "Joined")
    /\ Goto("license", <<Info(mcs)>>) /\ mcs' = [mcs EXCEPT !.joining = "none"]
    /\ UNCHANGED <<link, nla>>
ReadChannelJoinConfirmLast ==
    /\ Receive("join", "Joined")
    /\ IF mcs.todo # {} THEN JoinNext(mcs, mcs.todo)
       ELSE pc' = "connected" /\ result' = "Ok" /\ UNCHANGED <<out, mcs>>
    /\ UNCHANGED <<link, nla>>
ReadChannelJoinConfirm ==
    /\ Receive("join", "Joined")
    /\ \/ msg.initiator + 1001 >= U16 /\ Panic /\ UNCHANGED mcs
       \/ IF (msg.initiator + 1001) % U16 # mcs.user_id \/ msg.channel # ChannelId(mcs, mcs.joining)
          THEN Fail("InvalidData") /\ UNCHANGED mcs
          ELSE IF mcs.todo # {} THEN JoinNext(mcs, mcs.todo)
          ELSE Goto("license", <<Info(mcs)>>) /\ mcs' = [mcs EXCEPT !.joining = "none"]
    /\ UNCHANGED <<link, nla>>

\* license::client_connect: a new license, or the alert that none is needed.
AlertCodes == {"StatusValidClient", "ErrNoLicense"}
Transitions == {"StNoTransition", "StTotalAbort"}
AlertError(m) ==
    IF \/ m.code \notin AlertCodes
       \/ m.code = "StatusValidClient" /\ m.transition \notin Transitions
    THEN "TryError"
    ELSE IF m.code = "StatusValidClient" /\ m.transition = "StNoTransition"
    THEN "Ok" ELSE "InvalidRespond"
\* A fault: a new license is not accepted.
LicenseErrorAlertOnly(m) == IF m.type = "ErrorAlert" THEN AlertError(m) ELSE "NotImplemented"
LicenseError(m) ==
    CASE m.type = "NewLicense" -> "Ok"
      [] m.type = "ErrorAlert" -> AlertError(m)
      [] OTHER -> "NotImplemented"

\* sec::connect after its write: any channel the client knows will do.  A size
\* that is less than the preamble is a panic.
SecError(m) ==
    IF \A name \in Channels : m.channel # ChannelId(mcs, name) THEN "Unknown"
    ELSE IF ~m.flag THEN "InvalidData" ELSE LicenseError(m)
ReadLicense ==
    /\ Receive("license", "License")
    /\ LET error == SecError(msg)
       IN  CASE error = "Ok" -> pc' = "connected" /\ result' = "Ok" /\ UNCHANGED out
             [] error = "NotImplemented" /\ msg.type = "short" -> Panic
             [] OTHER -> Fail(error)
    /\ UNCHANGED <<link, nla, mcs>>
-----------------------------------------------------------------------------
Read ==
    \/ ReadConnectionConfirm \/ ReadChallenge \/ ReadValidate \/ ReadConnectResponse
    \/ ReadAttachUserConfirm \/ ReadChannelJoinConfirm \/ ReadLicense
    \/ ReadOther \/ ReadEof
Client == Read \/ Write \/ WriteFails \/ StartSsl

\* The peer and the network.
Deliver(m) == link.up /\ Len(s2c) < MaxFlight /\ s2c' = Append(s2c, m) /\ UNCHANGED client
LinkDrop ==
    /\ pc \notin Final /\ link.up
    /\ link' = [link EXCEPT !.up = FALSE]
    /\ UNCHANGED <<cfg, pc, result, nla, mcs, out, sent, s2c>>

Next == Client \/ SslFails \/ LinkDrop \/ \E m \in Messages : Deliver(m)
Spec == Init /\ [][Next]_vars
-----------------------------------------------------------------------------
ClientMessages == {"Request", "Negotiate", "Authenticate", "Credentials", "ConnectInitial",
                   "Erect", "AttachRequest", "JoinRequest", "Info"}

\* Every variable keeps its type.
ConnectTypeOK ==
    /\ cfg \in Configs
    /\ pc \in Steps \cup Final
    /\ (result = "none") <=> (pc \in Steps \cup {"panicked"})
    /\ (result = "Ok") <=> (pc = "connected")
    /\ link \in [selected : Handled \cup {"none"}, tls : BOOLEAN, up : BOOLEAN]
    /\ {nla.encrypt.at, nla.decrypt.at, nla.seq_num} \subseteq 0..4
    /\ mcs.user_id \in 0..(U16 - 1) /\ mcs.todo \subseteq Channels
    /\ \A i \in DOMAIN sent : sent[i].m.t \in ClientMessages /\ sent[i].tls \in BOOLEAN

\* Whatever the peer answers, the client writes the messages of the sequence in
\* its order and without a gap: those of CredSSP only when it was selected, both
\* channels under one user id before the info packet, and all of them when
\* connect returns Ok (core/client.rs:240-269).
Script ==
    <<"Request">>
    \o (IF link.selected = "Hybrid" THEN <<"Negotiate", "Authenticate", "Credentials">> ELSE <<>>)
    \o <<"ConnectInitial", "Erect", "AttachRequest", "JoinRequest", "JoinRequest", "Info">>
Users == {sent[i].m.user : i \in {j \in DOMAIN sent : sent[j].m.t \in {"JoinRequest", "Info"}}}
Joins == {i \in DOMAIN sent : sent[i].m.t = "JoinRequest"}
InSequence ==
    /\ IsPrefix([i \in DOMAIN sent |-> sent[i].m.t], Script)
    /\ pc = "connected" => Len(sent) = Len(Script)
    /\ \A u, v \in Users : u = v
    /\ \A i, j \in Joins :
          i # j => {sent[i].m.channel, sent[j].m.channel} = {1003, mcs.user_id}

\* The credentials leave only where the configuration lets them, and everything
\* after the request is on the stream the selected protocol stands for
\* (core/client.rs:253-269, nla/cssp.rs:198-203).
CredentialsGuarded ==
    \A i \in DOMAIN sent : LET e == sent[i].m IN
        /\ sent[i].tls <=> (e.t # "Request" /\ link.selected \in {"SSL", "Hybrid"})
        /\ e.t = "Info" /\ cfg.restricted => e.credentials = "blank"
        /\ e.t = "Credentials" /\ (cfg.restricted \/ cfg.blank)
              => e.sealed.payload.data = <<"blank">>
=============================================================================
