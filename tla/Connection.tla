----------------------------- MODULE Connection -----------------------------
(***************************************************************************)
(* Connector::connect against servers of four kinds.  A conforming one     *)
(* follows the sequence and has the account; one of kind "split" is the    *)
(* same but sends a TSRequest in two TLS records; a stranger does not have *)
(* the account; and one of kind "any" sends any message at any time.  The  *)
(* servers are not part of the repository.                                 *)
(***************************************************************************)
EXTENDS Connect, FiniteSets

CONSTANTS Kinds,        \* the kinds of server
          Initiators,   \* MCS users the server has to give
          Versions      \* versions of the server

\* The channel of a user has an id of 16 bits.
ASSUME ConnectionAssumption == \A i \in Initiators : i \in Nat /\ i + 1001 < U16

VARIABLE srv
all == <<vars, srv>>

SrvNonce == <<"server challenge">>
TargetInfo == <<"target info">>
NoKey == <<"none">>
Guess == <<"guessed session key">>
SrvAccount == [user |-> <<"user">>, hashed |-> FALSE,
               secret |-> IF srv.kind = "stranger" THEN <<"another password">> ELSE Password]

SrvInit == \E kind \in Kinds, version \in Versions :
    /\ kind = "conforming" \/ version = CHOOSE v \in Versions : TRUE
    /\ srv = [kind |-> kind, version |-> version, expects |-> "Request", heard |-> 0,
              granted |-> 0, selected |-> "none", security |-> SecurityInterface(NoKey, "server"),
              user |-> NoUser, joined |-> {}]

\* The server reads the next message of the client, when it is the one it expects.
Heard == sent[srv.heard + 1].m
SrvHears(type) == /\ srv.kind # "any" /\ link.up
                  /\ srv.heard < Len(sent)
                  /\ srv.expects = type /\ Heard.t = type
                  /\ UNCHANGED client
Follows(next, answers) ==
    [srv EXCEPT !.heard = @ + 1, !.expects = next, !.granted = @ + answers]
Say(messages) == s2c' = s2c \o messages
Records(m) == IF srv.kind = "split" THEN <<[t |-> "Part"], [t |-> "Part"]>> ELSE <<m>>

SrvConfirm == /\ SrvHears("Request")
              /\ \E p \in Heard.protocols :
                    /\ Say(<<[t |-> "Confirm", type |-> "Response", protocol |-> p]>>)
                    /\ srv' = [Follows(IF p = "Hybrid" THEN "Negotiate" ELSE "ConnectInitial", 1)
                                 EXCEPT !.selected = p]
SrvChallenge == /\ SrvHears("Negotiate")
                /\ Say(Records([t |-> "Challenge", form |-> "good",
                                nonce |-> SrvNonce, info |-> TargetInfo]))
                /\ srv' = Follows("Authenticate", 1)

\* The session key is what the client's key field says, to who has the account.
Opened(auth) ==
    LET key == ResponseKey(SrvAccount)
        base == BaseKey(key, auth.proof)
    IN  IF /\ auth.proof = Proof(key, SrvNonce, auth.nonce, TargetInfo)
           /\ auth.key = Rc4k(base, auth.key[3])
           /\ auth.mic = Mic(auth.key[3], Negotiate.t, SrvNonce)
        THEN auth.key[3] ELSE NoKey
Right(security, data) ==
    Verified(security, Heard.sealed) /\ Unwrapped(security, Heard.sealed) = data
Reject == srv' = [Follows("nothing more", 0) EXCEPT !.security = AfterUnwrap(@)] /\ UNCHANGED s2c
SrvValidate ==
    /\ SrvHears("Authenticate")
    /\ LET exported == Opened(Heard.auth)
           security == SecurityInterface(IF exported = NoKey THEN Guess ELSE exported, "server")
       IN  IF srv.kind = "stranger" \/ Right(security, PubKey)
           THEN /\ Say(Records([t |-> "Validate",
                                sealed |-> Wrapped(AfterUnwrap(security), PubKeyPlusOne)]))
                /\ srv' = [Follows("Credentials", 1)
                             EXCEPT !.security = AfterWrap(AfterUnwrap(security))]
           ELSE Reject
SrvCredentials ==
    /\ SrvHears("Credentials")
    /\ IF Right(srv.security, <<TsCredentials>>)
       THEN /\ srv' = [Follows("ConnectInitial", 0) EXCEPT !.security = AfterUnwrap(@)]
            /\ UNCHANGED s2c
       ELSE Reject
SrvResponse == /\ SrvHears("ConnectInitial") /\ Heard.selected = srv.selected
               /\ Say(<<[t |-> "Response", blocks |-> {"core", "net"}, version |-> srv.version]>>)
               /\ srv' = Follows("Erect", 1)
SrvErect == SrvHears("Erect") /\ srv' = Follows("AttachRequest", 0) /\ UNCHANGED s2c
SrvAttach == /\ SrvHears("AttachRequest")
             /\ \E i \in Initiators :
                   /\ Say(<<[t |-> "Attach", result |-> 0, initiator |-> i]>>)
                   /\ srv' = [Follows("JoinRequest", 1) EXCEPT !.user = i + 1001]
SrvJoin == /\ SrvHears("JoinRequest")
           /\ Heard.user = srv.user /\ Heard.channel \in {1003, srv.user} \ srv.joined
           /\ Say(<<[t |-> "Joined", initiator |-> srv.user - 1001, channel |-> Heard.channel]>>)
           /\ srv' = [Follows(IF srv.joined = {} THEN "JoinRequest" ELSE "Info", 1)
                        EXCEPT !.joined = @ \cup {Heard.channel}]
SrvLicense == /\ SrvHears("Info") /\ Heard.user = srv.user
              /\ \E type \in {"NewLicense", "ErrorAlert"} :
                    Say(<<[t |-> "License", channel |-> 1003, flag |-> TRUE, type |-> type,
                           code |-> "StatusValidClient", transition |-> "StNoTransition"]>>)
              /\ srv' = Follows("nothing", 1)

Server == SrvConfirm \/ SrvChallenge \/ SrvValidate \/ SrvCredentials \/ SrvResponse
          \/ SrvErect \/ SrvAttach \/ SrvJoin \/ SrvLicense

\* A message that came earlier would only wait until the client reads.
Peer == /\ srv.kind = "any" /\ pc \in Steps /\ out = <<>>
        /\ \E m \in Messages : Deliver(m)
ClientSteps == Client \/ (SslFails /\ (srv.kind = "any" \/ ~link.up))

ConnectionInit == Init /\ SrvInit
ConnectionNext == Server \/ ((ClientSteps \/ Peer \/ LinkDrop) /\ UNCHANGED srv)
ConnectionSpec == /\ ConnectionInit /\ [][ConnectionNext]_all
                  /\ WF_all(ClientSteps /\ UNCHANGED srv) /\ WF_all(Server)
-----------------------------------------------------------------------------
\* When connect returns Ok, a conforming server has finished too, with the same
\* protocol, user and channels (core/mcs.rs:226-248).
Agreement ==
    (pc = "connected" /\ srv.kind = "conforming") =>
        /\ srv.expects = "nothing" /\ srv.selected = link.selected
        /\ srv.user = mcs.user_id /\ srv.joined = {1003, mcs.user_id}

\* Whenever nothing sealed is under way, the keystreams of the two ends stand at
\* the same places, with the same keys (nla/ntlm.rs:681-725).
UnderWay == Range(s2c) \cup Range(out) \cup {sent[i].m : i \in (srv.heard + 1)..Len(sent)}
InStep ==
    (srv.kind = "conforming" /\ \A m \in UnderWay : "sealed" \notin DOMAIN m) =>
        /\ nla.encrypt = srv.security.decrypt
        /\ nla.decrypt = srv.security.encrypt

\* A conforming server never makes connect fail or panic, and is never sent a
\* message it does not expect: only the network ends the sequence.
NoFalseAlarm ==
    (srv.kind = "conforming" /\ link.up) =>
        /\ pc \notin {"failed", "panicked"}
        /\ srv.expects # "nothing more"
        /\ srv.heard < Len(sent) => Heard.t = srv.expects

\* A server that does not have the account never gets the TSCredentials, and is
\* not connected to when CredSSP was selected (nla/cssp.rs:189-203).
OnlyTheAccountHolder ==
    (srv.kind = "stranger" /\ link.selected = "Hybrid") =>
        /\ pc # "connected"
        /\ \A i \in DOMAIN sent : sent[i].m.t # "Credentials"

\* connect ends when the stream does, however far it has come, and when a
\* server splits its TSRequest.
Returns == /\ ~link.up ~> pc \in Final
           /\ (srv.kind = "split" /\ link.selected = "Hybrid") ~> pc \in Final

\* With a conforming server it returns Ok, unless the stream ends.
Connects == (srv.kind = "conforming") ~> (pc = "connected" \/ ~link.up)

\* A server of version 5 or later gets the extended information: "On RDP version
\* > 5 Client have to send IP information" (core/sec.rs:62-63).
ExtendedInfo ==
    \A i \in DOMAIN sent :
        sent[i].m.t = "Info" /\ srv.version = "00080004" => sent[i].m.extended
-----------------------------------------------------------------------------
\* The sequence implements Layers.  What was asked is read off the log, what was
\* granted is the server's, and what was entered follows from the step.
Questions == {"Request", "Negotiate", "Authenticate", "ConnectInitial", "AttachRequest",
              "JoinRequest", "Info"}
Over == pc \in {"failed", "panicked"} \/ ~link.up \/ srv.kind # "conforming"
Security == IF link.selected = "Hybrid" THEN 3 ELSE 1
Entered == CASE pc = "confirm"   -> 0
             [] pc = "tls"       -> 1
             [] pc = "challenge" -> 1
             [] pc = "validate"  -> 2
             [] pc = "response"  -> Security
             [] pc = "attach"    -> Security + 1
             [] pc = "join"      -> Security + 3 - Cardinality(mcs.todo)
             [] pc = "license"   -> Security + 4
             [] OTHER            -> Security + 5
LayersAsked == IF Over THEN 0 ELSE Cardinality({i \in DOMAIN sent : sent[i].m.t \in Questions})
LayersGranted == IF Over THEN 0 ELSE srv.granted
LayersEntered == IF Over THEN 0 ELSE Entered
LayersOver == Over /\ srv.kind = "conforming"
L == INSTANCE Layers WITH asked <- LayersAsked, granted <- LayersGranted,
                          entered <- LayersEntered, over <- LayersOver
LayerByLayer == L!Spec
=============================================================================
