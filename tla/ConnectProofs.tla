---------------------------- MODULE ConnectProofs ----------------------------
(***************************************************************************)
(* What Connector::connect does whatever the peer answers, for every set   *)
(* of messages it may answer with.                                         *)
(***************************************************************************)
EXTENDS Connect, SequenceTheorems, TLAPS

-----------------------------------------------------------------------------
(***************************************************************************)
(* The inductive invariant.  The messages written and those lined up in    *)
(* out make one list, Message(1) to Message(Total): to write moves the     *)
(* border between the two and nothing else.                                *)
(***************************************************************************)
IsSeq(s) == s \in Seq(Range(s))

Total == Len(sent) + Len(out)
Message(i) == IF i <= Len(sent) THEN sent[i].m ELSE out[i - Len(sent)]

\* The messages before the connect request of MCS.
Before == IF link.selected = "Hybrid" THEN 4 ELSE 1

ScriptAt(i) ==
    CASE i = 1                    -> "Request"
      [] i = 2 /\ Before = 4      -> "Negotiate"
      [] i = 3 /\ Before = 4      -> "Authenticate"
      [] i = 4 /\ Before = 4      -> "Credentials"
      [] i = Before + 1           -> "ConnectInitial"
      [] i = Before + 2           -> "Erect"
      [] i = Before + 3           -> "AttachRequest"
      [] i \in {Before + 4, Before + 5} -> "JoinRequest"
      [] OTHER                    -> "Info"

\* How far the list has come when connect waits for a message.
Planned ==
    CASE pc \in {"confirm", "tls"} -> 1
      [] pc = "challenge" -> 2
      [] pc = "validate"  -> 3
      [] pc = "response"  -> Before + 1
      [] pc = "attach"    -> Before + 3
      [] pc = "join"      -> IF mcs.todo = {} THEN Before + 5 ELSE Before + 4
      [] OTHER            -> Before + 6

InScript ==
    /\ Total <= Before + 6
    /\ \A i \in 1 .. Total : Message(i).t = ScriptAt(i)
    /\ pc \notin {"failed", "panicked"} => Total = Planned
    /\ pc = "connected" => out = <<>>

\* The protocol, and where TLS starts.
Layer ==
    /\ pc = "confirm" => link.selected = "none"
    /\ pc \in {"tls", "challenge", "validate"} => link.selected \in {"SSL", "Hybrid"}
    /\ pc \in {"challenge", "validate"} => link.selected = "Hybrid"
    /\ pc \in {"confirm", "tls"} => ~link.tls
    /\ pc = "tls" => out = <<>>
    /\ pc \notin {"confirm"} \cup Final => Len(sent) > 0
    /\ pc \notin {"confirm", "tls"} \cup Final => (link.tls <=> link.selected \in {"SSL", "Hybrid"})

\* The security interface goes through these four states.
NlaIdle == SecurityInterface(<<"none">>, "client")
NlaAsked == AfterWrap(SecurityInterface(Exported, "client"))
NlaHeard == AfterUnwrap(NlaAsked)
NlaDone == AfterWrap(NlaHeard)
Nla ==
    /\ nla \in {NlaIdle, NlaAsked, NlaHeard, NlaDone}
    /\ pc = "validate" => nla = NlaAsked

\* The two channels, under one user id.
Joined ==
    /\ \A i \in 1 .. Total : i \in Before + 4 .. Before + 6 => Message(i).user = mcs.user_id
    /\ Total >= Before + 5 =>
          {Message(Before + 4).channel, Message(Before + 5).channel} = {1003, mcs.user_id}
    /\ pc = "join" =>
          /\ mcs.joining \in Channels
          /\ mcs.todo \subseteq Channels \ {mcs.joining}
          /\ \A i \in 1 .. Total : i = Total => Message(i).channel = ChannelId(mcs, mcs.joining)

\* What leaves, and on which stream.
Guarded ==
    /\ \A i \in DOMAIN sent :
          sent[i].tls <=> (i > 1 /\ link.selected \in {"SSL", "Hybrid"})
    /\ \A i \in 1 .. Total :
          /\ i = Before + 6 => Message(i).credentials = InfoCredentials
          /\ i = 4 /\ Before = 4 => Message(i).sealed.payload.data = <<TsCredentials>>

Typed ==
    /\ cfg \in Configs
    /\ pc \in Steps \cup Final
    /\ (result = "none") <=> (pc \in Steps \cup {"panicked"})
    /\ (result = "Ok") <=> (pc = "connected")
    /\ link \in [selected : Handled \cup {"none"}, tls : BOOLEAN, up : BOOLEAN]
    /\ mcs \in [user_id : 0 .. (U16 - 1), joining : Channels \cup {"none"}, todo : SUBSET Channels,
                version : {"none", "RdpVersion5plus", "RdpVersion", "Unknown"}]
    /\ IsSeq(sent) /\ IsSeq(out)
    /\ \A i \in DOMAIN sent : sent[i].tls \in BOOLEAN

IInv == Typed /\ InScript /\ Layer /\ Nla /\ Joined /\ Guarded

\* What the peer has sent.
Attached ==
    /\ IsSeq(s2c)
    /\ \A i \in DOMAIN s2c : s2c[i].t = "Attach" => s2c[i].initiator \in Nat

-----------------------------------------------------------------------------
\* Facts about the lists of messages.

\* A remainder is less than the width, and a number that fits is its own.
LEMMA Remainder ==
    ASSUME NEW k \in Nat, NEW w \in Nat \ {0}
    PROVE  k % w \in 0 .. (w - 1) /\ (k < w => k % w = k)
  OBVIOUS

\* Nothing depends on how wide the numbers are.
LEMMA Width == U16 \in Nat /\ U16 > 0
  BY SMTT(60) DEF U16

\* What is known of a sequence of anything.
LEMMA SeqFacts ==
    ASSUME NEW s, IsSeq(s)
    PROVE  s \in Seq(Range(s)) /\ Len(s) \in Nat /\ DOMAIN s = 1 .. Len(s)
  BY LenProperties DEF IsSeq

\* A sequence of elements of a set is a sequence of its own elements.
LEMMA SeqIsSeq ==
    ASSUME NEW S, NEW s \in Seq(S)
    PROVE  IsSeq(s)
  BY SeqOfRange DEF IsSeq

\* What is on the stream and what is lined up are sequences, and make up the list.
LEMMA ListFacts ==
    ASSUME IInv
    PROVE  /\ Len(sent) \in Nat /\ Len(out) \in Nat /\ Total \in Nat
           /\ DOMAIN sent = 1 .. Len(sent) /\ DOMAIN out = 1 .. Len(out)
           /\ IsSeq(sent) /\ IsSeq(out)
           /\ \A i \in DOMAIN sent : Message(i) = sent[i].m /\ i \in 1 .. Total
           /\ Before \in {1, 4}
           /\ (Before = 4) <=> link.selected = "Hybrid"
  BY SeqFacts DEF IInv, Typed, Total, Message, Before

\* What a step lines up follows what is written.
LEMMA LinedUp ==
    ASSUME IInv, out = <<>>, UNCHANGED sent, NEW S, NEW new \in Seq(S), out' = new
    PROVE  /\ IsSeq(out)'
           /\ Total = Len(sent) /\ Total' = Total + Len(new) /\ Len(new) \in Nat
           /\ \A i \in 1 .. Total : Message(i)' = Message(i)
           /\ \A i \in Total + 1 .. Total + Len(new) : Message(i)' = new[i - Total]
  <1>1. Len(sent) \in Nat /\ Len(out) = 0 /\ Len(new) \in Nat /\ IsSeq(new)
    BY ListFacts, EmptySeq, SeqIsSeq, LenProperties
  <1>2. Total = Len(sent) /\ Total' = Total + Len(new)
    BY <1>1 DEF Total
  <1>3. ASSUME NEW i \in 1 .. Total PROVE Message(i)' = Message(i)
    BY <1>1, <1>2, <1>3 DEF Message
  <1>4. ASSUME NEW i \in Total + 1 .. Total + Len(new) PROVE Message(i)' = new[i - Total]
    <2>1. ~(i <= Len(sent)) /\ i - Len(sent) = i - Total
      BY <1>1, <1>2
    <2> QED
      BY <2>1 DEF Message
  <1> QED
    BY <1>1, <1>2, <1>3, <1>4

\* To write moves the border, and adds to what is on the stream.
LEMMA Written ==
    ASSUME IInv, Write
    PROVE  /\ IsSeq(sent)' /\ IsSeq(out)'
           /\ Total' = Total /\ Len(sent') = Len(sent) + 1 /\ Len(sent) + 1 \in 1 .. Total
           /\ DOMAIN sent' = 1 .. Len(sent')
           /\ \A i \in DOMAIN sent : sent'[i] = sent[i]
           /\ sent'[Len(sent) + 1] = [m |-> Message(Len(sent) + 1), tls |-> link.tls]
           /\ \A i \in 1 .. Total : Message(i)' = Message(i)
  <1> DEFINE e == [m |-> Head(out), tls |-> link.tls]
  <1>1. out # <<>> /\ sent' = Append(sent, e) /\ out' = Tail(out)
    BY DEF Write
  <1>2. e.m = Head(out)
    OBVIOUS
  <1> HIDE DEF e
  <1>3. /\ sent \in Seq(Range(sent)) /\ out \in Seq(Range(out))
        /\ Len(sent) \in Nat /\ DOMAIN sent = 1 .. Len(sent)
    BY ListFacts, SeqFacts
  <1>4. sent \in Seq(Range(sent) \cup {e})
    BY <1>3, SeqMonotonic
  <1>5. /\ sent' \in Seq(Range(sent) \cup {e})
        /\ Len(sent') = Len(sent) + 1
        /\ \A i \in 1 .. Len(sent) : sent'[i] = sent[i]
        /\ sent'[Len(sent) + 1] = e
    BY <1>1, <1>4, AppendProperties
  <1>6. Len(out) \in Nat \ {0}
    BY <1>1, <1>3, EmptySeq
  <1>7. /\ out' \in Seq(Range(out)) /\ Len(out') = Len(out) - 1
        /\ \A i \in 1 .. Len(out') : out'[i] = out[i + 1]
        /\ Head(out) = out[1]
    BY <1>1, <1>3, <1>6, HeadTailProperties
  <1>8. IsSeq(sent)' /\ IsSeq(out)'
    BY <1>5, <1>7, SeqIsSeq
  <1>9. Total' = Total /\ Len(sent) + 1 \in 1 .. Total
    BY <1>3, <1>5, <1>6, <1>7 DEF Total
  <1>10. Message(Len(sent) + 1) = e.m
    <2>1. ~(Len(sent) + 1 <= Len(sent)) /\ (Len(sent) + 1) - Len(sent) = 1
      BY <1>3
    <2> QED
      BY <1>2, <1>7, <2>1 DEF Message
  <1>11. ASSUME NEW i \in 1 .. Total PROVE Message(i)' = Message(i)
    <2>1. CASE i \in 1 .. Len(sent)
      BY <1>3, <1>5, <2>1 DEF Message
    <2>2. CASE i = Len(sent) + 1
      <3>1. i <= Len(sent') /\ sent'[i] = e
        BY <1>3, <1>5, <2>2
      <3> QED
        BY <1>10, <2>2, <3>1 DEF Message
    <2>3. CASE i > Len(sent) + 1
      <3>1. /\ ~(i <= Len(sent)) /\ ~(i <= Len(sent'))
            /\ i - Len(sent') \in 1 .. Len(out') /\ (i - Len(sent')) + 1 = i - Len(sent)
        BY <1>3, <1>5, <1>6, <1>7, <2>3 DEF Total
      <3> QED
        BY <1>7, <3>1 DEF Message
    <2> QED
      BY <1>3, <2>1, <2>2, <2>3
  <1>12. DOMAIN sent' = 1 .. Len(sent')
    BY <1>5, LenProperties
  <1>13. sent'[Len(sent) + 1] = [m |-> Message(Len(sent) + 1), tls |-> link.tls]
    BY <1>2, <1>5, <1>10 DEF e
  <1> QED
    BY <1>3, <1>5, <1>8, <1>9, <1>11, <1>12, <1>13

-----------------------------------------------------------------------------
\* The steps that write.

\* To write a message keeps the invariant: the list stays the same.
LEMMA WriteStep ==
    ASSUME IInv, Write
    PROVE  IInv'
  <1>1. /\ IsSeq(sent)' /\ IsSeq(out)'
        /\ Total' = Total /\ Len(sent') = Len(sent) + 1 /\ Len(sent) + 1 \in 1 .. Total
        /\ DOMAIN sent' = 1 .. Len(sent')
        /\ \A i \in DOMAIN sent : sent'[i] = sent[i]
        /\ sent'[Len(sent) + 1] = [m |-> Message(Len(sent) + 1), tls |-> link.tls]
        /\ \A i \in 1 .. Total : Message(i)' = Message(i)
    BY Written
  <1>2. /\ UNCHANGED <<cfg, pc, result, link, nla, mcs, s2c>> /\ pc \notin Final
        /\ out # <<>>
    BY DEF Write
  <1>3. Len(sent) \in Nat /\ DOMAIN sent = 1 .. Len(sent) /\ Total \in Nat
    BY ListFacts
  <1>4. Before' = Before /\ Planned' = Planned /\ (\A i : ScriptAt(i)' = ScriptAt(i))
    BY <1>2 DEF Before, Planned, ScriptAt
  <1>5. sent'[Len(sent) + 1].tls = link.tls
    BY <1>1
  <1>6. Typed'
    BY <1>1, <1>2, <1>3, <1>5 DEF IInv, Typed
  <1>7. InScript'
    BY <1>1, <1>2, <1>4 DEF IInv, InScript, Final
  <1>8. Layer' /\ Nla'
    BY <1>1, <1>2, <1>3 DEF IInv, Layer, Nla, Final
  <1>9. Joined'
    <2>0. PICK b \in {1, 4} : b = Before /\ b = Before'
      BY <1>4, ListFacts
    <2>1. ASSUME NEW i \in 1 .. Total, i \in b + 4 .. b + 6
          PROVE  Message(i)'.user = mcs.user_id
      <3>1. Message(i)' = Message(i)
        BY <1>1
      <3>2. Message(i).user = mcs.user_id
        BY <2>0, <2>1 DEF IInv, Joined
      <3> QED
        BY <3>1, <3>2
    <2>2. Total >= b + 5 => {Message(b + 4)'.channel, Message(b + 5)'.channel} = {1003, mcs.user_id}
      <3> SUFFICES ASSUME Total >= b + 5
                   PROVE  {Message(b + 4)'.channel, Message(b + 5)'.channel} = {1003, mcs.user_id}
        OBVIOUS
      <3>1. b + 4 \in 1 .. Total /\ b + 5 \in 1 .. Total
        <4>1. b \in Nat /\ Total \in Nat
          BY <1>3
        <4> QED
          BY <4>1
      <3>2. {Message(b + 4).channel, Message(b + 5).channel} = {1003, mcs.user_id}
        BY <2>0 DEF IInv, Joined
      <3>3. Message(b + 4)' = Message(b + 4) /\ Message(b + 5)' = Message(b + 5)
        BY <1>1, <3>1
      <3> QED
        BY <3>2, <3>3
    <2>3. pc = "join" =>
            /\ mcs.joining \in Channels
            /\ mcs.todo \subseteq Channels \ {mcs.joining}
            /\ \A i \in 1 .. Total : i = Total => Message(i)'.channel = ChannelId(mcs, mcs.joining)
      <3> SUFFICES ASSUME pc = "join", NEW i \in 1 .. Total, i = Total
                   PROVE  Message(i)'.channel = ChannelId(mcs, mcs.joining)
        BY DEF IInv, Joined
      <3>1. Message(i)' = Message(i)
        BY <1>1
      <3>2. Message(i).channel = ChannelId(mcs, mcs.joining)
        BY DEF IInv, Joined
      <3> QED
        BY <3>1, <3>2
    <2>4. mcs' = mcs /\ pc' = pc /\ Total' = Total
      BY <1>1, <1>2
    <2>5. \A i \in 1 .. Total' : i \in b + 4 .. b + 6 => Message(i)'.user = mcs'.user_id
      BY <2>1, <2>4
    <2>6. Total' >= b + 5 =>
             {Message(b + 4)'.channel, Message(b + 5)'.channel} = {1003, mcs'.user_id}
      BY <2>2, <2>4
    <2>7. pc' = "join" =>
             /\ mcs'.joining \in Channels
             /\ mcs'.todo \subseteq Channels \ {mcs'.joining}
             /\ \A i \in 1 .. Total' : i = Total' =>
                   Message(i)'.channel = ChannelId(mcs', mcs'.joining)
      BY <2>3, <2>4 DEF ChannelId
    <2> QED
      BY <2>0, <2>5, <2>6, <2>7 DEF Joined
  <1>10. Guarded'
    <2>1. ASSUME NEW i \in DOMAIN sent'
          PROVE  sent'[i].tls <=> (i > 1 /\ link.selected \in {"SSL", "Hybrid"})
      <3>1. CASE i \in DOMAIN sent
        BY <1>1, <3>1 DEF IInv, Guarded
      <3>2. CASE i = Len(sent) + 1
        <4>1. sent'[i].tls = link.tls
          BY <1>5, <3>2
        <4>2. CASE pc \in {"confirm", "tls"}
          <5>1. Total = 1 /\ ~link.tls
            BY <1>2, <4>2 DEF IInv, InScript, Layer, Planned, Final
          <5> QED
            BY <1>1, <1>3, <3>2, <4>1, <5>1
        <4>3. CASE pc \notin {"confirm", "tls"}
          BY <1>2, <1>3, <3>2, <4>1, <4>3 DEF IInv, Layer, Final
        <4> QED
          BY <4>2, <4>3
      <3> QED
        BY <1>1, <1>3, <3>1, <3>2
    <2>2. \A i \in 1 .. Total' :
             /\ i = Before + 6 => Message(i)'.credentials = InfoCredentials
             /\ i = 4 /\ Before = 4 => Message(i)'.sealed.payload.data = <<TsCredentials>>
      BY <1>1 DEF IInv, Guarded
    <2> QED
      BY <1>2, <1>4, <2>1, <2>2 DEF Guarded, InfoCredentials, TsCredentials
  <1> QED
    BY <1>6, <1>7, <1>8, <1>9, <1>10 DEF IInv

\* A step that gives up leaves the messages as they are.
LEMMA GivenUp ==
    ASSUME IInv, pc \in Steps, UNCHANGED <<cfg, link, mcs, out, sent>>,
           nla' \in {NlaIdle, NlaAsked, NlaHeard, NlaDone},
           \/ pc' = "failed" /\ result' \notin {"none", "Ok"}
           \/ pc' = "panicked" /\ result' = result
    PROVE  IInv'
  <1>1. pc' \in {"failed", "panicked"}
    OBVIOUS
  <1>2. Total' = Total /\ Before' = Before /\ \A i : Message(i)' = Message(i) /\ ScriptAt(i)' = ScriptAt(i)
    BY DEF Total, Before, Message, ScriptAt
  <1>3. Typed'
    BY DEF IInv, Typed, Steps, Final
  <1>4. InScript'
    BY <1>1, <1>2 DEF IInv, InScript
  <1>5. Layer' /\ Nla'
    BY <1>1 DEF Layer, Nla, Final
  <1>6. Joined'
    BY <1>1, <1>2 DEF IInv, Joined
  <1>7. Guarded'
    BY <1>2 DEF IInv, Guarded, InfoCredentials, TsCredentials
  <1> QED
    BY <1>3, <1>4, <1>5, <1>6, <1>7 DEF IInv

\* A step that lines up the next messages of the script, once the protocol is
\* selected.
LEMMA Advance ==
    ASSUME IInv, out = <<>>, UNCHANGED <<cfg, sent>>, link'.selected = link.selected,
           NEW S, NEW new \in Seq(S), out' = new,
           pc' \in Steps \cup {"connected"}, pc' = "connected" => new = <<>>,
           Total + Len(new) = Planned',
           \A k \in 1 .. Len(new) :
              /\ new[k].t = ScriptAt(Total + k)
              /\ Total + k = Before + 6 => new[k].credentials = InfoCredentials
              /\ Total + k = 4 /\ Before = 4 => new[k].sealed.payload.data = <<TsCredentials>>
    PROVE  InScript' /\ Guarded' /\ IsSeq(out)' /\ \A i \in 1 .. Total : Message(i)' = Message(i)
  <1>1. /\ IsSeq(out)'
        /\ Total' = Total + Len(new) /\ Len(new) \in Nat
        /\ \A i \in 1 .. Total : Message(i)' = Message(i)
        /\ \A i \in Total + 1 .. Total + Len(new) : Message(i)' = new[i - Total]
    BY LinedUp
  <1>2. Before' = Before /\ InfoCredentials' = InfoCredentials /\ TsCredentials' = TsCredentials
        /\ \A i : ScriptAt(i)' = ScriptAt(i)
    BY DEF Before, InfoCredentials, TsCredentials, ScriptAt
  <1>3. Total \in Nat /\ Before \in {1, 4}
    BY ListFacts
  <1>4. ASSUME NEW i \in 1 .. Total'
        PROVE  /\ Message(i)'.t = ScriptAt(i)
               /\ i = Before + 6 => Message(i)'.credentials = InfoCredentials
               /\ i = 4 /\ Before = 4 => Message(i)'.sealed.payload.data = <<TsCredentials>>
    <2>1. CASE i \in 1 .. Total
      BY <1>1, <2>1 DEF IInv, InScript, Guarded
    <2>2. CASE i \in Total + 1 .. Total + Len(new)
      <3>1. PICK k \in 1 .. Len(new) : k = i - Total /\ i = Total + k
        BY <1>1, <1>3, <2>2
      <3>2. Message(i)' = new[k]
        BY <1>1, <2>2, <3>1
      <3> QED
        BY <3>1, <3>2
    <2> QED
      BY <1>1, <1>3, <2>1, <2>2
  <1>5. Total' <= Before + 6
    <2>1. Total' = Planned'
      BY <1>1
    <2>2. Planned' \in {1, 2, 3, Before + 1, Before + 3, Before + 4, Before + 5, Before + 6}
      BY <1>2 DEF Planned
    <2> QED
      BY <1>3, <2>1, <2>2
  <1>6. InScript'
    BY <1>1, <1>2, <1>4, <1>5 DEF InScript
  <1>7. Guarded'
    BY <1>2, <1>4 DEF IInv, Guarded
  <1> QED
    BY <1>1, <1>6, <1>7

\* Until the server has answered the attach request, no channel is asked for.
Early == pc \in {"confirm", "tls", "challenge", "validate", "response", "attach"}
\* As long as no channel was asked for there is nothing to say of the channels.
LEMMA EarlyJoined ==
    Early /\ InScript => Joined
  <1> SUFFICES ASSUME Early, InScript PROVE Joined
    OBVIOUS
  <1>1. pc # "join" /\ Total \in {1, 2, 3, Before + 1, Before + 3} /\ Before \in {1, 4}
    BY DEF Early, InScript, Planned, Before
  <1>2. Before \in Nat /\ Total \in Nat /\ Total < Before + 4
    BY <1>1
  <1>3. \A i \in 1 .. Total : i \notin Before + 4 .. Before + 6
    BY <1>2
  <1>4. ~(Total >= Before + 5)
    BY <1>2
  <1> QED
    BY <1>1, <1>3, <1>4 DEF Joined

\* A step may line up one message,
LEMMA OneMessage ==
    ASSUME NEW a
    PROVE  <<a>> \in Seq({a}) /\ Len(<<a>>) = 1 /\ <<a>>[1] = a
  OBVIOUS

\* or two.
LEMMA TwoMessages ==
    ASSUME NEW a, NEW b
    PROVE  /\ <<a, b>> \in Seq({a, b}) /\ Len(<<a, b>>) = 2
           /\ <<a, b>>[1] = a /\ <<a, b>>[2] = b
  OBVIOUS

\* None of the errors is the value that stands for no error.
LEMMA ErrorKinds ==
    /\ Unparsed \notin {"none", "Ok"}
    /\ EofKinds \cap {"none", "Ok"} = {}
    /\ \A m : NegotiationError(m) \notin {"none", "Ok"}
    /\ \A m : SecError(m) # "none"
  <1>1. Unparsed \notin {"none", "Ok"}
    BY DEF Unparsed
  <1>2. EofKinds \cap {"none", "Ok"} = {}
    BY DEF EofKinds
  <1>3. ASSUME NEW m PROVE NegotiationError(m) \notin {"none", "Ok"}
    BY DEF NegotiationError
  <1>4. ASSUME NEW m PROVE SecError(m) # "none"
    <2>1. AlertError(m) # "none"
      BY DEF AlertError
    <2> QED
      BY <2>1 DEF SecError, LicenseError
  <1> QED
    BY <1>1, <1>2, <1>3, <1>4

\* A write on a dead stream gives up.
LEMMA WriteFailsStep ==
    ASSUME IInv, WriteFails
    PROVE  IInv'
  <1>1. pc \in Steps /\ nla \in {NlaIdle, NlaAsked, NlaHeard, NlaDone}
    BY DEF IInv, Typed, Nla, WriteFails
  <1>2. /\ UNCHANGED <<cfg, link, mcs, out, sent, nla>>
        /\ pc' = "failed" /\ result' \notin {"none", "Ok"}
    BY DEF WriteFails, Fail
  <1> QED
    BY <1>1, <1>2, GivenUp

\* A failed handshake of TLS gives up.
LEMMA SslFailsStep ==
    ASSUME IInv, SslFails
    PROVE  IInv'
  <1>1. pc \in Steps /\ nla \in {NlaIdle, NlaAsked, NlaHeard, NlaDone}
    BY DEF IInv, Nla, SslFails, Steps
  <1>2. /\ UNCHANGED <<cfg, link, mcs, out, sent, nla>>
        /\ pc' = "failed" /\ result' \notin {"none", "Ok"}
    BY DEF SslFails, Fail
  <1> QED
    BY <1>1, <1>2, GivenUp

\* The end of the stream gives up.
LEMMA ReadEofStep ==
    ASSUME IInv, ReadEof
    PROVE  IInv'
  <1>1. pc \in Steps /\ nla \in {NlaIdle, NlaAsked, NlaHeard, NlaDone}
    BY DEF IInv, Nla, ReadEof, Expected, Steps
  <1>2. UNCHANGED <<cfg, link, mcs, out, sent, nla>> /\ pc' = "failed" /\ result' \in EofKinds
    BY DEF ReadEof, Fail
  <1> QED
    BY <1>1, <1>2, GivenUp, ErrorKinds

\* A message that does not parse gives up.
LEMMA ReadOtherStep ==
    ASSUME IInv, ReadOther
    PROVE  IInv'
  <1>1. pc \in Steps /\ nla \in {NlaIdle, NlaAsked, NlaHeard, NlaDone}
    BY DEF IInv, Nla, ReadOther, Expected, Steps
  <1>2. /\ UNCHANGED <<cfg, link, mcs, out, sent, nla>>
        /\ pc' = "failed" /\ result' = Unparsed
    BY DEF ReadOther, Fail, Receive
  <1> QED
    BY <1>1, <1>2, GivenUp, ErrorKinds

\* The loss of the stream leaves the list alone.
LEMMA LinkDropStep ==
    ASSUME IInv, LinkDrop
    PROVE  IInv'
  <1>1. /\ UNCHANGED <<cfg, pc, result, nla, mcs, out, sent>>
        /\ link' \in [selected : Handled \cup {"none"}, tls : BOOLEAN, up : BOOLEAN]
        /\ link'.selected = link.selected /\ link'.tls = link.tls
    BY DEF LinkDrop, IInv, Typed
  <1>2. /\ Total' = Total /\ Before' = Before /\ Planned' = Planned
        /\ \A i : Message(i)' = Message(i) /\ ScriptAt(i)' = ScriptAt(i)
    BY <1>1 DEF Total, Before, Planned, Message, ScriptAt
  <1>3. Typed'
    BY <1>1 DEF IInv, Typed
  <1>4. InScript'
    BY <1>1, <1>2 DEF IInv, InScript
  <1>5. Layer' /\ Nla'
    BY <1>1 DEF IInv, Layer, Nla
  <1>6. Joined'
    BY <1>1, <1>2 DEF IInv, Joined
  <1>7. Guarded'
    BY <1>1, <1>2 DEF IInv, Guarded, InfoCredentials, TsCredentials
  <1> QED
    BY <1>3, <1>4, <1>5, <1>6, <1>7 DEF IInv

\* Link::start_ssl lines up the first message on TLS.
LEMMA StartSslStep ==
    ASSUME IInv, StartSsl
    PROVE  IInv'
  <1>1. /\ pc = "tls" /\ out = <<>> /\ UNCHANGED <<cfg, sent, nla, mcs, result>>
        /\ link' \in [selected : Handled \cup {"none"}, tls : BOOLEAN, up : BOOLEAN]
        /\ link'.selected = link.selected /\ link'.tls
        /\ link.selected \in {"SSL", "Hybrid"}
    BY DEF StartSsl, IInv, Typed, Layer, Goto
  <1>0. PICK new : out' = new
    OBVIOUS
  <1>2. /\ out' = new
        /\ \/ new = <<Negotiate>> /\ pc' = "challenge" /\ link.selected = "Hybrid"
           \/ /\ new = <<ConnectInitial("SSL")>> /\ pc' = "response"
              /\ link.selected # "Hybrid"
    BY <1>0 DEF StartSsl, Goto
  <1>3. new \in Seq({new[1]}) /\ Len(new) = 1
    <2>1. PICK a : new = <<a>>
      BY <1>2
    <2>2. a = new[1]
      BY <2>1, OneMessage
    <2>3. <<a>> \in Seq({a}) /\ Len(<<a>>) = 1
      BY OneMessage
    <2> QED
      BY <2>1, <2>2, <2>3
  <1>4. Total = 1 /\ Len(sent) = 1
    <2>1. Total = 1 /\ Len(sent) \in Nat
      BY <1>1, ListFacts DEF IInv, InScript, Planned
    <2> QED
      BY <1>1, <2>1, EmptySeq DEF Total
  <1>5. /\ pc' \in Steps /\ Total + Len(new) = Planned'
        /\ Before = (IF link.selected = "Hybrid" THEN 4 ELSE 1)
    BY <1>1, <1>2, <1>3, <1>4 DEF Steps, Planned, Before
  <1>6. ASSUME NEW k \in 1 .. Len(new)
        PROVE  /\ new[k].t = ScriptAt(Total + k)
               /\ Total + k # Before + 6 /\ ~(Total + k = 4 /\ Before = 4)
    <2>1. k = 1 /\ Total + k = 2
      BY <1>3, <1>4
    <2>2. CASE link.selected = "Hybrid"
      BY <1>2, <1>5, <2>1, <2>2, OneMessage DEF ScriptAt, Negotiate
    <2>3. CASE link.selected # "Hybrid"
      BY <1>2, <1>5, <2>1, <2>3, OneMessage DEF ScriptAt, ConnectInitial
    <2> QED
      BY <2>2, <2>3
  <1>7. InScript' /\ Guarded' /\ IsSeq(out)'
    BY <1>1, <1>2, <1>3, <1>5, <1>6, Advance
  <1>8. Typed'
    BY <1>1, <1>2, <1>7 DEF IInv, Typed, Steps, Final
  <1>9. Layer' /\ Nla'
    BY <1>1, <1>2, <1>4 DEF IInv, Layer, Nla, Final
  <1>10. Early'
    BY <1>2 DEF Early
  <1>11. Joined'
    BY <1>7, <1>10, EarlyJoined, PTL
  <1> QED
    BY <1>7, <1>8, <1>9, <1>11 DEF IInv

-----------------------------------------------------------------------------
\* The steps that read.

\* The places of the messages in the script.
LEMMA ScriptFacts ==
    /\ ScriptAt(1) = "Request"
    /\ Before = 4 => ScriptAt(2) = "Negotiate" /\ ScriptAt(3) = "Authenticate"
                     /\ ScriptAt(4) = "Credentials"
    /\ ScriptAt(Before + 1) = "ConnectInitial" /\ ScriptAt(Before + 2) = "Erect"
    /\ ScriptAt(Before + 3) = "AttachRequest" /\ ScriptAt(Before + 4) = "JoinRequest"
    /\ ScriptAt(Before + 5) = "JoinRequest" /\ ScriptAt(Before + 6) = "Info"
  <1>1. CASE Before = 1
    BY <1>1 DEF ScriptAt
  <1>2. CASE Before = 4
    BY <1>2 DEF ScriptAt
  <1> QED
    BY <1>1, <1>2 DEF Before

\* A step that reads has written everything before.
LEMMA Reading ==
    ASSUME IInv, NEW step \in DOMAIN Expected, NEW type, Receive(step, type)
    PROVE  /\ step \in Steps /\ pc = step /\ out = <<>> /\ UNCHANGED <<cfg, sent>>
           /\ Total = Planned /\ Total = Len(sent) /\ Total \in Nat /\ Total > 0
           /\ nla \in {NlaIdle, NlaAsked, NlaHeard, NlaDone}
           /\ s2c # <<>>
  <1>1. /\ step \in Steps /\ step \notin Final /\ pc = step /\ out = <<>>
        /\ UNCHANGED <<cfg, sent>> /\ s2c # <<>>
    BY DEF Receive, Waits, Expected, Steps, Final
  <1>2. Total = Planned /\ nla \in {NlaIdle, NlaAsked, NlaHeard, NlaDone}
    BY <1>1 DEF IInv, InScript, Nla, Final
  <1>3. Total = Len(sent) /\ Total \in Nat
    BY <1>1, ListFacts, EmptySeq DEF Total
  <1>4. Total > 0
    BY <1>1, <1>2, <1>3, ListFacts DEF Planned, Steps
  <1> QED
    BY <1>1, <1>2, <1>3, <1>4

\* x224::Client::connect sets the protocol, and with it the length of the script.
LEMMA ReadConnectionConfirmStep ==
    ASSUME IInv, ReadConnectionConfirm
    PROVE  IInv'
  <1>1. /\ pc = "confirm" /\ out = <<>> /\ UNCHANGED <<cfg, sent, nla, mcs>>
        /\ Total = 1 /\ Len(sent) = 1
        /\ nla \in {NlaIdle, NlaAsked, NlaHeard, NlaDone}
        /\ link.selected = "none" /\ ~link.tls
    <2>1. "confirm" \in DOMAIN Expected
      BY DEF Expected
    <2> QED
      BY <2>1, Reading DEF ReadConnectionConfirm, Planned, IInv, Layer
  <1>2. CASE ~Accepts(msg)
    BY <1>1, <1>2, GivenUp, ErrorKinds DEF ReadConnectionConfirm, Fail, Steps
  <1>3. CASE Accepts(msg)
    <2>0. PICK new : out' = new
      OBVIOUS
    <2>1. /\ link' = [link EXCEPT !.selected = msg.protocol] /\ msg.protocol \in Handled
          /\ UNCHANGED result
          /\ \/ /\ msg.protocol = "RDP" /\ pc' = "response" /\ new = <<ConnectInitial("RDP")>>
             \/ /\ msg.protocol \in {"SSL", "Hybrid"} /\ pc' = "tls" /\ new = <<>>
      BY <1>3, <2>0 DEF ReadConnectionConfirm, Accepts, Goto, Handled
    <2>2. /\ link' \in [selected : Handled \cup {"none"}, tls : BOOLEAN, up : BOOLEAN]
          /\ link'.selected = msg.protocol /\ ~link'.tls
      BY <1>1, <2>1 DEF IInv, Typed
    <2>3. /\ new \in Seq({ConnectInitial("RDP")})
          /\ \/ pc' = "tls" /\ Len(new) = 0
             \/ pc' = "response" /\ Len(new) = 1 /\ new[1].t = "ConnectInitial"
      <3>1. ConnectInitial("RDP").t = "ConnectInitial"
        BY DEF ConnectInitial
      <3>2. <<>> \in Seq({ConnectInitial("RDP")}) /\ Len(<<>>) = 0
        BY EmptySeq
      <3> QED
        BY <2>1, <3>1, <3>2, OneMessage
    <2>4. /\ IsSeq(out)'
          /\ Total' = 1 + Len(new) /\ Len(new) \in Nat
          /\ \A i \in 1 .. 1 : Message(i)' = Message(i)
          /\ \A i \in 2 .. 1 + Len(new) : Message(i)' = new[i - 1]
      BY <1>1, <2>0, <2>3, LinedUp
    <2>5. Before' \in {1, 4} /\ (pc' = "response" => Before' = 1)
      BY <2>1, <2>2 DEF Before
    <2>6. ASSUME NEW i \in 1 .. 1
          PROVE  Message(i)'.t = "Request"
      <3>1. Message(i)' = Message(i)
        BY <2>4
      <3>2. Message(i).t = ScriptAt(i)
        BY <1>1 DEF IInv, InScript
      <3>3. i = 1
        OBVIOUS
      <3>4. ScriptAt(i) = "Request"
        BY <3>3 DEF ScriptAt, Before
      <3> QED
        BY <3>1, <3>2, <3>4
    <2>7. InScript'
      <3>0. (pc' = "tls" /\ Total' = 1) \/ (pc' = "response" /\ Total' = 2)
        <4>1. CASE Len(new) = 0 /\ pc' = "tls"
          <5>1. Total' = 1 + 0 /\ 1 + 0 = 1
            BY <2>4, <4>1
          <5> QED
            BY <4>1, <5>1
        <4>2. CASE Len(new) = 1 /\ pc' = "response"
          <5>1. Total' = 1 + 1 /\ 1 + 1 = 2
            BY <2>4, <4>2
          <5> QED
            BY <4>2, <5>1
        <4> QED
          BY <2>3, <4>1, <4>2
      <3>1. Total' = Planned' /\ Total' <= Before' + 6
        <4>1. Planned' = IF pc' = "tls" THEN 1 ELSE Before' + 1
          BY <3>0 DEF Planned
        <4> QED
          BY <2>5, <3>0, <4>1
      <3>2. ASSUME NEW i \in 1 .. Total' PROVE Message(i)'.t = ScriptAt(i)'
        <4>1. CASE i = 1
          <5>1. i \in 1 .. 1
            BY <4>1
          <5>2. ScriptAt(i)' = "Request"
            BY <4>1 DEF ScriptAt, Before
          <5> QED
            BY <2>6, <5>1, <5>2
        <4>2. CASE i # 1
          <5>1. i = 2 /\ pc' = "response" /\ Before' = 1
            BY <2>3, <2>4, <2>5, <4>2
          <5>2. Message(i)'.t = "ConnectInitial"
            BY <2>3, <2>4, <5>1
          <5> QED
            BY <5>1, <5>2 DEF ScriptAt
        <4> QED
          BY <4>1, <4>2
      <3> QED
        BY <2>1, <3>1, <3>2 DEF InScript
    <2>8. Typed'
      BY <1>1, <2>1, <2>2, <2>4 DEF IInv, Typed, Steps, Final
    <2>9. Layer' /\ Nla'
      BY <1>1, <2>1, <2>0, <2>2 DEF Layer, Nla, Final
    <2>10. Early'
      BY <2>1 DEF Early
    <2>11. Joined'
      BY <2>7, <2>10, EarlyJoined, PTL
    <2>12. Guarded'
      <3>1. \A i \in DOMAIN sent' :
               sent'[i].tls <=> (i > 1 /\ link'.selected \in {"SSL", "Hybrid"})
        <4>1. DOMAIN sent = 1 .. 1 /\ \A i \in DOMAIN sent : sent[i].tls <=> FALSE
          BY <1>1, ListFacts DEF IInv, Guarded
        <4> QED
          BY <1>1, <4>1
      <3>2. ASSUME NEW i \in 1 .. Total' PROVE i # Before' + 6 /\ i # 4
        <4>1. Total' \in Nat /\ Total' <= 2
          BY <2>3, <2>4
        <4>3. i <= 2 /\ i \in Nat
          BY <4>1
        <4>4. PICK b \in {1, 4} : Before' = b
          BY <2>5
        <4>5. i # b + 6 /\ i # 4
          BY <4>1, <4>3
        <4> QED
          BY <4>4, <4>5
      <3> QED
        BY <3>1, <3>2 DEF Guarded
    <2> QED
      BY <2>7, <2>8, <2>9, <2>11, <2>12 DEF IInv
  <1> QED
    BY <1>2, <1>3

\* The first answer of CredSSP lines up the authentication.
LEMMA ReadChallengeStep ==
    ASSUME IInv, ReadChallenge
    PROVE  IInv'
  <1>1. /\ pc = "challenge" /\ out = <<>> /\ UNCHANGED <<cfg, sent, link, mcs>>
        /\ Total = 2 /\ Len(sent) = 2 /\ Before = 4
        /\ nla \in {NlaIdle, NlaAsked, NlaHeard, NlaDone}
    <2>1. "challenge" \in DOMAIN Expected
      BY DEF Expected
    <2> QED
      BY <2>1, Reading DEF ReadChallenge, Planned, IInv, Layer, Before
  <1>2. CASE msg.form # "good"
    <2>1. \A form \in DOMAIN ChallengeError : ChallengeError[form] \notin {"none", "Ok"}
      BY DEF ChallengeError
    <2>2. \/ pc' = "failed" /\ result' \notin {"none", "Ok"}
          \/ pc' = "panicked" /\ result' = result
      BY <1>2, <2>1 DEF ReadChallenge, Fail, Panic
    <2>3. UNCHANGED nla /\ UNCHANGED out
      BY <1>2 DEF ReadChallenge, Fail, Panic
    <2> QED
      BY <1>1, <2>2, <2>3, GivenUp DEF Steps
  <1>3. CASE msg.form = "good"
    <2>1. PICK a : /\ out' = <<a>> /\ a.t = "Authenticate"
                   /\ nla' = NlaAsked /\ pc' = "validate" /\ UNCHANGED result
      BY <1>3 DEF ReadChallenge, Goto, NlaAsked
    <2>2. PICK new : new = <<a>>
      OBVIOUS
    <2>3. new \in Seq({a}) /\ Len(new) = 1 /\ new[1] = a
      BY <2>2, OneMessage
    <2>4. pc' \in Steps /\ Total + Len(new) = Planned'
      BY <1>1, <2>1, <2>3 DEF Steps, Planned
    <2>5. ASSUME NEW k \in 1 .. Len(new)
          PROVE  /\ new[k].t = ScriptAt(Total + k)
                 /\ Total + k # Before + 6 /\ ~(Total + k = 4 /\ Before = 4)
      <3>1. k = 1 /\ Total + k = 3
        BY <1>1, <2>3
      <3> QED
        BY <1>1, <2>1, <2>3, <3>1, ScriptFacts
    <2>6. InScript' /\ Guarded' /\ IsSeq(out)'
      BY <1>1, <2>1, <2>2, <2>3, <2>4, <2>5, Advance
    <2>7. Typed'
      BY <1>1, <2>1, <2>6 DEF IInv, Typed, Steps, Final
    <2>8. Layer' /\ Nla'
      BY <1>1, <2>1 DEF IInv, Layer, Nla, Final
    <2>9. Early'
      BY <2>1 DEF Early
    <2>10. Joined'
      BY <2>6, <2>9, EarlyJoined, PTL
    <2> QED
      BY <2>6, <2>7, <2>8, <2>10 DEF IInv
  <1> QED
    BY <1>2, <1>3

\* The second lines up the credentials and the connect request of MCS.
LEMMA ReadValidateStep ==
    ASSUME IInv, ReadValidate
    PROVE  IInv'
  <1>1. /\ pc = "validate" /\ out = <<>> /\ UNCHANGED <<cfg, sent, link, mcs>>
        /\ Total = 3 /\ Len(sent) = 3 /\ Before = 4 /\ nla = NlaAsked
    <2>1. "validate" \in DOMAIN Expected
      BY DEF Expected
    <2> QED
      BY <2>1, Reading DEF ReadValidate, Planned, IInv, Layer, Nla, Before
  <1>2. CASE ~Verified(nla, msg.sealed) \/ Unwrapped(nla, msg.sealed) # PubKeyPlusOne
    <2>1. nla' = NlaHeard /\ pc' = "failed" /\ result' \notin {"none", "Ok"} /\ UNCHANGED out
      BY <1>1, <1>2 DEF ReadValidate, Fail, NlaHeard
    <2> QED
      BY <1>1, <2>1, GivenUp DEF Steps
  <1>3. CASE Verified(nla, msg.sealed) /\ Unwrapped(nla, msg.sealed) = PubKeyPlusOne
    <2> DEFINE c == [t |-> "Credentials", sealed |-> Wrapped(NlaHeard, <<TsCredentials>>)]
               d == ConnectInitial("Hybrid")
    <2>1. /\ out' = <<c, d>> /\ nla' = NlaDone /\ pc' = "response" /\ UNCHANGED result
      BY <1>1, <1>3 DEF ReadValidate, Goto, NlaHeard, NlaDone
    <2>2. /\ c.t = "Credentials" /\ c.sealed.payload.data = <<TsCredentials>>
          /\ d.t = "ConnectInitial"
      BY DEF Wrapped, Process, ConnectInitial
    <2> HIDE DEF c, d
    <2>3. PICK a, b, new : a = c /\ b = d /\ new = <<a, b>>
      OBVIOUS
    <2>4. /\ new \in Seq({a, b}) /\ Len(new) = 2 /\ new[1] = c /\ new[2] = d
          /\ out' = new
      BY <2>1, <2>3, TwoMessages
    <2>5. pc' \in Steps /\ Total + Len(new) = Planned'
      <3>1. Before' = 4
        BY <1>1 DEF Before
      <3> QED
        BY <1>1, <2>1, <2>4, <3>1 DEF Steps, Planned
    <2>6. ASSUME NEW k \in 1 .. Len(new)
          PROVE  /\ new[k].t = ScriptAt(Total + k)
                 /\ Total + k # Before + 6
                 /\ Total + k = 4 /\ Before = 4 => new[k].sealed.payload.data = <<TsCredentials>>
      <3>1. CASE k = 1
        BY <1>1, <2>2, <2>4, <3>1, ScriptFacts
      <3>2. CASE k = 2
        BY <1>1, <2>2, <2>4, <3>2, ScriptFacts
      <3> QED
        BY <2>4, <3>1, <3>2
    <2>7. InScript' /\ Guarded' /\ IsSeq(out)'
      BY <1>1, <2>1, <2>4, <2>5, <2>6, Advance
    <2>8. Typed'
      BY <1>1, <2>1, <2>7 DEF IInv, Typed, Steps, Final
    <2>9. Layer' /\ Nla'
      BY <1>1, <2>1 DEF IInv, Layer, Nla, Final
    <2>10. Early'
      BY <2>1 DEF Early
    <2>11. Joined'
      BY <2>7, <2>10, EarlyJoined, PTL
    <2> QED
      BY <2>7, <2>8, <2>9, <2>11 DEF IInv
  <1> QED
    BY <1>2, <1>3

\* The connect response lines up two messages.
LEMMA ReadConnectResponseStep ==
    ASSUME IInv, ReadConnectResponse
    PROVE  IInv'
  <1>1. /\ pc = "response" /\ out = <<>> /\ UNCHANGED <<cfg, sent, link, nla>>
        /\ Total = Before + 1 /\ Len(sent) > 0 /\ Before \in {1, 4}
        /\ nla \in {NlaIdle, NlaAsked, NlaHeard, NlaDone}
    <2>1. "response" \in DOMAIN Expected
      BY DEF Expected
    <2> QED
      BY <2>1, Reading, ListFacts DEF ReadConnectResponse, Planned
  <1>2. CASE msg.blocks # {"core", "net"}
    <2>1. /\ UNCHANGED <<out, mcs>>
          /\ \/ pc' = "failed" /\ result' \notin {"none", "Ok"}
             \/ pc' = "panicked" /\ result' = result
      BY <1>2 DEF ReadConnectResponse, Fail, Panic
    <2> QED
      BY <1>1, <2>1, GivenUp DEF Steps
  <1>3. CASE msg.blocks = {"core", "net"}
    <2>1. /\ out' = <<ErectDomain, AttachUser>> /\ pc' = "attach" /\ UNCHANGED result
          /\ mcs' = [mcs EXCEPT !.version = VersionFrom(msg.version)]
      BY <1>3 DEF ReadConnectResponse, Goto
    <2>2. ErectDomain.t = "Erect" /\ AttachUser.t = "AttachRequest"
      BY DEF ErectDomain, AttachUser
    <2>3. PICK new : new = <<ErectDomain, AttachUser>>
      OBVIOUS
    <2>4. /\ new \in Seq({ErectDomain, AttachUser}) /\ Len(new) = 2 /\ out' = new
          /\ new[1] = ErectDomain /\ new[2] = AttachUser
      BY <2>1, <2>3, TwoMessages
    <2>5. pc' \in Steps /\ Total + Len(new) = Planned'
      <3>1. Planned' = Before + 3
        BY <1>1, <2>1 DEF Before, Planned
      <3> QED
        BY <1>1, <2>1, <2>4, <3>1 DEF Steps
    <2>6. ASSUME NEW k \in 1 .. Len(new)
          PROVE  /\ new[k].t = ScriptAt(Total + k)
                 /\ Total + k # Before + 6 /\ ~(Total + k = 4 /\ Before = 4)
      <3>1. CASE k = 1
        <4>1. Total + k = Before + 2
          BY <1>1, <3>1
        <4>2. new[k].t = "Erect"
          BY <2>2, <2>4, <3>1
        <4> QED
          BY <1>1, <4>1, <4>2, ScriptFacts
      <3>2. CASE k = 2
        <4>1. Total + k = Before + 3
          BY <1>1, <3>2
        <4>2. new[k].t = "AttachRequest"
          BY <2>2, <2>4, <3>2
        <4> QED
          BY <1>1, <4>1, <4>2, ScriptFacts
      <3> QED
        BY <2>4, <3>1, <3>2
    <2>7. InScript' /\ Guarded' /\ IsSeq(out)'
      BY <1>1, <2>1, <2>4, <2>5, <2>6, Advance
    <2>8. Typed'
      <3>1. mcs' \in [user_id : 0 .. (U16 - 1), joining : Channels \cup {"none"}, todo : SUBSET Channels,
                      version : {"none", "RdpVersion5plus", "RdpVersion", "Unknown"}]
        BY <2>1 DEF IInv, Typed, VersionFrom
      <3> QED
        BY <1>1, <2>1, <2>7, <3>1 DEF IInv, Typed, Steps, Final
    <2>9. Layer' /\ Nla'
      BY <1>1, <2>1 DEF IInv, Layer, Nla, Final
    <2>10. Early'
      BY <2>1 DEF Early
    <2>11. Joined'
      BY <2>7, <2>10, EarlyJoined, PTL
    <2> QED
      BY <2>7, <2>8, <2>9, <2>11 DEF IInv
  <1> QED
    BY <1>2, <1>3

\* The user id is set before the first channel is asked for.
LEMMA ReadAttachUserConfirmStep ==
    ASSUME IInv, Attached, ReadAttachUserConfirm
    PROVE  IInv'
  <1>1. /\ pc = "attach" /\ out = <<>> /\ UNCHANGED <<cfg, sent, link, nla>>
        /\ Total = Before + 3 /\ Len(sent) > 0 /\ Before \in {1, 4}
        /\ nla \in {NlaIdle, NlaAsked, NlaHeard, NlaDone}
    <2>1. "attach" \in DOMAIN Expected
      BY DEF Expected
    <2> QED
      BY <2>1, Reading, ListFacts DEF ReadAttachUserConfirm, Planned
  <1>2. CASE \/ Fail("RejectedByServer") /\ UNCHANGED mcs
             \/ Panic /\ UNCHANGED mcs
    BY <1>1, <1>2, GivenUp DEF Fail, Panic, Steps
  <1>3. CASE JoinNext([mcs EXCEPT !.user_id = (msg.initiator + 1001) % U16], Channels)
    <2>1. (msg.initiator + 1001) % U16 \in 0 .. (U16 - 1)
      <3>1. s2c # <<>> /\ msg.t = "Attach"
        BY DEF ReadAttachUserConfirm, Receive
      <3>2. s2c \in Seq(Range(s2c)) /\ Len(s2c) # 0 /\ Len(s2c) \in Nat /\ DOMAIN s2c = 1 .. Len(s2c)
        BY <3>1, EmptySeq, SeqFacts DEF Attached
      <3>3. msg = s2c[1] /\ 1 \in DOMAIN s2c
        BY <3>1, <3>2, HeadTailProperties DEF msg
      <3>4. msg.initiator \in Nat
        BY <3>1, <3>3 DEF Attached
      <3>5. PICK k \in Nat : k = msg.initiator + 1001
        BY <3>4
      <3>6. U16 \in Nat \ {0}
        BY Width
      <3>7. k % U16 \in 0 .. (U16 - 1)
        BY <3>6, Remainder
      <3> QED
        BY <3>5, <3>7
    <2>2. PICK u, m : u = (msg.initiator + 1001) % U16 /\ m = [mcs EXCEPT !.user_id = u]
      BY ZenonT(40)
    <2>3. /\ u \in 0 .. (U16 - 1)
          /\ m \in [user_id : 0 .. (U16 - 1), joining : Channels \cup {"none"}, todo : SUBSET Channels,
                    version : {"none", "RdpVersion5plus", "RdpVersion", "Unknown"}]
          /\ m.user_id = u
      BY <2>1, <2>2 DEF IInv, Typed
    <2>0. PICK name \in Channels :
             /\ mcs' = [m EXCEPT !.joining = name, !.todo = Channels \ {name}]
             /\ Goto("join", <<Join(u, ChannelId(m, name))>>)
      <3>1. JoinNext(m, Channels)
        BY <1>3, <2>2
      <3> QED
        BY <2>3, <3>1 DEF JoinNext
    <2>4. /\ mcs' \in [user_id : 0 .. (U16 - 1), joining : Channels \cup {"none"}, todo : SUBSET Channels,
                        version : {"none", "RdpVersion5plus", "RdpVersion", "Unknown"}]
          /\ mcs'.user_id = u /\ mcs'.joining = name /\ mcs'.todo = Channels \ {name}
      BY <2>0, <2>3
    <2>5. PICK id : /\ id = ChannelId(m, name)
                    /\ id = IF name = "global" THEN 1003 ELSE u
      BY <2>3 DEF ChannelId
    <2>6. out' = <<Join(u, id)>> /\ pc' = "join" /\ UNCHANGED result
      BY <2>0, <2>5 DEF Goto
    <2>7. /\ Join(u, id).t = "JoinRequest" /\ Join(u, id).user = u /\ Join(u, id).channel = id
      BY DEF Join
    <2>8. PICK a, new : a = Join(u, id) /\ new = <<a>>
      OBVIOUS
    <2>9. new \in Seq({a}) /\ Len(new) = 1 /\ out' = new /\ new[1] = a
      BY <2>6, <2>8, OneMessage
    <2>10. mcs'.todo # {}
      BY <2>4 DEF Channels
    <2>11. Planned' = Before + 4 /\ Before' = Before
      BY <1>1, <2>6, <2>10 DEF Planned, Before
    <2>12. Total + 1 = Before + 4 /\ Total \in Nat
      BY <1>1, ListFacts
    <2>13. ASSUME NEW k \in 1 .. Len(new)
           PROVE  /\ new[k].t = ScriptAt(Total + k)
                  /\ Total + k # Before + 6 /\ ~(Total + k = 4 /\ Before = 4)
      <3>1. k = 1 /\ Total + k = Before + 4
        BY <2>9, <2>12
      <3>2. new[k].t = "JoinRequest"
        BY <2>7, <2>8, <2>9, <3>1
      <3> QED
        BY <1>1, <3>1, <3>2, ScriptFacts
    <2>14. /\ InScript' /\ Guarded' /\ IsSeq(out)'
      BY <1>1, <2>6, <2>9, <2>11, <2>12, <2>13, Advance DEF Steps
    <2>15. Typed'
      BY <1>1, <2>4, <2>6, <2>14 DEF IInv, Typed, Steps, Final
    <2>16. Layer' /\ Nla'
      BY <1>1, <2>6 DEF IInv, Layer, Nla, Final
    <2>17. Joined'
      <3>1. /\ Total' = Total + 1
            /\ \A i \in Total + 1 .. Total + 1 : Message(i)' = new[i - Total]
        BY <1>1, <2>9, LinedUp
      <3>2. PICK b \in {1, 4} : Before = b
        BY <1>1
      <3>3. Message(b + 4)' = a
        <4>1. b + 4 = Total + 1 /\ (b + 4) - Total = 1
          BY <2>12, <3>2
        <4> QED
          BY <2>9, <2>12, <3>1, <4>1
      <3>4. Total' = b + 4 /\ Before' = b
        BY <2>11, <2>12, <3>1, <3>2
      <3>5. ~(Total' >= b + 5)
        BY <3>4
      <3>6. ASSUME NEW i \in 1 .. Total', i \in b + 4 .. b + 6
            PROVE  Message(i)'.user = mcs'.user_id
        <4>1. i = b + 4
          BY <3>4, <3>6
        <4> QED
          BY <2>4, <2>7, <2>8, <3>3, <4>1
      <3>7. /\ mcs'.joining \in Channels /\ mcs'.todo \subseteq Channels \ {mcs'.joining}
            /\ Message(b + 4)'.channel = ChannelId(mcs', mcs'.joining)
        <4>1. id = ChannelId(mcs', mcs'.joining)
          BY <2>4, <2>5 DEF ChannelId
        <4> QED
          BY <2>4, <2>7, <2>8, <3>3, <4>1
      <3>8. \A i \in 1 .. Total' : i = Total' => Message(i)'.channel = ChannelId(mcs', mcs'.joining)
        BY <3>4, <3>7
      <3> QED
        BY <3>4, <3>5, <3>6, <3>7, <3>8 DEF Joined
    <2> QED
      BY <2>14, <2>15, <2>16, <2>17 DEF IInv
  <1> QED
    BY <1>2, <1>3 DEF ReadAttachUserConfirm

\* The second channel is the other one; after it comes the info packet.
LEMMA ReadChannelJoinConfirmStep ==
    ASSUME IInv, ReadChannelJoinConfirm
    PROVE  IInv'
  <1>1. /\ pc = "join" /\ out = <<>> /\ UNCHANGED <<cfg, sent, link, nla>>
        /\ Len(sent) > 0 /\ Before \in {1, 4} /\ Total \in Nat
        /\ Total = IF mcs.todo = {} THEN Before + 5 ELSE Before + 4
        /\ nla \in {NlaIdle, NlaAsked, NlaHeard, NlaDone}
    <2>1. "join" \in DOMAIN Expected
      BY DEF Expected
    <2> QED
      BY <2>1, Reading, ListFacts DEF ReadChannelJoinConfirm, Planned
  <1>0. PICK b \in {1, 4} : Before = b /\ Before' = b
    BY <1>1 DEF Before
  <1>2. CASE \/ Fail("InvalidData") /\ UNCHANGED mcs
             \/ Panic /\ UNCHANGED mcs
    BY <1>1, <1>2, GivenUp DEF Fail, Panic, Steps
  <1>3. CASE mcs.todo # {} /\ JoinNext(mcs, mcs.todo)
    <2>1. PICK name \in mcs.todo :
             /\ mcs' = [mcs EXCEPT !.joining = name, !.todo = mcs.todo \ {name}]
             /\ Goto("join", <<Join(mcs.user_id, ChannelId(mcs, name))>>)
      BY <1>3 DEF JoinNext
    <2>2. PICK u, id : u = mcs.user_id /\ id = ChannelId(mcs, name)
      OBVIOUS
    <2>3. out' = <<Join(u, id)>> /\ pc' = "join" /\ UNCHANGED result
      BY <2>1, <2>2 DEF Goto
    <2>4. /\ mcs.todo \subseteq Channels \ {mcs.joining} /\ mcs.joining \in Channels
          /\ mcs.todo = {name}
      BY <1>1, <1>3 DEF IInv, Joined, Channels
    <2>5. /\ mcs' \in [user_id : 0 .. (U16 - 1), joining : Channels \cup {"none"}, todo : SUBSET Channels,
                        version : {"none", "RdpVersion5plus", "RdpVersion", "Unknown"}]
          /\ mcs'.user_id = u /\ mcs'.joining = name /\ mcs'.todo = {}
          /\ name \in Channels
      BY <2>1, <2>2, <2>4 DEF IInv, Typed
    <2>6. /\ Join(u, id).t = "JoinRequest" /\ Join(u, id).user = u /\ Join(u, id).channel = id
      BY DEF Join
    <2>7. PICK a, new : a = Join(u, id) /\ new = <<a>>
      OBVIOUS
    <2>8. new \in Seq({a}) /\ Len(new) = 1 /\ out' = new /\ new[1] = a
      BY <2>3, <2>7, OneMessage
    <2>9. Planned' = Before + 5
      BY <1>0, <2>3, <2>5 DEF Planned
    <2>10. Total + 1 = Before + 5
      <3>1. Total = Before + 4
        BY <1>1, <1>3
      <3> QED
        BY <1>1, <3>1
    <2>11. ASSUME NEW k \in 1 .. Len(new)
           PROVE  /\ new[k].t = ScriptAt(Total + k)
                  /\ Total + k # Before + 6 /\ ~(Total + k = 4 /\ Before = 4)
      <3>1. k = 1 /\ Total + k = Before + 5
        BY <2>8, <2>10
      <3>2. new[k].t = "JoinRequest"
        BY <2>6, <2>7, <2>8, <3>1
      <3> QED
        BY <1>1, <3>1, <3>2, ScriptFacts
    <2>12. InScript' /\ Guarded' /\ IsSeq(out)' /\ \A i \in 1 .. Total : Message(i)' = Message(i)
      BY <1>1, <2>3, <2>8, <2>9, <2>10, <2>11, Advance DEF Steps
    <2>13. Typed'
      BY <1>1, <2>5, <2>3, <2>12 DEF IInv, Typed, Steps, Final
    <2>14. Layer' /\ Nla'
      BY <1>1, <2>3 DEF IInv, Layer, Nla, Final
    <2>15. Joined'
      <3>1. /\ Total' = Total + 1
            /\ \A i \in Total + 1 .. Total + 1 : Message(i)' = new[i - Total]
        BY <1>1, <2>8, LinedUp
      <3>2. Message(b + 5)' = a
        <4>1. b + 5 = Total + 1 /\ (b + 5) - Total = 1
          BY <1>0, <1>1, <2>10
        <4> QED
          BY <1>1, <2>8, <3>1, <4>1
      <3>3. Message(b + 4)' = Message(b + 4) /\ Total = b + 4 /\ Total' = b + 5
        <4>1. Total = b + 4
          BY <1>0, <1>1, <1>3
        <4>2. b + 4 \in 1 .. Total /\ Total + 1 = b + 5
          BY <4>1
        <4> QED
          BY <2>12, <3>1, <4>1, <4>2
      <3>4. Message(b + 4).channel = ChannelId(mcs, mcs.joining) /\ Message(b + 4).user = u
        <4>1. b + 4 \in 1 .. Total /\ b + 4 \in b + 4 .. b + 6 /\ b + 4 = Total
          BY <3>3
        <4> QED
          BY <1>0, <1>1, <1>3, <2>2, <4>1 DEF IInv, Joined
      <3>5. {Message(b + 4)'.channel, Message(b + 5)'.channel} = {1003, u}
        <4>1. a.channel = ChannelId(mcs, name)
          BY <2>2, <2>6, <2>7
        <4>2. {ChannelId(mcs, mcs.joining), ChannelId(mcs, name)} = {1003, u}
          BY <2>2, <2>4, <2>5 DEF ChannelId, Channels
        <4> QED
          BY <3>2, <3>3, <3>4, <4>1, <4>2
      <3>6. ASSUME NEW i \in 1 .. Total', i \in b + 4 .. b + 6
            PROVE  Message(i)'.user = u
        <4>1. i = b + 4 \/ i = b + 5
          BY <3>3, <3>6
        <4> QED
          BY <2>6, <2>7, <3>2, <3>3, <3>4, <4>1
      <3>7. ASSUME NEW i \in 1 .. Total', i = Total'
            PROVE  Message(i)'.channel = ChannelId(mcs', mcs'.joining)
        <4>1. i = b + 5
          BY <3>3, <3>7
        <4>2. id = ChannelId(mcs', mcs'.joining)
          BY <2>2, <2>5 DEF ChannelId
        <4> QED
          BY <2>6, <2>7, <3>2, <4>1, <4>2
      <3>8. mcs'.joining \in Channels /\ mcs'.todo \subseteq Channels \ {mcs'.joining}
        BY <2>5
      <3> QED
        BY <1>0, <2>5, <3>5, <3>6, <3>7, <3>8 DEF Joined
    <2> QED
      BY <2>12, <2>13, <2>14, <2>15 DEF IInv
  <1>4. CASE /\ mcs.todo = {}
             /\ Goto("license", <<Info(mcs)>>) /\ mcs' = [mcs EXCEPT !.joining = "none"]
    <2>1. PICK a, new : a = Info(mcs) /\ new = <<a>>
      OBVIOUS
    <2>2. new \in Seq({a}) /\ Len(new) = 1 /\ out' = new /\ new[1] = a
      BY <1>4, <2>1, OneMessage DEF Goto
    <2>3. pc' = "license" /\ UNCHANGED result
      BY <1>4 DEF Goto
    <2>4. /\ a.t = "Info" /\ a.user = mcs.user_id /\ a.credentials = InfoCredentials
      BY <2>1 DEF Info
    <2>5. /\ mcs' \in [user_id : 0 .. (U16 - 1), joining : Channels \cup {"none"}, todo : SUBSET Channels,
                        version : {"none", "RdpVersion5plus", "RdpVersion", "Unknown"}]
          /\ mcs'.user_id = mcs.user_id
      BY <1>4 DEF IInv, Typed
    <2>6. Planned' = Before + 6
      BY <1>0, <2>3 DEF Planned
    <2>7. Total = b + 5 /\ Total + 1 = b + 6 /\ Total + 1 = Before + 6
      <3>1. Total = b + 5
        BY <1>0, <1>1, <1>4
      <3>2. Total + 1 = b + 6
        BY <3>1
      <3> QED
        BY <1>0, <3>1, <3>2
    <2>8. ASSUME NEW k \in 1 .. Len(new)
          PROVE  /\ new[k].t = ScriptAt(Total + k) /\ new[k].credentials = InfoCredentials
                 /\ ~(Total + k = 4 /\ Before = 4)
      <3>1. k = 1 /\ Total + k = Before + 6
        BY <2>2, <2>7
      <3>2. new[k].t = "Info" /\ new[k].credentials = InfoCredentials
        BY <2>2, <2>4, <3>1
      <3> QED
        BY <1>1, <3>1, <3>2, ScriptFacts
    <2>9. InScript' /\ Guarded' /\ IsSeq(out)' /\ \A i \in 1 .. Total : Message(i)' = Message(i)
      BY <1>1, <2>2, <2>3, <2>6, <2>7, <2>8, Advance DEF Steps
    <2>10. Typed'
      BY <1>1, <2>3, <2>5, <2>9 DEF IInv, Typed, Steps, Final
    <2>11. Layer' /\ Nla'
      BY <1>1, <2>3 DEF IInv, Layer, Nla, Final
    <2>12. Joined'
      <3>1. /\ Total' = Total + 1
            /\ \A i \in Total + 1 .. Total + 1 : Message(i)' = new[i - Total]
        BY <1>1, <2>2, LinedUp
      <3>2. Message(b + 6)' = a
        <4>1. b + 6 = Total + 1 /\ (b + 6) - Total = 1
          BY <1>1, <2>7
        <4> QED
          BY <1>1, <2>2, <3>1, <4>1
      <3>3. Total' = b + 6
        BY <2>7, <3>1
      <3>4. b + 4 \in 1 .. Total /\ b + 5 \in 1 .. Total /\ Total >= b + 5
        BY <2>7
      <3>5. {Message(b + 4)'.channel, Message(b + 5)'.channel} = {1003, mcs.user_id}
        <4>1. {Message(b + 4).channel, Message(b + 5).channel} = {1003, mcs.user_id}
          BY <1>0, <3>4 DEF IInv, Joined
        <4>2. Message(b + 4)' = Message(b + 4) /\ Message(b + 5)' = Message(b + 5)
          BY <2>9, <3>4
        <4> QED
          BY <4>1, <4>2
      <3>6. ASSUME NEW i \in 1 .. Total', i \in b + 4 .. b + 6
            PROVE  Message(i)'.user = mcs.user_id
        <4>1. CASE i = b + 6
          BY <2>4, <3>2, <4>1
        <4>2. CASE i # b + 6
          <5>1. i \in 1 .. Total
            BY <2>7, <3>3, <3>6, <4>2
          <5> QED
            BY <1>0, <2>9, <3>6, <5>1 DEF IInv, Joined
        <4> QED
          BY <4>1, <4>2
      <3> QED
        BY <1>0, <2>3, <2>5, <3>5, <3>6 DEF Joined
    <2> QED
      BY <2>9, <2>10, <2>11, <2>12 DEF IInv
  <1> QED
    BY <1>2, <1>3, <1>4 DEF ReadChannelJoinConfirm

\* The license ends the sequence, with everything written.
LEMMA ReadLicenseStep ==
    ASSUME IInv, ReadLicense
    PROVE  IInv'
  <1>1. /\ pc = "license" /\ out = <<>> /\ UNCHANGED <<cfg, sent, link, nla, mcs>>
        /\ Total = Before + 6 /\ Total \in Nat /\ Before \in {1, 4}
        /\ nla \in {NlaIdle, NlaAsked, NlaHeard, NlaDone}
    <2>1. "license" \in DOMAIN Expected
      BY DEF Expected
    <2> QED
      BY <2>1, Reading, ListFacts DEF ReadLicense, Planned
  <1>2. CASE /\ SecError(msg) # "Ok"
             /\ Panic \/ Fail(SecError(msg))
    BY <1>1, <1>2, GivenUp, ErrorKinds DEF Fail, Panic, Steps
  <1>3. CASE pc' = "connected" /\ result' = "Ok" /\ UNCHANGED out
    <2>1. PICK new : new = <<>>
      OBVIOUS
    <2>2. new \in Seq({}) /\ Len(new) = 0 /\ out' = new
      BY <1>1, <1>3, <2>1, EmptySeq
    <2>3. Planned' = Before + 6 /\ Total + 0 = Total
      BY <1>1, <1>3 DEF Planned, Before
    <2>4. InScript' /\ Guarded' /\ IsSeq(out)' /\ \A i \in 1 .. Total : Message(i)' = Message(i)
      <3>1. Total + Len(new) = Planned'
        BY <1>1, <2>2, <2>3
      <3>2. \A k \in 1 .. Len(new) : FALSE
        BY <2>2
      <3> QED
        BY <1>1, <1>3, <2>1, <2>2, <3>1, <3>2, Advance
    <2>5. Typed'
      BY <1>1, <1>3, <2>4 DEF IInv, Typed, Steps, Final
    <2>6. Layer' /\ Nla'
      BY <1>1, <1>3 DEF Layer, Nla, Final
    <2>7. Joined'
      <3>1. Total' = Total /\ Before' = Before /\ \A i : Message(i)' = Message(i)
        BY <1>1, <1>3 DEF Total, Before, Message
      <3> QED
        BY <1>1, <1>3, <3>1 DEF IInv, Joined
    <2> QED
      BY <2>4, <2>5, <2>6, <2>7 DEF IInv
  <1>4. CASE SecError(msg) = "Ok"
    BY <1>3, <1>4 DEF ReadLicense
  <1>5. CASE SecError(msg) # "Ok"
    <2>1. Panic \/ Fail(SecError(msg))
      <3>1. CASE SecError(msg) = "NotImplemented" /\ msg.type = "short"
        BY <1>5, <3>1 DEF ReadLicense
      <3>2. CASE ~(SecError(msg) = "NotImplemented" /\ msg.type = "short")
        BY <1>5, <3>2 DEF ReadLicense
      <3> QED
        BY <3>1, <3>2
    <2> QED
      BY <1>2, <1>5, <2>1
  <1> QED
    BY <1>4, <1>5

-----------------------------------------------------------------------------
\* The invariance.

\* The connection request is lined up at first.
LEMMA InitialState ==
    ASSUME Init
    PROVE  IInv
  <1>1. /\ cfg \in Configs /\ pc = "confirm" /\ result = "none"
        /\ link = [selected |-> "none", tls |-> FALSE, up |-> TRUE]
        /\ nla = NlaIdle
        /\ mcs = [user_id |-> NoUser, version |-> "none", joining |-> "none", todo |-> {}]
        /\ out = <<Request>> /\ sent = <<>>
    BY DEF Init, NlaIdle
  <1>2. Len(sent) = 0 /\ Len(out) = 1 /\ out[1] = Request /\ IsSeq(sent) /\ IsSeq(out)
    <2>1. sent \in Seq({}) /\ Len(sent) = 0
      BY <1>1, EmptySeq
    <2>2. out \in Seq({Request}) /\ Len(out) = 1 /\ out[1] = Request
      BY <1>1, OneMessage
    <2> QED
      BY <2>1, <2>2, SeqIsSeq
  <1>3. Total = 1 /\ Before = 1 /\ DOMAIN sent = {}
    BY <1>1, <1>2, SeqFacts DEF Total, Before
  <1>4. \A i \in 1 .. Total : i = 1 /\ Message(i) = Request
    BY <1>2, <1>3 DEF Message
  <1>5. Typed
    BY <1>1, <1>2, <1>3, Width DEF Typed, Steps, Final, NoUser, Channels
  <1>6. InScript
    <2>1. Planned = 1
      BY <1>1 DEF Planned
    <2>2. \A i \in 1 .. Total : Message(i).t = ScriptAt(i)
      BY <1>4, ScriptFacts DEF Request
    <2> QED
      BY <1>1, <1>3, <2>1, <2>2 DEF InScript
  <1>7. Layer /\ Nla
    BY <1>1 DEF Layer, Nla, Final
  <1>8. Joined
    BY <1>1, <1>6, EarlyJoined DEF Early
  <1>9. Guarded
    <2>1. \A i \in 1 .. Total : i # Before + 6 /\ i # 4
      BY <1>3
    <2> QED
      BY <1>3, <2>1 DEF Guarded
  <1> QED
    BY <1>5, <1>6, <1>7, <1>8, <1>9 DEF IInv

\* Whatever the peer is, the steps of the client and of its stream keep the
\* invariant.
LEMMA ClientKeeps ==
    ASSUME IInv, Attached, Client \/ SslFails \/ LinkDrop
    PROVE  IInv'
  <1>1. ASSUME Read PROVE IInv'
    BY <1>1, ReadConnectionConfirmStep, ReadChallengeStep, ReadValidateStep,
       ReadConnectResponseStep, ReadAttachUserConfirmStep, ReadChannelJoinConfirmStep,
       ReadLicenseStep, ReadOtherStep, ReadEofStep DEF Read
  <1> QED
    BY <1>1, WriteStep, WriteFailsStep, StartSslStep, SslFailsStep, LinkDropStep DEF Client

\* A step of the peer does not touch the client.
LEMMA OthersKeep ==
    ASSUME IInv, UNCHANGED client
    PROVE  IInv'
  <1>1. /\ Total' = Total /\ Before' = Before /\ Planned' = Planned
        /\ \A i : Message(i)' = Message(i) /\ ScriptAt(i)' = ScriptAt(i)
    BY DEF client, Total, Before, Planned, Message, ScriptAt
  <1>2. Typed' /\ Layer' /\ Nla'
    BY DEF client, IInv, Typed, Layer, Nla
  <1>3. UNCHANGED <<cfg, pc, link, mcs, out, sent>>
    BY DEF client
  <1>4. InScript'
    BY <1>1, <1>3 DEF IInv, InScript
  <1>5. Joined'
    BY <1>1, <1>3 DEF IInv, Joined
  <1>6. Guarded'
    BY <1>1, <1>3 DEF IInv, Guarded, InfoCredentials, TsCredentials
  <1> QED
    BY <1>2, <1>4, <1>5, <1>6 DEF IInv

\* What the client does with the messages of the peer.
LEMMA ClientTakes ==
    ASSUME Client \/ SslFails \/ LinkDrop
    PROVE  s2c' = s2c \/ (s2c # <<>> /\ s2c' = Tail(s2c))
  <1>1. ASSUME NEW step, NEW type, Receive(step, type)
        PROVE  s2c # <<>> /\ s2c' = Tail(s2c)
    BY <1>1 DEF Receive
  <1>2. ASSUME Read PROVE s2c' = s2c \/ (s2c # <<>> /\ s2c' = Tail(s2c))
    <2>1. ReadConnectionConfirm => s2c # <<>> /\ s2c' = Tail(s2c)
      <3>1. ReadConnectionConfirm => Receive("confirm", "Confirm")
        BY DEF ReadConnectionConfirm
      <3> QED
        BY <1>1, <3>1
    <2>2. ReadChallenge => s2c # <<>> /\ s2c' = Tail(s2c)
      BY <1>1 DEF ReadChallenge
    <2>3. ReadValidate => s2c # <<>> /\ s2c' = Tail(s2c)
      BY <1>1 DEF ReadValidate
    <2>4. ReadConnectResponse => s2c # <<>> /\ s2c' = Tail(s2c)
      BY <1>1 DEF ReadConnectResponse
    <2>5. ReadAttachUserConfirm => s2c # <<>> /\ s2c' = Tail(s2c)
      BY <1>1 DEF ReadAttachUserConfirm
    <2>6. ReadChannelJoinConfirm => s2c # <<>> /\ s2c' = Tail(s2c)
      BY <1>1 DEF ReadChannelJoinConfirm
    <2>7. ReadLicense => s2c # <<>> /\ s2c' = Tail(s2c)
      BY <1>1 DEF ReadLicense
    <2>8. ReadOther => s2c # <<>> /\ s2c' = Tail(s2c)
      BY <1>1 DEF ReadOther
    <2>9. ReadEof => s2c' = s2c
      BY DEF ReadEof
    <2> QED
      BY <1>2, <2>1, <2>2, <2>3, <2>4, <2>5, <2>6, <2>7, <2>8, <2>9 DEF Read
  <1> QED
    BY <1>2 DEF Client, Write, WriteFails, StartSsl, SslFails, LinkDrop

\* A message that is read no longer matters.
LEMMA AttachedTail ==
    ASSUME Attached, s2c # <<>>, s2c' = Tail(s2c)
    PROVE  Attached'
  <1>1. s2c \in Seq(Range(s2c)) /\ Len(s2c) \in Nat /\ DOMAIN s2c = 1 .. Len(s2c) /\ Len(s2c) # 0
    BY SeqFacts, EmptySeq DEF Attached
  <1>2. /\ Tail(s2c) \in Seq(Range(s2c)) /\ Len(Tail(s2c)) = Len(s2c) - 1
        /\ \A i \in 1 .. Len(Tail(s2c)) : Tail(s2c)[i] = s2c[i + 1]
    BY <1>1, HeadTailProperties
  <1>3. IsSeq(Tail(s2c)) /\ DOMAIN Tail(s2c) = 1 .. Len(Tail(s2c))
    BY <1>2, SeqIsSeq, SeqFacts
  <1>4. ASSUME NEW i \in DOMAIN Tail(s2c), Tail(s2c)[i].t = "Attach"
        PROVE  Tail(s2c)[i].initiator \in Nat
    <2>1. Tail(s2c)[i] = s2c[i + 1] /\ i + 1 \in DOMAIN s2c
      BY <1>1, <1>2, <1>3
    <2> QED
      BY <1>4, <2>1 DEF Attached
  <1> QED
    BY <1>3, <1>4 DEF Attached

\* A message that arrives is one the peer may send.
LEMMA AttachedAppend ==
    ASSUME Attached, NEW m, m.t = "Attach" => m.initiator \in Nat, s2c' = Append(s2c, m)
    PROVE  Attached'
  <1>1. s2c \in Seq(Range(s2c)) /\ Len(s2c) \in Nat /\ DOMAIN s2c = 1 .. Len(s2c)
    BY SeqFacts DEF Attached
  <1>2. s2c \in Seq(Range(s2c) \cup {m})
    BY <1>1, SeqMonotonic
  <1>3. /\ Append(s2c, m) \in Seq(Range(s2c) \cup {m}) /\ Len(Append(s2c, m)) = Len(s2c) + 1
        /\ \A i \in 1 .. Len(s2c) : Append(s2c, m)[i] = s2c[i]
        /\ Append(s2c, m)[Len(s2c) + 1] = m
    BY <1>2, AppendProperties
  <1>4. PICK new : new = Append(s2c, m)
    OBVIOUS
  <1>5. IsSeq(new) /\ DOMAIN new = 1 .. Len(s2c) + 1
    BY <1>3, <1>4, SeqIsSeq, SeqFacts
  <1>6. ASSUME NEW i \in DOMAIN new, new[i].t = "Attach"
        PROVE  new[i].initiator \in Nat
    <2>1. CASE i = Len(s2c) + 1
      BY <1>3, <1>4, <1>6, <2>1
    <2>2. CASE i \in 1 .. Len(s2c)
      BY <1>1, <1>3, <1>4, <1>6, <2>2 DEF Attached
    <2> QED
      BY <1>1, <1>5, <2>1, <2>2
  <1> QED
    BY <1>4, <1>5, <1>6 DEF Attached

\* The invariant holds whatever the peer sends.
THEOREM Invariance == Spec => [](IInv /\ Attached)
  <1>1. ASSUME Init PROVE IInv /\ Attached
    <2>1. IInv
      BY <1>1, InitialState
    <2>2. s2c = <<>> /\ s2c \in Seq({}) /\ Len(s2c) = 0
      BY <1>1, EmptySeq DEF Init
    <2>3. IsSeq(s2c)
      BY <2>2, SeqIsSeq
    <2>4. DOMAIN s2c = {}
      BY <2>2, <2>3, SeqFacts
    <2> QED
      BY <2>1, <2>3, <2>4 DEF Attached
  <1>2. ASSUME IInv /\ Attached, [Next]_vars PROVE (IInv /\ Attached)'
    <2>1. CASE Client \/ SslFails \/ LinkDrop
      <3>1. IInv'
        BY <1>2, <2>1, ClientKeeps
      <3>2. Attached'
        BY <1>2, <2>1, ClientTakes, AttachedTail DEF Attached
      <3> QED
        BY <3>1, <3>2
    <2>2. ASSUME NEW m \in Messages, Deliver(m) PROVE (IInv /\ Attached)'
      <3>1. UNCHANGED client /\ s2c' = Append(s2c, m)
        BY <2>2 DEF Deliver
      <3>2. m.t = "Attach" => m.initiator \in Nat
        BY ConnectAssumption
      <3> QED
        BY <1>2, <3>1, <3>2, OthersKeep, AttachedAppend
    <2>3. CASE UNCHANGED vars
      <3>1. UNCHANGED client /\ UNCHANGED s2c
        BY <2>3 DEF vars
      <3> QED
        BY <1>2, <3>1, OthersKeep DEF Attached
    <2> QED
      BY <1>2, <2>1, <2>2, <2>3 DEF Next
  <1> QED
    BY <1>1, <1>2, PTL DEF Spec

-----------------------------------------------------------------------------
\* What the invariant says of what is on the stream.

\* A message on the stream stands in its place of the script.
LEMMA OnTheStream ==
    ASSUME IInv, NEW i \in DOMAIN sent
    PROVE  /\ i \in Nat /\ i > 0 /\ i <= Len(sent) /\ i <= Before + 6
           /\ Message(i) = sent[i].m /\ sent[i].m.t = ScriptAt(i)
           /\ i \in 1 .. Total
  <1>1. /\ Len(sent) \in Nat /\ Total \in Nat /\ DOMAIN sent = 1 .. Len(sent)
        /\ Message(i) = sent[i].m /\ i \in 1 .. Total
    BY ListFacts
  <1>2. Total <= Before + 6 /\ Message(i).t = ScriptAt(i)
    BY <1>1 DEF IInv, InScript
  <1>3. Before + 6 \in Nat
    BY ListFacts
  <1>4. i <= Before + 6
    BY <1>1, <1>2, <1>3
  <1> QED
    BY <1>1, <1>2, <1>4

\* Where in the script a message of a type is.
LEMMA Places ==
    ASSUME NEW b \in {1, 4}, Before = b, NEW i \in 1 .. (b + 6)
    PROVE  /\ ScriptAt(i) \in ClientMessages
           /\ ScriptAt(i) = "Request" <=> i = 1
           /\ ScriptAt(i) = "JoinRequest" <=> i \in {b + 4, b + 5}
           /\ ScriptAt(i) = "Info" <=> i = b + 6
           /\ ScriptAt(i) = "Credentials" <=> (b = 4 /\ i = 4)
  <1>1. i \in 1 .. 10 /\ (b = 1 => i \in 1 .. 7)
    OBVIOUS
  <1>2. CASE b = 1
    <2>1. i \in {1, 2, 3, 4, 5, 6, 7}
      BY <1>1, <1>2
    <2> QED
      BY <1>2, <2>1 DEF ScriptAt, ClientMessages
  <1>3. CASE b = 4
    <2>1. i \in {1, 2, 3, 4, 5, 6, 7, 8, 9, 10}
      BY <1>1, <1>3
    <2> QED
      BY <1>3, <2>1 DEF ScriptAt, ClientMessages
  <1> QED
    BY <1>2, <1>3

\* A security interface as a record, and what wrapping and unwrapping make of it.
Interface(key, e, peer, d, signing, verify, n) ==
    [encrypt |-> [key |-> key, at |-> e], decrypt |-> [key |-> peer, at |-> d],
     signing |-> signing, verify |-> verify, seq_num |-> n]

\* gss_wrapex uses the stream twice and a sequence number.
LEMMA Wraps ==
    ASSUME NEW k, NEW e \in Nat, NEW p, NEW d \in Nat, NEW s, NEW v, NEW n \in Nat
    PROVE  AfterWrap(Interface(k, e, p, d, s, v, n)) = Interface(k, e + 2, p, d, s, v, n + 1)
  <1> DEFINE i == Interface(k, e, p, d, s, v, n)
  <1>1. Used([key |-> k, at |-> e]) = [key |-> k, at |-> e + 1]
    BY DEF Used
  <1>2. Used([key |-> k, at |-> e + 1]) = [key |-> k, at |-> e + 2]
    BY DEF Used
  <1>3. AfterWrap(i) = [i EXCEPT !.encrypt = Used(Used(i.encrypt)), !.seq_num = i.seq_num + 1]
    BY DEF AfterWrap
  <1>4. Used(Used(i.encrypt)) = [key |-> k, at |-> e + 2] /\ i.seq_num + 1 = n + 1
    BY <1>1, <1>2 DEF Interface
  <1> QED
    BY <1>3, <1>4 DEF Interface

\* gss_unwrapex uses the other stream twice.
LEMMA Unwraps ==
    ASSUME NEW k, NEW e \in Nat, NEW p, NEW d \in Nat, NEW s, NEW v, NEW n \in Nat
    PROVE  AfterUnwrap(Interface(k, e, p, d, s, v, n)) = Interface(k, e, p, d + 2, s, v, n)
  <1> DEFINE i == Interface(k, e, p, d, s, v, n)
  <1>1. Used([key |-> p, at |-> d]) = [key |-> p, at |-> d + 1]
    BY DEF Used
  <1>2. Used([key |-> p, at |-> d + 1]) = [key |-> p, at |-> d + 2]
    BY DEF Used
  <1>3. AfterUnwrap(i) = [i EXCEPT !.decrypt = Used(Used(i.decrypt))]
    BY DEF AfterUnwrap
  <1>4. Used(Used(i.decrypt)) = [key |-> p, at |-> d + 2]
    BY <1>1, <1>2 DEF Interface
  <1> QED
    BY <1>3, <1>4 DEF Interface

\* The interfaces of both ends, field by field.
LEMMA Ended ==
    ASSUME NEW exported
    PROVE  /\ SecurityInterface(exported, "client") =
                 Interface(SealKey(exported, "client"), 0, SealKey(exported, "server"), 0,
                           SignKey(exported, "client"), SignKey(exported, "server"), 0)
           /\ SecurityInterface(exported, "server") =
                 Interface(SealKey(exported, "server"), 0, SealKey(exported, "client"), 0,
                           SignKey(exported, "server"), SignKey(exported, "client"), 0)
  <1>1. (CHOOSE e \in Ends : e # "client") = "server"
    BY DEF Ends
  <1>2. (CHOOSE e \in Ends : e # "server") = "client"
    BY DEF Ends
  <1> QED
    BY <1>1, <1>2 DEF SecurityInterface, Interface

\* The states of the client's interface, field by field.
LEMMA NlaFacts ==
    LET At(e, d, n) == Interface(SealKey(Exported, "client"), e, SealKey(Exported, "server"), d,
                                 SignKey(Exported, "client"), SignKey(Exported, "server"), n)
    IN  NlaAsked = At(2, 0, 1) /\ NlaHeard = At(2, 2, 1) /\ NlaDone = At(4, 2, 2)
  <1> DEFINE At(e, d, n) ==
        Interface(SealKey(Exported, "client"), e, SealKey(Exported, "server"), d,
                  SignKey(Exported, "client"), SignKey(Exported, "server"), n)
  <1>1. ASSUME NEW e \in Nat, NEW d \in Nat, NEW n \in Nat
        PROVE  /\ AfterWrap(At(e, d, n)) = At(e + 2, d, n + 1)
               /\ AfterUnwrap(At(e, d, n)) = At(e, d + 2, n)
    <2>1. AfterWrap(At(e, d, n)) = At(e + 2, d, n + 1)
      BY Wraps
    <2>2. AfterUnwrap(At(e, d, n)) = At(e, d + 2, n)
      BY Unwraps
    <2> QED
      BY <2>1, <2>2
  <1>2. SecurityInterface(Exported, "client") = At(0, 0, 0)
    BY Ended
  <1> HIDE DEF At
  <1>3. NlaAsked = At(2, 0, 1)
    BY <1>1, <1>2 DEF NlaAsked
  <1>4. NlaHeard = At(2, 2, 1)
    BY <1>1, <1>3 DEF NlaHeard
  <1>5. NlaDone = At(4, 2, 2)
    BY <1>1, <1>4 DEF NlaDone
  <1> QED
    BY <1>3, <1>4, <1>5 DEF At

\* The invariant gives the types.
LEMMA TypeCorrect ==
    ASSUME IInv
    PROVE  ConnectTypeOK
  <1>1. {nla.encrypt.at, nla.decrypt.at, nla.seq_num} \subseteq 0..4
    <2>1. /\ NlaIdle.encrypt.at = 0 /\ NlaIdle.decrypt.at = 0 /\ NlaIdle.seq_num = 0
          /\ NlaAsked.encrypt.at = 2 /\ NlaAsked.decrypt.at = 0 /\ NlaAsked.seq_num = 1
          /\ NlaHeard.encrypt.at = 2 /\ NlaHeard.decrypt.at = 2 /\ NlaHeard.seq_num = 1
          /\ NlaDone.encrypt.at = 4 /\ NlaDone.decrypt.at = 2 /\ NlaDone.seq_num = 2
      BY NlaFacts, Ended DEF Interface, NlaIdle
    <2> QED
      BY <2>1 DEF IInv, Nla
  <1>2. mcs.user_id \in 0..(U16 - 1) /\ mcs.todo \subseteq Channels
    BY DEF IInv, Typed
  <1>3. PICK b \in {1, 4} : Before = b
    BY ListFacts
  <1>4. ASSUME NEW i \in DOMAIN sent
        PROVE  sent[i].m.t \in ClientMessages /\ sent[i].tls \in BOOLEAN
    <2>1. i \in 1 .. (b + 6) /\ sent[i].m.t = ScriptAt(i)
      BY <1>3, OnTheStream
    <2> QED
      BY <1>3, <2>1, Places DEF IInv, Typed
  <1> QED
    BY <1>1, <1>2, <1>4 DEF ConnectTypeOK, IInv, Typed

\* The invariant gives the guard of the credentials.
LEMMA Guards ==
    ASSUME IInv
    PROVE  CredentialsGuarded
  <1>1. PICK b \in {1, 4} : Before = b
    BY ListFacts
  <1>2. ASSUME NEW i \in DOMAIN sent
        PROVE  /\ sent[i].tls <=> (sent[i].m.t # "Request" /\ link.selected \in {"SSL", "Hybrid"})
               /\ sent[i].m.t = "Info" /\ cfg.restricted => sent[i].m.credentials = "blank"
               /\ sent[i].m.t = "Credentials" /\ (cfg.restricted \/ cfg.blank)
                     => sent[i].m.sealed.payload.data = <<"blank">>
    <2>1. /\ i \in 1 .. (b + 6) /\ sent[i].m.t = ScriptAt(i) /\ i \in 1 .. Total
          /\ Message(i) = sent[i].m
      BY <1>1, OnTheStream
    <2>2. sent[i].tls <=> (i > 1 /\ link.selected \in {"SSL", "Hybrid"})
      BY DEF IInv, Guarded
    <2>3. /\ i = b + 6 => sent[i].m.credentials = InfoCredentials
          /\ i = 4 /\ b = 4 => sent[i].m.sealed.payload.data = <<TsCredentials>>
      BY <1>1, <2>1 DEF IInv, Guarded
    <2>4. /\ sent[i].m.t = "Request" <=> i = 1
          /\ sent[i].m.t = "Info" <=> i = b + 6
          /\ sent[i].m.t = "Credentials" <=> (b = 4 /\ i = 4)
      BY <1>1, <2>1, Places
    <2>5. /\ cfg.restricted => InfoCredentials = "blank"
          /\ cfg.restricted \/ cfg.blank => TsCredentials = "blank"
      BY DEF InfoCredentials, TsCredentials
    <2>6. i > 1 <=> i # 1
      BY <2>1
    <2> QED
      BY <2>2, <2>3, <2>4, <2>5, <2>6
  <1> QED
    BY <1>2 DEF CredentialsGuarded

\* The script as the property states it, and as the invariant does.
LEMMA ScriptIs ==
    ASSUME NEW b \in {1, 4}, Before = b
    PROVE  /\ Script \in Seq(ClientMessages) /\ Len(Script) = b + 6
           /\ \A i \in 1 .. (b + 6) : Script[i] = ScriptAt(i)
  <1> DEFINE r == <<"Request">>
             h == <<"Negotiate", "Authenticate", "Credentials">>
             s == <<"ConnectInitial", "Erect", "AttachRequest", "JoinRequest", "JoinRequest", "Info">>
  <1>1. /\ r \in Seq(ClientMessages) /\ Len(r) = 1 /\ r[1] = "Request"
        /\ h \in Seq(ClientMessages) /\ Len(h) = 3
        /\ h[1] = "Negotiate" /\ h[2] = "Authenticate" /\ h[3] = "Credentials"
    BY DEF ClientMessages
  <1>2. /\ s \in Seq(ClientMessages) /\ Len(s) = 6
        /\ s[1] = "ConnectInitial" /\ s[2] = "Erect" /\ s[3] = "AttachRequest"
        /\ s[4] = "JoinRequest" /\ s[5] = "JoinRequest" /\ s[6] = "Info"
    BY DEF ClientMessages
  <1>3. Script = IF link.selected = "Hybrid" THEN (r \o h) \o s ELSE (r \o <<>>) \o s
    BY DEF Script
  <1>4. b = 4 <=> link.selected = "Hybrid"
    BY DEF Before
  <1> HIDE DEF r, h, s
  <1>5. CASE b = 4
    <2>1. /\ r \o h \in Seq(ClientMessages) /\ Len(r \o h) = 4
          /\ (r \o h)[1] = r[1]
          /\ (r \o h)[2] = h[1] /\ (r \o h)[3] = h[2] /\ (r \o h)[4] = h[3]
      <3>1. /\ r \o h \in Seq(ClientMessages) /\ Len(r \o h) = Len(r) + Len(h)
            /\ \A i \in 1 .. Len(r) + Len(h) :
                  (r \o h)[i] = IF i <= Len(r) THEN r[i] ELSE h[i - Len(r)]
        BY <1>1, ConcatProperties
      <3>2. PICK m \in Nat, n \in Nat : m = Len(r) /\ n = Len(h) /\ m = 1 /\ n = 3
        BY <1>1
      <3>3. /\ Len(r \o h) = m + n
            /\ \A i \in 1 .. m + n : (r \o h)[i] = IF i <= m THEN r[i] ELSE h[i - m]
        BY <3>1, <3>2
      <3> QED
        BY <3>1, <3>2, <3>3
    <2>2. PICK q : q = r \o h
      OBVIOUS
    <2>3. /\ q \in Seq(ClientMessages) /\ Len(q) = 4
          /\ q[1] = r[1] /\ q[2] = h[1] /\ q[3] = h[2] /\ q[4] = h[3]
      BY <2>1, <2>2
    <2>4. /\ q \o s \in Seq(ClientMessages) /\ Len(q \o s) = 10
          /\ \A i \in 1 .. 10 : (q \o s)[i] = IF i <= 4 THEN q[i] ELSE s[i - 4]
      <3>1. /\ q \o s \in Seq(ClientMessages) /\ Len(q \o s) = Len(q) + Len(s)
            /\ \A i \in 1 .. Len(q) + Len(s) :
                  (q \o s)[i] = IF i <= Len(q) THEN q[i] ELSE s[i - Len(q)]
        BY <1>2, <2>3, ConcatProperties
      <3>2. PICK m \in Nat, n \in Nat : m = Len(q) /\ n = Len(s) /\ m = 4 /\ n = 6
        BY <1>2, <2>3
      <3>3. /\ Len(q \o s) = m + n
            /\ \A i \in 1 .. m + n : (q \o s)[i] = IF i <= m THEN q[i] ELSE s[i - m]
        BY <3>1, <3>2
      <3>4. m + n = 10
        BY <3>2
      <3>5. Len(q \o s) = 10
        BY <3>3, <3>4
      <3>6. ASSUME NEW i \in 1 .. 10
            PROVE  (q \o s)[i] = IF i <= 4 THEN q[i] ELSE s[i - 4]
        <4>1. i \in 1 .. m + n
          BY <3>4
        <4> QED
          BY <3>2, <3>3, <4>1
      <3> QED
        BY <3>1, <3>5, <3>6
    <2>5. Script = q \o s
      BY <1>3, <1>4, <1>5, <2>2
    <2>6. /\ Script \in Seq(ClientMessages) /\ Len(Script) = 10
          /\ Script[1] = q[1] /\ Script[2] = q[2] /\ Script[3] = q[3] /\ Script[4] = q[4]
          /\ Script[5] = s[1] /\ Script[6] = s[2] /\ Script[7] = s[3] /\ Script[8] = s[4]
          /\ Script[9] = s[5] /\ Script[10] = s[6]
      <3>1. /\ Script \in Seq(ClientMessages) /\ Len(Script) = 10
            /\ \A i \in 1 .. 10 : Script[i] = IF i <= 4 THEN q[i] ELSE s[i - 4]
        BY <2>4, <2>5
      <3> QED
        BY <3>1
    <2>7. ASSUME NEW i \in 1 .. 10 PROVE Script[i] = ScriptAt(i)
      <3>1. i \in {1, 2, 3, 4, 5, 6, 7, 8, 9, 10}
        OBVIOUS
      <3>2. Script[i] = CASE i = 1 -> "Request"
                          [] i = 2 -> "Negotiate"
                          [] i = 3 -> "Authenticate"
                          [] i = 4 -> "Credentials"
                          [] i = 5 -> "ConnectInitial"
                          [] i = 6 -> "Erect"
                          [] i = 7 -> "AttachRequest"
                          [] i \in {8, 9} -> "JoinRequest"
                          [] OTHER -> "Info"
        BY <1>1, <1>2, <2>3, <2>6, <3>1
      <3> QED
        BY <1>5, <3>1, <3>2 DEF ScriptAt
    <2> QED
      BY <1>5, <2>6, <2>7
  <1>6. CASE b = 1
    <2>1. r \o <<>> = r
      BY <1>1, ConcatEmptySeq
    <2>2. /\ r \o s \in Seq(ClientMessages) /\ Len(r \o s) = 7
          /\ \A i \in 1 .. 7 : (r \o s)[i] = IF i <= 1 THEN r[i] ELSE s[i - 1]
      <3>1. /\ r \o s \in Seq(ClientMessages) /\ Len(r \o s) = Len(r) + Len(s)
            /\ \A i \in 1 .. Len(r) + Len(s) :
                  (r \o s)[i] = IF i <= Len(r) THEN r[i] ELSE s[i - Len(r)]
        BY <1>1, <1>2, ConcatProperties
      <3>2. PICK m \in Nat, n \in Nat : m = Len(r) /\ n = Len(s) /\ m = 1 /\ n = 6
        BY <1>1, <1>2
      <3>3. /\ Len(r \o s) = m + n
            /\ \A i \in 1 .. m + n : (r \o s)[i] = IF i <= m THEN r[i] ELSE s[i - m]
        BY <3>1, <3>2
      <3> QED
        BY SMTT(30), <3>1, <3>2, <3>3
    <2>3. Script = r \o s
      BY <1>3, <1>4, <1>6, <2>1
    <2>4. /\ Script \in Seq(ClientMessages) /\ Len(Script) = 7
          /\ Script[1] = r[1] /\ Script[2] = s[1] /\ Script[3] = s[2] /\ Script[4] = s[3]
          /\ Script[5] = s[4] /\ Script[6] = s[5] /\ Script[7] = s[6]
      BY SMTT(30), <2>2, <2>3
    <2>5. ASSUME NEW i \in 1 .. 7 PROVE Script[i] = ScriptAt(i)
      <3>1. i \in {1, 2, 3, 4, 5, 6, 7}
        OBVIOUS
      <3>2. Script[i] = CASE i = 1 -> "Request"
                          [] i = 2 -> "ConnectInitial"
                          [] i = 3 -> "Erect"
                          [] i = 4 -> "AttachRequest"
                          [] i \in {5, 6} -> "JoinRequest"
                          [] OTHER -> "Info"
        BY <1>1, <1>2, <2>4, <3>1
      <3> QED
        BY <1>6, <3>1, <3>2 DEF ScriptAt
    <2> QED
      BY <1>6, <2>4, <2>5
  <1> QED
    BY <1>5, <1>6

\* The invariant gives the script.
LEMMA Sequences ==
    ASSUME IInv
    PROVE  InSequence
  <1>1. PICK b \in {1, 4} : Before = b
    BY ListFacts
  <1>2. /\ Script \in Seq(ClientMessages) /\ Len(Script) = b + 6
        /\ \A i \in 1 .. (b + 6) : Script[i] = ScriptAt(i) /\ ScriptAt(i) \in ClientMessages
    BY <1>1, ScriptIs, Places
  <1>3. PICK n \in Nat : n = Len(sent) /\ DOMAIN sent = 1 .. n
    BY ListFacts
  <1>4. n <= b + 6
    <2>1. CASE n = 0
      BY <2>1
    <2>2. CASE n # 0
      <3>1. n \in DOMAIN sent
        BY <1>3, <2>2
      <3> QED
        BY <1>1, <3>1, OnTheStream
    <2> QED
      BY <2>1, <2>2
  <1>5. IsPrefix([i \in DOMAIN sent |-> sent[i].m.t], Script)
    <2>1. PICK f : f = [i \in DOMAIN sent |-> sent[i].m.t]
      OBVIOUS
    <2>2. f \in [1 .. n -> ClientMessages] /\ \A i \in 1 .. n : f[i] = Script[i]
      <3>1. ASSUME NEW i \in 1 .. n
            PROVE  f[i] = Script[i] /\ f[i] \in ClientMessages
        <4>1. f[i] = ScriptAt(i)
          BY <1>3, <2>1, OnTheStream
        <4>2. i \in 1 .. (b + 6)
          BY <1>4
        <4> QED
          BY <1>2, <4>1, <4>2
      <3> QED
        BY <1>3, <2>1, <3>1
    <2>3. f \in Seq(ClientMessages) /\ Len(f) = n
      <3>1. f \in Seq(ClientMessages)
        BY <2>2, SeqDef
      <3>2. Len(f) \in Nat /\ DOMAIN f = 1 .. Len(f)
        BY <3>1, LenProperties
      <3> QED
        BY <2>2, <3>1, <3>2
    <2>4. /\ SubSeq(f, 1, n) \in Seq(ClientMessages)
          /\ Len(SubSeq(f, 1, n)) = n
          /\ \A i \in 1 .. n : SubSeq(f, 1, n)[i] = f[i]
      BY <2>2, SubSeqProperties
    <2>5. /\ SubSeq(Script, 1, n) \in Seq(ClientMessages)
          /\ Len(SubSeq(Script, 1, n)) = n
          /\ \A i \in 1 .. n : SubSeq(Script, 1, n)[i] = Script[i]
      <3>1. \A i \in 1 .. n : Script[i] \in ClientMessages
        BY <1>2, <1>4
      <3> QED
        BY <3>1, SubSeqProperties
    <2>6. SubSeq(f, 1, n) = SubSeq(Script, 1, n)
      BY <2>2, <2>4, <2>5, SeqEqual
    <2>7. Len(f) <= Len(Script)
      BY <1>2, <1>4, <2>3
    <2> QED
      BY <2>1, <2>3, <2>6, <2>7 DEF IsPrefix
  <1>6. pc = "connected" => Len(sent) = Len(Script)
    <2> SUFFICES ASSUME pc = "connected" PROVE Len(sent) = Len(Script)
      OBVIOUS
    <2>1. Total = Before + 6 /\ Len(out) = 0
      BY EmptySeq DEF IInv, InScript, Planned
    <2>2. Len(sent) = Before + 6
      BY <1>3, <2>1, ListFacts DEF Total
    <2> QED
      BY <1>1, <1>2, <2>2
  <1>7. ASSUME NEW u \in Users
        PROVE  u = mcs.user_id
    <2>1. PICK i \in DOMAIN sent : sent[i].m.t \in {"JoinRequest", "Info"} /\ u = sent[i].m.user
      BY DEF Users
    <2>2. i \in 1 .. (b + 6) /\ sent[i].m.t = ScriptAt(i) /\ Message(i) = sent[i].m /\ i \in 1 .. Total
      BY <1>1, OnTheStream
    <2>3. i \in b + 4 .. b + 6
      BY <1>1, <2>1, <2>2, Places
    <2> QED
      BY <1>1, <2>1, <2>2, <2>3 DEF IInv, Joined
  <1>8. ASSUME NEW i \in Joins, NEW j \in Joins, i # j
        PROVE  {sent[i].m.channel, sent[j].m.channel} = {1003, mcs.user_id}
    <2>1. /\ i \in 1 .. (b + 6) /\ sent[i].m.t = ScriptAt(i) /\ sent[i].m = Message(i)
          /\ j \in 1 .. (b + 6) /\ sent[j].m.t = ScriptAt(j) /\ sent[j].m = Message(j)
          /\ sent[i].m.t = "JoinRequest" /\ sent[j].m.t = "JoinRequest"
          /\ i \in 1 .. Total /\ j \in 1 .. Total
      BY <1>1, OnTheStream DEF Joins
    <2>2. i \in {b + 4, b + 5} /\ j \in {b + 4, b + 5}
      BY <1>1, <2>1, Places
    <2>3. (i = b + 4 /\ j = b + 5) \/ (i = b + 5 /\ j = b + 4)
      BY <1>8, <2>2
    <2>4. Total >= b + 5
      <3>1. Total \in Nat
        BY ListFacts
      <3> QED
        BY <2>1, <2>3, <3>1
    <2>5. {Message(b + 4).channel, Message(b + 5).channel} = {1003, mcs.user_id}
      BY <1>1, <2>4 DEF IInv, Joined
    <2>6. CASE i = b + 4 /\ j = b + 5
      BY <2>1, <2>5, <2>6
    <2>7. CASE i = b + 5 /\ j = b + 4
      BY <2>1, <2>5, <2>7
    <2> QED
      BY <2>3, <2>6, <2>7
  <1> QED
    BY <1>5, <1>6, <1>7, <1>8 DEF InSequence

-----------------------------------------------------------------------------
\* connect keeps the types of its variables whatever the peer answers.
THEOREM ConnectTyped == Spec => []ConnectTypeOK
  <1>1. IInv => ConnectTypeOK
    BY TypeCorrect
  <1> QED
    BY <1>1, Invariance, PTL

\* Whatever a peer answers, and in whatever order, connect writes a prefix of its
\* script, all of it when it returns Ok, under one user id and for both channels
\* (core/client.rs:240-269).
THEOREM ScriptFollowed == Spec => []InSequence
  <1>1. IInv => InSequence
    BY Sequences
  <1> QED
    BY <1>1, Invariance, PTL

\* No peer gets more of the credentials than the configuration lets leave, and
\* none gets anything but the request outside of TLS once it selected a protocol
\* with TLS (core/client.rs:253-269, nla/cssp.rs:198-203).
THEOREM CredentialsKept == Spec => []CredentialsGuarded
  <1>1. IInv => CredentialsGuarded
    BY Guards
  <1> QED
    BY <1>1, Invariance, PTL

=============================================================================
