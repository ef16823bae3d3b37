------------------------------- MODULE Codec -------------------------------
(***************************************************************************)
(* The wire between the templates of the client and a peer: one message    *)
(* after the other is put into the layers that carry it, may lose its end  *)
(* inside of them or on the wire, may be followed by other bytes, and is   *)
(* read.  What the server sends is read with the readers of the code; what *)
(* the client sends is read by the sizes and offsets it tells.             *)
(***************************************************************************)
EXTENDS Tokens

CONSTANTS Behinds \* what may follow a message in the same frame

VARIABLES
    message,  \* the message under way, if any
    short,    \* its end was lost
    behind,   \* what follows it
    wire,     \* its bytes, in its layers
    got       \* what was read

vars == <<message, short, behind, wire, got>>

NoMessage == [layer |-> "none"]
Unread == [out |-> "unread", values |-> <<>>, rest |-> <<>>]
-----------------------------------------------------------------------------
\* A template with other values than its own, but for those that are checked or
\* that say what follows.
RECURSIVE Filled(_, _)
FilledAll(parts, k) == [i \in DOMAIN parts |-> Filled(parts[i], k + 5 * i)]
Filled(m, k) ==
    CASE m.kind \in {"int", "slice"} -> [m EXCEPT !.bytes = [i \in DOMAIN @ |-> (k + 3 * i) % 251]]
      [] m.kind = "trame"     -> Trame(FilledAll(m.parts, k))
      [] m.kind = "array"     -> Array(FilledAll(m.items, k), m.factory)
      [] m.kind = "option"    -> [m EXCEPT !.inner = FilledAll(@, k)]
      [] m.kind = "component" ->
             Component([i \in DOMAIN m.fields |-> <<m.fields[i][1], Filled(m.fields[i][2], k + 5 * i)>>])
      [] OTHER                -> m

\* A message: the layers around it, its type there, its bytes and its values.
Tree(layer, type, m) ==
    [layer |-> layer, type |-> type, body |-> Write(m), values |-> Leaves(m), length |-> Length(m)]
Raw(layer, type, body, values) ==
    [layer |-> layer, type |-> type, body |-> body, values |-> values, length |-> Len(body)]

TwoSets == <<capability_set(1, <<1, 2, 3>>), capability_set(9, <<>>)>>
Time == <<1, 2, 3, 4, 5, 6, 7, 77>>
Challenge(flags) ==
    LET info == Write(av_pair(2, <<1, 2, 3>>)) \o Write(av_pair(MsvAvTimestamp, Time))
                \o Write(av_pair(MsvAvEOL, <<>>))
        before == IF Bit(flags, 25) = 1 THEN 56 ELSE 48
    IN  Raw("token", 0,
            Write(challenge_message(flags, <<8, 7, 6, 5, 4, 3, 2, 1>>, Len(info), before + 2, <<9, 9>> \o info)),
            <<<<8, 7, 6, 5, 4, 3, 2, 1>>, Time, info>>)
GccResponse(channels, withMore) ==
    LET core == IF withMore THEN Filled(server_core_data, 3) ELSE Plain(<<U32(524292), None, None>>)
        net == server_network_data([i \in 1..channels |-> U16(1004 + i)])
        blocks == WriteAll(<<Block(3073, core), Block(3074, server_security_data), Block(3075, net)>>)
    IN  Raw("gcc", 0,
            WriteChoice(0) \o WriteObjectIdentifier(T124_02_98_OID) \o WriteLength(Len(blocks) + 14)
            \o WriteChoice(0) \o WriteInteger16(31219, 1001) \o WriteInteger(1) \o WriteEnumerates(0)
            \o WriteNumberOfSet(1) \o WriteChoice(192) \o WriteOctetStream(H221_SC_KEY, 4)
            \o WriteLength(Len(blocks)) \o blocks,
            Leaves(core) \o Leaves(net))
Rectangles == <<Filled(ts_bitmap_data(0, 3, <<1, 2, 3>>), 1),
                Filled(ts_bitmap_data(1 + 1024, 2, <<4, 5>>), 40),
                Filled(ts_bitmap_data(1, 10, <<6, 7>>), 80)>>
ServerMessages ==
    <<Tree("control", 17, Filled(ts_demand_active_pdu(66538, <<82, 68, 80>>, TwoSets), 1)),
      Tree("control", 19, Filled(ts_confirm_active_pdu(66538, <<82, 68>>, TwoSets), 2)),
      Tree("control", 22, Filled(ts_deactivate_all_pdu(66538, <<65>>), 3)),
      Tree("data", 31, Filled(ts_synchronize_pdu(0), 4)), Tree("data", 20, Filled(ts_control_pdu(4), 5)),
      Tree("data", 39, Filled(ts_font_list_pdu, 6)), Tree("data", 40, Filled(ts_font_map_pdu, 7)),
      Tree("data", 47, Filled(ts_set_error_info_pdu, 8)),
      Tree("fast", 1, ts_fp_update_bitmap(Rectangles)), Tree("fast", 3, Nothing),
      Tree("fast", 32 + 1, ts_fp_update_bitmap(SubSeq(Rectangles, 1, 1))),
      Tree("fast", 9, Filled(ts_colorpointerattribute(<<1, 2>>, <<3, 4, 5>>), 9)),
      Tree("license", ErrorAlert, Filled(licensing_error_message(7, 2, <<1, 2>>), 10)),
      Tree("x224", 0, Filled(x224_connection_pdu(2, 0, 2), 11)),
      Tree("signature", 0, Filled(message_signature_ex(Zeros(16), 0), 12)),
      Challenge(<<2, 0, 0, 1>>), Challenge(<<0, 0, 0, 1>>), GccResponse(0, FALSE), GccResponse(2, TRUE),
      Raw("key", 0, [i \in 1..40 |-> i], <<[i \in 1..40 |-> i]>>)>>
    \o [i \in 1..12 |-> LET t == <<1, 2, 3, 4, 8, 12, 13, 15, 16, 17, 20, 26>>[i]
                       IN  Tree("set", t, Filled(Capability(t), 13))]
    \o [i \in 1..7 |-> LET n == <<0, 127, 128, 129, 255, 256, 32767>>[i]
                      IN  Raw("length", n, WriteLength(n), <<n>>)]
    \o [i \in 1..8 |-> LET n == <<0, 127, 254, 255, 256, 65534, 65535, 65536>>[i]
                      IN  Raw("integer", n, WriteInteger(n), <<n>>)]

\* What carries the body of a message.
Carried(e, body) ==
    CASE e.layer = "control" -> Write(share_control_header(e.type, 1002, body))
      [] e.layer = "data"    ->
             Write(share_control_header(23, 1002, Write(share_data_header(66538, e.type, body))))
      [] e.layer = "fast"    -> Write(ts_fp_update(e.type, body))
      [] e.layer = "set"     -> Write(capability_set(e.type, body))
      [] e.layer = "license" -> Write(preamble(e.type, body))
      [] e.layer = "gcc"     -> WriteAsn1(connect_response(body))
      [] e.layer = "token"   -> WriteAsn1(TsRequest(<<body>>))
      [] e.layer = "key"     -> WriteAsn1(TsValidate(body))
      [] OTHER               -> body

\* The readers of the code.  Licensing, tokens and keys take a whole message.
Seen(r) == [out |-> r.out, values |-> IF r.out = "ok" THEN Leaves(r.m) ELSE <<>>, rest |-> r.rest]
Taken(r) == [out |-> r.out, values |-> r.value, rest |-> r.rest]
One(r) == [out |-> r.out, values |-> <<r.value>>, rest |-> r.rest]
Receiver(e, in) ==
    CASE e.layer = "control"   -> Seen(FromStream(in))
      [] e.layer = "data"      -> Seen(FromPdu(in))
      [] e.layer = "fast"      -> Seen(FromFp(in))
      [] e.layer = "set"       -> Seen(FromCapabilitySet(in))
      [] e.layer = "license"   -> Seen(parse_payload(in))
      [] e.layer = "x224"      -> Seen(Read(x224_connection_pdu(1, 0, 0), in))
      [] e.layer = "signature" -> Seen(Read(message_signature_ex(Zeros(8), 0), in))
      [] e.layer = "gcc"       -> Taken(read_connect_response(in))
      [] e.layer = "token"     -> Taken(Then(read_ts_server_challenge(in),
                                             LAMBDA token, rest : read_challenge_message(token)))
      [] e.layer = "key"       -> One(read_ts_validate(in))
      [] e.layer = "length"    -> One(ReadLength(in))
      [] e.layer = "integer"   -> One(ReadInteger(in))
-----------------------------------------------------------------------------
(***************************************************************************)
(* What the client sends: the bytes, and how a peer takes them apart that  *)
(* only knows where the sizes and the offsets are.                         *)
(***************************************************************************)
Strings == <<<<68, 0>>, <<85, 0, 83, 0>>, <<>>>>
Fields == <<<<1, 2, 3>>, <<4, 5>>, <<>>, <<6>>, <<7, 8>>, Zeros(16)>>
WithVersion == <<2, 0, 0, 1>>
Flags(v) == IF v = 1 THEN WithVersion ELSE <<0, 0, 0, 1>>
InputEvent(n) == ts_input_pdu_data([i \in 1..n |-> ts_input_event(32769, Write(ts_pointer_event(2048, i, i)))])
Payload(n) == Slice([i \in 1..n |-> i % 256])
Blocks(name) == <<Write(client_core_data(name)), Write(client_security_data),
                  Write(client_network_data(<<>>))>>
Name(n) == [i \in 1..n |-> 1]
ClientMessages ==
    [i \in 1..6 |-> LET n == <<1, 127, 128, 129, 255, 300>>[i]
                    IN  Raw("frame", 0, Write(Framed(SendDataRequest(1007, 1003, Payload(n)))),
                            <<Payload(n).bytes>>)]
    \o <<LET m == Trame(<<security_header, rdp_infos(TRUE, Strings, TRUE)>>)
         IN  Raw("frame", 0, Write(Framed(SendDataRequest(1007, 1003, m))), <<Write(m)>>),
         LET m == share_control_header(23, 1007, Write(share_data_header(1, 28, Write(InputEvent(2)))))
         IN  Raw("frame", 0, Write(Framed(SendDataRequest(1007, 1003, m))), <<Write(m)>>),
         Raw("info", 0, Write(rdp_infos(FALSE, Strings, FALSE)), Strings),
         Raw("info", 1, Write(rdp_infos(TRUE, Strings, TRUE)), Strings),
         Raw("request", 0, Write(Trame(<<tpkt_header(Length(x224_connection_pdu(1, 0, 3))),
                                         x224_connection_pdu(1, 0, 3)>>)),
             <<Write(rdp_neg_req(1, 3, 0))>>),
         Raw("authenticate", 0, AuthenticateToken(Fields, Flags(0), Zeros(16)), Fields),
         Raw("authenticate", 1, AuthenticateToken(Fields, Flags(1), Zeros(16)), Fields),
         Raw("create", 0, WriteAsn1(connect_initial(write_conference_create_request(ClientBlocks(Name(0))))),
             Blocks(Name(0))),
         Raw("create", 1, WriteAsn1(connect_initial(write_conference_create_request(ClientBlocks(Name(17))))),
             Blocks(Name(17))),
         Raw("authinfo", 0, WriteAsn1(TsAuthinfo(WriteAsn1(TsCredentials(<<68>>, <<85>>, <<80>>)))),
             <<<<68>>, <<85>>, <<80>>>>),
         Raw("keys", 0, WriteAsn1(TsAuthenticate(<<1, 2>>, <<3, 4, 5>>)), <<<<1, 2>>, <<3, 4, 5>>>>)>>

AtBE(in, i, n) == Num(SubSeq(in, i, i + n - 1))
AtLE(in, i, n) == Num(Reverse(SubSeq(in, i, i + n - 1)))
Told(values) == [out |-> "ok", values |-> values, rest |-> <<>>]
Untold == [out |-> "error", values |-> <<>>, rest |-> <<>>]

\* TPKT: 4 bytes; X.224: 3; MCS: choice, initiator, channel, flags and a length.
TakeFrame(in) ==
    LET length == ReadLength(Behind(13, in))
    IN  IF AtBE(in, 3, 2) = Len(in) /\ length.value = Len(length.rest) THEN Told(<<length.rest>>)
        ELSE Untold
TakeRequest(in) ==
    IF AtBE(in, 3, 2) = Len(in) /\ in[5] = Len(in) - 5 THEN Told(<<Behind(11, in)>>) ELSE Untold
\* Five sizes behind eight bytes, then each string and two zeros.
TakeInfo(in, extended) ==
    LET size(i) == AtLE(in, 7 + 2 * i, 2)
        start(i) == 18 + Sum([j \in 1..(i - 1) |-> size(j) + 2])
    IN  IF start(6) + (IF extended THEN 190 ELSE 0) = Len(in)
        THEN Told([i \in 1..3 |-> SubSeq(in, start(i) + 1, start(i) + size(i))]) ELSE Untold
TakeFields(in) ==
    LET at(i) == 13 + 8 * (i - 1)
    IN  Told([i \in 1..6 |-> SubSeq(in, AtLE(in, at(i) + 4, 4) + 1, AtLE(in, at(i) + 4, 4) + AtLE(in, at(i), 2))])
\* The blocks of the client, as long as their headers say.
RECURSIVE TakeBlocks(_)
TakeBlocks(in) ==
    IF in = <<>> THEN <<>>
    ELSE LET n == AtLE(in, 3, 2) IN <<SubSeq(in, 5, n)>> \o TakeBlocks(Behind(n, in))
TakeCreate(in) ==
    LET r == Parse(connect_initial(<<>>), in)
        a == Behind(7, r.m.inner.fields[7].bytes)       \* key and object identifier
        data == ReadLength(a)                           \* the connect data
        b == ReadLength(Behind(12, data.rest))          \* the user data
    IN  IF r.out = "ok" /\ data.value = Len(data.rest) /\ b.value = Len(b.rest)
        THEN Told(TakeBlocks(b.rest)) ELSE Untold
TakeCredentials(in) ==
    LET r == Parse(TsAuthinfo(<<>>), in)
        c == Parse(TsCredentials(<<>>, <<>>, <<>>), r.m.fields[2].inner.bytes)
        inner == Parse(Sequence([i \in 1..3 |-> Tagged(i - 1, OctetString(<<>>))]), c.m.fields[2].inner.bytes)
    IN  IF r.out = "ok" /\ c.out = "ok" /\ inner.out = "ok" THEN Told(Values(inner.m)) ELSE Untold
TakeKeys(in) ==
    LET r == Parse(Sequence(<<Tagged(0, Integer(0)), NegoTokens(<<>>), Tagged(3, OctetString(<<>>))>>), in)
    IN  IF r.out = "ok" THEN Told(Tail(Values(r.m))) ELSE Untold
Peer(e, in) ==
    CASE e.layer = "frame"        -> TakeFrame(in)
      [] e.layer = "request"      -> TakeRequest(in)
      [] e.layer = "info"         -> TakeInfo(in, e.type = 1)
      [] e.layer = "authenticate" -> TakeFields(in)
      [] e.layer = "create"       -> TakeCreate(in)
      [] e.layer = "authinfo"     -> TakeCredentials(in)
      [] e.layer = "keys"         -> TakeKeys(in)
-----------------------------------------------------------------------------
\* Messages of a frame, which leave to the next read what is not theirs.
Bounded == {"control", "set"}
\* Messages whose body may end early inside of whole layers.
Nested == {"control", "data", "fast", "set", "license", "gcc", "token"}
FromServer(e) == e.layer \in Nested \cup {"x224", "signature", "key", "length", "integer"}

Init ==
    /\ message = NoMessage /\ short = FALSE /\ behind = <<>>
    /\ wire = <<>> /\ got = Unread

Transmit(e, body, isShort, tail) ==
    /\ message = NoMessage
    /\ message' = e
    /\ short' = isShort
    /\ behind' = tail
    /\ wire' = Carried(e, body) \o tail
    /\ UNCHANGED got

\* A whole message, and what follows it in its frame.
Send ==
    \E e \in Range(ServerMessages) \cup Range(ClientMessages), tail \in Behinds :
        /\ tail # <<>> => e.layer \in Bounded
        /\ Transmit(e, e.body, FALSE, tail)

\* The server puts less than a whole message into layers that count right.
SendShort ==
    \E e \in Range(ServerMessages) : \E n \in 0..(Len(e.body) - 1) :
        /\ e.layer \in Nested
        /\ Transmit(e, First(n, e.body), TRUE, <<>>)

\* A frame ends before the message does.
Cut ==
    /\ message # NoMessage /\ FromServer(message) /\ ~short /\ behind = <<>> /\ got = Unread
    /\ \E n \in 0..(Len(wire) - 1) : wire' = First(n, wire)
    /\ short' = TRUE
    /\ UNCHANGED <<message, behind, got>>

Receive ==
    /\ message # NoMessage /\ got = Unread
    /\ got' = IF FromServer(message) THEN Receiver(message, wire) ELSE Peer(message, wire)
    /\ UNCHANGED <<message, short, behind, wire>>

Next == Send \/ SendShort \/ Cut \/ Receive

Spec == Init /\ [][Next]_vars
-----------------------------------------------------------------------------
Arrived == got # Unread

\* A whole message of the server is read to the values that were sent, in their
\* order, and what follows it stays where it is: the templates of global.rs and
\* capability.rs agree with the layers around them on every size, every optional
\* field and every length of PER and BER (data.rs:423, per.rs:17, gcc.rs:332).
ReadUndoesWrite ==
    Arrived /\ FromServer(message) /\ ~short =>
        got = [out |-> "ok", values |-> message.values, rest |-> behind]

\* A message that ends early is an error or the first values of the whole one,
\* never other values.  Only the readers of the connect response and of the
\* challenge panic: they index the bytes before they know how many there are
\* (data.rs:432, gcc.rs:380, ntlm.rs:163).
TruncationIsSeen ==
    Arrived /\ short =>
        \/ got.out = "error"
        \/ got.out = "ok" /\ IsPrefix(got.values, message.values)
        \/ got.out = "panic" /\ message.layer \in {"gcc", "token"}

\* Every size and every offset the client writes is right for the bytes it sends,
\* so that a peer that trusts them finds the values, and a message is as long as
\* its layers were told (data.rs:470, tpkt.rs:26, mcs.rs:260, gcc.rs:310,
\* sec.rs:80, ntlm.rs:123).
SizesTellTheTruth ==
    /\ message # NoMessage => message.length = Len(message.body)
    /\ Arrived /\ ~FromServer(message) => got = Told(message.values)
=============================================================================
