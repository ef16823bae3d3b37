------------------------------- MODULE Tokens -------------------------------
(***************************************************************************)
(* The messages of the connection sequence: ASN.1 of MCS and CredSSP, the  *)
(* tokens of NTLM, the info packet and licensing.                          *)
(***************************************************************************)
EXTENDS Layouts

\* core/mcs.rs, connect_initial and connect_response.
domain_parameters(numbers) == Sequence([i \in 1..8 |-> Integer(numbers[i])])
connect_initial(data) ==
    ImplicitTag(Application(101), Sequence(<<
        OctetString(<<1>>), OctetString(<<1>>), Bool(TRUE),
        domain_parameters(<<34, 2, 0, 1, 0, 1, 65535, 2>>),
        domain_parameters(<<1, 1, 1, 1, 0, 1, 1056, 2>>),
        domain_parameters(<<65535, 64535, 65535, 1, 0, 1, 65535, 2>>),
        OctetString(data)>>))
connect_response(data) ==
    ImplicitTag(Application(102), Sequence(<<
        Enumerate(0), Integer(0), domain_parameters(<<22, 3, 0, 1, 0, 1, 65528, 2>>),
        OctetString(data)>>))

\* The user data of the response, and the blocks in it.
read_connect_response(in) ==
    LET r == Parse(connect_response(<<>>), in)
    IN  IF r.out # "ok" THEN Bad(in) ELSE read_conference_create_response(r.m.inner.fields[4].bytes)
-----------------------------------------------------------------------------
\* nla/cssp.rs.  Version 2, and what is in the message behind its context tags.
Tagged(n, x) == ExplicitTag(Context(n), x)
NegoToken(token) == Sequence(<<Tagged(0, OctetString(token))>>)
NegoTokens(tokens) ==
    Tagged(1, SequenceOf([i \in DOMAIN tokens |-> NegoToken(tokens[i])], NegoToken(<<>>)))
TsRequest(tokens) == Sequence(<<Tagged(0, Integer(2)), NegoTokens(tokens)>>)
TsAuthenticate(token, key) ==
    Sequence(<<Tagged(0, Integer(2)), NegoTokens(<<token>>), Tagged(3, OctetString(key))>>)
TsValidate(key) == Sequence(<<Tagged(0, Integer(2)), Tagged(3, OctetString(key))>>)
TsCredentials(domain, user, password) ==
    Sequence(<<Tagged(0, Integer(1)), Tagged(1, OctetString(WriteAsn1(Sequence(<<
        Tagged(0, OctetString(domain)), Tagged(1, OctetString(user)),
        Tagged(2, OctetString(password))>>))))>>)
TsAuthinfo(info) == Sequence(<<Tagged(0, Integer(2)), Tagged(2, OctetString(info))>>)

\* The first token of the list, if the message is one and has any.
read_ts_server_challenge(in) ==
    LET r == Parse(TsRequest(<<>>), in)
        items == r.m.fields[2].inner.items
    IN  IF r.out # "ok" THEN Bad(in)
        ELSE IF items = <<>> THEN [out |-> "panic", value |-> <<>>, rest |-> <<>>]
        ELSE Got(items[1].fields[1].inner.bytes, <<>>)
read_ts_validate(in) ==
    LET r == Parse(TsValidate(<<>>), in)
    IN  IF r.out # "ok" THEN Bad(in) ELSE Got(r.m.fields[2].inner.bytes, <<>>)
-----------------------------------------------------------------------------
\* nla/ntlm.rs.  The flags are four bytes; the version is there when bit 25 says so.
Signature == <<78, 84, 76, 77, 83, 83, 80, 0>>
version == Plain(<<U8(6), U8(0), U16(6002), Trame(<<U16(0), U8(0)>>), U8(15)>>)
NegotiateFlags(flags) ==
    DynOption([kind |-> "int", big |-> FALSE, bytes |-> flags], SkipUnless("Version", {25}, {}))
\* The length of a field of the payload, twice, and its offset.
At(length, offset) == Plain(<<U16(length), U16(length), U32(offset)>>)
negotiate_message(flags) ==
    Component(<<<<"", Slice(Signature)>>, <<"", U32(1)>>, <<"NegotiateFlags", NegotiateFlags(flags)>>,
                <<"", At(0, 0)>>, <<"", At(0, 0)>>, <<"Version", version>>, <<"Payload", Slice(<<>>)>>>>)
challenge_message(flags, challenge, length, offset, payload) ==
    Component(<<<<"", Check(Slice(Signature))>>, <<"", Check(U32(2))>>, <<"", At(0, 0)>>,
                <<"NegotiateFlags", NegotiateFlags(flags)>>, <<"ServerChallenge", Slice(challenge)>>,
                <<"", Slice(Zeros(8))>>, <<"TargetInfoLen", U16(length)>>, <<"", U16(length)>>,
                <<"TargetInfoBufferOffset", U32(offset)>>, <<"Version", version>>,
                <<"Payload", Slice(payload)>>>>)

\* A fault: the MIC is not counted.
AuthenticateHeaderBare(flags) == IF Bit(flags, 25) = 0 THEN 64 ELSE 72
\* The message without its MIC, and the payload behind the MIC; the offsets count
\* the 16 bytes between them.
AuthenticateHeader(flags) == IF Bit(flags, 25) = 0 THEN 80 ELSE 88
Offset(fields, i, flags) == AuthenticateHeader(flags) + Len(Flat(SubSeq(fields, 1, i - 1)))
authenticate_message(fields, flags) ==
    Component(<<<<"", Check(Slice(Signature))>>, <<"", Check(U32(3))>>,
                <<"Fields", Trame([i \in DOMAIN fields |->
                                     At(Len(fields[i]), Offset(fields, i, flags))])>>,
                <<"NegotiateFlags", NegotiateFlags(flags)>>, <<"Version", version>>>>)
AuthenticateToken(fields, flags, mic) ==
    Write(authenticate_message(fields, flags)) \o mic \o Flat(fields)

\* A field of the payload: outside of it the indices are a panic.
get_payload_field(m, length, offset) ==
    LET payload == Visit(Field(m, "Payload"))
        start == offset - (Length(m) - Len(payload))
    IN  IF start < 0 \/ start + length > Len(payload) THEN [out |-> "panic", value |-> <<>>, rest |-> <<>>]
        ELSE Got(SubSeq(payload, start + 1, start + length), <<>>)

av_pair(id, value) ==
    Component(<<<<"AvId", U16(id)>>, <<"AvLen", Says(Len(value), "Value", 0)>>, <<"Value", Slice(value)>>>>)
MsvAvEOL == 0
MsvAvTimestamp == 7
AvIds == 0..10
\* The pairs up to the end of the list; the last of two with one id stays.
RECURSIVE read_target_info(_, _)
read_target_info(found, in) ==
    LET r == Read(av_pair(0, <<>>), in)
        id == NumberOf(r.m, "AvId")
    IN  IF r.out # "ok" THEN Bad(in)
        ELSE IF id \notin AvIds THEN Bad(in)
        ELSE IF id = MsvAvEOL THEN Got(found, r.rest)
        ELSE read_target_info([i \in DOMAIN found \cup {id} |->
                                 IF i = id THEN Visit(Field(r.m, "Value")) ELSE found[i]], r.rest)

\* What the client takes from a challenge: the number, the time and the target info.
read_challenge_message(in) ==
    LET r == Read(challenge_message(Zeros(4), Zeros(8), 0, 0, <<>>), in)
        field == get_payload_field(r.m, NumberOf(r.m, "TargetInfoLen"),
                                   NumberOf(r.m, "TargetInfoBufferOffset"))
        pairs == read_target_info([i \in {} |-> <<>>], field.value)
    IN  IF r.out # "ok" THEN Bad(in)
        ELSE IF field.out # "ok" \/ pairs.out # "ok"
        THEN [out |-> IF field.out # "ok" THEN field.out ELSE pairs.out, value |-> <<>>, rest |-> <<>>]
        ELSE IF MsvAvTimestamp \notin DOMAIN pairs.value
        THEN [out |-> "panic", value |-> <<>>, rest |-> <<>>]
        ELSE Got(<<Visit(Field(r.m, "ServerChallenge")), pairs.value[MsvAvTimestamp], field.value>>, <<>>)

message_signature_ex(checksum, seq) == Plain(<<Check(U32(1)), Slice(First(8, checksum)), U32(seq)>>)
-----------------------------------------------------------------------------
\* core/sec.rs: the sizes of the strings do not count their two zeros.
rdp_extended_infos ==
    Component(<<<<"", U16(2)>>, <<"cbClientAddress", DynOption(U16(0), SizeBy("clientAddress", 1, 2))>>,
                <<"clientAddress", Slice(Zeros(2))>>, <<"", U16(0)>>, <<"", Slice(Zeros(2))>>,
                <<"", Slice(Zeros(172))>>, <<"", U32(0)>>, <<"", U32(0)>>>>)
rdp_infos(extended, strings, autologon) ==
    LET formats == [i \in 1..3 |-> strings[i] \o Zeros(2)]
    IN  Plain(<<U32(0), U32(65536 + 256 + 64 + 16 + 2 + 1 + (IF autologon THEN 8 ELSE 0))>>
              \o [i \in 1..3 |-> U16(Len(formats[i]) - 2)] \o Pads(2, U16(0))
              \o [i \in 1..3 |-> Slice(formats[i])] \o Pads(2, Slice(Zeros(2)))
              \o <<IF extended THEN rdp_extended_infos ELSE Nothing>>)
security_header == Plain(<<U16(0), U16(0)>>)

\* core/license.rs.
preamble(type, message) ==
    Component(<<<<"bMsgtype", U8(type)>>, <<"flag", Check(U8(3))>>,
                <<"wMsgSize", Says(Len(message), "message", 4)>>, <<"message", Slice(message)>>>>)
license_binary_blob(data) ==
    Component(<<<<"", U16(0)>>, <<"wBlobLen", Says(Len(data), "blobData", 0)>>, <<"blobData", Slice(data)>>>>)
licensing_error_message(code, transition, blob) ==
    Plain(<<U32(code), U32(transition), license_binary_blob(blob)>>)
ErrorAlert == 255
AlertTemplate(m) == IF NumberOf(m, "bMsgtype") = ErrorAlert THEN licensing_error_message(0, 0, <<>>) ELSE None
parse_payload(in) == Within(Read(preamble(0, <<>>), in), "message", AlertTemplate)
=============================================================================
