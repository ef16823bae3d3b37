------------------------------ MODULE Layouts ------------------------------
(***************************************************************************)
(* The messages of the global channel, GCC, MCS, X.224 and TPKT, and how   *)
(* the received ones are taken apart.  A field has a name where another    *)
(* one speaks about it; the values are the defaults of the templates.      *)
(***************************************************************************)
EXTENDS Per, Asn1

Plain(parts) == Component([i \in DOMAIN parts |-> <<"", parts[i]>>])
Zeros(n) == [i \in 1..n |-> 0]
Pads(n, m) == [i \in 1..n |-> m]

\* A number that says the size of the field of that name, with `more' of its own.
Says(size, name, more) == DynOption(U16(size + more), SizeBy(name, 1, 0 - more))
-----------------------------------------------------------------------------
\* core/global.rs: share control and share data, and what they carry.
share_control_header(pduType, source, message) ==
    Component(<<<<"totalLength", Says(Len(message), "pduMessage", 6)>>,
                <<"pduType", U16(pduType)>>, <<"", Some(U16(source))>>,
                <<"pduMessage", Slice(message)>>>>)
share_data_header(share, pduType2, message) ==
    Component(<<<<"", U32(share)>>, <<"", U8(0)>>, <<"", U8(1)>>,
                <<"uncompressedLength", Says(Len(message), "payload", 18)>>,
                <<"pduType2", U8(pduType2)>>, <<"", U8(0)>>, <<"", U16(0)>>,
                <<"payload", Slice(message)>>>>)

\* capability.rs: a set says its size; its length counts the header of four bytes.
capability_set(type, message) ==
    Component(<<<<"capabilitySetType", U16(type)>>,
                <<"lengthCapability", Says(Len(message), "capabilitySet", 4)>>,
                <<"capabilitySet", Slice(message)>>>>)
Sets(items) == Array(items, capability_set(1, <<>>))

SetsSize(items) == Says(LengthAll(items), "capabilitySets", 4)
ts_demand_active_pdu(share, source, items) ==
    Component(<<<<"shareId", U32(share)>>,
                <<"lengthSourceDescriptor", Says(Len(source), "sourceDescriptor", 0)>>,
                <<"lengthCombinedCapabilities", SetsSize(items)>>,
                <<"sourceDescriptor", Slice(source)>>,
                <<"numberCapabilities", U16(Len(items))>>, <<"pad2Octets", U16(0)>>,
                <<"capabilitySets", Sets(items)>>, <<"sessionId", U32(0)>>>>)
ts_confirm_active_pdu(share, source, items) ==
    Component(<<<<"shareId", U32(share)>>, <<"originatorId", Check(U16(1002))>>,
                <<"lengthSourceDescriptor", Says(Len(source), "sourceDescriptor", 0)>>,
                <<"lengthCombinedCapabilities", SetsSize(items)>>,
                <<"sourceDescriptor", Slice(source)>>,
                <<"numberCapabilities", U16(Len(items))>>, <<"pad2Octets", U16(0)>>,
                <<"capabilitySets", Sets(items)>>>>)
ts_deactivate_all_pdu(share, source) ==
    Component(<<<<"shareId", U32(share)>>,
                <<"lengthSourceDescriptor", Says(Len(source), "sourceDescriptor", 0)>>,
                <<"sourceDescriptor", Slice(source)>>>>)

ts_synchronize_pdu(user) == Plain(<<Check(U16(1)), Some(U16(user))>>)
ts_control_pdu(action) == Plain(<<U16(action), U16(0), U32(0)>>)
ts_font_list_pdu == Plain(<<U16(0), U16(0), U16(3), U16(50)>>)
ts_font_map_pdu == Plain(<<U16(0), U16(0), U16(3), U16(4)>>)
ts_set_error_info_pdu == Plain(<<U32(0)>>)

\* Input events.
ts_input_event(type, data) == Plain(<<U32(0), U16(type), Slice(data)>>)
ts_input_pdu_data(events) == Plain(<<U16(Len(events)), U16(0), Array(events, ts_input_event(32769, <<>>))>>)
ts_pointer_event(flags, x, y) == Plain(<<U16(flags), U16(x), U16(y)>>)
ts_keyboard_event(flags, code) == Plain(<<U16(flags), U16(code), U16(0)>>)

\* Fast path updates.  The flags of compression are there when bit 5 says so; the
\* header of a compressed bitmap unless bit 10 says not, and its size then counts.
ts_fp_update(header, data) ==
    Component(<<<<"updateHeader", DynOption(U8(header), SkipUnless("compressionFlags", {5}, {}))>>,
                <<"compressionFlags", U8(0)>>, <<"size", Says(Len(data), "updateData", 0)>>,
                <<"updateData", Slice(data)>>>>)
ts_cd_header(size) ==
    Component(<<<<"cbCompFirstRowSize", Check(U16(0))>>, <<"cbCompMainBodySize", U16(size)>>,
                <<"cbScanWidth", U16(0)>>, <<"cbUncompressedSize", U16(0)>>>>)
ts_bitmap_data(flags, length, data) ==
    Component([i \in 1..7 |-> <<"", U16(0)>>]
              \o <<<<"flags", DynOption(U16(flags), SkipUnless("bitmapComprHdr", {0}, {10}))>>,
                   <<"bitmapLength", Says(length, "bitmapDataStream", 0)>>,
                   <<"bitmapComprHdr", DynOption(ts_cd_header(Len(data)),
                                          SizeIn("bitmapDataStream", "cbCompMainBodySize"))>>,
                   <<"bitmapDataStream", Slice(data)>>>>)
ts_fp_update_bitmap(rectangles) ==
    Plain(<<Check(U16(1)), U16(Len(rectangles)), Array(rectangles, ts_bitmap_data(0, 0, <<>>))>>)
ts_colorpointerattribute(and, xor) ==
    Component(<<<<"", U16(0)>>, <<"", U32(0)>>, <<"", U16(0)>>, <<"", U16(0)>>,
                <<"lengthAndMask", Says(Len(and), "andMaskData", 0)>>,
                <<"lengthXorMask", Says(Len(xor), "xorMaskData", 0)>>,
                <<"xorMaskData", Slice(xor)>>, <<"andMaskData", Slice(and)>>, <<"", Some(U8(0))>>>>)
Nothing == Plain(<<>>)
-----------------------------------------------------------------------------
\* capability.rs: the sets the client can read.
ts_general_capability_set ==
    Plain(<<U16(1), U16(3), Check(U16(512)), U16(0), Check(U16(0)), U16(0), Check(U16(0)),
            Check(U16(0)), Check(U16(0)), U8(0), U8(0)>>)
ts_bitmap_capability_set ==
    Plain(<<U16(0)>> \o Pads(3, Check(U16(1))) \o Pads(4, U16(0))
          \o <<Check(U16(1)), Check(U8(0)), U8(0), Check(U16(1)), U16(0)>>)
ts_order_capability_set ==
    Plain(<<Slice(Zeros(16)), U32(0), U16(1), U16(20), U16(0), U16(1), U16(0), U16(2),
            Slice(Zeros(32)), U16(0), U16(0), U32(0), U32(480 * 480)>> \o Pads(4, U16(0)))
ts_bitmap_cache_capability_set == Plain(Pads(6, U32(0)) \o Pads(6, U16(0)))
ts_pointer_capability_set == Plain(<<U16(0), U16(20)>>)
ts_input_capability_set ==
    Plain(<<U16(0), U16(0), U32(1036), U32(4), U32(0), U32(12), Slice(Zeros(64))>>)
ts_brush_capability_set == Plain(<<U32(0)>>)
cache_entry == Plain(<<U16(0), U16(0)>>)
ts_glyph_capability_set == Plain(<<Trame(Pads(10, cache_entry)), U32(0), U16(0), U16(0)>>)
ts_offscreen_capability_set == Plain(<<U32(0), U16(0), U16(0)>>)
ts_virtualchannel_capability_set == Plain(<<U32(0), Some(U32(0))>>)
ts_sound_capability_set == Plain(<<U16(0), U16(0)>>)
ts_multifragment_update_capability_ts == Plain(<<U32(0)>>)
CapabilityTypes == {1, 2, 3, 4, 8, 12, 13, 15, 16, 17, 20, 26}
Capability(type) ==
    CASE type = 1  -> ts_general_capability_set      [] type = 2  -> ts_bitmap_capability_set
      [] type = 3  -> ts_order_capability_set        [] type = 4  -> ts_bitmap_cache_capability_set
      [] type = 8  -> ts_pointer_capability_set      [] type = 12 -> ts_sound_capability_set
      [] type = 13 -> ts_input_capability_set        [] type = 15 -> ts_brush_capability_set
      [] type = 16 -> ts_glyph_capability_set        [] type = 17 -> ts_offscreen_capability_set
      [] type = 20 -> ts_virtualchannel_capability_set
      [] type = 26 -> ts_multifragment_update_capability_ts
-----------------------------------------------------------------------------
\* Reading in layers: the payload of one message by the template of its type.
Within(r, name, Template(_)) ==
    IF r.out # "ok" THEN r
    ELSE LET template == Template(r.m)
         IN  IF template = None THEN Failed(r.m, r.rest)
             ELSE LET inner == Read(template, Visit(Field(r.m, name)))
                  IN  [inner EXCEPT !.rest = r.rest]
NumberOf(m, name) == Num(Visit(Field(m, name)))

\* PDU::from_stream and PDU::from_control.
BodyTemplate(control) ==
    LET type == NumberOf(control, "pduType")
    IN  CASE type = 17 -> ts_demand_active_pdu(0, <<>>, <<>>)
          [] type = 19 -> ts_confirm_active_pdu(0, <<>>, <<>>)
          [] type = 22 -> ts_deactivate_all_pdu(0, <<>>)
          [] type = 23 -> share_data_header(0, 50, <<>>)
          [] OTHER     -> None
FromStream(in) == Within(Read(share_control_header(17, 0, <<>>), in), "pduMessage", BodyTemplate)

\* DataPDU::from_pdu.
DataTemplate(pdu) ==
    LET type == NumberOf(pdu, "pduType2")
    IN  CASE type = 31 -> ts_synchronize_pdu(0)    [] type = 20 -> ts_control_pdu(4)
          [] type = 39 -> ts_font_list_pdu         [] type = 40 -> ts_font_map_pdu
          [] type = 47 -> ts_set_error_info_pdu    [] OTHER     -> None
FromPdu(in) == Within(FromStream(in), "payload", DataTemplate)

\* FastPathUpdate::from_fp.
UpdateTemplate(update) ==
    LET type == NumberOf(update, "updateHeader") % 16
    IN  CASE type = 1 -> ts_fp_update_bitmap(<<>>)  [] type = 9 -> ts_colorpointerattribute(<<>>, <<>>)
          [] type \in {3, 5} -> Nothing             [] OTHER    -> None
FromFp(in) == Within(Read(ts_fp_update(0, <<>>), in), "updateData", UpdateTemplate)

\* Capability::from_capability_set.
SetTemplate(set) ==
    LET type == NumberOf(set, "capabilitySetType")
    IN  IF type \in CapabilityTypes THEN Capability(type) ELSE None
FromCapabilitySet(in) == Within(Read(capability_set(1, <<>>), in), "capabilitySet", SetTemplate)
-----------------------------------------------------------------------------
\* core/tpkt.rs, core/x224.rs and core/mcs.rs: what is put before a message.
tpkt_header(size) == Plain(<<U8(3), U8(0), BE(2, size + 4)>>)
rdp_neg_req(type, result, flag) == Plain(<<U8(type), U8(flag), Check(U16(8)), U32(result)>>)
x224_crq(len, code) == Plain(<<U8(len + 6), U8(code), Trame(<<U16(0), U16(0), U8(0)>>)>>)
x224_connection_pdu(type, mode, protocols) ==
    LET negotiation == rdp_neg_req(type, protocols, mode)
    IN  Plain(<<x224_crq(Length(negotiation), 224), negotiation>>)
x224_header == Plain(<<U8(2), U8(240), Check(U8(128))>>)
mcs_pdu_header(pdu, options) == U8(4 * pdu + options)
SendDataRequest(user, channel, message) ==
    Trame(<<mcs_pdu_header(25, 0), BE(2, user - 1001), BE(2, channel), U8(112),
            Slice(WriteLength(Length(message))), message>>)
Framed(message) ==
    LET x224 == Trame(<<x224_header, message>>) IN Trame(<<tpkt_header(Length(x224)), x224>>)

\* core/gcc.rs: the blocks of the client and of the server.  A name is the number
\* of bytes of each of its characters.  Its field takes 16 bytes of it, or is
\* filled up to 16 bytes; as UTF-16 that is 32 bytes when all of them are ASCII.
ToUnicode(name) == Zeros(2 * Sum([i \in DOMAIN name |-> IF name[i] = 4 THEN 2 ELSE 1]))
ClientName(name) ==
    IF Sum(name) < 16 THEN ToUnicode(name) \o Zeros(2 * (16 - Sum(name)))
    ELSE ToUnicode(CHOOSE p \in Prefixes(name) : Sum(p) = 16)
client_core_data(name) ==
    Plain(<<U32(524292), U16(800), U16(600), U16(51713), U16(43523), U32(1033), U32(3790),
            Slice(ClientName(name)), U32(4), U32(0), U32(12), Slice(Zeros(64)),
            U16(51713), U16(1), U32(0), U16(24), U16(10), U16(1), Slice(Zeros(64)),
            U8(0), U8(0), U32(1)>>)
client_security_data == Plain(<<U32(11), U32(0)>>)
client_network_data(channels) == Plain(<<U32(Len(channels)), Slice(WriteAll(channels))>>)
block_header(type, length) == Plain(<<U16(type), U16(length + 4)>>)
Block(type, data) == Trame(<<block_header(type, Length(data)), data>>)
ClientBlocks(name) ==
    WriteAll(<<Block(49153, client_core_data(name)), Block(49154, client_security_data),
               Block(49155, client_network_data(<<>>))>>)
server_core_data == Plain(<<U32(0), Some(U32(0)), Some(U32(0))>>)
server_security_data == Plain(<<U32(0), U32(0)>>)
server_network_data(channels) ==
    Component(<<<<"MCSChannelId", Check(U16(1003))>>,
                <<"channelCount", DynOption(U16(Len(channels)), SizeBy("channelIdArray", 2, 0))>>,
                <<"channelIdArray", Array(channels, U16(0))>>>>)

T124_02_98_OID == <<0, 0, 20, 124, 0, 1>>
H221_CS_KEY == <<68, 117, 99, 97>>
H221_SC_KEY == <<77, 99, 68, 110>>
write_conference_create_request(data) ==
    WriteChoice(0) \o WriteObjectIdentifier(T124_02_98_OID) \o WriteLength(Len(data) + 14)
    \o WriteChoice(0) \o WriteSelection(8) \o WriteNumericString(<<1>>, 1) \o WritePadding(1)
    \o WriteNumberOfSet(1) \o WriteChoice(192) \o WriteOctetStream(H221_CS_KEY, 4)
    \o WriteOctetStream(data, 0)

\* The blocks of the server, until a header cannot be read; a length below its
\* own header is a panic, and so is a block that is missing at the end.
BlockTemplate(type) ==
    CASE type = 3073 -> server_core_data       [] type = 3074 -> server_security_data
      [] type = 3075 -> server_network_data(<<>>)
      [] OTHER       -> None
RECURSIVE ReadBlocks(_, _)
ReadBlocks(found, in) ==
    IF Len(in) < 4
    THEN IF {3073, 3075} \subseteq DOMAIN found
         THEN Got(Leaves(found[3073]) \o Leaves(found[3075]), <<>>)
         ELSE [out |-> "panic", value |-> <<>>, rest |-> <<>>]
    ELSE LET type == in[1] + 256 * in[2]
             size == in[3] + 256 * in[4] - 4
             data == Behind(4, in)
             r == Read(BlockTemplate(type), First(size, data))
         IN  IF size < 0 THEN [out |-> "panic", value |-> <<>>, rest |-> <<>>]
             ELSE IF Len(data) < size \/ r.out = "error" THEN Bad(in)
             ELSE IF r.out = "panic" THEN [out |-> "panic", value |-> <<>>, rest |-> <<>>]
             ELSE ReadBlocks([t \in DOMAIN found \cup {type} |-> IF t = type THEN r.m ELSE found[t]],
                             Behind(size, data))
Skipping(Reader(_), r) == Then(r, LAMBDA v, rest : Reader(rest))
read_conference_create_response(in) ==
    LET a == Then(ReadChoice(in), LAMBDA v, s : ReadObjectIdentifier(T124_02_98_OID, s))
        b == Skipping(ReadChoice, Skipping(ReadLength, a))
        c == Then(b, LAMBDA v, s : ReadInteger16(1001, s))
        d == Skipping(ReadNumberOfSet, Skipping(ReadEnumerates, Skipping(ReadInteger, c)))
        e == Then(Skipping(ReadChoice, d), LAMBDA v, s : ReadOctetStream(H221_SC_KEY, 4, s))
    IN  Then(Skipping(ReadLength, e), LAMBDA n, s : ReadBlocks([t \in {} |-> None], First(IF n < Len(s) THEN n ELSE Len(s), s)))
=============================================================================
