# A TLA+ development for rdp-rs

`rdp-rs` is an RDP client library with a client, `mstsc-rs`, built on it. This
directory holds TLA+ modules that model it from the bytes of its messages
to its two threads, TLC configurations that check them on small instances, and
theorems about them that the TLAPS proof system checks for every value of the
constants. `PROJECT.json` maps each definition to the lines it stands for and
lists runs, hazards, findings and theorems.

Paths below are those of the repository (`src/core/global.rs` is
`src/src/core/global.rs` in `PROJECT.json`).

## The system

| Part | State | Operations | Hard behaviour | What makes it correct |
|---|---|---|---|---|
| Global channel, `core/global.rs` | `ClientState`, share id, server capabilities | `read` (one handler per state), `write_input_event` | activation and reactivation, several PDUs per payload, five writes in one call of `read`, fast path mixed with the handshake | PDUs leave in protocol order, the state moves only after complete writes, client and server never disagree on the share, no bitmap is lost |
| `RdpClient`, `core/client.rs` | MCS and global channel | `read`, `write`, `try_write`, `shutdown` | input before and between activations, writes after a shutdown | as above, seen by the caller |
| `Connector`, `core/client.rs` | configuration | `connect`: X.224, TLS or NLA, MCS, SEC, license | order of the layers, what each may answer, who gets the credentials | every layer is complete before the next begins; client and server end with the same protocol, user and channels |
| MCS, `core/mcs.rs` | user id, channel map | `connect`, `read`, `write`, `shutdown` | joins in the order of a HashMap, rejected joins, u16 arithmetic of user ids | a channel is used only when it was joined |
| X.224, `core/x224.rs` | selected protocol | `connect`, `read`, `write` | the answer decides what the link becomes | the protocol was asked for |
| SEC and license, `core/sec.rs`, `core/license.rs` | none | `connect` | two of many license messages are accepted | ends exactly on a valid license |
| TPKT, `core/tpkt.rs` | link | `read`, `write` | two header formats, empty bodies, u16 sizes | a frame read is a frame written |
| Link, `model/link.rs` | raw or TLS stream | `read`, `write`, `start_ssl`, `shutdown` | short writes, `read(0)`, blocking | bytes keep their order, none is lost |
| CredSSP and NTLM, `nla/` | keys, RC4 streams, sequence number | `cssp_connect`, `gss_wrapex`, `gss_unwrapex` | message boundaries, streams that must stay in step | both ends stand at the same places of the keystreams; only a server with the account gets the credentials |
| `mstsc-rs`, `bin/mstsc-rs.rs` | two threads, a mutex, an atomic flag, an mpsc channel; window buffer, last button, last keys | `launch_rdp_thread`, `main_gui_loop`, `fast_bitmap_transfer`, `main` | select against a buffered stream, reads under a mutex, shutdown against a running read, one event for a change of buttons | bitmaps in order and where they belong, the process ends, nobody waits for ever, the server holds what the user holds |
| Bitmaps, `core/event.rs`, `codec/rle.rs` | decoder registers, buffers | `decompress` | orders that depend on the one before, orders that cross lines, products in u16 | the decoder draws what the encoder painted; indices stay inside |
| Message model, `model/data.rs` | the values of a template | `read`, `write`, `length`, `visit`, `options` | optional fields, sizes told by one field for another | reading undoes writing; a short message is noticed; `length` is what `write` writes |
| PER and ASN.1, `core/per.rs`, `nla/asn1.rs` | none | encode, decode | lengths and integers that change form at 0x7f, 0xff, 0xffff | as above |
| GCC, capabilities, PDU layouts | none | templates and their readers | sizes with and without headers, blocks that may be missing | as above |

The layers own each other (`RdpClient` > `mcs` > `x224` > `tpkt` > `link`); a
call goes down and an error comes up with `?`. Nothing is asynchronous but the
two threads of `mstsc-rs`, which share the `RdpClient` through a mutex. Updates
reach the caller through a callback inside `read`.

## The modules

| Module | Models | Uses |
|---|---|---|
| `GlobalChannel` | `core/global.rs` through `RdpClient`, against any peer | |
| `GlobalChannelProofs` | theorems about the client with any peer | `GlobalChannel` |
| `SessionProofs`, `OrderlyProofs` | theorems about client and server: types and order; the refinement, and orderly servers | `Session`, `GlobalChannelProofs` |
| `FramingProofs` | theorems about the stream, and its refinement | `Framing` |
| `ConnectProofs`, `ConnectionProofs` | theorems about `connect` with any peer, with the servers | `Connect`, `Connection` |
| `MstscProofs` | theorems about the threads | `Mstsc` |
| `Activation` | what the activation sequence promises: the handover of shares (abstract) | |
| `Session` | `GlobalChannel` with a server that follows the sequence; implements `Activation` | `GlobalChannel`, `Activation` |
| `Mstsc` | the threads of `mstsc-rs`, the TLS stream between socket and client, a server | |
| `FrameQueue` | what TPKT promises: a queue of frames (abstract) | |
| `Framing` | `Link` and `TPKT` over a stream of bytes; implements `FrameQueue` | `FrameQueue` |
| `Ntlm` | NTLMv2 and its security interface, as terms | |
| `Connect` | `Connector::connect` through all layers, against any peer | `Ntlm` |
| `Layers` | what the connection sequence promises: ask, grant, enter, layer by layer (abstract) | |
| `Connection` | `Connect` with servers of four kinds; implements `Layers` | `Connect`, `Layers` |
| `Message` | the templates of `model/data.rs`: write, length, visit, read | |
| `Per`, `Asn1` | PER; the ASN.1 values of `nla/asn1.rs` over DER | |
| `Layouts` | the templates of TPKT, X.224, MCS, GCC, the global channel and the capabilities, and their readers | `Message`, `Per` |
| `Tokens` | the messages of MCS connect, CredSSP, NTLM, SEC and licensing, and their readers | `Layouts`, `Asn1` |
| `Codec` | one message on its way, whole, cut or followed by others | `Tokens` |
| `Bits` | bytes and words, and the operators on their bits | |
| `Rle` | the two decoders of `codec/rle.rs` | `Bits` |
| `Paint` | a server that paints: their reference | `Rle` |
| `Window` | `decompress`, the copy into the window, mouse and keys | `Paint` |
| `WindowProofs` | theorems about decoders, window and input | `Window` |
| `MCGlobalChannel`, `MCSession`, `MCConnection`, `MCCodec`, `MCWindow` | values for TLC | |

### GlobalChannel

`state`, `share_id`, `server_capabilities` are the fields of `global::Client`;
`result` is what the last call returned; `link` is the transport. `s2c` holds
the payloads not yet read and `c2s` every PDU the client has put on the link.
One action is one call: each `Read...` is a whole call of `RdpClient::read` in
one state, `Write`, `TryWrite` and `Shutdown` are the other calls, `Deliver`
and `LinkDrop` belong to the peer and the network.

- A PDU is its type and, where the code looks, its share. A control PDU has its
  action in its type. Parsing fails in three places, which the code treats
  differently: `Malformed` has no whole header, the types of `ControlError` fail in
  `PDU::from_control` and those of `DataError` in `DataPDU::from_pdu`, each with
  its own error (a type that is not parsed, a number that is no type, a body cut
  short, a constant that is another).
- `WriteFailed` is the `?` after each `write_pdu`: a strict prefix of the PDUs
  reaches the link, and the link is gone. `read_demand_active_pdu` has set the
  share and the capabilities by then; the state stays.
- A handshake state parses the first PDU of a payload and drops the rest
  (`FirstType`); `read_data_pdu` goes through an array of them, which a header
  that is not whole ends with `Ok`, and a PDU that `from_control` fails on with
  its error; a Deactivate All in front of it has moved the state by then
  (`Deactivates`, `AbortsAt`).
- `handled` lists all the fast path updates gone through, bitmaps (which went to
  the callback) and others; an update the client cannot parse is passed over.
- `server_capabilities` has one entry for the capabilities of one activation.
- `RdpClient::write` of an event that is neither key nor pointer, which fails
  without touching anything, is left out.

### Session and Activation

The server is not part of the repository. `Session` models one that follows
the sequence the client expects, each step after the client's PDU it answers;
its PDUs go through `outbox` into payloads. It may deactivate an open share and
offer the next one and sends bitmaps while a share is open. `manners` says how
orderly it is: one PDU per payload (`orderly`), several (`coalescing`), or also
deactivations of a share it has not opened and data PDUs the client does not
parse in mid-handshake (`unruly`). It drops what belongs to an earlier share:
the client may still write input for it.

`Activation` has five counters and five actions: shares are offered, opened,
entered, closed and left in this order, and none is opened before the client
has left the one before. The refinement mapping of `Session` reads `opened` and
`closed` off the phase of the server and `entered` and `active` off the state
and the share of the client (`A`, `Handover`).

### Mstsc

`rdp` and `gui` are program counters of the two threads. The critical sections
of the main thread write and return, so that each is one action that needs the
mutex; the rdp thread holds it from `Lock` to the end of a read (`rdp =
"read"`), which blocks until a frame is whole. `socket` holds TLS records,
`buffer` what the TLS stream has left of the last one: `select` looks at the
first, `read` takes from both. The stream is taken to read one record at a
time, as OpenSSL does; one that reads ahead has more in `buffer`, never less.
The handshake is the one frame `Activate`: what a payload does to the state is
the matter of `GlobalChannel`. `sync` is accessed with `Ordering::Relaxed`; a
load that is late is the same load before the store, because every store is
followed by a use of the mutex. Servers send one frame per record (`plain`),
two frames in one (`batching`), or also a part of a frame and records of no
frame (`chatty`).

The main thread is the process: when it ends or panics (`gui = "died"`, any
`unwrap` of an `Err` in `main`), the rdp thread is gone too.

### Framing and FrameQueue

One direction of a connection: `Write` is `tpkt::Client::write` with
`Link::write` and `Stream::write` below it, `SrvWrite` a server's frames, in X.224
and fast path, and the reader is `tpkt::Client::read`, one action per call of
`Link::read` (`step` is where it is). A byte is its frame and its place in it;
`arrived` counts the bytes that have reached the reader. What a header says is
read off its bytes only where they stand at its beginning (`Stand`); a reader
that takes other bytes for a header may do anything from there, so that the
model stops in `lost`. The sizes are those of the code: headers of 4, 2 and 3
bytes, and a body of size 0 is `read(0)`, which takes what there is. `fault`
says what may go wrong in a behaviour: nothing, empty bodies, short writes, or
a server that tells a size below that of its header (`Undersized`), which ends the
reader with InvalidSize in each format.

The body of a frame has at most 65531 bytes (`FramingAssumption`): above it the
u16 of `tpkt_header` overflows, and no message of this client is that long.

### Connect, Ntlm, Connection and Layers

`connect` is one thread of control: `pc` is the message it waits for, `out`
what it writes before it reads again. Each `Read...` is what one layer does
with one message; `ReadOther` and `ReadEof` are the errors of all of them, `Fail`
an `Err` and `Panic` a panic. `cfg` has the fields of the `Connector` that
decide anything. `sent` records each message and whether TLS was on; it is what
the properties look at.

- X.224 takes any protocol the server names, TLS and CredSSP follow from it.
- CredSSP reads with `Link::read(0)`: the end of the stream is an error of I/O or
  an empty answer that does not parse, and a TSRequest in two TLS records does
  not parse either (`Part`).
- A challenge that is unsigned or cut short, or that has an id of target info the
  client does not know, is an error of its own (`ChallengeError`); one without a
  token, a timestamp or its fields in the payload panics.
- MCS joins its two channels in any order, as a `HashMap` gives them. The sum of
  an initiator and 1001 panics or wraps, by the kind of build. A rejected join
  is printed by the code and accepted by the model. The result of the connect
  response is not looked at; a block that is missing or shorter than its header
  panics (or, unchecked, ends the stream).
- Licensing ends on a new license or on the alert "valid client".

`Ntlm` has hashes, ciphers and random numbers as terms: two are equal when they
were made of the same parts. A keystream is its key and how often it was used.
Whether the checksum is taken before or after the data, and whether a call
moves the stream on once or twice, is therefore part of what two ends must
agree on, and so is every key derivation, by password and by hash.

`Connection` adds `srv`, a server that answers each message it expects. It is
`conforming`, sends a TSRequest in two records (`split`), has another password
(`stranger`), or says any message of `Messages` at any time (`any`). `Layers` is
what the first kind implements: the client asks for a layer only when it has
entered the one before, and enters only what was granted (`LayerByLayer`).

### Message, Per, Asn1, Layouts, Tokens, Codec

`Message` has one record kind per type of `model/data.rs` (numbers, slices,
trames, components, checks, options, arrays, dynamic options) and `Write`,
`Length`, `Visit` and `Read` as operators over them; `Read` returns `ok`, `error`
or `panic`, the message with its new values, and the bytes that are left. What
the closure of a `DynOption` decides (`SkipField`, `Size`) is `SkipUnless`,
`SizeBy` and `SizeIn`. `Per` and `Asn1` translate the encoders and decoders one
by one; DER itself belongs to a library (`yasna`), modelled from its use.
`Layouts` and `Tokens` are the templates, with their sizes, constants and
optional fields, and the functions that read with them; enumerations that
nobody looks at are zeros of their width.

`Codec` is the state machine: `Send` puts a message into the layers that carry
it, perhaps with other bytes behind it; `SendShort` puts less of it into layers
that count right; `Cut` loses the end of the frame; `Receive` reads. What the
server sends is read with the readers of the code and compared with the values
that were sent, `values`. What the client sends is taken apart by a peer that
knows only where sizes and offsets are (`TakeFrame`, `TakeFields`, `TakeCreate`,
...), so that a template that is wrong in both of its directions is noticed.

### Bits, Rle, Paint, Window

`Rle` has the registers of the two decoders; one action takes the head of an
order (`ReadOrder`), paints one pixel (`ReadPixel`), or takes one segment of a
plane (`ReadSegment`). `CountIn`, `Sized` and `Coloured` are what a head says of
the count, of its own length and of the colours behind it. `Paint` is written
from the server's side and knows neither lines nor buffers: a picture is a
sequence of pixels, and the pixel above is the one painted a line width ago.
`WellFormed` and `WellFormedSegment` say which orders and segments can be
written at all: a short count has a limit, masks and colours are as many as the
pixels take, a short run of one or two does not exist. `Bits` has `^` and `|` by
halves of a number. `Window` sends the orders of a picture one at a time, ends
it at any point, and lets `Draw` decompress it and copy it into the window
(`Decompressed`, `Copied`), line by line until one does not fit. A bitmap that is
not `whole` has another header than 0x10 in front of its planes, which is an
error, or lacks uncompressed pixels of 16 bits, which is an index out of bounds
(`TooShort`). `MouseInput`
and `KeyInput` are the rest of one turn of `main_gui_loop` with
`RdpClient::write` and a server that follows the flags of the events.

## What the runs check

| Run | Question | Bounds |
|---|---|---|
| `global_channel` | What does the client write against any payload, over TLS? | 36 payloads: each PDU type alone, each kind of PDU that does not parse behind a deactivation and some in front of one, and the pairs whose order matters; 1 payload in flight, 12 PDUs written, so two complete answers and a third cut short; 2 updates |
| `session` | Does a conforming session hand over, lose nothing and make progress, and is it still safe when the server batches, deactivates early and interleaves noise? | orderly and unruly servers; 2 activations, 2 bitmaps (unruly: 1), 3 payloads in flight (unruly: 2), 16 PDUs written: input in either activation |
| `session_coalesced` | Violation: a demand in the payload of the deactivation is lost | as `session`, 2 PDUs per payload |
| `mstsc` | Do the threads keep the order, end, and draw every bitmap? | plain and chatty servers; 2 bitmaps, 2 activations, 1 record in flight, frames split over two |
| `mstsc_buffered` | Violation: a frame that waits in the TLS stream is not read | 2 frames per record |
| `mstsc_late_bitmap` | Violation: the rdp thread panics in a regular shutdown | 1 activation |
| `mstsc_early_input` | Violation: input before the end of a handshake ends the process | 1 activation |
| `framing` | Is TPKT a queue of frames, however the bytes arrive, and is what was read before a faulty frame still right? | 3 frames of 3 formats, bodies of 1 and 2 bytes (0 to 2 with the faults of sizes), writes of any part of a frame with the other fault |
| `connect` | Is the sequence followed, does it end, who gets the credentials, and do both ends agree? | all 16 configurations, servers of 4 kinds, 53 messages of the last, 1 message in flight |
| `connect_version` | Violation: a server of version 5 gets no extended information | conforming server, both versions |
| `messages` | Do readers and writers agree on every byte? | every template that is read or counted, filled with values; lengths around 127, 128, 255, 256 and up to 32767, integers up to 65536; every place to cut |
| `window` | Is what was painted drawn where it belongs, and does input follow? | a window of 4 x 3, 12 bitmaps, three of them not whole, 19 orders of all opcodes in any sequence of 3, segments in any sequence of 5; 3 buttons, 2 keys |

Why the bounds are enough. The client compares shares with nothing and keeps
no count, so what a third activation does a second one does; two bitmaps show a
swap, a loss and a repetition; queues of two or three let one party be a whole
step ahead of the other; in `Framing` a header longer than any body shows
every way of cutting a frame, and three frames let one be read over, one be cut
and one follow. `connect` reads one message at a time and looks at none twice,
so a second message in flight only waits. The decoders keep the last opcode, the
foreground and where in a line they are: an order behind another one behind a
third meets every such state, and small pictures make orders begin and end at
every place of a line. The theorems below have no bounds on the
payloads or on the queue, nor on orders, segments and the sizes of bitmaps.

Where a bound hides something:

- `MaxSent` cuts behaviours where the client has written that many PDUs. Input
  leaves room for one more answer of five (`RoomFor(6)`), so that the bound
  never keeps a client from answering a demand in `session`: with two shares the
  log ends at 16 at the latest.
- In `messages`, bodies are cut inside of layers only where layers carry them,
  and no length is above 32767: `write_length` writes 15 bits, and no message of
  the client is longer. A number of fields or events is at most 3.
- In `window` the products of an uncompressed bitmap are taken modulo 18 (`U16`)
  instead of 65536, so that a bitmap of 4 x 3 overflows as one of 256 x 129
  does. In planes 2 to 4 each line is one byte and its repetition: the planes
  are read by the same function, one after the other. A bitmap comes to a user
  who has touched nothing (`Untouched`), because the two halves of a turn share
  no state. Orders of length zero are not sent. With a short plane the decoder
  fails, which is what `Unfinished` says.

Deadlock is checked in all runs of `GlobalChannel` and `Session`; in `Mstsc`
the process really ends, and `Terminates` says that it does; in `Framing` the
stream ends, and `EveryFrameRead` says that nothing is left in it; `connect`
returns, which `Returns` says, and `Codec` and `Window` end with their message
and their bitmap.

### Fairness

`Session`: the caller reads again and again, as `launch_rdp_thread` does, and
the server answers what it has received. Nobody has to write, to deactivate, to
send bitmaps or to hang up. Weak fairness is enough: each of these steps stays
possible until it is taken.

`Mstsc`: both threads are scheduled; the operating system does no less. A
thread that finds the mutex free again and again gets it (strong fairness of
the two steps of the main thread that cannot do without it). `std::sync::Mutex` promises no
order, and the rdp thread lets go of it before each `select`; without this
assumption the loop after the end of the stream (see the hazards) could
starve the main thread. The server sends the rest of what it has begun and
closes after the ultimatum. A chatty server may leave the rdp thread in a read
with the mutex for ever; `Terminates` says that nothing else can keep the
client alive once its window is closed.

`Framing`: what is on the wire arrives, and the reader reads again and again.

`Connection`: the thread that called `connect` runs, and a server that has
something to answer answers. No read has a timeout, so that nothing is claimed
of a server that falls silent with the stream up: `connect` then waits for
ever. `Returns` and `Connects` speak of streams that end, of servers that go
on, and of the split TSRequest.

## What the runs show to be wrong

1. `session_coalesced`: `read_data_pdu` sets the state to `DemandActivePDU` and
   goes on with the same payload, where it ignores a Demand Active PDU. The
   client waits for ever.
2. `mstsc_buffered`: `select` and the TLS stream. Two frames in one record: the
   second stays in the stream until the server sends something else.
3. `mstsc_late_bitmap`: the window is closed while the rdp thread waits for the
   mutex; it gets it after `shutdown`, reads a bitmap and sends it to a channel
   whose receiver is gone. `send().unwrap()` panics, and so does the join.
4. `mstsc_early_input`: `main_gui_loop` calls `write`, not `try_write`. A mouse
   position before the end of the first handshake, or between a deactivation
   and the end of the next handshake, ends the process.
5. `connect_version`: `Version::from` has its two versions the wrong way round.
   A server of version 5 or later is not sent the extended information of the
   info packet, an older one is.

More places do not do what one expects of them. They are part of the models, and
the properties say where they stop:

- A TPKT header that says that the body is empty passes the check of its size,
  and `Link::read(0)` returns the frames behind it as its body
  (`ReadEmptyBody`); the servers of this protocol send no such frame.
  `Stream::write` writes once, and `Link::write` drops the number of bytes that
  were taken (fault `short`). Neither damages what was read before
  (`RightSoFar`).
- A TSRequest in two TLS records ends the connection (`Returns`, kind `split`).
- A challenge without a timestamp and a connect response without one of its
  blocks panic (`TruncationIsSeen` admits the panic in these two).
- From Left to Right without a turn of the loop between, the event is the release
  of Middle (1 | 2 = 3), and the server goes on holding Left. `InputFollows` is
  about histories without such a change (`direct`).
- Uncompressed bitmaps of 32 bits per pixel are not turned over, as those of 16
  are, and the products of the latter are u16. `DrawnWhereItBelongs` leaves
  both out.

## What is proved

Eight modules hold proofs, each for all values of the constants that meet the
named assumptions, which are all a proof takes for granted.

| Module | Assumes of the constants |
|---|---|
| `GlobalChannelProofs` | `GlobalAssumption`: payloads are payloads, bounds are numbers |
| `SessionProofs`, `OrderlyProofs` | also `SessionAssumption`: some bitmap, at least one PDU per payload, manners are the three |
| `FramingProofs` | `FramingAssumption`: bodies of 1 to `Longest` bytes, the most that X.224 headers count |
| `ConnectProofs` | `ConnectAssumption`: initiators are numbers |
| `ConnectionProofs` | also `ConnectionAssumption`: the user ids a conforming server gives fit in a u16 with 1001 added |
| `MstscProofs` | `MstscAssumption`: a share, a frame per record, kinds of server are the three |
| `WindowProofs` | `WindowAssumption`: window and bitmaps have some pixel, rectangles are not inside out, bitmaps have 16 or 32 bits per pixel, orders and segments can be written (`IsBitmap`, `WellFormed`, `WellFormedSegment`), the values of the u16 are an even number |

| Theorem | States | In words |
|---|---|---|
| `GlobalChannelProofs!TypeCorrect` | `TypeOK` | |
| `InProtocolOrder` | `HandshakeOrder` | PDUs leave in the order of the protocol, whatever the peer sends |
| `AnswersAreComplete` | `HandshakeComplete` | a client past the demand has written the whole answer |
| `ShutdownIsLast` | `SilentAfterShutdown` | nothing follows the ultimatum on TLS |
| `FailuresStay` | `ErrorsDoNotAdvance` | a read that fails moves the handshake exactly when a Deactivate All was in front of the PDU it failed on, and then with the error of that PDU |
| `EveryDemandAnswered` | `DemandsAnswered` | the n-th Confirm Active is for the share of the n-th demand read |
| `FramingProofs!TypeCorrect` | `FramingTypeOK` | |
| `DamageNeverReachesBack` | `RightSoFar` | what was read before a faulty frame is what was sent |
| `QueueImplemented` | `FirstInFirstOut` | TPKT over a stream implements `FrameQueue` |
| `ConnectProofs!ConnectTyped` | `ConnectTypeOK` | |
| `ScriptFollowed` | `InSequence` | the messages of the sequence, in order, without a gap |
| `CredentialsKept` | `CredentialsGuarded` | who gets the credentials, whatever the peer answers |
| `ConnectionProofs!StrangersStayOut` | `OnlyTheAccountHolder` | a server without the account never gets the TSCredentials |
| `BothAgree` | `Agreement` | both ends end with the same protocol, user and channels |
| `KeysInStep` | `InStep` | both ends stand at the same places of the keystreams |
| `NothingUnexpected` | `NoFalseAlarm` | a conforming server never makes `connect` fail |
| `LayersFollowed` | `LayerByLayer` | `Connection` implements `Layers` |
| `SessionProofs!SessionTyped` | `SessionTypeOK` | |
| `ClientNeverAhead` | `NeverAhead` | the client never acts on a share the server has not offered or opened |
| `ServerExpects` | `ServerNeverSurprised` | what the client writes is what the server waits for |
| `OrderlyProofs!SharesAreHandedOver` | `Handover` | with orderly and coalescing servers, `Session` implements `Activation` |
| `NoReadFails` | `NoReadError` | no read of an orderly session fails |
| `NoBitmapIsLost` | `NoBitmapLost` | what was handled and what is queued are all the bitmaps sent, in order |
| `MstscProofs!MstscTyped` | `MstscTypeOK` | |
| `BitmapsKeepOrder` | `BitmapsInOrder` | the threads neither lose, double nor swap a bitmap |
| `WindowProofs!PaintsAsToldHolds` | `PaintsAsTold` | both decoders draw what was painted, stay inside the image, and fail only for an order that leaves it or an unknown header of planes |
| `DrawnWhereItBelongsHolds` | `DrawnWhereItBelongs` | each pixel of a conforming bitmap gets to its line and column, and no other changes |
| `InputFollowsHolds` | `InputFollows` | the server holds the keys and the button the loop saw last |

### The arguments

`GlobalChannelProofs`. `HandshakeOrder` is not inductive: to see that input
directly follows a font list or input of the same share, one must know what the
log ends with when the state is `Data`. `HandshakeComplete` says so, but it is
not inductive either, because it does not say that an ultimatum on a TLS link
is the end. The invariant is

    IInv == TypeOK /\ HandshakeOrder /\ Complete /\ Closed

`Complete` splits `HandshakeComplete` into the five PDUs of the answer and what
follows it, one PDU at a time, so that each step adds facts about new places of
the log only; `Closed` says that a TLS link with an ultimatum in the log is
down. Lemmas about the log come first (what a prefix of an answer looks like
at the end of it, that appending keeps what was there), then one step per
action. `InOrder` looks only at a PDU and its predecessor, so that a cut answer
keeps the order: nothing is written to a link that is down. `FailuresStay` says that a
call moves the state and fails exactly when it is `read_data_pdu` on a payload
with a Deactivate All that the loop reaches and, behind it, a PDU that
`from_control` fails on, and that the error is that of the PDU. It needs no
invariant, only that the loop stops at one PDU at most (`DataFailures`) and that
no error is `Ok` (`ParseErrors`). `EveryDemandAnswered` counts: `Turn(i)` is the number
of Confirm Actives up to place i of the log, a step appends at most one and keeps
the turns of the others. The theorems hold for the raw link as well, which no
run checks: there the stream stays open after an ultimatum.

`FramingProofs`. The property is about frames, the steps are about bytes, so
that the invariant says how the bytes on the wire stand: in the order they were
written (`InOrder`), a byte before the rest of its frame (`Whole`), the last of a
frame before the first of the next (`Adjacent`), with only what the fault may
spoil spoiled (`Spoiled`). `Ahead`, `KnownFormat` and `InPlace` say where the
reader is: after sound frames only, at the byte of the frame where it believes
to be. `QueueImplemented`
maps a frame written to `Send` and the read of a body to `Receive`; every other
step stutters.

`ConnectProofs`. What is written and what is lined up in `out` make one list of
messages; to write moves a border in it. `InScript` says that the list is a
beginning of `Script` and how long it is at each `pc`, `Layer` and `Nla` what has
been negotiated by then, `Joined` what is known of the channels, `Guarded` what the
property says, of the messages lined up as well. Nothing is assumed of the peer:
the messages are any set.

`ConnectionProofs`. `Sound`, which holds for every server, is the invariant of
`ConnectProofs` with the types of the server. `StrangerOut` says why a stranger gets
no further than the TSRequest that should prove it knows the account: what it
seals has a checksum under the key of its guess, what the client answered was made
with the key of the account. `Conforming` is about the conforming server: what it
has heard is a beginning of the client's list (`Listening`), the security
interfaces of both ends are where the messages between them say (`Sealing`), both
have the same user (`SrvUser`), and it has said nothing or the answer the client
waits for (`Answers`). `Agreement`, `InStep` and `NoFalseAlarm` follow from it.
`LayersFollowed` counts: `Asks` is how many of the first n messages of the list ask
for something, which is all but the credentials and the erect request. So what was
asked follows from the number of messages on the stream, what was granted from
the number heard (`Granting`), and what was entered is one less than what the lined
up messages will ask for. A write of the message that asks is `Ask`, an answer of
the server `Grant`, a read of the client `Enter`, the failure or the loss of the
stream `End`; the other steps, and all those of other servers, stutter.

`SessionProofs`. `InProtocolOrder` and its lemmas are used for the client's
side; the server's side comes in layers. `Flow` is about the PDUs on their way
to the client: they stand in the order of shares and of the sequence, and lead
no further than the server is. `Log` is about the PDUs the client has written,
`Heard` about those the server has dealt with. `NeverAhead` follows from `Flow`,
`ServerNeverSurprised` from all three. `OrderlyProofs` adds `Handed`: what each
side has left behind (`Left`, `Completed`), and then maps each action to one of
`Activation` or to a stutter. The refinement mapping of `Handover` (`Seen`) shows
nothing of an unruly server, which may close a share it has not opened; the
theorem therefore leaves it out of `Servers`, and says the same of a mapping
without `Seen` (`Shares`) as well. Then the sequence of PDUs is a sequence of places,
six per share, and `Paced` says that what is under way leads from the place of
the client to that of the server: the client meets the PDU it waits for, or one
it can ignore. A client whose answer was cut short has left that way;
`NothingYet` says that there was no update left for it to lose (`Quiet`),
because the server of the demand was still waiting for the answer. So a fast
path payload always meets the `Data` state, and `Lossless`, of the line of
`handled` and the payloads of the queue, is kept by a read, which joins the
first two of the line, and by a send, which brings no bitmap or the next one.

`MstscProofs`. A state is whether a share is active and how many bitmaps have
gone by; a frame leads from a state to the next, a record is a chain of frames.
The invariant is that from the client's state (`Here`) a chain leads through the
frame in the hand of the thread, the rest of the TLS record, the socket and the
record being filled to the server's state (`There`). A step of the reader takes
the head of the chain, a step of the server appends to it, a split record cuts a
frame out and puts it back. It says more than the order of the bitmaps: no
bitmap meets a client outside of `Data`. That the numbers along a chain rise
without a gap is an induction, by the least counterexample (`Least`).

`WindowProofs`. `PaintsAsTold` compares decoder and picture only where an order
is complete, so it says nothing of the pixels in between, nor of the bytes that
are still to be read. The invariant is

    IInv == Following /\ Shows /\ InputInv

`Following` says how the decoder follows the picture in every state. A picture
is counted along its pixels, and `Place(w, h, n)` is where pixel n of it is in
the image, which is drawn from its last line up. For 16 bits per pixel,
`Drawn16` says that the first N pixels are drawn, each in its place, and that x,
line, previous line and lines left are those of pixel N + 1 (`Placed`,
`Faithful`). Then either nothing is under way and all of the picture is drawn
(`AtRest`), or an order is (`Underway`): in front of its head (`Before`), or
behind its k-th pixel (`Within`), where `Rest(o, k)` is what the input still has
of its bytes, and `Count(o, k)` what the count stands at, and the registers for
masks, pairs and the foreground pixel of a second background run are those of
pixel k + 1. What the pixels of the order that are not yet drawn will be is in
`Ends`, so that a step of the decoder has only to take the next one from it. The
lemmas below it are of three kinds: that a head that was written is read as the
order it was written for (`HeadSays`, by the five forms of heads), that a line
ends where the next pixel is in the next line (`NextPlace`), with quotients and
remainders, and that the pixel below is the one painted a line width before
(`PlaceBelow`). `Painted` adds its pixels by a recursive function; that the
function exists and adds the colours in order is an induction by the least
counterexample again (`StrokesExist`, `TouchGrows`). For planes, `Following32`
has a segment that was sent and not read (`Unread`), and how much of each plane
is drawn (`DrawnOf`). A picture that is longer than the bitmap and another
header than that of planes (`KnownHeader`) are the reasons for an error, and a segment that stays in its line never leaves the buffer,
which is why there is no panic.

`Shows` is `DrawnWhereItBelongs` behind a bitmap that was drawn, and before that
a black window, without which the step that draws says nothing about the pixels
around. `UprightShown` is about the flip of an uncompressed bitmap as long as
its bytes fit u16, `ColourShown` about rounding five and six bits to eight,
`Copies` about lines and columns of the window. `InputInv` adds to
`InputFollows` that the button the loop saw last is one of four, on which the
`|` of two buttons is the one of them that is a button (`OneButton`).

### What is only model-checked

- Liveness: `Reactivates`, `Activates`, `EveryBitmapShown`, `Terminates`,
  `StopsWithThread`, `EveryBitmapDrawn`, `EveryFrameRead`, `Returns`, `Connects` and
  the like need fairness and ENABLED, which the prover does not do.
- `Codec` (`ReadUndoesWrite`, `TruncationIsSeen`, `SizesTellTheTruth`): messages are
  trees of any depth, and `Message` and what uses it are recursive operators,
  which the provers do not have. What these three say is an induction over such
  trees.

### What the proofs asked of the model

`DemandsAnswered`, `BitmapsInOrder` and `NoBitmapLost` speak of places in sequences
instead of selected subsequences, which are inductions over data; they say the
same. `MaxShares` of `Mstsc` is at least
1, because a server that is not plain offers one share. `Longest` of `Framing` is
the longest body whose header does not overflow.

`Bits` writes `^` and `|` by halves instead of by recursion, and `Rle` has the
head of an order in operators of its own, because lemmas are about operators.
`WindowAssumption` was made of the proof: a pair order (opcode 8) whose count is
65535 is not well formed, because the decoder counts its first pixel up to
65536, which the u16 does not hold; and pixels of an uncompressed bitmap are u16
(`Raw`), which small pictures did not show.

## Plan

1. Done: all the modules above, and the theorems listed.
2. Models that would say more: a client name of other than ASCII characters with
   a peer that reads the core block by position; sizes told by a server that are
   smaller than a header above TPKT.

## What is not modelled

- Cryptography: RC4, MD4, HMAC, TLS and random numbers are terms or external
  actions. Strings of the user are bytes.
- Two readers of PER that nothing calls, of numeric strings and of padding.
- A server that tells a size smaller than a header above TPKT: the subtraction
  in `core/global.rs:138` and its like panics where overflow is checked.
- A comparison of the selected protocol with the request and of a join's result
  with success: the code has neither, and no property asks for them.
- Client names of other than ASCII characters (`core/gcc.rs:212`).
- A server that falls silent in `connect`: nothing in the code ends the wait.
- `mstsc-rs`: parsing of arguments, the creation of the window, the table of
  scancodes. A signal that interrupts `select` (which would end the rdp thread)
  and a panic inside a library are left out of `Mstsc`.
- Formatting of errors (`model/error.rs`).

A failed `read_exact` on a `Cursor` is taken to leave it where it was, as
in the library of the time; the loops that stop at the first message that does
not parse do not look at it again.

## Running

    tlc -config MCGlobalChannel.cfg MCGlobalChannel
    tlc -config MCSession.cfg MCSession
    tlc -config MCMstsc.cfg Mstsc
    tlc -config MCFraming.cfg Framing
    tlc -config MCConnection.cfg MCConnection
    tlc -config MCCodec.cfg MCCodec
    tlc -config MCWindow.cfg MCWindow
    tlapm GlobalChannelProofs.tla
    tlapm WindowProofs.tla

and so on for the configurations in `PROJECT.json` and the modules with
proofs, each of which takes from one to some ten minutes. Some definitions are named
as faults of another one (`WriteUnguarded`, `DrawYoungest`, `DownLate`, ...): put
in place of it they show that a property notices the fault. No specification
uses them.
