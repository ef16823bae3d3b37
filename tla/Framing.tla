------------------------------ MODULE Framing ------------------------------
(***************************************************************************)
(* Frames over a stream of bytes: tpkt::Client::read and write             *)
(* (src/core/tpkt.rs) on Link::read and write (src/model/link.rs).         *)
(*                                                                         *)
(* One direction of a connection.  Its frames come from tpkt::Client::     *)
(* write, which knows the X.224 header only, or from a server, which also  *)
(* has the two headers of fast path; they are read by tpkt::Client::read.  *)
(*                                                                         *)
(* A byte is its frame and its place there.  Taken as a part of a header,  *)
(* it says what the writer of that header meant if it stands where the     *)
(* reader believes it to stand; a reader that has lost the beginning of a  *)
(* frame may take any byte for anything, and stops here (step = "lost").   *)
(***************************************************************************)
EXTENDS Naturals, Sequences, FiniteSets

CONSTANTS
    MaxFrames,    \* bound: frames written
    MaxBody       \* bound: bytes of a body

VARIABLES
    fault,     \* what may be wrong: empty frames, sizes below that of the
               \* header, short writes, or nothing
    sent,      \* frames written
    wire,      \* bytes written and not yet read
    arrived,   \* bytes of wire that have reached the reader
    open,      \* has the writer not closed the stream?
    step,      \* where the reader is in tpkt::Client::read
    header,    \* the frame whose header it has read
    received   \* bodies it has returned

vars == <<fault, sent, wire, arrived, open, step, header, received>>

(***************************************************************************)
(* MaxBody stays below what the u16 of tpkt_header holds besides its own   *)
(* four bytes: no message of this client comes near it.                    *)
(***************************************************************************)
Longest == 65531
ASSUME FramingAssumption ==
    /\ MaxFrames \in Nat
    /\ MaxBody \in Nat \ {0} /\ MaxBody <= Longest

\* Bytes of a header: X.224, fast path with a length of one and two bytes.
HeaderSize == [X224 |-> 4, Fast |-> 2, FastLong |-> 3]
Format == DOMAIN HeaderSize
Length == IF fault = "empty" THEN 0 .. MaxBody ELSE 1 .. MaxBody
SrvLength == IF fault = "small" THEN 0 .. MaxBody ELSE Length
\* A frame, with the number of its bytes that were written.
Frame == [format : Format, length : 0 .. MaxBody, written : Nat]
NoFrame == 0

Byte == [frame : 1 .. MaxFrames, at : Nat]
Size(frame) == HeaderSize[frame.format] + frame.length

\* Bytes from place a to place b of frame number i.
Bytes(i, a, b) == [k \in 1 .. b + 1 - a |-> [frame |-> i, at |-> a + k - 1]]
BodyOf(i) == Bytes(i, HeaderSize[sent[i].format] + 1, Size(sent[i]))

Faults == {"none", "empty", "small", "short"}

FramingTypeOK ==
    /\ fault \in Faults
    /\ sent \in Seq(Frame) /\ Len(sent) <= MaxFrames
    /\ wire \in Seq(Byte) /\ arrived \in 0 .. Len(wire)
    /\ open \in BOOLEAN
    /\ step \in {"start", "size", "hi", "body", "lost", "failed"}
    /\ header \in NoFrame .. Len(sent)
    /\ received \in Seq(Seq(Byte))

Init ==
    /\ fault \in Faults
    /\ sent = <<>> /\ wire = <<>> /\ arrived = 0 /\ open = TRUE
    /\ step = "start" /\ header = NoFrame /\ received = <<>>

-----------------------------------------------------------------------------
Put(format, length, n) ==
    /\ open /\ Len(sent) < MaxFrames
    /\ sent' = Append(sent, [format |-> format, length |-> length, written |-> n])
    /\ wire' = wire \o Bytes(Len(sent'), 1, n)
    /\ UNCHANGED <<fault, arrived, open, step, header, received>>

\* Link::write drops the number of bytes that Stream::write returns.
Write ==
    \E length \in Length :
        LET size == HeaderSize["X224"] + length IN
            \E n \in IF fault = "short" THEN 0 .. size ELSE {size} : Put("X224", length, n)

\* The server writes all of its frame, which may be no more than a header.
SrvWrite ==
    \E format \in Format, length \in SrvLength :
        Put(format, length, HeaderSize[format] + length)

Close ==
    /\ open
    /\ open' = FALSE
    /\ UNCHANGED <<fault, sent, wire, arrived, step, header, received>>

Arrive ==
    /\ arrived' \in arrived + 1 .. Len(wire)
    /\ UNCHANGED <<fault, sent, wire, open, step, header, received>>

-----------------------------------------------------------------------------
(***************************************************************************)
(* Link::read.                                                             *)
(***************************************************************************)
Taken(n) == SubSeq(wire, 1, n)

\* Fault of Take: what is taken still counts as arrived.
TakeUncounted(n) ==
    /\ n <= arrived
    /\ wire' = SubSeq(wire, n + 1, Len(wire))
    /\ UNCHANGED <<fault, arrived, sent, open>>

Take(n) ==
    /\ n <= arrived
    /\ wire' = SubSeq(wire, n + 1, Len(wire))
    /\ arrived' = arrived - n
    /\ UNCHANGED <<fault, sent, open>>

\* Do the next bytes stand at places a to b of frame i?
Stand(i, a, b) == Taken(b + 1 - a) = Bytes(i, a, b)

\* Does frame i tell a size below that of its header?  Such a frame ends with it.
Undersized(i) == fault = "small" /\ sent[i].length = 0

\* The first two bytes tell the format; those of a short fast path header
\* tell the length as well.
ReadStart ==
    /\ step = "start"
    /\ Take(2)
    /\ LET i == wire[1].frame IN
          IF Stand(i, 1, 2)
          THEN /\ header' = i
               /\ step' = [X224     |-> "size",
                           Fast     |-> IF Undersized(i) THEN "failed" ELSE "body",
                           FastLong |-> "hi"][sent[i].format]
          ELSE step' = "lost" /\ UNCHANGED header
    /\ UNCHANGED received

ReadSize ==
    /\ step = "size"
    /\ Take(2)
    /\ step' = IF ~Stand(header, 3, 4) THEN "lost"
               ELSE IF Undersized(header) THEN "failed" ELSE "body"
    /\ UNCHANGED <<header, received>>

\* Fault of ReadHi: a body of one byte is too short.
ReadHiStrict ==
    /\ step = "hi"
    /\ Take(1)
    /\ step' = IF ~Stand(header, 3, 3) THEN "lost"
               ELSE IF sent[header].length <= 1 THEN "failed" ELSE "body"
    /\ UNCHANGED <<header, received>>

ReadHi ==
    /\ step = "hi"
    /\ Take(1)
    /\ step' = IF ~Stand(header, 3, 3) THEN "lost"
               ELSE IF Undersized(header) THEN "failed" ELSE "body"
    /\ UNCHANGED <<header, received>>

Return(body) ==
    /\ received' = Append(received, body)
    /\ step' = "start"
    /\ header' = NoFrame

\* Fault of ReadBody: the second byte of a long length is not taken off it.
ReadBodyLong ==
    /\ step = "body"
    /\ LET n == sent[header].length + IF sent[header].format = "FastLong" THEN 1 ELSE 0 IN
          /\ n > 0
          /\ Take(n)
          /\ Return(Taken(n))

ReadBody ==
    /\ step = "body"
    /\ LET n == sent[header].length IN
          /\ n > 0
          /\ Take(n)
          /\ Return(Taken(n))

\* Link::read(0): what there is, at most 1500 bytes; nothing at the end.
ReadEmptyBody ==
    /\ step = "body"
    /\ sent[header].length = 0
    /\ \/ \E n \in 1 .. arrived : n <= 1500 /\ Take(n) /\ Return(Taken(n))
       \/ /\ wire = <<>> /\ ~open
          /\ Return(<<>>)
          /\ UNCHANGED <<fault, sent, wire, arrived, open>>

\* read_exact at the end of the stream.
Wanted ==
    CASE step = "start" -> 2
      [] step = "size"  -> 2
      [] step = "hi"    -> 1
      [] step = "body"  -> sent[header].length
      [] OTHER          -> 0

ReadEof ==
    /\ ~open /\ arrived = Len(wire) /\ arrived < Wanted
    /\ step' = "failed"
    /\ wire' = <<>> /\ arrived' = 0
    /\ UNCHANGED <<fault, sent, open, header, received>>

Read == ReadStart \/ ReadSize \/ ReadHi \/ ReadBody \/ ReadEmptyBody \/ ReadEof

Next == Write \/ SrvWrite \/ Close \/ Arrive \/ Read

Spec == Init /\ [][Next]_vars

\* What is written arrives, and the reader reads again and again.
FairSpec == Spec /\ WF_vars(Arrive) /\ WF_vars(Read)

-----------------------------------------------------------------------------
(***************************************************************************)
(* The frames still to be read make the queue of FrameQueue: without the   *)
(* faults, Link::read and tpkt::Client::read implement it in three         *)
(* formats, however the bytes arrive.                                      *)
(***************************************************************************)
Bodies == UNION {{Bytes(i, h + 1, h + n) : h \in {2, 3, 4}, n \in 1 .. MaxBody} : i \in 1 .. MaxFrames}

Q == INSTANCE FrameQueue WITH
        Body <- Bodies,
        received <- IF fault # "none" THEN <<>> ELSE received,
        queue <- [k \in 1 .. IF fault # "none" THEN 0 ELSE Len(sent) - Len(received)
                    |-> BodyOf(Len(received) + k)]

FirstInFirstOut == Q!Spec

(***************************************************************************)
(* tpkt::Client::read is to "Check the tpkt header and provide a well      *)
(* formed payload".  It cannot after a frame without a body (Link::read(0) *)
(* returns the frames behind it), one whose size is below that of its      *)
(* header, or one that Link::write cut, but what it has read before is     *)
(* right: the damage never reaches back.                                   *)
(***************************************************************************)
Sound(i) == sent[i].length > 0 /\ sent[i].written = Size(sent[i])

RightSoFar ==
    /\ \A k \in DOMAIN received :
          (\A i \in 1 .. k : Sound(i)) => received[k] = BodyOf(k)
    /\ step = "lost" => \E i \in DOMAIN sent : ~Sound(i)

(***************************************************************************)
(* Without the faults every frame is read in the end, the last ones also   *)
(* when the writer has closed the stream behind them.                      *)
(***************************************************************************)
EveryFrameRead ==
    \A n \in 1 .. MaxFrames : (Len(sent) = n /\ fault = "none") ~> (Len(received) >= n)
=============================================================================
