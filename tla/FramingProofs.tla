---------------------------- MODULE FramingProofs ----------------------------
(***************************************************************************)
(* What Framing guarantees for every number of frames and every length of  *)
(* body, however the bytes arrive.                                         *)
(***************************************************************************)
EXTENDS Framing, SequenceTheorems, TLAPS

-----------------------------------------------------------------------------
(***************************************************************************)
(* The inductive invariant.                                                *)
(*                                                                         *)
(* The bytes on the wire stand in the order they were written.  A byte     *)
(* stands before the rest of what was written of its frame, and the last   *)
(* one before the first one of the next frame.                             *)
(***************************************************************************)
Written(i) == sent[i].written

InOrder ==
    \A k, l \in DOMAIN wire : k < l =>
        \/ wire[k].frame < wire[l].frame
        \/ wire[k].frame = wire[l].frame /\ wire[k].at < wire[l].at

Whole ==
    \A k \in DOMAIN wire :
        /\ wire[k].frame \in DOMAIN sent
        /\ wire[k].at \in 1 .. Written(wire[k].frame)
        /\ \A m \in Nat :
              wire[k].at + m <= Written(wire[k].frame) =>
                 /\ k + m <= Len(wire)
                 /\ wire[k + m] = [frame |-> wire[k].frame, at |-> wire[k].at + m]

Adjacent ==
    \A k \in DOMAIN wire, j \in DOMAIN sent :
        (wire[k].at = Written(wire[k].frame) /\ j = wire[k].frame + 1 /\ Sound(j)) =>
           /\ k < Len(wire)
           /\ wire[k + 1] = [frame |-> j, at |-> 1]

\* What the faults may spoil.
Spoiled ==
    \A i \in DOMAIN sent :
        /\ fault \notin {"empty", "small"} => sent[i].length > 0
        /\ fault # "short" => Written(i) = Size(sent[i])
        /\ Written(i) <= Size(sent[i])

(***************************************************************************)
(* The reader has returned fewer bodies than it has seen headers, and it   *)
(* knows the format of the frame it is in.                                 *)
(***************************************************************************)
Midway == step \in {"size", "hi", "body"}

Ahead ==
    /\ Len(received) <= Len(sent)
    /\ Midway => Len(received) < header
    /\ \A k \in DOMAIN wire : wire[k].at = 1 =>
          /\ step = "start" => Len(received) < wire[k].frame
          /\ Midway => header < wire[k].frame

KnownFormat ==
    /\ step = "size" => sent[header].format = "X224"
    /\ step = "hi" => sent[header].format = "FastLong"

(***************************************************************************)
(* After sound frames only, the reader is where it believes to be: at the  *)
(* byte Offset of the frame behind those it has returned.                  *)
(***************************************************************************)
SoundTo(i) == \A j \in 1 .. i : Sound(j)

Offset ==
    CASE step = "start" -> 0
      [] step = "size"  -> 2
      [] step = "hi"    -> 2
      [] OTHER          -> HeaderSize[sent[header].format]

NothingLeft == wire = <<>> /\ step \in {"start", "failed"}

AtFrame(i) ==
    /\ step # "lost"
    /\ step = "start" \/ Midway => wire # <<>> /\ wire[1].frame = i /\ wire[1].at = Offset + 1
    /\ Midway => header = i

InPlace ==
    SoundTo(Len(received)) =>
        LET i == Len(received) + 1 IN
        IF i > Len(sent) THEN NothingLeft ELSE Sound(i) => AtFrame(i)

IInv ==
    /\ FramingTypeOK
    /\ InOrder /\ Whole /\ Adjacent /\ Spoiled
    /\ Ahead /\ KnownFormat /\ InPlace
    /\ RightSoFar

-----------------------------------------------------------------------------
\* Facts about headers, bytes and what is taken off the wire.

\* The three formats and the sizes of their headers.
LEMMA HeaderSizes ==
    /\ Format = {"X224", "Fast", "FastLong"}
    /\ HeaderSize["X224"] = 4 /\ HeaderSize["Fast"] = 2 /\ HeaderSize["FastLong"] = 3
    /\ \A f \in Format : HeaderSize[f] \in 2 .. 4
  BY DEF Format, HeaderSize

\* The bounds are numbers, and a body that is not empty has a size of 1 to MaxBody.
LEMMA Bounds ==
    /\ MaxFrames \in Nat
    /\ MaxBody \in Nat /\ MaxBody > 0
    /\ \A k : k \in 1 .. MaxBody <=> k \in 0 .. MaxBody /\ k > 0
  BY FramingAssumption

\* A frame that was written, and its size.
LEMMA FrameFacts ==
    ASSUME FramingTypeOK, NEW i \in DOMAIN sent
    PROVE  /\ i \in Nat \ {0} /\ i <= Len(sent)
           /\ sent[i] \in Frame
           /\ sent[i].format \in Format
           /\ HeaderSize[sent[i].format] \in 2 .. 4
           /\ sent[i].length \in Nat /\ sent[i].length <= MaxBody
           /\ Written(i) \in Nat
           /\ Size(sent[i]) \in Nat
           /\ Size(sent[i]) = HeaderSize[sent[i].format] + sent[i].length
  <1>1. i \in Nat \ {0} /\ i <= Len(sent) /\ sent[i] \in Frame
    BY DEF FramingTypeOK
  <1>2. /\ sent[i].format \in Format
        /\ sent[i].length \in Nat /\ sent[i].length <= MaxBody
        /\ sent[i].written \in Nat
    BY <1>1, Bounds DEF Frame
  <1> QED
    BY <1>1, <1>2, HeaderSizes DEF Size, Written

\* There are at most MaxFrames.
LEMMA InBounds ==
    ASSUME FramingTypeOK, NEW i \in DOMAIN sent
    PROVE  i \in 1 .. MaxFrames
  <1>1. Len(sent) <= MaxFrames /\ MaxFrames \in Nat
    BY Bounds DEF FramingTypeOK
  <1>2. i \in Nat \ {0} /\ i <= Len(sent) /\ Len(sent) \in Nat
    BY FrameFacts DEF FramingTypeOK
  <1> QED
    BY <1>1, <1>2

\* A function on 1 .. n is a sequence.
LEMMA FunctionIsSeq ==
    ASSUME NEW S, NEW n \in Nat, NEW f \in [1 .. n -> S]
    PROVE  f \in Seq(S) /\ Len(f) = n
  <1>1. f \in Seq(S)
    BY SeqDef
  <1>2. Len(f) \in Nat /\ DOMAIN f = 1 .. Len(f)
    BY <1>1, LenProperties
  <1> QED
    BY <1>1, <1>2

\* A byte is its frame and its place in it.
LEMMA ByteFacts ==
    ASSUME NEW b \in Byte
    PROVE  /\ b = [frame |-> b.frame, at |-> b.at]
           /\ b.frame \in 1 .. MaxFrames /\ b.at \in Nat
  BY DEF Byte

\* The bytes of a frame from one place to another.
LEMMA BytesFacts ==
    ASSUME NEW i \in 1 .. MaxFrames, NEW a \in Nat, NEW n \in Nat
    PROVE  /\ Bytes(i, a + 1, a + n) \in Seq(Byte)
           /\ Len(Bytes(i, a + 1, a + n)) = n
           /\ \A k \in 1 .. n : Bytes(i, a + 1, a + n)[k] = [frame |-> i, at |-> a + k]
  <1>1. (a + n) + 1 - (a + 1) = n
    OBVIOUS
  <1>2. Bytes(i, a + 1, a + n) = [k \in 1 .. n |-> [frame |-> i, at |-> a + k]]
    <2>1. \A k \in 1 .. n : (a + 1) + k - 1 = a + k
      OBVIOUS
    <2> QED
      BY <1>1, <2>1 DEF Bytes
  <1>3. \A k \in 1 .. n : [frame |-> i, at |-> a + k] \in Byte
    BY DEF Byte
  <1>4. Bytes(i, a + 1, a + n) \in [1 .. n -> Byte]
    BY <1>2, <1>3
  <1> QED
    BY <1>2, <1>4, FunctionIsSeq

\* ... and of the bytes a frame begins with.
LEMMA FirstBytes ==
    ASSUME NEW i \in 1 .. MaxFrames, NEW n \in Nat
    PROVE  /\ Bytes(i, 1, n) \in Seq(Byte)
           /\ Len(Bytes(i, 1, n)) = n
           /\ \A k \in 1 .. n : Bytes(i, 1, n)[k] = [frame |-> i, at |-> k]
  <1>1. 0 \in Nat /\ 0 + 1 = 1 /\ 0 + n = n
    OBVIOUS
  <1>2. /\ Bytes(i, 0 + 1, 0 + n) \in Seq(Byte)
        /\ Len(Bytes(i, 0 + 1, 0 + n)) = n
        /\ \A k \in 1 .. n : Bytes(i, 0 + 1, 0 + n)[k] = [frame |-> i, at |-> 0 + k]
    BY <1>1, BytesFacts
  <1>3. ASSUME NEW k \in 1 .. n
        PROVE  Bytes(i, 1, n)[k] = [frame |-> i, at |-> k]
    <2>1. 0 + k = k
      OBVIOUS
    <2> QED
      BY <1>1, <1>2, <2>1
  <1> QED
    BY <1>1, <1>2, <1>3

\* The bytes on the wire.
LEMMA WireFacts ==
    ASSUME FramingTypeOK
    PROVE  /\ wire \in Seq(Byte) /\ Len(wire) \in Nat /\ DOMAIN wire = 1 .. Len(wire)
           /\ \A k \in DOMAIN wire :
                 /\ wire[k] = [frame |-> wire[k].frame, at |-> wire[k].at]
                 /\ wire[k].frame \in 1 .. MaxFrames /\ wire[k].at \in Nat
  <1>1. wire \in Seq(Byte)
    BY DEF FramingTypeOK
  <1>2. \A k \in DOMAIN wire : wire[k] \in Byte
    BY <1>1
  <1> QED
    BY <1>1, <1>2, ByteFacts

\* A read takes the first bytes off the wire,
LEMMA TakeFacts ==
    ASSUME FramingTypeOK, NEW n \in Nat, Take(n)
    PROVE  /\ n <= Len(wire)
           /\ wire' \in Seq(Byte) /\ Len(wire') = Len(wire) - n
           /\ DOMAIN wire' = 1 .. Len(wire')
           /\ \A k \in 1 .. Len(wire') : k + n \in DOMAIN wire /\ wire'[k] = wire[k + n]
           /\ Taken(n) \in Seq(Byte) /\ Len(Taken(n)) = n
           /\ \A k \in 1 .. n : k \in DOMAIN wire /\ Taken(n)[k] = wire[k]
           /\ arrived' \in 0 .. Len(wire')
           /\ UNCHANGED <<fault, sent, open>>
  <1>1. wire \in Seq(Byte) /\ arrived \in 0 .. Len(wire) /\ n <= arrived
    BY DEF FramingTypeOK, Take
  <1>2. wire' = SubSeq(wire, n + 1, Len(wire)) /\ arrived' = arrived - n
    BY DEF Take
  <1>3. n <= Len(wire)
    BY <1>1
  <1>4. /\ wire' \in Seq(Byte) /\ Len(wire') = Len(wire) - n
        /\ \A k \in 1 .. Len(wire') : k + n \in DOMAIN wire /\ wire'[k] = wire[k + n]
    BY <1>1, <1>2, <1>3, SMT
  <1>5. /\ Taken(n) \in Seq(Byte) /\ Len(Taken(n)) = n
        /\ \A k \in 1 .. n : k \in DOMAIN wire /\ Taken(n)[k] = wire[k]
    BY <1>1, <1>3, SMT DEF Taken
  <1> QED
    BY <1>1, <1>2, <1>3, <1>4, <1>5 DEF Take

-----------------------------------------------------------------------------
\* What a read does to the wire, whatever it makes of the bytes.

\* and leaves the rest in order.
LEMMA TakeKeepsTheWire ==
    ASSUME IInv, NEW n \in Nat, Take(n)
    PROVE  InOrder' /\ Whole' /\ Adjacent' /\ Spoiled'
  <1>1. /\ n <= Len(wire) /\ Len(wire') = Len(wire) - n /\ Len(wire) \in Nat
        /\ DOMAIN wire' = 1 .. Len(wire') /\ DOMAIN wire = 1 .. Len(wire)
        /\ \A k \in 1 .. Len(wire') : k + n \in DOMAIN wire /\ wire'[k] = wire[k + n]
        /\ UNCHANGED <<fault, sent, open>>
    BY TakeFacts, WireFacts DEF IInv
  <1>2. InOrder'
    <2> SUFFICES ASSUME NEW k \in DOMAIN wire', NEW l \in DOMAIN wire', k < l
                 PROVE  \/ wire'[k].frame < wire'[l].frame
                        \/ wire'[k].frame = wire'[l].frame /\ wire'[k].at < wire'[l].at
      BY DEF InOrder
    <2>1. k + n \in DOMAIN wire /\ l + n \in DOMAIN wire /\ k + n < l + n
      BY <1>1
    <2> QED
      BY <1>1, <2>1 DEF IInv, InOrder
  <1>3. Whole'
    <2> SUFFICES ASSUME NEW k \in DOMAIN wire'
                 PROVE  /\ wire'[k].frame \in DOMAIN sent
                        /\ wire'[k].at \in 1 .. Written(wire'[k].frame)
                        /\ \A m \in Nat :
                              wire'[k].at + m <= Written(wire'[k].frame) =>
                                 /\ k + m <= Len(wire')
                                 /\ wire'[k + m] = [frame |-> wire'[k].frame, at |-> wire'[k].at + m]
      BY <1>1 DEF Whole, Written
    <2>1. k + n \in DOMAIN wire /\ wire'[k] = wire[k + n] /\ k \in Nat
      BY <1>1
    <2>2. /\ wire'[k].frame \in DOMAIN sent
          /\ wire'[k].at \in 1 .. Written(wire'[k].frame)
      BY <2>1 DEF IInv, Whole
    <2>3. ASSUME NEW m \in Nat, wire'[k].at + m <= Written(wire'[k].frame)
          PROVE  /\ k + m <= Len(wire')
                 /\ wire'[k + m] = [frame |-> wire'[k].frame, at |-> wire'[k].at + m]
      <3>1. /\ (k + n) + m <= Len(wire)
            /\ wire[(k + n) + m] = [frame |-> wire'[k].frame, at |-> wire'[k].at + m]
        BY <2>1, <2>3 DEF IInv, Whole
      <3>2. k + m <= Len(wire') /\ k + m \in 1 .. Len(wire') /\ (k + m) + n = (k + n) + m
        BY <1>1, <2>1, <3>1
      <3> QED
        BY <1>1, <3>1, <3>2
    <2> QED
      BY <2>2, <2>3
  <1>4. Adjacent'
    <2> SUFFICES ASSUME NEW k \in DOMAIN wire', NEW j \in DOMAIN sent,
                        wire'[k].at = Written(wire'[k].frame), j = wire'[k].frame + 1, Sound(j)
                 PROVE  k < Len(wire') /\ wire'[k + 1] = [frame |-> j, at |-> 1]
      BY <1>1 DEF Adjacent, Written, Sound
    <2>1. k + n \in DOMAIN wire /\ wire'[k] = wire[k + n] /\ k \in Nat
      BY <1>1
    <2>2. k + n < Len(wire) /\ wire[(k + n) + 1] = [frame |-> j, at |-> 1]
      BY <2>1 DEF IInv, Adjacent
    <2>3. k < Len(wire') /\ k + 1 \in 1 .. Len(wire') /\ (k + 1) + n = (k + n) + 1
      BY <1>1, <2>1, <2>2
    <2> QED
      BY <1>1, <2>2, <2>3
  <1>5. Spoiled'
    BY <1>1 DEF IInv, Spoiled, Written
  <1> QED
    BY <1>2, <1>3, <1>4, <1>5

\* A write appends the bytes of one frame,
LEMMA PutTypes ==
    ASSUME IInv, NEW format \in Format, NEW length \in 0 .. MaxBody, NEW n \in Nat,
           n <= HeaderSize[format] + length, Put(format, length, n)
    PROVE  /\ FramingTypeOK'
           /\ sent' = Append(sent, [format |-> format, length |-> length, written |-> n])
           /\ Len(sent') = Len(sent) + 1 /\ Len(sent) \in Nat
           /\ DOMAIN sent = 1 .. Len(sent) /\ DOMAIN sent' = 1 .. Len(sent')
           /\ \A i \in DOMAIN sent : i \in DOMAIN sent' /\ sent'[i] = sent[i]
           /\ sent'[Len(sent')].format = format /\ sent'[Len(sent')].length = length
           /\ sent'[Len(sent')].written = n
           /\ Len(wire') = Len(wire) + n /\ Len(wire) \in Nat
           /\ DOMAIN wire = 1 .. Len(wire) /\ DOMAIN wire' = 1 .. Len(wire')
           /\ \A k \in DOMAIN wire : k \in DOMAIN wire' /\ wire'[k] = wire[k]
           /\ \A k \in 1 .. n : wire'[Len(wire) + k] = [frame |-> Len(sent'), at |-> k]
           /\ \A k \in DOMAIN wire' : k \in DOMAIN wire \/ k - Len(wire) \in 1 .. n
  <1> DEFINE new == [format |-> format, length |-> length, written |-> n]
             bytes == Bytes(Len(sent'), 1, n)
  <1>1. new \in Frame /\ new.format = format /\ new.length = length /\ new.written = n
    BY DEF Frame
  <1>2. /\ sent \in Seq(Frame) /\ Len(sent) \in Nat /\ Len(sent) < MaxFrames
        /\ sent' = Append(sent, new)
        /\ wire' = wire \o bytes
        /\ UNCHANGED <<fault, arrived, open, step, header, received>>
    BY DEF Put, IInv, FramingTypeOK
  <1> HIDE DEF new
  <1>3. /\ sent' \in Seq(Frame) /\ Len(sent') = Len(sent) + 1
        /\ \A i \in 1 .. Len(sent) : sent'[i] = sent[i]
        /\ sent'[Len(sent')] = new
    BY <1>1, <1>2, AppendProperties
  <1>4. /\ bytes \in Seq(Byte) /\ Len(bytes) = n
        /\ \A k \in 1 .. n : bytes[k] = [frame |-> Len(sent'), at |-> k]
    <2>1. Len(sent') \in 1 .. MaxFrames
      <3>1. MaxFrames \in Nat
        BY Bounds
      <3>2. Len(sent) \in Nat /\ Len(sent) < MaxFrames /\ Len(sent') = Len(sent) + 1
        BY <1>2, <1>3
      <3> QED
        BY <3>1, <3>2
    <2> QED
      BY <2>1, FirstBytes
  <1> HIDE DEF bytes
  <1>5. wire \in Seq(Byte) /\ Len(wire) \in Nat /\ DOMAIN wire = 1 .. Len(wire)
    BY WireFacts DEF IInv
  <1>6. /\ wire' \in Seq(Byte) /\ Len(wire') = Len(wire) + n
        /\ \A k \in 1 .. Len(wire) : wire'[k] = wire[k]
        /\ \A k \in 1 .. n : wire'[Len(wire) + k] = bytes[k]
    <2>1. /\ wire' \in Seq(Byte) /\ Len(wire') = Len(wire) + n
          /\ \A k \in 1 .. Len(wire) + n :
                wire'[k] = IF k <= Len(wire) THEN wire[k] ELSE bytes[k - Len(wire)]
      BY <1>2, <1>4, <1>5, ConcatProperties
    <2>2. \A k \in 1 .. Len(wire) : k \in 1 .. Len(wire) + n /\ k <= Len(wire)
      BY <1>5
    <2>3. \A k \in 1 .. n : /\ Len(wire) + k \in 1 .. Len(wire) + n
                            /\ ~(Len(wire) + k <= Len(wire))
                            /\ (Len(wire) + k) - Len(wire) = k
      BY <1>5
    <2> QED
      BY <2>1, <2>2, <2>3
  <1>7. FramingTypeOK'
    <2>1. arrived' \in 0 .. Len(wire') /\ header' \in NoFrame .. Len(sent')
      <3>1. arrived \in 0 .. Len(wire) /\ header \in NoFrame .. Len(sent)
        BY DEF IInv, FramingTypeOK
      <3> QED
        BY <1>2, <1>3, <1>5, <1>6, <3>1 DEF NoFrame
    <2>2. Len(sent') <= MaxFrames
      BY <1>2, <1>3, Bounds
    <2> QED
      BY <1>2, <1>3, <1>6, <2>1, <2>2 DEF IInv, FramingTypeOK
  <1>8. /\ DOMAIN sent = 1 .. Len(sent) /\ DOMAIN sent' = 1 .. Len(sent')
        /\ \A i \in DOMAIN sent : i \in DOMAIN sent' /\ sent'[i] = sent[i]
    BY <1>2, <1>3
  <1>9. /\ DOMAIN wire' = 1 .. Len(wire')
        /\ \A k \in DOMAIN wire : k \in DOMAIN wire' /\ wire'[k] = wire[k]
        /\ \A k \in DOMAIN wire' : k \in DOMAIN wire \/ k - Len(wire) \in 1 .. n
    BY <1>5, <1>6
  <1>10. \A k \in 1 .. n : wire'[Len(wire) + k] = [frame |-> Len(sent'), at |-> k]
    BY <1>4, <1>6
  <1>11. sent' = Append(sent, [format |-> format, length |-> length, written |-> n])
    BY <1>2 DEF new
  <1> QED
    BY <1>1, <1>2, <1>3, <1>5, <1>6, <1>7, <1>8, <1>9, <1>10, <1>11

\* which keeps the invariant.
LEMMA PutKeepsTheInvariant ==
    ASSUME IInv, NEW format \in Format, NEW length \in 0 .. MaxBody, NEW n \in Nat,
           n <= HeaderSize[format] + length, Put(format, length, n),
           fault \notin {"empty", "small"} => length > 0,
           fault # "short" => n = HeaderSize[format] + length
    PROVE  IInv'
  <1>0. Len(sent') = Len(sent) + 1 /\ Len(sent) \in Nat
    BY PutTypes
  <1> PICK last \in Nat : last = Len(sent')
    BY <1>0
  <1>1. /\ FramingTypeOK'
        /\ Len(sent') = Len(sent) + 1 /\ Len(sent) \in Nat
        /\ DOMAIN sent = 1 .. Len(sent) /\ DOMAIN sent' = 1 .. Len(sent')
        /\ \A i \in DOMAIN sent : i \in DOMAIN sent' /\ sent'[i] = sent[i]
        /\ sent'[last].format = format /\ sent'[last].length = length /\ sent'[last].written = n
    BY PutTypes
  <1>2. /\ Len(wire') = Len(wire) + n /\ Len(wire) \in Nat
        /\ DOMAIN wire = 1 .. Len(wire) /\ DOMAIN wire' = 1 .. Len(wire')
        /\ \A k \in DOMAIN wire : k \in DOMAIN wire' /\ wire'[k] = wire[k]
        /\ \A k \in 1 .. n : wire'[Len(wire) + k] = [frame |-> last, at |-> k]
        /\ \A k \in DOMAIN wire' : k \in DOMAIN wire \/ k - Len(wire) \in 1 .. n
    BY PutTypes
  <1>3. UNCHANGED <<fault, arrived, open, step, header, received>>
    BY DEF Put
  <1>4. \A k \in DOMAIN wire' \ DOMAIN wire :
           \E a \in 1 .. n : k = Len(wire) + a /\ wire'[k] = [frame |-> last, at |-> a]
    <2> SUFFICES ASSUME NEW k \in DOMAIN wire' \ DOMAIN wire
                 PROVE  \E a \in 1 .. n : k = Len(wire) + a /\ wire'[k] = [frame |-> last, at |-> a]
      OBVIOUS
    <2>1. k - Len(wire) \in 1 .. n /\ k = Len(wire) + (k - Len(wire))
      BY <1>2
    <2> QED
      BY ZenonT(40), <1>2, <2>1
  <1>5. \A k \in DOMAIN wire : wire[k].frame \in DOMAIN sent /\ wire[k].frame < last /\ wire[k].at \in Nat
    BY <1>1, <1>2 DEF IInv, Whole
  <1>6. last \in Nat /\ last \in DOMAIN sent' /\ last \notin DOMAIN sent
    BY <1>1
  <1>7. InOrder'
    <2> SUFFICES ASSUME NEW k \in DOMAIN wire', NEW l \in DOMAIN wire', k < l
                 PROVE  \/ wire'[k].frame < wire'[l].frame
                        \/ wire'[k].frame = wire'[l].frame /\ wire'[k].at < wire'[l].at
      BY DEF InOrder
    <2>1. CASE l \in DOMAIN wire
      <3>1. k \in DOMAIN wire
        BY <1>2, <2>1
      <3> QED
        BY <1>2, <2>1, <3>1 DEF IInv, InOrder
    <2>2. CASE l \notin DOMAIN wire /\ k \in DOMAIN wire
      <3>1. wire'[l].frame = last /\ wire'[k] = wire[k]
        BY <1>2, <1>4, <2>2
      <3> QED
        BY <1>5, <2>2, <3>1
    <2>3. CASE l \notin DOMAIN wire /\ k \notin DOMAIN wire
      <3>1. PICK a \in 1 .. n : k = Len(wire) + a /\ wire'[k] = [frame |-> last, at |-> a]
        BY <1>4, <2>3
      <3>2. PICK b \in 1 .. n : l = Len(wire) + b /\ wire'[l] = [frame |-> last, at |-> b]
        BY <1>4, <2>3
      <3>3. a < b
        BY <1>2, <3>1, <3>2
      <3> QED
        BY <3>1, <3>2, <3>3
    <2> QED
      BY <2>1, <2>2, <2>3
  <1>8. Whole'
    <2> SUFFICES ASSUME NEW k \in DOMAIN wire'
                 PROVE  /\ wire'[k].frame \in DOMAIN sent'
                        /\ wire'[k].at \in 1 .. sent'[wire'[k].frame].written
                        /\ \A m \in Nat :
                              wire'[k].at + m <= sent'[wire'[k].frame].written =>
                                 /\ k + m <= Len(wire')
                                 /\ wire'[k + m] = [frame |-> wire'[k].frame, at |-> wire'[k].at + m]
      BY DEF Whole, Written
    <2>1. CASE k \in DOMAIN wire
      <3>1. /\ wire[k].frame \in DOMAIN sent
            /\ wire[k].at \in 1 .. sent[wire[k].frame].written
            /\ \A m \in Nat :
                  wire[k].at + m <= sent[wire[k].frame].written =>
                    /\ k + m <= Len(wire)
                    /\ wire[k + m] = [frame |-> wire[k].frame, at |-> wire[k].at + m]
        BY <2>1 DEF IInv, Whole, Written
      <3>2. \A m \in Nat : k + m <= Len(wire) => k + m \in DOMAIN wire /\ k + m <= Len(wire')
        BY <1>2, <2>1
      <3>3. PICK b : b = wire[k]
        OBVIOUS
      <3>4. wire'[k] = b /\ b.frame \in DOMAIN sent' /\ sent'[b.frame] = sent[b.frame]
        BY <1>1, <1>2, <2>1, <3>1, <3>3
      <3>5. ASSUME NEW m \in Nat, b.at + m <= sent[b.frame].written
            PROVE  k + m <= Len(wire') /\ wire'[k + m] = [frame |-> b.frame, at |-> b.at + m]
        <4>1. k + m <= Len(wire) /\ wire[k + m] = [frame |-> b.frame, at |-> b.at + m]
          BY <3>1, <3>3, <3>5
        <4>2. k + m \in DOMAIN wire /\ k + m <= Len(wire')
          BY <3>2, <4>1
        <4> QED
          BY <1>2, <4>1, <4>2
      <3> QED
        BY <3>1, <3>3, <3>4, <3>5
    <2>2. CASE k \notin DOMAIN wire
      <3>1. PICK a \in 1 .. n : k = Len(wire) + a /\ wire'[k] = [frame |-> last, at |-> a]
        BY <1>4, <2>2
      <3>2. wire'[k].frame = last /\ wire'[k].at = a /\ sent'[last].written = n
        BY <1>1, <3>1
      <3>3. ASSUME NEW m \in Nat, a + m <= n
            PROVE  k + m <= Len(wire') /\ wire'[k + m] = [frame |-> last, at |-> a + m]
        <4>1. a + m \in 1 .. n /\ k + m = Len(wire) + (a + m) /\ k + m <= Len(wire')
          BY <1>2, <3>1, <3>3
        <4> QED
          BY <1>2, <4>1
      <3> QED
        BY <1>6, <3>2, <3>3
    <2> QED
      BY <2>1, <2>2
  <1>9. Adjacent'
    <2> SUFFICES ASSUME NEW k \in DOMAIN wire', NEW j \in DOMAIN sent',
                        wire'[k].at = sent'[wire'[k].frame].written, j = wire'[k].frame + 1, Sound(j)'
                 PROVE  k < Len(wire') /\ wire'[k + 1] = [frame |-> j, at |-> 1]
      BY DEF Adjacent, Written
    <2>1. k \in DOMAIN wire
      <3>1. ASSUME k \notin DOMAIN wire PROVE FALSE
        <4>1. wire'[k].frame = last
          BY <1>4, <3>1
        <4> QED
          BY <1>1, <1>6, <4>1
      <3> QED
        BY <3>1
    <2>2. wire'[k] = wire[k] /\ wire[k].frame \in DOMAIN sent /\ wire[k].at = sent[wire[k].frame].written
      BY <1>1, <1>2, <1>5, <2>1
    <2>3. CASE j \in DOMAIN sent
      <3>1. Sound(j)
        BY <1>1, <2>3 DEF Sound
      <3>2. k < Len(wire) /\ wire[k + 1] = [frame |-> j, at |-> 1]
        BY <2>1, <2>2, <2>3, <3>1 DEF IInv, Adjacent, Written
      <3>3. k + 1 \in DOMAIN wire
        BY <1>2, <2>1, <3>2
      <3> QED
        BY <1>2, <3>2, <3>3
    <2>4. CASE j \notin DOMAIN sent
      <3>1. j = last
        BY <1>1, <2>4
      <3>2. n > 0
        <4>1. n = Size(sent'[last])
          BY <1>1, <3>1 DEF Sound
        <4>2. Size(sent'[last]) = HeaderSize[format] + length
          BY <1>1 DEF Size
        <4>3. HeaderSize[format] \in 2 .. 4 /\ length \in Nat
          BY HeaderSizes, Bounds
        <4> QED
          BY <4>1, <4>2, <4>3
      <3>3. k = Len(wire)
        \* A later byte would belong to a frame after the last one.
        <4>1. ASSUME k # Len(wire) PROVE FALSE
          <5>1. k + 1 \in DOMAIN wire /\ k < k + 1 /\ k \in Nat
            BY <1>2, <2>1, <4>1
          <5>2. \/ wire[k].frame < wire[k + 1].frame
                \/ wire[k].frame = wire[k + 1].frame /\ wire[k].at < wire[k + 1].at
            BY <2>1, <5>1 DEF IInv, InOrder
          <5>3. /\ wire[k + 1].frame \in DOMAIN sent
                /\ wire[k + 1].at \in 1 .. sent[wire[k + 1].frame].written
            BY <5>1 DEF IInv, Whole, Written
          <5>4. sent[wire[k].frame].written \in Nat /\ wire[k].frame + 1 = Len(sent) + 1
            <6>1. sent[wire[k].frame].written \in Nat
              BY <2>2, FrameFacts DEF IInv, Written
            <6> QED
              BY <1>1, <2>2, <3>1, <6>1
          <5>5. ~(wire[k].frame < wire[k + 1].frame)
            <6>1. wire[k + 1].frame \in Nat /\ wire[k + 1].frame <= Len(sent)
              BY <5>3, FrameFacts DEF IInv
            <6>2. Len(sent) \in Nat /\ wire[k].frame \in Nat
              BY <2>2, FrameFacts DEF IInv, FramingTypeOK
            <6> QED
              BY <5>4, <6>1, <6>2
          <5>6. wire[k].frame = wire[k + 1].frame /\ wire[k].at < wire[k + 1].at
            BY <5>2, <5>5
          <5>7. PICK w \in Nat : w = sent[wire[k].frame].written
            BY <5>4
          <5>8. wire[k].at = w /\ wire[k + 1].at \in 1 .. w
            BY <2>2, <5>3, <5>6, <5>7
          <5> QED
            BY <5>6, <5>8
        <4> QED
          BY <4>1
      <3>4. 1 \in 1 .. n /\ k < Len(wire')
        BY <1>2, <2>1, <3>2, <3>3, HeaderSizes
      <3> QED
        BY <1>2, <3>1, <3>3, <3>4
    <2> QED
      BY <2>3, <2>4
  <1>10. Spoiled'
    <2>1. Size(sent'[last]) = HeaderSize[format] + length
      BY <1>1 DEF Size
    <2>2. Written(last)' = n
      BY <1>1  DEF Written
    <2>3. \A i \in DOMAIN sent' : i \in DOMAIN sent \/ i = last
      BY <1>1, <1>6
    <2> QED
      BY <1>1, <1>3, <2>1, <2>2, <2>3 DEF IInv, Spoiled, Written
  <1>11. Ahead'
    <2>1. /\ Len(received) \in Nat /\ Len(received) <= Len(sent) /\ Len(received) < last
          /\ header < last
      BY <1>1 DEF IInv, FramingTypeOK, Ahead, NoFrame
    <2>2. ASSUME NEW k \in DOMAIN wire', wire'[k].at = 1
          PROVE  /\ step = "start" => Len(received) < wire'[k].frame
                 /\ Midway => header < wire'[k].frame
      <3>1. CASE k \in DOMAIN wire
        BY <1>2, <2>2, <3>1 DEF IInv, Ahead
      <3>2. CASE k \notin DOMAIN wire
        <4>1. wire'[k].frame = last
          BY <1>4, <3>2
        <4> QED
          BY <2>1, <4>1
      <3> QED
        BY <3>1, <3>2
    <2>3. Midway => Len(received) < header
      BY DEF IInv, Ahead
    <2> QED
      BY <1>1, <1>3, <2>1, <2>2, <2>3 DEF Ahead, Midway
  <1>12. Midway => header \in DOMAIN sent
    BY <1>1 DEF IInv, FramingTypeOK, Ahead, NoFrame
  <1>13. KnownFormat'
    BY <1>1, <1>3, <1>12 DEF IInv, KnownFormat, Midway
  <1>14. \A i \in DOMAIN sent : Sound(i)' <=> Sound(i)
    BY <1>1 DEF Sound
  <1>15. Len(received) \in Nat /\ Len(received) <= Len(sent) /\ DOMAIN received = 1 .. Len(received)
    BY DEF IInv, FramingTypeOK, Ahead
  <1>16. InPlace'
    <2> PICK i \in Nat : i = Len(received) + 1
      BY <1>15
    <2> SUFFICES ASSUME SoundTo(Len(received))'
                 PROVE  IF i > Len(sent') THEN NothingLeft' ELSE Sound(i)' => AtFrame(i)'
      BY <1>3 DEF InPlace
    <2>1. SoundTo(Len(received))
      <3>1. \A j \in 1 .. Len(received) : j \in DOMAIN sent
        BY <1>1, <1>15
      <3> QED
        BY <1>3, <1>14, <3>1 DEF SoundTo
    <2>2. i = Len(received) + 1
      OBVIOUS
    <2>3. CASE i <= Len(sent)
      <3>1. i \in DOMAIN sent /\ ~(i > Len(sent)) /\ ~(i > Len(sent'))
        BY <1>1, <1>15, <2>2, <2>3
      <3>2. Sound(i)' => AtFrame(i)
        BY <1>14, <2>1, <2>2, <3>1 DEF IInv, InPlace
      <3>3. step = "start" \/ Midway => Offset' = Offset
        BY <1>1, <1>3, <1>12 DEF Offset, Midway
      <3>4. wire # <<>> => wire' # <<>> /\ wire'[1] = wire[1]
        <4>1. wire # <<>> => 1 \in DOMAIN wire
          BY WireFacts, EmptySeq DEF IInv
        <4>2. wire' = <<>> => Len(wire') = 0
          BY EmptySeq
        <4> QED
          BY <1>2, <4>1, <4>2
      <3>5. AtFrame(i) => AtFrame(i)'
        BY <1>3, <3>3, <3>4 DEF AtFrame, Midway
      <3> QED
        BY <2>2, <3>1, <3>2, <3>5
    <2>4. CASE i > Len(sent)
      <3>1. NothingLeft
        BY <2>1, <2>2, <2>4 DEF IInv, InPlace
      <3>2. i = last /\ ~(i > Len(sent')) /\ Len(wire) = 0
        BY <1>1, <1>15, <2>2, <2>4, <3>1 DEF NothingLeft
      <3>3. ASSUME Sound(last)' PROVE AtFrame(last)'
        <4>1. n > 0
          <5>1. sent'[last].written = Size(sent'[last]) /\ sent'[last].length > 0
            BY <3>3 DEF Sound
          <5>2. Size(sent'[last]) = HeaderSize[format] + length
            BY <1>1 DEF Size
          <5> QED
            BY <1>1, <5>1, <5>2, HeaderSizes, Bounds
        <4>2. 1 \in 1 .. n /\ Len(wire) + 1 = 1 /\ Len(wire') # 0
          BY <1>2, <3>2, <4>1
        <4>3. wire'[1] = [frame |-> last, at |-> 1] /\ wire' # <<>>
          BY <1>2, <4>2
        <4>4. step \in {"start", "failed"}
          BY <3>1 DEF NothingLeft
        <4> QED
          BY <1>3, <4>3, <4>4 DEF AtFrame, Offset, Midway
      <3> QED
        BY <2>2, <3>2, <3>3
    <2> QED
      BY <1>1, <2>2, <2>3, <2>4
  <1>17. RightSoFar'
    <2>1. ASSUME NEW k \in DOMAIN received, \A i \in 1 .. k : Sound(i)'
          PROVE  received[k] = BodyOf(k)'
      <3>1. \A i \in 1 .. k : i \in DOMAIN sent
        BY <1>1, <1>15
      <3>2. received[k] = BodyOf(k)
        BY <1>14, <2>1, <3>1 DEF IInv, RightSoFar
      <3>3. sent'[k] = sent[k]
        BY <1>1, <1>15
      <3> QED
        BY <3>2, <3>3 DEF BodyOf
    <2>2. step = "lost" => \E i \in DOMAIN sent' : ~Sound(i)'
      BY <1>1, <1>14 DEF IInv, RightSoFar
    <2> QED
      BY <1>3, <2>1, <2>2 DEF RightSoFar
  <1> QED
    BY <1>1, <1>7, <1>8, <1>9, <1>10, <1>11, <1>13, <1>16, <1>17 DEF IInv

-----------------------------------------------------------------------------
\* Where the reader is, as long as the frames have been sound.

Reading == step = "start" \/ Midway

\* What was read is no more than what was written.
LEMMA ReceivedFacts ==
    ASSUME IInv
    PROVE  /\ Len(received) \in Nat /\ Len(received) <= Len(sent) /\ Len(sent) \in Nat
           /\ DOMAIN received = 1 .. Len(received) /\ DOMAIN sent = 1 .. Len(sent)
           /\ received \in Seq(Seq(Byte))
           /\ Midway => header \in DOMAIN sent
           /\ header \in Nat
           /\ step \in {"start", "size", "hi", "body", "lost", "failed"}
  BY DEF IInv, FramingTypeOK, Ahead, NoFrame

\* After sound frames the reader stands at the next one.
LEMMA NotLost ==
    ASSUME IInv, Reading, wire # <<>>, NEW i \in Nat, i = Len(received) + 1,
           SoundTo(Len(received))
    PROVE  /\ i \in DOMAIN sent
           /\ Sound(i) =>
                 /\ AtFrame(i)
                 /\ \A m \in 1 .. Size(sent[i]) - Offset :
                       m \in DOMAIN wire /\ wire[m] = [frame |-> i, at |-> Offset + m]
  <1>1. i \in DOMAIN sent
    BY ReceivedFacts DEF IInv, InPlace, NothingLeft
  <1>2. ASSUME Sound(i) PROVE AtFrame(i)
    BY <1>1, <1>2, ReceivedFacts DEF IInv, InPlace
  <1>3. ASSUME Sound(i), NEW m \in 1 .. Size(sent[i]) - Offset
        PROVE  m \in DOMAIN wire /\ wire[m] = [frame |-> i, at |-> Offset + m]
    <2>1. wire[1].frame = i /\ wire[1].at = Offset + 1 /\ (Midway => header = i)
      BY <1>2, <1>3 DEF AtFrame, Reading
    <2>2. 1 \in DOMAIN wire /\ DOMAIN wire = 1 .. Len(wire) /\ Len(wire) \in Nat
      BY WireFacts, EmptySeq DEF IInv
    <2>3. Offset \in Nat
      <3>1. HeaderSize[sent[i].format] \in 2 .. 4
        BY <1>1, FrameFacts DEF IInv
      <3> QED
        BY <2>1, <3>1 DEF Offset, Reading, Midway
    <2>4. Size(sent[i]) \in Nat /\ Written(i) = Size(sent[i])
      BY <1>1, <1>3, FrameFacts DEF IInv, Sound, Written
    <2>5. PICK l \in Nat : m = 1 + l
      BY <2>3, <2>4
    <2>6. wire[1].at + l <= Written(wire[1].frame)
      BY <2>1, <2>3, <2>4, <2>5
    <2>7. 1 + l <= Len(wire) /\ wire[1 + l] = [frame |-> wire[1].frame, at |-> wire[1].at + l]
      BY <2>2, <2>6 DEF IInv, Whole
    <2>8. wire[1].at + l = Offset + m
      BY <2>1, <2>3, <2>5
    <2> QED
      BY <2>1, <2>2, <2>5, <2>7, <2>8
  <1> QED
    BY <1>1, <1>2, <1>3

\* What a read leaves is of its types.
LEMMA TakeTypes ==
    ASSUME IInv, NEW n \in Nat, Take(n),
           step' \in {"start", "size", "hi", "body", "lost", "failed"},
           header' \in NoFrame .. Len(sent),
           received' \in Seq(Seq(Byte))
    PROVE  FramingTypeOK'
  BY TakeFacts DEF IInv, FramingTypeOK

\* Bytes that do not stand where the reader believes, or that tell too small a
\* size, are those of a frame that is not sound, or follow one.
LEMMA LostBehindUnsound ==
    ASSUME IInv, Reading, wire # <<>>, NEW n \in Nat, Take(n),
           step' \in {"lost", "failed"}, header' \in NoFrame .. Len(sent), UNCHANGED received,
           SoundTo(Len(received)) => ~Sound(Len(received) + 1)
    PROVE  IInv'
  <1>1. /\ InOrder' /\ Whole' /\ Adjacent' /\ Spoiled'
        /\ UNCHANGED <<fault, sent, open>>
    BY TakeKeepsTheWire, TakeFacts DEF IInv
  <1>2. FramingTypeOK'
    BY TakeTypes, ReceivedFacts DEF IInv, FramingTypeOK
  <1>3. Ahead' /\ KnownFormat'
    BY <1>1, ReceivedFacts DEF Ahead, KnownFormat, Midway
  <1>4. PICK i \in Nat : i = Len(received) + 1
    BY ReceivedFacts
  <1>5. SoundTo(Len(received)) => i \in DOMAIN sent /\ ~Sound(i)
    BY <1>4, NotLost
  <1>6. InPlace'
    BY <1>1, <1>4, <1>5, ReceivedFacts DEF InPlace, SoundTo, Sound
  <1>7. \E j \in DOMAIN sent : ~Sound(j)
    <2>1. CASE SoundTo(Len(received))
      BY <1>5, <2>1
    <2>2. CASE ~SoundTo(Len(received))
      <3>1. PICK j \in 1 .. Len(received) : ~Sound(j)
        BY <2>2 DEF SoundTo
      <3>2. j \in DOMAIN sent
        BY ReceivedFacts
      <3> QED
        BY <3>1, <3>2
    <2> QED
      BY <2>1, <2>2
  <1>8. RightSoFar'
    BY <1>1, <1>7 DEF IInv, RightSoFar, Sound, BodyOf
  <1> QED
    BY <1>1, <1>2, <1>3, <1>6, <1>8 DEF IInv

\* Bytes that do are the next part of the header of frame f.
LEMMA HeaderRead ==
    ASSUME IInv, Reading, wire # <<>>, NEW n \in Nat, Take(n),
           NEW f \in DOMAIN sent, header' = f, Midway', UNCHANGED received,
           Len(received) < f,
           \A k \in DOMAIN wire : k > n /\ wire[k].at = 1 => f < wire[k].frame,
           SoundTo(Len(received)) /\ Sound(Len(received) + 1) => f = Len(received) + 1,
           Offset \in Nat, Offset' = Offset + n, Offset' <= HeaderSize[sent[f].format],
           KnownFormat'
    PROVE  IInv'
  <1>1. /\ InOrder' /\ Whole' /\ Adjacent' /\ Spoiled'
        /\ UNCHANGED <<fault, sent, open>>
        /\ Len(wire') = Len(wire) - n /\ DOMAIN wire' = 1 .. Len(wire') /\ Len(wire) \in Nat
        /\ \A k \in 1 .. Len(wire') : k + n \in DOMAIN wire /\ wire'[k] = wire[k + n]
    BY TakeKeepsTheWire, TakeFacts, WireFacts DEF IInv
  <1>2. FramingTypeOK'
    BY TakeTypes, ReceivedFacts DEF NoFrame, Midway
  <1>3. Ahead'
    <2>1. ASSUME NEW k \in DOMAIN wire', wire'[k].at = 1
          PROVE  f < wire'[k].frame
      <3>1. k + n \in DOMAIN wire /\ wire'[k] = wire[k + n] /\ k + n > n
        BY <1>1, <2>1
      <3> QED
        BY <2>1, <3>1
    <2> QED
      BY <1>1, <2>1, ReceivedFacts DEF Ahead, Midway
  <1>4. InPlace'
    <2> PICK i \in Nat : i = Len(received) + 1
      BY ReceivedFacts
    <2> SUFFICES ASSUME SoundTo(Len(received))
                 PROVE  IF i > Len(sent) THEN NothingLeft' ELSE Sound(i) => AtFrame(i)'
      BY <1>1 DEF InPlace, SoundTo, Sound
    <2>1. i \in DOMAIN sent /\ ~(i > Len(sent))
      BY NotLost, ReceivedFacts
    <2>2. ASSUME Sound(i) PROVE AtFrame(i)'
      <3>1. f = i
        BY <2>2
      <3>2. \A m \in 1 .. Size(sent[i]) - Offset :
               m \in DOMAIN wire /\ wire[m] = [frame |-> i, at |-> Offset + m]
        BY <2>2, NotLost
      <3>3. n + 1 \in 1 .. Size(sent[i]) - Offset
        <4>1. /\ Size(sent[i]) = HeaderSize[sent[i].format] + sent[i].length
              /\ Size(sent[i]) \in Nat /\ sent[i].length \in Nat
              /\ HeaderSize[sent[i].format] \in 2 .. 4
              /\ sent[i].length > 0
          BY <2>1, <2>2, FrameFacts DEF IInv, Sound
        <4>2. PICK h \in 2 .. 4, l \in Nat :
                  /\ h = HeaderSize[sent[i].format] /\ l = sent[i].length /\ l > 0
                  /\ Size(sent[i]) = h + l
          BY <4>1
        <4>3. Offset + n <= h /\ Offset \in Nat
          BY <3>1, <4>2
        <4>4. PICK o \in Nat : o = Offset
          BY <4>3
        <4>5. n + 1 \in 1 .. (h + l) - o
          BY <4>2, <4>3, <4>4
        <4> QED
          BY <4>2, <4>4, <4>5
      <3>4. n + 1 \in DOMAIN wire /\ wire[n + 1] = [frame |-> i, at |-> Offset + (n + 1)]
        BY <3>2, <3>3
      <3>5. 1 \in DOMAIN wire' /\ wire'[1] = wire[n + 1]
        BY <1>1, <3>4, WireFacts DEF IInv
      <3>6. wire' # <<>> /\ wire'[1].frame = i /\ wire'[1].at = Offset' + 1
        BY <3>4, <3>5
      <3> QED
        BY <3>1, <3>6 DEF AtFrame, Midway
    <2> QED
      BY <2>1, <2>2
  <1>5. RightSoFar'
    BY <1>1 DEF IInv, RightSoFar, Sound, BodyOf, Midway
  <1> QED
    BY <1>1, <1>2, <1>3, <1>4, <1>5 DEF IInv

\* The bytes that are read as a header are one, or not.
LEMMA StandFacts ==
    ASSUME FramingTypeOK, NEW i \in 1 .. MaxFrames, NEW a \in Nat, NEW n \in Nat, Take(n)
    PROVE  Stand(i, a + 1, a + n) <=> \A k \in 1 .. n : wire[k] = [frame |-> i, at |-> a + k]
  <1>1. (a + n) + 1 - (a + 1) = n
    OBVIOUS
  <1>2. /\ Taken(n) \in Seq(Byte) /\ Len(Taken(n)) = n
        /\ \A k \in 1 .. n : Taken(n)[k] = wire[k]
    BY TakeFacts
  <1>3. /\ Bytes(i, a + 1, a + n) \in Seq(Byte)
        /\ Len(Bytes(i, a + 1, a + n)) = n
        /\ \A k \in 1 .. n : Bytes(i, a + 1, a + n)[k] = [frame |-> i, at |-> a + k]
    BY BytesFacts
  <1>4. Stand(i, a + 1, a + n) <=> Taken(n) = Bytes(i, a + 1, a + n)
    BY <1>1 DEF Stand
  <1>5. Taken(n) = Bytes(i, a + 1, a + n) <=> \A k \in 1 .. n : Taken(n)[k] = Bytes(i, a + 1, a + n)[k]
    BY <1>2, <1>3, SeqEqual
  <1> QED
    BY <1>2, <1>3, <1>4, <1>5

\* The first two bytes of a header.
LEMMA ReadStartStep ==
    ASSUME IInv, ReadStart
    PROVE  IInv'
  <1>1. step = "start" /\ Take(2) /\ UNCHANGED received /\ Reading /\ Offset = 0
    BY DEF ReadStart, Reading, Offset
  <1>2. 1 \in DOMAIN wire /\ 2 \in DOMAIN wire /\ wire # <<>>
    BY <1>1, TakeFacts DEF IInv
  <1>3. PICK i \in 1 .. MaxFrames : i = wire[1].frame /\ i \in DOMAIN sent
    BY <1>2, WireFacts DEF IInv, Whole
  <1>4. Stand(i, 1, 2) <=> \A k \in 1 .. 2 : wire[k] = [frame |-> i, at |-> 0 + k]
    <2>1. 0 + 1 = 1 /\ 0 + 2 = 2
      OBVIOUS
    <2> QED
      BY <1>1, <2>1, StandFacts DEF IInv
  <1>5. CASE Stand(i, 1, 2)
    <2>3. sent[i].format \in Format
      BY <1>3, FrameFacts DEF IInv
    <2>1. /\ header' = i
          /\ \/ Undersized(i) /\ step' = "failed"
             \/ step' = [X224 |-> "size", Fast |-> "body", FastLong |-> "hi"][sent[i].format]
      BY <1>3, <1>5, <2>3, HeaderSizes DEF ReadStart
    <2>2. wire[1].frame = i /\ wire[1].at = 1
      BY <1>4, <1>5
    <2>4. UNCHANGED sent
      BY <1>1 DEF Take
    <2>5. ASSUME step' # "failed"
          PROVE  Midway' /\ Offset' = 2 /\ 2 <= HeaderSize[sent[i].format] /\ KnownFormat'
      BY <2>1, <2>3, <2>4, <2>5, HeaderSizes DEF Midway, Offset, KnownFormat
    <2>6. Len(received) < i
      BY <1>1, <1>2, <2>2 DEF IInv, Ahead
    <2>7. ASSUME NEW k \in DOMAIN wire, k > 2, wire[k].at = 1
          PROVE  i < wire[k].frame
      <3>1. 1 < k
        BY <2>7, WireFacts DEF IInv
      <3> QED
        BY <1>2, <2>2, <2>7, <3>1 DEF IInv, InOrder
    <2>8. ASSUME SoundTo(Len(received)), Sound(Len(received) + 1)
          PROVE  i = Len(received) + 1
      BY <1>1, <1>2, <2>2, <2>8, NotLost, ReceivedFacts DEF AtFrame
    <2>9. CASE step' = "failed"
      <3>1. Undersized(i)
        BY <2>1, <2>3, <2>9, HeaderSizes
      <3>2. SoundTo(Len(received)) => ~Sound(Len(received) + 1)
        BY <2>8, <3>1 DEF Undersized, Sound
      <3>3. header' \in NoFrame .. Len(sent)
        BY <1>3, <2>1, ReceivedFacts DEF NoFrame
      <3> QED
        BY <1>1, <1>2, <2>9, <3>2, <3>3, LostBehindUnsound
    <2> QED
      BY <1>1, <1>2, <1>3, <2>1, <2>5, <2>6, <2>7, <2>8, <2>9, HeaderRead
  <1>6. CASE ~Stand(i, 1, 2)
    <2>1. step' = "lost" /\ UNCHANGED header
      BY <1>3, <1>6 DEF ReadStart
    <2>2. ASSUME SoundTo(Len(received)), Sound(Len(received) + 1)
          PROVE  FALSE
      <3> PICK j \in Nat : j = Len(received) + 1
        BY ReceivedFacts
      <3>1. /\ AtFrame(j) /\ j \in DOMAIN sent
            /\ \A m \in 1 .. Size(sent[j]) - Offset :
                  m \in DOMAIN wire /\ wire[m] = [frame |-> j, at |-> Offset + m]
        BY <1>1, <1>2, <2>2, NotLost
      <3>2. j = i
        BY <1>3, <3>1, <1>1 DEF AtFrame
      <3>3. Size(sent[j]) \in Nat /\ Size(sent[j]) >= 2
        <4>1. FramingTypeOK
          BY DEF IInv
        <4>2. PICK h \in 2 .. 4, l \in Nat : Size(sent[j]) = h + l
          BY <3>1, <4>1, FrameFacts
        <4> QED
          BY <4>2
      <3>4. \A k \in 1 .. 2 : wire[k] = [frame |-> i, at |-> 0 + k]
        BY <1>1, <3>1, <3>2, <3>3
      <3> QED
        BY <1>4, <1>6, <3>4
    <2>3. header' \in NoFrame .. Len(sent)
      BY <2>1 DEF IInv, FramingTypeOK
    <2> QED
      BY <1>1, <1>2, <2>1, <2>2, <2>3, LostBehindUnsound
  <1> QED
    BY <1>5, <1>6

\* The one or two bytes that may follow.
LEMMA RestOfHeader ==
    ASSUME IInv, step \in {"size", "hi"}, NEW n \in 1 .. 2, Take(n),
           HeaderSize[sent[header].format] = 2 + n,
           step' = IF ~Stand(header, 2 + 1, 2 + n) THEN "lost"
                   ELSE IF Undersized(header) THEN "failed" ELSE "body",
           UNCHANGED <<header, received>>
    PROVE  IInv'
  <1>1. Reading /\ Midway /\ Offset = 2 /\ header \in DOMAIN sent /\ Len(received) < header
    BY ReceivedFacts DEF Reading, Midway, Offset, IInv, Ahead
  <1>2. wire # <<>> /\ \A k \in 1 .. n : k \in DOMAIN wire
    <2>1. \A k \in 1 .. n : k \in DOMAIN wire
      BY TakeFacts DEF IInv
    <2>2. 1 \in 1 .. n
      OBVIOUS
    <2> QED
      BY <2>1, <2>2
  <1>3. PICK i \in 1 .. MaxFrames : i = header
    BY <1>1, ReceivedFacts, Bounds DEF IInv, FramingTypeOK
  <1>4. Stand(i, 2 + 1, 2 + n) <=> \A k \in 1 .. n : wire[k] = [frame |-> i, at |-> 2 + k]
    <2>1. FramingTypeOK /\ 2 \in Nat /\ n \in Nat
      BY DEF IInv
    <2> QED
      BY <2>1, StandFacts
  <1>5. UNCHANGED sent
    BY DEF Take
  <1>6. ASSUME SoundTo(Len(received)), Sound(Len(received) + 1)
        PROVE  i = Len(received) + 1 /\ Stand(i, 2 + 1, 2 + n)
    <2> PICK j \in Nat : j = Len(received) + 1
      BY ReceivedFacts
    <2>1. /\ AtFrame(j) /\ j \in DOMAIN sent
          /\ \A m \in 1 .. Size(sent[j]) - Offset :
                m \in DOMAIN wire /\ wire[m] = [frame |-> j, at |-> Offset + m]
      BY <1>1, <1>2, <1>6, NotLost
    <2>2. j = i
      BY <1>1, <1>3, <2>1 DEF AtFrame
    <2>3. Size(sent[j]) \in Nat /\ Size(sent[j]) >= 2 + n
      BY <1>3, <2>1, <2>2, FrameFacts DEF IInv
    <2>4. \A k \in 1 .. n : wire[k] = [frame |-> i, at |-> 2 + k]
      BY <1>1, <2>1, <2>2, <2>3
    <2> QED
      BY <1>4, <2>2, <2>4
  <1>9. header' \in NoFrame .. Len(sent)
    BY DEF IInv, FramingTypeOK
  <1>7. CASE Stand(header, 2 + 1, 2 + n) /\ ~Undersized(header)
    <2>1. Midway' /\ Offset' = 2 + n /\ KnownFormat'
      BY <1>3, <1>5, <1>7 DEF Midway, Offset, KnownFormat
    <2>2. ASSUME NEW k \in DOMAIN wire, wire[k].at = 1
          PROVE  header < wire[k].frame
      BY <1>1, <2>2 DEF IInv, Ahead
    <2> QED
      BY <1>1, <1>2, <1>3, <1>6, <2>1, <2>2, HeaderRead
  <1>8. CASE ~Stand(header, 2 + 1, 2 + n)
    BY <1>1, <1>2, <1>3, <1>6, <1>8, <1>9, LostBehindUnsound
  <1>10. CASE Stand(header, 2 + 1, 2 + n) /\ Undersized(header)
    <2>1. SoundTo(Len(received)) => ~Sound(Len(received) + 1)
      BY <1>3, <1>6, <1>10 DEF Undersized, Sound
    <2> QED
      BY <1>1, <1>2, <1>9, <1>10, <2>1, LostBehindUnsound
  <1> QED
    BY <1>7, <1>8, <1>10

\* The size of an X.224 frame.
LEMMA ReadSizeStep ==
    ASSUME IInv, ReadSize
    PROVE  IInv'
  <1>1. HeaderSize[sent[header].format] = 2 + 2
    BY HeaderSizes DEF ReadSize, IInv, KnownFormat
  <1>2. 2 + 1 = 3 /\ 2 + 2 = 4
    OBVIOUS
  <1> QED
    BY <1>1, <1>2, RestOfHeader DEF ReadSize

\* The second byte of the size of a fast path frame.
LEMMA ReadHiStep ==
    ASSUME IInv, ReadHi
    PROVE  IInv'
  <1>1. HeaderSize[sent[header].format] = 2 + 1
    BY HeaderSizes DEF ReadHi, IInv, KnownFormat
  <1>2. 2 + 1 = 3
    OBVIOUS
  <1> QED
    BY <1>1, <1>2, RestOfHeader DEF ReadHi

-----------------------------------------------------------------------------
(***************************************************************************)
(* A body that ReadBody takes behind sound frames is the one that was      *)
(* written, and the wire goes on with the next frame.                      *)
(***************************************************************************)
LEMMA SoundBody ==
    ASSUME IInv, step = "body", NEW n \in Nat, n = sent[header].length, n > 0, Take(n),
           NEW i \in Nat, i = Len(received) + 1, SoundTo(i)
    PROVE  /\ i \in DOMAIN sent /\ header = i
           /\ Taken(n) = BodyOf(i)
           /\ IF i + 1 > Len(sent) THEN wire' = <<>>
              ELSE Sound(i + 1) => wire' # <<>> /\ wire'[1] = [frame |-> i + 1, at |-> 1]
  <1>1. SoundTo(Len(received)) /\ Sound(i)
    BY ReceivedFacts DEF SoundTo
  <1>2. /\ n <= Len(wire) /\ Len(wire') = Len(wire) - n /\ Len(wire) \in Nat
        /\ DOMAIN wire' = 1 .. Len(wire') /\ DOMAIN wire = 1 .. Len(wire)
        /\ wire' \in Seq(Byte)
        /\ \A k \in 1 .. Len(wire') : k + n \in DOMAIN wire /\ wire'[k] = wire[k + n]
        /\ Taken(n) \in Seq(Byte) /\ Len(Taken(n)) = n
        /\ \A k \in 1 .. n : k \in DOMAIN wire /\ Taken(n)[k] = wire[k]
    BY TakeFacts, WireFacts DEF IInv
  <1>3. wire # <<>> /\ Reading /\ Midway
    BY <1>2 DEF Reading, Midway
  <1>4. /\ i \in DOMAIN sent /\ AtFrame(i)
        /\ \A m \in 1 .. Size(sent[i]) - Offset :
              m \in DOMAIN wire /\ wire[m] = [frame |-> i, at |-> Offset + m]
    BY <1>1, <1>3, NotLost
  <1>5. header = i
    BY <1>3, <1>4 DEF AtFrame
  <1>6. PICK a \in Nat : a = HeaderSize[sent[i].format] /\ Size(sent[i]) = a + n /\ Offset = a
    BY <1>4, <1>5, FrameFacts DEF IInv, Offset
  <1>7. \A m \in 1 .. n : wire[m] = [frame |-> i, at |-> a + m]
    <2>1. Size(sent[i]) - Offset = n
      BY <1>6
    <2> QED
      BY <1>4, <1>6, <2>1
  <1>8. Taken(n) = BodyOf(i)
    <2>1. i \in 1 .. MaxFrames
      BY <1>4, InBounds DEF IInv
    <2>2. /\ Bytes(i, a + 1, a + n) \in Seq(Byte) /\ Len(Bytes(i, a + 1, a + n)) = n
          /\ \A k \in 1 .. n : Bytes(i, a + 1, a + n)[k] = [frame |-> i, at |-> a + k]
      BY ZenonT(40), <2>1, BytesFacts
    <2>3. Taken(n) = Bytes(i, a + 1, a + n)
      <3>1. \A k \in 1 .. n : Taken(n)[k] = Bytes(i, a + 1, a + n)[k]
        BY <1>2, <1>7, <2>2
      <3> QED
        BY <1>2, <2>2, <3>1, SeqEqual
    <2> QED
      BY <1>6, <2>3 DEF BodyOf
  <1>9. n \in DOMAIN wire /\ wire[n].frame = i /\ wire[n].at = Written(i) /\ Written(i) = a + n
    <2>1. n \in DOMAIN wire /\ wire[n] = [frame |-> i, at |-> a + n]
      BY <1>2, <1>7
    <2> QED
      BY <1>1, <1>6, <2>1 DEF Sound, Written
  <1>10. CASE i + 1 > Len(sent)
    <2>1. ASSUME wire' # <<>> PROVE FALSE
      <3>1. n + 1 \in DOMAIN wire /\ n < n + 1
        BY <1>2, <2>1, EmptySeq
      <3>2. \/ wire[n].frame < wire[n + 1].frame
            \/ wire[n].frame = wire[n + 1].frame /\ wire[n].at < wire[n + 1].at
        BY <1>9, <3>1 DEF IInv, InOrder
      <3>3. wire[n + 1].frame \in DOMAIN sent /\ wire[n + 1].at \in 1 .. Written(wire[n + 1].frame)
        BY <3>1 DEF IInv, Whole
      <3>4. wire[n + 1].frame = i
        <4>1. PICK f \in Nat : f = wire[n + 1].frame /\ f <= Len(sent)
          BY <3>3, ReceivedFacts
        <4>2. i < f \/ i = f
          BY <1>9, <3>2, <4>1
        <4>3. Len(sent) \in Nat /\ i <= Len(sent) /\ i + 1 > Len(sent)
          BY <1>4, <1>10, ReceivedFacts
        <4> QED
          BY <4>1, <4>2, <4>3
      <3> QED
        BY <1>9, <3>2, <3>3, <3>4
    <2> QED
      BY <1>4, <1>5, <1>8, <1>10, <2>1
  <1>11. CASE ~(i + 1 > Len(sent))
    <2>1. ASSUME Sound(i + 1)
          PROVE  wire' # <<>> /\ wire'[1] = [frame |-> i + 1, at |-> 1]
      <3>1. i + 1 \in DOMAIN sent
        BY <1>4, <1>11, ReceivedFacts
      <3>2. n < Len(wire) /\ wire[n + 1] = [frame |-> i + 1, at |-> 1]
        BY <1>9, <2>1, <3>1 DEF IInv, Adjacent
      <3>3. 1 \in 1 .. Len(wire') /\ wire' # <<>> /\ 1 + n = n + 1
        BY <1>2, <3>2
      <3> QED
        BY <1>2, <3>2, <3>3
    <2> QED
      BY <1>4, <1>5, <1>8, <1>11, <2>1
  <1> QED
    BY <1>10, <1>11

\* Once a body is returned the reader is at the start of a frame.
LEMMA ReturnKeepsTheInvariant ==
    ASSUME IInv, Midway, NEW body \in Seq(Byte), Return(body), FramingTypeOK',
           InOrder', Whole', Adjacent', Spoiled', UNCHANGED <<fault, sent, open>>,
           \A k \in DOMAIN wire' : wire'[k].at = 1 => header < wire'[k].frame,
           SoundTo(Len(received) + 1) =>
              /\ body = BodyOf(Len(received) + 1)
              /\ IF Len(received) + 2 > Len(sent) THEN wire' = <<>>
                 ELSE Sound(Len(received) + 2) =>
                        wire' # <<>> /\ wire'[1] = [frame |-> Len(received) + 2, at |-> 1]
    PROVE  IInv'
  <1>1. /\ step' = "start" /\ ~Midway' /\ header' = NoFrame
        /\ received' \in Seq(Seq(Byte)) /\ Len(received') = Len(received) + 1
        /\ DOMAIN received' = 1 .. Len(received')
        /\ \A k \in 1 .. Len(received) : received'[k] = received[k]
        /\ received'[Len(received) + 1] = body
        /\ Len(received) \in Nat
    BY ReceivedFacts, AppendProperties DEF Return, Midway
  <1>2. Len(received) + 1 <= header /\ header <= Len(sent) /\ header \in Nat /\ Len(sent) \in Nat
    BY <1>1, ReceivedFacts DEF IInv, Ahead
  <1>3. Ahead' /\ KnownFormat'
    <2>1. ASSUME NEW k \in DOMAIN wire', wire'[k].at = 1
          PROVE  Len(received') < wire'[k].frame
      <3>1. header < wire'[k].frame /\ wire'[k].frame \in DOMAIN sent
        BY <2>1 DEF Whole
      <3> QED
        BY <1>1, <1>2, <3>1, ReceivedFacts
    <2> QED
      BY <1>1, <1>2, <2>1 DEF Ahead, KnownFormat
  <1>4. InPlace'
    <2> PICK i \in Nat : i = Len(received) + 2 /\ i = Len(received') + 1
      BY <1>1
    <2> SUFFICES ASSUME SoundTo(Len(received'))
                 PROVE  IF i > Len(sent) THEN NothingLeft' ELSE Sound(i) => AtFrame(i)'
      BY DEF InPlace, SoundTo, Sound
    <2>1. /\ IF i > Len(sent) THEN wire' = <<>>
             ELSE Sound(i) => wire' # <<>> /\ wire'[1] = [frame |-> i, at |-> 1]
      BY <1>1
    <2>2. Offset' = 0
      BY <1>1 DEF Offset
    <2> QED
      BY <1>1, <2>1, <2>2 DEF NothingLeft, AtFrame
  <1>5. RightSoFar'
    <2> SUFFICES ASSUME NEW k \in 1 .. Len(received'), SoundTo(k)
                 PROVE  received'[k] = BodyOf(k)
      BY <1>1 DEF RightSoFar, SoundTo, Sound, BodyOf
    <2>1. CASE k <= Len(received)
      <3>1. k \in DOMAIN received
        BY <1>1, <2>1, ReceivedFacts
      <3> QED
        BY <1>1, <3>1, ReceivedFacts DEF IInv, RightSoFar, SoundTo
    <2>2. CASE k = Len(received) + 1
      BY <1>1, <2>2
    <2> QED
      BY <1>1, <2>1, <2>2
  <1> QED
    BY <1>3, <1>4, <1>5 DEF IInv

\* In the middle of a frame the next first byte is of a later frame.
LEMMA TakeFurther ==
    ASSUME IInv, Midway, NEW n \in Nat, Take(n)
    PROVE  \A k \in DOMAIN wire' : wire'[k].at = 1 => header < wire'[k].frame
  BY TakeFacts DEF IInv, Ahead

\* A body that is returned is a sequence of bytes.
LEMMA ReturnTypes ==
    ASSUME IInv, NEW n \in Nat, Take(n), Return(Taken(n))
    PROVE  FramingTypeOK'
  <1>1. received' \in Seq(Seq(Byte))
    BY TakeFacts, ReceivedFacts, AppendProperties DEF Return, IInv
  <1>2. header' \in NoFrame .. Len(sent)
    BY ReceivedFacts DEF Return, NoFrame
  <1> QED
    BY <1>1, <1>2, TakeTypes DEF Return

\* A body is returned.
LEMMA ReadBodyStep ==
    ASSUME IInv, ReadBody
    PROVE  IInv'
  <1>1. step = "body" /\ Midway /\ header \in DOMAIN sent
    BY ReceivedFacts DEF ReadBody, Midway
  <1> PICK n \in Nat : n = sent[header].length /\ n > 0 /\ Take(n) /\ Return(Taken(n))
    BY <1>1, FrameFacts DEF ReadBody, IInv
  <1>2. ASSUME SoundTo(Len(received) + 1)
        PROVE  /\ Taken(n) = BodyOf(Len(received) + 1)
               /\ IF Len(received) + 2 > Len(sent) THEN wire' = <<>>
                  ELSE Sound(Len(received) + 2) =>
                         wire' # <<>> /\ wire'[1] = [frame |-> Len(received) + 2, at |-> 1]
    <2> PICK i \in Nat : i = Len(received) + 1 /\ i + 1 = Len(received) + 2
      BY ReceivedFacts
    <2> QED
      BY <1>1, <1>2, SoundBody
  <1> QED
    BY <1>1, <1>2, TakeFacts, TakeKeepsTheWire, TakeFurther, ReturnTypes, ReturnKeepsTheInvariant DEF IInv

\* Link::read(0) returns what there is.
LEMMA ReadEmptyBodyStep ==
    ASSUME IInv, ReadEmptyBody
    PROVE  IInv'
  <1>1. step = "body" /\ Midway /\ header \in DOMAIN sent /\ sent[header].length = 0
    BY ReceivedFacts DEF ReadEmptyBody, Midway
  <1>2. wire = <<>> \/ ~SoundTo(Len(received) + 1)
    <2> SUFFICES ASSUME wire # <<>>, SoundTo(Len(received) + 1) PROVE FALSE
      OBVIOUS
    <2> PICK i \in Nat : i = Len(received) + 1
      BY ReceivedFacts
    <2>1. SoundTo(Len(received)) /\ Sound(i)
      BY ReceivedFacts DEF SoundTo
    <2>2. header = i
      BY <1>1, <2>1, NotLost DEF AtFrame, Reading
    <2> QED
      BY <1>1, <2>1, <2>2 DEF Sound
  <1>3. ~SoundTo(Len(received) + 1)
    <2> SUFFICES ASSUME wire = <<>>, SoundTo(Len(received) + 1) PROVE FALSE
      BY <1>2
    <2> PICK i \in Nat : i = Len(received) + 1
      BY ReceivedFacts
    <2>1. SoundTo(Len(received)) /\ Sound(i)
      BY ReceivedFacts DEF SoundTo
    <2>2. ~(i > Len(sent))
      BY <1>1, <2>1 DEF IInv, InPlace, NothingLeft
    <2> QED
      BY <1>1, <2>1, <2>2 DEF IInv, InPlace, AtFrame
  <1>4. CASE \E n \in 1 .. arrived : n <= 1500 /\ Take(n) /\ Return(Taken(n))
    <2> PICK n \in Nat : Take(n) /\ Return(Taken(n))
      BY <1>4 DEF IInv, FramingTypeOK
    <2> QED
      BY <1>1, <1>3, TakeFacts, TakeKeepsTheWire, TakeFurther, ReturnTypes, ReturnKeepsTheInvariant DEF IInv
  <1>5. CASE /\ wire = <<>> /\ ~open
             /\ Return(<<>>)
             /\ UNCHANGED <<fault, sent, wire, arrived, open>>
    <2>1. <<>> \in Seq(Byte)
      BY EmptySeq
    <2>2. received' \in Seq(Seq(Byte))
      BY <1>5, <2>1, ReceivedFacts, AppendProperties DEF Return
    <2>3. FramingTypeOK'
      BY <1>5, <2>2, ReceivedFacts DEF Return, NoFrame, IInv, FramingTypeOK
    <2>4. InOrder' /\ Whole' /\ Adjacent' /\ Spoiled'
      BY <1>5 DEF IInv, InOrder, Whole, Adjacent, Spoiled, Written, Sound
    <2>5. \A k \in DOMAIN wire' : FALSE
      BY <1>5, EmptySeq
    <2> QED
      BY <1>1, <1>3, <1>5, <2>1, <2>3, <2>4, <2>5, ReturnKeepsTheInvariant
  <1> QED
    BY <1>4, <1>5 DEF ReadEmptyBody

\* The end of the stream is an error.
LEMMA ReadEofStep ==
    ASSUME IInv, ReadEof
    PROVE  IInv'
  <1>1. /\ step' = "failed" /\ wire' = <<>> /\ arrived' = 0
        /\ UNCHANGED <<fault, sent, open, header, received>>
    BY DEF ReadEof
  <1>2. DOMAIN wire' = {} /\ wire' \in Seq(Byte) /\ Len(wire') = 0
    BY <1>1, EmptySeq
  <1>3. FramingTypeOK'
    BY <1>1, <1>2 DEF IInv, FramingTypeOK
  <1>4. InOrder' /\ Whole' /\ Adjacent' /\ Spoiled'
    BY <1>1, <1>2 DEF InOrder, Whole, Adjacent, Spoiled, IInv, Written
  <1>5. Ahead' /\ KnownFormat'
    BY <1>1, <1>2, ReceivedFacts DEF Ahead, KnownFormat, Midway
  <1>6. InPlace' /\ RightSoFar'
    BY <1>1 DEF InPlace, NothingLeft, AtFrame, Midway, IInv, RightSoFar, Sound, BodyOf
  <1> QED
    BY <1>3, <1>4, <1>5, <1>6 DEF IInv

-----------------------------------------------------------------------------
\* tpkt::Client::write, whole or short.
LEMMA WriteStep ==
    ASSUME IInv, Write
    PROVE  IInv'
  <1>0. PICK length \in Length :
           \E n \in IF fault = "short" THEN 0 .. HeaderSize["X224"] + length
                                       ELSE {HeaderSize["X224"] + length} :
              Put("X224", length, n)
    BY DEF Write
  <1>1. PICK n \in IF fault = "short" THEN 0 .. HeaderSize["X224"] + length
                                     ELSE {HeaderSize["X224"] + length} :
           Put("X224", length, n)
    BY <1>0
  <1>2. length \in 0 .. MaxBody /\ (fault \notin {"empty", "small"} => length > 0)
    BY Bounds DEF Length
  <1>3. "X224" \in Format /\ HeaderSize["X224"] = 4
    BY HeaderSizes
  <1>4. n \in Nat /\ n <= HeaderSize["X224"] + length
    BY <1>2, <1>3
  <1>5. fault # "short" => n = HeaderSize["X224"] + length
    OBVIOUS
  <1> QED
    BY <1>1, <1>2, <1>3, <1>4, <1>5, PutKeepsTheInvariant

\* A frame of the server.
LEMMA SrvWriteStep ==
    ASSUME IInv, SrvWrite
    PROVE  IInv'
  <1>1. PICK format \in Format, length \in SrvLength : Put(format, length, HeaderSize[format] + length)
    BY DEF SrvWrite
  <1>2. length \in 0 .. MaxBody /\ (fault \notin {"empty", "small"} => length > 0)
    BY Bounds DEF SrvLength, Length
  <1>3. HeaderSize[format] + length \in Nat
    BY <1>2, HeaderSizes
  <1> QED
    BY <1>1, <1>2, <1>3, PutKeepsTheInvariant

\* The stream delivers, or ends.
LEMMA StreamStep ==
    ASSUME IInv, Close \/ Arrive \/ UNCHANGED vars
    PROVE  IInv'
  <1>1. /\ UNCHANGED <<fault, sent, wire, step, header, received>>
        /\ arrived' \in 0 .. Len(wire) /\ open' \in BOOLEAN
    <2>1. CASE Close
      BY <2>1 DEF Close, IInv, FramingTypeOK
    <2>2. CASE Arrive
      <3>1. arrived \in Nat /\ Len(wire) \in Nat /\ open \in BOOLEAN
        BY DEF IInv, FramingTypeOK
      <3>2. arrived' \in 0 .. Len(wire)
        BY <2>2, <3>1 DEF Arrive
      <3> QED
        BY <2>2, <3>1, <3>2 DEF Arrive
    <2>3. CASE UNCHANGED vars
      BY <2>3 DEF vars, IInv, FramingTypeOK
    <2> QED
      BY <2>1, <2>2, <2>3
  <1>2. FramingTypeOK'
    BY <1>1 DEF IInv, FramingTypeOK
  <1>3. InOrder' /\ Whole' /\ Adjacent' /\ Spoiled'
    BY <1>1 DEF IInv, InOrder, Whole, Adjacent, Spoiled, Written, Sound
  <1>4. Ahead' /\ KnownFormat'
    BY <1>1 DEF IInv, Ahead, KnownFormat, Midway
  <1>5. Offset' = Offset /\ (Midway' <=> Midway) /\ (NothingLeft' <=> NothingLeft)
    BY <1>1 DEF Offset, Midway, NothingLeft
  <1>6. \A i : (Sound(i)' <=> Sound(i)) /\ (AtFrame(i)' <=> AtFrame(i))
    BY <1>1, <1>5 DEF Sound, AtFrame
  <1>7. InPlace'
    BY <1>1, <1>5, <1>6 DEF IInv, InPlace, SoundTo
  <1>8. RightSoFar'
    BY <1>1 DEF IInv, RightSoFar, Sound, BodyOf
  <1> QED
    BY <1>2, <1>3, <1>4, <1>7, <1>8 DEF IInv

\* Nothing is written at first.
LEMMA InitIInv == Init => IInv
  <1> SUFFICES ASSUME Init PROVE IInv
    OBVIOUS
  <1>1. /\ sent = <<>> /\ wire = <<>> /\ received = <<>> /\ arrived = 0
        /\ fault \in Faults /\ open = TRUE /\ step = "start" /\ header = NoFrame
    BY DEF Init
  <1>2. /\ Len(sent) = 0 /\ Len(wire) = 0 /\ Len(received) = 0
        /\ DOMAIN sent = {} /\ DOMAIN wire = {} /\ DOMAIN received = {}
    BY <1>1, EmptySeq
  <1>3. FramingTypeOK
    BY <1>1, <1>2, EmptySeq, Bounds DEF FramingTypeOK, NoFrame
  <1>4. InOrder /\ Whole /\ Adjacent /\ Spoiled /\ Ahead /\ KnownFormat
    BY <1>1, <1>2 DEF InOrder, Whole, Adjacent, Spoiled, Ahead, KnownFormat, Midway
  <1>5. InPlace /\ RightSoFar
    BY <1>1, <1>2 DEF InPlace, NothingLeft, RightSoFar
  <1> QED
    BY <1>3, <1>4, <1>5 DEF IInv

\* Every step keeps the invariant.
LEMMA NextIInv == IInv /\ [Next]_vars => IInv'
  <1> SUFFICES ASSUME IInv, [Next]_vars PROVE IInv'
    OBVIOUS
  <1>1. CASE Write
    BY <1>1, WriteStep
  <1>2. CASE SrvWrite
    BY <1>2, SrvWriteStep
  <1>3. CASE Close \/ Arrive \/ UNCHANGED vars
    BY <1>3, StreamStep
  <1>4. CASE ReadStart
    BY <1>4, ReadStartStep
  <1>5. CASE ReadSize
    BY <1>5, ReadSizeStep
  <1>6. CASE ReadHi
    BY <1>6, ReadHiStep
  <1>7. CASE ReadBody
    BY <1>7, ReadBodyStep
  <1>8. CASE ReadEmptyBody
    BY <1>8, ReadEmptyBodyStep
  <1>9. CASE ReadEof
    BY <1>9, ReadEofStep
  <1> QED
    BY <1>1, <1>2, <1>3, <1>4, <1>5, <1>6, <1>7, <1>8, <1>9 DEF Next, Read

\* The invariant of TPKT over a stream holds, with any of the faults.
THEOREM Invariance == Spec => []IInv
  BY InitIInv, NextIInv, PTL DEF Spec

(***************************************************************************)
(* The variables of tpkt::Client::read and of the two streams keep their   *)
(* types: among others, the reader never takes a byte that has not         *)
(* arrived, and never looks for a header of a frame that was not sent.     *)
(***************************************************************************)
THEOREM TypeCorrect == Spec => []FramingTypeOK
  BY Invariance, PTL DEF IInv

(***************************************************************************)
(* What tpkt::Client::read returned before the first frame without a body  *)
(* or cut by Link::write is what was written, and it loses its place only  *)
(* behind such a frame.                                                    *)
(***************************************************************************)
THEOREM DamageNeverReachesBack == Spec => []RightSoFar
  BY Invariance, PTL DEF IInv

-----------------------------------------------------------------------------
(***************************************************************************)
(* Framing implements FrameQueue: Put sends a frame, ReadBody receives     *)
(* one, and no other step moves the queue.                                 *)
(***************************************************************************)
Queue ==
    [k \in 1 .. IF fault # "none" THEN 0 ELSE Len(sent) - Len(received)
        |-> BodyOf(Len(received) + k)]
Out == IF fault # "none" THEN <<>> ELSE received

NoFault == fault = "none"

FrameByFrame ==
    /\ Queue \in Seq(Seq(Byte)) /\ Len(Queue) = Len(sent) - Len(received)
    /\ \A k \in 1 .. Len(Queue) :
          Queue[k] = BodyOf(Len(received) + k) /\ Len(received) + k \in DOMAIN sent
    /\ Out = received

\* Without faults each frame that was read is the frame that was sent.
LEMMA QueueFacts == IInv /\ NoFault => FrameByFrame
  <1> SUFFICES ASSUME IInv, fault = "none" PROVE FrameByFrame
    BY DEF NoFault
  <1>0. Len(sent) - Len(received) \in Nat
    BY ReceivedFacts
  <1> PICK n \in Nat : n = Len(sent) - Len(received)
    BY <1>0
  <1>1. ASSUME NEW i \in DOMAIN sent
        PROVE  BodyOf(i) \in Seq(Byte)
    <2>1. PICK h \in Nat, l \in Nat : h = HeaderSize[sent[i].format] /\ h + l = Size(sent[i])
      BY FrameFacts DEF IInv
    <2>2. i \in 1 .. MaxFrames
      BY Bounds, ReceivedFacts DEF IInv, FramingTypeOK
    <2> QED
      BY <2>1, <2>2, BytesFacts DEF BodyOf
  <1>2. \A k \in 1 .. n : Len(received) + k \in DOMAIN sent
    BY ReceivedFacts
  <1>3. Queue = [k \in 1 .. n |-> BodyOf(Len(received) + k)]
    BY DEF Queue
  <1>4. Queue \in [1 .. n -> Seq(Byte)]
    BY <1>1, <1>2, <1>3
  <1>5. Queue \in Seq(Seq(Byte)) /\ Len(Queue) = n
    BY <1>4, FunctionIsSeq
  <1>6. \A k \in 1 .. n : Queue[k] = BodyOf(Len(received) + k)
    BY <1>3
  <1>7. Out = received
    BY DEF Out
  <1> QED
    BY <1>2, <1>5, <1>6, <1>7 DEF FrameByFrame

\* The same after a step.
LEMMA QueueFactsNext == IInv' /\ NoFault' => FrameByFrame'
  BY QueueFacts, PTL

NoFrames == Queue = <<>> /\ Out = <<>>

\* With faults the abstract queue is empty.
LEMMA FaultyQueue == ~NoFault => NoFrames
  <1> SUFFICES ASSUME fault # "none" PROVE NoFrames
    BY DEF NoFault
  <1>1. Queue \in [1 .. 0 -> Seq(Byte)]
    BY DEF Queue
  <1>2. Queue \in Seq(Seq(Byte)) /\ Len(Queue) = 0
    BY <1>1, FunctionIsSeq
  <1> QED
    BY <1>2, EmptySeq DEF Out, NoFrames

\* The same after a step.
LEMMA FaultyQueueNext == ~NoFault' => NoFrames'
  BY FaultyQueue, PTL

\* A write is a Send of the queue.
LEMMA SendOneFrame ==
    ASSUME IInv, IInv', fault = "none", UNCHANGED <<fault, received>>,
           NEW format \in Format, NEW length \in 1 .. MaxBody, NEW n \in Nat,
           n <= HeaderSize[format] + length, Put(format, length, n)
    PROVE  \E body \in Bodies : Queue' = Append(Queue, body) /\ UNCHANGED Out
  <1>1. /\ Len(sent') = Len(sent) + 1 /\ DOMAIN sent' = 1 .. Len(sent')
        /\ \A i \in DOMAIN sent : i \in DOMAIN sent' /\ sent'[i] = sent[i]
        /\ sent'[Len(sent')].format = format /\ sent'[Len(sent')].length = length
    <2>1. length \in 0 .. MaxBody
      BY Bounds
    <2> QED
      BY <2>1, PutTypes
  <1>2. PICK last \in 1 .. MaxFrames : last = Len(sent')
    <2>1. Len(sent) < MaxFrames /\ Len(sent) \in Nat
      BY ReceivedFacts DEF Put
    <2>2. Len(sent') \in 1 .. MaxFrames
      BY <1>1, <2>1, Bounds
    <2> QED
      BY <2>2
  <1> DEFINE body == Bytes(last, HeaderSize[format] + 1, HeaderSize[format] + length)
  <1>3. BodyOf(last)' = body
    BY <1>1, <1>2 DEF BodyOf, Size
  <1>4. body \in Bodies
    <2>1. HeaderSize[format] \in {2, 3, 4}
      BY HeaderSizes
    <2> QED
      BY <1>2, <2>1 DEF Bodies
  <1>5. body \in Seq(Byte)
    <2>1. HeaderSize[format] \in Nat /\ length \in Nat
      BY HeaderSizes, Bounds
    <2> QED
      BY <2>1, BytesFacts
  <1> HIDE DEF body
  <1>6. \A i \in DOMAIN sent : BodyOf(i)' = BodyOf(i)
    BY <1>1 DEF BodyOf
  <1>7. /\ Queue \in Seq(Seq(Byte)) /\ Len(Queue) = Len(sent) - Len(received)
        /\ \A k \in 1 .. Len(Queue) :
              Queue[k] = BodyOf(Len(received) + k) /\ Len(received) + k \in DOMAIN sent
    BY QueueFacts DEF FrameByFrame, NoFault
  <1>8. /\ Queue' \in Seq(Seq(Byte)) /\ Len(Queue') = Len(sent') - Len(received)
        /\ \A k \in 1 .. Len(Queue') : Queue'[k] = BodyOf(Len(received) + k)'
    BY QueueFactsNext DEF FrameByFrame, NoFault
  <1>9. /\ Append(Queue, body) \in Seq(Seq(Byte)) /\ Len(Append(Queue, body)) = Len(Queue) + 1
        /\ \A k \in 1 .. Len(Queue) : Append(Queue, body)[k] = Queue[k]
        /\ Append(Queue, body)[Len(Queue) + 1] = body
    BY <1>5, <1>7, AppendProperties
  <1>10. Len(Queue') = Len(Queue) + 1 /\ Len(Queue) \in Nat /\ Len(received) + (Len(Queue) + 1) = last
    BY <1>1, <1>2, <1>7, <1>8, ReceivedFacts
  <1>11. \A k \in 1 .. Len(Queue') : Queue'[k] = Append(Queue, body)[k]
    <2> SUFFICES ASSUME NEW k \in 1 .. Len(Queue')
                 PROVE  Queue'[k] = Append(Queue, body)[k]
      OBVIOUS
    <2>1. CASE k \in 1 .. Len(Queue)
      BY <1>6, <1>7, <1>8, <1>9, <2>1
    <2>2. CASE k = Len(Queue) + 1
      BY <1>3, <1>8, <1>9, <1>10, <2>2
    <2> QED
      BY <1>10, <2>1, <2>2
  <1>12. Queue' = Append(Queue, body)
    BY <1>8, <1>9, <1>10, <1>11, SeqEqual
  <1> QED
    BY <1>4, <1>12 DEF Out

\* A body that is returned is a Receive.
LEMMA ReceiveOneFrame ==
    ASSUME IInv, IInv', fault = "none", ReadBody
    PROVE  /\ Queue # <<>>
           /\ Out' = Append(Out, Head(Queue))
           /\ Queue' = Tail(Queue)
  <1>1. step = "body" /\ Midway /\ header \in DOMAIN sent
    BY ReceivedFacts DEF ReadBody, Midway
  <1> PICK n \in Nat : n = sent[header].length /\ n > 0 /\ Take(n) /\ Return(Taken(n))
    BY <1>1, FrameFacts DEF ReadBody, IInv
  <1> PICK i \in Nat : i = Len(received) + 1
    BY ReceivedFacts
  <1>2. i \in DOMAIN sent
    BY <1>1, ReceivedFacts DEF IInv, Ahead
  <1>3. SoundTo(i)
    <2>1. \A j \in 1 .. i : j \in DOMAIN sent
      BY <1>2, ReceivedFacts
    <2>2. \A j \in DOMAIN sent : Sound(j)
      BY DEF IInv, Spoiled, Sound, Written
    <2> QED
      BY <2>1, <2>2 DEF SoundTo
  <1>4. Taken(n) = BodyOf(i)
    BY <1>1, <1>3, SoundBody
  <1>5. received' = Append(received, BodyOf(i)) /\ UNCHANGED <<fault, sent>>
    BY <1>4 DEF Return, Take
  <1>6. /\ Queue \in Seq(Seq(Byte)) /\ Len(Queue) = Len(sent) - Len(received)
        /\ \A k \in 1 .. Len(Queue) : Queue[k] = BodyOf(Len(received) + k)
        /\ Out = received
    BY QueueFacts DEF FrameByFrame, NoFault
  <1>7. /\ Queue' \in Seq(Seq(Byte)) /\ Len(Queue') = Len(sent) - Len(received')
        /\ \A k \in 1 .. Len(Queue') : Queue'[k] = BodyOf(Len(received') + k)
        /\ Out' = received'
    <2>1. fault' = "none"
      BY <1>5
    <2>2. /\ Queue' \in Seq(Seq(Byte)) /\ Len(Queue') = Len(sent') - Len(received')
          /\ \A k \in 1 .. Len(Queue') : Queue'[k] = BodyOf(Len(received) + k)'
          /\ Out' = received'
      BY <2>1, QueueFactsNext DEF FrameByFrame, NoFault
    <2> QED
      BY <1>5, <2>2 DEF BodyOf
  <1>8. Len(received') = Len(received) + 1
    BY <1>5, ReceivedFacts
  <1>9. Queue # <<>> /\ Len(Queue) \in Nat \ {0}
    <2>0. /\ Len(received) \in Nat /\ Len(sent) \in Nat
          /\ i = Len(received) + 1 /\ i <= Len(sent)
      BY <1>2, ReceivedFacts
    <2>1. Len(sent) - Len(received) \in Nat \ {0}
      BY <2>0
    <2> QED
      BY <1>6, <2>1, EmptySeq
  <1>10. Head(Queue) = BodyOf(i)
    <2>1. Head(Queue) = Queue[1]
      BY <1>6, <1>9
    <2> QED
      BY <1>6, <1>9, <2>1
  <1>11. Queue' = Tail(Queue)
    <2>1. /\ Tail(Queue) \in Seq(Seq(Byte)) /\ Len(Tail(Queue)) = Len(Queue) - 1
          /\ \A k \in 1 .. Len(Tail(Queue)) : Tail(Queue)[k] = Queue[k + 1]
      BY <1>6, <1>9, HeadTailProperties
    <2>2. Len(Queue') = Len(Tail(Queue))
      BY <1>6, <1>7, <1>8, <2>1, ReceivedFacts
    <2>3. ASSUME NEW k \in 1 .. Len(Queue') PROVE Queue'[k] = Tail(Queue)[k]
      <3>1. k + 1 \in 1 .. Len(Queue) /\ Len(received') + k = Len(received) + (k + 1)
        BY <1>8, <1>9, <2>1, <2>2, ReceivedFacts
      <3> QED
        BY <1>6, <1>7, <2>1, <2>2, <3>1
    <2> QED
      BY <1>7, <2>1, <2>2, <2>3, SeqEqual
  <1> QED
    BY <1>5, <1>6, <1>7, <1>9, <1>10, <1>11

\* Without faults the bodies are not empty: Link::read(0) is never reached.
LEMMA NoEmptyBody ==
    ASSUME IInv, fault = "none"
    PROVE  ~ReadEmptyBody
  BY ReceivedFacts DEF ReadEmptyBody, Midway, IInv, Spoiled

\* Every step is one of these, or a stutter.
LEMMA QueueStep ==
    ASSUME IInv, IInv', [Next]_vars
    PROVE  [Q!Next]_<<Queue, Out>>
  <1>1. CASE fault # "none"
    <2>1. UNCHANGED fault
      <3>1. Write \/ SrvWrite => UNCHANGED fault
        BY Zenon DEF Write, SrvWrite, Put
      <3>2. Close \/ Arrive \/ ReadEof \/ UNCHANGED vars => UNCHANGED fault
        BY DEF Close, Arrive, ReadEof, vars
      <3>3. \A n : Take(n) => fault' = fault
        BY DEF Take
      <3>4. ReadStart \/ ReadSize \/ ReadHi => UNCHANGED fault
        BY Zenon, <3>3 DEF ReadStart, ReadSize, ReadHi
      <3>5. ReadBody \/ ReadEmptyBody => UNCHANGED fault
        BY <3>3 DEF ReadBody, ReadEmptyBody
      <3> QED
        BY <3>1, <3>2, <3>4, <3>5 DEF Next, Read
    <2> QED
      BY <1>1, <2>1, FaultyQueue, FaultyQueueNext DEF NoFault, NoFrames
  <1>2. CASE fault = "none"
    <2>1. CASE Write
      <3>1. PICK length \in Length : Put("X224", length, HeaderSize["X224"] + length)
        BY <1>2, <2>1 DEF Write
      <3>2. length \in 1 .. MaxBody /\ "X224" \in Format /\ HeaderSize["X224"] + length \in Nat
        BY <1>2, Bounds, HeaderSizes DEF Length
      <3>3. UNCHANGED <<fault, received>>
        BY <3>1 DEF Put
      <3>4. \E body \in Bodies : Queue' = Append(Queue, body) /\ UNCHANGED Out
        BY <1>2, <3>1, <3>2, <3>3, SendOneFrame
      <3> QED
        BY <3>4 DEF Q!Next, Q!Send, Queue, Out
    <2>2. CASE SrvWrite
      <3>1. PICK format \in Format, length \in SrvLength :
               Put(format, length, HeaderSize[format] + length)
        BY <2>2 DEF SrvWrite
      <3>2. length \in 1 .. MaxBody /\ HeaderSize[format] + length \in Nat
        BY <1>2, Bounds, HeaderSizes DEF SrvLength, Length
      <3>3. UNCHANGED <<fault, received>>
        BY <3>1 DEF Put
      <3>4. \E body \in Bodies : Queue' = Append(Queue, body) /\ UNCHANGED Out
        BY <1>2, <3>1, <3>2, <3>3, SendOneFrame
      <3> QED
        BY <3>4 DEF Q!Next, Q!Send, Queue, Out
    <2>3. CASE ReadBody
      BY <1>2, <2>3, ReceiveOneFrame DEF Q!Next, Q!Receive, Queue, Out
    <2>4. CASE Close \/ Arrive \/ ReadStart \/ ReadSize \/ ReadHi \/ ReadEof \/ UNCHANGED vars
      <3>1. UNCHANGED <<fault, sent, received>>
        BY <2>4 DEF Close, Arrive, ReadStart, ReadSize, ReadHi, ReadEof, Take, vars
      <3> QED
        BY <3>1 DEF Queue, Out, BodyOf
    <2> QED
      BY <1>2, <2>1, <2>2, <2>3, <2>4, NoEmptyBody DEF Next, Read
  <1> QED
    BY <1>1, <1>2

\* Both start empty.
LEMMA QueueInit == Init => Q!Init
  <1> SUFFICES ASSUME Init PROVE Q!Init
    OBVIOUS
  <1>1. Queue = <<>> /\ Out = <<>>
    <2>1. CASE fault # "none"
      BY <2>1, FaultyQueue DEF NoFault, NoFrames
    <2>2. CASE fault = "none"
      <3>1. Len(Queue) = 0 /\ Queue \in Seq(Seq(Byte)) /\ Out = <<>>
        BY <2>2, InitIInv, QueueFacts, EmptySeq DEF Init, FrameByFrame, NoFault
      <3> QED
        BY <3>1, EmptySeq
    <2> QED
      BY <2>1, <2>2
  <1> QED
    BY <1>1 DEF Q!Init, Queue, Out

(***************************************************************************)
(* Link::read and tpkt::Client::read implement the queue of frames, in the *)
(* three formats of a header and however the bytes arrive: what is read is *)
(* the body of the oldest frame not yet read, whole and unchanged.         *)
(***************************************************************************)
THEOREM QueueImplemented == Spec => FirstInFirstOut
  <1>1. IInv /\ IInv' /\ [Next]_vars => [Q!Next]_<<Queue, Out>>
    BY QueueStep
  <1> QED
    BY <1>1, QueueInit, Invariance, PTL DEF Spec, FirstInFirstOut, Q!Spec, Queue, Out
=============================================================================
