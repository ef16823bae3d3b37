------------------------------ MODULE Message ------------------------------
(***************************************************************************)
(* The messages of model/data.rs: a tree that is written to bytes, read    *)
(* from bytes into a tree of the same shape, and measured.  A number is    *)
(* its bytes, the most significant first.  A read ends with "ok", with     *)
(* "error" or, when the arithmetic of a size underflows, with "panic".     *)
(***************************************************************************)
EXTENDS Integers, Sequences, SequencesExt

Num(bytes) == FoldLeft(LAMBDA n, b : 256 * n + b, 0, bytes)
ToBytes(size, n) == [i \in 1..size |-> (n \div 256^(size - i)) % 256]
Bit(bytes, i) == (bytes[Len(bytes) - i \div 8] \div 2^(i % 8)) % 2

\* The kinds of message.
U8(n) == [kind |-> "int", big |-> TRUE, bytes |-> ToBytes(1, n)]
LE(size, n) == [kind |-> "int", big |-> FALSE, bytes |-> ToBytes(size, n)]
BE(size, n) == [kind |-> "int", big |-> TRUE, bytes |-> ToBytes(size, n)]
U16(n) == LE(2, n)
U32(n) == LE(4, n)
Slice(bytes) == [kind |-> "slice", bytes |-> bytes]
Trame(parts) == [kind |-> "trame", parts |-> parts]
Component(fields) == [kind |-> "component", fields |-> fields]
Check(m) == [kind |-> "check", inner |-> m]
Some(m) == [kind |-> "option", inner |-> <<m>>]
None == [kind |-> "option", inner |-> <<>>]
Array(items, factory) == [kind |-> "array", items |-> items, factory |-> factory]
DynOption(m, filter) == [kind |-> "dyn", inner |-> m, filter |-> filter]

\* The filters of a DynOption: the field `name' is skipped unless all the bits
\* `on' are set and all the bits `off' are clear; or its size is what the number
\* says, times and plus something.  The number may be a field of a component.
SkipUnless(name, on, off) == [type |-> "skip", name |-> name, on |-> on, off |-> off]
SizeBy(name, scale, plus) == [type |-> "size", name |-> name, scale |-> scale, plus |-> plus, at |-> ""]
SizeIn(name, at) == [type |-> "size", name |-> name, scale |-> 1, plus |-> 0, at |-> at]

\* visit, for numbers and slices, and the field of a component.
RECURSIVE Visit(_)
Visit(m) == CASE m.kind \in {"check", "dyn"} -> Visit(m.inner)
              [] m.kind = "option" /\ m.inner # <<>> -> Visit(m.inner[1])
              [] m.kind \in {"int", "slice"} -> m.bytes
Field(m, name) == SelectSeq(m.fields, LAMBDA f : f[1] = name)[1][2]

\* options: what a message says about the fields behind it.
Skips(m) ==
    IF m.kind # "dyn" \/ m.filter.type # "skip" THEN {}
    ELSE LET v == Visit(m.inner)
         IN  IF \/ \E i \in m.filter.on : Bit(v, i) = 0
                \/ \E i \in m.filter.off : Bit(v, i) = 1
             THEN {m.filter.name} ELSE {}
Sizes(m) == m.kind = "dyn" /\ m.filter.type = "size"
SizeOf(m) == LET number == IF m.filter.at = "" THEN m.inner ELSE Field(m.inner, m.filter.at)
             IN  m.filter.scale * Num(Visit(number)) + m.filter.plus

\* The fields of a component that no field before them skips.
Kept(fields) ==
    FoldLeft(LAMBDA acc, f :
               IF f[1] \in acc.skip THEN acc
               ELSE [kept |-> Append(acc.kept, f), skip |-> acc.skip \cup Skips(f[2])],
             [kept |-> <<>>, skip |-> {}], fields).kept
Messages(fields) == [i \in DOMAIN fields |-> fields[i][2]]
-----------------------------------------------------------------------------
Flat(seqs) == FoldLeft(LAMBDA acc, s : acc \o s, <<>>, seqs)

RECURSIVE Write(_)
WriteAll(parts) == Flat([i \in DOMAIN parts |-> Write(parts[i])])
Write(m) ==
    CASE m.kind = "int"       -> IF m.big THEN m.bytes ELSE Reverse(m.bytes)
      [] m.kind = "slice"     -> m.bytes
      [] m.kind = "trame"     -> WriteAll(m.parts)
      [] m.kind = "component" -> WriteAll(Messages(Kept(m.fields)))
      [] m.kind = "array"     -> WriteAll(m.items)
      [] m.kind = "option"    -> WriteAll(m.inner)
      [] OTHER                -> Write(m.inner)

Sum(numbers) == FoldLeft(LAMBDA a, b : a + b, 0, numbers)
RECURSIVE Length(_)
LengthAll(parts) == Sum([i \in DOMAIN parts |-> Length(parts[i])])
LengthOfComponent(fields) == LengthAll(Messages(Kept(fields)))
Length(m) ==
    CASE m.kind \in {"int", "slice"} -> Len(m.bytes)
      [] m.kind = "trame"     -> LengthAll(m.parts)
      [] m.kind = "component" -> LengthOfComponent(m.fields)
      [] m.kind = "array"     -> LengthAll(m.items)
      [] m.kind = "option"    -> LengthAll(m.inner)
      [] OTHER                -> Length(m.inner)

\* The values a message carries, in the order they are written.
RECURSIVE Leaves(_)
LeavesAll(parts) == Flat([i \in DOMAIN parts |-> Leaves(parts[i])])
Leaves(m) ==
    CASE m.kind \in {"int", "slice"} -> <<m.bytes>>
      [] m.kind = "trame"     -> LeavesAll(m.parts)
      [] m.kind = "component" -> LeavesAll(Messages(Kept(m.fields)))
      [] m.kind = "array"     -> LeavesAll(m.items)
      [] m.kind = "option"    -> LeavesAll(m.inner)
      [] OTHER                -> Leaves(m.inner)
-----------------------------------------------------------------------------
\* What a read leaves: the outcome, the message and the bytes that follow.
Done(m, rest) == [out |-> "ok", m |-> m, rest |-> rest]
Failed(m, rest) == [out |-> "error", m |-> m, rest |-> rest]
First(n, in) == SubSeq(in, 1, n)
Behind(n, in) == SubSeq(in, n + 1, Len(in))

\* read_exact on a Cursor: nothing is taken when there is not enough.
ReadInt(m, in) ==
    LET n == Len(m.bytes)
    IN  IF Len(in) < n THEN Failed(m, in)
        ELSE Done([m EXCEPT !.bytes = IF m.big THEN First(n, in) ELSE Reverse(First(n, in))],
                  Behind(n, in))
\* A fault: what is there is taken for the whole slice.
ReadSliceShort(m, in) ==
    LET n == IF m.bytes = <<>> \/ Len(in) < Len(m.bytes) THEN Len(in) ELSE Len(m.bytes)
    IN  Done([m EXCEPT !.bytes = First(n, in)], Behind(n, in))
\* A slice that is empty reads to the end.
ReadSlice(m, in) ==
    LET n == IF m.bytes = <<>> THEN Len(in) ELSE Len(m.bytes)
    IN  IF Len(in) < n THEN Failed(m, in)
        ELSE Done([m EXCEPT !.bytes = First(n, in)], Behind(n, in))

RECURSIVE Read(_, _), ReadItems(_, _, _)

\* One part after the other, up to the first that fails.
ReadTrame(m, in) ==
    LET r == FoldLeft(LAMBDA acc, p :
                 IF acc.out # "ok" THEN acc
                 ELSE LET one == Read(p, acc.rest) IN [one EXCEPT !.m = Append(acc.m, one.m)],
               Done(<<>>, in), m.parts)
    IN  [r EXCEPT !.m = Trame(r.m)]

\* A field that an earlier one gave a size is read from that many bytes, and what
\* it leaves of them is dropped.
ReadSized(f, size, in) ==
    IF Len(in) < size THEN Failed(f, in)
    ELSE [Read(f, First(size, in)) EXCEPT !.rest = Behind(size, in)]
NoSizes == [name \in {} |-> 0]
ReadField(acc, f) ==
    LET one == IF f[1] \in DOMAIN acc.sizes THEN ReadSized(f[2], acc.sizes[f[1]], acc.rest)
                                            ELSE Read(f[2], acc.rest)
        sized == one.out = "ok" /\ Sizes(one.m)
    IN  [out    |-> IF sized /\ SizeOf(one.m) < 0 THEN "panic" ELSE one.out,
         fields |-> Append(acc.fields, <<f[1], one.m>>),
         rest   |-> one.rest,
         skip   |-> IF one.out = "ok" THEN acc.skip \cup Skips(one.m) ELSE acc.skip,
         sizes  |-> IF sized
                    THEN [n \in DOMAIN acc.sizes \cup {one.m.filter.name} |->
                            IF n = one.m.filter.name THEN SizeOf(one.m) ELSE acc.sizes[n]]
                    ELSE acc.sizes]
ReadComponent(m, in) ==
    LET r == FoldLeft(LAMBDA acc, f :
                 IF acc.out # "ok" THEN acc
                 ELSE IF f[1] \in acc.skip THEN [acc EXCEPT !.fields = Append(@, f)]
                 ELSE ReadField(acc, f),
               [out |-> "ok", fields |-> <<>>, rest |-> in, skip |-> {}, sizes |-> NoSizes],
               m.fields)
    IN  [out |-> r.out, m |-> Component(r.fields), rest |-> r.rest]

\* An option that cannot be read is none, and that is no error.
ReadOption(m, in) ==
    IF m.inner = <<>> THEN Done(m, in)
    ELSE LET r == Read(m.inner[1], in)
         IN  CASE r.out = "ok"    -> Done(Some(r.m), r.rest)
               [] r.out = "error" -> Done(None, r.rest)
               [] OTHER           -> r

\* Elements of an array, until one cannot be read.
ReadItems(items, factory, in) ==
    LET r == ReadOption(Some(factory), in)
    IN  IF r.out = "panic" THEN r
        ELSE IF r.m = None THEN Done(Array(items, factory), r.rest)
        ELSE ReadItems(Append(items, r.m.inner[1]), factory, r.rest)

ReadCheck(m, in) ==
    LET r == Read(m.inner, in)
    IN  IF r.out = "ok" /\ r.m # m.inner THEN Failed(m, r.rest) ELSE [r EXCEPT !.m = Check(@)]

Read(m, in) ==
    CASE m.kind = "int"       -> ReadInt(m, in)
      [] m.kind = "slice"     -> ReadSlice(m, in)
      [] m.kind = "trame"     -> ReadTrame(m, in)
      [] m.kind = "component" -> ReadComponent(m, in)
      [] m.kind = "array"     -> ReadItems(m.items, m.factory, in)
      [] m.kind = "option"    -> ReadOption(m, in)
      [] m.kind = "check"     -> ReadCheck(m, in)
      [] m.kind = "dyn"       -> LET r == Read(m.inner, in)
                                 IN  [r EXCEPT !.m = DynOption(@, m.filter)]
=============================================================================
