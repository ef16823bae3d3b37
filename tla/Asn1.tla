-------------------------------- MODULE Asn1 --------------------------------
(***************************************************************************)
(* The ASN.1 values of nla/asn1.rs: trees that are written in DER and read *)
(* into a tree of the same shape.  The library that writes and reads the   *)
(* tags and lengths is not part of the repository: Tlv and Untlv say what  *)
(* this code relies on.                                                    *)
(***************************************************************************)
EXTENDS Message

Integer(n) == [asn |-> "integer", n |-> n]
Enumerate(n) == [asn |-> "enumerate", n |-> n]
Bool(b) == [asn |-> "bool", n |-> IF b THEN 255 ELSE 0]
OctetString(bytes) == [asn |-> "octets", bytes |-> bytes]
Sequence(fields) == [asn |-> "sequence", fields |-> fields]
SequenceOf(items, factory) == [asn |-> "sequence of", items |-> items, factory |-> factory]
ExplicitTag(tag, inner) == [asn |-> "explicit", tag |-> tag, inner |-> inner]
ImplicitTag(tag, inner) == [asn |-> "implicit", tag |-> tag, inner |-> inner]

\* Tags of this code: a context number below 31, an application number above.
Context(n) == <<160 + n>>
Application(n) == <<127, n>>
TagOf(x) ==
    CASE x.asn = "bool" -> <<1>>    [] x.asn = "integer" -> <<2>>
      [] x.asn = "octets" -> <<4>>  [] x.asn = "enumerate" -> <<10>>
      [] x.asn \in {"sequence", "sequence of"} -> <<48>>
      [] OTHER -> x.tag

\* A length takes a byte up to 127, and else says first how many bytes it takes.
DerLength(n) == IF n < 128 THEN <<n>> ELSE IF n < 256 THEN <<129, n>> ELSE <<130>> \o ToBytes(2, n)
Tlv(tag, content) == tag \o DerLength(Len(content)) \o content

\* A whole number in as few bytes as leave its highest bit clear.
DerInteger(n) ==
    ToBytes(IF n < 128 THEN 1 ELSE IF n < 32768 THEN 2 ELSE IF n < 8388608 THEN 3 ELSE 4, n)

RECURSIVE Content(_)
WriteAsn1(x) == Tlv(TagOf(x), Content(x))
Content(x) ==
    CASE x.asn \in {"integer", "enumerate"} -> DerInteger(x.n)
      [] x.asn = "bool"        -> <<x.n>>
      [] x.asn = "octets"      -> x.bytes
      [] x.asn = "sequence"    -> Flat([i \in DOMAIN x.fields |-> WriteAsn1(x.fields[i])])
      [] x.asn = "sequence of" -> Flat([i \in DOMAIN x.items |-> WriteAsn1(x.items[i])])
      [] x.asn = "explicit"    -> WriteAsn1(x.inner)
      [] x.asn = "implicit"    -> Content(x.inner)
-----------------------------------------------------------------------------
\* The content behind a tag and its length, or nothing.
Lost == [out |-> "error", content |-> <<>>, rest |-> <<>>]
Untlv(tag, in) ==
    LET at == Len(tag) + 1
        wide == IF Len(in) < at \/ in[at] < 128 THEN 0 ELSE in[at] - 128
        n == IF wide = 0 THEN in[at] ELSE Num(SubSeq(in, at + 1, at + wide))
    IN  IF ~IsPrefix(tag, in) \/ Len(in) < at + wide \/ wide > 2 \/ Len(in) < at + wide + n THEN Lost
        ELSE [out |-> "ok", content |-> SubSeq(in, at + wide + 1, at + wide + n),
              rest |-> Behind(at + wide + n, in)]

RECURSIVE ReadAsn1(_, _), ReadContent(_, _), ReadMore(_, _)
ReadAsn1(x, in) ==
    LET tlv == Untlv(TagOf(x), in)
        r == ReadContent(x, tlv.content)
    IN  IF tlv.out = "ok" THEN [r EXCEPT !.rest = tlv.rest] ELSE Failed(x, in)

\* Every value must take all of its content.
ReadFields(x, in) ==
    LET r == FoldLeft(LAMBDA acc, f :
                 IF acc.out # "ok" THEN acc
                 ELSE LET one == ReadAsn1(f, acc.rest) IN [one EXCEPT !.m = Append(acc.m, one.m)],
               Done(<<>>, in), x.fields)
    IN  IF r.out # "ok" \/ r.rest # <<>> THEN Failed(x, in) ELSE Done(Sequence(r.m), <<>>)
ReadMore(x, in) ==
    IF in = <<>> THEN Done(x, in)
    ELSE LET r == ReadAsn1(x.factory, in)
         IN  IF r.out # "ok" THEN Failed(x, in)
             ELSE ReadMore([x EXCEPT !.items = Append(@, r.m)], r.rest)
ReadContent(x, in) ==
    CASE x.asn \in {"integer", "enumerate", "bool"} ->
             IF in = <<>> \/ Len(in) > 4 THEN Failed(x, in) ELSE Done([x EXCEPT !.n = Num(in)], <<>>)
      [] x.asn = "octets"      -> Done(OctetString(in), <<>>)
      [] x.asn = "sequence"    -> ReadFields(x, in)
      [] x.asn = "sequence of" -> ReadMore(x, in)
      [] x.asn = "explicit"    -> LET r == ReadAsn1(x.inner, in)
                                  IN  IF r.out # "ok" \/ r.rest # <<>> THEN Failed(x, in)
                                      ELSE Done([x EXCEPT !.inner = r.m], <<>>)
      [] x.asn = "implicit"    -> LET r == ReadContent(x.inner, in)
                                  IN  [r EXCEPT !.m = [x EXCEPT !.inner = r.m]]
Parse(x, in) == LET r == ReadAsn1(x, in)
                IN  IF r.out = "ok" /\ r.rest # <<>> THEN Failed(x, in) ELSE r

\* The values of a tree, in their order.
RECURSIVE Values(_)
Values(x) ==
    CASE x.asn \in {"integer", "enumerate", "bool"} -> <<x.n>>
      [] x.asn = "octets"      -> <<x.bytes>>
      [] x.asn = "sequence"    -> Flat([i \in DOMAIN x.fields |-> Values(x.fields[i])])
      [] x.asn = "sequence of" -> Flat([i \in DOMAIN x.items |-> Values(x.items[i])])
      [] OTHER                 -> Values(x.inner)
=============================================================================
