---- MODULE RtAttr ----
(* The attributes of netlink messages: RtAttr.Serialize writes a tree of attributes
   as bytes (length and type in two bytes each, then data and children, every part
   padded to a multiple of 4), ParseRouteAttr reads one level of them back. *)
EXTENDS Naturals, Sequences, FiniteSets, SequencesExt

CONSTANTS Types, MaxData, MaxCut

VARIABLES attrs,   \* the attributes of a message: [type, data, children]
          cut,     \* bytes missing at its end
          out      \* what ParseRouteAttr makes of it

vars == <<attrs, cut, out>>

SizeofRtAttr == 4
AlignDown(n) == (n \div 4) * 4        \* mutant: forgets to round up
rtaAlignOf(n) == ((n + 3) \div 4) * 4

Uint16Attr(v) == <<v % 256, v \div 256>>
Uint16(b, i) == b[i] + 256 * b[i + 1]
Zeros(n) == [i \in 1..n |-> 0]
Padded(b) == b \o Zeros(rtaAlignOf(Len(b)) - Len(b))

RECURSIVE LenOf(_)
LenOf(a) ==
    IF a.children = <<>> THEN SizeofRtAttr + Len(a.data)
    ELSE rtaAlignOf(FoldSeq(LAMBDA c, l : l + rtaAlignOf(LenOf(c)), SizeofRtAttr, a.children) + Len(a.data))

(* The length is cut to 16 bits; data and children are copied one after the other. *)
RECURSIVE Serialize(_)
Serialize(a) ==
    LET body == FoldLeft(LAMBDA b, c : b \o Padded(Serialize(c)), Padded(a.data), a.children)
        total == rtaAlignOf(LenOf(a))
    IN SubSeq(Uint16Attr(LenOf(a) % 65536) \o Uint16Attr(a.type) \o body
                  \o Zeros(total), 1, total)

(* NetlinkRequest.Serialize: the parts of a request one after the other. *)
SerializeRequest(as) == FoldLeft(LAMBDA b, a : b \o Serialize(a), <<>>, as)

(* netlinkRouteAttrAndValue: the length must cover the header and not exceed the rest. *)
BadLen(b, n) == n < SizeofRtAttr \/ n > Len(b)

Parsed(as) == [err |-> "nil", attrs |-> as]
Failed(e) == [err |-> e, attrs |-> <<>>]

(* b = b[alen:] panics when the last attribute has no padding. *)
RECURSIVE ParseRouteAttr(_)
ParseRouteAttr(b) ==
    IF Len(b) < SizeofRtAttr THEN Parsed(<<>>)
    ELSE LET n == Uint16(b, 1)
             alen == rtaAlignOf(n)
             rest == ParseRouteAttr(SubSeq(b, alen + 1, Len(b)))
         IN IF BadLen(b, n) THEN Failed("EINVAL")
            ELSE IF alen > Len(b) THEN Failed("panic")
            ELSE IF rest.err # "nil" THEN rest
            ELSE Parsed(<<[type |-> Uint16(b, 3), value |-> SubSeq(b, 5, n)]>> \o rest.attrs)

----------------------------------------------------------------------------
Data == {[i \in 1..n |-> 6 + i] : n \in 0..MaxData}
Leaves == [type : Types, data : Data, children : {<<>>}]
Parents == [type : Types, data : {<<>>}, children : {<<x>> : x \in Leaves} \cup {<<x, y>> : x, y \in Leaves}]

Init ==
    /\ attrs \in {<<x>> : x \in Leaves \cup Parents} \cup {<<x, y>> : x \in Leaves, y \in Leaves \cup Parents}
    /\ cut \in 0..MaxCut
    /\ out = Failed("none")

Parse ==
    /\ out.err = "none"
    /\ LET b == SerializeRequest(attrs) IN
       out' = ParseRouteAttr(SubSeq(b, 1, IF cut > Len(b) THEN 0 ELSE Len(b) - cut))
    /\ UNCHANGED <<attrs, cut>>

Next == Parse
Spec == Init /\ [][Next]_vars

Same(as, ps) ==
    /\ Len(as) = Len(ps)
    /\ \A i \in DOMAIN as :
          /\ as[i].type = ps[i].type
          /\ as[i].children = <<>> => as[i].data = ps[i].value

(* What Serialize wrote ParseRouteAttr reads back, level by level: the types, the data to the
   byte, and for an attribute with children the same children again. A message that lacks its
   end is refused or read up to a whole attribute, never read past its end, as long as it
   keeps its alignment. *)
RoundTrip ==
    /\ out.err # "none" /\ cut = 0 =>
        /\ out.err = "nil" /\ Same(attrs, out.attrs)
        /\ \A i \in DOMAIN attrs : attrs[i].children # <<>> =>
              LET inner == ParseRouteAttr(out.attrs[i].value) IN
              inner.err = "nil" /\ Same(attrs[i].children, inner.attrs)
    /\ out.err # "none" /\ cut % 4 = 0 =>
        /\ out.err # "panic"
        /\ out.err = "nil" => \A i \in DOMAIN out.attrs :
              out.attrs[i].type = attrs[i].type /\ Len(out.attrs[i].value) = LenOf(attrs[i]) - SizeofRtAttr
====
