------------------------------ MODULE MCEltt2 ------------------------------
(* Command lines for Eltt2.  An argument on Linux has at most 131071       *)
(* characters.                                                             *)
EXTENDS Eltt2

Plain(o)        == [opt |-> o, digits |-> 0, wellFormed |-> TRUE, value |-> 11,
                    digest |-> 0, wellFormedDigest |-> TRUE]
Byte(o, v)      == [Plain(o) EXCEPT !.digits = 2, !.value = v]
Hash(o, digits) == [Plain(o) EXCEPT !.digits = digits]
Line(opts)      == [opts |-> opts, extra |-> FALSE]

\* One of each option, well formed; a wrong one; and the boundaries.
Singles ==
  {Plain(o) : o \in {"c", "d", "g", "h", "t", "T", "u", "v", "?"}}
  \union {Byte("G", v) : v \in {0, 2, 32}}
  \union {Byte("r", v) : v \in {23, 24}}
  \union {Byte("R", 0), Byte("z", 16), [Byte("z", 16) EXCEPT !.wellFormed = FALSE]}
  \union {[Byte(o, 7) EXCEPT !.digest = d] : o \in {"e", "E"}, d \in {40, 64, 65}}
  \union {[Byte("e", 7) EXCEPT !.digest = 40, !.wellFormedDigest = FALSE]}
  \union {Hash("b", d) : d \in {0, 20, 2048, 2049}}
  \union {Hash("s", d) : d \in {1, 2012, 2013}} \union {Hash("S", 8)}
  \union {Hash("a", d) : d \in {0, 1, 8, 1990, 1991, 3979}}
  \union {Hash("A", 3980), [Hash("A", 8) EXCEPT !.wellFormed = FALSE]}

\* -e without its digest is the last argument.
NoDigestAt(d) == {[Byte(o, 7) EXCEPT !.digest = d] : o \in {"e", "E"}}

\* Options whose answers grow, shrink or stay shorter than a header and a handle.
Chained == {Plain("g"), Plain("c"), Plain("T"), Byte("G", 1), Byte("G", 2),
            Hash("a", 1991), Plain("h"), Plain("u")}

MCCommandLines ==
  {Line(<<>>), [opts |-> <<>>, extra |-> TRUE]}
  \union {[opts |-> <<o>>, extra |-> e] : o \in Singles, e \in BOOLEAN}
  \union {Line(<<o>>) : o \in NoDigestAt(NoDigest)}
  \union {Line(<<o, p>>) : o \in Chained, p \in Singles \union NoDigestAt(NullDigest)}
  \union {Line(<<o, p, q>>) : o \in Chained, p \in Chained, q \in Chained}
  \union {Line(<<Hash("A", 131070)>>), Line(<<Hash("A", 131071)>>)}

Chains   == {Line(<<Plain("u"), Plain("c")>>), Line(<<Plain("c"), Plain("T")>>)}
                \union {Line(<<o>>) : o \in Singles}
HashOnly == {Line(<<Hash(o, d)>>) : o \in {"a", "A"}, d \in {8, 1991, 131070, 131071}}
=============================================================================
