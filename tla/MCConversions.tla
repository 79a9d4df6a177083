--------------------------- MODULE MCConversions ---------------------------
(* Inputs for Conversions: the ends of every range, and every value of the *)
(* short ones.                                                             *)
EXTENDS Conversions, TLC

Arg(o) == [option |-> o, num |-> 0, eq |-> FALSE, leads |-> FALSE, value |-> NoNumber]
Num(n)       == [Arg(0) EXCEPT !.num = n]
NumEq(n)     == [Num(n) EXCEPT !.eq = TRUE]
NumEqVal(n, v) == [NumEq(n) EXCEPT !.value = v]
Eq           == [Arg(0) EXCEPT !.eq = TRUE, !.leads = TRUE]
EqVal(v)     == [Eq EXCEPT !.value = v]

\* Addresses around the ends of a page and of the memory.
Addresses == {0, 1, 2, 3, 7, 8, 13, 62, 63}

Lines == UNION {{<<Num(a)>>, <<NumEq(a)>>, <<NumEqVal(a, v)>>, <<Num(a), Eq>>, <<Num(a), EqVal(v)>>,
                 <<Num(a), Eq, Num(v)>>, <<NumEq(a), Num(v)>>, <<NumEqVal(a, v), Num(5)>>} :
                  a \in Addresses, v \in {0, 9}}
         \union {<<Num(a), Num(n)>> : a \in Addresses, n \in 0..20 \union {Word - 1}}

\* Every command line of up to three of these, too.
Some == {Num(0), Num(2), Num(13), NumEq(0), NumEq(13), NumEqVal(13, 9), Eq, EqVal(9)}

Mixed == {<<a>> : a \in Some} \union {<<a, b>> : a, b \in Some}
           \union {<<a, b, c>> : a, b, c \in Some}

MCCommands == {<<>>} \union Lines \union {<<Arg(o)>> \o l : o \in {8, 16, 32}, l \in Lines}
                \union {<<Arg(8)>>} \union Mixed \union {<<Arg(16)>> \o l : l \in Mixed}

Noon == [sec |-> 0, min |-> 0, hour |-> 12, mday |-> 1, mon |-> 0, year |-> 118]

MCDates == {[Noon EXCEPT !.sec = n] : n \in 0..59} \union {[Noon EXCEPT !.min = n] : n \in 0..59}
  \union {[Noon EXCEPT !.hour = n] : n \in 0..23} \union {[Noon EXCEPT !.mday = n] : n \in 1..31}
  \union {[Noon EXCEPT !.mon = n] : n \in 0..11} \union {[Noon EXCEPT !.year = n] : n \in 99..200}
  \union [sec : {0, 59}, min : {0, 59}, hour : {0, 23}, mday : {1, 31}, mon : {0, 11}, year : {100, 199}]

MCAlarms == [min : {0, 9, 10, 59}, hour : 0..23, mday : 0..31]

\* A response whose length field says hi, lo.
Response(opt, size, hi, lo) ==
  [of |-> "response", opt |-> opt, size |-> size,
   buf |-> [i \in 0 .. size - 1 |-> CASE i = PrintForm(opt).offset - 2 -> hi
                                      [] i = PrintForm(opt).offset - 1 -> lo
                                      [] OTHER -> 7],
   genuine |-> FALSE]

Genuine(opt, size) == [Response(opt, size, 0, DigestBytes(opt)) EXCEPT !.genuine = TRUE]

MCResponses ==
  {Response(o, n, h, l) : o \in {"a", "A", "b", "e", "G", "r", "R", "s", "S", "T"},
                          n \in {1, 9, 10, 12, 13, 16, 17, 30, 31, 52, 61}, h \in {0, 1, 255}, l \in {0, 1, 20, 32, 255}}
  \union {Genuine(o, 29 + DigestBytes(o)) : o \in {"a", "A"}}
  \union {Genuine(o, 20 + DigestBytes(o)) : o \in {"s", "S"}}
  \union {Genuine(o, 30 + DigestBytes(o)) : o \in {"r", "R"}}
  \union {Genuine("G", 13), Genuine("G", 44), Genuine("T", 18), Genuine("e", 19), Genuine("b", 10)}

\* The ends of each unit, and of TLC's integers.
MCSeconds == UNION {{n * u - 1, n * u, n * u + 1} :
                      n \in {1, 2, 23, 24, 59, 60}, u \in {1, 60, 3600, 86400, 31536000}}

MCInputs ==
  {[of |-> "date", date |-> d] : d \in MCDates}
  \union {[of |-> "alarm", alarm |-> t, old |-> o] : t \in MCAlarms, o \in {1, 31}}
  \union {[of |-> "weekday", wday |-> w] : w \in 0..6}
  \union MCResponses
  \union {[of |-> "clock", sec |-> s] : s \in MCSeconds}
  \union {[of |-> "table", opt |-> o, keys |-> [i \in 1..n |-> first + i]] :
            o \in {"g", "v"}, n \in {0, 1, 2, 14, 52, 509, 510}, first \in {0, 4, 255, 267, 511}}
=============================================================================
