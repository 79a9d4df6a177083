----------------------------- MODULE Eltt2Print -----------------------------
(***************************************************************************)
(* What eltt2 prints of a response (srcs/root/rootAdvantech/usr/Advantech/ *)
(* eltt2/eltt2.c): which bytes print_response_buf shows, how               *)
(* print_clock_info splits a time, which properties                        *)
(* print_capability_flags looks at.  A printer yields its return value and *)
(* the offsets it has read.                                                *)
(***************************************************************************)
EXTENDS Integers, Sequences

\* eltt2.h
EINVAL  == 22
Header  == 10
RespMax == 4096
PRINT_RESPONSE_CLEAR        == 1
PRINT_RESPONSE_HEADERBLOCKS == 2
PRINT_RESPONSE_HEX_BLOCK    == 3
PRINT_RESPONSE_HASH         == 4

DigestBytes(opt) == IF opt \in {"a", "r", "s"} THEN 20 ELSE 32

Printed(ret, from, n) == [ret |-> ret, bytes |-> from .. from + n - 1]
Nothing               == Printed(EINVAL, 0, 0)

-----------------------------------------------------------------------------
(* buf_to_uint64: `length' bytes of the buffer, the first one the most     *)
(* significant.                                                            *)

RefusesBytes(offset, length, bufferSize) ==
  offset >= bufferSize \/ length = 0 \/ length > bufferSize - offset \/ length > 8

BytesToInt(buf, offset, length) ==
  LET tmp[i \in 0..length] == IF i = 0 THEN 0 ELSE tmp[i - 1] * 256 + buf[offset + i - 1]
  IN tmp[length]

\* Its output is 0 where it refuses.
buf_to_uint64(buf, offset, length, bufferSize) ==
  IF RefusesBytes(offset, length, bufferSize) THEN [ret |-> EINVAL, value |-> 0]
  ELSE [ret |-> 0, value |-> BytesToInt(buf, offset, length)]

-----------------------------------------------------------------------------
(* print_response_buf: a response of `size' bytes, from `offset' on        *)

SlipAnyDigest(dataSize, room) == FALSE

\* The digest's own length says more than there is.
RefusesDigest(dataSize, room) == dataSize > room

\* The length of a digest is in the two bytes before it.
print_hash(buf, size, offset) ==
  LET len == buf_to_uint64(buf, offset - 2, 2, size)
  IN IF RefusesDigest(len.value, size - offset) THEN Nothing
     ELSE Printed(len.ret, offset, len.value)

print_response_buf(buf, size, offset, format) ==
  IF size = 0 \/ size > RespMax \/ size <= offset THEN Nothing
  ELSE CASE format \in {PRINT_RESPONSE_CLEAR, PRINT_RESPONSE_HEX_BLOCK} ->
              Printed(0, offset, size - offset)
         [] format = PRINT_RESPONSE_HEADERBLOCKS ->
              IF size < Header THEN Nothing ELSE Printed(0, offset, size - offset)
         [] format = PRINT_RESPONSE_HASH -> print_hash(buf, size, offset)
         [] OTHER -> Nothing

PrintedOptions == {"a", "A", "b", "e", "E", "G", "r", "R", "s", "S", "T"}

\* response_print: from where, and how, the answer of an option is printed.
PrintForm(opt) ==
  CASE opt \in {"a", "A"} -> [offset |-> 16, format |-> PRINT_RESPONSE_HASH]
    [] opt \in {"b", "e", "E"} -> [offset |-> 0, format |-> PRINT_RESPONSE_HEADERBLOCKS]
    [] opt = "G" -> [offset |-> 12, format |-> PRINT_RESPONSE_HEX_BLOCK]
    [] opt \in {"r", "R"} -> [offset |-> 30, format |-> PRINT_RESPONSE_CLEAR]
    [] opt \in {"s", "S"} -> [offset |-> 12, format |-> PRINT_RESPONSE_HASH]
    [] opt = "T" -> [offset |-> 12, format |-> PRINT_RESPONSE_CLEAR]

response_print(opt, buf, size) ==
  print_response_buf(buf, size, PrintForm(opt).offset, PrintForm(opt).format)

-----------------------------------------------------------------------------
(* print_clock_info                                                        *)

YEAR_SECONDS   == 31536000
DAY_SECONDS    == 86400
HOUR_SECONDS   == 3600
MINUTE_SECONDS == 60

SlipDaysOfAll(sec) ==
  [y |-> sec \div YEAR_SECONDS, d |-> sec \div DAY_SECONDS,
   h |-> ((sec % YEAR_SECONDS) % DAY_SECONDS) \div HOUR_SECONDS,
   min |-> (((sec % YEAR_SECONDS) % DAY_SECONDS) % HOUR_SECONDS) \div MINUTE_SECONDS,
   s |-> (((sec % YEAR_SECONDS) % DAY_SECONDS) % HOUR_SECONDS) % MINUTE_SECONDS]

\* The whole seconds of a time; the milliseconds are the rest.
ClockParts(sec) ==
  [y |-> sec \div YEAR_SECONDS,
   d |-> (sec % YEAR_SECONDS) \div DAY_SECONDS,
   h |-> ((sec % YEAR_SECONDS) % DAY_SECONDS) \div HOUR_SECONDS,
   min |-> (((sec % YEAR_SECONDS) % DAY_SECONDS) % HOUR_SECONDS) \div MINUTE_SECONDS,
   s |-> (((sec % YEAR_SECONDS) % DAY_SECONDS) % HOUR_SECONDS) % MINUTE_SECONDS]

\* Where it finds time, clock, the counts of resets and restarts, and safe.
ClockFields == <<[offset |-> Header, length |-> 8], [offset |-> 18, length |-> 8],
                 [offset |-> 26, length |-> 4], [offset |-> 30, length |-> 4],
                 [offset |-> 34, length |-> 1]>>

-----------------------------------------------------------------------------
(* print_capability_flags                                                  *)

FirstProperty == 19   \* 0x13

SlipBound == RespMax - 16

\* x < TPM_RESP_MAX_SIZE - 8
Bound == RespMax - 8

\* How often the loop looks for a property: a key and a value of four bytes each.
Looks == (Bound - 1 - FirstProperty) \div 8 + 1

\* The cases of the two switches: 0x100 to 0x10C, 0x118 and 0x200; 0x201.
KnownKeys(opt) == IF opt = "g" THEN 256 .. 268 \union {280, 512} ELSE {513}

\* Which looks at a response that holds these properties print one: those that find
\* a key they know.  Behind the properties the buffer is 0.
print_capability_flags(opt, keys) ==
  LET PropertyKey(i) == IF i <= Len(keys) THEN keys[i] ELSE 0
  IN {i \in 1..Looks : PropertyKey(i) \in KnownKeys(opt)}

-----------------------------------------------------------------------------
(* Properties, of one response or time                                     *)

\* The TPM's answers: the part the user asked for, of an answer of `size' bytes.
Payload(opt, size) ==
  CASE opt \in {"a", "A"} -> 16 .. 15 + DigestBytes(opt)
    [] opt \in {"s", "S"} -> 12 .. 11 + DigestBytes(opt)
    [] opt \in {"r", "R"} -> 30 .. 29 + DigestBytes(opt)
    [] opt \in {"G", "T"} -> 12 .. size - 1
    [] opt \in {"b", "e", "E"} -> 0 .. size - 1

\* What it answers: a digest behind its length, or at the end of the response.
GenuineAnswer(opt, buf, size) ==
  LET offset == PrintForm(opt).offset IN
    /\ offset < size /\ Header <= size /\ size <= RespMax
    /\ opt \in {"a", "A", "s", "S"} =>
         offset + DigestBytes(opt) <= size /\ buf[offset - 2] = 0 /\ buf[offset - 1] = DigestBytes(opt)
    /\ opt \in {"r", "R"} => size = offset + DigestBytes(opt)

\* No printer reads behind the response, whatever length the response claims for
\* a digest, and of a genuine answer it prints the whole payload.
PayloadPrinted(opt, buf, size, genuine) ==
  LET out == response_print(opt, buf, size) IN
    /\ \A i \in out.bytes : i < size
    /\ genuine => out = [ret |-> 0, bytes |-> Payload(opt, size)]

\* The parts add up to the time, and none reaches the next unit; the fields follow
\* one another.
ClockExact(sec) ==
  LET p == ClockParts(sec) IN
    /\ \A i \in 1..4 : ClockFields[i].offset + ClockFields[i].length = ClockFields[i + 1].offset
    /\ p.y * YEAR_SECONDS + p.d * DAY_SECONDS + p.h * HOUR_SECONDS
         + p.min * MINUTE_SECONDS + p.s = sec
    /\ p.d < 365 /\ p.h < 24 /\ p.min < 60 /\ p.s < 60

\* Of any number of properties that fit the buffer, each one with a known key is
\* shown, in its place, and the loop never reads behind the buffer.
TableShown(opt, keys) ==
  /\ FirstProperty + 8 * Len(keys) <= RespMax =>
       print_capability_flags(opt, keys) = {i \in 1..Len(keys) : keys[i] \in KnownKeys(opt)}
  /\ FirstProperty + 8 * Looks <= RespMax
=============================================================================
