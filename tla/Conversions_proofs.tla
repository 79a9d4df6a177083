------------------------- MODULE Conversions_proofs -------------------------
(***************************************************************************)
(* The conversions, for every input: dates, alarms and times, and the      *)
(* accesses of memtool on a machine with words and pages of any size.      *)
(***************************************************************************)
EXTENDS Conversions, SequenceTheorems, TLAPS

-----------------------------------------------------------------------------
(* Dates and alarms                                                        *)

(* Two decimal digits survive BCD, and its bits above them are zero.        *)
LEMMA BcdKept ==
  ASSUME NEW n \in 0..99
  PROVE  /\ bcd2bin(bin2bcd(n)) = n
         /\ n <= 79 => bin2bcd(n) < 128
         /\ n <= 39 => bin2bcd(n) < 64
         /\ n <= 19 => bin2bcd(n) < 32
         /\ bin2bcd(n) \in Nat
         /\ bin2bcd(n) = 0 <=> n = 0
<1>1. n \div 10 \in 0..9 /\ n % 10 \in 0..9 /\ n = 10 * (n \div 10) + (n % 10)
  OBVIOUS
<1>2. bin2bcd(n) % 16 = n % 10 /\ bin2bcd(n) \div 16 = n \div 10
  BY <1>1 DEF bin2bcd
<1>3. bcd2bin(bin2bcd(n)) = n
  BY <1>1, <1>2 DEF bcd2bin
<1>4. QED
  BY <1>1, <1>3 DEF bin2bcd

LEMMA DatesKept == ASSUME NEW dt \in Dates PROVE DateKept(dt)
<1>1. SUFFICES ASSUME ~ RefusesYear(dt) PROVE DateOf(DateRegisters(dt)) = dt
  BY DEF DateKept
<1>2. /\ dt.sec \in 0..59 /\ dt.min \in 0..59 /\ dt.hour \in 0..23 /\ dt.mday \in 1..31
      /\ dt.mon \in 0..11 /\ dt.year - 100 \in 0..99 /\ dt.year \in Nat
  BY <1>1 DEF Dates, RefusesYear
<1> DEFINE reg == DateRegisters(dt)
<1>3. bcd2bin(reg.sec % 128) = dt.sec
  <2>1. bin2bcd(dt.sec) % 128 = bin2bcd(dt.sec)
    <3>1. bin2bcd(dt.sec) \in 0..127
      BY SMT, <1>2 DEF bin2bcd
    <3>2. QED
      BY <3>1
  <2>2. QED
    BY <1>2, <2>1, BcdKept DEF DateRegisters
<1>4. bcd2bin(reg.min % 128) = dt.min
  <2>1. bin2bcd(dt.min) % 128 = bin2bcd(dt.min)
    BY <1>2, BcdKept
  <2>2. QED
    BY <1>2, <2>1, BcdKept DEF DateRegisters
<1>5. bcd2bin(reg.hour % 64) = dt.hour
  <2>1. bin2bcd(dt.hour) % 64 = bin2bcd(dt.hour)
    BY <1>2, BcdKept
  <2>2. QED
    BY <1>2, <2>1, BcdKept DEF DateRegisters
<1>6. bcd2bin(reg.mday % 64) = dt.mday
  <2>1. bin2bcd(dt.mday) % 64 = bin2bcd(dt.mday)
    BY <1>2, BcdKept
  <2>2. QED
    BY <1>2, <2>1, BcdKept DEF DateRegisters
<1>7. bcd2bin(reg.mon % 32) - 1 = dt.mon
  <2>1. bin2bcd(dt.mon + 1) % 32 = bin2bcd(dt.mon + 1) /\ bcd2bin(bin2bcd(dt.mon + 1)) = dt.mon + 1
    BY <1>2, BcdKept
  <2>2. QED
    BY <1>2, <2>1 DEF DateRegisters
<1>8. bcd2bin(reg.year) + 100 = dt.year
  BY <1>2, BcdKept DEF DateRegisters
<1>9. QED
  BY <1>3, <1>4, <1>5, <1>6, <1>7, <1>8 DEF DateOf, Dates

LEMMA AlarmsKept == ASSUME NEW t \in Alarms, NEW old \in 1..31 PROVE AlarmKept(t, old)
<1>1. t.min \in 0..59 /\ t.hour \in 0..23 /\ t.mday \in 0..31
  BY DEF Alarms
<1> DEFINE reg == AlarmRegisters(t)
<1>2. bcd2bin(reg.min % 128) = t.min
  <2>1. bin2bcd(t.min) % 128 = bin2bcd(t.min)
    BY <1>1, BcdKept
  <2>2. QED
    BY <1>1, <2>1, BcdKept DEF AlarmRegisters
<1>3. bcd2bin(reg.hour % 64) = t.hour
  <2>1. bin2bcd(t.hour) % 64 = bin2bcd(t.hour)
    BY <1>1, BcdKept
  <2>2. QED
    BY <1>1, <2>1, BcdKept DEF AlarmRegisters
<1>4. (IF OneDay(reg) THEN bcd2bin(reg.day % 128) ELSE old) = (IF t.mday = 0 THEN old ELSE t.mday)
  <2>1. /\ bin2bcd(t.mday) % 128 = bin2bcd(t.mday) /\ bin2bcd(t.mday) < 128
        /\ bcd2bin(bin2bcd(t.mday)) = t.mday
        /\ bin2bcd(t.mday) = 0 <=> t.mday = 0
    BY <1>1, BcdKept
  <2>2. reg.day = IF t.mday = 0 THEN 128 ELSE bin2bcd(t.mday)
    BY <2>1 DEF AlarmRegisters, RX8010_ALARM_AE
  <2>3. OneDay(reg) <=> t.mday # 0
    BY <2>1, <2>2 DEF OneDay, RX8010_ALARM_AE
  <2>4. QED
    BY <2>1, <2>2, <2>3
<1>5. AlarmOf(reg, old) = [min |-> t.min, hour |-> t.hour, mday |-> IF t.mday = 0 THEN old ELSE t.mday]
  BY <1>2, <1>3, <1>4 DEF AlarmOf
<1>6. QED
  BY <1>5 DEF AlarmKept, Alarms

(* Until Wednesday the register holds the bit.                              *)
LEMMA WeekdayBit ==
  ASSUME NEW w \in 0..3 PROVE WeekdayRegister(w) % 128 = Bit(w) /\ Bit(w) \in {1, 2, 4, 8}
<1>1. CASE w = 0
  BY <1>1 DEF WeekdayRegister, bin2bcd, Bit
<1>2. CASE w = 1
  BY <1>2 DEF WeekdayRegister, bin2bcd, Bit
<1>3. CASE w = 2
  BY <1>3 DEF WeekdayRegister, bin2bcd, Bit
<1>4. CASE w = 3
  BY <1>4 DEF WeekdayRegister, bin2bcd, Bit
<1>5. QED
  BY <1>1, <1>2, <1>3, <1>4

LEMMA Bits ==
  /\ Bit(0) = 1 /\ Bit(1) = 2 /\ Bit(2) = 4 /\ Bit(3) = 8
  /\ Bit(4) = 16 /\ Bit(5) = 32 /\ Bit(6) = 64 /\ Bit(7) = 128
  BY DEF Bit

(* One bit only is found.                                                   *)
LEMMA OneBit ==
  ASSUME NEW w \in 0..3, NEW n \in 1..8
  PROVE  (Bit(w) \div Bit(n - 1)) % 2 = 1 /\ Bit(w) % Bit(n - 1) = 0 <=> n = w + 1
<1>1. n \in {1, 2, 3, 4, 5, 6, 7, 8} /\ w \in {0, 1, 2, 3}
  OBVIOUS
<1>2. CASE w = 0
  BY <1>1, <1>2, Bits
<1>3. CASE w = 1
  BY <1>1, <1>3, Bits
<1>4. CASE w = 2
  BY <1>1, <1>4, Bits
<1>5. CASE w = 3
  BY <1>1, <1>5, Bits
<1>6. QED
  BY <1>1, <1>2, <1>3, <1>4, <1>5

LEMMA WeekdaysKept == ASSUME NEW w \in 0..3 PROVE WeekdayOf(WeekdayRegister(w)) = w + 1
<1> DEFINE F(n) == (Bit(w) \div Bit(n - 1)) % 2 = 1 /\ Bit(w) % Bit(n - 1) = 0
<1>1. \A n \in 1..8 : F(n) <=> n = w + 1
  BY OneBit
<1> HIDE DEF F
<1>2. (CHOOSE n \in 1..8 : F(n)) = w + 1
  BY <1>1
<1>3. Bit(w) # 0
  BY WeekdayBit
<1>4. ffs(Bit(w)) = w + 1
  BY <1>2, <1>3 DEF ffs, F
<1>5. QED
  BY <1>4, WeekdayBit DEF WeekdayOf

-----------------------------------------------------------------------------
(* Times                                                                   *)

(* Division by a unit of at most k to the next.                             *)
LEMMA Parts ==
  ASSUME NEW n \in Nat, NEW unit \in Nat \ {0}
  PROVE  n = unit * (n \div unit) + (n % unit) /\ n % unit \in 0..(unit - 1) /\ n \div unit \in Nat
  BY SMT

LEMMA PartsBelow ==
  ASSUME NEW n \in Nat, NEW unit \in Nat \ {0}, NEW k \in Nat, n < k * unit
  PROVE  n \div unit < k
<1> DEFINE q == n \div unit
<1>1. unit * q <= n /\ q \in Nat
  BY Parts
<1> HIDE DEF q
<1>2. SUFFICES ASSUME q >= k PROVE FALSE
  BY <1>1 DEF q
<1>3. unit * q >= unit * k
  BY SMT, <1>1, <1>2
<1>4. QED
  BY SMT, <1>1, <1>3

LEMMA Units ==
  /\ YEAR_SECONDS \in Nat \ {0} /\ DAY_SECONDS \in Nat \ {0}
  /\ HOUR_SECONDS \in Nat \ {0} /\ MINUTE_SECONDS \in Nat \ {0}
  /\ YEAR_SECONDS = 365 * DAY_SECONDS /\ DAY_SECONDS = 24 * HOUR_SECONDS
  /\ HOUR_SECONDS = 60 * MINUTE_SECONDS /\ MINUTE_SECONDS = 60
  BY SMT DEF YEAR_SECONDS, DAY_SECONDS, HOUR_SECONDS, MINUTE_SECONDS

LEMMA UnitTypes ==
  /\ YEAR_SECONDS \in Nat \ {0} /\ DAY_SECONDS \in Nat \ {0}
  /\ HOUR_SECONDS \in Nat \ {0} /\ MINUTE_SECONDS \in Nat \ {0}
<1> HIDE DEF YEAR_SECONDS, DAY_SECONDS, HOUR_SECONDS, MINUTE_SECONDS
<1>1. QED
  BY Units

LEMMA TimesSplit == ASSUME NEW sec \in Nat PROVE ClockExact(sec)
<1>1. \A i \in 1..4 : ClockFields[i].offset + ClockFields[i].length = ClockFields[i + 1].offset
  <2>1. 1..4 = {1, 2, 3, 4}
    OBVIOUS
  <2>2. QED
    BY <2>1 DEF ClockFields, Header
<1> DEFINE y == sec \div YEAR_SECONDS
           r1 == sec % YEAR_SECONDS
           d == r1 \div DAY_SECONDS
           r2 == r1 % DAY_SECONDS
           h == r2 \div HOUR_SECONDS
           r3 == r2 % HOUR_SECONDS
           m == r3 \div MINUTE_SECONDS
           s == r3 % MINUTE_SECONDS
<1>2. ClockParts(sec) = [y |-> y, d |-> d, h |-> h, min |-> m, s |-> s]
  BY SMT DEF ClockParts
<1>3. sec = YEAR_SECONDS * y + r1 /\ r1 \in 0..(YEAR_SECONDS - 1) /\ y \in Nat
  BY UnitTypes, Parts
<1> HIDE DEF r1
<1>4. r1 = DAY_SECONDS * d + r2 /\ r2 \in 0..(DAY_SECONDS - 1) /\ d \in Nat /\ d < 365
  <2>1. YEAR_SECONDS = 365 * DAY_SECONDS
    BY Units
  <2>2. r1 \in Nat /\ r1 < 365 * DAY_SECONDS
    BY SMT, UnitTypes, <1>3, <2>1
  <2>3. r1 = DAY_SECONDS * d + r2 /\ r2 \in 0..(DAY_SECONDS - 1) /\ d \in Nat
    BY UnitTypes, Parts, <2>2
  <2>4. r1 \div DAY_SECONDS < 365
    <3>1. 365 \in Nat
      OBVIOUS
    <3>2. \A k \in Nat : r1 < k * DAY_SECONDS => r1 \div DAY_SECONDS < k
      BY UnitTypes, PartsBelow, <2>2
    <3>3. QED
      BY <3>1, <3>2, <2>2
  <2>5. QED
    BY <2>3, <2>4
<1> HIDE DEF r2
<1>5. r2 = HOUR_SECONDS * h + r3 /\ r3 \in 0..(HOUR_SECONDS - 1) /\ h \in Nat /\ h < 24
  <2>1. r2 \in 0..(DAY_SECONDS - 1)
    BY Zenon, <1>4
  <2>2. DAY_SECONDS = 24 * HOUR_SECONDS /\ HOUR_SECONDS \in Nat
    BY Zenon, Units, UnitTypes
  <2>3. r2 \in Nat /\ r2 < 24 * HOUR_SECONDS
    BY SMT, <2>1, <2>2
  <2>4. QED
    BY UnitTypes, Parts, PartsBelow, <2>3
<1> HIDE DEF r3
<1>6. r3 = MINUTE_SECONDS * m + s /\ s \in 0..(MINUTE_SECONDS - 1) /\ m \in Nat /\ m < 60
  <2>1. r3 \in 0..(HOUR_SECONDS - 1)
    BY Zenon, <1>5
  <2>2. HOUR_SECONDS = 60 * MINUTE_SECONDS /\ MINUTE_SECONDS \in Nat
    BY Zenon, Units, UnitTypes
  <2>3. r3 \in Nat /\ r3 < 60 * MINUTE_SECONDS
    BY SMT, <2>1, <2>2
  <2>4. QED
    BY UnitTypes, Parts, PartsBelow, <2>3
<1> HIDE DEF y, d, h, m, s
<1>7. y * YEAR_SECONDS + d * DAY_SECONDS + h * HOUR_SECONDS + m * MINUTE_SECONDS + s = sec
  <2>1. d * DAY_SECONDS + r2 = r1
    BY SMT, UnitTypes, <1>4
  <2>2. h * HOUR_SECONDS + r3 = r2
    BY SMT, UnitTypes, <1>5
  <2>3. m * MINUTE_SECONDS + s = r3
    BY SMT, UnitTypes, <1>6
  <2>4. y * YEAR_SECONDS + r1 = sec
    BY SMT, UnitTypes, <1>3
  <2> DEFINE ys == y * YEAR_SECONDS
             ds == d * DAY_SECONDS
             hs == h * HOUR_SECONDS
             ms == m * MINUTE_SECONDS
  <2>5. ys \in Int /\ ds \in Int /\ hs \in Int /\ ms \in Int
    BY SMT, UnitTypes, <1>3, <1>4, <1>5, <1>6
  <2>6. s \in Int
    BY SMT, UnitTypes, <1>6
  <2> HIDE DEF ys, ds, hs, ms
  <2>7. ys + ds + hs + ms + s = sec
    BY SMT, <2>1, <2>2, <2>3, <2>4, <2>5, <2>6 DEF ys, ds, hs, ms
  <2>8. QED
    BY <2>7 DEF ys, ds, hs, ms
<1>8. s \in Nat /\ s < 60
  <2>1. s \in 0..(MINUTE_SECONDS - 1) /\ MINUTE_SECONDS = 60
    BY Zenon, Units, <1>6
  <2>2. QED
    BY SMT, <2>1
<1>9. QED
  BY <1>1, <1>2, <1>4, <1>5, <1>6, <1>7, <1>8 DEF ClockExact

-----------------------------------------------------------------------------
(* memtool                                                                 *)

(* A request that is understood asks for elements of 1, 2 or 4 bytes.       *)
Understood(r) == r.ok => r.size \in {1, 2, 4} /\ r.paddr \in Nat /\ r.count \in Nat

LEMMA AddressUnderstood ==
  ASSUME NEW args \in Seq(MemArguments), NEW size \in {1, 2, 4}
  PROVE  Understood(ParseAddress(args, size))
<1>1. CASE args = <<>>
  BY <1>1 DEF Understood, ParseAddress, Usage, Request
<1>2. CASE args # <<>> /\ Len(args) < 2
  <2>1. args[1].num \in Nat
    <3>1. args[1] \in MemArguments
      BY <1>2
    <3>2. QED
      BY <3>1 DEF MemArguments
  <2>2. QED
    BY <1>2, <2>1 DEF Understood, ParseAddress, ValueBehind, Usage, Writes, Reads, Request
<1>3. CASE Len(args) >= 2
  <2>1. args[1].num \in Nat /\ args[2].num \in Nat
    <3>1. args[1] \in MemArguments /\ args[2] \in MemArguments
      BY <1>3
    <3>2. QED
      BY <3>1 DEF MemArguments
  <2>2. QED
    BY <1>3, <2>1 DEF Understood, ParseAddress, ValueBehind, Usage, Writes, Reads, Request
<1>4. QED
  BY <1>1, <1>2, <1>3

LEMMA LineUnderstood ==
  ASSUME NEW args \in Seq(MemArguments) PROVE Understood(parse_cmdline(args))
<1>1. CASE args = <<>>
  BY <1>1 DEF Understood, parse_cmdline, Usage, Request
<1>2. CASE args # <<>> /\ args[1].option # 0
  <2>1. Tail(args) \in Seq(MemArguments) /\ args[1].option \in {8, 16, 32}
    <3>1. Tail(args) \in Seq(MemArguments) /\ args[1] \in MemArguments
      BY <1>2
    <3>2. QED
      BY <3>1, <1>2 DEF MemArguments
  <2>2. args[1].option \div 8 \in {1, 2, 4}
    BY <2>1
  <2>3. QED
    BY <1>2, <2>1, <2>2, AddressUnderstood DEF parse_cmdline
<1>3. CASE args # <<>> /\ args[1].option = 0
  BY <1>3, AddressUnderstood DEF parse_cmdline
<1>4. QED
  BY <1>1, <1>2, <1>3

LEMMA MemNat == Word \in Nat \ {0} /\ Page \in Nat \ {0} /\ Page % 4 = 0
  BY MemAssumption

(* What is rounded up to pages reaches over what is to be accessed.         *)
LEMMA SpanMapped ==
  ASSUME Understood(req), req.ok, Span + Page <= Word PROVE AlignedSize >= Span
<1>1. req.size \in Nat /\ req.count \in Nat /\ req.paddr \in Nat
  BY DEF Understood
<1>2. InPage \in 0..(Page - 1)
  BY <1>1, MemNat, Parts DEF InPage
<1> DEFINE n == Span + Page - 1
<1>3. Span \in Nat
  <2>1. req.count * req.size \in Nat
    BY <1>1
  <2>2. QED
    BY <2>1, <1>2, MemNat DEF Span
<1>4. n \in Nat /\ n % Word = n
  BY <1>3, MemNat
<1>5. n % Page \in 0..(Page - 1)
  <2> HIDE DEF n
  <2>1. QED
    BY <1>4, MemNat, Parts
<1>6. AlignedSize = n - (n % Page)
  BY <1>4 DEF AlignedSize
<1>7. QED
  BY <1>3, <1>5, <1>6, MemNat

(* The first n of the elements are in the span.                             *)
LEMMA ElementsInSpan ==
  ASSUME Understood(req), req.ok, NEW n \in Nat, n <= req.count
  PROVE  InPage + n * req.size <= Span
<1>1. req.size \in Nat /\ req.count \in Nat /\ req.paddr \in Nat
  BY DEF Understood
<1>2. InPage \in Nat
  BY <1>1, MemNat, Parts DEF InPage
<1>3. n * req.size <= req.count * req.size /\ n * req.size \in Nat /\ req.count * req.size \in Nat
  <2>1. CASE req.size = 1
    BY <2>1, <1>1
  <2>2. CASE req.size = 2
    BY <2>2, <1>1
  <2>3. CASE req.size = 4
    BY <2>3, <1>1
  <2>4. QED
    BY <2>1, <2>2, <2>3 DEF Understood
<1>4. QED
  BY <1>2, <1>3 DEF Span

LEMMA Product == ASSUME NEW n \in Nat, NEW k \in Nat PROVE n * k \in Nat
  BY SMT

LEMMA SpanType ==
  ASSUME Understood(req), req.ok
  PROVE  InPage \in Nat /\ Span \in Nat /\ AlignedSize \in Int
<1>1. req.size \in Nat /\ req.count \in Nat /\ req.paddr \in Nat
  BY DEF Understood
<1>2. InPage \in Nat
  BY <1>1, MemNat, Parts DEF InPage
<1>3. Span \in Nat
  BY <1>1, <1>2, Product DEF Span
<1>4. (Span + Page - 1) % Word \in Int
  BY <1>3, MemNat
<1>5. QED
  BY <1>2, <1>3, <1>4, MemNat DEF AlignedSize

(* What has been accessed is a whole number of elements of what was asked    *)
(* for, in a mapping made for all of them.                                  *)
MemInv ==
  /\ at \in {"parse", "open", "map", "access", "exit"} /\ argv \in Seq(MemArguments)
  /\ next \in Nat /\ reached \in Nat
  /\ at \in {"open", "map", "access"} => Understood(req) /\ req.ok
  /\ at \in {"parse", "open", "map"} => next = 0 /\ reached = 0
  /\ at = "access" => next <= req.count /\ mapped \in {-1, AlignedSize}
  /\ reached > 0 => /\ Understood(req) /\ req.ok /\ mapped = AlignedSize
                    /\ next <= req.count /\ reached = InPage + next * req.size

LEMMA SameRequest ==
  ASSUME req' = req
  PROVE  AlignedSize' = AlignedSize /\ InPage' = InPage /\ Understood(req)' = Understood(req)
  BY DEF AlignedSize, Span, InPage, Understood

LEMMA MemInvInit == Init => MemInv
<1> SUFFICES ASSUME Init PROVE MemInv
  OBVIOUS
<1>1. at = "parse" /\ argv \in MemCommands /\ next = 0 /\ reached = 0
  BY DEF Init, MemInit
<1>2. argv \in Seq(MemArguments)
  BY <1>1, MemAssumption
<1>3. QED
  BY <1>1, <1>2 DEF MemInv

LEMMA ParseInv == ASSUME MemInv, Parse PROVE MemInv'
<1> DEFINE r == parse_cmdline(argv)
<1>1. argv' = argv /\ next' = 0 /\ reached' = 0 /\ argv \in Seq(MemArguments)
  BY DEF MemInv, Parse
<1>2. \/ at' = "exit"
      \/ at' = "open" /\ r.ok /\ req' = [r EXCEPT !.paddr = @ - (@ % r.size)]
  BY DEF Parse
<1>3. Understood(r)
  BY <1>1, LineUnderstood
<1>4. ASSUME at' = "open" PROVE Understood(req') /\ req'.ok
  <2>1. r.ok /\ req' = [r EXCEPT !.paddr = @ - (@ % r.size)]
    BY <1>2, <1>4
  <2>2. r.size \in {1, 2, 4} /\ r.paddr \in Nat /\ r.count \in Nat
    BY <1>3, <2>1 DEF Understood
  <2>3. r.paddr - (r.paddr % r.size) \in Nat
    BY <2>2
  <2>4. \E a, b, c, d, e, f : r = Request(b, c, d, e, f) \/ r = [Request(4, 0, FALSE, 0, 1) EXCEPT !.ok = FALSE]
    BY DEF parse_cmdline, ParseAddress, ValueBehind, Usage, Writes, Reads
  <2>5. req'.ok = r.ok /\ req'.size = r.size /\ req'.paddr = r.paddr - (r.paddr % r.size)
        /\ req'.count = r.count
    BY <2>1, <2>4 DEF Request
  <2>6. QED
    BY <2>1, <2>2, <2>3, <2>5 DEF Understood
<1>5. QED
  BY <1>1, <1>2, <1>4 DEF MemInv

LEMMA AccessInv == ASSUME MemInv, Access PROVE MemInv'
<1>1. /\ at = "access" /\ at' = "access" /\ next < req.count /\ next' = next + 1 /\ mapped # -1
      /\ reached' = InPage + next' * req.size /\ argv' = argv /\ req' = req /\ mapped' = mapped
  BY DEF Access
<1>2. Understood(req) /\ req.ok /\ mapped = AlignedSize /\ next \in Nat /\ argv \in Seq(MemArguments)
  BY <1>1 DEF MemInv
<1>3. req.size \in {1, 2, 4} /\ req.count \in Nat /\ req.paddr \in Nat
  BY <1>2 DEF Understood
<1>4. next' \in Nat /\ next' <= req.count
  BY <1>1, <1>2, <1>3
<1>5. InPage \in Nat /\ next' * req.size \in Nat
  <2>1. req.size \in Nat
    BY <1>3
  <2>2. QED
    BY <1>2, <1>4, <2>1, SpanType, Product
<1>6. reached' \in Nat
  BY <1>1, <1>5
<1>7. QED
  BY <1>1, <1>2, <1>4, <1>6, SameRequest DEF MemInv

LEMMA MemInvStep == MemInv /\ [Next]_vars => MemInv'
<1> SUFFICES ASSUME MemInv, [Next]_vars PROVE MemInv'
  OBVIOUS
<1>1. CASE Parse
  BY <1>1, ParseInv
<1>2. CASE OpenMem
  BY <1>2, SameRequest DEF OpenMem, MemInv
<1>3. CASE Map
  <2>1. /\ at = "map" /\ at' = "access" /\ mapped' \in {-1, AlignedSize}
        /\ argv' = argv /\ req' = req /\ next' = next /\ reached' = reached
    BY <1>3 DEF Map
  <2>2. next = 0 /\ reached = 0 /\ Understood(req) /\ req.ok /\ argv \in Seq(MemArguments)
    BY <2>1 DEF MemInv
  <2>3. req.count \in Nat
    BY <2>2 DEF Understood
  <2>4. QED
    BY <2>1, <2>2, <2>3, SameRequest DEF MemInv
<1>4. CASE Access
  BY <1>4, AccessInv
<1>5. CASE Fault
  BY <1>5, SameRequest DEF Fault, MemInv
<1>6. CASE Unmap
  BY <1>6, SameRequest DEF Unmap, MemInv
<1>7. CASE UNCHANGED memVars
  BY <1>7, SameRequest DEF memVars, MemInv
<1>8. QED
  BY <1>1, <1>2, <1>3, <1>4, <1>5, <1>6, <1>7 DEF Next, Convert, MemNext, vars

LEMMA MemInvAccess == MemInv => AccessMapped
<1> SUFFICES ASSUME MemInv, reached > 0 PROVE reached <= mapped \/ Span + Page > Word
  BY DEF AccessMapped
<1>1. /\ Understood(req) /\ req.ok /\ mapped = AlignedSize /\ next \in Nat
      /\ next <= req.count /\ reached = InPage + next * req.size
  BY DEF MemInv
<1>2. Span \in Nat /\ AlignedSize \in Int /\ reached \in Nat
  BY <1>1, SpanType DEF MemInv
<1>3. reached <= Span
  BY <1>1, ElementsInSpan
<1>4. Span + Page <= Word => AlignedSize >= Span
  BY <1>1, SpanMapped
<1>5. QED
  BY <1>1, <1>2, <1>3, <1>4, MemNat

-----------------------------------------------------------------------------
(* What the runs check                                                     *)

(* Every input is one the programs can be given.                            *)
LEMMA InputsHold == Spec => [](input \in Inputs \union {NoInput})
<1>1. Init => input \in Inputs \union {NoInput}
  BY DEF Init
<1>2. input \in Inputs \union {NoInput} /\ [Next]_vars => (input \in Inputs \union {NoInput})'
  BY DEF Next, Convert, vars
<1>3. QED
  BY <1>1, <1>2, PTL DEF Spec

(* A date or an alarm that was written is the one that is read, whatever it  *)
(* is, and so is the day of the week until Wednesday.                       *)
THEOREM TimesAreKept == Spec => []TimesKept
<1>1. input \in Inputs \union {NoInput} => TimesKept
  <2> SUFFICES ASSUME input \in Inputs \union {NoInput} PROVE TimesKept
    OBVIOUS
  <2>1. CASE input = NoInput
    BY <2>1 DEF NoInput, TimesKept
  <2>2. CASE input \in Inputs
    <3>1. /\ input.of = "date" => input.date \in Dates
          /\ input.of = "alarm" => input.alarm \in Alarms /\ input.old \in 1..31
          /\ input.of = "weekday" => input.wday \in 0..6
      BY <2>2, InputAssumption
    <3>2. input.of = "date" => DateKept(input.date)
      BY <3>1, DatesKept
    <3>3. input.of = "alarm" => AlarmKept(input.alarm, input.old)
      BY <3>1, AlarmsKept
    <3>4. input.of = "weekday" /\ input.wday <= 3 => input.wday \in 0..3
      BY <3>1
    <3>5. QED
      BY <3>2, <3>3, <3>4, WeekdaysKept DEF TimesKept
  <2>3. QED
    BY <2>1, <2>2
<1>2. QED
  BY <1>1, InputsHold, PTL

(* No time loses a second when print_clock_info splits it.                   *)
THEOREM ClockStaysWhole == Spec => []ClockWhole
<1>1. input \in Inputs \union {NoInput} => ClockWhole
  <2> SUFFICES ASSUME input \in Inputs, input.of = "clock" PROVE ClockExact(input.sec)
    BY DEF ClockWhole, NoInput
  <2>1. input.sec \in Nat
    BY InputAssumption
  <2>2. QED
    BY <2>1, TimesSplit
<1>2. QED
  BY <1>1, InputsHold, PTL

(* memtool accesses nothing outside its mapping, on a machine with words and *)
(* pages of any size, unless the size it asks for does not fit in a word.   *)
THEOREM AccessStaysMapped == Spec => []AccessMapped
<1>1. QED
  BY MemInvInit, MemInvStep, MemInvAccess, PTL DEF Spec

-----------------------------------------------------------------------------
(* What eltt2 prints                                                       *)

(* The length of a digest, in two bytes.                                    *)
LEMMA TwoBytes ==
  ASSUME NEW buf, NEW o \in Nat, buf[o] \in 0..255, buf[o + 1] \in 0..255
  PROVE  BytesToInt(buf, o, 2) = buf[o] * 256 + buf[o + 1]
<1> DEFINE tmp == CHOOSE f : f = [i \in 0..2 |-> IF i = 0 THEN 0 ELSE f[i - 1] * 256 + buf[o + i - 1]]
           g == [i \in 0..2 |-> IF i = 0 THEN 0 ELSE IF i = 1 THEN buf[o] ELSE buf[o] * 256 + buf[o + 1]]
<1>1. g = [i \in 0..2 |-> IF i = 0 THEN 0 ELSE g[i - 1] * 256 + buf[o + i - 1]]
  <2>1. ASSUME NEW i \in 0..2 PROVE g[i] = IF i = 0 THEN 0 ELSE g[i - 1] * 256 + buf[o + i - 1]
    <3>1. CASE i = 0
      BY <3>1
    <3>2. CASE i = 1
      <4>1. g[0] = 0 /\ g[1] = buf[o] /\ o + 1 - 1 = o
        OBVIOUS
      <4> HIDE DEF g
      <4>2. QED
        BY <3>2, <4>1
    <3>3. CASE i = 2
      <4>1. g[1] = buf[o] /\ g[2] = buf[o] * 256 + buf[o + 1] /\ o + 2 - 1 = o + 1
        OBVIOUS
      <4> HIDE DEF g
      <4>2. QED
        BY <3>3, <4>1
    <3>4. QED
      BY <3>1, <3>2, <3>3
  <2> DEFINE h == [i \in 0..2 |-> IF i = 0 THEN 0 ELSE g[i - 1] * 256 + buf[o + i - 1]]
  <2>2. DOMAIN g = 0..2 /\ DOMAIN h = 0..2 /\ g = [i \in DOMAIN g |-> g[i]] /\ h = [i \in DOMAIN h |-> h[i]]
    OBVIOUS
  <2>3. \A i \in 0..2 : g[i] = h[i]
    BY <2>1
  <2> HIDE DEF g, h
  <2>4. g = h
    BY <2>2, <2>3
  <2>5. QED
    BY <2>4 DEF h
<1> HIDE DEF g
<1>2. tmp = [i \in 0..2 |-> IF i = 0 THEN 0 ELSE tmp[i - 1] * 256 + buf[o + i - 1]]
  BY <1>1
<1>3. BytesToInt(buf, o, 2) = tmp[2]
  BY DEF BytesToInt
<1> HIDE DEF tmp
<1>4. /\ tmp[0] = 0
      /\ tmp[1] = tmp[0] * 256 + buf[o + 1 - 1]
      /\ tmp[2] = tmp[1] * 256 + buf[o + 2 - 1]
  BY <1>2
<1>5. o + 1 - 1 = o /\ o + 2 - 1 = o + 1
  OBVIOUS
<1>6. QED
  BY <1>3, <1>4, <1>5

\* What print_hash does with a digest that is as long as the response says.
HashPrinted(buf, size, offset) ==
  \E n \in Nat :
    /\ n = buf[offset - 2] * 256 + buf[offset - 1]
    /\ print_hash(buf, size, offset) = IF n > size - offset THEN Nothing ELSE Printed(0, offset, n)

(* A digest is printed if it is inside the response.                        *)
LEMMA DigestPrinted ==
  ASSUME NEW size \in Nat, NEW buf \in [0 .. size - 1 -> 0..255], NEW offset \in {12, 16}, offset < size
  PROVE  HashPrinted(buf, size, offset)
<1> DEFINE n == buf[offset - 2] * 256 + buf[offset - 1]
           len == buf_to_uint64(buf, offset - 2, 2, size)
<1>1. offset - 2 \in Nat /\ (offset - 2) + 1 = offset - 1
      /\ buf[offset - 2] \in 0..255 /\ buf[offset - 1] \in 0..255
  <2>1. offset - 2 \in Nat /\ (offset - 2) + 1 = offset - 1
    OBVIOUS
  <2>2. offset - 2 \in 0 .. size - 1 /\ offset - 1 \in 0 .. size - 1
    OBVIOUS
  <2>3. QED
    BY <2>1, <2>2
<1>2. BytesToInt(buf, offset - 2, 2) = n
  <2>1. PICK o \in Nat : o = offset - 2
    BY <1>1
  <2>2. o + 1 = offset - 1 /\ buf[o] \in 0..255 /\ buf[o + 1] \in 0..255
    BY <1>1, <2>1
  <2>3. BytesToInt(buf, o, 2) = buf[o] * 256 + buf[o + 1]
    BY <2>2, TwoBytes, Zenon
  <2>4. QED
    BY <2>1, <2>2, <2>3
<1>3. ~ RefusesBytes(offset - 2, 2, size)
  BY DEF RefusesBytes
<1>4. len = [ret |-> 0, value |-> n]
  BY <1>2, <1>3, Zenon DEF buf_to_uint64
<1>5. len.ret = 0 /\ len.value = n
  BY <1>4
<1> HIDE DEF len
<1>6. print_hash(buf, size, offset) = IF n > size - offset THEN Nothing ELSE Printed(0, offset, n)
  BY <1>5, Zenon DEF print_hash, RefusesDigest, len
<1>7. n \in Nat
  <2>1. \A x, y \in 0..255 : x * 256 + y \in Nat
    OBVIOUS
  <2>2. QED
    BY <1>1, <2>1
<1>8. QED
  BY <1>6, <1>7, Zenon DEF HashPrinted

LEMMA PrintedIs ==
  /\ \A ret, from, n : Printed(ret, from, n).ret = ret /\ Printed(ret, from, n).bytes = from .. from + n - 1
  /\ Nothing.bytes = {}
  BY DEF Printed, Nothing

(* Where the printers begin, and in which form they print.                  *)
LEMMA FormIs ==
  /\ \A opt \in {"a", "A"} : PrintForm(opt).offset = 16 /\ PrintForm(opt).format = PRINT_RESPONSE_HASH
  /\ \A opt \in {"s", "S"} : PrintForm(opt).offset = 12 /\ PrintForm(opt).format = PRINT_RESPONSE_HASH
  /\ \A opt \in {"b", "e", "E"} : PrintForm(opt).offset = 0 /\ PrintForm(opt).format = PRINT_RESPONSE_HEADERBLOCKS
  /\ PrintForm("G").offset = 12 /\ PrintForm("G").format = PRINT_RESPONSE_HEX_BLOCK
  /\ \A opt \in {"r", "R"} : PrintForm(opt).offset = 30 /\ PrintForm(opt).format = PRINT_RESPONSE_CLEAR
  /\ PrintForm("T").offset = 12 /\ PrintForm("T").format = PRINT_RESPONSE_CLEAR
  BY DEF PrintForm

LEMMA PayloadIs ==
  ASSUME NEW size
  PROVE  /\ \A opt \in {"a", "A"} : Payload(opt, size) = 16 .. 15 + DigestBytes(opt)
         /\ \A opt \in {"s", "S"} : Payload(opt, size) = 12 .. 11 + DigestBytes(opt)
         /\ \A opt \in {"r", "R"} : Payload(opt, size) = 30 .. 29 + DigestBytes(opt)
         /\ \A opt \in {"G", "T"} : Payload(opt, size) = 12 .. size - 1
         /\ \A opt \in {"b", "e", "E"} : Payload(opt, size) = 0 .. size - 1
  BY DEF Payload

LEMMA ResponsePrinted ==
  ASSUME NEW opt \in PrintedOptions, NEW size \in Nat, NEW buf \in [0 .. size - 1 -> 0..255],
         NEW genuine \in BOOLEAN, genuine => GenuineAnswer(opt, buf, size)
  PROVE  PayloadPrinted(opt, buf, size, genuine)
<1> DEFINE offset == PrintForm(opt).offset
           format == PrintForm(opt).format
           D == DigestBytes(opt)
           P == Payload(opt, size)
           out == response_print(opt, buf, size)
           Good == (\A i \in out.bytes : i < size) /\ (genuine => out.ret = 0 /\ out.bytes = P)
           refused == size = 0 \/ size > RespMax \/ size <= offset
<1> HIDE DEF offset, format, D, P, out, Good, refused
<1>1. offset \in {0, 12, 16, 30} /\ D \in {20, 32}
  BY FormIs DEF PrintedOptions, DigestBytes, offset, D
<1>2. genuine => /\ offset < size /\ 10 <= size /\ size <= RespMax
                 /\ opt \in {"a", "A", "s", "S"} =>
                      offset + D <= size /\ buf[offset - 2] = 0 /\ buf[offset - 1] = D
                 /\ opt \in {"r", "R"} => size = offset + D
  BY DEF GenuineAnswer, Header, offset, D
<1>3. genuine => ~ refused
  BY <1>1, <1>2 DEF RespMax, refused
<1>4. ASSUME refused PROVE Good
  <2>1. out = Nothing
    BY <1>4, Zenon DEF response_print, print_response_buf, out, refused, offset
  <2>2. QED
    BY <1>3, <1>4, <2>1, PrintedIs DEF Good
<1>5. ASSUME ~ refused PROVE Good
  <2>1. offset < size /\ size - offset \in Nat
    BY <1>1, <1>5 DEF refused
  <2> DEFINE rest == Printed(0, offset, size - offset)
  <2> HIDE DEF rest
  <2>2. out = CASE format \in {PRINT_RESPONSE_CLEAR, PRINT_RESPONSE_HEX_BLOCK} -> rest
                [] format = PRINT_RESPONSE_HEADERBLOCKS -> IF size < Header THEN Nothing ELSE rest
                [] format = PRINT_RESPONSE_HASH -> print_hash(buf, size, offset)
                [] OTHER -> Nothing
    BY <1>5, Zenon DEF response_print, print_response_buf, out, refused, offset, format, rest
  <2>3. /\ PRINT_RESPONSE_CLEAR = 1 /\ PRINT_RESPONSE_HEADERBLOCKS = 2
        /\ PRINT_RESPONSE_HEX_BLOCK = 3 /\ PRINT_RESPONSE_HASH = 4
    BY DEF PRINT_RESPONSE_CLEAR, PRINT_RESPONSE_HEADERBLOCKS, PRINT_RESPONSE_HEX_BLOCK, PRINT_RESPONSE_HASH
  <2>4. /\ format \in {1, 3} => out = rest
        /\ format = 2 => out = IF size < 10 THEN Nothing ELSE rest
        /\ format = 4 => out = print_hash(buf, size, offset)
    BY <2>2, <2>3 DEF Header
  <2>5. rest.ret = 0 /\ rest.bytes = offset .. size - 1
    <3>1. rest.ret = 0 /\ rest.bytes = offset .. offset + (size - offset) - 1
      BY PrintedIs DEF rest
    <3>2. offset + (size - offset) - 1 = size - 1
      BY <1>1
    <3>3. QED
      BY <3>1, <3>2
  <2>6. \A i \in offset .. size - 1 : i < size
    BY <1>1
  <2>7. CASE opt \in {"G", "T", "r", "R"}
    <3>1. format \in {1, 3}
      BY <2>3, <2>7, FormIs DEF format
    <3>2. opt \in {"G", "T"} => P = offset .. size - 1
      BY FormIs, PayloadIs DEF P, offset
    <3>3. opt \in {"r", "R"} => offset = 30 /\ P = 30 .. 29 + D
      BY FormIs, PayloadIs DEF P, offset, D
    <3>4. genuine /\ opt \in {"r", "R"} => 29 + D = size - 1
      BY <1>1, <1>2, <3>3
    <3>5. genuine => P = offset .. size - 1
      BY <2>7, <3>2, <3>3, <3>4
    <3>6. QED
      BY <2>4, <2>5, <2>6, <3>1, <3>5 DEF Good
  <2>8. CASE opt \in {"b", "e", "E"}
    <3>1. format = 2 /\ P = offset .. size - 1
      BY <2>3, <2>8, FormIs, PayloadIs DEF format, offset, P
    <3>2. CASE size < 10
      BY <1>2, <2>4, <3>1, <3>2, PrintedIs DEF Good
    <3>3. CASE ~ (size < 10)
      BY <2>4, <2>5, <2>6, <3>1, <3>3 DEF Good
    <3>4. QED
      BY <3>2, <3>3
  <2>9. CASE opt \in {"a", "A", "s", "S"}
    <3>1. format = 4 /\ offset \in {12, 16} /\ P = offset .. offset + D - 1
      <4>1. format = 4 /\ offset \in {12, 16}
        BY <2>3, <2>9, FormIs DEF format, offset
      <4>2. \/ offset = 12 /\ P = 12 .. 11 + D
            \/ offset = 16 /\ P = 16 .. 15 + D
        BY <2>9, FormIs, PayloadIs DEF P, D, offset
      <4>3. 12 + D - 1 = 11 + D /\ 16 + D - 1 = 15 + D
        BY <1>1
      <4>4. QED
        BY <4>1, <4>2, <4>3
    <3>2. PICK n \in Nat : /\ n = buf[offset - 2] * 256 + buf[offset - 1]
                           /\ print_hash(buf, size, offset) = IF n > size - offset THEN Nothing ELSE Printed(0, offset, n)
      <4>1. PICK o \in {12, 16} : o = offset
        BY <3>1
      <4>2. o < size
        BY <2>1, <4>1
      <4>3. HashPrinted(buf, size, o)
        BY <4>2, DigestPrinted, Zenon
      <4>4. QED
        BY <4>1, <4>3, Zenon DEF HashPrinted
    <3>3. genuine => n = D /\ n <= size - offset
      BY <1>1, <1>2, <2>9, <3>2
    <3>4. CASE n > size - offset
      <4>1. ~ genuine
        BY <2>1, <3>3, <3>4
      <4>2. out = Nothing
        BY <2>4, <3>1, <3>2, <3>4
      <4>3. QED
        BY <4>1, <4>2, PrintedIs DEF Good
    <3>5. CASE ~ (n > size - offset)
      <4>1. out = Printed(0, offset, n)
        BY <2>4, <3>1, <3>2, <3>5
      <4>2. out.ret = 0 /\ out.bytes = offset .. offset + n - 1
        BY <4>1, PrintedIs
      <4>3. \A i \in offset .. offset + n - 1 : i < size
        BY <1>1, <2>1, <3>5
      <4>4. QED
        BY <3>1, <3>3, <4>2, <4>3 DEF Good
    <3>6. QED
      BY <3>4, <3>5
  <2>10. QED
    BY <2>7, <2>8, <2>9 DEF PrintedOptions
<1>6. Good
  BY <1>4, <1>5
<1>7. \E ret, bytes : out = [ret |-> ret, bytes |-> bytes]
  BY <1>4, <1>5 DEF response_print, print_response_buf, print_hash, Printed, Nothing, out
<1>8. genuine => out = [ret |-> 0, bytes |-> P]
  BY <1>6, <1>7 DEF Good
<1>9. QED
  BY <1>6, <1>8 DEF PayloadPrinted, Good, out, P

LEMMA TableIsShown ==
  ASSUME NEW opt \in {"g", "v"}, NEW keys \in Seq(Nat)
  PROVE  TableShown(opt, keys)
<1>1. Looks = 509 /\ FirstProperty = 19 /\ RespMax = 4096
  BY DEF Looks, Bound, FirstProperty, RespMax
<1>2. 0 \notin KnownKeys(opt)
  BY DEF KnownKeys
<1>3. ASSUME Len(keys) <= 509
      PROVE  print_capability_flags(opt, keys) = {i \in 1..Len(keys) : keys[i] \in KnownKeys(opt)}
  <2>1. \A i \in 1..509 : i <= Len(keys) <=> i \in 1..Len(keys)
    BY <1>3
  <2>2. \A i \in 1..Len(keys) : i \in 1..509
    BY <1>3
  <2>3. QED
    BY <1>1, <1>2, <2>1, <2>2 DEF print_capability_flags
<1>4. QED
  BY <1>1, <1>3 DEF TableShown

-----------------------------------------------------------------------------
(* What memtool understands                                                *)

LEMMA ArgumentIs ==
  ASSUME NEW a \in MemArguments
  PROVE  /\ a.num \in Nat /\ a.eq \in BOOLEAN /\ a.leads \in BOOLEAN
         /\ a.value = NoNumber \/ a.value \in Nat
         /\ a.leads => a.eq /\ a.num = 0
         /\ ~ a.eq => a.value = NoNumber
         /\ a.option \in {0, 8, 16, 32}
  BY DEF MemArguments

LEMMA SymbolsAre ==
  ASSUME NEW a \in MemArguments
  PROVE  LET x == Symbols(a)
         IN  /\ x \in Seq(Int) /\ Len(x) \in Nat /\ Len(x) > 0
             /\ a.leads => x[1] = -1
             /\ ~ a.leads => x[1] = a.num
             /\ ~ a.leads /\ ~ a.eq => Len(x) = 1
             /\ ~ a.leads /\ a.eq => Len(x) >= 2 /\ x[2] = -1
             /\ ~ a.leads /\ a.eq /\ a.value = NoNumber => Len(x) = 2
             /\ ~ a.leads /\ a.eq /\ a.value # NoNumber => Len(x) = 3 /\ x[3] = a.value
             /\ a.leads /\ a.value = NoNumber => Len(x) = 1
             /\ a.leads /\ a.value # NoNumber => Len(x) = 2 /\ x[2] = a.value
<1> DEFINE x == Symbols(a)
           m == -1
<1>1. /\ a.num \in Int /\ a.leads \in BOOLEAN /\ a.eq \in BOOLEAN /\ m \in Int
      /\ a.value = NoNumber \/ a.value \in Int
      /\ a.leads => a.eq
      /\ ~ a.eq => a.value = NoNumber
  BY ArgumentIs
<1>2. x = (IF a.leads THEN <<>> ELSE <<a.num>>) \o (IF a.eq THEN <<m>> ELSE <<>>)
            \o (IF a.value = NoNumber THEN <<>> ELSE <<a.value>>)
  BY Zenon DEF Symbols
<1> HIDE DEF m
<1>3. CASE ~ a.leads /\ ~ a.eq
  <2>1. x = <<a.num>> \o <<>> \o <<>>
    BY <1>1, <1>2, <1>3, Zenon
  <2> HIDE DEF x
  <2>2. x \in Seq(Int) /\ Len(x) = 1 /\ x[1] = a.num
    BY <1>1, <2>1
  <2>3. QED
    BY <1>1, <1>3, <2>2 DEF x
<1>4. CASE ~ a.leads /\ a.eq /\ a.value = NoNumber
  <2>1. x = <<a.num>> \o <<m>> \o <<>>
    BY <1>2, <1>4, Zenon
  <2> HIDE DEF x
  <2>2. x \in Seq(Int) /\ Len(x) = 2 /\ x[1] = a.num /\ x[2] = m
    BY <1>1, <2>1
  <2>3. QED
    BY <1>4, <2>2 DEF x, m
<1>5. CASE ~ a.leads /\ a.eq /\ a.value # NoNumber
  <2>1. x = <<a.num>> \o <<m>> \o <<a.value>>
    BY <1>2, <1>5, Zenon
  <2> HIDE DEF x
  <2>2. x \in Seq(Int) /\ Len(x) = 3 /\ x[1] = a.num /\ x[2] = m /\ x[3] = a.value
    BY <1>1, <1>5, <2>1
  <2>3. QED
    BY <1>5, <2>2 DEF x, m
<1>6. CASE a.leads /\ a.value = NoNumber
  <2>1. x = <<>> \o <<m>> \o <<>>
    BY <1>1, <1>2, <1>6, Zenon
  <2> HIDE DEF x
  <2>2. x \in Seq(Int) /\ Len(x) = 1 /\ x[1] = m
    BY <1>1, <2>1
  <2>3. QED
    BY <1>6, <2>2 DEF x, m
<1>7. CASE a.leads /\ a.value # NoNumber
  <2>1. x = <<>> \o <<m>> \o <<a.value>>
    BY <1>1, <1>2, <1>7, Zenon
  <2> HIDE DEF x
  <2>2. x \in Seq(Int) /\ Len(x) = 2 /\ x[1] = m /\ x[2] = a.value
    BY <1>1, <1>7, <2>1
  <2>3. QED
    BY <1>7, <2>2 DEF x, m
<1>8. QED
  BY <1>1, <1>3, <1>4, <1>5, <1>6, <1>7

LEMMA Joined ==
  ASSUME NEW x \in Seq(Int), NEW y \in Seq(Int), NEW z \in Seq(Int), NEW t, t = x \o y \o z
  PROVE  /\ t \in Seq(Int) /\ Len(t) = Len(x) + Len(y) + Len(z)
         /\ \A i \in 1 .. Len(x) : t[i] = x[i]
         /\ \A i \in 1 .. Len(y) : t[Len(x) + i] = y[i]
         /\ \A i \in 1 .. Len(z) : t[Len(x) + Len(y) + i] = z[i]
<1> DEFINE w == x \o y
<1>1. Len(x) \in Nat /\ Len(y) \in Nat /\ Len(z) \in Nat
  OBVIOUS
<1>2. /\ w \in Seq(Int) /\ Len(w) = Len(x) + Len(y)
      /\ \A i \in 1 .. Len(x) + Len(y) : w[i] = IF i <= Len(x) THEN x[i] ELSE y[i - Len(x)]
  BY ConcatProperties, Zenon
<1>3. t = w \o z
  OBVIOUS
<1> HIDE DEF w
<1>4. /\ t \in Seq(Int) /\ Len(t) = Len(w) + Len(z)
      /\ \A i \in 1 .. Len(w) + Len(z) : t[i] = IF i <= Len(w) THEN w[i] ELSE z[i - Len(w)]
  <2>1. w \in Seq(Int)
    BY <1>2
  <2>2. /\ w \o z \in Seq(Int) /\ Len(w \o z) = Len(w) + Len(z)
        /\ \A i \in 1 .. Len(w) + Len(z) : (w \o z)[i] = IF i <= Len(w) THEN w[i] ELSE z[i - Len(w)]
    BY <2>1, ConcatProperties, Zenon
  <2>3. QED
    BY <1>3, <2>2, Zenon
<1>5. ASSUME NEW i \in 1 .. Len(x) PROVE t[i] = x[i]
  <2>1. i \in 1 .. Len(x) + Len(y) /\ i \in 1 .. Len(w) + Len(z) /\ i <= Len(w) /\ i <= Len(x)
    BY <1>1, <1>2
  <2>2. QED
    BY <1>2, <1>4, <2>1
<1>6. ASSUME NEW i \in 1 .. Len(y) PROVE t[Len(x) + i] = y[i]
  <2>1. /\ Len(x) + i \in 1 .. Len(x) + Len(y) /\ Len(x) + i \in 1 .. Len(w) + Len(z) /\ Len(x) + i <= Len(w)
        /\ ~ (Len(x) + i <= Len(x)) /\ (Len(x) + i) - Len(x) = i
    BY <1>1, <1>2
  <2>2. QED
    BY <1>2, <1>4, <2>1
<1>7. ASSUME NEW i \in 1 .. Len(z) PROVE t[Len(x) + Len(y) + i] = z[i]
  <2>1. /\ Len(w) + i \in 1 .. Len(w) + Len(z) /\ ~ (Len(w) + i <= Len(w)) /\ (Len(w) + i) - Len(w) = i
    BY <1>1, <1>2
  <2>2. t[Len(w) + i] = z[i]
    BY <1>4, <2>1
  <2>3. QED
    BY <1>2, <2>2
<1>8. QED
  BY <1>1, <1>2, <1>4, <1>5, <1>6, <1>7

\* What a line that says t is about.
MeantBy(t, size) ==
  IF t = <<>> \/ t[1] \in {0, -1} THEN Usage
  ELSE IF Len(t) >= 3 /\ t[2] = -1 THEN Writes(size, t[1], t[3])
  ELSE IF Len(t) >= 2 /\ t[2] # -1 THEN Reads(size, t[1], t[2])
  ELSE Usage

LEMMA MeantCases ==
  ASSUME NEW t \in Seq(Int), NEW size, Len(t) > 0
  PROVE  /\ t[1] \in {0, -1} => MeantBy(t, size) = Usage
         /\ t[1] \notin {0, -1} /\ Len(t) >= 3 /\ t[2] = -1 => MeantBy(t, size) = Writes(size, t[1], t[3])
         /\ t[1] \notin {0, -1} /\ Len(t) >= 2 /\ t[2] # -1 => MeantBy(t, size) = Reads(size, t[1], t[2])
         /\ t[1] \notin {0, -1} /\ Len(t) = 1 => MeantBy(t, size) = Usage
         /\ t[1] \notin {0, -1} /\ Len(t) = 2 /\ t[2] = -1 => MeantBy(t, size) = Usage
<1>1. t # <<>> /\ Len(t) \in Nat
  OBVIOUS
<1>2. QED
  BY <1>1 DEF MeantBy

(* What a word of the line is: nothing if there is none.                    *)
LEMMA SaidIs ==
  ASSUME NEW s \in Seq(MemArguments), NEW k \in Nat \ {0}
  PROVE  /\ Said(s, k) \in Seq(Int) /\ Len(Said(s, k)) \in Nat
         /\ k <= Len(s) => s[k] \in MemArguments /\ Said(s, k) = Symbols(s[k])
         /\ ~ (k <= Len(s)) => Len(Said(s, k)) = 0
<1>1. CASE k <= Len(s)
  <2>1. s[k] \in MemArguments
    BY <1>1
  <2>2. Said(s, k) = Symbols(s[k])
    BY <1>1 DEF Said
  <2>3. QED
    BY <1>1, <2>1, <2>2, SymbolsAre
<1>2. CASE ~ (k <= Len(s))
  BY <1>2 DEF Said
<1>3. QED
  BY <1>1, <1>2

(* The line without its option is understood as it is meant.                *)
LEMMA AddressMeant ==
  ASSUME NEW s \in Seq(MemArguments), NEW size, OneEquals(s)
  PROVE  ParseAddress(s, size) = MeantBy(Text(s), size)
<1> DEFINE x == Said(s, 1)
           y == Said(s, 2)
           z == Said(s, 3)
           t == Text(s)
<1>1. /\ x \in Seq(Int) /\ y \in Seq(Int) /\ z \in Seq(Int)
      /\ Len(x) \in Nat /\ Len(y) \in Nat /\ Len(z) \in Nat
      /\ 1 <= Len(s) => s[1] \in MemArguments /\ x = Symbols(s[1])
      /\ 2 <= Len(s) => s[2] \in MemArguments /\ y = Symbols(s[2])
      /\ 3 <= Len(s) => s[3] \in MemArguments /\ z = Symbols(s[3])
      /\ ~ (2 <= Len(s)) => Len(y) = 0
      /\ ~ (3 <= Len(s)) => Len(z) = 0
  BY SaidIs
<1>2. t = x \o y \o z
  BY DEF Text
<1>3. /\ t \in Seq(Int) /\ Len(t) = Len(x) + Len(y) + Len(z)
      /\ \A i \in 1 .. Len(x) : t[i] = x[i]
      /\ \A i \in 1 .. Len(y) : t[Len(x) + i] = y[i]
      /\ \A i \in 1 .. Len(z) : t[Len(x) + Len(y) + i] = z[i]
  BY <1>1, <1>2, Joined
<1>4. CASE s = <<>>
  <2>1. t = <<>>
    BY <1>4 DEF Text, Said
  <2>2. QED
    BY <1>4, <2>1 DEF ParseAddress, MeantBy
<1>5. CASE s # <<>>
  <2> DEFINE a == s[1]
             b == s[2]
             c == s[3]
  <2>1. Len(s) \in Nat /\ Len(s) > 0 /\ a \in MemArguments
    BY <1>5
  <2>2. /\ x = Symbols(a) /\ (Len(s) >= 2 => b \in MemArguments /\ y = Symbols(b))
        /\ Len(s) >= 3 => c \in MemArguments /\ z = Symbols(c)
        /\ Len(s) < 2 => Len(y) = 0
        /\ Len(s) < 3 => Len(z) = 0
    BY <1>1, <2>1
  <2>3. /\ Len(s) >= 2 => ~ (a.eq /\ b.eq)
        /\ Len(s) >= 3 => ~ (b.eq /\ c.eq)
    BY <2>1 DEF OneEquals
  <2>4. ParseAddress(s, size) =
          IF a.num = 0 THEN Usage
          ELSE IF a.eq /\ a.value # NoNumber THEN Writes(size, a.num, a.value)
          ELSE IF Len(s) < 2 THEN Usage
          ELSE IF b.leads
          THEN IF b.value # NoNumber THEN Writes(size, a.num, b.value)
               ELSE IF Len(s) < 3 THEN Usage ELSE Writes(size, a.num, c.num)
          ELSE IF a.eq THEN Writes(size, a.num, b.num)
          ELSE Reads(size, a.num, b.num)
    BY <1>5, Zenon DEF ParseAddress, ValueBehind
  <2> DEFINE p == ParseAddress(s, size)
  <2>5. /\ a.num \in Nat /\ (a.leads => a.eq /\ a.num = 0) /\ (~ a.eq => a.value = NoNumber)
        /\ Len(s) >= 2 => b.num \in Nat /\ (b.leads => b.eq /\ b.num = 0) /\ (~ b.eq => b.value = NoNumber)
        /\ Len(s) >= 3 => c.num \in Nat /\ (c.leads => c.eq /\ c.num = 0)
    BY <2>1, <2>2, ArgumentIs
  <2>6. /\ Len(x) > 0 /\ (a.leads => x[1] = -1) /\ (~ a.leads => x[1] = a.num)
        /\ ~ a.leads /\ ~ a.eq => Len(x) = 1
        /\ ~ a.leads /\ a.eq => Len(x) >= 2 /\ x[2] = -1
        /\ ~ a.leads /\ a.eq /\ a.value = NoNumber => Len(x) = 2
        /\ ~ a.leads /\ a.eq /\ a.value # NoNumber => Len(x) = 3 /\ x[3] = a.value
    BY <2>1, <2>2, SymbolsAre
  <2>7. Len(s) >= 2 =>
          /\ Len(y) > 0 /\ (b.leads => y[1] = -1) /\ (~ b.leads => y[1] = b.num)
          /\ b.leads /\ b.value = NoNumber => Len(y) = 1
          /\ b.leads /\ b.value # NoNumber => Len(y) = 2 /\ y[2] = b.value
    BY <2>2, SymbolsAre
  <2>8. Len(s) >= 3 => Len(z) > 0 /\ (~ c.leads => z[1] = c.num)
    BY <2>2, SymbolsAre
  <2> HIDE DEF a, b, c, x, y, z, t, p
  <2>9. t[1] = x[1] /\ Len(t) > 0
    <3>1. 1 \in 1 .. Len(x) /\ Len(x) + Len(y) + Len(z) > 0
      BY <1>1, <2>6
    <3>2. QED
      BY <1>3, <3>1
  <2> DEFINE n == Len(x)
             k == Len(y)
             l == Len(z)
  <2>10. /\ n \in Nat /\ k \in Nat /\ l \in Nat /\ Len(t) = n + k + l
    BY <1>1, <1>3
  <2> HIDE DEF n, k, l
  <2>11. CASE a.num = 0
    <3>1. t[1] \in {0, -1}
      BY <2>6, <2>9, <2>11
    <3>2. MeantBy(t, size) = Usage
      BY <1>3, <2>9, <3>1, MeantCases
    <3>3. QED
      BY <2>4, <2>11, <3>2 DEF p, t
  <2>12. CASE a.num # 0
    <3>1. ~ a.leads /\ t[1] = a.num /\ t[1] \notin {0, -1}
      BY <2>5, <2>6, <2>9, <2>12
    <3>2. CASE a.eq /\ a.value # NoNumber
      <4>1. Len(t) >= 3 /\ t[2] = -1 /\ t[3] = a.value
        <5>1. n = 3 /\ x[2] = -1 /\ x[3] = a.value
          BY <2>6, <3>1, <3>2 DEF n
        <5>2. 2 \in 1 .. Len(x) /\ 3 \in 1 .. Len(x)
          BY <5>1 DEF n
        <5>3. t[2] = x[2] /\ t[3] = x[3]
          BY <1>3, <5>2
        <5>4. QED
          BY <2>10, <5>1, <5>3
      <4>2. MeantBy(t, size) = Writes(size, a.num, a.value)
        BY <1>3, <2>9, <3>1, <4>1, MeantCases
      <4>3. QED
        BY <2>4, <2>12, <3>2, <4>2 DEF p, t
    <3>3. CASE a.eq /\ a.value = NoNumber
      <4>1. Len(x) = 2 /\ t[2] = -1
        BY <1>1, <1>3, <2>6, <3>1, <3>3
      <4>2. CASE Len(s) < 2
        <5>1. Len(t) = 2
          BY <1>1, <1>3, <2>1, <2>2, <4>1, <4>2
        <5>2. MeantBy(t, size) = Usage
          BY <1>3, <2>9, <3>1, <4>1, <5>1, MeantCases
        <5>3. QED
          BY <2>4, <2>12, <3>3, <4>2, <5>2 DEF t
      <4>3. CASE ~ (Len(s) < 2)
        <5>1. Len(s) >= 2
          BY <2>1, <4>3
        <5>2. ~ b.leads /\ y[1] = b.num /\ Len(y) > 0
          BY <2>3, <2>5, <2>7, <3>3, <5>1
        <5>3. 1 \in 1 .. Len(y) /\ Len(x) + 1 = 3 /\ Len(t) >= 3
          <6>1. n = 2 /\ k > 0
            BY <4>1, <5>2 DEF n, k
          <6>2. 1 \in 1 .. k /\ n + 1 = 3 /\ Len(t) >= 3
            BY <2>10, <6>1
          <6>3. QED
            BY <6>2 DEF n, k
        <5>4. t[3] = b.num
          BY <1>3, <5>2, <5>3
        <5>5. MeantBy(t, size) = Writes(size, a.num, b.num)
          BY <1>3, <2>9, <3>1, <4>1, <5>3, <5>4, MeantCases
        <5>6. QED
          BY <2>4, <2>12, <3>3, <4>3, <5>2, <5>5 DEF t
      <4>4. QED
        BY <4>2, <4>3
    <3>4. CASE ~ a.eq
      <4>1. Len(x) = 1
        BY <2>6, <3>1, <3>4
      <4>2. CASE Len(s) < 2
        <5>1. Len(t) = 1
          BY <1>1, <1>3, <2>1, <2>2, <4>1, <4>2
        <5>2. MeantBy(t, size) = Usage
          BY <1>3, <2>9, <3>1, <5>1, MeantCases
        <5>3. QED
          BY <2>4, <2>12, <3>4, <4>2, <5>2 DEF t
      <4>3. CASE ~ (Len(s) < 2) /\ ~ b.leads
        <5>1. Len(s) >= 2
          BY <2>1, <4>3
        <5>2. y[1] = b.num /\ b.num # -1 /\ 1 \in 1 .. Len(y) /\ Len(x) + 1 = 2 /\ Len(t) >= 2
          <6>1. n = 1 /\ k > 0 /\ y[1] = b.num /\ b.num # -1
            BY <2>5, <2>7, <4>1, <4>3, <5>1 DEF n, k
          <6>2. 1 \in 1 .. k /\ n + 1 = 2 /\ Len(t) >= 2
            BY <2>10, <6>1
          <6>3. QED
            BY <6>1, <6>2 DEF n, k
        <5>3. t[2] = b.num
          BY <1>3, <5>2
        <5>4. MeantBy(t, size) = Reads(size, a.num, b.num)
          BY <1>3, <2>9, <3>1, <5>2, <5>3, MeantCases
        <5>5. QED
          BY <2>4, <2>12, <3>4, <4>3, <5>4 DEF t
      <4>4. CASE ~ (Len(s) < 2) /\ b.leads
        <5>1. Len(s) >= 2 /\ b.eq
          BY <2>1, <2>5, <4>4
        <5>2. y[1] = -1 /\ 1 \in 1 .. Len(y) /\ Len(x) + 1 = 2
          BY <1>1, <2>7, <4>1, <4>4, <5>1
        <5>3. t[2] = -1
          BY <1>3, <5>2
        <5>4. CASE b.value # NoNumber
          <6>1. y[2] = b.value /\ 2 \in 1 .. Len(y) /\ Len(x) + 2 = 3 /\ Len(t) >= 3
            <7>1. n = 1 /\ k = 2 /\ y[2] = b.value
              BY <2>7, <4>1, <4>4, <5>1, <5>4 DEF n, k
            <7>2. 2 \in 1 .. k /\ n + 2 = 3 /\ Len(t) >= 3
              BY <2>10, <7>1
            <7>3. QED
              BY <7>1, <7>2 DEF n, k
          <6>2. t[3] = b.value
            BY <1>3, <6>1
          <6>3. MeantBy(t, size) = Writes(size, a.num, b.value)
            BY <1>3, <2>9, <3>1, <5>3, <6>1, <6>2, MeantCases
          <6>4. QED
            BY <2>4, <2>12, <3>4, <4>4, <5>4, <6>3 DEF t
        <5>5. CASE b.value = NoNumber
          <6>1. Len(y) = 1
            BY <2>7, <4>4, <5>1, <5>5
          <6>2. CASE Len(s) < 3
            <7>1. Len(t) = 2
              BY <1>1, <1>3, <2>1, <2>2, <4>1, <6>1, <6>2
            <7>2. MeantBy(t, size) = Usage
              BY <1>3, <2>9, <3>1, <5>3, <7>1, MeantCases
            <7>3. QED
              BY <2>4, <2>12, <3>4, <4>4, <5>5, <6>2, <7>2 DEF t
          <6>3. CASE ~ (Len(s) < 3)
            <7>1. Len(s) >= 3
              BY <2>1, <6>3
            <7>2. z[1] = c.num /\ 1 \in 1 .. Len(z) /\ Len(x) + Len(y) + 1 = 3 /\ Len(t) >= 3
              <8>1. n = 1 /\ k = 1 /\ l > 0 /\ z[1] = c.num
                BY <2>3, <2>5, <2>8, <4>1, <5>1, <6>1, <7>1 DEF n, k, l
              <8>2. 1 \in 1 .. l /\ n + k + 1 = 3 /\ Len(t) >= 3
                BY <2>10, <8>1
              <8>3. QED
                BY <8>1, <8>2 DEF n, k, l
            <7>3. t[3] = c.num
              BY <1>3, <7>2
            <7>4. MeantBy(t, size) = Writes(size, a.num, c.num)
              BY <1>3, <2>9, <3>1, <5>3, <7>2, <7>3, MeantCases
            <7>5. QED
              BY <2>4, <2>12, <3>4, <4>4, <5>5, <6>3, <7>4 DEF t
          <6>4. QED
            BY <6>2, <6>3
        <5>6. QED
          BY <5>4, <5>5
      <4>5. QED
        BY <4>2, <4>3, <4>4
    <3>5. QED
      BY <3>2, <3>3, <3>4
  <2>13. QED
    BY <2>11, <2>12
<1>6. QED
  BY <1>4, <1>5

LEMMA LineMeant ==
  ASSUME NEW args \in Seq(MemArguments), args # <<>>, OneEquals(args)
  PROVE  parse_cmdline(args) = Meant(args)
<1>1. CASE args[1].option # 0
  <2> DEFINE size == args[1].option \div 8
             s == Tail(args)
  <2>1. s \in Seq(MemArguments) /\ OneEquals(s)
    <3>1. /\ s \in Seq(MemArguments) /\ Len(s) = Len(args) - 1 /\ Len(args) \in Nat
          /\ \A k \in 1 .. Len(s) : s[k] = args[k + 1]
      OBVIOUS
    <3> HIDE DEF s
    <3>2. \A k \in 1 .. Len(s) : k + 1 \in 1 .. Len(args)
      BY <3>1
    <3>3. ASSUME NEW k \in 1 .. Len(s), NEW l \in 1 .. Len(s), s[k].eq, s[l].eq PROVE k = l
      <4>1. k + 1 \in 1 .. Len(args) /\ l + 1 \in 1 .. Len(args) /\ args[k + 1].eq /\ args[l + 1].eq
        BY <3>1, <3>2, <3>3
      <4>2. k + 1 = l + 1
        BY <4>1 DEF OneEquals
      <4>3. QED
        BY <4>2
    <3>4. QED
      BY <3>1, <3>3 DEF OneEquals
  <2>2. parse_cmdline(args) = ParseAddress(s, size)
    BY <1>1, Zenon DEF parse_cmdline
  <2>3. Meant(args) = MeantBy(Text(s), size)
    BY <1>1, Zenon DEF Meant, MeantBy
  <2> HIDE DEF s, size
  <2>4. QED
    BY <2>1, <2>2, <2>3, AddressMeant
<1>2. CASE ~ (args[1].option # 0)
  <2>1. parse_cmdline(args) = ParseAddress(args, 4)
    BY <1>2, Zenon DEF parse_cmdline
  <2>2. Meant(args) = MeantBy(Text(args), 4)
    BY <1>2, Zenon DEF Meant, MeantBy
  <2>3. QED
    BY <2>1, <2>2, AddressMeant
<1>3. QED
  BY <1>1, <1>2

-----------------------------------------------------------------------------
(* What the runs check of the rest                                         *)

(* Whatever a response claims, and whatever its size, print_response_buf     *)
(* reads nothing behind it, and it prints the whole payload of every answer *)
(* the TPM may give.                                                        *)
THEOREM ResponsesPrintedWhole == Spec => []PrintedWhole
<1>1. input \in Inputs \union {NoInput} => PrintedWhole
  <2> SUFFICES ASSUME input \in Inputs, input.of = "response"
               PROVE  PayloadPrinted(input.opt, input.buf, input.size, input.genuine)
    BY DEF PrintedWhole, NoInput
  <2>1. /\ input.opt \in PrintedOptions /\ input.size \in Nat /\ input.genuine \in BOOLEAN
        /\ input.buf \in [0 .. input.size - 1 -> 0..255]
        /\ input.genuine => GenuineAnswer(input.opt, input.buf, input.size)
    BY InputAssumption
  <2>2. QED
    BY <2>1, ResponsePrinted, Zenon
<1>2. QED
  BY <1>1, InputsHold, PTL

(* print_capability_flags shows every property with a known key, however     *)
(* many the buffer holds, and no look is behind the buffer.                 *)
THEOREM TablesShownWhole == Spec => []TableWhole
<1>1. input \in Inputs \union {NoInput} => TableWhole
  <2> SUFFICES ASSUME input \in Inputs, input.of = "table" PROVE TableShown(input.opt, input.keys)
    BY DEF TableWhole, NoInput
  <2>1. input.opt \in {"g", "v"} /\ input.keys \in Seq(Nat)
    BY InputAssumption
  <2>2. QED
    BY <2>1, TableIsShown, Zenon
<1>2. QED
  BY <1>1, InputsHold, PTL

(* parse_cmdline understands every command line with at most one `=' as it   *)
(* is meant, wherever its blanks are and however long it is.                *)
THEOREM BlanksAreIgnored == Spec => []BlanksIgnored
<1>1. Init => argv \in Seq(MemArguments)
  BY MemAssumption DEF Init, MemInit
<1>2. argv \in Seq(MemArguments) /\ [Next]_vars => (argv \in Seq(MemArguments))'
  <2> SUFFICES ASSUME argv \in Seq(MemArguments), [Next]_vars PROVE argv' = argv
    OBVIOUS
  <2>1. QED
    BY Zenon DEF Next, Convert, MemNext, Parse, OpenMem, Map, Access, Fault, Unmap, vars, memVars
<1>3. argv \in Seq(MemArguments) => BlanksIgnored
  BY LineMeant DEF BlanksIgnored
<1>4. QED
  BY <1>1, <1>2, <1>3, PTL DEF Spec

=============================================================================
