------------------------------ MODULE RtcCodec ------------------------------
(***************************************************************************)
(* Dates and alarms in the registers of the RX8010                         *)
(* (srcs/modules/rtc/rtc-rx8010.c): what rx8010_set_time and set_alarm     *)
(* write, and what rx8010_get_time and read_alarm make of it.              *)
(***************************************************************************)
EXTENDS Naturals

\* linux/bcd.h
bin2bcd(n) == (16 * (n \div 10)) + (n % 10)
bcd2bin(b) == (b % 16) + (10 * (b \div 16))

\* linux/rtc.h, and what rtc_valid_tm leaves of it.
Dates == [sec : 0..59, min : 0..59, hour : 0..23, mday : 1..31, mon : 0..11, year : Nat]

\* The years of the chip.
RefusesYear(dt) == dt.year < 100 \/ dt.year > 199

SlipMonthFromZero(dt) ==
  [sec |-> bin2bcd(dt.sec), min |-> bin2bcd(dt.min), hour |-> bin2bcd(dt.hour),
   mday |-> bin2bcd(dt.mday), mon |-> bin2bcd(dt.mon), year |-> bin2bcd(dt.year - 100)]

\* The registers from RX8010_SEC on, but for the day of the week.
DateRegisters(dt) ==
  [sec |-> bin2bcd(dt.sec), min |-> bin2bcd(dt.min), hour |-> bin2bcd(dt.hour),
   mday |-> bin2bcd(dt.mday), mon |-> bin2bcd(dt.mon + 1), year |-> bin2bcd(dt.year - 100)]

\* & 0x7f, & 0x3f, & 0x1f: the bits the chip has.
DateOf(reg) ==
  [sec |-> bcd2bin(reg.sec % 128), min |-> bcd2bin(reg.min % 128), hour |-> bcd2bin(reg.hour % 64),
   mday |-> bcd2bin(reg.mday % 64), mon |-> bcd2bin(reg.mon % 32) - 1, year |-> bcd2bin(reg.year) + 100]

Bit(n) == 2^n

\* ffs(): the lowest bit that is set, counted from 1.
ffs(b) ==
  IF b = 0 THEN 0
  ELSE CHOOSE n \in 1..8 : (b \div Bit(n - 1)) % 2 = 1 /\ b % Bit(n - 1) = 0

WeekdayRegister(wday) == bin2bcd(Bit(wday))
WeekdayOf(reg)        == ffs(reg % 128)

-----------------------------------------------------------------------------
(* Alarms                                                                  *)

Alarms == [min : 0..59, hour : 0..23, mday : 0..31]

RX8010_ALARM_AE == 128   \* any day

\* A day that is 0 stands for every day.
AlarmRegisters(t) ==
  [min |-> bin2bcd(t.min), hour |-> bin2bcd(t.hour),
   day |-> IF bin2bcd(t.mday) = 0 THEN RX8010_ALARM_AE ELSE bin2bcd(t.mday)]

\* Is the alarm for one day of the month?
OneDay(reg) == reg.day < RX8010_ALARM_AE

\* read_alarm leaves the day its caller has if the alarm is for any day.
AlarmOf(reg, old) ==
  [min |-> bcd2bin(reg.min % 128), hour |-> bcd2bin(reg.hour % 64),
   mday |-> IF OneDay(reg) THEN bcd2bin(reg.day % 128) ELSE old]

-----------------------------------------------------------------------------
(* Properties, of one date or alarm                                        *)

DateKept(dt) == RefusesYear(dt) \/ DateOf(DateRegisters(dt)) = dt

AlarmKept(t, old) ==
  AlarmOf(AlarmRegisters(t), old) = [t EXCEPT !.mday = IF @ = 0 THEN old ELSE @]
=============================================================================
