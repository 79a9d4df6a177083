---------------------------- MODULE Conversions ----------------------------
(***************************************************************************)
(* What the programs compute from one input: the RTC driver from a date or *)
(* an alarm (RtcCodec), eltt2 from a response or a time (Eltt2Print),      *)
(* memtool from its command line (MemTool, which goes on by itself).       *)
(***************************************************************************)
EXTENDS RtcCodec, Eltt2Print, MemTool

CONSTANT Inputs   \* for the other two: [of: which conversion, and its arguments]

ASSUME InputAssumption ==
  \A x \in Inputs :
    /\ x.of = "date" => x.date \in Dates
    /\ x.of = "alarm" => x.alarm \in Alarms /\ x.old \in 1..31
    /\ x.of = "weekday" => x.wday \in 0..6
    /\ x.of = "response" => /\ x.opt \in PrintedOptions /\ x.size \in Nat /\ x.genuine \in BOOLEAN
                            /\ x.buf \in [0 .. x.size - 1 -> 0..255]
                            /\ x.genuine => GenuineAnswer(x.opt, x.buf, x.size)
    /\ x.of = "clock" => x.sec \in Nat
    /\ x.of = "table" => x.opt \in {"g", "v"} /\ x.keys \in Seq(Nat)

VARIABLE input

vars == <<input, memVars>>

NoInput == [of |-> "none"]

Init == input = NoInput /\ MemInit

\* In place of a run of memtool.
Convert ==
  /\ input = NoInput /\ at = "parse" /\ argv = <<>>
  /\ input' \in Inputs /\ UNCHANGED memVars

Next == Convert \/ (input = NoInput /\ MemNext /\ UNCHANGED input)

Spec == Init /\ [][Next]_vars

-----------------------------------------------------------------------------
(* Properties                                                              *)

\* A date of the chip's hundred years that rx8010_set_time wrote is the date
\* rx8010_get_time reads, and an alarm that set_alarm wrote the one read_alarm
\* reads; of the day of the week that holds until Wednesday only, and it is read
\* counted from 1.
TimesKept ==
  /\ input.of = "date" => DateKept(input.date)
  /\ input.of = "alarm" => AlarmKept(input.alarm, input.old)
  /\ input.of = "weekday" /\ input.wday <= 3 =>
       WeekdayOf(WeekdayRegister(input.wday)) = input.wday + 1

\* print_response_buf stays inside the response and prints its whole payload.
PrintedWhole ==
  input.of = "response" => PayloadPrinted(input.opt, input.buf, input.size, input.genuine)

\* print_clock_info splits any time without a loss.
ClockWhole == input.of = "clock" => ClockExact(input.sec)

\* print_capability_flags shows every property it knows, and stays inside the buffer.
TableWhole == input.of = "table" => TableShown(input.opt, input.keys)
=============================================================================
