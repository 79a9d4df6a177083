------------------------------ MODULE MCRx8010 ------------------------------
(* Instances of Rx8010 for TLC. *)
EXTENDS Rx8010

ColdChip == {{}, {"TEST"}}             \* no interrupt enabled, clock running
UsedChip == {{}, {"AIE", "UIE"}}       \* or an alarm left enabled by an earlier boot

TimeCalls  == {"get_time", "set_time", "vl_read", "vl_clr", "alarm_irq_enable"}
AlarmCalls == {"set_time", "read_alarm", "set_alarm", "alarm_irq_enable"}
=============================================================================
