---------------------------- MODULE BoardScripts ----------------------------
(***************************************************************************)
(* The scripts of the board: uno220gpio (Gpio), uno220uart and preinst     *)
(* (Uart), the temperature monitor in Python (PyTempMon).  They share no   *)
(* file, so that the interleavings that matter are those of calls of one   *)
(* script: in a behaviour one of the three is called, any number of times, *)
(* and the others rest.                                                    *)
(***************************************************************************)
EXTENDS Gpio, Uart, PyTempMon

VARIABLE script   \* the one that is called

vars == <<script, gpioVars, uartVars, pyVars>>

Init ==
  /\ script \in {"gpio", "uart", "python"}
  /\ GpioInit /\ UartInit /\ PyInit
  /\ script # "gpio" => exported = {} /\ held = {}
  /\ script # "uart" => config = [i2c |-> FALSE, uart |-> FALSE] /\ ~ cmdline /\ ~ getty /\ hasAll

Next ==
  \/ script = "gpio" /\ GpioNext /\ UNCHANGED <<script, uartVars, pyVars>>
  \/ script = "uart" /\ UartNext /\ UNCHANGED <<script, gpioVars, pyVars>>
  \/ script = "python" /\ PyNext /\ UNCHANGED <<script, gpioVars, uartVars>>

Spec == Init /\ [][Next]_vars

\* Every variable of the three stays in its type.
TypeOK == GpioTypeOK /\ UartTypeOK /\ PyTypeOK
=============================================================================
