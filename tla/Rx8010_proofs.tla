---------------------------- MODULE Rx8010_proofs ----------------------------
(* Theorems about the RX8010 driver and their proofs. *)
EXTENDS Rx8010, TLAPS

USE ConfigAssumption DEF ConfigAssumption

(* The placeholder argument is an argument. *)
LEMMA NoArgType == NoArg \in [alarm : Alarms, on : BOOLEAN] /\ NoArg.alarm \in Alarms
  BY DEF NoArg

(* The bit sets the driver combines are bits of CTRL. *)
LEMMA BitsType ==
  /\ {"STOP"} \subseteq CtrlBits /\ Enables \subseteq CtrlBits
  /\ TimerBits \subseteq CtrlBits
  BY DEF CtrlBits, Enables, TimerBits

(* Type correctness of the driver, the chip and the history variables. *)
THEOREM TypeCorrect == Spec => []TypeOK
<1>1. Init => TypeOK
  <2> SUFFICES ASSUME Init PROVE TypeOK
    OBVIOUS
  <2>1. flag \subseteq Flags /\ ctrl \subseteq CtrlBits
    BY DEF Init, Flags
  <2>2. alm \in [time : Alarms, day : Alarms, wada : BOOLEAN]
    BY NoArgType DEF Init
  <2>3. arg \in [alarm : Alarms, on : BOOLEAN]
    BY NoArgType DEF Init
  <2>4. faults \in 0..MaxFaults /\ crashes \in 0..MaxCrashes
    BY DEF Init
  <2>5. QED
    BY <2>1, <2>2, <2>3, <2>4 DEF Init, TypeOK, TypeChip, TypeDriver, TypeThreads, TypeHistory, Flags
<1>2. TypeOK /\ [Next]_vars => TypeOK'
  <2> SUFFICES ASSUME TypeOK, [Next]_vars PROVE TypeOK'
    OBVIOUS
  <2> USE NoArgType, BitsType DEF TypeOK, TypeChip, TypeDriver, TypeThreads, TypeHistory
  <2>1. ASSUME NEW f \in Flags, ChipRaises(f) PROVE TypeOK'
    BY <2>1 DEF ChipRaises, kernel, opsVars, irqVars, prbVars, budget
  <2>2. ASSUME NEW o \in Ops, Call(o) PROVE TypeOK'
    BY <2>2 DEF Call, Ops, Entry, chip, irqVars, prbVars, budget
  <2>3. CASE SetTimeRefused
    BY <2>3 DEF SetTimeRefused, chip, kernel, irqVars, prbVars, budget, history
  <2>4. CASE OpStep
    <3>1. CASE GetTimeFlag
      BY <3>1 DEF GetTimeFlag, Read, chip, history, Others, irqVars, prbVars, Succeeds, Fails, BusFault, Goto, Return, RefusesDate
    <3>2. CASE GetTimeDate
      BY <3>2 DEF GetTimeDate, Read, chip, history, Others, irqVars, prbVars, Succeeds, Fails, BusFault, Goto, Return
    <3>3. CASE SetTimeReadCtrl
      BY <3>3 DEF SetTimeReadCtrl, ReadCtrl, chip, history, Others, irqVars, prbVars, Succeeds, Fails, BusFault, Goto, Return
    <3>4. CASE SetTimeStop
      <4>1. TypeChip'
        BY <3>4 DEF SetTimeStop, SendCtrl, Landed, chip, history, Others, irqVars, prbVars, Succeeds, Fails, BusFault, Goto, Return
      <4>2. TypeDriver'
        BY <3>4 DEF SetTimeStop, SendCtrl, Landed, chip, history, Others, irqVars, prbVars, Succeeds, Fails, BusFault, Goto, Return
      <4>3. TypeThreads'
        BY <3>4 DEF SetTimeStop, SendCtrl, Landed, chip, history, Others, irqVars, prbVars, Succeeds, Fails, BusFault, Goto, Return
      <4>4. TypeHistory'
        BY <3>4 DEF SetTimeStop, SendCtrl, Landed, chip, history, Others, irqVars, prbVars, Succeeds, Fails, BusFault, Goto, Return
      <4>5. QED
        BY <4>1, <4>2, <4>3, <4>4
    <3>5. CASE SetTimeDate
      <4>1. TypeChip'
        BY <3>5 DEF SetTimeDate, Landed, chip, history, Others, irqVars, prbVars, Succeeds, Fails, BusFault, Goto, Return
      <4>2. TypeDriver'
        BY <3>5 DEF SetTimeDate, Landed, chip, history, Others, irqVars, prbVars, Succeeds, Fails, BusFault, Goto, Return
      <4>3. TypeThreads'
        BY <3>5 DEF SetTimeDate, Landed, chip, history, Others, irqVars, prbVars, Succeeds, Fails, BusFault, Goto, Return
      <4>4. TypeHistory'
        BY <3>5 DEF SetTimeDate, Landed, chip, history, Others, irqVars, prbVars, Succeeds, Fails, BusFault, Goto, Return
      <4>5. QED
        BY <4>1, <4>2, <4>3, <4>4
    <3>6. CASE SetTimeReadCtrl2
      BY <3>6 DEF SetTimeReadCtrl2, ReadCtrl, chip, history, Others, irqVars, prbVars, Succeeds, Fails, BusFault, Goto, Return
    <3>7. CASE SetTimeRun
      <4>1. TypeChip'
        BY <3>7 DEF SetTimeRun, SendCtrl, Landed, chip, history, Others, irqVars, prbVars, Succeeds, Fails, BusFault, Goto, Return
      <4>2. TypeDriver'
        BY <3>7 DEF SetTimeRun, SendCtrl, Landed, chip, history, Others, irqVars, prbVars, Succeeds, Fails, BusFault, Goto, Return
      <4>3. TypeThreads'
        BY <3>7 DEF SetTimeRun, SendCtrl, Landed, chip, history, Others, irqVars, prbVars, Succeeds, Fails, BusFault, Goto, Return
      <4>4. TypeHistory'
        BY <3>7 DEF SetTimeRun, SendCtrl, Landed, chip, history, Others, irqVars, prbVars, Succeeds, Fails, BusFault, Goto, Return
      <4>5. QED
        BY <4>1, <4>2, <4>3, <4>4
    <3>8. CASE SetTimeReadFlag
      BY <3>8 DEF SetTimeReadFlag, Read, chip, history, Others, irqVars, prbVars, Succeeds, Fails, BusFault, Goto, Return
    <3>9. CASE SetTimeClearVlf
      <4>1. TypeChip'
        BY <3>9 DEF SetTimeClearVlf, WriteFlag, chip, history, Others, irqVars, prbVars, Succeeds, Fails, BusFault, Goto, Return
      <4>2. TypeDriver'
        BY <3>9 DEF SetTimeClearVlf, WriteFlag, chip, history, Others, irqVars, prbVars, Succeeds, Fails, BusFault, Goto, Return
      <4>3. TypeThreads'
        BY <3>9 DEF SetTimeClearVlf, WriteFlag, chip, history, Others, irqVars, prbVars, Succeeds, Fails, BusFault, Goto, Return
      <4>4. TypeHistory'
        BY <3>9 DEF SetTimeClearVlf, WriteFlag, chip, history, Others, irqVars, prbVars, Succeeds, Fails, BusFault, Goto, Return
      <4>5. QED
        BY <4>1, <4>2, <4>3, <4>4
    <3>10. CASE ReadAlarmRegs
      BY <3>10 DEF ReadAlarmRegs, Read, chip, history, Others, irqVars, prbVars, Succeeds, Fails, BusFault, Goto, Return
    <3>11. CASE ReadAlarmFlag
      BY <3>11 DEF ReadAlarmFlag, Read, chip, history, Others, irqVars, prbVars, Succeeds, Fails, BusFault, Goto, Return, AlarmState
    <3>12. CASE SetAlarmReadFlag
      BY <3>12 DEF SetAlarmReadFlag, Read, chip, history, Others, irqVars, prbVars, Succeeds, Fails, BusFault, Goto, Return
    <3>13. CASE SetAlarmDisable
      <4>1. TypeChip'
        BY <3>13 DEF SetAlarmDisable, SendCtrl, Landed, chip, history, Others, irqVars, prbVars, Succeeds, Fails, BusFault, Goto, Return
      <4>2. TypeDriver'
        BY <3>13 DEF SetAlarmDisable, SendCtrl, Landed, chip, history, Others, irqVars, prbVars, Succeeds, Fails, BusFault, Goto, Return
      <4>3. TypeThreads'
        BY <3>13 DEF SetAlarmDisable, SendCtrl, Landed, chip, history, Others, irqVars, prbVars, Succeeds, Fails, BusFault, Goto, Return
      <4>4. TypeHistory'
        BY <3>13 DEF SetAlarmDisable, SendCtrl, Landed, chip, history, Others, irqVars, prbVars, Succeeds, Fails, BusFault, Goto, Return
      <4>5. QED
        BY <4>1, <4>2, <4>3, <4>4
    <3>14. CASE SetAlarmClear
      <4>1. TypeChip'
        BY <3>14 DEF SetAlarmClear, SendFlag, WriteFlag, chip, history, Others, irqVars, prbVars, Succeeds, Fails, BusFault, Goto, Return, ClearedAF
      <4>2. TypeDriver'
        BY <3>14 DEF SetAlarmClear, SendFlag, WriteFlag, chip, history, Others, irqVars, prbVars, Succeeds, Fails, BusFault, Goto, Return, ClearedAF
      <4>3. TypeThreads'
        BY <3>14 DEF SetAlarmClear, SendFlag, WriteFlag, chip, history, Others, irqVars, prbVars, Succeeds, Fails, BusFault, Goto, Return, ClearedAF
      <4>4. TypeHistory'
        BY <3>14 DEF SetAlarmClear, SendFlag, WriteFlag, chip, history, Others, irqVars, prbVars, Succeeds, Fails, BusFault, Goto, Return, ClearedAF
      <4>5. QED
        BY <4>1, <4>2, <4>3, <4>4
    <3>15. CASE SetAlarmTime
      BY <3>15 DEF SetAlarmTime, WriteAlarm, Landed, chip, history, Others, irqVars, prbVars, Succeeds, Fails, BusFault, Goto, Return
    <3>16. CASE SetAlarmWada
      <4>1. TypeChip'
        BY <3>16 DEF SetAlarmWada, WriteAlarm, Landed, chip, history, Others, irqVars, prbVars, Succeeds, Fails, BusFault, Goto, Return
      <4>2. TypeDriver'
        BY <3>16 DEF SetAlarmWada, WriteAlarm, Landed, chip, history, Others, irqVars, prbVars, Succeeds, Fails, BusFault, Goto, Return
      <4>3. TypeThreads'
        BY <3>16 DEF SetAlarmWada, WriteAlarm, Landed, chip, history, Others, irqVars, prbVars, Succeeds, Fails, BusFault, Goto, Return
      <4>4. TypeHistory'
        BY <3>16 DEF SetAlarmWada, WriteAlarm, Landed, chip, history, Others, irqVars, prbVars, Succeeds, Fails, BusFault, Goto, Return
      <4>5. QED
        BY <4>1, <4>2, <4>3, <4>4
    <3>17. CASE SetAlarmDay
      BY <3>17 DEF SetAlarmDay, WriteAlarm, Landed, chip, history, Others, irqVars, prbVars, Succeeds, Fails, BusFault, Goto, Return
    <3>18. CASE SetAlarmEnable
      <4>1. TypeChip'
        BY <3>18 DEF SetAlarmEnable, SendCtrl, Landed, chip, history, Others, irqVars, prbVars, Succeeds, Fails, BusFault, Goto, Return
      <4>2. TypeDriver'
        BY <3>18 DEF SetAlarmEnable, SendCtrl, Landed, chip, history, Others, irqVars, prbVars, Succeeds, Fails, BusFault, Goto, Return
      <4>3. TypeThreads'
        BY <3>18 DEF SetAlarmEnable, SendCtrl, Landed, chip, history, Others, irqVars, prbVars, Succeeds, Fails, BusFault, Goto, Return
      <4>4. TypeHistory'
        BY <3>18 DEF SetAlarmEnable, SendCtrl, Landed, chip, history, Others, irqVars, prbVars, Succeeds, Fails, BusFault, Goto, Return
      <4>5. QED
        BY <4>1, <4>2, <4>3, <4>4
    <3>19. CASE IrqEnableReadFlag
      BY <3>19 DEF IrqEnableReadFlag, Read, chip, history, Others, irqVars, prbVars, Succeeds, Fails, BusFault, Goto, Return
    <3>20. CASE IrqEnableClear
      <4>1. TypeChip'
        BY <3>20 DEF IrqEnableClear, SendFlag, WriteFlag, chip, history, Others, irqVars, prbVars, Succeeds, Fails, BusFault, Goto, Return, ClearedAF
      <4>2. TypeDriver'
        BY <3>20 DEF IrqEnableClear, SendFlag, WriteFlag, chip, history, Others, irqVars, prbVars, Succeeds, Fails, BusFault, Goto, Return, ClearedAF
      <4>3. TypeThreads'
        BY <3>20 DEF IrqEnableClear, SendFlag, WriteFlag, chip, history, Others, irqVars, prbVars, Succeeds, Fails, BusFault, Goto, Return, ClearedAF
      <4>4. TypeHistory'
        BY <3>20 DEF IrqEnableClear, SendFlag, WriteFlag, chip, history, Others, irqVars, prbVars, Succeeds, Fails, BusFault, Goto, Return, ClearedAF
      <4>5. QED
        BY <4>1, <4>2, <4>3, <4>4
    <3>21. CASE IrqEnableWrite
      <4>1. TypeChip'
        BY <3>21 DEF IrqEnableWrite, SendCtrl, Landed, chip, history, Others, irqVars, prbVars, Succeeds, Fails, BusFault, Goto, Return, WantedCtrl
      <4>2. TypeDriver'
        BY <3>21 DEF IrqEnableWrite, SendCtrl, Landed, chip, history, Others, irqVars, prbVars, Succeeds, Fails, BusFault, Goto, Return, WantedCtrl
      <4>3. TypeThreads'
        BY <3>21 DEF IrqEnableWrite, SendCtrl, Landed, chip, history, Others, irqVars, prbVars, Succeeds, Fails, BusFault, Goto, Return, WantedCtrl
      <4>4. TypeHistory'
        BY <3>21 DEF IrqEnableWrite, SendCtrl, Landed, chip, history, Others, irqVars, prbVars, Succeeds, Fails, BusFault, Goto, Return, WantedCtrl
      <4>5. QED
        BY <4>1, <4>2, <4>3, <4>4
    <3>22. CASE VlRead
      BY <3>22 DEF VlRead, Read, chip, history, Others, irqVars, prbVars, Succeeds, Fails, BusFault, Goto, Return
    <3>23. CASE VlClrReadFlag
      BY <3>23 DEF VlClrReadFlag, Read, chip, history, Others, irqVars, prbVars, Succeeds, Fails, BusFault, Goto, Return
    <3>24. CASE VlClrWrite
      <4>1. TypeChip'
        BY <3>24 DEF VlClrWrite, SendFlag, WriteFlag, chip, history, Others, irqVars, prbVars, Succeeds, Fails, BusFault, Goto, Return
      <4>2. TypeDriver'
        BY <3>24 DEF VlClrWrite, SendFlag, WriteFlag, chip, history, Others, irqVars, prbVars, Succeeds, Fails, BusFault, Goto, Return
      <4>3. TypeThreads'
        BY <3>24 DEF VlClrWrite, SendFlag, WriteFlag, chip, history, Others, irqVars, prbVars, Succeeds, Fails, BusFault, Goto, Return
      <4>4. TypeHistory'
        BY <3>24 DEF VlClrWrite, SendFlag, WriteFlag, chip, history, Others, irqVars, prbVars, Succeeds, Fails, BusFault, Goto, Return
      <4>5. QED
        BY <4>1, <4>2, <4>3, <4>4
    <3>q. QED
      BY <2>4, <3>1, <3>2, <3>3, <3>4, <3>5, <3>6, <3>7, <3>8, <3>9, <3>10, <3>11, <3>12, <3>13, <3>14, <3>15, <3>16, <3>17, <3>18, <3>19, <3>20, <3>21, <3>22, <3>23, <3>24 DEF OpStep
  <2>5. CASE IrqWake
    BY <2>5 DEF IrqWake, IrqFrame, opsVars, prbVars
  <2>6. CASE IrqLock
    BY <2>6 DEF IrqLock, IrqFrame, opsVars, prbVars, Registered
  <2>7. CASE IrqRead
    BY <2>7 DEF IrqRead, IrqFrame, opsVars, prbVars, IrqDone, NotOurs, Reported, BusFault
  <2>8. CASE IrqWrite
    <3>1. TypeChip'
      BY <2>8 DEF IrqWrite, IrqFrame, opsVars, prbVars, IrqDone, WriteFlag, Handled, IrqFlags, BusFault
    <3>2. TypeDriver'
      BY <2>8 DEF IrqWrite, IrqFrame, opsVars, prbVars, IrqDone, WriteFlag, Handled, IrqFlags, BusFault
    <3>3. TypeThreads'
      BY <2>8 DEF IrqWrite, IrqFrame, opsVars, prbVars, IrqDone, WriteFlag, Handled, IrqFlags, BusFault
    <3>4. TypeHistory'
      BY <2>8 DEF IrqWrite, IrqFrame, opsVars, prbVars, IrqDone, WriteFlag, Handled, IrqFlags, BusFault
    <3>5. QED
      BY <3>1, <3>2, <3>3, <3>4
  <2>9. CASE Boot
    BY <2>9 DEF Boot, ProbeFrame, ProbeFails, BusFault, irqVars, kernel
  <2>10. CASE InitReserved
    BY <2>10 DEF InitReserved, ProbeFrame, ProbeFails, BusFault, irqVars, kernel
  <2>11. CASE InitRead
    BY <2>11 DEF InitRead, ProbeFrame, ProbeFails, BusFault, irqVars, kernel, CachedCtrl
  <2>12. CASE InitClear
    <3>1. TypeChip'
      BY <2>12 DEF InitClear, ProbeFrame, ProbeFails, BusFault, irqVars, kernel, CachedCtrl, WriteFlag, Handled, IrqFlags
    <3>2. TypeDriver'
      BY <2>12 DEF InitClear, ProbeFrame, ProbeFails, BusFault, irqVars, kernel, CachedCtrl, WriteFlag, Handled, IrqFlags
    <3>3. TypeThreads'
      BY <2>12 DEF InitClear, ProbeFrame, ProbeFails, BusFault, irqVars, kernel, CachedCtrl, WriteFlag, Handled, IrqFlags
    <3>4. TypeHistory'
      BY <2>12 DEF InitClear, ProbeFrame, ProbeFails, BusFault, irqVars, kernel, CachedCtrl, WriteFlag, Handled, IrqFlags
    <3>5. QED
      BY <3>1, <3>2, <3>3, <3>4
  <2>13. CASE ProbeIrq
    <3>1. TypeChip'
      BY <2>13 DEF ProbeIrq, ProbeFrame, ProbeFails, BusFault, irqVars, kernel
    <3>2. TypeDriver'
      BY <2>13 DEF ProbeIrq, ProbeFrame, ProbeFails, BusFault, irqVars, kernel
    <3>3. TypeThreads'
      BY <2>13 DEF ProbeIrq, ProbeFrame, ProbeFails, BusFault, irqVars, kernel
    <3>4. TypeHistory'
      BY <2>13 DEF ProbeIrq, ProbeFrame, ProbeFails, BusFault, irqVars, kernel
    <3>5. QED
      BY <3>1, <3>2, <3>3, <3>4
  <2>14. CASE ProbeRegister
    <3>1. TypeChip'
      BY <2>14 DEF ProbeRegister, ProbeFrame, ProbeFails, BusFault, irqVars, kernel
    <3>2. TypeDriver'
      BY <2>14 DEF ProbeRegister, ProbeFrame, ProbeFails, BusFault, irqVars, kernel
    <3>3. TypeThreads'
      BY <2>14 DEF ProbeRegister, ProbeFrame, ProbeFails, BusFault, irqVars, kernel
    <3>4. TypeHistory'
      BY <2>14 DEF ProbeRegister, ProbeFrame, ProbeFails, BusFault, irqVars, kernel
    <3>5. QED
      BY <3>1, <3>2, <3>3, <3>4
  <2>15. CASE ProbeReturn
    BY <2>15 DEF ProbeReturn, ProbeFrame, ProbeFails, BusFault, irqVars, kernel
  <2>16. CASE Crash
    <3>1. TypeChip'
      <4>1. flag' = flag /\ ctrl' = ctrl /\ alm' = alm
        BY <2>16, Zenon DEF Crash
      <4>2. date' \in {date, "torn"}
        BY <2>16 DEF Crash, Landed
      <4>3. QED
        BY <4>1, <4>2
    <3>2. TypeDriver'
      <4>1. /\ ctrlreg' = {} /\ aie' = FALSE /\ uie' = FALSE /\ lock' = "free"
            /\ probe' = "off" /\ irqok' = FALSE /\ faults' = faults
            /\ crashes < MaxCrashes /\ crashes' = crashes + 1
        BY <2>16, Zenon DEF Crash
      <4>2. crashes' \in 0..MaxCrashes
        BY <4>1
      <4>3. faults' \in 0..MaxFaults
        BY <4>1
      <4>4. QED
        BY <4>1, <4>2, <4>3
    <3>3. TypeThreads'
      <4>1. /\ pc' = "idle" /\ img' = {} /\ arg' = NoArg /\ ret' = "none"
            /\ ipc' = "idle" /\ iimg' = {}
        BY <2>16, Zenon DEF Crash
      <4>2. QED
        BY <4>1
    <3>4. TypeHistory'
      BY <2>16 DEF Crash, Landed
    <3>5. QED
      BY <3>1, <3>2, <3>3, <3>4
  <2>17. CASE Unbound
    BY <2>17 DEF Unbound, vars, chip, kernel, opsVars, irqVars, prbVars, budget, history
  <2>18. CASE UNCHANGED vars
    BY <2>18 DEF vars, chip, kernel, opsVars, irqVars, prbVars, budget, history
  <2>q. QED
    BY <2>1, <2>2, <2>3, <2>4, <2>5, <2>6, <2>7, <2>8, <2>9, <2>10, <2>11, <2>12, <2>13, <2>14, <2>15, <2>16, <2>17, <2>18 DEF Next, ProbeStep
<1>3. QED
  BY <1>1, <1>2, PTL DEF Spec
-----------------------------------------------------------------------------
(* The inductive invariant behind the safety theorems.                     *)

Cached == probe \in {"irq", "reg", "ret", "up"}

(* A callback or a handler past its mutex_lock owns ops_lock, and callbacks *)
(* run only on a registered device.                                         *)
LockInv ==
  /\ pc # "idle" => lock = "ops" /\ Registered
  /\ ipc \in {"read", "write"} => lock = "irq"

(* Why a torn date stays frozen: STOP is in CTRL and in the cache, which is *)
(* what the other callbacks write back, from before the date is written     *)
(* until a whole date has been written.                                     *)
FrozenInv ==
  /\ TornDateFrozen
  /\ date = "torn" /\ Cached => "STOP" \in ctrlreg
  /\ pc \in {"st_stop", "st_date"} => "STOP" \in ctrlreg
  /\ pc = "st_date" => "STOP" \in ctrl
  /\ pc \in {"st_ctrl2", "st_run"} => date # "torn"

(* Why a lost date is not handed out: get_time has seen VLF clear, set_time *)
(* has just written a date, or the stop is one of the excused.              *)
LostInv ==
  /\ LostDateFlagged
  /\ pc \in {"st_ctrl2", "st_run", "st_flag", "st_vlf"} => date # "lost" \/ excused
  /\ pc = "gt_date" /\ date = "lost" => "VLF" \in wiped \/ excused

(* The cache differs from CTRL only between set_time's read of CTRL and its *)
(* write.                                                                   *)
CacheInv ==
  Cached => \/ ctrlreg \ {"TEST"} = ctrl \ {"TEST"}
            \/ dirty
            \/ pc \in {"st_stop", "st_run"}

(* What set_alarm has done of its request so far.                           *)
ArmInv ==
  /\ pc \in {"sa_time", "sa_wada", "sa_day", "sa_on"} => ~ stale
  /\ pc \in {"sa_wada", "sa_day", "sa_on"} => alm.time = arg.alarm
  /\ pc \in {"sa_day", "sa_on"} => alm.wada
  /\ pc = "sa_on" => alm.day = arg.alarm

(* The handler's write of FLAG clears only what is still set and has been   *)
(* reported.                                                                *)
HandlerInv ==
  /\ ipc \in {"read", "write"} => Registered
  /\ ipc = "write" => iimg \subseteq flag /\ unseen \intersect iimg \intersect IrqFlags = {}

IInv == LockInv /\ FrozenInv /\ LostInv /\ CacheInv /\ NoSilentLoss /\ ArmInv /\ HandlerInv

(* It holds before the first boot ...                                      *)
LEMMA IInvInit == Init => IInv
  BY DEF Init, IInv, LockInv, FrozenInv, LostInv, CacheInv, NoSilentLoss, ArmInv, HandlerInv,
         TornDateFrozen, LostDateFlagged, Cached, Registered

(* ... and every step of the chip, a handler, the probe or a crash keeps it. *)
LEMMA IInvStep == TypeOK /\ IInv /\ [Next]_vars => IInv'
<1> SUFFICES ASSUME TypeOK, IInv, [Next]_vars PROVE IInv'
  OBVIOUS
<1> USE DEF IInv, LockInv, FrozenInv, LostInv, CacheInv, NoSilentLoss, ArmInv, HandlerInv,
            TornDateFrozen, LostDateFlagged, Cached, Registered
<1>1. ASSUME NEW f \in Flags, ChipRaises(f) PROVE IInv'
  BY <1>1 DEF ChipRaises, kernel, opsVars, irqVars, prbVars, budget
<1>2. ASSUME NEW o \in Ops, Call(o) PROVE IInv'
  BY <1>2 DEF Call, Ops, Entry, chip, irqVars, prbVars, budget
<1>3. CASE SetTimeRefused
  BY <1>3 DEF SetTimeRefused, chip, kernel, irqVars, prbVars, budget, history
<1>4. CASE OpStep
  <2>1. CASE GetTimeFlag
    BY <2>1 DEF GetTimeFlag, Read, chip, history, Others, irqVars, prbVars, Succeeds, Fails, BusFault, Goto, Return, RefusesDate
  <2>2. CASE GetTimeDate
    BY <2>2 DEF GetTimeDate, Read, chip, history, Others, irqVars, prbVars, Succeeds, Fails, BusFault, Goto, Return
  <2>3. CASE SetTimeReadCtrl
    BY <2>3 DEF SetTimeReadCtrl, ReadCtrl, chip, history, Others, irqVars, prbVars, Succeeds, Fails, BusFault, Goto, Return
  <2>4. CASE SetTimeStop
    BY <2>4 DEF SetTimeStop, SendCtrl, Landed, chip, history, Others, irqVars, prbVars, Succeeds, Fails, BusFault, Goto, Return
  <2>5. CASE SetTimeDate
    BY <2>5 DEF SetTimeDate, Landed, chip, history, Others, irqVars, prbVars, Succeeds, Fails, BusFault, Goto, Return
  <2>6. CASE SetTimeReadCtrl2
    BY <2>6 DEF SetTimeReadCtrl2, ReadCtrl, chip, history, Others, irqVars, prbVars, Succeeds, Fails, BusFault, Goto, Return
  <2>7. CASE SetTimeRun
    BY <2>7 DEF SetTimeRun, SendCtrl, Landed, chip, history, Others, irqVars, prbVars, Succeeds, Fails, BusFault, Goto, Return
  <2>8. CASE SetTimeReadFlag
    BY <2>8 DEF SetTimeReadFlag, Read, chip, history, Others, irqVars, prbVars, Succeeds, Fails, BusFault, Goto, Return
  <2>9. CASE SetTimeClearVlf
    BY <2>9 DEF SetTimeClearVlf, WriteFlag, chip, history, Others, irqVars, prbVars, Succeeds, Fails, BusFault, Goto, Return
  <2>10. CASE ReadAlarmRegs
    BY <2>10 DEF ReadAlarmRegs, Read, chip, history, Others, irqVars, prbVars, Succeeds, Fails, BusFault, Goto, Return
  <2>11. CASE ReadAlarmFlag
    BY <2>11 DEF ReadAlarmFlag, Read, chip, history, Others, irqVars, prbVars, Succeeds, Fails, BusFault, Goto, Return
  <2>12. CASE SetAlarmReadFlag
    BY <2>12 DEF SetAlarmReadFlag, Read, chip, history, Others, irqVars, prbVars, Succeeds, Fails, BusFault, Goto, Return
  <2>13. CASE SetAlarmDisable
    BY <2>13 DEF SetAlarmDisable, SendCtrl, Landed, chip, history, Others, irqVars, prbVars, Succeeds, Fails, BusFault, Goto, Return, Enables
  <2>14. CASE SetAlarmClear
    BY <2>14 DEF SetAlarmClear, SendFlag, WriteFlag, chip, history, Others, irqVars, prbVars, Succeeds, Fails, BusFault, Goto, Return, ClearedAF
  <2>15. CASE SetAlarmTime
    BY <2>15 DEF SetAlarmTime, WriteAlarm, TypeOK, TypeChip, TypeThreads, Landed, chip, history, Others, irqVars, prbVars, Succeeds, Fails, BusFault, Goto, Return
  <2>16. CASE SetAlarmWada
    BY <2>16 DEF SetAlarmWada, WriteAlarm, TypeOK, TypeChip, TypeThreads, Landed, chip, history, Others, irqVars, prbVars, Succeeds, Fails, BusFault, Goto, Return
  <2>17. CASE SetAlarmDay
    BY <2>17 DEF SetAlarmDay, WriteAlarm, TypeOK, TypeChip, TypeThreads, Landed, chip, history, Others, irqVars, prbVars, Succeeds, Fails, BusFault, Goto, Return
  <2>18. CASE SetAlarmEnable
    BY <2>18 DEF SetAlarmEnable, SendCtrl, Landed, chip, history, Others, irqVars, prbVars, Succeeds, Fails, BusFault, Goto, Return
  <2>19. CASE IrqEnableReadFlag
    BY <2>19 DEF IrqEnableReadFlag, Read, chip, history, Others, irqVars, prbVars, Succeeds, Fails, BusFault, Goto, Return
  <2>20. CASE IrqEnableClear
    BY <2>20 DEF IrqEnableClear, SendFlag, WriteFlag, chip, history, Others, irqVars, prbVars, Succeeds, Fails, BusFault, Goto, Return, ClearedAF
  <2>21. CASE IrqEnableWrite
    BY <2>21 DEF IrqEnableWrite, SendCtrl, Landed, chip, history, Others, irqVars, prbVars, Succeeds, Fails, BusFault, Goto, Return, WantedCtrl
  <2>22. CASE VlRead
    BY <2>22 DEF VlRead, Read, chip, history, Others, irqVars, prbVars, Succeeds, Fails, BusFault, Goto, Return
  <2>23. CASE VlClrReadFlag
    BY <2>23 DEF VlClrReadFlag, Read, chip, history, Others, irqVars, prbVars, Succeeds, Fails, BusFault, Goto, Return
  <2>24. CASE VlClrWrite
    BY <2>24 DEF VlClrWrite, SendFlag, WriteFlag, chip, history, Others, irqVars, prbVars, Succeeds, Fails, BusFault, Goto, Return
  <2>q. QED
    BY <1>4, <2>1, <2>2, <2>3, <2>4, <2>5, <2>6, <2>7, <2>8, <2>9, <2>10, <2>11, <2>12, <2>13, <2>14, <2>15, <2>16, <2>17, <2>18, <2>19, <2>20, <2>21, <2>22, <2>23, <2>24 DEF OpStep
<1>5. CASE IrqWake
  BY <1>5 DEF IrqWake, IrqFrame, opsVars, prbVars
<1>6. CASE IrqLock
  BY <1>6 DEF IrqLock, IrqFrame, opsVars, prbVars
<1>7. CASE IrqRead
  BY <1>7 DEF IrqRead, IrqFrame, opsVars, prbVars, IrqDone, NotOurs, Reported, IrqFlags, BusFault
<1>8. CASE IrqWrite
  BY <1>8 DEF IrqWrite, IrqFrame, opsVars, prbVars, IrqDone, WriteFlag, Handled, IrqFlags, BusFault
<1>9. CASE Boot
  BY <1>9 DEF Boot, ProbeFrame, ProbeFails, BusFault, irqVars, kernel
<1>10. CASE InitReserved
  BY <1>10 DEF InitReserved, ProbeFrame, ProbeFails, BusFault, irqVars, kernel
<1>11. CASE InitRead
  BY <1>11 DEF InitRead, ProbeFrame, ProbeFails, BusFault, irqVars, kernel, CachedCtrl
<1>12. CASE InitClear
  BY <1>12 DEF InitClear, ProbeFrame, ProbeFails, BusFault, irqVars, kernel, CachedCtrl, WriteFlag, Handled, IrqFlags
<1>13. CASE ProbeIrq
  BY <1>13 DEF ProbeIrq, ProbeFrame, ProbeFails, BusFault, irqVars, kernel
<1>14. CASE ProbeRegister
  BY <1>14 DEF ProbeRegister, ProbeFrame, ProbeFails, BusFault, irqVars, kernel
<1>15. CASE ProbeReturn
  BY <1>15 DEF ProbeReturn, ProbeFrame, ProbeFails, BusFault, irqVars, kernel
<1>16. CASE Crash
  BY <1>16 DEF Crash, Landed
<1>17. CASE Unbound
  BY <1>17 DEF Unbound, vars, chip, kernel, opsVars, irqVars, prbVars, budget, history
<1>18. CASE UNCHANGED vars
  BY <1>18 DEF vars, chip, kernel, opsVars, irqVars, prbVars, budget, history
<1>q. QED
  BY <1>1, <1>2, <1>3, <1>4, <1>5, <1>6, <1>7, <1>8, <1>9, <1>10, <1>11, <1>12, <1>13, <1>14, <1>15, <1>16, <1>17, <1>18 DEF Next, ProbeStep

(* Only a callback's own steps, and a crash, move its program counter.     *)
LEMMA PcMoves ==
  ASSUME Next, pc' = "idle", pc # "idle", probe' # "off"
  PROVE  OpStep
<1>1. ASSUME NEW f \in Flags, ChipRaises(f) PROVE FALSE
  BY <1>1 DEF ChipRaises, opsVars
<1>2. ASSUME NEW o \in Ops, Call(o) PROVE FALSE
  BY <1>2 DEF Call, Entry, Ops
<1>3. CASE SetTimeRefused
  BY <1>3 DEF SetTimeRefused
<1>4. CASE IrqWake \/ IrqLock \/ IrqRead \/ IrqWrite
  BY <1>4 DEF IrqWake, IrqLock, IrqRead, IrqWrite, IrqFrame, opsVars
<1>5. CASE Boot \/ ProbeStep
  BY <1>5 DEF Boot, ProbeStep, InitReserved, InitRead, InitClear, ProbeIrq,
              ProbeRegister, ProbeReturn, ProbeFrame
<1>6. CASE Crash \/ Unbound
  BY <1>6 DEF Crash, Unbound, vars, opsVars
<1>7. QED
  BY <1>1, <1>2, <1>3, <1>4, <1>5, <1>6 DEF Next

(* The inductive invariant is an invariant of the driver and its chip.      *)
LEMMA IInvHolds == Spec => []IInv
  BY IInvInit, IInvStep, TypeCorrect, PTL DEF Spec

-----------------------------------------------------------------------------
(* The results.                                                            *)

(* A half-written date is never running: whatever fails or crashes after a *)
(* broken set_time, STOP stays set until a whole date has been written.    *)
THEOREM TornDateStaysFrozen == Spec => []TornDateFrozen
<1>1. IInv => TornDateFrozen
  BY DEF IInv, FrozenInv
<1>2. QED
  BY <1>1, IInvHolds, PTL

(* After an oscillator stop VLF, the race or RTC_VL_CLR accounts for the   *)
(* date being lost.                                                        *)
THEOREM LostDateStaysFlagged == Spec => []LostDateFlagged
<1>1. IInv => LostDateFlagged
  BY DEF IInv, LostInv
<1>2. QED
  BY <1>1, IInvHolds, PTL

(* No handler clears an event it has not read, outside the read-modify-write *)
(* window of FLAG.                                                          *)
THEOREM NoEventLostSilently == Spec => []NoSilentLoss
<1>1. IInv => NoSilentLoss
  BY DEF IInv
<1>2. QED
  BY <1>1, IInvHolds, PTL

(* Between callbacks ctrlreg mirrors CTRL unless its last write failed.    *)
THEOREM CacheStaysCoherent == Spec => []CacheCoherent
<1>1. IInv => CacheCoherent
  BY DEF IInv, CacheInv, LockInv, CacheCoherent, Cached, Registered
<1>2. QED
  BY <1>1, IInvHolds, PTL

(* A get_time that returns success has read a date that was written whole   *)
(* and not lost since, or one of exactly two others: the half-written date  *)
(* of a stopped clock, or a date lost although VLF is clear, which takes an *)
(* RTC_VL_CLR, a VLF wiped in a FLAG read-modify-write, or an oscillator    *)
(* stop under a get_time or set_time past its look at the flag.             *)
THEOREM GetTimeIsHonest == Spec => GetTimeHonest
<1>1. TypeOK /\ IInv /\ [Next]_vars =>
        [Returns("gt_date", "ok") =>
           /\ date = "torn" => "STOP" \in ctrl
           /\ date = "lost" => excused \/ "VLF" \in wiped]_vars
  BY DEF IInv, FrozenInv, LostInv, TornDateFrozen, Returns
<1>2. QED
  BY <1>1, IInvHolds, TypeCorrect, PTL DEF Spec, GetTimeHonest

(* A set_alarm that succeeds has programmed and enabled exactly the alarm it *)
(* was asked for, and left no older alarm event behind.                      *)
THEOREM SetAlarmIsArmed == Spec => SetAlarmArmed
<1>1. TypeOK /\ IInv /\ [Next]_vars =>
        [Returns("sa_on", "ok") =>
           /\ ~ stale' /\ TimerBits \subseteq ctrl'
           /\ alm' = [time |-> arg.alarm, day |-> arg.alarm, wada |-> TRUE]]_vars
  <2> SUFFICES ASSUME TypeOK, IInv, Next, Returns("sa_on", "ok")
               PROVE  /\ ~ stale' /\ TimerBits \subseteq ctrl'
                      /\ alm' = [time |-> arg.alarm, day |-> arg.alarm, wada |-> TRUE]
    OBVIOUS
  <2>1. OpStep
    BY PcMoves DEF Returns
  <2>2. SetAlarmEnable
    BY <2>1 DEF OpStep, Returns, GetTimeFlag, GetTimeDate, SetTimeReadCtrl, SetTimeStop, SetTimeDate,
           SetTimeReadCtrl2, SetTimeRun, SetTimeReadFlag, SetTimeClearVlf,
           ReadAlarmRegs, ReadAlarmFlag, SetAlarmReadFlag, SetAlarmDisable,
           SetAlarmClear, SetAlarmTime, SetAlarmWada, SetAlarmDay,
           IrqEnableReadFlag, IrqEnableClear, IrqEnableWrite, VlRead,
           VlClrReadFlag, VlClrWrite
  <2>3. ~ stale' /\ TimerBits \subseteq ctrl'
    BY <2>2 DEF Returns, SetAlarmEnable, SendCtrl, Succeeds, Fails, Return, IInv, ArmInv
  <2>4. alm' = alm
    BY <2>2 DEF SetAlarmEnable, SendCtrl
  <2>5. alm = [time |-> arg.alarm, day |-> arg.alarm, wada |-> TRUE]
    BY DEF Returns, TypeOK, TypeChip, IInv, ArmInv
  <2>6. QED
    BY <2>3, <2>4, <2>5
<1>2. QED
  BY <1>1, IInvHolds, TypeCorrect, PTL DEF Spec, SetAlarmArmed

(* What the driver concludes from its cached CTRL is true of the chip, even *)
(* when it skips the write because nothing seems to change - unless the     *)
(* last write of CTRL failed.                                               *)
THEOREM CachedAnswersAreTrue == Spec => CachedAnswersTrue
<1> DEFINE Enabled == Returns("ae_af", "ok") \/ Returns("ae_ctrl", "ok")
           Read_   == Returns("ra_flag", "armed") \/ Returns("ra_flag", "pending")
<1>1. ASSUME TypeOK, IInv, Next, Enabled, arg.on
      PROVE  TimerBits \subseteq ctrl' \/ dirty'
  <2>1. OpStep
    BY <1>1, PcMoves DEF Returns
  <2>2. IrqEnableClear \/ IrqEnableWrite
    BY <1>1, <2>1 DEF OpStep, Returns, GetTimeFlag, GetTimeDate, SetTimeReadCtrl, SetTimeStop,
           SetTimeDate, SetTimeReadCtrl2, SetTimeRun, SetTimeReadFlag,
           SetTimeClearVlf, ReadAlarmRegs, ReadAlarmFlag, SetAlarmReadFlag,
           SetAlarmDisable, SetAlarmClear, SetAlarmTime, SetAlarmWada,
           SetAlarmDay, SetAlarmEnable, IrqEnableReadFlag, VlRead,
           VlClrReadFlag, VlClrWrite
  <2>3. "TEST" \notin TimerBits
    BY DEF TimerBits, Enables
  <2>4. CASE IrqEnableWrite
    BY <1>1, <2>4 DEF Returns, IrqEnableWrite, SendCtrl, Succeeds, Fails, Return, WantedCtrl
  <2>5. CASE IrqEnableClear
    <3>1. WantedCtrl = ctrlreg /\ ctrl' = ctrl /\ dirty' = dirty
      BY <1>1, <2>5 DEF Returns, IrqEnableClear, SendFlag, Succeeds, Fails, Return, Goto
    <3>2. TimerBits \subseteq ctrlreg
      BY <1>1, <3>1 DEF WantedCtrl
    <3>3. ctrlreg \ {"TEST"} = ctrl \ {"TEST"} \/ dirty
      BY <1>1, <2>5 DEF IInv, LockInv, CacheInv, Cached, Registered, IrqEnableClear
    <3>4. QED
      BY <2>3, <3>1, <3>2, <3>3
  <2>6. QED
    BY <2>2, <2>4, <2>5
<1>2. ASSUME TypeOK, IInv, Next, Read_
      PROVE  "AIE" \in ctrl \/ dirty
  <2>1. OpStep
    BY <1>2, PcMoves DEF Returns
  <2>2. ReadAlarmFlag
    BY <1>2, <2>1 DEF OpStep, Returns, GetTimeFlag, GetTimeDate, SetTimeReadCtrl, SetTimeStop,
           SetTimeDate, SetTimeReadCtrl2, SetTimeRun, SetTimeReadFlag,
           SetTimeClearVlf, ReadAlarmRegs, SetAlarmReadFlag,
           SetAlarmDisable, SetAlarmClear, SetAlarmTime, SetAlarmWada,
           SetAlarmDay, SetAlarmEnable, IrqEnableReadFlag, IrqEnableClear,
           IrqEnableWrite, VlRead, VlClrReadFlag, VlClrWrite
  <2>3. "AIE" \in ctrlreg
    BY <1>2, <2>2 DEF Returns, ReadAlarmFlag, Read, Succeeds, Fails, Return, AlarmState
  <2>4. ctrlreg \ {"TEST"} = ctrl \ {"TEST"} \/ dirty
    BY <1>2, <2>2 DEF IInv, LockInv, CacheInv, Cached, Registered, ReadAlarmFlag
  <2>5. QED
    BY <2>3, <2>4
<1>3. TypeOK /\ IInv /\ [Next]_vars =>
        [/\ (Returns("ae_af", "ok") \/ Returns("ae_ctrl", "ok")) /\ arg.on
              => TimerBits \subseteq ctrl' \/ dirty'
         /\ Returns("ra_flag", "armed") \/ Returns("ra_flag", "pending")
              => "AIE" \in ctrl \/ dirty]_vars
  BY <1>1, <1>2
<1>4. QED
  BY <1>3, IInvHolds, TypeCorrect, PTL DEF Spec, CachedAnswersTrue

-----------------------------------------------------------------------------
(* The driver and its chip implement the clock of RtcClock.                *)

(* What the abstract clock sees of the warnings.                            *)
Told == ~ ("VLF" \in flag \union wiped \/ excused)

(* A step that leaves CTRL, the date and the warnings alone is a stutter.   *)
LEMMA Stutter ==
  ASSUME UNCHANGED <<date, ctrl>>, Told' = Told
  PROVE  [Clock!Next]_(Clock!vars)
  BY DEF Told, Clock!vars

(* So is one that touches nothing the clock is made of.                     *)
LEMMA Elsewhere ==
  ASSUME UNCHANGED <<date, ctrl, flag, wiped, excused>>
  PROVE  [Clock!Next]_(Clock!vars)
  BY DEF Clock!vars

(* A write of CTRL halts the clock or starts it.                            *)
LEMMA CtrlWrite ==
  ASSUME UNCHANGED <<date, flag, wiped, excused>>,
         "STOP" \in ctrl' \/ date # "torn"
  PROVE  [Clock!Next]_(Clock!vars)
  BY DEF Clock!Next, Clock!Halt, Clock!Run

(* A FLAG write that clears no VLF it has read leaves the warnings alone.   *)
LEMMA FlagWrite ==
  ASSUME TypeOK, NEW i \in SUBSET Flags, NEW w \in SUBSET i, NEW ack \in SUBSET IrqFlags,
         WriteFlag(w, i, ack), "VLF" \in i => "VLF" \in w, UNCHANGED excused
  PROVE  Told' = Told
  BY DEF WriteFlag, Told, IrqFlags, Flags, TypeOK, TypeHistory

(* Every step of the driver, the chip or a crash is a step of the clock.    *)
LEMMA ClockStep == TypeOK /\ IInv /\ [Next]_vars => [Clock!Next]_(Clock!vars)
<1> SUFFICES ASSUME TypeOK, IInv, [Next]_vars PROVE [Clock!Next]_(Clock!vars)
  OBVIOUS
<1>1. ASSUME NEW f \in Flags, ChipRaises(f) PROVE [Clock!Next]_(Clock!vars)
  <2>1. CASE f = "VLF"
    BY <1>1, <2>1 DEF ChipRaises, Clock!Next, Clock!Lose
  <2>2. CASE f # "VLF"
    <3>1. UNCHANGED <<date, ctrl>> /\ Told' = Told
      BY <1>1, <2>2 DEF ChipRaises, Told
    <3>2. QED
      BY <3>1, Stutter
  <2>3. QED
    BY <2>1, <2>2
<1>2. ASSUME NEW o \in Ops, Call(o) PROVE [Clock!Next]_(Clock!vars)
  BY <1>2, Elsewhere DEF Call, chip
<1>3. CASE SetTimeRefused \/ Unbound \/ UNCHANGED vars
  BY <1>3, Elsewhere DEF SetTimeRefused, Unbound, vars, chip, history
<1>4. CASE OpStep
  <2>1. CASE \/ GetTimeFlag \/ GetTimeDate \/ SetTimeReadFlag \/ ReadAlarmRegs \/ ReadAlarmFlag
             \/ SetAlarmReadFlag \/ IrqEnableReadFlag \/ VlRead \/ VlClrReadFlag
    <3>1. UNCHANGED <<chip, history>>
      BY <2>1 DEF GetTimeFlag, GetTimeDate, SetTimeReadFlag, ReadAlarmRegs, ReadAlarmFlag,
                  SetAlarmReadFlag, IrqEnableReadFlag, VlRead, VlClrReadFlag, Read
    <3>2. QED
      BY <3>1, Elsewhere DEF chip, history
  <2>2. CASE SetTimeReadCtrl \/ SetTimeReadCtrl2
    BY <2>2, Elsewhere DEF SetTimeReadCtrl, SetTimeReadCtrl2, ReadCtrl, chip, history
  <2>3. CASE SetAlarmTime \/ SetAlarmWada \/ SetAlarmDay
    BY <2>3, Elsewhere DEF SetAlarmTime, SetAlarmWada, SetAlarmDay, WriteAlarm, history
  <2>4. CASE SetTimeStop
    BY <2>4, CtrlWrite DEF SetTimeStop, SendCtrl, Landed, IInv, FrozenInv, TornDateFrozen
  <2>5. CASE SetTimeRun
    BY <2>5, CtrlWrite DEF SetTimeRun, SendCtrl, IInv, FrozenInv
  <2>6. CASE SetAlarmDisable \/ SetAlarmEnable \/ IrqEnableWrite
    <3>1. pc # "idle"
      BY <2>6 DEF SetAlarmDisable, SetAlarmEnable, IrqEnableWrite
    <3>2. date = "torn" => "STOP" \in ctrl /\ "STOP" \in ctrlreg
      BY <3>1 DEF IInv, LockInv, FrozenInv, TornDateFrozen, Cached, Registered
    <3>3. "STOP" \in ctrlreg => "STOP" \in ctrlreg \ Enables /\ "STOP" \in WantedCtrl
      BY DEF Enables, WantedCtrl
    <3>4. QED
      BY <2>6, <3>2, <3>3, CtrlWrite DEF SetAlarmDisable, SetAlarmEnable, IrqEnableWrite, SendCtrl, Landed
  <2>7. CASE SetTimeDate
    <3>1. "STOP" \in ctrl
      BY <2>7 DEF SetTimeDate, IInv, FrozenInv
    <3>2. CASE date' = "set" /\ excused' = FALSE /\ wiped' = wiped \ {"VLF"}
      BY <2>7, <3>1, <3>2 DEF SetTimeDate, Clock!Next, Clock!SetDate
    <3>3. CASE date' \in {date, "torn"} /\ UNCHANGED <<excused, wiped>>
      BY <2>7, <3>1, <3>3, Elsewhere DEF SetTimeDate, Clock!Next, Clock!Tear
    <3>4. QED
      BY <2>7, <3>2, <3>3 DEF SetTimeDate, Landed
  <2>8. CASE SetAlarmClear \/ IrqEnableClear
    <3>1. UNCHANGED <<ctrl, date, excused>>
      BY <2>8 DEF SetAlarmClear, IrqEnableClear, SendFlag
    <3>2. WriteFlag(ClearedAF(img), img, {"AF"}) \/ UNCHANGED <<flag, wiped>>
      BY <2>8 DEF SetAlarmClear, IrqEnableClear, SendFlag
    <3>3. img \in SUBSET Flags /\ ClearedAF(img) \in SUBSET img /\ {"AF"} \in SUBSET IrqFlags
          /\ ("VLF" \in img => "VLF" \in ClearedAF(img))
      BY DEF TypeOK, TypeThreads, ClearedAF, IrqFlags
    <3>4. Told' = Told
      BY <3>1, <3>2, <3>3, FlagWrite DEF Told
    <3>5. QED
      BY <3>1, <3>4, Stutter
  <2>9. CASE SetTimeClearVlf
    <3>1. UNCHANGED <<ctrl, date, excused>>
      BY <2>9 DEF SetTimeClearVlf
    <3>2. date # "lost" \/ excused
      BY <2>9 DEF SetTimeClearVlf, IInv, LostInv
    <3>3. Told => Told'
      BY <2>9 DEF SetTimeClearVlf, WriteFlag, Told
    <3>4. CASE Told' = Told
      BY <3>1, <3>4, Stutter
    <3>5. CASE Told' /\ ~ Told
      BY <3>1, <3>2, <3>5 DEF Told, Clock!Next, Clock!Trust
    <3>6. QED
      BY <3>3, <3>4, <3>5 DEF Told
  <2>10. CASE VlClrWrite
    <3>1. UNCHANGED <<ctrl, date>>
      BY <2>10 DEF VlClrWrite, SendFlag
    <3>2. Told => Told'
      BY <2>10 DEF VlClrWrite, SendFlag, WriteFlag, Told, IInv, LostInv, LostDateFlagged
    <3>3. Told' /\ ~ Told => date # "lost"
      BY <2>10 DEF VlClrWrite, SendFlag, Told, IInv, LostInv, LostDateFlagged
    <3>4. CASE Told' = Told
      BY <3>1, <3>4, Stutter
    <3>5. CASE Told' /\ ~ Told
      BY <3>1, <3>3, <3>5 DEF Told, Clock!Next, Clock!Trust
    <3>6. QED
      BY <3>2, <3>4, <3>5 DEF Told
  <2>11. QED
    BY <1>4, <2>1, <2>2, <2>3, <2>4, <2>5, <2>6, <2>7, <2>8, <2>9, <2>10 DEF OpStep
<1>5. CASE IrqWake \/ IrqLock
  BY <1>5, Elsewhere DEF IrqWake, IrqLock, IrqFrame
<1>6. CASE IrqRead
  <2>1. UNCHANGED <<ctrl, date, flag, excused>>
    BY <1>6 DEF IrqRead, IrqFrame
  <2>2. "VLF" \in wiped' <=> "VLF" \in wiped
    BY <1>6 DEF IrqRead, Reported, IrqFlags
  <2>3. QED
    BY <2>1, <2>2, Stutter DEF Told
<1>7. CASE IrqWrite \/ InitClear
  <2>1. UNCHANGED <<ctrl, date, excused>>
    BY <1>7 DEF IrqWrite, IrqFrame, InitClear, ProbeFrame
  <2>2. \/ WriteFlag(Handled(iimg), iimg, {}) \/ WriteFlag(Handled(img), img, IrqFlags)
        \/ UNCHANGED <<flag, wiped>>
    BY <1>7 DEF IrqWrite, InitClear
  <2>3. ASSUME NEW i \in SUBSET Flags
        PROVE  Handled(i) \in SUBSET i /\ ("VLF" \in i => "VLF" \in Handled(i))
    BY DEF Handled, IrqFlags
  <2>4. img \in SUBSET Flags /\ iimg \in SUBSET Flags
    BY DEF TypeOK, TypeThreads
  <2>5. Told' = Told
    BY <2>1, <2>2, <2>3, <2>4, FlagWrite DEF Told
  <2>6. QED
    BY <2>1, <2>5, Stutter
<1>8. CASE \/ Boot \/ InitReserved \/ InitRead \/ ProbeIrq \/ ProbeRegister \/ ProbeReturn
  BY <1>8, Elsewhere DEF Boot, InitReserved, InitRead, ProbeIrq, ProbeRegister, ProbeReturn, ProbeFrame
<1>9. CASE Crash
  <2>1. CASE date' = "torn" /\ pc = "st_date"
    BY <1>9, <2>1 DEF Crash, IInv, FrozenInv, Clock!Next, Clock!Tear
  <2>2. CASE date' = date
    BY <1>9, <2>2, Elsewhere DEF Crash
  <2>3. QED
    BY <1>9, <2>1, <2>2 DEF Crash, Landed
<1>10. QED
  BY <1>1, <1>2, <1>3, <1>4, <1>5, <1>6, <1>7, <1>8, <1>9 DEF Next, ProbeStep

(* The driver keeps the promise of RtcClock: it halts the clock to change the *)
(* date, starts it with a whole date only, and does not withdraw the warning  *)
(* about a lost date before another one is set.                               *)
THEOREM ImplementsClock == Spec => RefinesClock
<1>1. Init => Clock!Init
  BY DEF Init, Clock!Init
<1>2. QED
  BY <1>1, ClockStep, IInvHolds, TypeCorrect, PTL DEF Spec, RefinesClock, Clock!Spec

-----------------------------------------------------------------------------
(* What the driver does with CTRL when nothing fails: without bus errors   *)
(* and power cuts, on a chip that starts with a running clock and with no  *)
(* interrupt enabled, the clock stands still only inside set_time and no   *)
(* interrupt stays enabled that no timer wants.                            *)

Healthy == MaxFaults = 0 /\ MaxCrashes = 0 /\ PowerOnCtrl \subseteq SUBSET {"TEST"}

(* Without faults a failing branch is never taken.                          *)
LEMMA NoFault == ASSUME Healthy, TypeOK PROVE ~ BusFault /\ ~ (crashes < MaxCrashes)
  BY DEF Healthy, TypeOK, TypeDriver, BusFault

-----------------------------------------------------------------------------
(* The invariant                                                           *)

AlarmPlaces  == {"sa_flag", "sa_off", "sa_af", "sa_time", "sa_wada", "sa_day", "sa_on"}
EnablePlaces == {"ae_flag", "ae_af", "ae_ctrl"}

(* STOP goes from the cache to the chip, and leaves them the same way.      *)
StopInv ==
  /\ ClockRuns
  /\ "STOP" \in ctrlreg => pc \in {"st_stop", "st_date", "st_ctrl2"}

(* The enable bits of cache and chip are the same at any time; only the     *)
(* alarm operations of a driver with an interrupt set them; set_alarm       *)
(* clears them before it writes the alarm; and while neither it nor         *)
(* alarm_irq_enable is about to correct them, timers want those that are    *)
(* set.                                                                     *)
EnableInv ==
  /\ ctrlreg \intersect Enables = ctrl \intersect Enables
  /\ ctrl \intersect Enables # {} => Registered /\ irqok
  /\ pc \in AlarmPlaces \union EnablePlaces => irqok
  /\ pc \in EnablePlaces /\ arg.on => aie
  /\ pc \in {"sa_af", "sa_time", "sa_wada", "sa_day", "sa_on"} => ctrl \intersect Enables = {}
  /\ pc \notin {"sa_flag", "sa_off"} \union EnablePlaces =>
       /\ "AIE" \in ctrl => aie
       /\ "UIE" \in ctrl => aie \/ uie

HealthyInv == StopInv /\ EnableInv

LEMMA HealthyInit == ASSUME Healthy, Init PROVE HealthyInv
<1>1. ctrl \subseteq {"TEST"} /\ ctrlreg = {} /\ pc = "idle"
  BY DEF Healthy, Init
<1>2. QED
  BY <1>1 DEF HealthyInv, StopInv, EnableInv, ClockRuns, Enables, AlarmPlaces, EnablePlaces

(* What the invariant speaks of; a step that leaves it alone keeps it.      *)
LEMMA Untouched ==
  ASSUME HealthyInv, UNCHANGED <<ctrl, ctrlreg, pc, arg, aie, uie, irqok>>, Registered => Registered'
  PROVE  HealthyInv'
  BY DEF HealthyInv, StopInv, EnableInv, ClockRuns, Registered, Enables, AlarmPlaces, EnablePlaces

-----------------------------------------------------------------------------
(* The callbacks                                                           *)

LEMMA CallKeeps == ASSUME TypeOK, IInv, HealthyInv, NEW o \in Ops, Call(o) PROVE HealthyInv'
<1>1. pc = "idle" /\ Registered
  BY DEF Call, IInv, LockInv
<1>2. /\ UNCHANGED <<ctrl, ctrlreg, irqok, probe>> /\ pc' = Entry[o]
      /\ o \in AlarmOps => irqok
  BY DEF Call, chip, prbVars
<1>3. ~ ("STOP" \in ctrl) /\ ~ ("STOP" \in ctrlreg)
  BY <1>1 DEF HealthyInv, StopInv, ClockRuns
<1>4. StopInv'
  BY <1>2, <1>3 DEF StopInv, ClockRuns
<1>5. /\ pc' \in AlarmPlaces => o = "set_alarm" /\ pc' = "sa_flag"
      /\ pc' \in EnablePlaces => o = "alarm_irq_enable"
      /\ pc' \notin {"sa_flag", "sa_off"} \union EnablePlaces => aie' = aie /\ uie' = uie
  BY <1>2 DEF Ops, Entry, AlarmPlaces, EnablePlaces, Call
<1>6. pc' \in EnablePlaces /\ arg'.on => aie'
  BY <1>5 DEF Call
<1>7. EnableInv'
  BY <1>1, <1>2, <1>5, <1>6
     DEF HealthyInv, EnableInv, AlarmOps, Registered, AlarmPlaces, EnablePlaces
<1>8. QED
  BY <1>4, <1>7 DEF HealthyInv

(* Reads: only the place changes.                                           *)
LEMMA ReadKeeps ==
  ASSUME Healthy, TypeOK, IInv, HealthyInv,
         \/ GetTimeFlag \/ GetTimeDate \/ SetTimeReadFlag \/ ReadAlarmRegs \/ ReadAlarmFlag \/ SetAlarmReadFlag \/ IrqEnableReadFlag \/ VlRead \/ VlClrReadFlag
  PROVE  HealthyInv'
<1>1. ~ BusFault
  BY NoFault
<1>2. pc # "idle" => Registered
  BY DEF IInv, LockInv
<1> USE DEF HealthyInv, StopInv, EnableInv, ClockRuns, Registered, Enables, AlarmPlaces, EnablePlaces
<1>3. CASE GetTimeFlag
  BY <1>1, <1>2, <1>3
  DEF GetTimeFlag, Read, chip, Succeeds, Fails, Goto, Return, Others, prbVars
<1>4. CASE GetTimeDate
  BY <1>1, <1>2, <1>4
  DEF GetTimeDate, Read, chip, Succeeds, Fails, Goto, Return, Others, prbVars
<1>5. CASE SetTimeReadFlag
  BY <1>1, <1>2, <1>5
  DEF SetTimeReadFlag, Read, chip, Succeeds, Fails, Goto, Return, Others, prbVars
<1>6. CASE ReadAlarmRegs
  BY <1>1, <1>2, <1>6
  DEF ReadAlarmRegs, Read, chip, Succeeds, Fails, Goto, Return, Others, prbVars
<1>7. CASE ReadAlarmFlag
  BY <1>1, <1>2, <1>7
  DEF ReadAlarmFlag, Read, chip, Succeeds, Fails, Goto, Return, Others, prbVars
<1>8. CASE SetAlarmReadFlag
  BY <1>1, <1>2, <1>8
  DEF SetAlarmReadFlag, Read, chip, Succeeds, Fails, Goto, Return, Others, prbVars
<1>9. CASE IrqEnableReadFlag
  BY <1>1, <1>2, <1>9
  DEF IrqEnableReadFlag, Read, chip, Succeeds, Fails, Goto, Return, Others, prbVars
<1>10. CASE VlRead
  BY <1>1, <1>2, <1>10
  DEF VlRead, Read, chip, Succeeds, Fails, Goto, Return, Others, prbVars
<1>11. CASE VlClrReadFlag
  BY <1>1, <1>2, <1>11
  DEF VlClrReadFlag, Read, chip, Succeeds, Fails, Goto, Return, Others, prbVars
<1>12. QED
  BY <1>3, <1>4, <1>5, <1>6, <1>7, <1>8, <1>9, <1>10, <1>11

(* Writes of FLAG, of the date and of the alarm registers.                  *)
LEMMA FlagKeeps ==
  ASSUME Healthy, TypeOK, IInv, HealthyInv,
         \/ SetTimeDate \/ SetTimeClearVlf \/ SetAlarmClear \/ SetAlarmTime \/ SetAlarmWada \/ SetAlarmDay \/ IrqEnableClear \/ VlClrWrite
  PROVE  HealthyInv'
<1>1. ~ BusFault
  BY NoFault
<1>2. pc # "idle" => Registered
  BY DEF IInv, LockInv
<1> USE DEF HealthyInv, StopInv, EnableInv, ClockRuns, Registered, Enables, AlarmPlaces, EnablePlaces
<1>3. CASE SetTimeDate
  BY <1>1, <1>2, <1>3
  DEF SetTimeDate, SendFlag, WriteAlarm, WantedCtrl, TimerBits, Succeeds, Fails, Goto, Return, Others, prbVars
<1>4. CASE SetTimeClearVlf
  BY <1>1, <1>2, <1>4
  DEF SetTimeClearVlf, SendFlag, WriteAlarm, WantedCtrl, TimerBits, Succeeds, Fails, Goto, Return, Others, prbVars
<1>5. CASE SetAlarmClear
  BY <1>1, <1>2, <1>5
  DEF SetAlarmClear, SendFlag, WriteAlarm, WantedCtrl, TimerBits, Succeeds, Fails, Goto, Return, Others, prbVars
<1>6. CASE SetAlarmTime
  BY <1>1, <1>2, <1>6
  DEF SetAlarmTime, SendFlag, WriteAlarm, WantedCtrl, TimerBits, Succeeds, Fails, Goto, Return, Others, prbVars
<1>7. CASE SetAlarmWada
  BY <1>1, <1>2, <1>7
  DEF SetAlarmWada, SendFlag, WriteAlarm, WantedCtrl, TimerBits, Succeeds, Fails, Goto, Return, Others, prbVars
<1>8. CASE SetAlarmDay
  BY <1>1, <1>2, <1>8
  DEF SetAlarmDay, SendFlag, WriteAlarm, WantedCtrl, TimerBits, Succeeds, Fails, Goto, Return, Others, prbVars
<1>9. CASE IrqEnableClear
  BY <1>1, <1>2, <1>9
  DEF IrqEnableClear, SendFlag, WriteAlarm, WantedCtrl, TimerBits, Succeeds, Fails, Goto, Return, Others, prbVars
<1>10. CASE VlClrWrite
  BY <1>1, <1>2, <1>10
  DEF VlClrWrite, SendFlag, WriteAlarm, WantedCtrl, TimerBits, Succeeds, Fails, Goto, Return, Others, prbVars
<1>11. QED
  BY <1>3, <1>4, <1>5, <1>6, <1>7, <1>8, <1>9, <1>10

(* Reads and writes of CTRL.                                                *)
LEMMA CtrlKeeps ==
  ASSUME Healthy, TypeOK, IInv, HealthyInv,
         \/ SetTimeReadCtrl \/ SetTimeStop \/ SetTimeReadCtrl2 \/ SetTimeRun \/ SetAlarmDisable \/ SetAlarmEnable \/ IrqEnableWrite
  PROVE  HealthyInv'
<1>1. ~ BusFault
  BY NoFault
<1>2. pc # "idle" => Registered
  BY DEF IInv, LockInv
<1> USE DEF HealthyInv, StopInv, EnableInv, ClockRuns, Registered, Enables, AlarmPlaces, EnablePlaces
<1>3. CASE SetTimeReadCtrl
  BY <1>1, <1>2, <1>3
  DEF SetTimeReadCtrl, ReadCtrl, SendCtrl, chip, WantedCtrl, TimerBits, Succeeds, Fails, Goto, Return, Others, prbVars
<1>4. CASE SetTimeStop
  BY <1>1, <1>2, <1>4
  DEF SetTimeStop, ReadCtrl, SendCtrl, chip, WantedCtrl, TimerBits, Succeeds, Fails, Goto, Return, Others, prbVars
<1>5. CASE SetTimeReadCtrl2
  BY <1>1, <1>2, <1>5
  DEF SetTimeReadCtrl2, ReadCtrl, SendCtrl, chip, WantedCtrl, TimerBits, Succeeds, Fails, Goto, Return, Others, prbVars
<1>6. CASE SetTimeRun
  BY <1>1, <1>2, <1>6
  DEF SetTimeRun, ReadCtrl, SendCtrl, chip, WantedCtrl, TimerBits, Succeeds, Fails, Goto, Return, Others, prbVars
<1>7. CASE SetAlarmDisable
  BY <1>1, <1>2, <1>7
  DEF SetAlarmDisable, ReadCtrl, SendCtrl, chip, WantedCtrl, TimerBits, Succeeds, Fails, Goto, Return, Others, prbVars
<1>8. CASE SetAlarmEnable
  BY <1>1, <1>2, <1>8
  DEF SetAlarmEnable, ReadCtrl, SendCtrl, chip, WantedCtrl, TimerBits, Succeeds, Fails, Goto, Return, Others, prbVars
<1>9. CASE IrqEnableWrite
  BY <1>1, <1>2, <1>9
  DEF IrqEnableWrite, ReadCtrl, SendCtrl, chip, WantedCtrl, TimerBits, Succeeds, Fails, Goto, Return, Others, prbVars
<1>10. QED
  BY <1>3, <1>4, <1>5, <1>6, <1>7, <1>8, <1>9

-----------------------------------------------------------------------------
(* The chip, the handler and the probe                                     *)

LEMMA OthersKeep ==
  ASSUME HealthyInv, IInv,
         \/ SetTimeRefused \/ IrqWake \/ IrqLock \/ IrqRead \/ IrqWrite \/ Unbound
         \/ \E f \in Flags : ChipRaises(f)
         \/ UNCHANGED vars
  PROVE  HealthyInv'
<1>1. UNCHANGED <<ctrl, ctrlreg, pc, arg, aie, uie, irqok, probe>>
  BY DEF SetTimeRefused, IrqWake, IrqLock, IrqRead, IrqWrite, IrqFrame, Unbound, ChipRaises, vars,
         chip, kernel, opsVars, prbVars
<1>2. QED
  BY <1>1, Untouched DEF Registered

(* The probe starts from a chip without enabled interrupts and caches that. *)
LEMMA ProbeKeeps ==
  ASSUME Healthy, TypeOK, IInv, HealthyInv, Boot \/ ProbeStep
  PROVE  HealthyInv'
<1>1. ~ BusFault
  BY NoFault
<1>2. pc # "idle" => Registered /\ lock = "ops"
  BY DEF IInv, LockInv
<1> USE DEF HealthyInv, StopInv, EnableInv, ClockRuns, Registered, Enables, AlarmPlaces, EnablePlaces
<1>3. CASE Boot
  BY <1>2, <1>3 DEF Boot, ProbeFrame, kernel
<1>4. CASE InitReserved
  BY <1>1, <1>2, <1>4 DEF InitReserved, ProbeFails, ProbeFrame
<1>5. CASE InitRead
  BY <1>1, <1>2, <1>5 DEF InitRead, ProbeFails, ProbeFrame, CachedCtrl
<1>6. CASE InitClear
  BY <1>1, <1>2, <1>6 DEF InitClear, ProbeFails, ProbeFrame, CachedCtrl
<1>7. CASE ProbeIrq
  BY <1>2, <1>7 DEF ProbeIrq, ProbeFrame, kernel
<1>8. CASE ProbeRegister
  BY <1>2, <1>8 DEF ProbeRegister, ProbeFrame
<1>9. CASE ProbeReturn
  BY <1>2, <1>9 DEF ProbeReturn, ProbeFrame, kernel
<1>10. QED
  BY <1>3, <1>4, <1>5, <1>6, <1>7, <1>8, <1>9 DEF ProbeStep

LEMMA HealthyStep == ASSUME Healthy, TypeOK, IInv, HealthyInv, [Next]_vars PROVE HealthyInv'
<1>1. CASE OpStep
  BY Zenon, <1>1, ReadKeeps, FlagKeeps, CtrlKeeps DEF OpStep
<1>2. CASE \E o \in Ops : Call(o)
  BY Zenon, <1>2, CallKeeps
<1>3. CASE Boot \/ ProbeStep
  BY Zenon, <1>3, ProbeKeeps
<1>4. CASE Crash
  BY <1>4, NoFault DEF Crash
<1>5. QED
  BY Zenon, <1>1, <1>2, <1>3, <1>4, OthersKeep DEF Next

LEMMA HealthyHolds == ASSUME Healthy PROVE Spec => []HealthyInv
<1>1. Init => HealthyInv
  BY HealthyInit
<1>2. TypeOK /\ IInv /\ HealthyInv /\ [Next]_vars => HealthyInv'
  BY HealthyStep
<1>3. QED
  BY <1>1, <1>2, TypeCorrect, IInvHolds, PTL DEF Spec

(* The comments at L154 and L177 of set_time hold on a bus without errors:  *)
(* outside the writing of a date the clock runs, whatever callbacks,        *)
(* interrupts and events come in between.                                   *)
THEOREM ClockKeepsRunning == ASSUME Healthy PROVE Spec => []ClockRuns
<1>1. HealthyInv => ClockRuns
  BY DEF HealthyInv, StopInv
<1>2. QED
  BY <1>1, HealthyHolds, PTL

(* On a bus without errors set_alarm and alarm_irq_enable leave no          *)
(* interrupt enabled that no timer of the RTC core wants.                   *)
THEOREM NoneEnabledInVain == ASSUME Healthy PROVE Spec => []NoOrphanEnable
<1>1. IInv /\ HealthyInv => NoOrphanEnable
  BY DEF IInv, LockInv, HealthyInv, EnableInv, EnablePlaces, NoOrphanEnable
<1>2. QED
  BY <1>1, HealthyHolds, IInvHolds, PTL
=============================================================================
