------------------------------- MODULE Rx8010 -------------------------------
(***************************************************************************)
(* The RX8010 real-time-clock driver (srcs/modules/rtc/rtc-rx8010.c)       *)
(* together with the chip it drives, at the granularity of single I2C      *)
(* transfers: between two transfers of one handler the chip may raise a    *)
(* flag, the interrupt may fire or the machine may lose power.             *)
(*                                                                         *)
(* Threads: `probe` (rx8010_probe), `ops` (an rtc_class_ops callback; the  *)
(* RTC core calls each of them with ops_lock held, so one program counter  *)
(* serves all callers) and `irq` (the threaded handler).                   *)
(*                                                                         *)
(* Register contents are sets of bit names.  The chip's registers are      *)
(* battery backed and survive a crash; the driver's data do not.           *)
(*                                                                         *)
(* Definitions named Slip... are wrong variants of the definition they     *)
(* precede, to see that the properties notice the slip.  No other          *)
(* definition uses them.                                                   *)
(***************************************************************************)
EXTENDS Naturals

CONSTANTS
  HasIrq,       \* client->irq > 0
  Alarms,       \* the alarm times callers ask for
  Events,       \* the flags the chip raises by itself in this instance
  StopWhileUp,  \* may the oscillator stop while the kernel runs?
  PowerOnCtrl,  \* the contents CTRL may have before the first boot
  Callers,      \* the operations the RTC core is asked for (labels of Call)
  MaxFaults,    \* bound: I2C transfers that fail in one behaviour
  MaxCrashes    \* bound: resets or power cuts in one behaviour

Flags    == {"VLF", "AF", "TF", "UF"}           \* FLAG register, L43-46
CtrlBits == {"AIE", "UIE", "STOP", "TEST"}      \* CTRL register, L48-51
IrqFlags == {"AF", "TF", "UF"}
Enables  == {"AIE", "UIE"}
Ops      == {"get_time", "set_time", "read_alarm", "set_alarm",
             "alarm_irq_enable", "vl_read", "vl_clr"}

ASSUME ConfigAssumption ==
  /\ HasIrq \in BOOLEAN /\ StopWhileUp \in BOOLEAN
  /\ Events \subseteq Flags /\ Callers \subseteq Ops
  /\ Alarms # {}
  /\ PowerOnCtrl # {} /\ PowerOnCtrl \subseteq SUBSET CtrlBits
  /\ MaxFaults \in Nat /\ MaxCrashes \in Nat

VARIABLES
  \* the chip
  flag, ctrl,   \* FLAG and CTRL
  alm,          \* alarm registers and the WADA bit of EXT
  date,         \* the clock/calendar: "set", "torn" (part of a date written)
                \* or "lost" (the oscillator stopped since it was set)
  \* the driver (struct rx8010_data) and the RTC core's view of it
  ctrlreg,      \* rx8010->ctrlreg, the cached CTRL
  aie, uie,     \* rtc->aie_timer.enabled, rtc->uie_rtctimer.enabled
  lock,         \* rtc->ops_lock: "free", "ops" or "irq"
  \* program counters and locals
  probe, irqok, \* rx8010_probe; did it get the interrupt?
  pc, img, arg, \* the running callback, its `flagreg`, its argument
  ret,          \* what the last callback returned
  ipc, iimg,    \* the threaded handler and its `flagreg`
  \* budgets
  faults, crashes,
  \* history
  dirty,        \* the last write to CTRL reported an error
  unseen,       \* flags raised by the chip that no software has dealt with
  wiped,        \* of those, the ones a FLAG write erased without having read
  excused,      \* the date may be lost with VLF clear: VLF was cleared by
                \* RTC_VL_CLR, or the stop fell inside get_time or set_time
  stale         \* AF is still the one that was set when the callback began

chip    == <<flag, ctrl, alm, date>>
kernel  == <<ctrlreg, aie, uie, lock>>
opsVars == <<pc, img, arg, ret>>
irqVars == <<ipc, iimg>>
prbVars == <<probe, irqok>>
budget  == <<faults, crashes>>
history == <<dirty, unseen, wiped, excused, stale>>
vars    == <<chip, kernel, opsVars, irqVars, prbVars, budget, history>>

NoArg == [alarm |-> CHOOSE a \in Alarms : TRUE, on |-> FALSE]

Init ==
  /\ flag = {"VLF"} /\ ctrl \in PowerOnCtrl /\ date = "lost"
  /\ alm = [time |-> NoArg.alarm, day |-> NoArg.alarm, wada |-> FALSE]
  /\ ctrlreg = {} /\ aie = FALSE /\ uie = FALSE /\ lock = "free"
  /\ probe = "off" /\ irqok = FALSE
  /\ pc = "idle" /\ img = {} /\ arg = NoArg /\ ret = "none"
  /\ ipc = "idle" /\ iimg = {}
  /\ faults = 0 /\ crashes = 0
  /\ dirty = FALSE /\ unseen = {"VLF"} /\ wiped = {} /\ excused = FALSE /\ stale = FALSE

-----------------------------------------------------------------------------
(* The chip and its bus                                                    *)

\* /IRQ is low while an enabled interrupt's flag is set (level triggered).
IrqLine == \/ "AF" \in flag /\ "AIE" \in ctrl
           \/ "UF" \in flag /\ "UIE" \in ctrl

\* The chip raises a flag.  A stopped clock reaches no alarm and no update;
\* an oscillator stop loses the date.
ChipRaises(f) ==
  /\ f \in Events \ flag
  /\ f = "VLF" => StopWhileUp \/ probe = "off"
  /\ f # "VLF" => "STOP" \notin ctrl
  /\ flag' = flag \union {f}
  /\ unseen' = unseen \union {f} /\ wiped' = wiped \ {f}
  /\ date' = IF f = "VLF" THEN "lost" ELSE date
  /\ excused' = (excused \/ (f = "VLF" /\
                   pc \in {"gt_date", "st_ctrl2", "st_run", "st_flag", "st_vlf"}))
  /\ UNCHANGED <<ctrl, alm, kernel, opsVars, irqVars, prbVars, budget, dirty, stale>>

\* A bus error reported to the driver, within the bound.
BusFault == faults < MaxFaults /\ faults' = faults + 1

\* A bus error may have struck before or after the chip took the value.
Landed(old, new) == {old, new}

-----------------------------------------------------------------------------
(* The callbacks: `pc` names the next transfer, `img` holds flagreg.       *)

Goto(l, i) == pc' = l /\ img' = i /\ UNCHANGED <<lock, arg, ret>>

Return(r) == /\ pc' = "idle" /\ img' = {} /\ arg' = NoArg
             /\ lock' = "free" /\ ret' = r

\* A transfer succeeds and the callback goes on, or it fails and the
\* callback returns the error.
Succeeds(next) == next /\ UNCHANGED faults
Fails          == BusFault /\ Return("err")

Others == UNCHANGED <<aie, uie, irqVars, prbVars, crashes>>

\* A read transfer: `next` uses what is read.
Read(next) ==
  /\ Succeeds(next) \/ Fails
  /\ UNCHANGED <<chip, ctrlreg, history>> /\ Others

\* A FLAG write of `w`, computed from `img`, meant to clear the flags `ack`.
\* A 0 clears a flag and a 1 leaves it alone, so the write also wipes a flag
\* raised since `img` was read.
WriteFlag(w, seen, ack) ==
  /\ flag'   = flag \intersect w
  /\ unseen' = unseen \ (ack \intersect seen)
  /\ wiped'  = (wiped \union ((flag \ w) \ seen)) \ (ack \intersect seen)
  /\ stale'  = (stale /\ "AF" \in w)

SendFlag(w, ack, next) ==
  /\ \/ WriteFlag(w, img, ack) /\ (Succeeds(next) \/ Fails)
     \/ UNCHANGED <<flag, unseen, wiped, stale>> /\ Fails
  /\ UNCHANGED <<ctrl, alm, date, ctrlreg, dirty>> /\ Others

\* rx8010->ctrlreg = v, then CTRL is written with it.
SendCtrl(v, next) ==
  /\ ctrlreg' = v
  /\ \/ ctrl' = v /\ dirty' = FALSE /\ Succeeds(next)
     \/ ctrl' \in Landed(ctrl, v) /\ dirty' = TRUE /\ Fails
  /\ UNCHANGED <<flag, alm, date, unseen, wiped, excused, stale>> /\ Others

\* The RTC core calls an operation: it holds ops_lock and has brought its
\* timers up to date.  set_alarm and alarm_irq_enable exist only if the
\* probe got the interrupt.
Registered == probe \in {"ret", "up"}

Entry == [get_time |-> "gt_flag", set_time |-> "st_ctrl1",
          read_alarm |-> "ra_regs", set_alarm |-> "sa_flag",
          alarm_irq_enable |-> "ae_flag", vl_read |-> "vr_flag",
          vl_clr |-> "vc_flag"]

AlarmOps == {"read_alarm", "set_alarm", "alarm_irq_enable"}

Call(o) ==
  /\ Registered /\ lock = "free" /\ o \in Callers
  /\ o \in AlarmOps => irqok
  /\ lock' = "ops" /\ pc' = Entry[o] /\ ret' = "none"
  /\ IF o \in {"set_alarm", "alarm_irq_enable"}
     THEN /\ arg' \in [alarm : Alarms, on : BOOLEAN]
          /\ aie' \in BOOLEAN /\ uie' \in BOOLEAN
          /\ o = "alarm_irq_enable" => arg'.alarm = NoArg.alarm /\ (arg'.on => aie')
          /\ o = "set_alarm" => aie' \/ uie'
     ELSE UNCHANGED <<arg, aie, uie>>
  /\ stale' = ("AF" \in flag)
  /\ UNCHANGED <<chip, ctrlreg, img, irqVars, prbVars, budget,
                 dirty, unseen, wiped, excused>>

SlipDateNeverRefused(i) == FALSE

\* rx8010_get_time: a date is refused while VLF is set.
RefusesDate(i) == "VLF" \in i

GetTimeFlag ==
  /\ pc = "gt_flag"
  /\ Read(IF RefusesDate(flag) THEN Return("err") ELSE Goto("gt_date", {}))

GetTimeDate ==
  /\ pc = "gt_date"
  /\ Read(Return("ok"))

\* rx8010_set_time: a year outside 2000..2099 is refused before any transfer.
SetTimeRefused ==
  /\ Registered /\ lock = "free" /\ "set_time" \in Callers
  /\ ret' = "err"
  /\ UNCHANGED <<chip, kernel, pc, img, arg, irqVars, prbVars, budget, history>>

\* ctrl = i2c_smbus_read_byte_data(client, RX8010_CTRL), and ctrlreg is
\* computed from it.
ReadCtrl(v, next) ==
  /\ \/ ctrlreg' = v /\ Succeeds(next)
     \/ UNCHANGED ctrlreg /\ Fails
  /\ UNCHANGED <<chip, history>> /\ Others

SlipStopForgotten ==
  pc = "st_ctrl1" /\ ReadCtrl(ctrl, Goto("st_stop", {}))
SetTimeReadCtrl ==
  pc = "st_ctrl1" /\ ReadCtrl(ctrl \union {"STOP"}, Goto("st_stop", {}))

SetTimeStop == pc = "st_stop" /\ SendCtrl(ctrlreg, Goto("st_date", {}))

\* The seven date registers go in one block write, which may break off.
SetTimeDate ==
  /\ pc = "st_date"
  /\ \/ /\ date' = "set" /\ excused' = FALSE
        /\ unseen' = unseen \ (wiped \intersect {"VLF"})
        /\ wiped' = wiped \ {"VLF"}
        /\ Succeeds(Goto("st_ctrl2", {}))
     \/ /\ date' \in Landed(date, "torn") /\ UNCHANGED <<excused, unseen, wiped>>
        /\ Fails
  /\ UNCHANGED <<flag, ctrl, alm, ctrlreg, dirty, stale>> /\ Others

SlipStopNotCleared == pc = "st_ctrl2" /\ ReadCtrl(ctrl, Goto("st_run", {}))
SetTimeReadCtrl2   == pc = "st_ctrl2" /\ ReadCtrl(ctrl \ {"STOP"}, Goto("st_run", {}))

SetTimeRun == pc = "st_run" /\ SendCtrl(ctrlreg, Goto("st_flag", {}))

SetTimeReadFlag ==
  /\ pc = "st_flag"
  /\ Read(IF "VLF" \in flag THEN Goto("st_vlf", flag) ELSE Return("ok"))

\* The result of the last write is assigned to `ret`, which is not returned.
SetTimeClearVlf ==
  /\ pc = "st_vlf"
  /\ \/ WriteFlag(img \ {"VLF"}, img, {"VLF"}) /\ (UNCHANGED faults \/ BusFault)
     \/ UNCHANGED <<flag, unseen, wiped, stale>> /\ BusFault
  /\ Return("ok")
  /\ UNCHANGED <<ctrl, alm, date, ctrlreg, dirty, excused>> /\ Others

\* rx8010_read_alarm: "enabled" is answered from the cache.
ReadAlarmRegs ==
  /\ pc = "ra_regs"
  /\ Read(Goto("ra_flag", {}))

AlarmState(i) == IF "AIE" \notin ctrlreg THEN "off"
                 ELSE IF "AF" \in i THEN "pending" ELSE "armed"

ReadAlarmFlag ==
  /\ pc = "ra_flag"
  /\ Read(Return(AlarmState(flag)))

\* rx8010_set_alarm
SetAlarmReadFlag ==
  /\ pc = "sa_flag"
  /\ Read(Goto(IF ctrlreg \intersect Enables # {} THEN "sa_off" ELSE "sa_af", flag))

SetAlarmDisable ==
  /\ pc = "sa_off"
  /\ SendCtrl(ctrlreg \ Enables, Goto("sa_af", img))

SlipClearsAll(i) == {}
SlipKeepsAF(i) == i

ClearedAF(i) == i \ {"AF"}

SetAlarmClear ==
  /\ pc = "sa_af"
  /\ SendFlag(ClearedAF(img), {"AF"}, Goto("sa_time", {}))
  /\ UNCHANGED excused

WriteAlarm(field, v, next) ==
  /\ \/ alm' = [alm EXCEPT ![field] = v] /\ Succeeds(next)
     \/ alm' \in Landed(alm, [alm EXCEPT ![field] = v]) /\ Fails
  /\ UNCHANGED <<flag, ctrl, date, ctrlreg, history>> /\ Others

SetAlarmTime == pc = "sa_time" /\ WriteAlarm("time", arg.alarm, Goto("sa_wada", {}))

\* EXT is read and written back with WADA; nothing else writes EXT.
SetAlarmWada == pc = "sa_wada" /\ WriteAlarm("wada", TRUE, Goto("sa_day", {}))

SetAlarmDay ==
  /\ pc = "sa_day"
  /\ WriteAlarm("day", arg.alarm, IF arg.on THEN Goto("sa_on", {}) ELSE Return("ok"))

\* The enable bits the timers call for.
TimerBits == (IF uie THEN {"UIE"} ELSE {}) \union (IF aie THEN Enables ELSE {})

SetAlarmEnable ==
  /\ pc = "sa_on"
  /\ SendCtrl(ctrlreg \union TimerBits, Return("ok"))

SlipUieForgotten ==
  IF arg.on THEN ctrlreg \union (IF aie THEN {"AIE"} ELSE {})
  ELSE ctrlreg \ ((IF uie THEN {} ELSE {"UIE"}) \union (IF aie THEN {} ELSE {"AIE"}))
SlipNeverDisabled == IF arg.on THEN ctrlreg \union TimerBits ELSE ctrlreg

\* rx8010_alarm_irq_enable
WantedCtrl ==
  IF arg.on THEN ctrlreg \union TimerBits
  ELSE ctrlreg \ ((IF uie THEN {} ELSE {"UIE"}) \union (IF aie THEN {} ELSE {"AIE"}))

IrqEnableReadFlag ==
  /\ pc = "ae_flag"
  /\ Read(Goto("ae_af", flag))

IrqEnableClear ==
  /\ pc = "ae_af"
  /\ SendFlag(ClearedAF(img), {"AF"},
              IF WantedCtrl # ctrlreg THEN Goto("ae_ctrl", {}) ELSE Return("ok"))
  /\ UNCHANGED excused

IrqEnableWrite ==
  /\ pc = "ae_ctrl"
  /\ SendCtrl(WantedCtrl, Return("ok"))

\* rx8010_ioctl.  Copying the answer of RTC_VL_READ to the caller may fault.
VlRead ==
  /\ pc = "vr_flag"
  /\ Read(\E r \in {IF "VLF" \in flag THEN "low" ELSE "good", "err"} : Return(r))

VlClrReadFlag == pc = "vc_flag" /\ Read(Goto("vc_write", flag))

VlClrWrite ==
  /\ pc = "vc_write"
  /\ SendFlag(img \ {"VLF"}, {"VLF"}, Return("ok"))
  /\ excused' = (excused \/ (date = "lost" /\ "VLF" \notin flag'))

OpStep ==
  \/ GetTimeFlag \/ GetTimeDate
  \/ SetTimeReadCtrl \/ SetTimeStop \/ SetTimeDate \/ SetTimeReadCtrl2
  \/ SetTimeRun \/ SetTimeReadFlag \/ SetTimeClearVlf
  \/ ReadAlarmRegs \/ ReadAlarmFlag
  \/ SetAlarmReadFlag \/ SetAlarmDisable \/ SetAlarmClear \/ SetAlarmTime
  \/ SetAlarmWada \/ SetAlarmDay \/ SetAlarmEnable
  \/ IrqEnableReadFlag \/ IrqEnableClear \/ IrqEnableWrite
  \/ VlRead \/ VlClrReadFlag \/ VlClrWrite

-----------------------------------------------------------------------------
(* rx8010_irq_1_handler, a threaded one-shot handler: the line stays masked *)
(* until the thread is done.                                                *)

IrqFrame == UNCHANGED <<ctrl, alm, date, ctrlreg, aie, uie, opsVars, prbVars,
                        crashes, dirty, excused>>

IrqWake ==
  /\ ipc = "idle" /\ irqok /\ IrqLine
  /\ ipc' = "wake"
  /\ UNCHANGED <<flag, lock, iimg, faults, unseen, wiped, stale>> /\ IrqFrame

\* mutex_lock(&rx8010->rtc->ops_lock): until the device is registered, rtc is
\* NULL and the thread dies in the dereference.
IrqLock ==
  /\ ipc = "wake"
  /\ IF Registered
     THEN lock = "free" /\ lock' = "irq" /\ ipc' = "read"
     ELSE ipc' = "dead" /\ UNCHANGED lock
  /\ UNCHANGED <<flag, iimg, faults, unseen, wiped, stale>> /\ IrqFrame

IrqDone == ipc' = "idle" /\ iimg' = {} /\ lock' = "free"

\* What the handler passes to rtc_update_irq.
SlipAlarmNotReported(i) == i \intersect {"TF", "UF"}
Reported(i) == i \intersect IrqFlags

\* return IRQ_NONE
SlipNoUnlock == ipc' = "idle" /\ iimg' = {} /\ UNCHANGED lock
NotOurs == IrqDone

\* A read error or an empty FLAG is "not ours"; otherwise every flag but VLF
\* is reported with rtc_update_irq.
IrqRead ==
  /\ ipc = "read"
  /\ \/ /\ flag # {} /\ UNCHANGED <<faults, lock>>
        /\ ipc' = "write" /\ iimg' = flag
        /\ unseen' = unseen \ Reported(flag)
        /\ wiped' = wiped \ Reported(flag)
     \/ flag = {} /\ NotOurs /\ UNCHANGED <<faults, unseen, wiped>>
     \/ BusFault /\ NotOurs /\ UNCHANGED <<unseen, wiped>>
  /\ UNCHANGED <<flag, stale>> /\ IrqFrame

SlipWritesZero(i) == {}
SlipLeavesAF(i) == i \ {"TF", "UF"}

Handled(i) == i \ IrqFlags

\* The result of this write is not looked at.  What it clears counts as dealt
\* with only if it has been reported.
IrqWrite ==
  /\ ipc = "write"
  /\ \/ WriteFlag(Handled(iimg), iimg, {}) /\ (UNCHANGED faults \/ BusFault)
     \/ UNCHANGED <<flag, unseen, wiped, stale>> /\ BusFault
  /\ IrqDone /\ IrqFrame

-----------------------------------------------------------------------------
(* rx8010_probe and rx8010_init_client                                     *)

ProbeFails == BusFault /\ probe' = "failed" /\ img' = {} /\ UNCHANGED <<ctrlreg, irqok>>

ProbeFrame == UNCHANGED <<ctrl, alm, date, pc, arg, ret, irqVars, crashes, dirty, excused>>

\* The adapter lacks a function or memory is short: -EIO, -ENOMEM.
Boot ==
  /\ probe = "off" /\ probe' \in {"resv", "failed"}
  /\ UNCHANGED <<flag, kernel, img, irqok, faults, unseen, wiped, stale>> /\ ProbeFrame

\* Four writes to reserved registers and the IRQ register.
InitReserved ==
  /\ probe = "resv"
  /\ \/ probe' = "read" /\ UNCHANGED <<img, ctrlreg, irqok, faults>>
     \/ ProbeFails
  /\ UNCHANGED <<flag, aie, uie, lock, unseen, wiped, stale>> /\ ProbeFrame

SlipWrongByte == flag
SlipStopMasked == ctrl \ {"TEST", "STOP"}
SlipNotCached == {}

\* ctrl[1] of the block read is still CTRL when it is cached: nobody else
\* writes CTRL before the probe is over.
CachedCtrl == ctrl \ {"TEST"}

InitRead ==
  /\ probe = "read"
  /\ \/ /\ flag \intersect IrqFlags # {}
        /\ probe' = "clear" /\ img' = flag /\ UNCHANGED <<ctrlreg, irqok, faults>>
     \/ /\ flag \intersect IrqFlags = {}
        /\ probe' = "irq" /\ ctrlreg' = CachedCtrl /\ UNCHANGED <<img, irqok, faults>>
     \/ ProbeFails
  /\ UNCHANGED <<flag, aie, uie, lock, unseen, wiped, stale>> /\ ProbeFrame

InitClear ==
  /\ probe = "clear"
  /\ \/ /\ WriteFlag(Handled(img), img, IrqFlags)
        /\ probe' = "irq" /\ ctrlreg' = CachedCtrl /\ img' = {}
        /\ UNCHANGED <<irqok, faults>>
     \/ WriteFlag(Handled(img), img, IrqFlags) /\ ProbeFails
     \/ UNCHANGED <<flag, unseen, wiped, stale>> /\ ProbeFails
  /\ UNCHANGED <<aie, uie, lock>> /\ ProbeFrame

\* If the interrupt is refused the device is registered all the same, without
\* the alarm operations, and the probe then returns that error.
ProbeIrq ==
  /\ probe = "irq"
  /\ probe' = "reg" /\ irqok' \in (IF HasIrq THEN BOOLEAN ELSE {FALSE})
  /\ UNCHANGED <<flag, kernel, img, faults, unseen, wiped, stale>> /\ ProbeFrame

\* rtc_device_register; on success the RTC core adopts an alarm it finds
\* enabled.  On failure devm frees the interrupt once its thread is idle.
ProbeRegister ==
  /\ probe = "reg"
  /\ \/ /\ probe' = "ret" /\ UNCHANGED irqok
        /\ aie' \in {FALSE, irqok /\ "AIE" \in ctrlreg}
     \/ /\ ipc \in {"idle", "dead"}
        /\ probe' = "failed" /\ irqok' = FALSE /\ UNCHANGED aie
  /\ UNCHANGED <<flag, ctrlreg, uie, lock, img, faults, unseen, wiped, stale>> /\ ProbeFrame

\* `err` is still the error of a refused interrupt: the driver core unbinds.
ProbeReturn ==
  /\ probe = "ret"
  /\ IF HasIrq /\ ~irqok THEN lock = "free" /\ probe' = "failed" ELSE probe' = "up"
  /\ UNCHANGED <<flag, kernel, img, irqok, faults, unseen, wiped, stale>> /\ ProbeFrame

ProbeStep == \/ InitReserved \/ InitRead \/ InitClear
             \/ ProbeIrq \/ ProbeRegister \/ ProbeReturn

\* A reset or a power cut: the battery keeps the chip's registers, the kernel
\* forgets everything.  A block write of the date may break off.
Crash ==
  /\ probe # "off" /\ crashes < MaxCrashes /\ crashes' = crashes + 1
  /\ date' \in (IF pc = "st_date" THEN Landed(date, "torn") ELSE {date})
  /\ probe' = "off" /\ irqok' = FALSE
  /\ ctrlreg' = {} /\ aie' = FALSE /\ uie' = FALSE /\ lock' = "free"
  /\ pc' = "idle" /\ img' = {} /\ arg' = NoArg /\ ret' = "none"
  /\ ipc' = "idle" /\ iimg' = {} /\ dirty' = FALSE /\ stale' = FALSE
  /\ UNCHANGED <<flag, ctrl, alm, faults, unseen, wiped, excused>>

\* An unbound driver does nothing more.
Unbound == probe = "failed" /\ UNCHANGED vars

Next ==
  \/ \E f \in Flags : ChipRaises(f)
  \/ \E o \in Ops : Call(o)
  \/ SetTimeRefused \/ OpStep
  \/ IrqWake \/ IrqLock \/ IrqRead \/ IrqWrite
  \/ Boot \/ ProbeStep \/ Crash \/ Unbound

Spec == Init /\ [][Next]_vars

\* Running threads keep running, and the kernel's mutex hands itself over to
\* a waiter it has starved, so the handler's turn comes.
Fairness == /\ WF_vars(OpStep) /\ WF_vars(ProbeStep)
            /\ WF_vars(IrqWake) /\ SF_vars(IrqLock)
            /\ WF_vars(IrqRead) /\ WF_vars(IrqWrite)

FairSpec == Spec /\ Fairness
-----------------------------------------------------------------------------
(* Properties                                                              *)

TypeChip ==
  /\ flag \subseteq Flags /\ ctrl \subseteq CtrlBits
  /\ alm \in [time : Alarms, day : Alarms, wada : BOOLEAN]
  /\ date \in {"set", "torn", "lost"}

TypeDriver ==
  /\ ctrlreg \subseteq CtrlBits
  /\ aie \in BOOLEAN /\ uie \in BOOLEAN /\ lock \in {"free", "ops", "irq"}
  /\ probe \in {"off", "resv", "read", "clear", "irq", "reg", "ret", "up", "failed"}
  /\ irqok \in BOOLEAN
  /\ faults \in 0..MaxFaults /\ crashes \in 0..MaxCrashes

TypeThreads ==
  /\ pc \in {"idle", "gt_flag", "gt_date", "st_ctrl1", "st_stop", "st_date",
             "st_ctrl2", "st_run", "st_flag", "st_vlf", "ra_regs", "ra_flag",
             "sa_flag", "sa_off", "sa_af", "sa_time", "sa_wada", "sa_day", "sa_on",
             "ae_flag", "ae_af", "ae_ctrl", "vr_flag", "vc_flag", "vc_write"}
  /\ img \subseteq Flags /\ arg \in [alarm : Alarms, on : BOOLEAN]
  /\ ret \in {"none", "ok", "err", "off", "armed", "pending", "low", "good"}
  /\ ipc \in {"idle", "wake", "read", "write", "dead"} /\ iimg \subseteq Flags

TypeHistory ==
  /\ dirty \in BOOLEAN /\ unseen \subseteq Flags /\ wiped \subseteq Flags
  /\ excused \in BOOLEAN /\ stale \in BOOLEAN

\* Every variable stays in its type: registers and caches hold only bits the
\* register has, and every thread is at one of its transfers.
TypeOK == TypeChip /\ TypeDriver /\ TypeThreads /\ TypeHistory

\* A date of which only a part reached the chip (set_time broke off, by a bus
\* error or a power cut) never ticks: STOP stays set, whatever callbacks,
\* failures and reboots follow, until some set_time writes a whole date.
TornDateFrozen == date = "torn" => "STOP" \in ctrl

\* After an oscillator stop VLF tells so until a date is set: no handler
\* clears it on the way, except by the documented race or RTC_VL_CLR.
LostDateFlagged == date = "lost" => "VLF" \in flag \union wiped \/ excused

\* Driver and chip together are a clock that is halted while its date is
\* changed, that runs only with a whole date and that is not trusted again,
\* once it has lost its date, before it was set: the comments of L154, L177 and
\* the refusal of L123, through all failures and crashes.
Clock == INSTANCE RtcClock WITH
  clock   <- date,
  running <- "STOP" \notin ctrl,
  trusted <- ~ ("VLF" \in flag \union wiped \/ excused)

RefinesClock == Clock!Spec

\* An event the chip raised is still in FLAG, unless a handler dealt with it or
\* it fell between the read and the write of a FLAG read-modify-write.
NoSilentLoss == unseen \subseteq flag \union wiped

\* Between callbacks the driver's copy of CTRL is what the chip holds (TEST
\* apart), or the last write to CTRL reported an error.
CacheCoherent ==
  Registered /\ lock = "free" =>
    ctrlreg \ {"TEST"} = ctrl \ {"TEST"} \/ dirty

\* The callback at label l returns r in this step.
Returns(l, r) == pc = l /\ pc' = "idle" /\ ret' = r /\ probe' # "off"

\* What a get_time that returned 0 may have read, besides a date that was written
\* whole and not lost since: the half-written date of a clock that a broken-off
\* set_time has left stopped; and a lost date, but only if RTC_VL_CLR has cleared
\* VLF, a FLAG read-modify-write has wiped it unseen, or the oscillator stopped
\* under a get_time or set_time already past its look at the flag.
GetTimeHonest ==
  [][Returns("gt_date", "ok") =>
       /\ date = "torn" => "STOP" \in ctrl
       /\ date = "lost" => excused \/ "VLF" \in wiped]_vars

\* A set_alarm that returned 0 for an enabled alarm left the chip armed for just
\* the time asked, with no alarm pending from before the call - also after any
\* number of earlier failed calls.
SetAlarmArmed ==
  [][Returns("sa_on", "ok") =>
       /\ ~ stale' /\ TimerBits \subseteq ctrl'
       /\ alm' = [time |-> arg.alarm, day |-> arg.alarm, wada |-> TRUE]]_vars

\* What alarm_irq_enable and read_alarm conclude from the cached CTRL is true
\* of the chip, unless the last CTRL write failed.
CachedAnswersTrue ==
  [][/\ (Returns("ae_af", "ok") \/ Returns("ae_ctrl", "ok")) /\ arg.on
          => TimerBits \subseteq ctrl' \/ dirty'
     /\ Returns("ra_flag", "armed") \/ Returns("ra_flag", "pending")
          => "AIE" \in ctrl \/ dirty]_vars

\* rtc-rx8010.c L154 and L177: STOP is set before changing the clock/calendar
\* and cleared after, so the clock stands still only during a set_time.
ClockRuns ==
  "STOP" \in ctrl => pc \in {"st_date", "st_ctrl2", "st_run"}

\* An interrupt is enabled in the chip only while a timer of the RTC core that
\* called for it is enabled.
NoOrphanEnable ==
  Registered /\ lock = "free" =>
    /\ "AIE" \in ctrl => aie
    /\ "UIE" \in ctrl => aie \/ uie

\* Every callback returns and gives the lock back, and so does the handler.
LockReleased == lock # "free" ~> lock = "free"

\* The driver serves interrupts: bound, with its handler alive.
Serving == probe = "up" /\ irqok /\ ipc # "dead"

\* An alarm event in FLAG whose interrupt is enabled reaches the RTC core, if
\* no callback cancels it first: set_alarm and alarm_irq_enable do so on
\* purpose, any FLAG write that straddles the event by the race.
AlarmDelivered ==
  (Serving /\ "AF" \in unseen \intersect flag /\ "AIE" \in ctrl)
     ~> (~ Serving \/ "AF" \in wiped \/ "AF" \notin unseen \/ "AIE" \notin ctrl)

\* The level-triggered line does not stay asserted: the handler or a callback
\* clears what asserts it.
LineReleased == (Serving /\ IrqLine) ~> (~ Serving \/ ~ IrqLine)
=============================================================================
