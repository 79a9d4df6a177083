# UNO-220-POE: TLA+ models of the board support software

TLA+ specifications of the programs in this repository that keep state, talk to
hardware or run concurrently. TLC checks them on small instances. TLAPS proves,
for every value of the parameters, every invariant and every refinement the
runs check: the safety of the RTC driver, of the TPM tool, of the two temperature
monitors and of the GPIO and serial console scripts, that the driver implements
an abstract clock and the tool an abstract service, and what is computed of dates,
times, responses and command lines. Liveness is checked by TLC only.
Source paths are relative to `src/`.

Run, in this directory: `tlc -workers 2 -config X.cfg M` (the pairs are in
`PROJECT.json`, "runs") and `tlapm M.tla` for the modules named `..._proofs`.

## 1. Inventory

The repository builds a Raspberry-Pi image for the UNO-220: makefiles, one
kernel driver, a handful of C, Python and shell programs, and boot scripts.

| component | state | operations | who it meets |
|---|---|---|---|
| RX8010 driver, `srcs/modules/rtc/rtc-rx8010.c` | `ctrlreg` (cached CTRL), `rtc`, and in the chip: FLAG, CTRL, EXT, alarm and date registers | probe, get/set_time, read/set_alarm, alarm_irq_enable, ioctl, irq handler | RTC core (`ops_lock`), I2C bus, the chip's battery-backed registers, the level-triggered interrupt |
| eltt2, `srcs/root/rootAdvantech/usr/Advantech/eltt2` | the response buffer and its size, `ret_val`; in the TPM: open hash sequences | one request per option; -a/-A a sequence of requests | `/dev/tpm0`, the shell that reads the exit status |
| cputempmon in C, `srcs/cputempmon/srcs/cputempmon.c` | options, pid file, LED files | start in foreground or background, stop (-k), measuring loop | other instances, through the pid file and the LED |
| cputempmon in Python, `srcs/cputempmon/srcs/python` | the same | the same, with `run`, `stop`, `appendpid` | the same |
| uno220gpio, `srcs/dpkg/gpio` | sysfs: exported pins, directions, values | export, unexport, get, set, status | the kernel's GPIO class, other callers |
| uno220uart, `srcs/dpkg/uart`, and the installation's `srcs/dpkg/config/DEBIAN/preinst` | `config.txt`, `cmdline.txt`, the getty's unit | enable, disable, status, installation | the boot loader, each other, a power cut between an edit and its sync |
| memtool, `srcs/memtool` | one mapping | read, write | `/dev/mem` |
| serialtest, mcast | none between calls | send, receive | tty, sockets |
| boot scripts (`hwclock-set`, `SetTPM.sh`, `RemoveTPM.sh`, `TPM.service`) | a flag file, GPIO files | run once per event | udev, systemd |
| image builder (`Makefile`, `rules/`, `defines/`) | image file, loop devices, mounts | make targets | - |
| device tree overlays, iswireless, examples | none | - | - |

What is hard about them, and what makes each correct:

* **RX8010 driver.** Every handler is a chain of I2C transfers any of which may
  fail, between which the chip raises flags and the power may go. Clearing a
  flag is a read-modify-write of FLAG in which a 0 clears, so a flag raised in
  between is wiped. `ctrlreg` is changed before CTRL is written. Correct means:
  no wrong date is handed out, no event vanishes unless handled, the cache and
  the chip agree, a successful set_alarm armed the alarm, the lock comes back,
  the interrupt line is released. Three of these the code keeps only with
  exceptions; section 3 names them.
* **eltt2.** The size of one response is the buffer size offered for the next
  request; a long argument is split into requests in 16-bit arithmetic; errors
  in the middle are found by looking at the response again. Correct means: what
  is printed is the answer, the data hashed are the data given, the exit status
  tells the truth, nothing is left open in the TPM by a successful call.
* **cputempmon.** A start removes the pid file, then forks, then the child
  appends its pid: overlapping starts and stops lose pids. Correct means: a
  monitor can be stopped, and a stop kills only monitors.
* **uno220gpio.** Every pin is tested and then exported or unexported, and
  `--export=all` unexports what it exports. Correct means: a call that reads or
  sets a pin finds it, and what was exported is there in the end.
* **uno220uart.** One call edits three places with commands of which any may
  fail, two calls may edit the same file at once, and only the last command
  syncs. Correct means: what the calls agree on comes true and survives a power
  cut.
* **cputempmon in Python.** The pid file is tested and then removed, and the
  instance that comes second dies of it. Correct means: of starts that overlap
  one monitor is left, and it can be stopped.
* **memtool.** A command line with optional blanks, and page and length
  arithmetic in 32 bits. Correct means: it does what the line says, inside what
  it has mapped.

The list of hazards, each at its line, is in `PROJECT.json`.

## 2. Plan

In order, most important behaviour first; what is done and what is left:

1. `Rx8010`: driver, chip and RTC core composed, with the proofs of its safety;
   `RtcClock`: the clock it implements, checked and proved. Done.
2. `Eltt2`: tool and TPM composed; `OptionService`: what the tool promises its
   caller as long as the device takes its requests whole, and what is left of that
   when it does not; the tool implements it. Done.
3. `CpuTempMon`: the C program, any number of overlapping calls, the process
   table, the pid file and the LED's pin composed. Done.
4. `BoardScripts`: `Gpio`, `Uart` and `PyTempMon`, the scripts that meet in files
   and in sysfs. Done.
5. `Conversions`: what is computed from one input - `RtcCodec`, the dates and
   alarms in the chip's registers; `Eltt2Print`, what is printed of a response;
   `MemTool`. Done.
6. Proofs of `Eltt2` and of its step into `OptionService`, of `CpuTempMon`, of
   `PyTempMon`, of `RtcCodec`, `Eltt2Print` and `MemTool`, and of what `Rx8010`
   does when nothing fails. Done.
7. Proofs of `Gpio` and of `Uart`, for any number of overlapping calls. Done.

Nothing that the provers can reach is left; section 10 lists what stays with TLC.

One run per question; bounds as in section 8.

## 3. `Rx8010`: the RTC driver and its chip

**State.** `flag` and `ctrl` are the sets of bits set in FLAG and CTRL. `alm` is
the alarm (time registers, day register, the WADA bit of EXT); the writes that
set them are three transfers and so three actions. `date` is what matters of the
clock: `"set"`, `"torn"` (a block write broke off) or `"lost"` (the oscillator
stopped). `ctrlreg` is `rx8010->ctrlreg`. `aie`, `uie` are the enabled bits of
the RTC core's two timers, which set_alarm and alarm_irq_enable read. `lock` is
`ops_lock`. `probe`, `pc`, `ipc` are the positions of the probe, of the running
callback and of the interrupt thread; `img`, `iimg` the `flagreg` locals.

**Actions.** One per I2C transfer, with everything the code does up to the next
transfer. `Call` is the RTC core entering an operation; it is modelled from how
the driver relies on it (under the lock; alarm operations only with an
interrupt). `ChipRaises` happens between any two transfers. `Crash` forgets the
kernel's state and keeps the chip's. A failed write may or may not have reached
the chip (`Landed`).

| code | definitions |
|---|---|
| `rx8010_irq_1_handler` L73-110 | `IrqWake`, `IrqLock`, `IrqRead`, `IrqWrite` |
| `rx8010_get_time` L112-142 | `GetTimeFlag`, `GetTimeDate`, `RefusesDate` |
| `rx8010_set_time` L144-197 | `SetTimeRefused` ... `SetTimeClearVlf` |
| `rx8010_init_client` L199-251 | `InitReserved`, `InitRead`, `InitClear`, `CachedCtrl` |
| `rx8010_read_alarm` L253-280 | `ReadAlarmRegs`, `ReadAlarmFlag`, `AlarmState` |
| `rx8010_set_alarm` L282-349 | `SetAlarmReadFlag` ... `SetAlarmEnable` |
| `rx8010_alarm_irq_enable` L351-392 | `IrqEnableReadFlag`, `IrqEnableClear`, `IrqEnableWrite`, `WantedCtrl` |
| `rx8010_ioctl` L394-429 | `VlRead`, `VlClrReadFlag`, `VlClrWrite` |
| `rx8010_probe` L437-490 | `Boot`, `ProbeIrq`, `ProbeRegister`, `ProbeReturn` |

**History variables.** `unseen` are events raised and not dealt with; `wiped`
those of them a FLAG write erased without having read them - the race the
hardware interface has; `excused` says that the date may be lost with VLF clear
because `RTC_VL_CLR` asked for that, or because the oscillator stopped while
get_time or set_time was under way; `dirty` that the last CTRL write reported an
error; `stale` that the pending AF is older than the running call. They make the
exceptions in the properties exact: a property with such a disjunct is still
broken by every other way of losing the event, the date or the cache. What the
exceptions leave is this, and it is the code's:

* `get_time` looks at VLF and not at STOP, so that with STOP set it may return a
  half-written date; and it may return a lost one once `RTC_VL_CLR`, a wipe, or a stop
  of the oscillator behind its own look at FLAG has taken the warning away.
  `GetTimeHonest` says that these are all the ways to a date that is not whole, and
  that a half-written one stands still. It does not say that get_time never returns
  a wrong date: it does.
* after a failed write of CTRL the cache and the chip may differ until the next write
  that succeeds, and alarm_irq_enable and read_alarm may conclude wrongly from it.
  `CacheCoherent` and `CachedAnswersTrue` are about all other times.
* set_alarm may return 0 with an event of the old alarm raised while it ran;
  `SetAlarmArmed` excludes one from before the call.

**The abstract clock.** `RtcClock` has three variables - the date, whether the
clock runs, whether a reader would trust it - and six steps: halt, set a date
or tear one (only while halted), run (not with a torn date), trust again (not
with a lost date), lose the date. The refinement mapping takes `date` itself,
STOP clear for running, and for trusted that VLF is clear and its being clear is
not one of the excused cases. `RefinesClock` says that every step of the driver,
its callers, the chip or a crash is such a step or none.

**Runs.**

* `rx8010_time` - `TypeOK`, `TornDateFrozen`, `LostDateFlagged`, `NoSilentLoss`,
  `GetTimeHonest`, `RefinesClock` with two bus errors, one power cut, oscillator stops
  at run time and update interrupts, on chips with and without interrupts left
  enabled.
* `rx8010_alarm` - `CacheCoherent`, `SetAlarmArmed`, `CachedAnswersTrue` with two
  alarm times, alarm and timer events and one bus error.
* `rx8010_healthy` - without errors: the clock stands still only inside set_time
  (`ClockRuns`), no interrupt stays enabled that no timer wants
  (`NoOrphanEnable`), and the liveness properties `LockReleased`,
  `AlarmDelivered`, `LineReleased`. The chip starts with no interrupt enabled.
  With one left enabled by an earlier boot the handler can run between lines 464
  and 479, before `rx8010->rtc` is set; the other runs' chips reach that (`ipc =
  "dead"`: the thread dies on the null pointer before it has the lock), and the liveness
  properties are stated for a living handler.
* `rx8010_stop` - a violation: one failed transfer in set_time leaves STOP set
  after the call returned, and nothing but a later set_time clears it.

**Fairness.** Weak fairness for the callback, the probe and the handler: running
kernel threads go on. Strong fairness for `IrqLock`: other callbacks may take the
lock again and again, but the kernel's mutex hands itself to a waiter it has
starved. Nothing is assumed of callers, of the chip's events or of crashes.

**Proofs** (`Rx8010_proofs`). From `ConfigAssumption` alone - any alarm times, events,
callers, numbers of faults and crashes, with or without an interrupt: `TypeCorrect`,
`TornDateStaysFrozen`, `LostDateStaysFlagged`, `NoEventLostSilently`,
`CacheStaysCoherent`, `GetTimeIsHonest`, `SetAlarmIsArmed`, `CachedAnswersAreTrue`.
The properties are not inductive: what a callback knows is in its position. `IInv`
adds it: `LockInv` (the lock agrees with the two positions, so a callback and the
handler never interleave their transfers), `FrozenInv` (between the two CTRL writes of
set_time STOP is in the chip, or on its way), `LostInv` (what `img` says of VLF
against the chip), `CacheInv` (where in a callback cache and chip may differ),
`NoSilentLoss` itself, `ArmInv` (which alarm registers a set_alarm in progress has
written), and `HandlerInv` (between its read and its write the handler holds flags
that are still in FLAG, and none it has reported is counted as unseen). The proof
takes the actions one by one; the action properties follow from `IInv` in the state
before the step. `ImplementsClock`: a step that touches CTRL, the date or the warnings
maps to a step of `RtcClock` because of `FrozenInv` and `LostInv`, every other one is
a stutter. For a bus without errors and a chip that starts with a running clock and no
interrupt enabled (`Healthy`) there are also `ClockKeepsRunning` (`ClockRuns`) and
`NoneEnabledInVain` (`NoOrphanEnable`): STOP is in the cache only between its two
readings in set_time, and cache and chip have the same enable bits at any time
(`StopInv`, `EnableInv`). `RtcClock_proofs` shows what that order of steps is good for
(`RightOrToldHolds`): a clock that keeps to it never runs with a wrong date that
nothing warns of.

## 4. `Eltt2`: the TPM tool and the TPM

**State.** The option loop's position `pc` and the options left `rest`; `size` =
`tpm_response_buf_size`; the response buffer as the extent `top` of its bytes
that are not zero and the return code `rc` in it; `ret` = `ret_val`; the locals
of `create_hash_sequence`. The TPM: `open` sequences, and `absorbed`, how long a
prefix of the argument the sequence has taken that the tool holds a handle of
(`Garbled` if anything else, `NoSequence` if the tool holds none). A request is its
length; an argument its number of digits and whether it is well formed. A digest
may be missing in two ways: with nothing else on the line main counts the arguments
(`NoDigest`, ERR_BAD_CMD), behind another option `pcr_extend` is given the NULL behind
the last one (`NullDigest`, EINVAL). `lost` is history: the requests of this call that
did not reach the TPM without the tool noticing.

**Actions.** `Request` is one turn of the loop up to the TPM's answer: building
and refusing the request (`Refusal` and an operator for each builder:
`get_random`, `create_hash`, `pcr_extend`, `pcr_read`, `pcr_reset`;
`RequestSize`), `tpmtool_transmit`
(`Accepted`, `Cleared`, `Transmit`); `Report` is `return_error_handling` and
`response_print`. `SeqStart`, `SeqSplit`, `SeqUpdate`, `SeqComplete` are
`create_hash_sequence`. `Help`, `EndOfOptions`, `Leftover`, `Exit` are the rest
of `main`. The device may fail at any request (`DeviceFails`), the TPM may answer any
request with an error, and the user may interrupt the tool. A device may also take less
than the request (`ShortWrite`): `tpmtool_transmit` then returns `errno` (lines 433-435),
which a short write does not set, and if it is 0 the caller goes on with a buffer it
finds cleared and a return code of 0 in it. A sequence whose start was lost that way has
the handle 0, and the TPM takes no update or completion for it.

**Runs.** `eltt2` checks command lines of up to three options, with one device error
or one short write: `NoStaleBytes` (nothing of an older response is printed, although
the printers of -c and -g do not look at the length; after a lost request at most the
19 bytes of the answer to an update), `HashedWhole` (the digest is that of the whole
argument, unless a request was lost), `UpdatesFit`, `ExitHonest` (exit status 0
exactly if the tool noticed nothing wrong), `SequencesClosed` (a success leaves no
sequence open but those whose completion was lost), `Terminates`. Two violation runs
show disagreements with the tool's texts. `eltt2_chain`: after an option answered by a
bare header every later option is refused. `eltt2_short`: `LossNoticed` is false - a
call may exit with 0, having printed an empty buffer, though the TPM never got its
request; that is why the exceptions above are needed. The longest argument the system
passes on, 131071 digits, is among the command lines: its 65536 bytes wrap to a size
of 0 and are refused, although README.md:85 of the tool promises an arbitrary amount.

**The abstract service.** `OptionService` is the tool as its caller sees it: the
options still to be carried out, the answer that is waiting to be printed, whether
anything has gone wrong, the exit status. Its steps are a call, an answer (for -a
and -A one about exactly the bytes of the argument), printing it, -h, giving up,
exit and kill. `ImplementsService` says that `Eltt2` is that: all the requests of a
hash sequence are one `Answer`, the shared buffer and its size, the checks of the
response and the TPM's sequences do not show, no option is carried out twice or
skipped, and the status is 0 exactly if none is left and nothing went wrong. It may
also `Lose` a request; from then on it owes its caller an answer to each option still,
but not one about the right bytes.

**Assumption.** `ErrorAssumption`: of the TPM's error codes only
`TPM_RC_INITIALIZE` (0x100) ends in a zero byte. It is the one code the tool maps
before it exits with the low byte, and without the assumption `ExitHonest` is false
(0x200, say, would look like success). The header's list of codes bears it out.

**Fairness.** `WF(ToolStep)`: the process runs, and a read of `/dev/tpm0` blocks
until the TPM has answered or reports an error.

**Proofs** (`Eltt2_proofs`). From `ToolAssumption` and `ErrorAssumption`, for any
command lines, argument lengths, TPM errors and interruptions: `TypeCorrect`,
`CleanBuffer`, `WholeHash`, `PiecesFit`, `HonestStatus`, `NoneLeftOpen`, each with the
exception for lost requests its property has. `IInv` says of each place in the program
what has happened before it. `OptionInv`: between requests of a sequence the option at
hand is -a or -A. `BufferInv`: in the option loop nothing is set behind `size` (or,
once a completion was lost, behind 19), and inside a sequence nothing behind the size
saved in `orig` or behind 19, the length of an update's answer; that is what makes the
loop of `SeqUpdate`, which changes the size under the buffer, safe for the next
printer. `HashInv`: while no request is lost the TPM has absorbed exactly `total -
remaining` bytes, so that the pieces are the argument in order and the last one is its
end; and outside a sequence the tool has no handle. `OpenInv`: the TPM has `before`
sequences open, one more inside `create_hash_sequence` if the tool has its handle, and
at most `lost` more that were never completed (`OpenBut`). `StatusInv`: nothing has
gone wrong as long as the loop goes on, and a cause leaves a code whose low byte is
not zero. `ToolServes` then takes the actions one by one: a request that is not the
last of a sequence is a stutter of `OptionService`, the last one, or the only one, is
its `Answer`, a lost one a `Lose`, and every refusal or error its giving up.
`Terminates` stays with TLC.

## 5. `CpuTempMon`: the temperature monitor

**State.** `proc`, the process table: for each pid where the process is, what it
was started with, its child, whether its open pid file still has its name, and
what its `cat` printed. `lines`, the pids in the file that has the pid file's
name. `owner`, `pin`, `low`: the GPIO pin of the LED, its settings in sysfs and
its level. `temp`, the temperature. A pid is free for another process when its
process and the parent that could still wait for it have ended; a background
child whose parent has left is reaped by init.

**Actions.** One per system call or shell command that others can see.

| code | definitions |
|---|---|
| `getconfigs` L174-221 | `Start`, `RemoveOld`, `Stop`, `Cat`, `Kill`, `Unlink`, `Exit` |
| `led_init` L260-305 | `Access`, `Check`, `InSysfs`, `Export`, `Direction`, `ActiveLow`, `Dark` |
| `SYSTEM` L63-91, `led_control` L254-258 | `Shell`, `Control` |
| `main` L331-355 | `Fork`, `AfterFork`, `Leave`, `Stay` |
| `appendpid2file` L166-172 | `Open`, `OwnPid`, `Appended`, `Write` |
| `measure_temp` L307-322 | `Measure`, `NoSensor`, `Over`, `Indicate` |

`Kill` sends SIGKILL to whatever process has the pids now. `Death` is a process
killed by somebody else, `Stranger` another program that is given the pid.
Any shell, pipe, fork or file may be refused, and the program goes on as the
code does.

**History variables.** `unlisted`, processes whose line went with the file they
had written or opened, or that could not open it; `ended`, pids still in the file
or in a stop's hand whose process was killed. In a stop's record, `due` are the
monitors whose starts had returned when it was called, and `quiet` says that it
met only instances at rest with their lines in the file and no later call
disturbed it.

**Runs.**

* `cputempmon_pids` - three overlapping calls among four pids, one death, one
  fault. `SettledListed`: parent and child, or two starts, that append at the
  same time do not lose each other's lines; only a removal does.
  `OnlyMonitorsListed`: what a stop kills is, or was before somebody killed it, a
  process that stays - no pid is ever written by a process that ends by itself.
  `QuietStopStops`: an undisturbed stop leaves nothing running. The pin belongs
  to another driver in this run, so that its set-up multiplies no states.
* `cputempmon_led` - two calls with different limits and a changing temperature:
  `LedReady`, no monitor ever measures with an LED that is not set up, although a
  second start reconfigures the pin under it; `LedFollows`, a temperature on
  which all monitors agree is shown in the end.
* `cputempmon_stop` - a violation: -k right after a background start has returned
  finds no pid yet, removes the file and leaves the monitor running.

**Fairness.** `WF(Step(p))` for every process p: a process that can run does run.
Nothing is assumed of callers, deaths, faults or the temperature; in
`cputempmon_led` no step fails.

**Proofs** (`CpuTempMon_proofs`). From `MonAssumption` alone, for any set of pids
and any number of calls, deaths and faults: `TypeCorrect`, `RestingAreListed`,
`OnlyMonitorsAreKilled`, `QuietStopsStop`, `LedIsReady`. `IInv` has three parts
besides the type. `FileInv`: a process about to write its line holds the named
file or is counted as unlisted; a pid in the file, or in a stop's hand, is that of
a process which is registering or at rest, or which was killed. `QuietInv`: while
a stop is quiet every other process is at rest and is still to be killed by it -
in the file while it is at `cat`, in what it has found while it is at `kill` -
and none is left afterwards. `LedInv`: how far the pin is set up at each step of a
start; another start writes the same settings, so no step takes anything back. The
lemmas before the actions say what a change of one entry of the process table
does to each part. `LedFollows` stays with TLC, and `StopStops` is false.

## 6. `BoardScripts`: the scripts

`BoardScripts` composes three modules that share no file, so that in a behaviour
one of the scripts is called, any number of times, and the other two rest: their
steps would interleave without meeting. Run `board_scripts`; the three type
invariants are one, `TypeOK`. Only safety is stated. A script ends because its
list of commands does, which no interleaving could change.

**`Gpio`** (`uno220gpio`). `exported` are the pins with a directory in sysfs, `held`
those a driver of the kernel has, whose export the kernel refuses; a call is a list
`todo` of operations, built from the request as the script's functions build it
(`exportPin`, `unexportPin`, `Access`, `exportAllPins`, `unexportAllPins`), and every
test (`GpioTest`), every echo to `export` or `unexport` (`GpioAct`) and every access
to a pin's file (`GpioAccess`) is one step. An echo that comes too late, or the export
of a held pin, fails, and the script goes on and exits with 0. `MissedOnlyIfSpoilt`: a
call that reads or sets a pin finds its directory unless another call has unexported
the pin meanwhile or a driver holds it - calls that only export never harm each other.
`ExportedInTheEnd`: when all calls have ended, the pins that were exported or used,
that no driver holds and nobody unexported, are exported, although `--export=all`
takes each of them away for a moment and another call may look just then. The script
takes any number for a pin; a number the expander does not have leaves no directory
and is left out.

**`Uart`** (`uno220uart`, `preinst`). `config`, `cmdline`, `getty` are the settings
the next boot will find if nothing is lost, `disk` what it finds after a power cut. A
call is a list of commands; `sed -i` on `config.txt` reads in one step and renames in
another, so that two calls can undo each other's line. A command may fail. The script
chooses with `[ $flag -eq 1 ] && first || second` (`Chosen`): a `first` that fails is
followed by `second`, a `second` that fails by nothing. Of `--enable` (`Enable`) the
first is the one that turns on, of `--disable` (`Disable`) the one that turns off, so
that each, if it fails, is followed by its opposite; only the two edits of
`cmdline.txt` return 0 whatever happens. So a single call of `--enable` whose sed
fails turns the UART off. `group` are the calls that overlapped. `AgreedSettings`:
when they have ended, each setting on which all of them agreed is as they asked, and
stays so through a power cut; exempt are exactly a setting whose own command failed
(for then the opposite may have run), the UART in a `config.txt` without `[all]`
(where the script inserts nothing), and the I2C line, which only the installation
writes and an overlapping edit may drop. The installation does not sync, so nothing is
owed after a power cut to a group with one. Two things seen on the way and not
modelled: the script's short options -e and -d are missing from its getopts string,
and --status calls a function that does not exist.

**`PyTempMon`** (the Python monitor). `there` and `pids` are the pid file, `pyproc`
the processes. The order differs from the C program's: `TestOld`, `PyRemoveOld`,
`PyFork`, then `Touch`, `MayWrite`, `OpenAgain`, `WritePid`; a stop is `FindFile`,
`CatPids`, `KillAll`, `PyUnlink`, `PyExit`. `os.remove` of a file that has gone
raises an exception that ends the process (`OsRemove`). `StartsLeaveOne`: if nobody
stops or kills one, starts that overlap never end each other altogether - once
they are at rest a monitor runs and is listed. `PyQuietStopStops` is the C
program's `QuietStopStops`. The options are handled in the order they are given,
so that `-k` before `-p` stops the instances of the default file; the model has
one file. That a pid may be another program's by the time it is killed is
modelled for the C program, and not again here.

**Proofs** (`BoardScripts_proofs`, from `GpioAssumption`, `UartAssumption` and
`PyAssumption` alone). The three scripts have an invariant each, and a step of one
changes nothing of the others'; `TypesHold` is the conjunction of their types.

* *Python monitor*, for any number of processes, calls and deaths: `OneIsLeft`
  (`StartsLeaveOne`) and `QuietStopsStop` (`PyQuietStopStops`). A process is
  `Promising` if it will be the listed monitor unless another one disturbs it: a start
  before its fork (at `os.remove` only if the file is still there), a child that will
  find the file, and a monitor at rest in it. `LeftInv`: without a stop or a death
  there is always one. A process stops being promising only when the file is removed
  under it, and the one that removed it, having found it there, goes on to fork.
  `StopInv` and `QuietInv` are what the undisturbed stop needs.
* *uno220gpio* (`Gpio_proofs`), for any number of calls and two pins or more:
  `OnlySpoiltPinsMissed` and `PinsExportedInTheEnd`. Neither property is inductive,
  because nothing in the state says what a call will still do but its list. `Finds`: a
  call about to access its pin finds it, or was spoilt. `PutsBack`: in every list an
  `unexport` of a pin that nobody withdrew is followed at once by its `export`, which
  is what the loop of `--export=all` keeps up. `OwedInv`: such a pin is exported or held, or
  some running call has its `export` still in its list. The step in which one call
  unexports the pin another needs keeps it because the list of the first goes on with
  the export; the step in which a test skips an export keeps it because the pin is there.
* *uno220uart and preinst* (`Uart_proofs`), for any number of calls, failing commands
  and power cuts: `AgreedSettingsKept`. `UartSound`: of the commands a call has left,
  the last one about a setting sets it as the call was asked (`Owes`), unless a
  command failed on it - of the choices of `--enable` and of `--disable` alike
  (`ChoiceServes`); the call edits only settings it was asked about, and the I2C bus
  before the UART; `sync` is last. `AgreedInv`: a setting on which the group agrees
  has its value, or a call is under way that will still touch it (`Working`).
  `DiskInv` says the same of the disk and of `sync`, for groups without an
  installation. `CopyInv`: the copy a lone call edits is the file. For `config.txt`
  the argument is not that edits do not overlap: a rename that takes back the UART's
  line of another call belongs to a call that has, behind it or in this very rename,
  its own edit of that line, and all agree on it.

## 7. `Conversions`: what is computed from one input

The run `conversions` feeds every operator its inputs one by one; `MemTool` has a
state of its own and goes on by itself.

* **`RtcCodec`**: `DateRegisters` and `DateOf` are what set_time writes and what
  get_time reads, `AlarmRegisters` and `AlarmOf` the same of the alarm (its seconds
  are dropped, a day 0 stands for any day). `TimesKept`: what was written is
  what is read, for every field's whole range and the ends of all of them
  together. The day of the week is one bit in the chip; the driver takes `bin2bcd`
  of that bit, which is wrong from Thursday on, and reads it back counted from 1,
  so that the property covers Sunday to Wednesday and says what is read then.
* **`Eltt2Print`**: `PrintedWhole` - `print_response_buf`, which prints the answers to all
  options but -c, -g and -v, reads nothing behind the response whatever
  length the response claims for a digest, and of a genuine answer it prints the
  whole payload, from the offset `response_print` picks for the option. The printers of
  -c, -g and -v read to fixed ends and not to the response's; that there is nothing
  older behind it is `NoStaleBytes` of `Eltt2`;
  `ClockWhole` - the parts of a time add up to it; `TableWhole` - the loop over the
  properties (`print_capability_flags`, as the set of its turns that print) shows each
  one it knows and stays in the buffer. `Eltt2` uses only
  whether a printer refuses (`PrintOffset`).
* **`MemTool`**: `Parse` is `parse_cmdline` over arguments abstracted to what it looks
  at in them; `Map`, `Access`, `Fault`, `Unmap` are the rest. `BlanksIgnored`: a line
  with one `=`, or none, means the same with and without blanks around it.
  `AccessMapped`: no access leaves the mapping unless so much was asked for that the
  size wraps; a count that wraps is what the property does not cover. The result of
  mmap is compared with NULL, not with MAP_FAILED, so that a failed mapping is
  accessed and the program is killed (`Fault`).

**Proofs** (`Conversions_proofs`). All six hold of every input, of which
`InputAssumption` says only what it is: a valid date, alarm or weekday, a natural number
of seconds, a table of natural numbers, a response of any size and content, or one that
claims to be genuine and then is laid out as the TPM's are (`GenuineAnswer`).

* `TimesAreKept` and `ClockStaysWhole` rest on a lemma about BCD for all numbers below
  100, on the bits of the weekday register, and on quotients and remainders by the
  units of time.
* `ResponsesPrintedWhole`: the claimed length of a digest is at most what is left
  behind the offset wherever it is not refused, and the offset before the digest is one
  `buf_to_uint64` accepts. The function it sums the bytes with is recursive, but has two
  bytes here, and `TwoBytes` gives its value without an induction.
* `TablesShownWhole`: behind the properties the buffer is 0, which is no key.
* `BlanksAreIgnored`: `parse_cmdline` looks at no more than three arguments behind the
  option, and the proof compares it with the text of these, case by case of which
  argument holds the `=`. With two `=` (`memtool 8= =5`, which writes 5)
  there is no meaning to compare with, as the usage text has none; hence `OneEquals`.
* `AccessStaysMapped` is for pages of any multiple of 4 bytes and words of any multiple
  of a page (`MemAssumption`), any addresses and any counts: `MemInv` ties the furthest byte
  reached to the element at hand, and `SpanMapped` says that the pages mapped cover the
  elements unless the size wraps.

## 8. Bounds

| bound | value | why it is enough |
|---|---|---|
| `MaxFaults` (Rx8010) | 2, 1, 0 | an error in one call and one in the call that would repair it; the proofs lift the bound for safety |
| `MaxCrashes` | 1 | all the state a crash leaves is the chip's, which one crash already makes arbitrary; lifted by the proofs |
| `Alarms` | 1 or 2 | the driver only copies the time; two tell the old alarm from the new |
| `CommandLines` | every option alone, pairs of a representative with every option, triples of representatives | options meet only through the size of the buffer, and the representatives leave every kind of it: bare header, shorter than a handle, long |
| lengths of -a | 0, 1, 8, 1990, 1991, 3979, 3980, 131070, 131071 digits | empty, odd, the multiples of the 995 bytes one request takes, the ends of the 16-bit size |
| `Slots`, `MaxRuns`, `MaxFaults` (Eltt2) | 2, 2, 1 | a sequence left open by a first call meets a second one; one fault is an error, or a short write in any place, and the proofs lift the bound |
| `Pids`, `MaxCalls` (CpuTempMon) | 4 and 3; 3 and 2 | two starts and a stop, or a start between two stops, with a pid to spare for a child; every pair of steps of two starts meets. Pids are interchangeable, so the pid run uses symmetry |
| `MaxDeaths`, `MaxFaults` (CpuTempMon) | 1, 1; 0, 0 | one pid of a dead process in the file, one step refused; the liveness run is about healthy steps |
| `Limits`, `Temps` | {1}, {1}; {1, 2}, {1, 2, 3} | below, between and above two different limits |
| `GpioCalls`, `NumPins` | 3, 2 | two calls of `--export=all` and one that unexports or uses a pin; the loops treat the pins alike, and two show one pin renewed while the other is used; every set of held pins is tried |
| `UartCalls`, `MaxUartFaults`, `MaxPowerCuts` | 2, 1, 1 | two edits overlap in every way, with a failed command in any place; calls are interchangeable (symmetry) |
| `NumPids`, `MaxPyCalls`, `MaxPyDeaths` | 5, 3, 1 | three starts, or two and a stop, with their children; pids are given out in order, which stands for every order as nothing compares them |
| `Word`, `Page` (MemTool) | 64, 8 | 32 bits and 4096 bytes in small: addresses at both ends of a page and of the memory, counts up to one that wraps |
| `MemCommands` | lines of each form the usage text has, with and without blanks and size option, for addresses around the ends of a page; and every line of up to three of eight arguments, well formed or not | the parser looks at three arguments, and at the kinds those eight are of |
| `Inputs` (Conversions) | every value of each field by itself, the ends of all together; responses around each offset with claimed lengths from 0 to 65535; times at the ends of each unit | the fields are converted independently of each other |

## 9. Findings

1. `rtc-rx8010.c:175` (also 162, 180, 185): an error after STOP was set returns
   with the clock stopped, against the comment of line 177 (`rx8010_stop`).
2. `eltt2.c:407`: the response size is not reset between options (`eltt2_chain`).
3. `cputempmon.c:345`: a background start returns before its monitor is in the pid
   file, so the stop of line 215 can miss it, against the usage text of line 109
   (`cputempmon_stop`).
4. `eltt2.c:433`: a short write that sets no errno is a success to the caller, which
   prints an empty buffer and exits with 0, against `eltt2.h:272` (`eltt2_short`).

## 10. Not proved, not modelled

Every invariant, every action property and every refinement of the passing runs has a
theorem. Only model-checked is liveness: `LockReleased`, `AlarmDelivered`,
`LineReleased`, `Terminates` and `LedFollows`. Each needs ENABLED and fairness, which the
provers do not handle. The four violations are counterexamples, and TLC shows them.

The proofs take for granted what the `ASSUME`s state, which TLC evaluates for the
instances, and no more. They avoid induction over data: programs and responses are
sequences given by an explicit function of the position (`AllPins` of `Gpio`), and the
one recursive function (`BytesToInt`) is used for a fixed number of bytes.

Not modelled, and why:

* the constant bytes of TPM requests, the wording of tables and messages: no
  property distinguishes them;
* instances of cputempmon with different pid files or pins, which do not meet; the
  two `measure_temp_test` functions, which nothing calls; the LED and the measuring
  loop of the Python program, which issue the C program's shell commands;
* a second bind of the RTC driver in one boot: the model boots it once;
* `hwclock-set`: two commands behind one test of a flag file. Two udev events may
  both pass the test, and then set the same clock to the same time twice; a
  property would restate the test;
* serialtest and mcast: straight-line programs around one loop of read or write,
  without state that a later step could contradict;
* `SetTPM.sh`, `RemoveTPM.sh`, `TPM.service`: lists of copies and systemctl calls;
* the makefiles: shell commands over loop devices one after the other, whose state
  is make's and mount's;
* overlays, iswireless and the examples keep no state.
