-------------------------------- MODULE Uart --------------------------------
(***************************************************************************)
(* The serial console's settings: the script srcs/dpkg/uart/usr/sbin/      *)
(* uno220uart and the installation script srcs/dpkg/config/DEBIAN/preinst, *)
(* which edit config.txt and cmdline.txt on the boot partition.  `sed -i'  *)
(* reads the whole file, writes a copy and renames it.  What is not synced *)
(* may be lost in a power cut, file by file.                               *)
(***************************************************************************)
EXTENDS Naturals, Sequences

CONSTANTS
  UartCalls,    \* calls of the two scripts
  MaxUartFaults,\* bound: commands that fail
  MaxPowerCuts  \* bound

ASSUME UartAssumption == MaxUartFaults \in Nat /\ MaxPowerCuts \in Nat

VARIABLES
  config,     \* config.txt: is the I2C bus on, is enable_uart=1 there?
  cmdline,    \* cmdline.txt: does the kernel have its serial console?
  getty,      \* serial-getty: enabled at boot?
  disk,       \* the three as they are on the disk
  hasAll,     \* has config.txt a section [all]?
  ujob,       \* the calls
  ufaults, cuts,
  group       \* history: the calls that ended, or overlap, since a call last
              \* began with no other under way

settings == <<config, cmdline, getty>>
uartVars == <<settings, disk, hasAll, ujob, ufaults, cuts, group>>

Settings == {"i2c", "uart", "console", "getty"}

\* boot, kernel and systemd: the settings uno220uart has a flag for.
Flags == Settings \ {"i2c"}

\* A call: what it still has to do, the copy its sed is editing.  For the
\* properties: the settings it turns on and off, and those a command failed on.
NoUartCall == [at |-> "none", todo |-> <<>>, copy |-> [i2c |-> FALSE, uart |-> FALSE],
               install |-> FALSE, on |-> {}, off |-> {}, broken |-> {}]

UartInit ==
  /\ config \in [i2c : BOOLEAN, uart : BOOLEAN] /\ cmdline \in BOOLEAN /\ getty \in BOOLEAN
  /\ disk = [config |-> config, cmdline |-> cmdline, getty |-> getty]
  /\ hasAll \in BOOLEAN
  /\ ujob = [c \in UartCalls |-> NoUartCall]
  /\ ufaults = 0 /\ cuts = 0 /\ group = {}

-----------------------------------------------------------------------------
(* What a call has to do                                                   *)

\* A command: the setting it changes, to what, and what runs if it fails.
Cmd(s, v)             == [set |-> s, to |-> v, orElse |-> <<>>]
CmdOr(s, v, fallback) == [set |-> s, to |-> v, orElse |-> fallback]
sync                  == Cmd("sync", TRUE)

disableConsoleConfigFunc  == Cmd("uart", FALSE)
enableConsoleConfigFunc   == Cmd("uart", TRUE)
disableConsoleSystemdFunc == Cmd("getty", FALSE)
enableConsoleSystemdFunc  == Cmd("getty", TRUE)

\* [ $flag -eq 1 ] && first || second: a first that fails is taken for a no.
Chosen(flag, first, second) ==
  IF flag THEN <<CmdOr(first.set, first.to, <<second>>)>> ELSE <<second>>

disableConsoleCmdlineFunc == <<Cmd("console", FALSE)>>

\* Whatever is there is removed first.  These two return 0 whatever fails, so
\* that the other never runs after them.
enableConsoleCmdlineFunc == <<Cmd("console", FALSE), Cmd("console", TRUE)>>

SlipSyncEarly(boot, kernel, systemd) == boot \o kernel \o <<sync>> \o systemd

InOrder(boot, kernel, systemd) == boot \o kernel \o systemd \o <<sync>>

\* --enable with the flags of S: those settings on, the others off.
Enable(S) ==
  InOrder(Chosen("uart" \in S, enableConsoleConfigFunc, disableConsoleConfigFunc),
          IF "console" \in S THEN enableConsoleCmdlineFunc ELSE disableConsoleCmdlineFunc,
          Chosen("getty" \in S, enableConsoleSystemdFunc, disableConsoleSystemdFunc))

\* --disable with the flags of S: those settings off, the others on.
Disable(S) ==
  InOrder(Chosen("uart" \in S, disableConsoleConfigFunc, enableConsoleConfigFunc),
          IF "console" \in S THEN disableConsoleCmdlineFunc ELSE enableConsoleCmdlineFunc,
          Chosen("getty" \in S, disableConsoleSystemdFunc, enableConsoleSystemdFunc))

\* The installation turns the I2C bus and the UART on, without a sync.
preinst == <<Cmd("i2c", TRUE), Cmd("uart", TRUE), Cmd("console", FALSE)>>

Busy  == {c \in UartCalls : ujob[c].at \in {"next", "rename"}}
Quiet == Busy = {}

UartStart(c, rec) ==
  /\ ujob[c].at = "none"
  /\ ujob' = [ujob EXCEPT ![c] = rec]
  /\ group' = IF Quiet THEN {c} ELSE group \union {c}
  /\ UNCHANGED <<settings, disk, hasAll, ufaults, cuts>>

UartCall(c) ==
  \E S \in SUBSET Flags :
    LET called(todo, on, off) == [NoUartCall EXCEPT !.at = "next", !.todo = todo, !.on = on, !.off = off]
    IN  \/ UartStart(c, called(Enable(S), S, Flags \ S))
        \/ UartStart(c, called(Disable(S), Flags \ S, S))

Install(c) ==
  UartStart(c, [NoUartCall EXCEPT !.at = "next", !.todo = preinst, !.install = TRUE,
                                  !.on = {"i2c", "uart"}, !.off = {"console"}])

-----------------------------------------------------------------------------
(* Its steps                                                               *)

Command(c) == Head(ujob[c].todo)

Proceeds(c) ==
  ujob' = [ujob EXCEPT ![c].at = "next", ![c].todo = Tail(@), ![c].copy = NoUartCall.copy]

\* sed -i reads config.txt.
SedRead(c) ==
  /\ ujob[c].at = "next" /\ ujob[c].todo # <<>> /\ Command(c).set \in {"i2c", "uart"}
  /\ ujob' = [ujob EXCEPT ![c].at = "rename", ![c].copy = config]
  /\ UNCHANGED <<settings, disk, hasAll, ufaults, cuts, group>>

\* The line that turns the UART on goes behind [all], if there is one.
Edited(cmd, copy) ==
  IF cmd.set = "i2c" THEN [copy EXCEPT !.i2c = TRUE]
  ELSE [copy EXCEPT !.uart = cmd.to /\ hasAll]

SedRename(c) ==
  /\ ujob[c].at = "rename"
  /\ config' = Edited(Command(c), ujob[c].copy) /\ Proceeds(c)
  /\ UNCHANGED <<cmdline, getty, disk, hasAll, ufaults, cuts, group>>

\* sed -i of cmdline.txt: the console is there or not, whatever was read.
SedConsole(c) ==
  /\ ujob[c].at = "next" /\ ujob[c].todo # <<>> /\ Command(c).set = "console"
  /\ cmdline' = Command(c).to /\ Proceeds(c)
  /\ UNCHANGED <<config, getty, disk, hasAll, ufaults, cuts, group>>

\* systemctl enable, systemctl disable.  The start or stop before it only acts
\* until the next boot.
Systemctl(c) ==
  /\ ujob[c].at = "next" /\ ujob[c].todo # <<>> /\ Command(c).set = "getty"
  /\ getty' = Command(c).to /\ Proceeds(c)
  /\ UNCHANGED <<config, cmdline, disk, hasAll, ufaults, cuts, group>>

Sync(c) ==
  /\ ujob[c].at = "next" /\ ujob[c].todo # <<>> /\ Command(c).set = "sync"
  /\ disk' = [config |-> config, cmdline |-> cmdline, getty |-> getty] /\ Proceeds(c)
  /\ UNCHANGED <<settings, hasAll, ufaults, cuts, group>>

\* What runs after a command that failed.
AfterFailure(cmd, rest) == cmd.orElse \o rest

\* sed or systemctl fails and changes nothing.
UartFault(c) ==
  /\ \/ ujob[c].at = "rename"
     \/ ujob[c].at = "next" /\ ujob[c].todo # <<>> /\ Command(c).set \in {"console", "getty"}
  /\ ufaults < MaxUartFaults /\ ufaults' = ufaults + 1
  /\ ujob' = [ujob EXCEPT ![c].at = "next", ![c].todo = AfterFailure(Head(@), Tail(@)),
                          ![c].copy = NoUartCall.copy,
                          ![c].broken = @ \union {Command(c).set}]
  /\ UNCHANGED <<settings, disk, hasAll, cuts, group>>

UartExit(c) ==
  /\ ujob[c].at = "next" /\ ujob[c].todo = <<>>
  /\ ujob' = [ujob EXCEPT ![c].at = "done"]
  /\ UNCHANGED <<settings, disk, hasAll, ufaults, cuts, group>>

\* The kernel writes a file back when it likes.
WriteBack ==
  /\ \/ disk' = [disk EXCEPT !.config = config]
     \/ disk' = [disk EXCEPT !.cmdline = cmdline]
     \/ disk' = [disk EXCEPT !.getty = getty]
  /\ disk' # disk
  /\ UNCHANGED <<settings, hasAll, ujob, ufaults, cuts, group>>

\* What the calls have asked for is still owed after a power cut if all of them
\* had returned and each of them syncs.
PowerCut ==
  /\ cuts < MaxPowerCuts /\ cuts' = cuts + 1
  /\ config' = disk.config /\ cmdline' = disk.cmdline /\ getty' = disk.getty
  /\ ujob' = [c \in UartCalls |-> IF c \in Busy THEN [NoUartCall EXCEPT !.at = "done"] ELSE ujob[c]]
  /\ group' = IF Quiet /\ \A c \in group : ~ ujob[c].install THEN group ELSE {}
  /\ UNCHANGED <<disk, hasAll, ufaults>>

UartNext ==
  \/ \E c \in UartCalls : \/ UartCall(c) \/ Install(c) \/ SedRead(c) \/ SedRename(c) \/ SedConsole(c)
                          \/ Systemctl(c) \/ Sync(c) \/ UartFault(c) \/ UartExit(c)
  \/ WriteBack \/ PowerCut

-----------------------------------------------------------------------------
(* Properties                                                              *)

\* Every variable stays in its type.
UartTypeOK ==
  /\ config \in [i2c : BOOLEAN, uart : BOOLEAN] /\ cmdline \in BOOLEAN /\ getty \in BOOLEAN
  /\ disk \in [config : [i2c : BOOLEAN, uart : BOOLEAN], cmdline : BOOLEAN, getty : BOOLEAN]
  /\ group \subseteq UartCalls
  /\ \A c \in UartCalls : ujob[c].on \intersect ujob[c].off = {} /\ Len(ujob[c].todo) <= 5

IsOn(s) == CASE s = "i2c" -> config.i2c [] s = "uart" -> config.uart
             [] s = "console" -> cmdline [] s = "getty" -> getty

Asked(s)   == {c \in group : s \in ujob[c].on}
Refused(s) == {c \in group : s \in ujob[c].off}

\* A later edit of config.txt may undo this one's: two of them overlapped.
Exempt(s) ==
  \/ \E c \in group : s \in ujob[c].broken
  \/ s = "uart" /\ ~ hasAll
  \/ s = "i2c" /\ \E c, d \in group : c # d

\* When overlapping calls have ended, every setting on which they agreed is as
\* they asked, even if a command of theirs failed on another setting, and stays
\* so through a power cut.  Exempt are a setting a command failed on (for then
\* its `&& ... ||' may do the opposite of what was asked), the UART without a
\* section [all], and the I2C bus, whose line an overlapping sed may take out
\* again.
AgreedSettings ==
  Quiet => \A s \in Settings :
             Exempt(s) \/ /\ Asked(s) # {} /\ Refused(s) = {} => IsOn(s)
                          /\ Refused(s) # {} /\ Asked(s) = {} => ~ IsOn(s)
=============================================================================
