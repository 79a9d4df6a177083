------------------------------ MODULE CpuTempMon ------------------------------
(***************************************************************************)
(* The temperature monitor (srcs/cputempmon/srcs/cputempmon.c): any number *)
(* of calls of it, starts and stops, at the same time.  They meet in the   *)
(* pid file, in the process table and at the GPIO pin of the indicator.    *)
(*                                                                         *)
(* A start removes the pid file, prepares the LED and forks; the child     *)
(* appends its pid and measures for ever; the parent leaves (background)   *)
(* or appends its own pid and sleeps for ever (foreground).  A stop runs   *)
(* `kill -9 $(cat pidfile)' and removes the file.  The kernel gives the    *)
(* pid of a process that has ended to another one.                         *)
(*                                                                         *)
(* Definitions named Slip... are wrong variants of the definition they     *)
(* precede, to see that the properties notice the slip.                    *)
(***************************************************************************)
EXTENDS Naturals

CONSTANTS
  Pids,       \* process ids
  NoPid,
  Limits,     \* the warning temperatures (-t) of the starts
  Temps,      \* the temperatures of the CPU
  Owners,     \* who may have the pin at first
  MaxCalls,   \* bound: calls of the program
  MaxDeaths,  \* bound: processes killed by somebody else
  MaxFaults   \* bound: shells, forks and files the system refuses

ASSUME MonAssumption ==
  /\ NoPid \notin Pids
  /\ Limits \subseteq Nat /\ Temps \subseteq Nat /\ Limits # {} /\ Temps # {}
  /\ Owners # {} /\ Owners \subseteq {"none", "sysfs", "driver"}
  /\ MaxCalls \in Nat /\ MaxDeaths \in Nat /\ MaxFaults \in Nat

VARIABLES
  proc,      \* the process table
  lines,     \* the pids in the file that has the pid file's name
  owner,     \* who has the pin: "none", "sysfs" or another "driver"
  pin,       \* its settings in sysfs: "out", "active_low"
  low,       \* its electric level; the LED is lit while the level is low
  temp,      \* the temperature
  calls, deaths, faults,
  \* history
  unlisted,  \* processes whose line was lost: the file was removed after they
             \* had opened it, or could not be opened
  ended      \* pids still in the file, or found there by a stop, whose process
             \* was killed

files  == <<lines, unlisted, ended>>
led    == <<owner, pin, low>>
bounds == <<calls, deaths, faults>>
vars   == <<proc, files, led, temp, bounds>>

\* What a process is at.
InitSteps    == {"remove", "access", "check", "export", "direction",
                 "active_low", "dark", "fork"}
AppendSteps  == {"open", "write"}
StaySteps    == {"measure", "led", "sleep"}   \* the child, or a foreground parent
StopSteps    == {"cat", "kill", "unlink", "exit"}
ToolSteps    == InitSteps \union {"leave"} \union AppendSteps \union StaySteps
                  \union StopSteps

\* A free entry of the process table.  `kid' is the child of a fork: a parent
\* never waits for it, so its pid is not free before the parent has ended.
\* `child': is this the child?  `fd': does the open pid file still have its
\* name?  `over': the temperature read was over the limit.  `found': what cat
\* printed.
\* For the properties: `due', the monitors a stop finds returned to their
\* callers; `quiet', the stop met nothing but settled instances.
Nobody == [at |-> "none", bg |-> FALSE, limit |-> 0, kid |-> NoPid, child |-> FALSE,
           fd |-> "none", over |-> FALSE, found |-> {}, due |-> {}, quiet |-> FALSE]

At(p)       == proc[p].at
Free        == {p \in Pids : At(p) = "none" /\ \A q \in Pids : proc[q].kid # p}
Tools       == {p \in Pids : At(p) \in ToolSteps}
Registrants == {p \in Pids : At(p) \in AppendSteps \union StaySteps}
Settled     == {p \in Pids : At(p) \in StaySteps}
Monitors    == {p \in Registrants : proc[p].child}

Init ==
  /\ proc = [p \in Pids |-> Nobody] /\ lines = {}
  /\ owner \in Owners /\ pin = {} /\ low \in BOOLEAN
  /\ temp \in Temps
  /\ calls = 0 /\ deaths = 0 /\ faults = 0
  /\ unlisted = {} /\ ended = {}

-----------------------------------------------------------------------------
(* Processes                                                               *)

Goes(p, l)      == proc' = [proc EXCEPT ![p].at = l]
Becomes(p, rec) == proc' = [proc EXCEPT ![p] = rec]

\* What is left of the table when the processes P are gone.
Without(P) ==
  [q \in Pids |-> IF q \in P THEN Nobody ELSE [proc[q] EXCEPT !.due = @ \ P]]

Fault == faults < MaxFaults /\ faults' = faults + 1 /\ UNCHANGED <<calls, deaths>>

\* A shell command of process p takes effect, or the shell cannot be started
\* (the result of system() is not looked at).  Then p goes on at l.
Shell(p, effect, l) ==
  /\ \/ effect /\ UNCHANGED bounds
     \/ UNCHANGED led /\ Fault
  /\ Goes(p, l) /\ UNCHANGED <<files, temp>>

\* A call: any free pid; no stop under way is undisturbed any more.
Called(p, rec) ==
  /\ calls < MaxCalls /\ calls' = calls + 1
  /\ proc' = [q \in Pids |-> IF q = p THEN rec ELSE [proc[q] EXCEPT !.quiet = FALSE]]
  /\ unlisted' = unlisted \ {p}
  /\ UNCHANGED <<lines, ended, led, temp, deaths, faults>>

\* The pid file loses its name.
Remove ==
  /\ lines' = {}
  /\ unlisted' = unlisted \union {p \in Registrants : p \in lines \/ proc[p].fd = "named"}
  /\ ended' = ended \intersect UNION {proc[s].found : s \in Pids}

\* The same, in the process table.
Unnamed(p, l) ==
  proc' = [q \in Pids |->
             [proc[q] EXCEPT !.fd = IF @ = "named" THEN "unnamed" ELSE @,
                             !.at = IF q = p THEN l ELSE @]]

-----------------------------------------------------------------------------
(* A start                                                                 *)

Start(p) ==
  /\ p \in Free
  /\ \E b \in BOOLEAN, t \in Limits :
       Called(p, [Nobody EXCEPT !.at = "remove", !.bg = b, !.limit = t])

\* The end of getconfigs.
RemoveOld(p) ==
  /\ At(p) = "remove" /\ Remove /\ Unnamed(p, "access")
  /\ UNCHANGED <<led, temp, bounds>>

\* Without debugfs the start ends here.
Access(p) ==
  /\ At(p) = "access"
  /\ \/ Goes(p, "check") /\ UNCHANGED bounds
     \/ Becomes(p, Nobody) /\ Fault
  /\ UNCHANGED <<files, led, temp>>

SlipInverted == owner = "none"

\* grep finds the pin and "sysfs" in its line of /sys/kernel/debug/gpio.
InSysfs == owner = "sysfs"

\* Without a pipe nothing is set up.
Check(p) ==
  /\ At(p) = "check"
  /\ \/ Goes(p, IF InSysfs THEN "direction" ELSE "export") /\ UNCHANGED bounds
     \/ Goes(p, "dark") /\ Fault
  /\ UNCHANGED <<files, led, temp>>

\* The kernel refuses a pin that is taken.
Export(p) ==
  /\ At(p) = "export"
  /\ Shell(p, owner' = (IF owner = "none" THEN "sysfs" ELSE owner) /\ UNCHANGED <<pin, low>>,
           "direction")

\* A write to a file of the pin; there is none before the export.
Attribute(write) == IF owner = "sysfs" THEN write /\ UNCHANGED owner ELSE UNCHANGED led

\* "out" drives the pin low, whatever active_low says.
Direction(p) ==
  /\ At(p) = "direction"
  /\ Shell(p, Attribute(pin' = pin \union {"out"} /\ low' = TRUE), "active_low")

ActiveLow(p) ==
  /\ At(p) = "active_low"
  /\ Shell(p, Attribute(pin' = pin \union {"active_low"} /\ UNCHANGED low), "dark")

\* led_control: an input is not written.
Control(on) ==
  Attribute(/\ low' = (IF "out" \in pin THEN on = ("active_low" \in pin) ELSE low)
            /\ UNCHANGED pin)

Dark(p) == At(p) = "dark" /\ Shell(p, Control(FALSE), "fork")

\* The parent's way after fork.
AfterFork(b) == IF b THEN "leave" ELSE "open"

\* If there is no child the parent goes the same way.
Fork(p) ==
  /\ At(p) = "fork"
  /\ \/ \E c \in Free :
          /\ proc' = [proc EXCEPT ![p].at = AfterFork(proc[p].bg), ![p].kid = c,
                                  ![c] = [Nobody EXCEPT !.at = "open", !.child = TRUE,
                                                        !.limit = proc[p].limit]]
          /\ unlisted' = unlisted \ {c} /\ UNCHANGED bounds
     \/ Goes(p, AfterFork(proc[p].bg)) /\ Fault /\ UNCHANGED unlisted
  /\ UNCHANGED <<lines, ended, led, temp>>

\* A background parent exits.
Leave(p) ==
  /\ At(p) = "leave" /\ Becomes(p, Nobody)
  /\ UNCHANGED <<files, led, temp, bounds>>

Stay(p) == IF proc[p].child THEN "measure" ELSE "sleep"

\* appendpid2file: fopen, which creates a file that is not there, may fail.
Open(p) ==
  /\ At(p) = "open"
  /\ \/ /\ proc' = [proc EXCEPT ![p].at = "write", ![p].fd = "named"]
        /\ UNCHANGED <<unlisted, bounds>>
     \/ Goes(p, Stay(p)) /\ unlisted' = unlisted \union {p} /\ Fault
  /\ UNCHANGED <<lines, ended, led, temp>>

Parents(p) == {q \in Pids : proc[q].kid = p}

SlipParentPid(p) == IF Parents(p) # {} THEN CHOOSE q \in Parents(p) : TRUE ELSE p

\* What fork returned.
SlipForkResult(p) == proc[p].kid

\* getpid()
OwnPid(p) == p

SlipTruncated(pid) == {pid}

\* "a+": whatever was written since the file was opened stays.
Appended(pid) == lines \union {pid}

\* The line is written when the file is closed.
Write(p) ==
  /\ At(p) = "write"
  /\ lines' = IF proc[p].fd = "named" THEN Appended(OwnPid(p)) ELSE lines
  /\ proc' = [proc EXCEPT ![p].at = Stay(p), ![p].fd = "none"]
  /\ UNCHANGED <<unlisted, ended, led, temp, bounds>>

-----------------------------------------------------------------------------
(* The measuring loop                                                      *)

SlipAtLimit(t, level) == t >= level

Over(t, level) == t > level

\* measure_temp reads the sensor; without it nothing is done this time.
Measure(p) ==
  /\ At(p) = "measure"
  /\ proc' = [proc EXCEPT ![p].at = "led", ![p].over = Over(temp, proc[p].limit)]
  /\ UNCHANGED <<files, led, temp, bounds>>

NoSensor(p) == At(p) = "measure" /\ Fault /\ UNCHANGED <<proc, files, led, temp>>

Indicate(p) ==
  /\ At(p) = "led"
  /\ \/ Control(proc[p].over) /\ UNCHANGED bounds
     \/ UNCHANGED led /\ Fault
  /\ proc' = [proc EXCEPT ![p].at = "measure", ![p].over = FALSE]
  /\ UNCHANGED <<files, temp>>

-----------------------------------------------------------------------------
(* A stop                                                                  *)

\* Every other process of the tool has its line in the file.
Undisturbed == Tools \subseteq Settled \intersect lines

\* Monitors of starts that have returned to their caller.
Returned == {m \in Monitors : Parents(m) = {}}

Stop(p) ==
  /\ p \in Free
  /\ Called(p, [Nobody EXCEPT !.at = "cat", !.due = Returned, !.quiet = Undisturbed])

SlipFirstLine == IF lines = {} THEN {} ELSE {CHOOSE q \in lines : TRUE}

\* $(cat pidfile)
Found == lines

\* If the shell cannot be started nothing is killed.
Cat(p) ==
  /\ At(p) = "cat"
  /\ \/ proc' = [proc EXCEPT ![p].at = "kill", ![p].found = Found] /\ UNCHANGED bounds
     \/ proc' = [proc EXCEPT ![p].at = "unlink", ![p].quiet = FALSE] /\ Fault
  /\ UNCHANGED <<files, led, temp>>

\* What a killed process leaves is its line.  A shell it has started outlives
\* it; that is the same as one that was done before.
Killed(P) == ended' = ended \union (P \intersect Registrants) /\ UNCHANGED led

\* kill -9, of whatever has these pids now.
Kill(p) ==
  /\ At(p) = "kill"
  /\ LET table == Without(proc[p].found)
     IN proc' = IF p \in proc[p].found THEN table
                ELSE [table EXCEPT ![p].at = "unlink", ![p].found = {}]
  /\ Killed(proc[p].found)
  /\ UNCHANGED <<lines, unlisted, temp, bounds>>

Unlink(p) ==
  /\ At(p) = "unlink" /\ Remove /\ Unnamed(p, "exit")
  /\ UNCHANGED <<led, temp, bounds>>

Exit(p) ==
  /\ At(p) = "exit" /\ Becomes(p, Nobody)
  /\ UNCHANGED <<files, led, temp, bounds>>

-----------------------------------------------------------------------------
(* The world                                                               *)

\* Somebody kills a process of the tool: ctrl-C, the OOM killer.
Death(p) ==
  /\ p \in Tools /\ deaths < MaxDeaths /\ deaths' = deaths + 1
  /\ proc' = Without({p}) /\ Killed({p})
  /\ UNCHANGED <<lines, unlisted, temp, calls, faults>>

\* Another program is given a pid.
Stranger(p) ==
  /\ p \in Free /\ p \in ended /\ Becomes(p, [Nobody EXCEPT !.at = "other"])
  /\ UNCHANGED <<files, led, temp, bounds>>

Weather ==
  /\ temp' \in Temps \ {temp}
  /\ UNCHANGED <<proc, files, led, bounds>>

Step(p) ==
  \/ RemoveOld(p) \/ Access(p) \/ Check(p) \/ Export(p) \/ Direction(p)
  \/ ActiveLow(p) \/ Dark(p) \/ Fork(p) \/ Leave(p) \/ Open(p) \/ Write(p)
  \/ Measure(p) \/ Indicate(p) \/ Cat(p) \/ Kill(p) \/ Unlink(p) \/ Exit(p)

Next ==
  \/ \E p \in Pids : Start(p) \/ Stop(p) \/ Step(p) \/ NoSensor(p) \/ Death(p) \/ Stranger(p)
  \/ Weather

Spec == Init /\ [][Next]_vars

\* Every process that can run does run.
FairSpec == Spec /\ \A p \in Pids : WF_vars(Step(p))
-----------------------------------------------------------------------------
(* Properties                                                              *)

\* Every variable stays in its type.
TypeOK ==
  /\ proc \in [Pids -> [at : ToolSteps \union {"none", "other"}, bg : BOOLEAN,
                        limit : Limits \union {0}, kid : Pids \union {NoPid},
                        child : BOOLEAN, fd : {"none", "named", "unnamed"},
                        over : BOOLEAN, found : SUBSET Pids, due : SUBSET Pids,
                        quiet : BOOLEAN]]
  /\ lines \subseteq Pids /\ unlisted \subseteq Pids /\ ended \subseteq Pids
  /\ owner \in {"none", "sysfs", "driver"} /\ pin \subseteq {"out", "active_low"}
  /\ low \in BOOLEAN /\ temp \in Temps
  /\ calls \in 0..MaxCalls /\ deaths \in 0..MaxDeaths /\ faults \in 0..MaxFaults

\* A monitor or a foreground parent that has come to rest is listed in the pid
\* file, or the file was removed under it or could not be opened: starts that
\* append at the same time do not lose each other's lines.
SettledListed == Settled \subseteq lines \union unlisted

\* Whatever a stop is about to kill is a monitor or its foreground parent, or was
\* one before somebody killed it: no start lists a process that goes on to other
\* things or ends by itself, so that its pid could be a stranger's.
OnlyMonitorsListed ==
  lines \union UNION {proc[p].found : p \in Pids} \subseteq Registrants \union ended

\* A stop that met only instances at rest with their lines in the file, and was
\* not disturbed by another call, leaves no process of the tool.
QuietStopStops ==
  \A p \in Pids : At(p) = "exit" /\ proc[p].quiet => Tools = {p}

\* A monitor never measures with an LED that is not set up, whatever other
\* starts do to the pin, unless a command failed or the pin is a driver's.
LedReady ==
  Monitors # {} =>
    \/ owner = "sysfs" /\ pin = {"out", "active_low"}
    \/ faults > 0 \/ owner = "driver"

Usable == owner = "sysfs" /\ pin = {"out", "active_low"} /\ Monitors # {}
TooHot == \A m \in Monitors : temp > proc[m].limit
Cool   == \A m \in Monitors : temp <= proc[m].limit

\* While a temperature lasts on which all monitors agree, the LED comes to show
\* it for good, whatever starts and stops did to the pin before.
LedFollows ==
  /\ <>[](Usable /\ TooHot) => <>[]low
  /\ <>[](Usable /\ Cool) => <>[]~low

\* "Stop background service" (usage text, cputempmon.c:109): when a stop is over, no
\* monitor is left whose start had returned before.
StopStops == \A p \in Pids : At(p) = "exit" => proc[p].due = {}
=============================================================================
