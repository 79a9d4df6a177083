------------------------------ MODULE PyTempMon ------------------------------
(***************************************************************************)
(* The temperature monitor in Python (srcs/cputempmon/srcs/python): calls  *)
(* that overlap.  Its class fork looks whether the pid file is there and   *)
(* removes it afterwards, and an exception or an exit ends the instance    *)
(* that came too late.  The LED is the C program's (CpuTempMon).           *)
(***************************************************************************)
EXTENDS Naturals

CONSTANTS
  NumPids,     \* bound: processes
  MaxPyCalls,  \* bound
  MaxPyDeaths  \* bound

ASSUME PyAssumption == NumPids \in Nat /\ MaxPyCalls \in Nat /\ MaxPyDeaths \in Nat

PyPids == 1 .. NumPids

VARIABLES
  there,   \* is there a pid file?
  pids,    \* the pids in it
  pyproc,  \* the processes
  pycalls,
  pydeaths,\* instances killed by somebody else
  stopped  \* history: has anybody called a stop?

history == <<pycalls, pydeaths, stopped>>
pyVars  == <<there, pids, pyproc, history>>

AppendSteps == {"touch", "access", "open", "write"}
PySteps == {"test", "remove", "fork"} \union AppendSteps
KillSteps == {"find", "cat", "kill", "unlink"}

\* `named': does the file it has open still have its name?  `quiet': the stop
\* met only instances at rest, each with its line in the file.
NotYet == [at |-> "none", child |-> FALSE, named |-> FALSE,
           found |-> {}, quiet |-> FALSE]

PyAt(p)    == pyproc[p].at
Instances  == {p \in PyPids : PyAt(p) \notin {"none", "gone"}}
AtRest     == {p \in PyPids : PyAt(p) = "stay"}
PyMonitors == {p \in AtRest : pyproc[p].child}

\* Pids are given out in order, and none of them twice.
Fresh == {p \in PyPids : PyAt(p) = "none" /\ \A q \in 1 .. p - 1 : PyAt(q) # "none"}

PyInit ==
  /\ there = FALSE /\ pids = {} /\ pyproc = [p \in PyPids |-> NotYet]
  /\ pycalls = 0 /\ pydeaths = 0 /\ stopped = FALSE

Leads(p, l) == pyproc' = [pyproc EXCEPT ![p].at = l]

\* Processes that are gone leave nothing.
Ended(P) == [q \in PyPids |-> IF q \in P THEN [NotYet EXCEPT !.at = "gone"] ELSE pyproc[q]]

\* os.remove raises an exception if the file is not there any more.
OsRemove(p, l) ==
  /\ IF there
     THEN pyproc' = [q \in PyPids |-> [pyproc[q] EXCEPT !.named = FALSE, !.at = IF q = p THEN l ELSE @]]
     ELSE pyproc' = Ended({p})
  /\ there' = FALSE /\ pids' = {}

PyCalled(p, rec) ==
  /\ p \in Fresh /\ pycalls < MaxPyCalls /\ pycalls' = pycalls + 1
  /\ pyproc' = [q \in PyPids |-> IF q = p THEN rec ELSE [pyproc[q] EXCEPT !.quiet = FALSE]]
  /\ UNCHANGED <<there, pids, pydeaths>>

-----------------------------------------------------------------------------
(* A start                                                                 *)

\* led.init, which comes first, exits if the pin is not to be had; such a call does
\* nothing here.
PyStart(p) == PyCalled(p, [NotYet EXCEPT !.at = "test"]) /\ UNCHANGED stopped

TestOld(p) ==
  /\ PyAt(p) = "test" /\ Leads(p, IF there THEN "remove" ELSE "fork")
  /\ UNCHANGED <<there, pids, history>>

PyRemoveOld(p) ==
  /\ PyAt(p) = "remove" /\ OsRemove(p, "fork")
  /\ UNCHANGED history

\* A parent in the background (-b) returns and ends.
PyFork(p) ==
  /\ PyAt(p) = "fork"
  /\ \E c \in Fresh, bg \in BOOLEAN :
       pyproc' = [(IF bg THEN Ended({p}) ELSE [pyproc EXCEPT ![p].at = "touch"])
                       EXCEPT ![c] = [NotYet EXCEPT !.at = "touch", !.child = TRUE]]
  /\ UNCHANGED <<there, pids, history>>

SlipNotTouched == there

\* appendpid opens the file and closes it again, so that it is there ...
Touched == TRUE

Touch(p) ==
  /\ PyAt(p) = "touch" /\ there' = Touched /\ Leads(p, "access")
  /\ UNCHANGED <<pids, history>>

\* ... and exits if it is not.
MayWrite(p) ==
  /\ PyAt(p) = "access"
  /\ pyproc' = IF there THEN [pyproc EXCEPT ![p].at = "open"] ELSE Ended({p})
  /\ UNCHANGED <<there, pids, history>>

OpenAgain(p) ==
  /\ PyAt(p) = "open"
  /\ there' = TRUE /\ pyproc' = [pyproc EXCEPT ![p].at = "write", ![p].named = TRUE]
  /\ UNCHANGED <<pids, history>>

SlipByName(p) == TRUE

\* A line written to a file without a name is lost.
Reaches(p) == pyproc[p].named

WritePid(p) ==
  /\ PyAt(p) = "write"
  /\ pids' = IF Reaches(p) THEN pids \union {p} ELSE pids
  /\ pyproc' = [pyproc EXCEPT ![p].at = "stay", ![p].named = FALSE]
  /\ UNCHANGED <<there, history>>

-----------------------------------------------------------------------------
(* A stop                                                                  *)

PyStop(p) ==
  /\ PyCalled(p, [NotYet EXCEPT !.at = "find", !.quiet = Instances \subseteq AtRest \intersect pids])
  /\ stopped' = TRUE

FindFile(p) ==
  /\ PyAt(p) = "find"
  /\ pyproc' = IF there THEN [pyproc EXCEPT ![p].at = "cat"] ELSE Ended({p})
  /\ UNCHANGED <<there, pids, history>>

\* Of another file than the instances'.
SlipOtherFile == {}

\* cat pidfile | xargs kill -9
Listed == pids

CatPids(p) ==
  /\ PyAt(p) = "cat" /\ pyproc' = [pyproc EXCEPT ![p].at = "kill", ![p].found = Listed]
  /\ UNCHANGED <<there, pids, history>>

KillAll(p) ==
  /\ PyAt(p) = "kill"
  /\ pyproc' = [Ended(pyproc[p].found) EXCEPT ![p].at = "unlink", ![p].found = {}]
  /\ UNCHANGED <<there, pids, history>>

\* Then sys.exit.
PyUnlink(p) ==
  /\ PyAt(p) = "unlink" /\ OsRemove(p, "exit")
  /\ UNCHANGED history

PyExit(p) ==
  /\ PyAt(p) = "exit" /\ pyproc' = Ended({p})
  /\ UNCHANGED <<there, pids, history>>

\* An instance is killed by somebody else, or cannot fork.
PyDeath(p) ==
  /\ p \in Instances /\ pydeaths < MaxPyDeaths /\ pydeaths' = pydeaths + 1
  /\ pyproc' = Ended({p})
  /\ UNCHANGED <<there, pids, pycalls, stopped>>

PyStep(p) ==
  \/ TestOld(p) \/ PyRemoveOld(p) \/ PyFork(p)
  \/ Touch(p) \/ MayWrite(p) \/ OpenAgain(p) \/ WritePid(p)
  \/ FindFile(p) \/ CatPids(p) \/ KillAll(p) \/ PyUnlink(p) \/ PyExit(p)

PyNext == \E p \in PyPids : PyStart(p) \/ PyStop(p) \/ PyStep(p) \/ PyDeath(p)

-----------------------------------------------------------------------------
(* Properties                                                              *)

\* Every variable stays in its type.
PyTypeOK ==
  /\ there \in BOOLEAN /\ pids \subseteq PyPids /\ (~ there => pids = {})
  /\ stopped \in BOOLEAN /\ pycalls \in 0 .. MaxPyCalls /\ pydeaths \in 0 .. MaxPyDeaths
  /\ pyproc \in [PyPids -> [at : PySteps \union KillSteps \union {"none", "stay", "exit", "gone"},
                            child : BOOLEAN, named : BOOLEAN,
                            found : SUBSET PyPids, quiet : BOOLEAN]]
  /\ \A p \in PyPids : pyproc[p].named => there

\* Starts that overlap may take each other's file away and end each other by
\* doing so, but never all of them: when they have come to rest, and nobody has
\* stopped or killed one, a monitor runs and is in the file.
StartsLeaveOne ==
  pycalls > 0 /\ ~ stopped /\ pydeaths = 0 /\ Instances = AtRest => PyMonitors \intersect pids # {}

\* A stop that met only instances at rest and in the file, and was not disturbed
\* by another call, leaves none.
PyQuietStopStops == \A p \in PyPids : PyAt(p) = "exit" /\ pyproc[p].quiet => Instances = {p}
=============================================================================
