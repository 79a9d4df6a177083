------------------------ MODULE BoardScripts_proofs ------------------------
(***************************************************************************)
(* The scripts, for any number of calls, processes, faults and power cuts. *)
(* What the calls of uno220gpio and of uno220uart keep true is in          *)
(* Gpio_proofs and Uart_proofs; here it becomes theorems of the            *)
(* specification.  For the Python monitor: starts that overlap leave a     *)
(* listed monitor, and an undisturbed stop leaves nothing.                 *)
(***************************************************************************)
EXTENDS BoardScripts, Gpio_proofs, Uart_proofs, TLAPS

PyLabels == PySteps \union KillSteps \union {"none", "stay", "exit", "gone"}

PyProcess ==
  [at : PyLabels, child : BOOLEAN, named : BOOLEAN, found : SUBSET PyPids, quiet : BOOLEAN]

StopSteps == KillSteps \union {"exit"}

PyTable == pyproc \in [PyPids -> PyProcess]

-----------------------------------------------------------------------------
(* What the steps do to the process table                                  *)

LEMMA Bounds == PyPids \subseteq Nat /\ MaxPyCalls \in Nat /\ MaxPyDeaths \in Nat
  BY PyAssumption DEF PyPids

LEMMA Labels ==
  /\ {"test", "remove", "fork", "touch", "access", "open", "write", "find", "cat", "kill",
      "unlink", "none", "stay", "exit", "gone"} = PyLabels
  /\ StopSteps = {"find", "cat", "kill", "unlink", "exit"}
  BY DEF PyLabels, PySteps, AppendSteps, KillSteps, StopSteps

LEMMA FieldTypes ==
  ASSUME NEW r \in PyProcess
  PROVE  /\ r.at \in PyLabels /\ r.child \in BOOLEAN /\ r.named \in BOOLEAN
         /\ r.found \subseteq PyPids /\ r.quiet \in BOOLEAN
  BY DEF PyProcess

LEMMA NotYetType ==
  /\ NotYet \in PyProcess /\ NotYet.at = "none" /\ ~ NotYet.child /\ ~ NotYet.named /\ ~ NotYet.quiet
  BY Labels DEF NotYet, PyProcess

(* A process that is somewhere else.                                        *)
LEMMA AtElsewhere ==
  ASSUME NEW r \in PyProcess, NEW l \in PyLabels
  PROVE  /\ [r EXCEPT !.at = l] \in PyProcess
         /\ [r EXCEPT !.at = l].at = l
         /\ [r EXCEPT !.at = l].child = r.child /\ [r EXCEPT !.at = l].named = r.named
         /\ [r EXCEPT !.at = l].found = r.found /\ [r EXCEPT !.at = l].quiet = r.quiet
  BY DEF PyProcess

(* One process changes.                                                     *)
LEMMA One ==
  ASSUME PyTable, NEW p \in PyPids, NEW r \in PyProcess, pyproc' = [pyproc EXCEPT ![p] = r]
  PROVE  PyTable' /\ pyproc'[p] = r /\ \A q \in PyPids \ {p} : pyproc'[q] = pyproc[q]
  BY DEF PyTable

LEMMA LeadsTo ==
  ASSUME PyTable, NEW p \in PyPids, NEW l \in PyLabels, pyproc' = [pyproc EXCEPT ![p].at = l]
  PROVE  /\ PyTable'
         /\ pyproc'[p].at = l /\ pyproc'[p].child = pyproc[p].child
         /\ pyproc'[p].named = pyproc[p].named /\ pyproc'[p].found = pyproc[p].found
         /\ pyproc'[p].quiet = pyproc[p].quiet
         /\ \A q \in PyPids \ {p} : pyproc'[q] = pyproc[q]
<1>1. pyproc[p] \in PyProcess
  BY DEF PyTable
<1> DEFINE r == [pyproc[p] EXCEPT !.at = l]
<1>2. pyproc' = [pyproc EXCEPT ![p] = r]
  OBVIOUS
<1>3. /\ r \in PyProcess /\ r.at = l /\ r.child = pyproc[p].child /\ r.named = pyproc[p].named
      /\ r.found = pyproc[p].found /\ r.quiet = pyproc[p].quiet
  BY <1>1, AtElsewhere
<1> HIDE DEF r
<1>4. QED
  BY <1>2, <1>3, One

LEMMA EndedOnes ==
  ASSUME PyTable, NEW P
  PROVE  /\ Ended(P) \in [PyPids -> PyProcess]
         /\ \A q \in PyPids : q \in P => /\ Ended(P)[q].at = "gone" /\ ~ Ended(P)[q].quiet
                                         /\ ~ Ended(P)[q].child /\ ~ Ended(P)[q].named
         /\ \A q \in PyPids : q \notin P => Ended(P)[q] = pyproc[q]
<1>1. pyproc \in [PyPids -> PyProcess]
  BY DEF PyTable
<1> DEFINE g == [NotYet EXCEPT !.at = "gone"]
<1>2. g \in PyProcess /\ g.at = "gone" /\ ~ g.quiet /\ ~ g.child /\ ~ g.named
  BY NotYetType, AtElsewhere, Labels
<1>3. Ended(P) = [q \in PyPids |-> IF q \in P THEN g ELSE pyproc[q]]
  BY DEF Ended
<1> HIDE DEF g
<1>4. QED
  BY <1>1, <1>2, <1>3

(* Somebody else's file name is gone.                                       *)
LEMMA Removed ==
  ASSUME PyTable, NEW p \in PyPids, NEW l \in PyLabels, OsRemove(p, l)
  PROVE  /\ PyTable' /\ ~ there' /\ pids' = {}
         /\ there => /\ pyproc'[p].at = l
                     /\ \A q \in PyPids \ {p} : pyproc'[q].at = pyproc[q].at
                     /\ \A q \in PyPids : /\ pyproc'[q].child = pyproc[q].child
                                          /\ pyproc'[q].quiet = pyproc[q].quiet
                                          /\ ~ pyproc'[q].named
         /\ ~ there => pyproc' = Ended({p})
<1>1. CASE there
  <2> DEFINE f(q) == [pyproc[q] EXCEPT !.named = FALSE, !.at = IF q = p THEN l ELSE @]
  <2>1. ASSUME NEW q \in PyPids
        PROVE  /\ f(q) \in PyProcess /\ f(q).at = (IF q = p THEN l ELSE pyproc[q].at)
               /\ f(q).child = pyproc[q].child /\ f(q).quiet = pyproc[q].quiet /\ ~ f(q).named
    <3>1. pyproc[q] \in PyProcess
      BY DEF PyTable
    <3>2. QED
      BY <3>1 DEF PyProcess
  <2>2. pyproc' = [q \in PyPids |-> f(q)]
    BY <1>1 DEF OsRemove
  <2> HIDE DEF f
  <2>3. QED
    BY <1>1, <2>1, <2>2 DEF OsRemove, PyTable
<1>2. CASE ~ there
  BY <1>2, EndedOnes DEF OsRemove, PyTable
<1>3. QED
  BY <1>1, <1>2

LEMMA Forked ==
  ASSUME PyTable, NEW p \in PyPids, PyFork(p)
  PROVE  \E c \in PyPids : 
           /\ c # p /\ PyTable' /\ PyAt(c) = "none"
           /\ pyproc'[c].at = "touch" /\ pyproc'[c].child /\ ~ pyproc'[c].quiet /\ ~ pyproc'[c].named
           /\ pyproc'[p].at \in {"gone", "touch"} /\ (pyproc'[p].quiet => pyproc[p].quiet)
           /\ (pyproc'[p].named => pyproc[p].named)
           /\ \A q \in PyPids \ {p, c} : pyproc'[q] = pyproc[q]
<1>1. PICK c \in Fresh, bg \in BOOLEAN :
        pyproc' = [(IF bg THEN Ended({p}) ELSE [pyproc EXCEPT ![p].at = "touch"])
                     EXCEPT ![c] = [NotYet EXCEPT !.at = "touch", !.child = TRUE]]
  BY DEF PyFork
<1>2. c \in PyPids /\ PyAt(c) = "none" /\ c # p
  BY <1>1 DEF Fresh, PyAt, PyFork
<1> DEFINE r == [NotYet EXCEPT !.at = "touch", !.child = TRUE]
           t == IF bg THEN Ended({p}) ELSE [pyproc EXCEPT ![p].at = "touch"]
<1>3. r \in PyProcess /\ r.at = "touch" /\ r.child /\ ~ r.quiet /\ ~ r.named
  BY Labels DEF NotYet, PyProcess
<1>4. /\ t \in [PyPids -> PyProcess] /\ t[p].at \in {"gone", "touch"}
      /\ t[p].quiet => pyproc[p].quiet
      /\ t[p].named => pyproc[p].named
      /\ \A q \in PyPids \ {p} : t[q] = pyproc[q]
  <2>1. CASE bg
    BY <2>1, EndedOnes
  <2>2. CASE ~ bg
    <3>1. pyproc[p] \in PyProcess /\ "touch" \in PyLabels
      BY Labels DEF PyTable
    <3>2. t = [pyproc EXCEPT ![p] = [pyproc[p] EXCEPT !.at = "touch"]]
      BY <2>2
    <3> HIDE DEF t
    <3>3. QED
      BY <3>1, <3>2, AtElsewhere DEF PyTable
  <2>3. QED
    BY <1>1, <2>1, <2>2
<1>5. pyproc' = [t EXCEPT ![c] = r]
  BY <1>1
<1> HIDE DEF r, t
<1>6. QED
  BY <1>2, <1>3, <1>4, <1>5 DEF PyTable

LEMMA Begins ==
  ASSUME PyTable, NEW p \in PyPids, NEW r \in PyProcess, PyCalled(p, r)
  PROVE  /\ PyTable' /\ PyAt(p) = "none" /\ pyproc'[p] = r
         /\ \A q \in PyPids \ {p} : /\ pyproc'[q].at = pyproc[q].at /\ pyproc'[q].child = pyproc[q].child
                                    /\ pyproc'[q].named = pyproc[q].named /\ ~ pyproc'[q].quiet
<1> DEFINE f(q) == [pyproc[q] EXCEPT !.quiet = FALSE]
<1>1. ASSUME NEW q \in PyPids
      PROVE  /\ f(q) \in PyProcess /\ f(q).at = pyproc[q].at /\ f(q).child = pyproc[q].child
             /\ f(q).named = pyproc[q].named /\ ~ f(q).quiet
  <2>1. pyproc[q] \in PyProcess
    BY DEF PyTable
  <2>2. QED
    BY <2>1 DEF PyProcess
<1>2. pyproc' = [q \in PyPids |-> IF q = p THEN r ELSE f(q)]
  BY DEF PyCalled
<1> HIDE DEF f
<1>3. PyAt(p) = "none"
  BY DEF PyCalled, Fresh
<1>4. QED
  BY <1>1, <1>2, <1>3 DEF PyTable

LEMMA Cats ==
  ASSUME PyTable, pids \subseteq PyPids, NEW p \in PyPids, CatPids(p)
  PROVE  /\ PyTable' /\ pyproc'[p].at = "kill" /\ pyproc'[p].found = pids
         /\ pyproc'[p].quiet = pyproc[p].quiet /\ pyproc'[p].named = pyproc[p].named
         /\ \A q \in PyPids \ {p} : pyproc'[q] = pyproc[q]
<1> DEFINE r == [pyproc[p] EXCEPT !.at = "kill", !.found = pids]
<1>1. pyproc[p] \in PyProcess /\ "kill" \in PyLabels
  BY Labels DEF PyTable
<1>2. r \in PyProcess /\ r.at = "kill" /\ r.found = pids /\ r.quiet = pyproc[p].quiet
      /\ r.named = pyproc[p].named
  BY <1>1 DEF PyProcess
<1>3. pyproc' = [pyproc EXCEPT ![p] = r]
  BY DEF CatPids, Listed
<1> HIDE DEF r
<1>4. QED
  BY <1>2, <1>3, One

LEMMA Kills ==
  ASSUME PyTable, NEW p \in PyPids, KillAll(p)
  PROVE  /\ PyTable' /\ pyproc'[p].at = "unlink" /\ (pyproc'[p].quiet => pyproc[p].quiet)
         /\ \A q \in PyPids : pyproc'[q].named => pyproc[q].named
         /\ \A q \in PyPids \ {p} :
              pyproc'[q] = pyproc[q] \/ (pyproc'[q].at = "gone" /\ ~ pyproc'[q].quiet)
         /\ \A q \in pyproc[p].found \ {p} : pyproc'[q].at = "gone"
<1> DEFINE t == Ended(pyproc[p].found)
           r == [t[p] EXCEPT !.at = "unlink", !.found = {}]
<1>1. /\ t \in [PyPids -> PyProcess] /\ (t[p].quiet => pyproc[p].quiet)
      /\ \A q \in PyPids : t[q] = pyproc[q] \/ (t[q].at = "gone" /\ ~ t[q].quiet)
      /\ \A q \in PyPids : t[q].named => pyproc[q].named
      /\ \A q \in pyproc[p].found : t[q].at = "gone"
  <2>1. pyproc[p].found \subseteq PyPids
    BY FieldTypes DEF PyTable
  <2>2. QED
    BY <2>1, EndedOnes
<1>2. pyproc' = [t EXCEPT ![p] = r]
  BY DEF KillAll
<1>3. r \in PyProcess /\ r.at = "unlink" /\ r.quiet = t[p].quiet /\ r.named = t[p].named
  <2>1. t[p] \in PyProcess /\ "unlink" \in PyLabels
    BY <1>1, Labels
  <2> HIDE DEF t
  <2>2. QED
    BY <2>1 DEF PyProcess
<1>4. pyproc[p].found \subseteq PyPids
  BY FieldTypes DEF PyTable
<1> HIDE DEF t, r
<1>5. QED
  BY <1>1, <1>2, <1>3, <1>4 DEF PyTable

LEMMA Opens ==
  ASSUME PyTable, NEW p \in PyPids, OpenAgain(p)
  PROVE  /\ PyTable' /\ pyproc'[p].at = "write" /\ pyproc'[p].named
         /\ pyproc'[p].child = pyproc[p].child /\ pyproc'[p].quiet = pyproc[p].quiet
         /\ \A q \in PyPids \ {p} : pyproc'[q] = pyproc[q]
<1> DEFINE r == [pyproc[p] EXCEPT !.at = "write", !.named = TRUE]
<1>1. pyproc[p] \in PyProcess /\ "write" \in PyLabels
  BY Labels DEF PyTable
<1>2. r \in PyProcess /\ r.at = "write" /\ r.named /\ r.child = pyproc[p].child /\ r.quiet = pyproc[p].quiet
  BY <1>1 DEF PyProcess
<1>3. pyproc' = [pyproc EXCEPT ![p] = r]
  BY DEF OpenAgain
<1> HIDE DEF r
<1>4. QED
  BY <1>2, <1>3, One

LEMMA WritesLine ==
  ASSUME PyTable, NEW p \in PyPids, WritePid(p)
  PROVE  /\ PyTable' /\ pyproc'[p].at = "stay" /\ ~ pyproc'[p].named
         /\ pyproc'[p].child = pyproc[p].child /\ pyproc'[p].quiet = pyproc[p].quiet
         /\ \A q \in PyPids \ {p} : pyproc'[q] = pyproc[q]
<1> DEFINE r == [pyproc[p] EXCEPT !.at = "stay", !.named = FALSE]
<1>1. pyproc[p] \in PyProcess /\ "stay" \in PyLabels
  BY Labels DEF PyTable
<1>2. r \in PyProcess /\ r.at = "stay" /\ ~ r.named /\ r.child = pyproc[p].child /\ r.quiet = pyproc[p].quiet
  BY <1>1 DEF PyProcess
<1>3. pyproc' = [pyproc EXCEPT ![p] = r]
  BY DEF WritePid
<1> HIDE DEF r
<1>4. QED
  BY <1>2, <1>3, One

-----------------------------------------------------------------------------
(* The invariant                                                           *)

PyType ==
  /\ PyTable /\ there \in BOOLEAN /\ pids \subseteq PyPids /\ (~ there => pids = {})
  /\ \A p \in PyPids : pyproc[p].named => there
  /\ stopped \in BOOLEAN /\ pycalls \in Nat /\ pydeaths \in Nat

(* Where stops are, if there has been none.                                 *)
StopInv == ~ stopped => \A p \in PyPids : PyAt(p) \notin StopSteps

(* A process that is going to leave a listed monitor, or is one: it still    *)
(* has its fork before it, or is a child whose file, if it has got so far,   *)
(* is there.                                                                *)
Promising(p) ==
  \/ PyAt(p) \in {"test", "fork"}
  \/ PyAt(p) = "remove" /\ there
  \/ pyproc[p].child /\ \/ PyAt(p) = "touch"
                        \/ PyAt(p) \in {"access", "open"} /\ there
                        \/ PyAt(p) = "write" /\ pyproc[p].named
                        \/ PyAt(p) = "stay" /\ p \in pids

LeftInv == pycalls > 0 /\ ~ stopped /\ pydeaths = 0 => \E p \in PyPids : Promising(p)

(* A stop that is not disturbed: everybody else is at rest and listed, then  *)
(* found, then gone.                                                        *)
QuietInv ==
  \A p \in PyPids : pyproc[p].quiet =>
    /\ PyAt(p) \in StopSteps /\ Instances \ {p} \subseteq AtRest
    /\ PyAt(p) \in {"find", "cat"} => Instances \ {p} \subseteq pids
    /\ PyAt(p) = "kill" => Instances \ {p} \subseteq pyproc[p].found
    /\ PyAt(p) \in {"unlink", "exit"} => Instances \subseteq {p}

PyInv == PyType /\ StopInv /\ LeftInv /\ QuietInv

LEMMA PyInvInit == Init => PyInv
<1> SUFFICES ASSUME PyInit PROVE PyInv
  BY DEF Init
<1>1. /\ there = FALSE /\ pids = {} /\ pyproc = [p \in PyPids |-> NotYet]
      /\ pycalls = 0 /\ pydeaths = 0 /\ stopped = FALSE
  BY DEF PyInit
<1>2. \A p \in PyPids : pyproc[p] = NotYet
  BY <1>1
<1>3. PyType
  BY <1>1, NotYetType DEF PyType, PyTable
<1>4. StopInv /\ QuietInv /\ LeftInv
  BY <1>1, <1>2, NotYetType, Labels DEF StopInv, QuietInv, LeftInv, PyAt
<1>5. QED
  BY <1>3, <1>4 DEF PyInv

(* While a stop is quiet nobody else takes a step.                          *)
LEMMA QuietAlone ==
  ASSUME QuietInv, NEW p \in PyPids, NEW q \in PyPids, pyproc[q].quiet,
         PyAt(p) \notin {"none", "gone", "stay"}
  PROVE  q = p /\ PyAt(p) \in StopSteps
  BY DEF QuietInv, Instances, AtRest

LEMMA QuietKept ==
  ASSUME QuietInv, NEW p \in PyPids, PyAt(p) \notin {"none", "gone", "stay"}, PyAt(p) \notin StopSteps,
         \A q \in PyPids : pyproc'[q].quiet => pyproc[q].quiet
  PROVE  QuietInv'
  BY QuietAlone DEF QuietInv

LEMMA LeftKept ==
  ASSUME LeftInv, UNCHANGED history, NEW p \in PyPids,
         \A w \in PyPids : Promising(w) => (\E v \in PyPids : Promising(v)')
  PROVE  LeftInv'
<1>1. pycalls' = pycalls /\ pydeaths' = pydeaths /\ stopped' = stopped
  BY DEF history
<1>2. QED
  BY <1>1 DEF LeftInv

(* A step of a start.                                                       *)
LEMMA StartStep ==
  ASSUME PyInv, NEW p \in PyPids,
         TestOld(p) \/ PyRemoveOld(p) \/ PyFork(p) \/ Touch(p) \/ MayWrite(p) \/ OpenAgain(p) \/ WritePid(p)
  PROVE  PyInv'
<1>1. /\ PyTable /\ there \in BOOLEAN /\ pids \subseteq PyPids /\ (~ there => pids = {})
      /\ \A q \in PyPids : pyproc[q].named => there
      /\ stopped \in BOOLEAN /\ pycalls \in Nat /\ pydeaths \in Nat
  BY DEF PyInv, PyType
<1>2. StopInv /\ LeftInv /\ QuietInv
  BY DEF PyInv
<1>3. /\ UNCHANGED history
      /\ pycalls' = pycalls /\ pydeaths' = pydeaths /\ stopped' = stopped
  BY DEF TestOld, PyRemoveOld, PyFork, Touch, MayWrite, OpenAgain, WritePid, history
<1>4. ASSUME PyTable', there' \in BOOLEAN, pids' \subseteq PyPids, ~ there' => pids' = {},
             \A q \in PyPids : pyproc'[q].at \notin StopSteps \/ pyproc'[q].at = pyproc[q].at,
             \A q \in PyPids : pyproc'[q].quiet => pyproc[q].quiet,
             \A q \in PyPids : pyproc'[q].named => there',
             PyAt(p) \notin {"none", "gone", "stay"}, PyAt(p) \notin StopSteps,
             \A w \in PyPids : Promising(w) => (\E v \in PyPids : Promising(v)')
      PROVE  PyInv'
  <2>1. PyType'
    BY <1>1, <1>3, <1>4 DEF PyType
  <2>2. StopInv'
    BY <1>2, <1>3, <1>4 DEF StopInv, PyAt
  <2>3. QuietInv'
    BY <1>2, <1>4, QuietKept
  <2>4. LeftInv'
    BY <1>2, <1>3, <1>4, LeftKept
  <2>5. QED
    BY <2>1, <2>2, <2>3, <2>4 DEF PyInv
<1>5. CASE TestOld(p)
  <2>1. /\ PyAt(p) = "test" /\ there' = there /\ pids' = pids
        /\ pyproc' = [pyproc EXCEPT ![p].at = IF there THEN "remove" ELSE "fork"]
    BY <1>5 DEF TestOld, Leads
  <2>2. /\ PyTable' /\ pyproc'[p].at = (IF there THEN "remove" ELSE "fork")
        /\ pyproc'[p].quiet = pyproc[p].quiet /\ (pyproc'[p].named => pyproc[p].named)
        /\ \A q \in PyPids \ {p} : pyproc'[q] = pyproc[q]
    BY <1>1, <2>1, LeadsTo, Labels
  <2>3. Promising(p)'
    BY <2>1, <2>2 DEF Promising, PyAt
  <2>4. QED
    BY <1>1, <1>4, <2>1, <2>2, <2>3, Labels
<1>6. CASE PyRemoveOld(p)
  <2>1. PyAt(p) = "remove" /\ OsRemove(p, "fork") /\ "fork" \in PyLabels
    BY <1>6, Labels DEF PyRemoveOld
  <2>2. /\ PyTable' /\ ~ there' /\ pids' = {}
        /\ there => /\ pyproc'[p].at = "fork"
                    /\ \A q \in PyPids \ {p} : pyproc'[q].at = pyproc[q].at
                    /\ \A q \in PyPids : pyproc'[q].quiet = pyproc[q].quiet /\ ~ pyproc'[q].named
        /\ ~ there => pyproc' = Ended({p})
    BY <1>1, <2>1, Removed
  <2>3. CASE there
    <3>1. Promising(p)'
      BY <2>2, <2>3 DEF Promising, PyAt
    <3>2. there' \in BOOLEAN
      BY <2>1 DEF OsRemove
    <3>3. QED
      BY <1>4, <2>1, <2>2, <2>3, <3>1, <3>2, Labels
  <2>4. CASE ~ there
    <3>1. /\ \A q \in PyPids \ {p} : pyproc'[q] = pyproc[q]
          /\ pyproc'[p].at = "gone" /\ ~ pyproc'[p].quiet /\ ~ pyproc'[p].named
      BY <1>1, <2>2, <2>4, EndedOnes
    <3>2. there' = there /\ pids' = pids
      BY <1>1, <2>1, <2>2, <2>4 DEF OsRemove
    <3>3. ASSUME NEW w \in PyPids, Promising(w) PROVE Promising(w)'
      <4>1. w # p
        BY <2>1, <2>4, <3>3 DEF Promising
      <4>2. QED
        BY <3>1, <3>2, <3>3, <4>1 DEF Promising, PyAt
    <3>4. QED
      BY <1>1, <1>4, <2>1, <2>2, <3>1, <3>2, <3>3, Labels
  <2>5. QED
    BY <2>3, <2>4
<1>7. CASE PyFork(p)
  <2>1. PyAt(p) = "fork" /\ there' = there /\ pids' = pids
    BY <1>7 DEF PyFork
  <2>2. PICK c \in PyPids :
           /\ c # p /\ PyTable' /\ PyAt(c) = "none"
           /\ pyproc'[c].at = "touch" /\ pyproc'[c].child /\ ~ pyproc'[c].quiet /\ ~ pyproc'[c].named
           /\ pyproc'[p].at \in {"gone", "touch"} /\ (pyproc'[p].quiet => pyproc[p].quiet)
           /\ (pyproc'[p].named => pyproc[p].named)
           /\ \A q \in PyPids \ {p, c} : pyproc'[q] = pyproc[q]
    BY <1>1, <1>7, Forked
  <2>3. Promising(c)'
    BY <2>2 DEF Promising, PyAt
  <2>4. QED
    BY <1>1, <1>4, <2>1, <2>2, <2>3, Labels
<1>8. CASE Touch(p)
  <2>1. /\ PyAt(p) = "touch" /\ there' = TRUE /\ pids' = pids
        /\ pyproc' = [pyproc EXCEPT ![p].at = "access"]
    BY <1>8 DEF Touch, Leads, Touched
  <2>2. /\ PyTable' /\ pyproc'[p].at = "access" /\ pyproc'[p].child = pyproc[p].child
        /\ pyproc'[p].quiet = pyproc[p].quiet /\ (pyproc'[p].named => pyproc[p].named)
        /\ \A q \in PyPids \ {p} : pyproc'[q] = pyproc[q]
    BY <1>1, <2>1, LeadsTo, Labels
  <2>3. ASSUME NEW w \in PyPids, Promising(w) PROVE Promising(w)'
    <3>1. CASE w = p
      BY <2>1, <2>2, <2>3, <3>1 DEF Promising, PyAt
    <3>2. CASE w # p
      BY <2>1, <2>2, <2>3, <3>2 DEF Promising, PyAt
    <3>3. QED
      BY <3>1, <3>2
  <2>4. QED
    BY <1>1, <1>4, <2>1, <2>2, <2>3, Labels
<1>9. CASE MayWrite(p)
  <2>1. /\ PyAt(p) = "access" /\ there' = there /\ pids' = pids
        /\ there => pyproc' = [pyproc EXCEPT ![p].at = "open"]
        /\ ~ there => pyproc' = Ended({p})
    BY <1>9 DEF MayWrite
  <2>2. CASE there
    <3>1. /\ PyTable' /\ pyproc'[p].at = "open" /\ pyproc'[p].child = pyproc[p].child
          /\ pyproc'[p].quiet = pyproc[p].quiet /\ (pyproc'[p].named => pyproc[p].named)
          /\ \A q \in PyPids \ {p} : pyproc'[q] = pyproc[q]
      BY <1>1, <2>1, <2>2, LeadsTo, Labels
    <3>2. ASSUME NEW w \in PyPids, Promising(w) PROVE Promising(w)'
      <4>1. CASE w = p
        BY <2>1, <2>2, <3>1, <3>2, <4>1 DEF Promising, PyAt
      <4>2. CASE w # p
        BY <2>1, <2>2, <3>1, <3>2, <4>2 DEF Promising, PyAt
      <4>3. QED
        BY <4>1, <4>2
    <3>3. QED
      BY <1>1, <1>4, <2>1, <2>2, <3>1, <3>2, Labels
  <2>3. CASE ~ there
    <3>1. /\ PyTable' /\ \A q \in PyPids \ {p} : pyproc'[q] = pyproc[q]
          /\ pyproc'[p].at = "gone" /\ ~ pyproc'[p].quiet /\ ~ pyproc'[p].named
      BY <1>1, <2>1, <2>3, EndedOnes DEF PyTable
    <3>2. ASSUME NEW w \in PyPids, Promising(w) PROVE Promising(w)'
      <4>1. w # p
        BY <2>1, <2>3, <3>2 DEF Promising
      <4>2. QED
        BY <2>1, <3>1, <3>2, <4>1 DEF Promising, PyAt
    <3>3. QED
      BY <1>1, <1>4, <2>1, <2>3, <3>1, <3>2, Labels
  <2>4. QED
    BY <2>2, <2>3
<1>10. CASE OpenAgain(p)
  <2>1. PyAt(p) = "open" /\ there' = TRUE /\ pids' = pids
    BY <1>10 DEF OpenAgain
  <2>2. /\ PyTable' /\ pyproc'[p].at = "write" /\ pyproc'[p].named
        /\ pyproc'[p].child = pyproc[p].child /\ pyproc'[p].quiet = pyproc[p].quiet
        /\ \A q \in PyPids \ {p} : pyproc'[q] = pyproc[q]
    BY <1>1, <1>10, Opens
  <2>3. ASSUME NEW w \in PyPids, Promising(w) PROVE Promising(w)'
    <3>1. CASE w = p
      BY <2>1, <2>2, <2>3, <3>1 DEF Promising, PyAt
    <3>2. CASE w # p
      BY <2>1, <2>2, <2>3, <3>2 DEF Promising, PyAt
    <3>3. QED
      BY <3>1, <3>2
  <2>4. QED
    BY <1>1, <1>4, <2>1, <2>2, <2>3, Labels
<1>11. CASE WritePid(p)
  <2>1. /\ PyAt(p) = "write" /\ there' = there
        /\ pids' = IF pyproc[p].named THEN pids \union {p} ELSE pids
    BY <1>11 DEF WritePid, Reaches
  <2>2. /\ PyTable' /\ pyproc'[p].at = "stay" /\ pyproc'[p].child = pyproc[p].child
        /\ pyproc'[p].quiet = pyproc[p].quiet /\ (pyproc'[p].named => pyproc[p].named)
        /\ \A q \in PyPids \ {p} : pyproc'[q] = pyproc[q]
    BY <1>1, <1>11, WritesLine
  <2>3. ASSUME NEW w \in PyPids, Promising(w) PROVE Promising(w)'
    <3>1. CASE w = p
      BY <2>1, <2>2, <2>3, <3>1 DEF Promising, PyAt
    <3>2. CASE w # p
      BY <2>1, <2>2, <2>3, <3>2 DEF Promising, PyAt
    <3>3. QED
      BY <3>1, <3>2
  <2>4. ~ there' => pids' = {}
    BY <1>1, <2>1
  <2>5. QED
    BY <1>1, <1>4, <2>1, <2>2, <2>3, <2>4, Labels
<1>12. QED
  BY <1>5, <1>6, <1>7, <1>8, <1>9, <1>10, <1>11

(* A new call.                                                              *)
LEMMA CallStep == ASSUME PyInv, NEW p \in PyPids, PyStart(p) \/ PyStop(p) PROVE PyInv'
<1>1. /\ PyTable /\ there \in BOOLEAN /\ pids \subseteq PyPids /\ (~ there => pids = {})
      /\ \A q \in PyPids : pyproc[q].named => there
      /\ stopped \in BOOLEAN /\ pycalls \in Nat /\ pydeaths \in Nat
  BY DEF PyInv, PyType
<1>2. StopInv /\ QuietInv
  BY DEF PyInv
<1> DEFINE still == Instances \subseteq AtRest \intersect pids
           start == [NotYet EXCEPT !.at = "test"]
           stop  == [NotYet EXCEPT !.at = "find", !.quiet = still]
<1>3. /\ start \in PyProcess /\ start.at = "test" /\ ~ start.quiet /\ ~ start.named
      /\ stop \in PyProcess /\ stop.at = "find" /\ stop.quiet = still /\ ~ stop.named
  BY Labels DEF NotYet, PyProcess
<1>4. \E r \in {start, stop} : PyCalled(p, r)
  BY DEF PyStart, PyStop
<1>5. PICK r \in {start, stop} : PyCalled(p, r)
  BY <1>4
<1>6. there' = there /\ pids' = pids /\ pydeaths' = pydeaths /\ pycalls' = pycalls + 1
  BY <1>5 DEF PyCalled
<1>7. r = start \/ r = stop
  BY <1>5
<1>8. \/ r = start /\ stopped' = stopped
      \/ stopped' = TRUE
  <2>1. CASE PyStart(p)
    <3>1. PyCalled(p, start) /\ stopped' = stopped
      BY <2>1 DEF PyStart
    <3>2. pyproc'[p] = r /\ pyproc'[p] = start
      BY <1>1, <1>3, <1>5, <3>1, Begins
    <3>3. QED
      BY <3>1, <3>2
  <2>2. CASE PyStop(p)
    BY <2>2 DEF PyStop
  <2>3. QED
    BY <2>1, <2>2
<1> HIDE DEF start, stop
<1>9. /\ PyTable' /\ PyAt(p) = "none" /\ pyproc'[p] = r
      /\ \A q \in PyPids \ {p} : /\ pyproc'[q].at = pyproc[q].at /\ pyproc'[q].child = pyproc[q].child
                                 /\ pyproc'[q].named = pyproc[q].named /\ ~ pyproc'[q].quiet
  BY <1>1, <1>3, <1>5, Begins
<1>10. PyType'
  <2>1. ~ pyproc'[p].named
    BY <1>3, <1>7, <1>9
  <2>2. \A q \in PyPids : pyproc'[q].named => there'
    BY <1>1, <1>6, <1>9, <2>1
  <2>3. stopped' \in BOOLEAN
    BY Zenon, <1>1, <1>8
  <2>4. pycalls' \in Nat /\ pydeaths' \in Nat
    BY <1>1, <1>6
  <2>5. QED
    BY <1>1, <1>6, <1>9, <2>2, <2>3, <2>4 DEF PyType
<1>11. StopInv'
  BY <1>2, <1>3, <1>8, <1>9, Labels DEF StopInv, PyAt
<1>12. LeftInv'
  <2>1. ~ stopped' => Promising(p)'
    BY <1>3, <1>8, <1>9 DEF Promising, PyAt
  <2>2. QED
    BY <2>1 DEF LeftInv
<1>13. QuietInv'
  <2>1. SUFFICES ASSUME pyproc'[p].quiet PROVE /\ PyAt(p)' = "find"
                                               /\ (Instances \ {p})' \subseteq AtRest'
                                               /\ (Instances \ {p})' \subseteq pids'
    BY <1>9, Labels DEF QuietInv
  <2>2. r = stop /\ still
    BY <1>3, <1>7, <1>9, <2>1
  <2>3. PyAt(p)' = "find"
    BY <1>3, <1>9, <2>2 DEF PyAt
  <2>4. (Instances \ {p})' = Instances \ {p}
    BY <1>9 DEF Instances, PyAt
  <2>5. AtRest \ {p} \subseteq AtRest'
    BY <1>9 DEF AtRest, PyAt
  <2>6. QED
    BY <1>6, <2>2, <2>3, <2>4, <2>5
<1>14. QED
  BY <1>10, <1>11, <1>12, <1>13 DEF PyInv

(* A step of a stop.                                                        *)
LEMMA StopStep ==
  ASSUME PyInv, NEW p \in PyPids,
         FindFile(p) \/ CatPids(p) \/ KillAll(p) \/ PyUnlink(p) \/ PyExit(p)
  PROVE  PyInv'
<1>1. /\ PyTable /\ there \in BOOLEAN /\ pids \subseteq PyPids /\ (~ there => pids = {})
      /\ \A q \in PyPids : pyproc[q].named => there
      /\ stopped \in BOOLEAN /\ pycalls \in Nat /\ pydeaths \in Nat
  BY DEF PyInv, PyType
<1>2. StopInv /\ QuietInv
  BY DEF PyInv
<1>3. /\ PyAt(p) \in StopSteps
      /\ pycalls' = pycalls /\ pydeaths' = pydeaths /\ stopped' = stopped
  BY Labels DEF FindFile, CatPids, KillAll, PyUnlink, PyExit, history
<1>4. stopped
  BY <1>1, <1>2, <1>3 DEF StopInv
<1>5. ASSUME PyTable', there' \in BOOLEAN, pids' \subseteq PyPids, ~ there' => pids' = {},
             \A q \in PyPids : pyproc'[q].named => there',
             \A q \in PyPids : pyproc'[q].quiet => pyproc[q].quiet,
             pyproc[p].quiet /\ pyproc'[p].quiet =>
               /\ PyAt(p)' \in StopSteps /\ (Instances \ {p})' \subseteq AtRest'
               /\ PyAt(p)' \in {"find", "cat"} => (Instances \ {p})' \subseteq pids'
               /\ PyAt(p)' = "kill" => (Instances \ {p})' \subseteq pyproc'[p].found
               /\ PyAt(p)' \in {"unlink", "exit"} => Instances' \subseteq {p}
      PROVE  PyInv'
  <2>1. PyType'
    BY <1>1, <1>3, <1>5 DEF PyType
  <2>2. StopInv' /\ LeftInv'
    BY <1>3, <1>4 DEF StopInv, LeftInv
  <2>3. QuietInv'
    <3>1. ASSUME NEW q \in PyPids, pyproc'[q].quiet PROVE q = p
      BY <1>2, <1>3, <1>5, <3>1, QuietAlone, Labels
    <3>2. QED
      BY <1>5, <3>1 DEF QuietInv
  <2>4. QED
    BY <2>1, <2>2, <2>3 DEF PyInv
<1>6. pyproc[p].quiet => /\ Instances \ {p} \subseteq AtRest
                         /\ PyAt(p) \in {"find", "cat"} => Instances \ {p} \subseteq pids
                         /\ PyAt(p) = "kill" => Instances \ {p} \subseteq pyproc[p].found
                         /\ PyAt(p) \in {"unlink", "exit"} => Instances \subseteq {p}
  BY <1>2 DEF QuietInv
<1>7. ASSUME \A q \in PyPids \ {p} : pyproc'[q].at = pyproc[q].at
      PROVE  (Instances \ {p})' = Instances \ {p} /\ AtRest \ {p} \subseteq AtRest'
  BY <1>7 DEF Instances, AtRest, PyAt
<1>8. ASSUME PyTable', \A q \in PyPids \ {p} : pyproc'[q] = pyproc[q],
             pyproc'[p].at = "gone", ~ pyproc'[p].quiet, ~ pyproc'[p].named,
             there' = there, pids' = pids
      PROVE  PyInv'
  BY <1>1, <1>5, <1>8
<1>9. CASE FindFile(p)
  <2>1. /\ PyAt(p) = "find" /\ there' = there /\ pids' = pids
        /\ there => pyproc' = [pyproc EXCEPT ![p].at = "cat"]
        /\ ~ there => pyproc' = Ended({p})
    BY <1>9 DEF FindFile
  <2>2. CASE there
    <3>1. /\ PyTable' /\ pyproc'[p].at = "cat" /\ pyproc'[p].quiet = pyproc[p].quiet
          /\ pyproc'[p].named = pyproc[p].named
          /\ \A q \in PyPids \ {p} : pyproc'[q] = pyproc[q]
      BY <1>1, <2>1, <2>2, LeadsTo, Labels
    <3>2. (Instances \ {p})' = Instances \ {p} /\ AtRest \ {p} \subseteq AtRest'
      BY <1>7, <3>1
    <3>3. PyAt(p)' = "cat" /\ "cat" \in StopSteps
      BY <3>1, Labels DEF PyAt
    <3>4. QED
      BY <1>1, <1>5, <1>6, <2>1, <3>1, <3>2, <3>3
  <2>3. CASE ~ there
    BY <1>1, <1>8, <2>1, <2>3, EndedOnes DEF PyTable
  <2>4. QED
    BY <2>2, <2>3
<1>10. CASE CatPids(p)
  <2>1. PyAt(p) = "cat" /\ there' = there /\ pids' = pids
    BY <1>10 DEF CatPids
  <2>2. /\ PyTable' /\ pyproc'[p].at = "kill" /\ pyproc'[p].found = pids
        /\ pyproc'[p].quiet = pyproc[p].quiet /\ pyproc'[p].named = pyproc[p].named
        /\ \A q \in PyPids \ {p} : pyproc'[q] = pyproc[q]
    BY <1>1, <1>10, Cats
  <2>3. (Instances \ {p})' = Instances \ {p} /\ AtRest \ {p} \subseteq AtRest'
    BY <1>7, <2>2
  <2>4. PyAt(p)' = "kill" /\ "kill" \in StopSteps
    BY <2>2, Labels DEF PyAt
  <2>5. QED
    BY <1>1, <1>5, <1>6, <2>1, <2>2, <2>3, <2>4
<1>11. CASE KillAll(p)
  <2>1. PyAt(p) = "kill" /\ there' = there /\ pids' = pids
    BY <1>11 DEF KillAll
  <2>2. /\ PyTable' /\ pyproc'[p].at = "unlink" /\ (pyproc'[p].quiet => pyproc[p].quiet)
        /\ \A q \in PyPids : pyproc'[q].named => pyproc[q].named
        /\ \A q \in PyPids \ {p} :
             pyproc'[q] = pyproc[q] \/ (pyproc'[q].at = "gone" /\ ~ pyproc'[q].quiet)
        /\ \A q \in pyproc[p].found \ {p} : pyproc'[q].at = "gone"
    BY <1>1, <1>11, Kills
  <2>3. pyproc[p].quiet => Instances' \subseteq {p}
    <3>1. ASSUME pyproc[p].quiet, NEW q \in PyPids, q # p PROVE q \notin Instances'
      <4>1. CASE q \in Instances
        BY <1>6, <2>1, <2>2, <3>1, <4>1 DEF Instances, PyAt
      <4>2. CASE q \notin Instances
        BY <2>2, <3>1, <4>2 DEF Instances, PyAt
      <4>3. QED
        BY <4>1, <4>2
    <3>2. Instances' \subseteq PyPids
      BY DEF Instances
    <3>3. QED
      BY <3>1, <3>2
  <2>4. PyAt(p)' = "unlink" /\ "unlink" \in StopSteps
    BY <2>2, Labels DEF PyAt
  <2>5. QED
    BY <1>1, <1>5, <2>1, <2>2, <2>3, <2>4
<1>12. CASE PyUnlink(p)
  <2>1. PyAt(p) = "unlink" /\ OsRemove(p, "exit") /\ "exit" \in PyLabels
    BY <1>12, Labels DEF PyUnlink
  <2>2. /\ PyTable' /\ ~ there' /\ pids' = {}
        /\ there => /\ pyproc'[p].at = "exit"
                    /\ \A q \in PyPids \ {p} : pyproc'[q].at = pyproc[q].at
                    /\ \A q \in PyPids : pyproc'[q].quiet = pyproc[q].quiet /\ ~ pyproc'[q].named
        /\ ~ there => pyproc' = Ended({p})
    BY <1>1, <2>1, Removed
  <2>3. there' \in BOOLEAN
    BY <2>1 DEF OsRemove
  <2>4. CASE there
    <3>1. (Instances \ {p})' = Instances \ {p} /\ AtRest \ {p} \subseteq AtRest'
      BY <1>7, <2>2, <2>4
    <3>2. PyAt(p)' = "exit" /\ "exit" \in StopSteps
      BY <2>2, <2>4, Labels DEF PyAt
    <3>3. QED
      BY <1>1, <1>5, <1>6, <2>1, <2>2, <2>3, <2>4, <3>1, <3>2
  <2>5. CASE ~ there
    <3>1. there' = there /\ pids' = pids
      BY <1>1, <2>2, <2>3, <2>5
    <3>2. QED
      BY <1>1, <1>8, <2>2, <2>5, <3>1, EndedOnes
  <2>6. QED
    BY <2>4, <2>5
<1>13. CASE PyExit(p)
  BY <1>1, <1>8, <1>13, EndedOnes DEF PyExit, PyTable
<1>14. QED
  BY <1>9, <1>10, <1>11, <1>12, <1>13

(* Somebody else kills an instance.                                         *)
LEMMA DeathStep == ASSUME PyInv, NEW p \in PyPids, PyDeath(p) PROVE PyInv'
<1>1. /\ PyTable /\ there \in BOOLEAN /\ pids \subseteq PyPids /\ (~ there => pids = {})
      /\ \A q \in PyPids : pyproc[q].named => there
      /\ stopped \in BOOLEAN /\ pycalls \in Nat /\ pydeaths \in Nat
  BY DEF PyInv, PyType
<1>2. StopInv /\ QuietInv
  BY DEF PyInv
<1>3. /\ there' = there /\ pids' = pids /\ pycalls' = pycalls /\ stopped' = stopped
      /\ pydeaths' = pydeaths + 1 /\ pyproc' = Ended({p})
  BY DEF PyDeath
<1>4. /\ PyTable' /\ \A q \in PyPids \ {p} : pyproc'[q] = pyproc[q]
      /\ pyproc'[p].at = "gone" /\ ~ pyproc'[p].quiet /\ ~ pyproc'[p].named
  BY <1>1, <1>3, EndedOnes DEF PyTable
<1>5. PyType'
  BY <1>1, <1>3, <1>4 DEF PyType
<1>6. StopInv'
  BY <1>2, <1>3, <1>4, Labels DEF StopInv, PyAt
<1>7. LeftInv'
  BY <1>1, <1>3 DEF LeftInv
<1>8. QuietInv'
  <2>1. Instances' \subseteq Instances /\ Instances' = Instances \ {p} /\ AtRest \ {p} = AtRest'
    BY <1>4 DEF Instances, AtRest, PyAt
  <2>2. ASSUME NEW q \in PyPids, pyproc'[q].quiet
        PROVE  /\ pyproc[q].quiet /\ PyAt(q)' = PyAt(q) /\ pyproc'[q].found = pyproc[q].found
    BY <1>4, <2>2 DEF PyAt
  <2>3. QED
    BY <1>2, <1>3, <2>1, <2>2 DEF QuietInv
<1>9. QED
  BY <1>5, <1>6, <1>7, <1>8 DEF PyInv

LEMMA PyInvStep == PyInv /\ [Next]_vars => PyInv'
<1> SUFFICES ASSUME PyInv, [Next]_vars PROVE PyInv'
  OBVIOUS
<1>1. ASSUME UNCHANGED pyVars PROVE PyInv'
  <2>1. /\ there' = there /\ pids' = pids /\ pyproc' = pyproc
        /\ pycalls' = pycalls /\ pydeaths' = pydeaths /\ stopped' = stopped
    BY <1>1 DEF pyVars, history
  <2>2. QED
    BY <2>1 DEF PyInv, PyType, PyTable, StopInv, LeftInv, QuietInv, Promising, Instances, AtRest, PyAt
<1>2. ASSUME PyNext PROVE PyInv'
  BY <1>2, StartStep, CallStep, StopStep, DeathStep DEF PyNext, PyStep
<1>3. QED
  BY <1>1, <1>2 DEF Next, vars

LEMMA PyInvHolds == Spec => []PyInv
  BY PyInvInit, PyInvStep, PTL DEF Spec

-----------------------------------------------------------------------------
(* What the run checks                                                     *)

(* Of any number of starts that overlap, in any order, one leaves a monitor *)
(* that is in the file.                                                     *)
THEOREM OneIsLeft == Spec => []StartsLeaveOne
<1>1. PyInv => StartsLeaveOne
  <2> SUFFICES ASSUME LeftInv, pycalls > 0, ~ stopped, pydeaths = 0, Instances = AtRest
               PROVE  PyMonitors \intersect pids # {}
    BY DEF PyInv, StartsLeaveOne
  <2>1. PICK p \in PyPids : Promising(p)
    BY DEF LeftInv
  <2>2. PyAt(p) \in {"stay", "none", "gone"}
    BY DEF Instances, AtRest
  <2>3. PyAt(p) = "stay" /\ pyproc[p].child /\ p \in pids
    BY <2>1, <2>2 DEF Promising
  <2>4. QED
    BY <2>3 DEF PyMonitors, AtRest
<1>2. QED
  BY <1>1, PyInvHolds, PTL

(* However many instances there are, a stop that met them at rest and listed *)
(* and was not disturbed has ended them all.                                *)
THEOREM QuietStopsStop == Spec => []PyQuietStopStops
<1>1. PyInv => PyQuietStopStops
  BY DEF PyInv, QuietInv, PyQuietStopStops, Instances
<1>2. QED
  BY <1>1, PyInvHolds, PTL

-----------------------------------------------------------------------------
(* The pins and the serial console                                         *)

LEMMA GpioInvHolds == Spec => []GpioInv
<1>1. Init => GpioInv
  BY GpioInitInv DEF Init
<1>2. [Next]_vars => [GpioNext]_gpioVars
  BY DEF Next, vars
<1>3. QED
  BY <1>1, <1>2, GpioNextInv, PTL DEF Spec

LEMMA UartInvHolds == Spec => []UartInv
<1>1. Init => UartInv
  BY UartInitInv DEF Init
<1>2. [Next]_vars => [UartNext]_uartVars
  BY DEF Next, vars
<1>3. QED
  BY <1>1, <1>2, UartNextInv, PTL DEF Spec

(* Whatever a call of uno220gpio meets, it misses the directory of its pin  *)
(* only if another call has unexported that pin meanwhile or a driver holds *)
(* it.                                                                      *)
THEOREM OnlySpoiltPinsMissed == Spec => []MissedOnlyIfSpoilt
  BY GpioInvHolds, GpioInvMissed, PTL

(* When no call of uno220gpio is under way, every pin that was to be        *)
(* exported is, unless --unexport named it or a driver holds it.            *)
THEOREM PinsExportedInTheEnd == Spec => []ExportedInTheEnd
  BY GpioInvHolds, GpioInvOwed, PTL

(* However the calls of uno220uart (with --enable or --disable) and preinst *)
(* overlap, a setting on which they agree and on which none of their        *)
(* commands failed comes to be as asked, whatever failed on the others and  *)
(* whichever fallback ran, and stays so through a power cut if every one of *)
(* them syncs; but for the UART without [all] and the I2C bus of preinst's  *)
(* that overlap another edit.                                               *)
THEOREM AgreedSettingsKept == Spec => []AgreedSettings
  BY UartInvHolds, UartInvAgreed, PTL

(* The bounds of the Python monitor's counters.                             *)
Counted == pycalls \in 0 .. MaxPyCalls /\ pydeaths \in 0 .. MaxPyDeaths

LEMMA CountedHolds == Spec => []Counted
<1>1. Init => Counted
  BY Bounds DEF Init, PyInit, Counted
<1>2. Counted /\ [Next]_vars => Counted'
  <2> SUFFICES ASSUME Counted, [Next]_vars PROVE Counted'
    OBVIOUS
  <2>1. ASSUME NEW p \in PyPids, PyStart(p) \/ PyStop(p) PROVE Counted'
    <3>1. PICK rec : PyCalled(p, rec)
      BY <2>1 DEF PyStart, PyStop
    <3>2. pycalls < MaxPyCalls /\ pycalls' = pycalls + 1 /\ pydeaths' = pydeaths
      BY <3>1 DEF PyCalled
    <3>3. QED
      BY <3>2, Bounds DEF Counted
  <2>2. ASSUME NEW p \in PyPids, PyDeath(p) PROVE Counted'
    BY <2>2, Bounds DEF PyDeath, Counted
  <2>3. ASSUME NEW p \in PyPids, PyStep(p) PROVE UNCHANGED <<pycalls, pydeaths>>
    BY <2>3, Zenon DEF history, PyStep, TestOld, PyRemoveOld, PyFork, Touch, MayWrite, OpenAgain, WritePid,
                       FindFile, CatPids, KillAll, PyUnlink, PyExit
  <2>4. ASSUME UNCHANGED <<pycalls, pydeaths>> PROVE Counted'
    BY <2>4 DEF Counted
  <2>5. UNCHANGED pyVars => UNCHANGED <<pycalls, pydeaths>>
    BY DEF pyVars, history
  <2>6. QED
    BY <2>1, <2>2, <2>3, <2>4, <2>5 DEF Next, PyNext, vars
<1>3. QED
  BY <1>1, <1>2, PTL DEF Spec

(* The variables of the three scripts stay in their types.                  *)
THEOREM TypesHold == Spec => []TypeOK
<1>1. PyInv /\ Counted => PyTypeOK
  BY DEF PyInv, PyType, PyTable, PyTypeOK, Counted, PyProcess, PyLabels
<1>2. GpioInv /\ UartInv /\ PyInv /\ Counted => TypeOK
  BY <1>1, GpioInvType, UartInvType DEF TypeOK
<1>3. QED
  BY <1>2, GpioInvHolds, UartInvHolds, PyInvHolds, CountedHolds, PTL
=============================================================================
