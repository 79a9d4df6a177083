-------------------------------- MODULE Gpio --------------------------------
(***************************************************************************)
(* The GPIO script (srcs/dpkg/gpio/usr/sbin/uno220gpio): calls of it that  *)
(* overlap.  They meet in /sys/class/gpio, where every echo is one step    *)
(* and every [ -d ... ] looks before it.  The script always exits with 0,  *)
(* whatever an echo reported.                                              *)
(***************************************************************************)
EXTENDS Naturals, Sequences

CONSTANTS
  GpioCalls,  \* calls of the script
  NumPins     \* the expander's pins: 8

ASSUME GpioAssumption == NumPins \in Nat \ {0, 1}

Pins == 0 .. NumPins - 1

VARIABLES
  exported,   \* the pins with a directory in sysfs
  held,       \* the pins a driver of the kernel holds; they cannot be exported
  gjob,       \* the calls
  withdrawn   \* history: pins some call of --unexport has named

gpioVars == <<exported, held, gjob, withdrawn>>

\* A call: where it is, what it still has to do, and the pins it names.  For
\* the properties: `missed', an access found no directory; `spoilt', another
\* call has unexported a pin of this one.
NoGpioCall == [at |-> "none", cmd |-> "none", todo |-> <<>>, pins |-> {},
               missed |-> FALSE, spoilt |-> FALSE]

GpioInit ==
  /\ exported \in SUBSET Pins /\ held \in SUBSET (Pins \ exported)
  /\ gjob = [c \in GpioCalls |-> NoGpioCall] /\ withdrawn = {}

-----------------------------------------------------------------------------
(* What a call has to do                                                   *)

Op(do, i) == [do |-> do, pin |-> i]

exportPin(i)   == <<Op("export", i)>>
unexportPin(i) == <<Op("unexport", i)>>

SlipUnprepared(i) == <<Op("access", i)>>

\* directionPin, valuePin.  "need" looks for the directory, and skips the export
\* if it is there.
Access(i) == <<Op("need", i)>> \o exportPin(i) \o <<Op("access", i)>>

SlipExportFirst(i) == exportPin(i) \o unexportPin(i)

\* One turn of the loop of exportAllPins.
Renewed(i) == unexportPin(i) \o exportPin(i)

\* ops[i] for one pin i after the other; the m operations of every pin are alike.
AllPins(ops) ==
  LET m == Len(ops[0])
  IN [k \in 1 .. m * NumPins |-> ops[(k - 1) \div m][1 + ((k - 1) % m)]]

exportAllPins   == AllPins([i \in Pins |-> Renewed(i)])
unexportAllPins == AllPins([i \in Pins |-> unexportPin(i)])

Requests ==
  [cmd : {"export", "unexport"}, pins : {{i} : i \in Pins} \union {Pins}]
  \union [cmd : {"access"}, pins : {{i} : i \in Pins}]

Program(r) ==
  LET i == CHOOSE j \in r.pins : TRUE
      all == r.pins = Pins
  IN CASE r.cmd = "export"   -> IF all THEN exportAllPins ELSE exportPin(i)
       [] r.cmd = "unexport" -> IF all THEN unexportAllPins ELSE unexportPin(i)
       [] r.cmd = "access"   -> Access(i)

GpioCall(c) ==
  /\ gjob[c].at = "none"
  /\ \E r \in Requests :
       /\ gjob' = [gjob EXCEPT ![c] = [NoGpioCall EXCEPT !.at = "test", !.cmd = r.cmd,
                                                         !.todo = Program(r), !.pins = r.pins]]
       /\ withdrawn' = IF r.cmd = "unexport" THEN withdrawn \union r.pins ELSE withdrawn
  /\ UNCHANGED <<exported, held>>

-----------------------------------------------------------------------------
(* Its steps                                                               *)

Running(c) == gjob[c].at \in {"test", "act"}
This(c)    == Head(gjob[c].todo)

\* Call c goes on behind its first n operations.
Done(c, n) == [gjob EXCEPT ![c].at = "test", ![c].todo = SubSeq(@, n + 1, Len(@))]

\* [ ! -d ], [ -d ]
GpioTest(c) ==
  /\ gjob[c].at = "test" /\ gjob[c].todo # <<>>
  /\ This(c).do \in {"need", "export", "unexport"}
  /\ gjob' = CASE This(c).do = "need"     -> Done(c, IF This(c).pin \in exported THEN 2 ELSE 1)
               [] This(c).do = "export"   -> IF This(c).pin \in exported THEN Done(c, 1)
                                             ELSE [gjob EXCEPT ![c].at = "act"]
               [] This(c).do = "unexport" -> IF This(c).pin \notin exported THEN Done(c, 1)
                                             ELSE [gjob EXCEPT ![c].at = "act"]
  /\ UNCHANGED <<exported, held, withdrawn>>

\* echo > export, echo > unexport: refused if the pin has been exported, or
\* unexported, since the test; the export of a held pin always is.
GpioAct(c) ==
  /\ gjob[c].at = "act"
  /\ LET i == This(c).pin
         bystanders == {d \in GpioCalls \ {c} : Running(d) /\ i \in gjob[d].pins}
     IN IF This(c).do = "export"
        THEN exported' = exported \union ({i} \ held) /\ gjob' = Done(c, 1)
        ELSE /\ exported' = exported \ {i}
             /\ gjob' = [d \in GpioCalls |-> [Done(c, 1)[d] EXCEPT !.spoilt = @ \/ d \in bystanders]]
  /\ UNCHANGED <<held, withdrawn>>

\* echo or cat of the pin's direction or value.  Nothing the scripts do depends
\* on what is there.
GpioAccess(c) ==
  /\ gjob[c].at = "test" /\ gjob[c].todo # <<>> /\ This(c).do = "access"
  /\ gjob' = [Done(c, 1) EXCEPT ![c].missed = This(c).pin \notin exported]
  /\ UNCHANGED <<exported, held, withdrawn>>

\* exit 0
GpioExit(c) ==
  /\ gjob[c].at = "test" /\ gjob[c].todo = <<>>
  /\ gjob' = [gjob EXCEPT ![c] = [NoGpioCall EXCEPT !.at = "done", !.cmd = gjob[c].cmd,
                                                    !.pins = gjob[c].pins]]
  /\ UNCHANGED <<exported, held, withdrawn>>

GpioNext ==
  \E c \in GpioCalls : GpioCall(c) \/ GpioTest(c) \/ GpioAct(c) \/ GpioAccess(c) \/ GpioExit(c)

-----------------------------------------------------------------------------
(* Properties                                                              *)

\* Every variable stays in its type.
GpioTypeOK ==
  /\ exported \subseteq Pins /\ held \subseteq Pins /\ withdrawn \subseteq Pins
  /\ \A c \in GpioCalls :
       /\ gjob[c].at \in {"none", "test", "act", "done"} /\ gjob[c].pins \subseteq Pins
       /\ Len(gjob[c].todo) <= 2 * NumPins + 3

\* A call that reads or sets a pin finds its directory, whatever other calls
\* export at the same time; only a driver that holds the pin, or a call that
\* unexports it in between (--unexport, or --export=all on its way), makes it
\* miss.
MissedOnlyIfSpoilt ==
  \A c \in GpioCalls : gjob[c].missed => gjob[c].spoilt \/ gjob[c].pins \subseteq held

\* When all calls have ended, every pin one of them exported, read or set is
\* exported, unless a driver holds it or a call of --unexport named it: the
\* calls of --export=all, which unexport every pin first, do not take pins away
\* from each other.
ExportedInTheEnd ==
  (\A c \in GpioCalls : ~ Running(c)) =>
     (UNION {gjob[c].pins : c \in {d \in GpioCalls : gjob[d].cmd # "unexport"}}) \ (withdrawn \union held)
       \subseteq exported
=============================================================================
