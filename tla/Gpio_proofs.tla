---------------------------- MODULE Gpio_proofs ----------------------------
(***************************************************************************)
(* The GPIO script, for any number of overlapping calls and of pins: an    *)
(* invariant of its steps, from which no access misses a pin that nobody   *)
(* took away, and no pin is lost between the calls.  The theorems are in   *)
(* BoardScripts_proofs, whose specification the steps are part of.         *)
(***************************************************************************)
EXTENDS Gpio, Integers, SequenceTheorems, TLAPS

GpioOps == [do : {"need", "export", "unexport", "access"}, pin : Pins]

GpioJob ==
  [at : {"none", "test", "act", "done"}, cmd : {"none", "export", "unexport", "access"},
   todo : Seq(GpioOps), pins : SUBSET Pins, missed : BOOLEAN, spoilt : BOOLEAN]

GpioTable ==
  /\ gjob \in [GpioCalls -> GpioJob] /\ withdrawn \subseteq Pins
  /\ exported \subseteq Pins /\ held \subseteq Pins
  /\ \A c \in GpioCalls : Len(gjob[c].todo) <= 2 * NumPins + 3

\* The pins no call can be asked to export.
Taken == exported \union held

IsRunning(j) == j.at \in {"test", "act"}

\* What is left, s, of an access to pin i.
AccessLeft(s, i) ==
  /\ Len(s) <= 3
  /\ Len(s) = 3 => s[1] = Op("need", i)
  /\ Len(s) >= 2 => s[Len(s) - 1] = Op("export", i)
  /\ Len(s) >= 1 => s[Len(s)] = Op("access", i)

\* A call j behind a test is about to export or to unexport; ...
ActsOn(j) == j.at = "act" => Len(j.todo) > 0 /\ j.todo[1].do \in {"export", "unexport"}

\* ... one that is behind its export finds the pin in ex, or was spoilt; ...
Finds(j, ex) == IsRunning(j) =>
  IF j.cmd = "access"
  THEN \E i \in Pins : /\ j.pins = {i} /\ AccessLeft(j.todo, i)
                       /\ Len(j.todo) = 1 => i \in ex \/ j.spoilt
  ELSE \A k \in 1 .. Len(j.todo) : j.todo[k].do \in {"export", "unexport"}

\* ... and pins outside gone are exported again at once.
PutsBack(p, gone) == \A k \in 1 .. Len(p) : p[k].do = "unexport" =>
  p[k].pin \in gone \/ (k < Len(p) /\ p[k + 1] = Op("export", p[k].pin))

Sound(j, ex, gone) ==
  ActsOn(j) /\ Finds(j, ex) /\ PutsBack(j.todo, gone)

SoundInv == \A c \in GpioCalls : Sound(gjob[c], Taken, withdrawn)

MissedInv == \A c \in GpioCalls : gjob[c].missed => gjob[c].spoilt \/ gjob[c].pins \subseteq held

\* Some call is still going to export pin i.
Pending(i) == \E c \in GpioCalls :
  IsRunning(gjob[c]) /\ \E k \in 1 .. Len(gjob[c].todo) : gjob[c].todo[k] = Op("export", i)

\* A pin that a call wants, and --unexport has not named, is taken, or a call will
\* try to export it.
OwedInv == \A c \in GpioCalls, i \in Pins \ withdrawn :
  i \in gjob[c].pins /\ gjob[c].cmd # "unexport" => i \in Taken \/ Pending(i)

GpioInv == GpioTable /\ SoundInv /\ MissedInv /\ OwedInv

-----------------------------------------------------------------------------
(* The programs                                                            *)

LEMMA PinsAre ==
  /\ NumPins \in Nat /\ NumPins >= 2 /\ Pins \subseteq Nat /\ 0 \in Pins /\ 1 \in Pins
  /\ \A i : i \in Pins <=> i \in Nat /\ i < NumPins
  /\ \A i : {i} # Pins
<1>1. NumPins \in Nat /\ NumPins >= 2
  BY GpioAssumption DEF GpioAssumption
<1>2. 0 \in Pins /\ 1 \in Pins
  BY <1>1 DEF Pins
<1>3. QED
  BY <1>1, <1>2 DEF Pins

LEMMA OpIs ==
  ASSUME NEW d \in {"need", "export", "unexport", "access"}, NEW i \in Pins
  PROVE  Op(d, i) \in GpioOps /\ Op(d, i).do = d /\ Op(d, i).pin = i
  BY DEF Op, GpioOps

LEMMA Halves ==
  ASSUME NEW n \in Nat
  PROVE  n \div 2 \in Nat /\ n % 2 \in 0 .. 1 /\ n = 2 * (n \div 2) + (n % 2)
<1>1. n \div 2 \in Nat
  OBVIOUS
<1>2. n % 2 \in 0 .. 1
  OBVIOUS
<1>3. n = 2 * (n \div 2) + (n % 2)
  OBVIOUS
<1>4. QED
  BY <1>1, <1>2, <1>3, Zenon

(* The operations of one pin after the other.                               *)
LEMMA AllPinsInOrder ==
  ASSUME NEW m \in {1, 2}, NEW ops \in [Pins -> Seq(GpioOps)], \A i \in Pins : Len(ops[i]) = m
  PROVE  /\ AllPins(ops) \in Seq(GpioOps) /\ Len(AllPins(ops)) = m * NumPins
         /\ \A k \in 1 .. m * NumPins :
              \E i \in Pins, j \in 1 .. m : k = m * i + j /\ AllPins(ops)[k] = ops[i][j]
         /\ \A i \in Pins, j \in 1 .. m : AllPins(ops)[m * i + j] = ops[i][j]
<1> DEFINE s == AllPins(ops)
<1>1. s = [k \in 1 .. m * NumPins |-> ops[(k - 1) \div m][1 + ((k - 1) % m)]]
  BY PinsAre DEF AllPins
<1> HIDE DEF s
<1>2. ASSUME NEW k \in 1 .. m * NumPins
      PROVE  LET i == (k - 1) \div m
                 j == 1 + ((k - 1) % m)
             IN i \in Pins /\ j \in 1 .. m /\ k = m * i + j
  <2>1. CASE m = 1
    BY <2>1, PinsAre
  <2>2. CASE m = 2
    <3>1. k \in Nat /\ k >= 1 /\ k <= 2 * NumPins
      BY <2>2, PinsAre
    <3> DEFINE q == (k - 1) \div 2
               r == (k - 1) % 2
    <3>2. k - 1 \in Nat
      BY <3>1
    <3>3. q \in Nat /\ r \in 0 .. 1 /\ k - 1 = 2 * q + r
      BY <3>2, Halves
    <3> HIDE DEF q, r
    <3>4. q \in Nat /\ q < NumPins /\ 1 + r \in 1 .. 2 /\ k = 2 * q + (1 + r)
      BY <3>1, <3>3, PinsAre
    <3>5. q \in Pins
      BY <3>4, PinsAre
    <3>6. QED
      BY <2>2, <3>4, <3>5 DEF q, r
  <2>3. QED
    BY <2>1, <2>2
<1>3. ASSUME NEW i \in Pins, NEW j \in 1 .. m, NEW k, k = m * i + j
      PROVE  k \in 1 .. m * NumPins /\ (k - 1) \div m = i /\ 1 + ((k - 1) % m) = j
  <2>1. i \in Nat /\ i < NumPins /\ NumPins \in Nat
    BY PinsAre
  <2>2. CASE m = 1
    BY <1>3, <2>1, <2>2
  <2>3. CASE m = 2
    <3>1. /\ (2 * i) \div 2 = i /\ (2 * i) % 2 = 0
          /\ (2 * i + 1) \div 2 = i /\ (2 * i + 1) % 2 = 1
      BY <2>1
    <3>2. k \in 1 .. 2 * NumPins /\ (j = 1 \/ j = 2)
      BY <1>3, <2>1, <2>3
    <3>3. CASE j = 1
      BY <1>3, <2>1, <2>3, <3>1, <3>2, <3>3
    <3>4. CASE j = 2
      <4>1. k - 1 = 2 * i + 1
        BY <1>3, <2>1, <2>3, <3>4
      <4>2. QED
        BY <2>3, <3>1, <3>2, <3>4, <4>1
    <3>5. QED
      BY <3>2, <3>3, <3>4
  <2>4. QED
    BY <2>2, <2>3
<1>4. m * NumPins \in Nat
  BY PinsAre
<1>5. ASSUME NEW i \in Pins, NEW j \in 1 .. m PROVE ops[i][j] \in GpioOps
  <2>1. ops[i] \in Seq(GpioOps) /\ Len(ops[i]) = m
    OBVIOUS
  <2>2. QED
    BY <2>1
<1>6. \A k \in 1 .. m * NumPins : s[k] \in GpioOps
  BY <1>1, <1>2, <1>5
<1>7. s \in Seq(GpioOps) /\ Len(s) = m * NumPins
  BY <1>1, <1>4, <1>6
<1>8. \A k \in 1 .. m * NumPins : \E i \in Pins, j \in 1 .. m : k = m * i + j /\ s[k] = ops[i][j]
  BY <1>1, <1>2
<1>9. ASSUME NEW i \in Pins, NEW j \in 1 .. m PROVE s[m * i + j] = ops[i][j]
  BY <1>1, <1>3
<1>10. QED
  BY <1>7, <1>8, <1>9 DEF s

LEMMA RenewedIs ==
  ASSUME NEW i \in Pins
  PROVE  /\ Renewed(i) \in Seq(GpioOps) /\ Len(Renewed(i)) = 2
         /\ Renewed(i)[1] = Op("unexport", i) /\ Renewed(i)[2] = Op("export", i)
<1>1. Op("unexport", i) \in GpioOps /\ Op("export", i) \in GpioOps
  BY OpIs
<1>2. Renewed(i) = <<Op("unexport", i)>> \o <<Op("export", i)>>
  BY Zenon DEF Renewed, unexportPin, exportPin
<1>3. QED
  BY <1>1, <1>2

(* What a program may do, and for which pins.                               *)
Fits(p, r, gone) ==
  /\ p \in Seq(GpioOps) /\ Len(p) <= 2 * NumPins + 3
  /\ r.cmd # "access" => \A k \in 1 .. Len(p) : p[k].do \in {"export", "unexport"}
  /\ PutsBack(p, gone)
  /\ r.cmd # "unexport" => \A i \in r.pins : \E k \in 1 .. Len(p) : p[k] = Op("export", i)

LEMMA ExportAllFits ==
  ASSUME NEW r \in Requests, r.cmd = "export", r.pins = Pins
  PROVE  Fits(exportAllPins, r, {})
<1> DEFINE ops == [i \in Pins |-> Renewed(i)]
           p   == AllPins(ops)
<1>1. ASSUME NEW i \in Pins
      PROVE  /\ Op("unexport", i) \in GpioOps /\ Op("export", i) \in GpioOps
             /\ Op("unexport", i).do = "unexport" /\ Op("export", i).do = "export"
             /\ Op("unexport", i).pin = i
  BY OpIs
<1>2. ASSUME NEW i \in Pins
      PROVE  /\ ops[i] \in Seq(GpioOps) /\ Len(ops[i]) = 2
             /\ ops[i][1] = Op("unexport", i) /\ ops[i][2] = Op("export", i)
  BY RenewedIs
<1>3. ops \in [Pins -> Seq(GpioOps)]
  BY <1>2
<1> HIDE DEF ops
<1>4. /\ p \in Seq(GpioOps) /\ Len(p) = 2 * NumPins
      /\ \A k \in 1 .. 2 * NumPins : \E i \in Pins, j \in 1 .. 2 : k = 2 * i + j /\ p[k] = ops[i][j]
      /\ \A i \in Pins, j \in 1 .. 2 : p[2 * i + j] = ops[i][j]
  BY <1>2, <1>3, AllPinsInOrder
<1> HIDE DEF p
<1>5. ASSUME NEW k \in 1 .. 2 * NumPins
      PROVE  /\ p[k].do \in {"export", "unexport"}
             /\ p[k].do = "unexport" => k < 2 * NumPins /\ p[k + 1] = Op("export", p[k].pin)
  <2>1. PICK i \in Pins, j \in 1 .. 2 : k = 2 * i + j /\ p[k] = ops[i][j]
    BY <1>4
  <2>2. CASE j = 1
    <3>1. p[k] = Op("unexport", i) /\ p[2 * i + 2] = Op("export", i)
      BY <1>2, <1>4, <2>1, <2>2
    <3>2. k + 1 = 2 * i + 2 /\ k < 2 * NumPins
      BY <2>1, <2>2, PinsAre
    <3>3. QED
      BY <1>1, <3>1, <3>2
  <2>3. CASE j = 2
    BY <1>1, <1>2, <2>1, <2>3
  <2>4. QED
    BY <2>2, <2>3
<1>6. ASSUME NEW i \in Pins PROVE \E k \in 1 .. 2 * NumPins : p[k] = Op("export", i)
  <2>1. p[2 * i + 2] = Op("export", i)
    BY <1>2, <1>4
  <2>2. 2 * i + 2 \in 1 .. 2 * NumPins
    BY PinsAre
  <2>3. QED
    BY <2>1, <2>2
<1>7. p = exportAllPins
  BY DEF p, ops, exportAllPins
<1>8. Fits(p, r, {})
  <2>1. 2 * NumPins <= 2 * NumPins + 3
    BY PinsAre
  <2>2. r.pins = Pins /\ Len(p) = 2 * NumPins /\ p \in Seq(GpioOps)
    BY <1>4
  <2>3. QED
    BY <1>5, <1>6, <2>1, <2>2, Zenon DEF Fits, PutsBack
<1>9. QED
  BY <1>7, <1>8

LEMMA UnexportAllFits ==
  ASSUME NEW r \in Requests, r.cmd = "unexport", r.pins = Pins
  PROVE  Fits(unexportAllPins, r, Pins)
<1> DEFINE ops == [i \in Pins |-> unexportPin(i)]
           p   == AllPins(ops)
<1>1. ASSUME NEW i \in Pins
      PROVE  /\ ops[i] \in Seq(GpioOps) /\ Len(ops[i]) = 1 /\ ops[i][1] = Op("unexport", i)
  BY OpIs DEF unexportPin
<1>2. ops \in [Pins -> Seq(GpioOps)]
  BY <1>1
<1> HIDE DEF ops
<1>3. /\ p \in Seq(GpioOps) /\ Len(p) = 1 * NumPins
      /\ \A k \in 1 .. 1 * NumPins : \E i \in Pins, j \in 1 .. 1 : k = 1 * i + j /\ p[k] = ops[i][j]
  BY <1>1, <1>2, AllPinsInOrder
<1> HIDE DEF p
<1>4. \A k \in 1 .. Len(p) : p[k].do = "unexport" /\ p[k].pin \in Pins
  BY <1>1, <1>3, OpIs
<1>5. p = unexportAllPins
  BY DEF p, ops, unexportAllPins
<1>6. Fits(p, r, Pins)
  BY <1>3, <1>4, PinsAre DEF Fits, PutsBack
<1>7. QED
  BY <1>5, <1>6

LEMMA AccessIs ==
  ASSUME NEW i \in Pins
  PROVE  /\ Access(i) \in Seq(GpioOps) /\ Len(Access(i)) = 3
         /\ Access(i)[1] = Op("need", i) /\ Access(i)[2] = Op("export", i) /\ Access(i)[3] = Op("access", i)
<1>1. Op("need", i) \in GpioOps /\ Op("export", i) \in GpioOps /\ Op("access", i) \in GpioOps
  BY OpIs
<1>3. Access(i) = <<Op("need", i)>> \o <<Op("export", i)>> \o <<Op("access", i)>>
  BY Zenon DEF Access, exportPin
<1>4. QED
  BY <1>1, <1>3

LEMMA ProgramFits ==
  ASSUME NEW r \in Requests
  PROVE  /\ Fits(Program(r), r, IF r.cmd = "unexport" THEN r.pins ELSE {})
         /\ r.cmd = "access" => \E i \in Pins : r.pins = {i} /\ Program(r) = Access(i)
         /\ r.cmd \in {"export", "unexport", "access"} /\ r.pins \subseteq Pins
<1>1. r.cmd \in {"export", "unexport", "access"}
  BY DEF Requests
<1>2. (\E i \in Pins : r.pins = {i}) \/ (r.pins = Pins /\ r.cmd # "access")
  BY DEF Requests
<1>3. CASE r.pins = Pins /\ r.cmd # "access"
  <2>1. CASE r.cmd = "export"
    <3>1. Program(r) = exportAllPins
      BY <1>3, <2>1 DEF Program
    <3>2. QED
      BY <1>3, <2>1, <3>1, ExportAllFits
  <2>2. CASE r.cmd = "unexport"
    <3>1. Program(r) = unexportAllPins
      BY <1>3, <2>2 DEF Program
    <3>2. QED
      BY <1>3, <2>2, <3>1, UnexportAllFits
  <2>3. QED
    BY <1>1, <1>3, <2>1, <2>2
<1>4. CASE \E i \in Pins : r.pins = {i}
  <2>1. PICK i \in Pins : r.pins = {i}
    BY <1>4
  <2>2. (CHOOSE j \in r.pins : TRUE) = i /\ r.pins # Pins
    BY <2>1, PinsAre
  <2>3. CASE r.cmd = "export"
    <3>1. Program(r) = <<Op("export", i)>>
      BY <2>2, <2>3 DEF Program, exportPin
    <3>2. QED
      BY <2>1, <2>3, <3>1, OpIs, PinsAre DEF Fits, PutsBack
  <2>4. CASE r.cmd = "unexport"
    <3>1. Program(r) = <<Op("unexport", i)>>
      BY <2>2, <2>4 DEF Program, unexportPin
    <3>2. QED
      BY <2>1, <2>4, <3>1, OpIs, PinsAre DEF Fits, PutsBack
  <2>5. CASE r.cmd = "access"
    <3>1. Program(r) = Access(i)
      BY <2>2, <2>5 DEF Program
    <3>2. QED
      <4> DEFINE p == Access(i)
      <4>1. /\ p \in Seq(GpioOps) /\ Len(p) = 3
            /\ p[1] = Op("need", i) /\ p[2] = Op("export", i) /\ p[3] = Op("access", i)
        BY AccessIs
      <4> HIDE DEF p
      <4>2. \A k \in 1 .. 3 : p[k].do # "unexport"
        BY <4>1, OpIs
      <4>3. Fits(p, r, {})
        BY <2>1, <2>5, <4>1, <4>2, PinsAre DEF Fits, PutsBack
      <4>4. QED
        BY <2>1, <2>5, <3>1, <4>3 DEF p
  <2>6. QED
    BY <1>1, <2>3, <2>4, <2>5
<1>5. QED
  BY <1>2, <1>3, <1>4

-----------------------------------------------------------------------------
(* What keeps a call sound                                                 *)

LEMMA SoundMore ==
  ASSUME NEW j \in GpioJob, NEW ex, NEW ex2, NEW gone, NEW gone2, Sound(j, ex, gone),
         j.spoilt \/ \A i \in j.pins : i \in ex => i \in ex2,
         gone \subseteq gone2
  PROVE  Sound(j, ex2, gone2)
<1>1. ActsOn(j) /\ Finds(j, ex) /\ PutsBack(j.todo, gone) 
  BY DEF Sound
<1>2. PutsBack(j.todo, gone2)
  BY <1>1 DEF PutsBack
<1>3. Finds(j, ex2)
  BY <1>1 DEF Finds
<1>4. QED
  BY <1>1, <1>2, <1>3 DEF Sound

LEMMA SoundSpoilt ==
  ASSUME NEW j \in GpioJob, NEW ex, NEW ex2, NEW gone, Sound(j, ex, gone)
  PROVE  /\ [j EXCEPT !.spoilt = TRUE] \in GpioJob
         /\ Sound([j EXCEPT !.spoilt = TRUE], ex2, gone)
<1> DEFINE n == [j EXCEPT !.spoilt = TRUE]
<1>1. /\ n \in GpioJob /\ n.spoilt /\ n.at = j.at /\ n.cmd = j.cmd /\ n.todo = j.todo /\ n.pins = j.pins
  BY DEF GpioJob
<1> HIDE DEF n
<1>2. ActsOn(j) /\ Finds(j, ex) /\ PutsBack(j.todo, gone)
  BY DEF Sound
<1>3. ActsOn(n) /\ PutsBack(n.todo, gone)
  BY <1>1, <1>2 DEF ActsOn
<1>4. Finds(n, ex2)
  BY <1>1, <1>2 DEF Finds, IsRunning
<1>5. QED
  BY <1>1, <1>3, <1>4 DEF Sound, n

(* A call goes on behind its first n operations.                            *)
LEMMA Behind ==
  ASSUME NEW j \in GpioJob, NEW n \in {1, 2}, n <= Len(j.todo)
  PROVE  LET h == [j EXCEPT !.at = "test", !.todo = SubSeq(@, n + 1, Len(@))]
         IN  /\ h \in GpioJob /\ h.at = "test" /\ h.cmd = j.cmd /\ h.pins = j.pins
             /\ h.missed = j.missed /\ h.spoilt = j.spoilt
             /\ Len(h.todo) = Len(j.todo) - n
             /\ \A k \in 1 .. Len(h.todo) : h.todo[k] = j.todo[k + n]
<1>1. j.todo \in Seq(GpioOps)
  BY DEF GpioJob
<1> DEFINE s == SubSeq(j.todo, n + 1, Len(j.todo))
<1>2. /\ s \in Seq(GpioOps) /\ Len(s) = Len(j.todo) - n
      /\ \A k \in 1 .. Len(s) : s[k] = j.todo[k + n]
  BY <1>1
<1> HIDE DEF s
<1>3. LET h == [j EXCEPT !.at = "test", !.todo = s]
      IN  /\ h \in GpioJob /\ h.at = "test" /\ h.cmd = j.cmd /\ h.pins = j.pins
          /\ h.missed = j.missed /\ h.spoilt = j.spoilt /\ h.todo = s
  BY <1>2 DEF GpioJob
<1>4. [j EXCEPT !.at = "test", !.todo = SubSeq(@, n + 1, Len(@))] = [j EXCEPT !.at = "test", !.todo = s]
  BY DEF s, GpioJob
<1>5. QED
  BY <1>2, <1>3, <1>4

LEMMA SoundBehind ==
  ASSUME NEW j \in GpioJob, NEW n \in {1, 2}, n <= Len(j.todo),
         NEW ex, NEW ex2, NEW gone, Sound(j, ex, gone),
         j.cmd = "access" /\ Len(j.todo) = n + 1 => j.pins \subseteq ex2,
         IsRunning(j), NEW h \in GpioJob, h.at = "test", h.cmd = j.cmd, h.pins = j.pins,
         Len(h.todo) = Len(j.todo) - n, \A k \in 1 .. Len(h.todo) : h.todo[k] = j.todo[k + n]
  PROVE  Sound(h, ex2, gone)
<1>1. Len(j.todo) \in Nat /\ Len(h.todo) \in Nat
  BY DEF GpioJob
<1>2. Finds(j, ex) /\ PutsBack(j.todo, gone)
  BY DEF Sound
<1>3. ActsOn(h)
  BY DEF ActsOn
<1>4. PutsBack(h.todo, gone)
  <2> SUFFICES ASSUME NEW k \in 1 .. Len(h.todo), h.todo[k].do = "unexport", h.todo[k].pin \notin gone
               PROVE  k < Len(h.todo) /\ h.todo[k + 1] = Op("export", h.todo[k].pin)
    BY DEF PutsBack
  <2>1. k + n \in 1 .. Len(j.todo) /\ j.todo[k + n] = h.todo[k]
    BY <1>1
  <2>2. k + n < Len(j.todo) /\ j.todo[(k + n) + 1] = Op("export", h.todo[k].pin)
    BY <1>2, <2>1 DEF PutsBack
  <2>3. k + 1 \in 1 .. Len(h.todo) /\ (k + 1) + n = (k + n) + 1
    BY <1>1, <2>2
  <2>4. h.todo[k + 1] = j.todo[(k + n) + 1]
    BY <2>3
  <2>5. QED
    BY <1>1, <2>2, <2>3, <2>4
<1>5. Finds(h, ex2)
  <2>1. CASE j.cmd = "access"
    <3>1. PICK i \in Pins : j.pins = {i} /\ AccessLeft(j.todo, i)
      BY <1>2, <2>1 DEF Finds
    <3>2. Len(h.todo) <= 2 /\ (Len(h.todo) = 1 => i \in ex2)
      BY <1>1, <3>1, <2>1 DEF AccessLeft
    <3>3. Len(h.todo) >= 1 => h.todo[Len(h.todo)] = Op("access", i)
      <4>1. SUFFICES ASSUME Len(h.todo) >= 1 PROVE h.todo[Len(h.todo)] = Op("access", i)
        OBVIOUS
      <4>2. Len(h.todo) \in 1 .. Len(h.todo) /\ Len(h.todo) + n = Len(j.todo)
        BY <1>1, <4>1
      <4>3. QED
        BY <1>1, <3>1, <4>2 DEF AccessLeft
    <3>4. Len(h.todo) >= 2 => h.todo[Len(h.todo) - 1] = Op("export", i)
      <4>1. SUFFICES ASSUME Len(h.todo) >= 2 PROVE h.todo[Len(h.todo) - 1] = Op("export", i)
        OBVIOUS
      <4>2. /\ Len(h.todo) - 1 \in 1 .. Len(h.todo)
            /\ (Len(h.todo) - 1) + n = Len(j.todo) - 1 /\ Len(j.todo) >= 2
        BY <1>1, <4>1
      <4>3. h.todo[Len(h.todo) - 1] = j.todo[Len(j.todo) - 1]
        BY <4>2
      <4>4. QED
        BY <3>1, <4>2, <4>3 DEF AccessLeft
    <3>5. AccessLeft(h.todo, i)
      BY <1>1, <3>2, <3>3, <3>4 DEF AccessLeft
    <3>6. QED
      BY <2>1, <3>1, <3>2, <3>5 DEF Finds
  <2>2. CASE j.cmd # "access"
    <3>1. ASSUME NEW k \in 1 .. Len(h.todo) PROVE h.todo[k].do \in {"export", "unexport"}
      <4>1. k + n \in 1 .. Len(j.todo) /\ h.todo[k] = j.todo[k + n]
        BY <1>1
      <4>2. QED
        BY <1>2, <2>2, <4>1 DEF Finds
    <3>2. QED
      BY <2>2, <3>1 DEF Finds
  <2>3. QED
    BY <2>1, <2>2
<1>6. QED
  BY <1>3, <1>4, <1>5 DEF Sound

(* The pins that are owed stay so if nobody forgets them.                   *)
LEMMA StillOwed ==
  ASSUME GpioTable, OwedInv, withdrawn \subseteq withdrawn',
         \A c \in GpioCalls : \/ gjob'[c].pins = gjob[c].pins /\ gjob'[c].cmd = gjob[c].cmd
                             \/ gjob'[c].cmd = "unexport"
                             \/ \A i \in gjob'[c].pins : Pending(i)',
         \A i \in Pins \ withdrawn' : (i \in Taken \/ Pending(i)) => i \in Taken' \/ Pending(i)'
  PROVE  OwedInv'
  BY DEF OwedInv

LEMMA GpioInitInv == GpioInit => GpioInv
<1> SUFFICES ASSUME GpioInit PROVE GpioInv
  OBVIOUS
<1>1. NoGpioCall.at = "none" /\ NoGpioCall.pins = {} /\ NoGpioCall.todo = <<>> /\ ~ NoGpioCall.missed
      /\ NoGpioCall \in [at : {"none", "test", "act", "done"}, cmd : {"none", "export", "unexport", "access"},
                         todo : Seq(GpioOps), pins : SUBSET Pins, missed : BOOLEAN, spoilt : BOOLEAN]
  BY DEF NoGpioCall
<1>2. \A c \in GpioCalls : gjob[c] = NoGpioCall
  BY DEF GpioInit
<1>3. GpioTable
  BY <1>1, <1>2, PinsAre DEF GpioInit, GpioTable, GpioJob
<1>4. Sound(NoGpioCall, Taken, withdrawn)
  BY <1>1 DEF Sound, ActsOn, Finds, IsRunning, PutsBack
<1>5. SoundInv /\ MissedInv
  BY <1>1, <1>2, <1>4 DEF SoundInv, MissedInv
<1>6. OwedInv
  BY <1>1, <1>2 DEF OwedInv
<1>7. QED
  BY <1>3, <1>5, <1>6 DEF GpioInv

LEMMA GpioCallStep == ASSUME GpioInv, NEW c \in GpioCalls, GpioCall(c) PROVE GpioInv'
<1>1. PICK r \in Requests :
        /\ gjob' = [gjob EXCEPT ![c] = [NoGpioCall EXCEPT !.at = "test", !.cmd = r.cmd,
                                                         !.todo = Program(r), !.pins = r.pins]]
        /\ withdrawn' = IF r.cmd = "unexport" THEN withdrawn \union r.pins ELSE withdrawn
        /\ exported' = exported /\ held' = held /\ Taken' = Taken
  BY DEF GpioCall, Taken
<1> DEFINE n == [NoGpioCall EXCEPT !.at = "test", !.cmd = r.cmd, !.todo = Program(r), !.pins = r.pins]
           gone == IF r.cmd = "unexport" THEN r.pins ELSE {}
<1>2. Fits(Program(r), r, gone) /\ r.cmd \in {"export", "unexport", "access"} /\ r.pins \subseteq Pins
  BY ProgramFits
<1>3. Program(r) \in Seq(GpioOps) /\ Len(Program(r)) <= 2 * NumPins + 3
  BY <1>2 DEF Fits
<1>4. /\ n \in GpioJob /\ n.at = "test" /\ n.cmd = r.cmd /\ n.todo = Program(r) /\ n.pins = r.pins /\ ~ n.missed
  BY <1>2, <1>3 DEF NoGpioCall, GpioJob
<1> HIDE DEF n
<1>5. /\ gjob \in [GpioCalls -> GpioJob] /\ exported \subseteq Pins /\ held \subseteq Pins /\ withdrawn \subseteq Pins
      /\ \A d \in GpioCalls : Len(gjob[d].todo) <= 2 * NumPins + 3
  BY DEF GpioInv, GpioTable
<1>6. gjob' = [gjob EXCEPT ![c] = n]
  BY <1>1 DEF n
<1>7. gjob'[c] = n /\ \A d \in GpioCalls \ {c} : gjob'[d] = gjob[d]
  BY <1>5, <1>6
<1>8. withdrawn \subseteq withdrawn' /\ gone \subseteq withdrawn' /\ withdrawn' \subseteq Pins
  BY <1>1, <1>2, <1>5
<1>9. GpioTable'
  BY <1>1, <1>3, <1>4, <1>5, <1>6, <1>7, <1>8 DEF GpioTable
<1>10. Sound(n, Taken, withdrawn')
  <2>1. PutsBack(n.todo, withdrawn')
    BY <1>2, <1>4, <1>8 DEF Fits, PutsBack
  <2>2. ActsOn(n)
    BY <1>4 DEF ActsOn
  <2>3. Finds(n, Taken)
    <3>1. CASE r.cmd = "access"
      <4>1. PICK i \in Pins : r.pins = {i} /\ Program(r) = Access(i)
        BY <3>1, ProgramFits
      <4> DEFINE p == Access(i)
      <4>2. AccessLeft(p, i) /\ Len(p) = 3
        <5>1. Len(p) = 3 /\ p[1] = Op("need", i) /\ p[2] = Op("export", i) /\ p[3] = Op("access", i)
          BY AccessIs
        <5> HIDE DEF p
        <5>2. QED
          BY <5>1 DEF AccessLeft
      <4>3. QED
        BY <1>4, <3>1, <4>1, <4>2 DEF Finds
    <3>2. CASE r.cmd # "access"
      BY <1>2, <1>4, <3>2 DEF Finds, Fits
    <3>3. QED
      BY <3>1, <3>2
  <2>4. QED
    BY <1>4, <2>1, <2>2, <2>3 DEF Sound
<1>11. SoundInv'
  <2>1. ASSUME NEW d \in GpioCalls PROVE Sound(gjob[d], Taken, withdrawn')
    BY <1>5, <1>8, SoundMore DEF GpioInv, SoundInv
  <2>2. QED
    BY <1>1, <1>7, <1>10, <2>1 DEF SoundInv
<1>12. OwedInv'
  <2>1. ASSUME NEW i, Pending(i) PROVE Pending(i)'
    <3>1. PICK d \in GpioCalls : IsRunning(gjob[d]) /\ \E k \in 1 .. Len(gjob[d].todo) : gjob[d].todo[k] = Op("export", i)
      BY <2>1 DEF Pending
    <3>2. d # c
      BY <3>1 DEF GpioCall, IsRunning
    <3>3. QED
      BY <1>7, <3>1, <3>2 DEF Pending
  <2>2. ASSUME r.cmd # "unexport", NEW i \in r.pins PROVE Pending(i)'
    <3>1. \E k \in 1 .. Len(n.todo) : n.todo[k] = Op("export", i)
      BY <1>2, <1>4, <2>2 DEF Fits
    <3>2. QED
      BY <1>4, <1>7, <3>1 DEF Pending, IsRunning
  <2>3. QED
    BY <1>1, <1>4, <1>7, <1>8, <2>1, <2>2, StillOwed DEF GpioInv
<1>13. MissedInv'
  BY <1>1, <1>4, <1>7 DEF GpioInv, MissedInv
<1>14. QED
  BY <1>9, <1>11, <1>12, <1>13 DEF GpioInv

(* A call goes on, and what it leaves behind is no export that is owed.     *)
LEMMA BehindStep ==
  ASSUME GpioInv, NEW c \in GpioCalls, NEW n \in {1, 2}, n <= Len(gjob[c].todo), IsRunning(gjob[c]),
         NEW h \in GpioJob, gjob' = [gjob EXCEPT ![c] = h],
         h.at = "test", h.cmd = gjob[c].cmd, h.pins = gjob[c].pins, h.missed => h.spoilt \/ h.pins \subseteq held,
         Len(h.todo) = Len(gjob[c].todo) - n, \A k \in 1 .. Len(h.todo) : h.todo[k] = gjob[c].todo[k + n],
         gjob[c].cmd = "access" /\ Len(gjob[c].todo) = n + 1 => gjob[c].pins \subseteq Taken',
         withdrawn' = withdrawn, held' = held, Taken \subseteq Taken', exported' \subseteq Pins,
         \A k \in 1 .. n, i \in Pins : gjob[c].todo[k] = Op("export", i) => i \in Taken'
  PROVE  GpioInv'
<1>1. /\ gjob \in [GpioCalls -> GpioJob] /\ withdrawn \subseteq Pins /\ held \subseteq Pins
      /\ \A d \in GpioCalls : Len(gjob[d].todo) <= 2 * NumPins + 3
  BY DEF GpioInv, GpioTable
<1>2. gjob'[c] = h /\ \A d \in GpioCalls \ {c} : gjob'[d] = gjob[d]
  BY <1>1
<1>3. Len(gjob[c].todo) \in Nat /\ gjob[c] \in GpioJob
  BY <1>1 DEF GpioJob
<1>4. GpioTable'
  <2>1. Len(h.todo) <= 2 * NumPins + 3
    BY <1>1, <1>3, PinsAre
  <2>2. gjob' \in [GpioCalls -> GpioJob]
    BY <1>1
  <2>3. QED
    BY <1>1, <1>2, <2>1, <2>2 DEF GpioTable
<1>5. SoundInv'
  <2>1. Sound(h, Taken', withdrawn)
    <3>1. Sound(gjob[c], Taken, withdrawn)
      BY DEF GpioInv, SoundInv
    <3>2. QED
      BY <1>3, <3>1, SoundBehind
  <2>2. ASSUME NEW d \in GpioCalls PROVE Sound(gjob[d], Taken', withdrawn)
    BY <1>1, SoundMore DEF GpioInv, SoundInv
  <2>3. QED
    BY <1>2, <2>1, <2>2 DEF SoundInv
<1>6. OwedInv'
  <2>1. ASSUME NEW i \in Pins, Pending(i) PROVE i \in Taken' \/ Pending(i)'
    <3>1. PICK d \in GpioCalls : /\ IsRunning(gjob[d])
                               /\ \E k \in 1 .. Len(gjob[d].todo) : gjob[d].todo[k] = Op("export", i)
      BY <2>1 DEF Pending
    <3> PICK k \in 1 .. Len(gjob[d].todo) : gjob[d].todo[k] = Op("export", i)
      BY <3>1
    <3>2. CASE d # c
      BY <1>2, <3>1, <3>2 DEF Pending
    <3>3. CASE d = c /\ k <= n
      BY <3>1, <3>3
    <3>4. CASE d = c /\ k > n
      <4>1. k - n \in 1 .. Len(h.todo) /\ (k - n) + n = k
        BY <1>3, <3>4
      <4>2. h.todo[k - n] = Op("export", i)
        BY <3>1, <3>4, <4>1
      <4>3. QED
        BY <1>2, <4>1, <4>2 DEF Pending, IsRunning
    <3>5. QED
      BY <3>2, <3>3, <3>4
  <2>2. \A d \in GpioCalls : gjob'[d].pins = gjob[d].pins /\ gjob'[d].cmd = gjob[d].cmd
    BY <1>2
  <2>3. QED
    BY <2>1, <2>2, StillOwed DEF GpioInv
<1>7. MissedInv'
  BY <1>2 DEF GpioInv, MissedInv
<1>8. QED
  BY <1>4, <1>5, <1>6, <1>7 DEF GpioInv

\* Call c as Done(c, n) leaves it.
After(c, n) == [gjob[c] EXCEPT !.at = "test", !.todo = SubSeq(@, n + 1, Len(@))]

LEMMA DoneIs ==
  ASSUME GpioTable, NEW c \in GpioCalls, NEW n
  PROVE  /\ Done(c, n) = [gjob EXCEPT ![c] = After(c, n)]
         /\ Done(c, n)[c] = After(c, n) /\ \A d \in GpioCalls \ {c} : Done(c, n)[d] = gjob[d]
<1>1. gjob \in [GpioCalls -> GpioJob] /\ gjob[c] \in GpioJob
  BY DEF GpioTable
<1>2. Done(c, n) = [gjob EXCEPT ![c] = After(c, n)]
  BY <1>1 DEF Done, After, GpioJob
<1>3. QED
  BY <1>1, <1>2

(* What a call that has something to do is about to do.                     *)
LEMMA ThisIs ==
  ASSUME GpioTable, NEW c \in GpioCalls, gjob[c].todo # <<>>
  PROVE  /\ This(c) = gjob[c].todo[1] /\ This(c) \in GpioOps /\ 1 <= Len(gjob[c].todo)
         /\ This(c).pin \in Pins /\ This(c) = Op(This(c).do, This(c).pin)
<1>1. gjob[c].todo \in Seq(GpioOps)
  BY DEF GpioTable, GpioJob
<1>2. This(c) = gjob[c].todo[1] /\ This(c) \in GpioOps /\ 1 <= Len(gjob[c].todo)
  BY <1>1 DEF This
<1>3. QED
  BY <1>2 DEF GpioOps, Op

(* A running call that accesses a pin.                                      *)
LEMMA AccessAt ==
  ASSUME GpioInv, NEW c \in GpioCalls, IsRunning(gjob[c]), gjob[c].todo # <<>>
  PROVE  /\ gjob[c].cmd = "access" \/ This(c).do \in {"need", "access"}
              => /\ gjob[c].cmd = "access" /\ gjob[c].pins = {This(c).pin} /\ This(c).do # "unexport"
                 /\ Len(gjob[c].todo) = 3 <=> This(c).do = "need"
                 /\ Len(gjob[c].todo) = 2 <=> This(c).do = "export"
                 /\ Len(gjob[c].todo) = 1 <=> This(c).do = "access"
                 /\ Len(gjob[c].todo) = 3 => gjob[c].todo[2] = Op("export", This(c).pin)
                 /\ Len(gjob[c].todo) = 1 => This(c).pin \in Taken \/ gjob[c].spoilt
<1>1. This(c) = gjob[c].todo[1] /\ 1 <= Len(gjob[c].todo) /\ Len(gjob[c].todo) \in Nat
  BY ThisIs DEF GpioInv, GpioTable, GpioJob
<1>2. Finds(gjob[c], Taken)
  BY DEF GpioInv, SoundInv, Sound
<1>3. CASE gjob[c].cmd = "access"
  <2>1. PICK i \in Pins : /\ gjob[c].pins = {i} /\ AccessLeft(gjob[c].todo, i)
                          /\ Len(gjob[c].todo) = 1 => i \in Taken \/ gjob[c].spoilt
    BY <1>2, <1>3 DEF Finds
  <2>2. /\ Op("need", i).do = "need" /\ Op("export", i).do = "export" /\ Op("access", i).do = "access"
        /\ Op("need", i).pin = i /\ Op("export", i).pin = i /\ Op("access", i).pin = i
    BY OpIs
  <2>3. CASE Len(gjob[c].todo) = 3
    BY <1>1, <1>3, <2>1, <2>2, <2>3 DEF AccessLeft
  <2>4. CASE Len(gjob[c].todo) = 2
    BY <1>1, <1>3, <2>1, <2>2, <2>4 DEF AccessLeft
  <2>5. CASE Len(gjob[c].todo) = 1
    BY <1>1, <1>3, <2>1, <2>2, <2>5 DEF AccessLeft
  <2>6. Len(gjob[c].todo) <= 3
    BY <2>1, Zenon DEF AccessLeft
  <2>7. Len(gjob[c].todo) = 1 \/ Len(gjob[c].todo) = 2 \/ Len(gjob[c].todo) = 3
    <3> DEFINE len == Len(gjob[c].todo)
    <3>1. len \in Nat /\ 1 <= len /\ len <= 3
      BY <1>1, <2>6
    <3> HIDE DEF len
    <3>2. len = 1 \/ len = 2 \/ len = 3
      BY <3>1
    <3>3. QED
      BY <3>2 DEF len
  <2>8. QED
    BY <2>3, <2>4, <2>5, <2>7, Zenon
<1>4. CASE gjob[c].cmd # "access"
  <2>1. 1 \in 1 .. Len(gjob[c].todo)
    BY <1>1
  <2>2. This(c).do \in {"export", "unexport"}
    BY <1>1, <1>2, <1>4, <2>1 DEF Finds
  <2>3. QED
    BY <1>4, <2>2
<1>5. QED
  BY <1>3, <1>4

LEMMA SkipStep ==
  ASSUME GpioInv, NEW c \in GpioCalls, NEW n \in {1, 2}, IsRunning(gjob[c]), gjob[c].todo # <<>>,
         gjob' = Done(c, n), withdrawn' = withdrawn, held' = held, Taken \subseteq Taken', exported' \subseteq Pins,
         \/ n = 1 /\ (This(c).do = "export" => This(c).pin \in Taken')
         \/ n = 2 /\ This(c).do = "need" /\ This(c).pin \in Taken'
  PROVE  GpioInv'
<1>1. GpioTable /\ gjob[c] \in GpioJob /\ Len(gjob[c].todo) \in Nat /\ (gjob[c].missed => gjob[c].spoilt \/ gjob[c].pins \subseteq held)
  BY DEF GpioInv, GpioTable, GpioJob, MissedInv
<1>2. /\ This(c) = gjob[c].todo[1] /\ 1 <= Len(gjob[c].todo) /\ This(c).pin \in Pins
      /\ This(c) = Op(This(c).do, This(c).pin)
  BY <1>1, ThisIs
<1>3. n <= Len(gjob[c].todo)
  BY <1>2, AccessAt
<1> DEFINE h == After(c, n)
<1>4. /\ h \in GpioJob /\ h.at = "test" /\ h.cmd = gjob[c].cmd /\ h.pins = gjob[c].pins
      /\ h.missed = gjob[c].missed /\ h.spoilt = gjob[c].spoilt
      /\ Len(h.todo) = Len(gjob[c].todo) - n
      /\ \A k \in 1 .. Len(h.todo) : h.todo[k] = gjob[c].todo[k + n]
  BY <1>1, <1>3, Behind DEF After
<1>5. gjob' = [gjob EXCEPT ![c] = h]
  BY <1>1, DoneIs
<1> HIDE DEF h
<1>6. gjob[c].cmd = "access" /\ Len(gjob[c].todo) = n + 1 => gjob[c].pins \subseteq Taken'
  <2>1. SUFFICES ASSUME gjob[c].cmd = "access", Len(gjob[c].todo) = n + 1
                 PROVE  gjob[c].pins \subseteq Taken'
    OBVIOUS
  <2>2. gjob[c].pins = {This(c).pin} /\ (Len(gjob[c].todo) = 2 => This(c).do = "export")
        /\ (Len(gjob[c].todo) = 3 => This(c).do = "need")
    BY <2>1, AccessAt
  <2>3. QED
    BY <2>1, <2>2
<1>7. \A k \in 1 .. n, i \in Pins : gjob[c].todo[k] = Op("export", i) => i \in Taken'
  <2>1. ASSUME NEW i \in Pins, NEW j \in Pins, Op("export", i) = Op("export", j) PROVE i = j
    BY <2>1, OpIs
  <2>2. ASSUME NEW i \in Pins, This(c) = Op("export", i) PROVE i \in Taken'
    <3>1. This(c).do = "export" /\ This(c).pin = i
      BY <2>2, OpIs
    <3>2. QED
      BY <3>1
  <2>3. ASSUME n = 2, NEW i \in Pins, gjob[c].todo[2] = Op("export", i) PROVE i \in Taken'
    <3>1. This(c).do = "need" /\ This(c).pin \in Taken'
      BY <2>3
    <3>2. gjob[c].todo[2] = Op("export", This(c).pin)
      BY <3>1, AccessAt
    <3>3. QED
      BY <1>2, <2>1, <2>3, <3>1, <3>2
  <2>4. QED
    BY <1>2, <2>2, <2>3
<1>8. h.missed => h.spoilt \/ h.pins \subseteq held
  BY <1>1, <1>4
<1>9. QED
  BY <1>1, <1>3, <1>4, <1>5, <1>6, <1>7, <1>8, BehindStep

LEMMA TestStep == ASSUME GpioInv, NEW c \in GpioCalls, GpioTest(c) PROVE GpioInv'
<1>1. /\ gjob[c].at = "test" /\ gjob[c].todo # <<>> /\ exported' = exported /\ withdrawn' = withdrawn /\ held' = held
      /\ This(c).do \in {"need", "export", "unexport"} /\ IsRunning(gjob[c])
      /\ Taken' = Taken /\ exported \subseteq Taken
  BY DEF GpioTest, IsRunning, Taken
<1>2. GpioTable /\ exported \subseteq Pins /\ gjob \in [GpioCalls -> GpioJob] /\ gjob[c] \in GpioJob
  BY DEF GpioInv, GpioTable
<1>3. CASE gjob' = Done(c, 2) /\ This(c).do = "need" /\ This(c).pin \in exported
  BY <1>1, <1>2, <1>3, SkipStep
<1>4. CASE gjob' = Done(c, 1) /\ (This(c).do = "export" => This(c).pin \in exported)
  BY <1>1, <1>2, <1>4, SkipStep
<1>5. CASE gjob' = [gjob EXCEPT ![c].at = "act"] /\ This(c).do \in {"export", "unexport"}
  <2> DEFINE h == [gjob[c] EXCEPT !.at = "act"]
  <2>1. /\ h \in GpioJob /\ h.at = "act" /\ h.cmd = gjob[c].cmd /\ h.pins = gjob[c].pins
        /\ h.missed = gjob[c].missed /\ h.spoilt = gjob[c].spoilt /\ h.todo = gjob[c].todo
    BY <1>2 DEF GpioJob
  <2>2. gjob' = [gjob EXCEPT ![c] = h]
    BY <1>5
  <2> HIDE DEF h
  <2>3. gjob'[c] = h /\ \A d \in GpioCalls \ {c} : gjob'[d] = gjob[d]
    BY <1>2, <2>2
  <2>4. GpioTable'
    <3>1. gjob' \in [GpioCalls -> GpioJob]
      BY <1>2, <2>1, <2>2
    <3>2. \A d \in GpioCalls : gjob'[d].todo = gjob[d].todo
      BY <2>1, <2>3
    <3>3. QED
      BY <1>1, <1>2, <3>1, <3>2 DEF GpioTable
  <2>5. SoundInv'
    <3>1. This(c) = gjob[c].todo[1] /\ 1 <= Len(gjob[c].todo)
      BY <1>1, <1>2, ThisIs
    <3>2. Sound(gjob[c], Taken, withdrawn)
      BY DEF GpioInv, SoundInv
    <3>3. ActsOn(h)
      BY <1>5, <2>1, <3>1 DEF ActsOn
    <3>4. Finds(h, Taken)
      BY <1>1, <2>1, <3>2 DEF Sound, Finds, IsRunning
    <3>5. Sound(h, Taken, withdrawn)
      BY <2>1, <3>2, <3>3, <3>4 DEF Sound
    <3>6. QED
      BY <1>1, <2>3, <3>5 DEF GpioInv, SoundInv
  <2>6. OwedInv'
    <3>1. \A d \in GpioCalls : /\ gjob'[d].todo = gjob[d].todo /\ gjob'[d].pins = gjob[d].pins
                               /\ gjob'[d].cmd = gjob[d].cmd
                               /\ IsRunning(gjob[d]) => IsRunning(gjob'[d])
      BY <2>1, <2>3 DEF IsRunning
    <3>2. \A i : Pending(i) => Pending(i)'
      BY <3>1 DEF Pending
    <3>3. QED
      BY <1>1, <1>2, <3>1, <3>2, StillOwed DEF GpioInv
  <2>7. MissedInv'
    BY <1>1, <2>1, <2>3 DEF GpioInv, MissedInv
  <2>8. QED
    BY <2>4, <2>5, <2>6, <2>7 DEF GpioInv
<1>6. QED
  BY <1>1, <1>3, <1>4, <1>5 DEF GpioTest

(* echo > export                                                            *)
LEMMA ExportStep ==
  ASSUME GpioInv, NEW c \in GpioCalls, GpioAct(c), This(c).do = "export"
  PROVE  GpioInv'
<1>1. /\ gjob[c].at = "act" /\ exported' = exported \union ({This(c).pin} \ held)
      /\ gjob' = Done(c, 1) /\ withdrawn' = withdrawn /\ held' = held
  BY DEF GpioAct
<1>2. GpioTable /\ exported \subseteq Pins /\ IsRunning(gjob[c]) /\ gjob[c].todo # <<>>
  BY <1>1 DEF GpioInv, GpioTable, SoundInv, Sound, ActsOn, IsRunning
<1>3. This(c).pin \in Pins
  BY <1>2, ThisIs
<1>4. Taken \subseteq Taken' /\ This(c).pin \in Taken'
  BY <1>1 DEF Taken
<1>5. QED
  BY <1>1, <1>2, <1>3, <1>4, SkipStep

(* echo > unexport: the pin is of a call of --unexport, or c exports it next; *)
(* who works on it is spoilt.                                               *)
LEMMA UnexportStep ==
  ASSUME GpioInv, NEW c \in GpioCalls, GpioAct(c), This(c).do # "export"
  PROVE  GpioInv'
<1> PICK i : i = This(c).pin
  OBVIOUS
<1> DEFINE bystanders == {d \in GpioCalls \ {c} : Running(d) /\ i \in gjob[d].pins}
           h == After(c, 1)
<1>1. /\ gjob[c].at = "act" /\ exported' = exported \ {i} /\ withdrawn' = withdrawn /\ held' = held
      /\ gjob' = [d \in GpioCalls |-> [Done(c, 1)[d] EXCEPT !.spoilt = @ \/ d \in bystanders]]
      /\ Taken \ {i} \subseteq Taken'
  BY DEF GpioAct, Taken
<1>2. /\ GpioTable /\ exported \subseteq Pins /\ held \subseteq Pins /\ withdrawn \subseteq Pins
      /\ IsRunning(gjob[c]) /\ gjob[c].todo # <<>>
      /\ gjob \in [GpioCalls -> GpioJob] /\ Sound(gjob[c], Taken, withdrawn)
      /\ \A d \in GpioCalls : Len(gjob[d].todo) <= 2 * NumPins + 3 /\ Len(gjob[d].todo) \in Nat
  BY <1>1 DEF GpioInv, GpioTable, SoundInv, Sound, ActsOn, IsRunning, GpioJob
<1>3. /\ This(c) = gjob[c].todo[1] /\ 1 <= Len(gjob[c].todo) /\ i \in Pins
      /\ This(c) = Op(This(c).do, i)
  BY <1>2, ThisIs
<1>4. This(c).do = "unexport"
  BY <1>1, <1>2, <1>3 DEF Sound, ActsOn
<1>5. /\ h \in GpioJob /\ h.at = "test" /\ h.cmd = gjob[c].cmd /\ h.pins = gjob[c].pins
      /\ h.missed = gjob[c].missed /\ h.spoilt = gjob[c].spoilt
      /\ Len(h.todo) = Len(gjob[c].todo) - 1
      /\ \A k \in 1 .. Len(h.todo) : h.todo[k] = gjob[c].todo[k + 1]
  BY <1>2, <1>3, Behind DEF After
<1>6. gjob[c].cmd # "access"
  BY <1>2, <1>4, AccessAt
<1>7. Done(c, 1)[c] = h /\ \A d \in GpioCalls \ {c} : Done(c, 1)[d] = gjob[d]
  BY <1>2, DoneIs
<1> HIDE DEF h
<1>8. ASSUME NEW d \in GpioCalls \ {c}
      PROVE  /\ gjob'[d] \in GpioJob /\ gjob'[d].at = gjob[d].at /\ gjob'[d].cmd = gjob[d].cmd
             /\ gjob'[d].todo = gjob[d].todo /\ gjob'[d].pins = gjob[d].pins
             /\ Sound(gjob'[d], Taken', withdrawn)
             /\ gjob'[d].missed = gjob[d].missed /\ (gjob[d].spoilt => gjob'[d].spoilt)
  <2>1. gjob[d] \in GpioJob /\ Sound(gjob[d], Taken, withdrawn)
    BY <1>2 DEF GpioInv, SoundInv
  <2>2. CASE d \in bystanders
    <3>1. gjob'[d] = [gjob[d] EXCEPT !.spoilt = TRUE]
      BY <1>1, <1>7, <2>1, <2>2 DEF GpioJob
    <3>2. gjob'[d].at = gjob[d].at /\ gjob'[d].cmd = gjob[d].cmd
          /\ gjob'[d].todo = gjob[d].todo /\ gjob'[d].pins = gjob[d].pins
          /\ gjob'[d].missed = gjob[d].missed /\ gjob'[d].spoilt
      BY <2>1, <3>1 DEF GpioJob
    <3>3. [gjob[d] EXCEPT !.spoilt = TRUE] \in GpioJob /\ Sound([gjob[d] EXCEPT !.spoilt = TRUE], Taken', withdrawn)
      BY <2>1, SoundSpoilt
    <3>4. QED
      BY <3>1, <3>2, <3>3
  <2>3. CASE d \notin bystanders
    <3>1. gjob'[d] = gjob[d]
      BY <1>1, <1>7, <2>1, <2>3 DEF GpioJob
    <3>2. CASE IsRunning(gjob[d])
      <4>1. i \notin gjob[d].pins
        BY <2>3, <3>2 DEF Running, IsRunning
      <4>2. QED
        BY <1>1, <2>1, <3>1, <4>1, SoundMore
    <3>3. CASE ~ IsRunning(gjob[d])
      BY <2>1, <3>1, <3>3 DEF Sound, Finds
    <3>4. QED
      BY <2>1, <3>1, <3>2, <3>3
  <2>4. QED
    BY <2>2, <2>3
<1>9. gjob'[c] = h
  BY <1>1, <1>5, <1>7 DEF GpioJob
<1> HIDE DEF bystanders
<1>10. GpioTable'
  <2>1. gjob' \in [GpioCalls -> GpioJob]
    BY <1>1, <1>5, <1>8, <1>9
  <2>2. \A d \in GpioCalls : Len(gjob'[d].todo) <= 2 * NumPins + 3
    BY <1>2, <1>5, <1>8, <1>9, PinsAre
  <2>3. QED
    BY <1>1, <1>2, <2>1, <2>2 DEF GpioTable
<1>11. SoundInv'
  <2>1. Sound(h, Taken', withdrawn)
    <3>1. gjob[c] \in GpioJob /\ ~ (gjob[c].cmd = "access" /\ Len(gjob[c].todo) = 1 + 1)
      BY <1>2, <1>6
    <3>2. QED
      BY <1>2, <1>3, <1>5, <3>1, SoundBehind
  <2>2. QED
    BY <1>1, <1>8, <1>9, <2>1 DEF SoundInv
<1>12. OwedInv'
  <2>1. i \notin withdrawn => Pending(i)'
    <3>1. SUFFICES ASSUME i \notin withdrawn PROVE Pending(i)'
      OBVIOUS
    <3>2. 1 \in 1 .. Len(gjob[c].todo) /\ PutsBack(gjob[c].todo, withdrawn)
      BY <1>2, <1>3 DEF Sound
    <3>3. 1 < Len(gjob[c].todo) /\ gjob[c].todo[1 + 1] = Op("export", i)
      BY <1>3, <1>4, <3>1, <3>2 DEF PutsBack
    <3>4. 1 \in 1 .. Len(h.todo)
      BY <1>2, <1>5, <3>3
    <3>5. h.todo[1] = Op("export", i)
      BY <1>5, <3>3, <3>4
    <3>6. \E k \in 1 .. Len(h.todo) : h.todo[k] = Op("export", i)
      BY <3>4, <3>5
    <3>7. IsRunning(h)
      BY <1>5 DEF IsRunning
    <3>8. QED
      BY <1>9, <3>6, <3>7, Zenon DEF Pending
  <2>2. ASSUME NEW j \in Pins, Pending(j) PROVE Pending(j)'
    <3>1. PICK d \in GpioCalls : /\ IsRunning(gjob[d])
                               /\ \E k \in 1 .. Len(gjob[d].todo) : gjob[d].todo[k] = Op("export", j)
      BY <2>2 DEF Pending
    <3> PICK k \in 1 .. Len(gjob[d].todo) : gjob[d].todo[k] = Op("export", j)
      BY <3>1
    <3>2. CASE d # c
      BY <1>8, <3>1, <3>2 DEF Pending, IsRunning
    <3>3. CASE d = c
      <4>1. k # 1
        BY <1>3, <1>4, <3>3, OpIs
      <4>2. k - 1 \in 1 .. Len(h.todo) /\ (k - 1) + 1 = k
        BY <1>2, <1>5, <3>3, <4>1
      <4>3. h.todo[k - 1] = Op("export", j)
        BY <1>5, <3>3, <4>2
      <4>4. QED
        BY <1>5, <1>9, <4>2, <4>3 DEF Pending, IsRunning
    <3>4. QED
      BY <3>2, <3>3
  <2>3. \A d \in GpioCalls : gjob'[d].pins = gjob[d].pins /\ gjob'[d].cmd = gjob[d].cmd
    BY <1>5, <1>8, <1>9
  <2>4. \A j \in Pins \ withdrawn' : (j \in Taken \/ Pending(j)) => j \in Taken' \/ Pending(j)'
    <3>1. ASSUME NEW j \in Pins \ withdrawn', j \in Taken \/ Pending(j)
          PROVE  j \in Taken' \/ Pending(j)'
      <4>1. CASE j = i
        BY <1>1, <2>1, <4>1
      <4>2. CASE j # i /\ j \in Taken
        BY <1>1, <4>2
      <4>3. CASE Pending(j)
        BY <2>2, <4>3
      <4>4. QED
        BY <3>1, <4>1, <4>2, <4>3
    <3>2. QED
      BY <3>1
  <2>5. QED
    BY <1>1, <1>2, <2>3, <2>4, StillOwed DEF GpioInv
<1>13. MissedInv'
  BY <1>1, <1>5, <1>8, <1>9 DEF GpioInv, MissedInv
<1>14. QED
  BY <1>10, <1>11, <1>12, <1>13 DEF GpioInv

(* echo or cat of the direction or the value                                *)
LEMMA AccessStep == ASSUME GpioInv, NEW c \in GpioCalls, GpioAccess(c) PROVE GpioInv'
<1>1. /\ gjob[c].at = "test" /\ gjob[c].todo # <<>> /\ This(c).do = "access" /\ IsRunning(gjob[c])
      /\ gjob' = [Done(c, 1) EXCEPT ![c].missed = This(c).pin \notin exported]
      /\ exported' = exported /\ withdrawn' = withdrawn /\ held' = held /\ Taken' = Taken
  BY DEF GpioAccess, IsRunning, Taken
<1>2. GpioTable /\ exported \subseteq Pins /\ gjob \in [GpioCalls -> GpioJob] /\ gjob[c] \in GpioJob
  BY DEF GpioInv, GpioTable
<1>3. This(c) = gjob[c].todo[1] /\ 1 <= Len(gjob[c].todo)
  BY <1>1, <1>2, ThisIs
<1>4. /\ gjob[c].cmd = "access" /\ Len(gjob[c].todo) = 1
      /\ This(c).pin \in Taken \/ gjob[c].spoilt
      /\ gjob[c].pins = {This(c).pin}
  BY <1>1, AccessAt
<1> DEFINE a == After(c, 1)
           m == This(c).pin \notin exported
           h == [a EXCEPT !.missed = m]
<1>5. /\ a \in GpioJob /\ a.at = "test" /\ a.cmd = gjob[c].cmd /\ a.pins = gjob[c].pins
      /\ a.spoilt = gjob[c].spoilt
      /\ Len(a.todo) = Len(gjob[c].todo) - 1
      /\ \A k \in 1 .. Len(a.todo) : a.todo[k] = gjob[c].todo[k + 1]
  BY <1>2, <1>3, Behind DEF After
<1>6. gjob' = [gjob EXCEPT ![c] = h]
  <2>1. Done(c, 1) = [gjob EXCEPT ![c] = a]
    BY <1>2, DoneIs
  <2> HIDE DEF a, m
  <2>2. QED
    BY <1>1, <1>2, <2>1 DEF m
<1> HIDE DEF a
<1>7. m \in BOOLEAN /\ (m => gjob[c].spoilt \/ gjob[c].pins \subseteq held)
  BY <1>4 DEF Taken
<1> HIDE DEF m
<1>8. /\ h \in GpioJob /\ h.at = "test" /\ h.cmd = gjob[c].cmd /\ h.pins = gjob[c].pins
      /\ h.todo = a.todo /\ h.spoilt = gjob[c].spoilt /\ h.missed = m
  BY <1>5, <1>7 DEF GpioJob
<1> HIDE DEF h
<1>9. \A k \in 1 .. 1, j \in Pins : gjob[c].todo[k] = Op("export", j) => j \in Taken'
  BY <1>1, <1>3, OpIs
<1>10. /\ Len(h.todo) = Len(gjob[c].todo) - 1 /\ (h.missed => h.spoilt \/ h.pins \subseteq held)
       /\ \A k \in 1 .. Len(h.todo) : h.todo[k] = gjob[c].todo[k + 1]
  BY <1>5, <1>7, <1>8
<1>11. ~ (gjob[c].cmd = "access" /\ Len(gjob[c].todo) = 1 + 1) /\ 1 \in {1, 2} /\ exported' \subseteq Pins
  BY <1>1, <1>2, <1>4
<1>12. QED
  BY <1>1, <1>3, <1>6, <1>8, <1>9, <1>10, <1>11, BehindStep

(* exit 0                                                                   *)
LEMMA GpioExitStep == ASSUME GpioInv, NEW c \in GpioCalls, GpioExit(c) PROVE GpioInv'
<1> DEFINE h == [NoGpioCall EXCEPT !.at = "done", !.cmd = gjob[c].cmd, !.pins = gjob[c].pins]
<1>1. /\ gjob[c].at = "test" /\ gjob[c].todo = <<>> /\ gjob' = [gjob EXCEPT ![c] = h]
      /\ exported' = exported /\ withdrawn' = withdrawn /\ held' = held /\ Taken' = Taken
  BY DEF GpioExit, Taken
<1>2. /\ GpioTable /\ exported \subseteq Pins /\ held \subseteq Pins /\ withdrawn \subseteq Pins
      /\ gjob \in [GpioCalls -> GpioJob] /\ gjob[c] \in GpioJob
  BY DEF GpioInv, GpioTable
<1>3. /\ h \in GpioJob /\ h.at = "done" /\ h.cmd = gjob[c].cmd /\ h.pins = gjob[c].pins
      /\ h.todo = <<>> /\ ~ h.missed
  <2>1. gjob[c].cmd \in {"none", "export", "unexport", "access"} /\ gjob[c].pins \in SUBSET Pins
    BY <1>2 DEF GpioJob
  <2>2. NoGpioCall \in GpioJob /\ NoGpioCall.todo = <<>> /\ ~ NoGpioCall.missed
    BY DEF NoGpioCall, GpioJob
  <2>3. QED
    BY <2>1, <2>2 DEF GpioJob
<1> HIDE DEF h
<1>4. gjob'[c] = h /\ \A d \in GpioCalls \ {c} : gjob'[d] = gjob[d]
  BY <1>1, <1>2
<1>5. GpioTable'
  <2>1. gjob' \in [GpioCalls -> GpioJob]
    BY <1>1, <1>2, <1>3
  <2>2. \A d \in GpioCalls : gjob'[d].todo = gjob[d].todo
    BY <1>1, <1>3, <1>4
  <2>3. QED
    BY <1>1, <1>2, <2>1, <2>2 DEF GpioTable
<1>6. SoundInv'
  <2>1. Sound(h, Taken, withdrawn)
    BY <1>3 DEF Sound, ActsOn, Finds, IsRunning, PutsBack
  <2>2. QED
    BY <1>1, <1>4, <2>1 DEF GpioInv, SoundInv
<1>7. OwedInv'
  <2>1. ASSUME NEW i, Pending(i) PROVE Pending(i)'
    <3>1. PICK d \in GpioCalls : /\ IsRunning(gjob[d])
                               /\ \E k \in 1 .. Len(gjob[d].todo) : gjob[d].todo[k] = Op("export", i)
      BY <2>1 DEF Pending
    <3>2. d # c
      BY <1>1, <3>1
    <3>3. QED
      BY <1>4, <3>1, <3>2 DEF Pending
  <2>2. QED
    BY <1>1, <1>2, <1>3, <1>4, <2>1, StillOwed DEF GpioInv
<1>8. MissedInv'
  BY <1>1, <1>3, <1>4 DEF GpioInv, MissedInv
<1>9. QED
  BY <1>5, <1>6, <1>7, <1>8 DEF GpioInv

LEMMA GpioNextInv == GpioInv /\ [GpioNext]_gpioVars => GpioInv'
<1> SUFFICES ASSUME GpioInv, [GpioNext]_gpioVars PROVE GpioInv'
  OBVIOUS
<1>1. CASE UNCHANGED gpioVars
  BY <1>1 DEF gpioVars, GpioInv, GpioTable, SoundInv, MissedInv, OwedInv, Pending, Taken
<1>2. ASSUME NEW c \in GpioCalls, GpioAct(c) PROVE GpioInv'
  BY <1>2, ExportStep, UnexportStep
<1>3. QED
  BY <1>1, <1>2, GpioCallStep, TestStep, AccessStep, GpioExitStep DEF GpioNext

-----------------------------------------------------------------------------
(* What the invariant says                                                 *)

LEMMA GpioInvType == GpioInv => GpioTypeOK
  BY DEF GpioInv, GpioTable, GpioJob, GpioTypeOK

LEMMA GpioInvMissed == GpioInv => MissedOnlyIfSpoilt
  BY DEF GpioInv, MissedInv, MissedOnlyIfSpoilt

LEMMA GpioInvOwed == GpioInv => ExportedInTheEnd
<1> SUFFICES ASSUME GpioInv, \A c \in GpioCalls : ~ Running(c), NEW c \in GpioCalls,
                    gjob[c].cmd # "unexport", NEW i \in gjob[c].pins, i \notin withdrawn \union held
             PROVE  i \in exported
  BY DEF ExportedInTheEnd
<1>1. i \in Pins
  BY DEF GpioInv, GpioTable, GpioJob
<1>2. ~ Pending(i)
  BY DEF Pending, Running, IsRunning
<1>3. QED
  BY <1>1, <1>2 DEF GpioInv, OwedInv, Taken
=============================================================================
