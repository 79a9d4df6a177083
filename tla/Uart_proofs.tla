---------------------------- MODULE Uart_proofs ----------------------------
(***************************************************************************)
(* The serial console's settings, for any number of calls, faults and      *)
(* power cuts: an invariant of the steps, from which overlapping calls     *)
(* that agree get what they ask for and keep it.  The theorems are in      *)
(* BoardScripts_proofs, whose specification the steps are part of.         *)
(***************************************************************************)
EXTENDS Uart, Integers, SequenceTheorems, TLAPS

PlainCommands == {Cmd(s, v) : s \in {"uart", "console", "getty"}, v \in BOOLEAN}

\* A command with a fallback does the one thing or, failing that, the other.
EitherWay(s, v) == CmdOr(s, v, <<Cmd(s, ~ v)>>)

FallingBack == {EitherWay(s, v) : s \in {"uart", "getty"}, v \in BOOLEAN}

UartCommands == PlainCommands \union {Cmd("i2c", TRUE), sync} \union FallingBack

ConfigFile == [i2c : BOOLEAN, uart : BOOLEAN]

UartJob ==
  [at : {"none", "next", "rename", "done"}, todo : Seq(UartCommands), copy : ConfigFile,
   install : BOOLEAN, on : SUBSET Settings, off : SUBSET Settings, broken : SUBSET (Settings \union {"sync"})]

UartTable ==
  /\ config \in ConfigFile /\ cmdline \in BOOLEAN /\ getty \in BOOLEAN
  /\ disk \in [config : ConfigFile, cmdline : BOOLEAN, getty : BOOLEAN]
  /\ ujob \in [UartCalls -> UartJob] /\ group \subseteq UartCalls

IsBusy(j) == j.at \in {"next", "rename"}

\* Some command of t is about s.
Touches(t, s) == \E k \in 1 .. Len(t) : t[k].set = s

\* The last of them, if there is one, sets s to v.
Owes(t, s, v) ==
  \A k \in 1 .. Len(t) : t[k].set = s /\ (\A j \in k + 1 .. Len(t) : t[j].set # s) => t[k].to = v

\* The I2C bus comes first, and the UART behind it.
BusFirst(t) == \A k \in 1 .. Len(t) : t[k].set = "i2c" => k = 1 /\ \E j \in 2 .. Len(t) : t[j].set = "uart"

SyncsLast(t) == Len(t) > 0 => t[Len(t)].set = "sync"

\* What a call that is under way still does is what it was asked for.
UartSound(j) ==
  /\ Len(j.todo) <= 5 /\ j.on \intersect j.off = {}
  /\ ~ j.install => "i2c" \notin j.on \union j.off
  /\ IsBusy(j) =>
       /\ BusFirst(j.todo)
       /\ ~ j.install => SyncsLast(j.todo)
       /\ \A s \in Settings : /\ s \notin j.broken => Owes(j.todo, s, s \in j.on)
                              /\ Touches(j.todo, s) => s \in j.on \union j.off
  /\ j.at = "rename" => Len(j.todo) > 0 /\ j.todo[1].set \in {"i2c", "uart"}

UartSoundInv ==
  \A c \in UartCalls : /\ UartSound(ujob[c])
                       /\ IsBusy(ujob[c]) => c \in group
                       /\ ujob[c].at = "none" => c \notin group

CopyInv == \A c \in UartCalls : group = {c} /\ ujob[c].at = "rename" => ujob[c].copy = config

\* The calls of the group agree that s is to be v.
Agreed(s, v) ==
  /\ IF v THEN Asked(s) # {} /\ Refused(s) = {} ELSE Refused(s) # {} /\ Asked(s) = {}
  /\ ~ Exempt(s)

\* Some call is still going to work on s.
Working(s) == \E c \in group : IsBusy(ujob[c]) /\ Touches(ujob[c].todo, s)

AgreedInv == \A s \in Settings, v \in BOOLEAN : Agreed(s, v) => IsOn(s) = v \/ Working(s)

OnDisk(s) == CASE s = "i2c" -> disk.config.i2c [] s = "uart" -> disk.config.uart
               [] s = "console" -> disk.cmdline [] s = "getty" -> disk.getty

DiskInv ==
  (\A c \in group : ~ ujob[c].install) =>
     \A s \in Settings, v \in BOOLEAN : Agreed(s, v) => OnDisk(s) = v \/ Working("sync")

UartInv == UartTable /\ UartSoundInv /\ CopyInv /\ AgreedInv /\ DiskInv

-----------------------------------------------------------------------------
(* Lists of commands                                                       *)

LEMMA SettingsAre ==
  /\ "i2c" \in Settings /\ "uart" \in Settings /\ "console" \in Settings /\ "getty" \in Settings
  /\ "sync" \notin Settings
  /\ \A s \in Settings : s = "i2c" \/ s = "uart" \/ s = "console" \/ s = "getty"
  BY DEF Settings

LEMMA CommandIs ==
  /\ \A s, v : Cmd(s, v).set = s /\ Cmd(s, v).to = v /\ Cmd(s, v).orElse = <<>>
  /\ \A s, v, e : CmdOr(s, v, e).set = s /\ CmdOr(s, v, e).to = v /\ CmdOr(s, v, e).orElse = e
  BY DEF Cmd, CmdOr

LEMMA CommandsAre ==
  /\ \A s \in {"uart", "console", "getty"}, v \in BOOLEAN : Cmd(s, v) \in UartCommands
  /\ Cmd("i2c", TRUE) \in UartCommands /\ sync \in UartCommands
  /\ \A s \in {"uart", "getty"}, v \in BOOLEAN : EitherWay(s, v) \in UartCommands
<1>1. \A s \in {"uart", "console", "getty"}, v \in BOOLEAN : Cmd(s, v) \in PlainCommands
  BY DEF PlainCommands
<1>2. \A s \in {"uart", "getty"}, v \in BOOLEAN : EitherWay(s, v) \in FallingBack
  BY DEF FallingBack
<1>3. QED
  BY <1>1, <1>2 DEF UartCommands

LEMMA CommandTypes ==
  ASSUME NEW x \in UartCommands
  PROVE  /\ x.set \in Settings \union {"sync"} /\ x.to \in BOOLEAN
         /\ x.set = "i2c" => x.to = TRUE
         /\ x.orElse = <<>> \/ \E b \in UartCommands : x.orElse = <<b>> /\ b.set = x.set
         /\ x.set \in {"i2c", "sync"} => x.orElse = <<>>
<1> DEFINE Good == /\ x.set \in Settings \union {"sync"} /\ x.to \in BOOLEAN
                   /\ x.set = "i2c" => x.to = TRUE
                   /\ x.orElse = <<>> \/ \E b \in UartCommands : x.orElse = <<b>> /\ b.set = x.set
                   /\ x.set \in {"i2c", "sync"} => x.orElse = <<>>
<1>1. ASSUME x \in PlainCommands PROVE Good
  BY <1>1 DEF PlainCommands, Cmd, Settings
<1>2. ASSUME x = Cmd("i2c", TRUE) PROVE Good
  BY <1>2 DEF Cmd, Settings
<1>3. ASSUME x = sync PROVE Good
  BY <1>3 DEF sync, Cmd, Settings
<1>4. ASSUME NEW s \in {"uart", "getty"}, NEW v \in BOOLEAN, x = EitherWay(s, v)
      PROVE  Good
  <2>1. Cmd(s, ~ v) \in UartCommands
    BY CommandsAre
  <2>2. Cmd(s, ~ v).set = s
    BY DEF Cmd
  <2>3. x.set = s /\ x.to = v /\ x.orElse = <<Cmd(s, ~ v)>>
    BY <1>4 DEF EitherWay, CmdOr
  <2>4. QED
    BY <2>1, <2>2, <2>3 DEF Settings
<1> HIDE DEF Good
<1>5. x \in FallingBack => \E s \in {"uart", "getty"}, v \in BOOLEAN : x = EitherWay(s, v)
  BY DEF FallingBack
<1>6. x \in PlainCommands \/ x = Cmd("i2c", TRUE) \/ x = sync \/ x \in FallingBack
  BY Zenon DEF UartCommands
<1>7. Good
  BY <1>1, <1>2, <1>3, <1>4, <1>5, <1>6, Zenon
<1>8. QED
  BY <1>7, Zenon DEF Good

LEMMA TailIs ==
  ASSUME NEW t \in Seq(UartCommands), t # <<>>
  PROVE  /\ Head(t) = t[1] /\ t[1] \in UartCommands /\ Len(t) \in Nat /\ Len(t) > 0
         /\ Tail(t) \in Seq(UartCommands) /\ Len(Tail(t)) = Len(t) - 1
         /\ \A k \in 1 .. Len(t) - 1 : Tail(t)[k] = t[k + 1]
  OBVIOUS

(* What is left when the first command is done.                             *)
LEMMA TailOwes ==
  ASSUME NEW t \in Seq(UartCommands), t # <<>>, NEW s, NEW v
  PROVE  /\ Touches(Tail(t), s) => Touches(t, s)
         /\ Touches(t, s) => Touches(Tail(t), s) \/ t[1].set = s
         /\ Owes(t, s, v) => Owes(Tail(t), s, v)
         /\ Owes(t, s, v) /\ t[1].set = s => Touches(Tail(t), s) \/ t[1].to = v
         /\ BusFirst(t) => BusFirst(Tail(t))
         /\ BusFirst(t) /\ t[1].set = "i2c" => Touches(Tail(t), "uart")
         /\ SyncsLast(t) => SyncsLast(Tail(t))
         /\ SyncsLast(t) /\ t[1].set # "sync" => Touches(Tail(t), "sync")
<1> DEFINE r == Tail(t)
<1>1. /\ Len(t) \in Nat /\ Len(t) > 0 /\ Len(r) = Len(t) - 1
      /\ \A k \in 1 .. Len(t) - 1 : r[k] = t[k + 1]
  BY TailIs
<1> HIDE DEF r
<1>2. ASSUME NEW k \in 1 .. Len(r) PROVE k + 1 \in 1 .. Len(t) /\ r[k] = t[k + 1] /\ k + 1 > 1
  BY <1>1
<1>3. ASSUME NEW k \in 1 .. Len(t), k # 1 PROVE k - 1 \in 1 .. Len(r) /\ r[k - 1] = t[k] /\ (k - 1) + 1 = k
  BY <1>1, <1>3
<1>4. Touches(r, s) => Touches(t, s)
  BY <1>2 DEF Touches
<1>5. \A x : Touches(t, x) => Touches(r, x) \/ t[1].set = x
  BY <1>3 DEF Touches
<1>6. Owes(t, s, v) => Owes(r, s, v)
  <2> SUFFICES ASSUME Owes(t, s, v), NEW k \in 1 .. Len(r), r[k].set = s,
                      \A j \in k + 1 .. Len(r) : r[j].set # s
               PROVE  r[k].to = v
    BY DEF Owes
  <2>1. ASSUME NEW j \in (k + 1) + 1 .. Len(t) PROVE t[j].set # s
    <3>1. j - 1 \in k + 1 .. Len(r) /\ j - 1 \in 1 .. Len(r)
      BY <1>1
    <3>2. r[j - 1] = t[j]
      BY <1>1, <3>1
    <3>3. QED
      BY <3>1, <3>2
  <2>2. QED
    BY <1>2, <2>1 DEF Owes
<1>7. Owes(t, s, v) /\ t[1].set = s => Touches(r, s) \/ t[1].to = v
  <2> SUFFICES ASSUME Owes(t, s, v), t[1].set = s, ~ Touches(r, s) PROVE t[1].to = v
    OBVIOUS
  <2>1. ASSUME NEW j \in 1 + 1 .. Len(t) PROVE t[j].set # s
    <3>1. j \in 1 .. Len(t) /\ j # 1
      BY <1>1
    <3>2. QED
      BY <1>3, <3>1 DEF Touches
  <2>2. 1 \in 1 .. Len(t)
    BY <1>1
  <2>3. QED
    BY <2>1, <2>2 DEF Owes
<1>8. BusFirst(t) => BusFirst(r)
  BY <1>2 DEF BusFirst
<1>9. BusFirst(t) /\ t[1].set = "i2c" => Touches(r, "uart")
  <2> SUFFICES ASSUME BusFirst(t), t[1].set = "i2c" PROVE Touches(r, "uart")
    OBVIOUS
  <2>1. 1 \in 1 .. Len(t)
    BY <1>1
  <2>2. PICK j \in 2 .. Len(t) : t[j].set = "uart"
    BY <2>1 DEF BusFirst
  <2>3. j \in 1 .. Len(t) /\ j # 1
    BY <1>1
  <2>4. QED
    BY <1>3, <2>2, <2>3 DEF Touches
<1>10. SyncsLast(t) => SyncsLast(r)
  BY <1>1 DEF SyncsLast
<1>11. SyncsLast(t) /\ t[1].set # "sync" => Touches(r, "sync")
  <2>1. Len(t) \in 1 .. Len(t) /\ (SyncsLast(t) => t[Len(t)].set = "sync")
    BY <1>1 DEF SyncsLast
  <2>2. SyncsLast(t) => Touches(t, "sync")
    BY <2>1 DEF Touches
  <2>3. QED
    BY <1>5, <2>2
<1>12. QED
  BY <1>4, <1>5, <1>6, <1>7, <1>8, <1>9, <1>10, <1>11, Zenon DEF r

LEMMA TailTouches ==
  ASSUME NEW t \in Seq(UartCommands), t # <<>>
  PROVE  /\ \A s : Touches(Tail(t), s) => Touches(t, s)
         /\ \A s : t[1].set # s /\ Touches(t, s) => Touches(Tail(t), s)
         /\ \A s, v : Owes(t, s, v) => Owes(Tail(t), s, v)
         /\ BusFirst(t) => BusFirst(Tail(t))
         /\ BusFirst(t) /\ t[1].set = "i2c" => Touches(Tail(t), "uart")
         /\ SyncsLast(t) => SyncsLast(Tail(t))
         /\ SyncsLast(t) /\ t[1].set # "sync" => Touches(Tail(t), "sync")
<1>1. \A s, v : /\ Touches(Tail(t), s) => Touches(t, s)
                /\ Touches(t, s) => Touches(Tail(t), s) \/ t[1].set = s
                /\ Owes(t, s, v) => Owes(Tail(t), s, v)
  BY TailOwes
<1>2. /\ BusFirst(t) => BusFirst(Tail(t))
      /\ BusFirst(t) /\ t[1].set = "i2c" => Touches(Tail(t), "uart")
      /\ SyncsLast(t) => SyncsLast(Tail(t))
      /\ SyncsLast(t) /\ t[1].set # "sync" => Touches(Tail(t), "sync")
  BY TailOwes
<1>3. QED
  BY <1>1, <1>2, Zenon

(* What is left when it fails: for any other setting the same.              *)
LEMMA FailedOwes ==
  ASSUME NEW t \in Seq(UartCommands), t # <<>>, NEW r, r = AfterFailure(t[1], Tail(t))
  PROVE  /\ r \in Seq(UartCommands) /\ Len(r) <= Len(t) /\ Len(r) \in Nat
         /\ \A s : t[1].set # s => Touches(r, s) <=> Touches(t, s)
         /\ \A s, v : t[1].set # s /\ Owes(t, s, v) => Owes(r, s, v)
         /\ \A s : Touches(r, s) => Touches(t, s)
         /\ BusFirst(t) => BusFirst(r)
         /\ SyncsLast(t) /\ t[1].set # "sync" => SyncsLast(r)
<1>1. t[1] \in UartCommands /\ Len(t) \in Nat /\ Len(t) > 0 /\ Tail(t) \in Seq(UartCommands)
  BY TailIs
<1>2. r = t[1].orElse \o Tail(t)
  BY DEF AfterFailure
<1>3. CASE t[1].orElse = <<>>
  <2>1. r = Tail(t)
    BY <1>1, <1>2, <1>3
  <2>2. Len(r) = Len(t) - 1
    BY <2>1, TailIs
  <2>3. /\ Tail(t) \in Seq(UartCommands) /\ Len(Tail(t)) <= Len(t) /\ Len(Tail(t)) \in Nat
    BY <1>1, <2>1, <2>2
  <2>4. \A s, v : /\ Touches(Tail(t), s) => Touches(t, s)
                  /\ Touches(t, s) => Touches(Tail(t), s) \/ t[1].set = s
                  /\ Owes(t, s, v) => Owes(Tail(t), s, v)
    BY TailOwes
  <2>5. (BusFirst(t) => BusFirst(Tail(t))) /\ (SyncsLast(t) => SyncsLast(Tail(t)))
    BY TailOwes
  <2>6. QED
    BY <2>1, <2>3, <2>4, <2>5, Zenon
<1>4. CASE t[1].orElse # <<>>
  <2>1. PICK b \in UartCommands : t[1].orElse = <<b>> /\ b.set = t[1].set
    BY <1>1, <1>4, CommandTypes
  <2>2. t[1].set \notin {"i2c", "sync"}
    BY <1>1, <1>4, CommandTypes
  <2> DEFINE u == <<b>>
             w == Tail(t)
  <2>3. u \in Seq(UartCommands) /\ Len(u) = 1 /\ u[1] = b
    OBVIOUS
  <2>4. w \in Seq(UartCommands) /\ Len(w) = Len(t) - 1 /\ \A k \in 1 .. Len(t) - 1 : w[k] = t[k + 1]
    BY TailIs
  <2>5. r = u \o w
    BY <1>2, <2>1
  <2> HIDE DEF u, w
  <2>6. /\ r \in Seq(UartCommands) /\ Len(r) = Len(u) + Len(w)
        /\ \A k \in 1 .. Len(u) + Len(w) : r[k] = IF k <= Len(u) THEN u[k] ELSE w[k - Len(u)]
    <3>1. u \in Seq(UartCommands) /\ w \in Seq(UartCommands)
      BY <2>3, <2>4
    <3>2. QED
      BY <2>5, <3>1, ConcatProperties, Zenon
  <2>7. Len(r) = Len(t)
    BY <1>1, <2>3, <2>4, <2>6
  <2>8. r[1] = b /\ \A k \in 2 .. Len(t) : r[k] = t[k]
    <3>1. 1 \in 1 .. Len(u) + Len(w) /\ 1 <= Len(u)
      BY <1>1, <2>3, <2>4
    <3>2. r[1] = b
      BY <2>3, <2>6, <3>1
    <3>3. ASSUME NEW k \in 2 .. Len(t) PROVE r[k] = t[k]
      <4>1. k \in 1 .. Len(u) + Len(w) /\ ~ (k <= Len(u)) /\ k - Len(u) \in 1 .. Len(t) - 1
            /\ (k - Len(u)) + 1 = k
        BY <1>1, <2>3, <2>4
      <4>2. r[k] = w[k - Len(u)]
        BY <2>6, <4>1
      <4>3. QED
        BY <2>4, <4>1, <4>2
    <3>4. QED
      BY <3>2, <3>3
  <2>9. \A k \in 1 .. Len(t) : r[k].set = t[k].set /\ (k # 1 => r[k] = t[k])
    <3>1. ASSUME NEW k \in 1 .. Len(t) PROVE k = 1 \/ k \in 2 .. Len(t)
      BY <1>1
    <3>2. QED
      BY <2>1, <2>8, <3>1
  <2>10. \A s : Touches(r, s) <=> Touches(t, s)
    BY <2>7, <2>9 DEF Touches
  <2>11. ASSUME NEW s, NEW v, t[1].set # s, Owes(t, s, v) PROVE Owes(r, s, v)
    <3> SUFFICES ASSUME NEW k \in 1 .. Len(t), r[k].set = s, \A j \in k + 1 .. Len(t) : r[j].set # s
                 PROVE  r[k].to = v
      BY <2>7 DEF Owes
    <3>1. ASSUME NEW j \in k + 1 .. Len(t) PROVE t[j].set # s
      <4>1. j \in 1 .. Len(t)
        BY <1>1
      <4>2. QED
        BY <2>9, <4>1
    <3>2. k # 1 /\ t[k].set = s
      BY <2>9, <2>11
    <3>3. t[k].to = v
      BY <2>11, <3>1, <3>2 DEF Owes
    <3>4. QED
      BY <2>9, <3>2, <3>3
  <2>12. BusFirst(t) => BusFirst(r)
    <3>1. \A j \in 2 .. Len(t) : j \in 1 .. Len(t)
      BY <1>1
    <3>2. QED
      BY <2>7, <2>9, <3>1 DEF BusFirst
  <2>13. SyncsLast(t) => SyncsLast(r)
    <3>1. Len(t) \in 1 .. Len(t)
      BY <1>1
    <3>2. QED
      BY <2>7, <2>9, <3>1 DEF SyncsLast
  <2>14. QED
    BY <1>1, <2>6, <2>7, <2>10, <2>11, <2>12, <2>13
<1>5. QED
  BY <1>3, <1>4

-----------------------------------------------------------------------------
(* The programs                                                            *)

\* What a program t must be to turn on the settings of on, and off those of off.
Serves(t, on, off, install) ==
  /\ t \in Seq(UartCommands) /\ Len(t) <= 5 /\ BusFirst(t)
  /\ ~ install => SyncsLast(t) /\ Touches(t, "sync")
  /\ \A s \in Settings : /\ Owes(t, s, s \in on)
                         /\ Touches(t, s) <=> s \in on \union off

LEMMA OwesBoth ==
  ASSUME NEW t, NEW S,
         \A s \in Settings : (s \in S => Owes(t, s, TRUE)) /\ (s \notin S => Owes(t, s, FALSE))
  PROVE  \A s \in Settings : Owes(t, s, s \in S)
<1> TAKE s \in Settings
<1>1. CASE s \in S
  <2>1. (s \in S) = TRUE
    BY <1>1
  <2>2. Owes(t, s, TRUE)
    BY <1>1
  <2>3. QED
    BY <2>1, <2>2
<1>2. CASE s \notin S
  <2>1. (s \in S) = FALSE
    BY <1>2
  <2>2. Owes(t, s, FALSE)
    BY <1>2
  <2>3. QED
    BY <2>1, <2>2
<1>3. QED
  BY <1>1, <1>2

LEMMA OwesEach ==
  ASSUME NEW t, NEW S, ~ Touches(t, "i2c"),
         NEW u, NEW g, NEW c, Owes(t, "uart", u), Owes(t, "getty", g), Owes(t, "console", c),
         ("uart" \in S => u = TRUE) /\ ("uart" \notin S => u = FALSE),
         ("getty" \in S => g = TRUE) /\ ("getty" \notin S => g = FALSE),
         ("console" \in S => c = TRUE) /\ ("console" \notin S => c = FALSE)
  PROVE  \A s \in Settings : Owes(t, s, s \in S)
<1>1. \A v : Owes(t, "i2c", v)
  BY DEF Owes, Touches
<1>2. \A s \in Settings : (s \in S => Owes(t, s, TRUE)) /\ (s \notin S => Owes(t, s, FALSE))
  BY <1>1, SettingsAre
<1>3. QED
  BY <1>2, OwesBoth

(* What uno220uart does with a b for the UART and a g for the getty.        *)
LEMMA InOrderServes ==
  ASSUME NEW S \in SUBSET (Settings \ {"i2c"}), NEW b \in UartCommands, NEW g \in UartCommands,
         b.set = "uart", "uart" \in S => b.to = TRUE, "uart" \notin S => b.to = FALSE,
         g.set = "getty", "getty" \in S => g.to = TRUE, "getty" \notin S => g.to = FALSE
  PROVE  Serves(InOrder(<<b>>, IF "console" \in S THEN enableConsoleCmdlineFunc ELSE disableConsoleCmdlineFunc, <<g>>),
                S, (Settings \ {"i2c"}) \ S, FALSE)
<1> DEFINE off == Cmd("console", FALSE)
           on  == Cmd("console", TRUE)
           t   == InOrder(<<b>>, IF "console" \in S THEN enableConsoleCmdlineFunc
                                 ELSE disableConsoleCmdlineFunc, <<g>>)
<1>1. off \in UartCommands /\ on \in UartCommands /\ sync \in UartCommands
  BY CommandsAre
<1>2. off.set = "console" /\ off.to = FALSE /\ on.set = "console" /\ on.to = TRUE /\ sync.set = "sync"
  BY DEF Cmd, sync
<1>4. enableConsoleCmdlineFunc = <<off, on>> /\ disableConsoleCmdlineFunc = <<off>>
  BY Zenon DEF enableConsoleCmdlineFunc, disableConsoleCmdlineFunc
<1> HIDE DEF off, on
<1>5. CASE "console" \in S
  <2>1. t = <<b>> \o <<off, on>> \o <<g>> \o <<sync>>
    BY <1>4, <1>5, Zenon DEF InOrder
  <2> HIDE DEF t
  <2>2. /\ t \in Seq(UartCommands) /\ Len(t) = 5
        /\ t[1] = b /\ t[2] = off /\ t[3] = on /\ t[4] = g /\ t[5] = sync
    BY <1>1, <2>1
  <2>3. \A k \in 1 .. 5 : k = 1 \/ k = 2 \/ k = 3 \/ k = 4 \/ k = 5
    OBVIOUS
  <2>4. /\ t[1].set = "uart" /\ t[2].set = "console" /\ t[3].set = "console" /\ t[4].set = "getty"
        /\ t[5].set = "sync" /\ t[3].to = TRUE /\ t[1].to = b.to /\ t[4].to = g.to
    BY <1>2, <2>2
  <2>5. BusFirst(t) /\ SyncsLast(t) /\ ~ Touches(t, "i2c")
    BY <2>2, <2>3, <2>4 DEF BusFirst, SyncsLast, Touches
  <2>6. Touches(t, "uart") /\ Touches(t, "console") /\ Touches(t, "getty") /\ Touches(t, "sync")
    BY <2>2, <2>4 DEF Touches
  <2>7. Owes(t, "uart", b.to) /\ Owes(t, "getty", g.to)
    BY <2>2, <2>3, <2>4 DEF Owes
  <2>8. Owes(t, "console", TRUE)
    <3>1. \A k \in 1 .. 5 : t[k].set = "console" => k = 2 \/ k = 3
      BY <2>3, <2>4
    <3>2. 3 \in 2 + 1 .. 5
      OBVIOUS
    <3>3. QED
      BY <2>2, <2>4, <3>1, <3>2 DEF Owes
  <2>9. ("console" \in S) = TRUE /\ "i2c" \notin S
    BY <1>5
  <2>10. \A s \in Settings : Owes(t, s, s \in S)
    BY <1>2, <2>5, <2>7, <2>8, <2>9, OwesEach
  <2>11. Serves(t, S, (Settings \ {"i2c"}) \ S, FALSE)
    BY <2>2, <2>5, <2>6, <2>9, <2>10, SettingsAre DEF Serves
  <2>12. QED
    BY <2>11, Zenon DEF t
<1>6. CASE "console" \notin S
  <2>1. t = <<b>> \o <<off>> \o <<g>> \o <<sync>>
    BY <1>4, <1>6, Zenon DEF InOrder
  <2> HIDE DEF t
  <2>2. /\ t \in Seq(UartCommands) /\ Len(t) = 4
        /\ t[1] = b /\ t[2] = off /\ t[3] = g /\ t[4] = sync
    <3> DEFINE q == <<b>> \o <<off>> \o <<g>>
               u == <<sync>>
    <3>1. q \in Seq(UartCommands) /\ Len(q) = 3 /\ q[1] = b /\ q[2] = off /\ q[3] = g
      BY <1>1
    <3>2. u \in Seq(UartCommands) /\ Len(u) = 1 /\ u[1] = sync
      BY <1>1
    <3>3. t = q \o u
      BY <2>1, Zenon
    <3> HIDE DEF q, u
    <3>4. /\ t \in Seq(UartCommands) /\ Len(t) = Len(q) + Len(u)
          /\ \A i \in 1 .. Len(q) + Len(u) : t[i] = IF i <= Len(q) THEN q[i] ELSE u[i - Len(q)]
      <4>1. q \in Seq(UartCommands) /\ u \in Seq(UartCommands)
        BY <3>1, <3>2
      <4>2. QED
        BY <3>3, <4>1, ConcatProperties, Zenon
    <3>5. QED
      BY <3>1, <3>2, <3>4
  <2>3. \A k \in 1 .. 4 : k = 1 \/ k = 2 \/ k = 3 \/ k = 4
    OBVIOUS
  <2>4. /\ t[1].set = "uart" /\ t[2].set = "console" /\ t[3].set = "getty" /\ t[4].set = "sync"
        /\ t[2].to = FALSE /\ t[1].to = b.to /\ t[3].to = g.to
    BY <1>2, <2>2
  <2>5. BusFirst(t) /\ SyncsLast(t) /\ ~ Touches(t, "i2c")
    BY <2>2, <2>3, <2>4 DEF BusFirst, SyncsLast, Touches
  <2>6. Touches(t, "uart") /\ Touches(t, "console") /\ Touches(t, "getty") /\ Touches(t, "sync")
    BY <2>2, <2>4 DEF Touches
  <2>7. /\ Owes(t, "uart", b.to) /\ Owes(t, "getty", g.to)
        /\ Owes(t, "console", FALSE)
    BY <2>2, <2>3, <2>4 DEF Owes
  <2>8. ("console" \in S) = FALSE /\ "i2c" \notin S
    BY <1>6
  <2>9. \A s \in Settings : Owes(t, s, s \in S)
    BY <1>2, <2>5, <2>7, <2>8, OwesEach
  <2>10. Serves(t, S, (Settings \ {"i2c"}) \ S, FALSE)
    BY <2>2, <2>5, <2>6, <2>8, <2>9, SettingsAre DEF Serves
  <2>11. QED
    BY <2>10, Zenon DEF t
<1>7. QED
  BY <1>5, <1>6

(* The choice between the two for the setting s: v with the flag, w without. *)
LEMMA ChoiceServes ==
  ASSUME NEW S, NEW s \in {"uart", "getty"}, NEW v \in BOOLEAN, NEW w \in BOOLEAN, w = ~ v
  PROVE  \E b \in UartCommands : /\ Chosen(s \in S, Cmd(s, v), Cmd(s, w)) = <<b>>
                                 /\ b.set = s /\ (s \in S => b.to = v) /\ (s \notin S => b.to = w)
<1>1. EitherWay(s, v) \in UartCommands /\ EitherWay(s, v).set = s /\ EitherWay(s, v).to = v
  BY CommandsAre DEF EitherWay, CmdOr
<1>2. Cmd(s, w) \in UartCommands /\ Cmd(s, w).set = s /\ Cmd(s, w).to = w
  BY CommandsAre DEF Cmd
<1>3. CmdOr(Cmd(s, v).set, Cmd(s, v).to, <<Cmd(s, w)>>) = EitherWay(s, v)
  <2>1. Cmd(s, v).set = s /\ Cmd(s, v).to = v
    BY DEF Cmd
  <2>2. QED
    BY <2>1, Zenon DEF EitherWay
<1>4. CASE s \in S
  <2>1. Chosen(s \in S, Cmd(s, v), Cmd(s, w)) = <<EitherWay(s, v)>>
    BY <1>3, <1>4, Zenon DEF Chosen
  <2>2. QED
    BY <1>1, <1>4, <2>1, Zenon
<1>5. CASE s \notin S
  <2>1. Chosen(s \in S, Cmd(s, v), Cmd(s, w)) = <<Cmd(s, w)>>
    BY <1>5, Zenon DEF Chosen
  <2>2. QED
    BY <1>2, <1>5, <2>1, Zenon
<1>6. QED
  BY <1>4, <1>5

LEMMA NotIs == FALSE = ~ TRUE /\ TRUE = ~ FALSE /\ TRUE \in BOOLEAN /\ FALSE \in BOOLEAN
  OBVIOUS

LEMMA EnableServes ==
  ASSUME NEW S \in SUBSET Flags
  PROVE  Serves(Enable(S), S, Flags \ S, FALSE)
<1>1. "uart" \in {"uart", "getty"} /\ "getty" \in {"uart", "getty"}
  OBVIOUS
<1>2. PICK b \in UartCommands :
        /\ Chosen("uart" \in S, enableConsoleConfigFunc, disableConsoleConfigFunc) = <<b>>
        /\ b.set = "uart" /\ ("uart" \in S => b.to = TRUE) /\ ("uart" \notin S => b.to = FALSE)
  BY <1>1, NotIs, ChoiceServes, Zenon DEF enableConsoleConfigFunc, disableConsoleConfigFunc
<1>3. PICK g \in UartCommands :
        /\ Chosen("getty" \in S, enableConsoleSystemdFunc, disableConsoleSystemdFunc) = <<g>>
        /\ g.set = "getty" /\ ("getty" \in S => g.to = TRUE) /\ ("getty" \notin S => g.to = FALSE)
  BY <1>1, NotIs, ChoiceServes, Zenon DEF enableConsoleSystemdFunc, disableConsoleSystemdFunc
<1>4. Enable(S) = InOrder(<<b>>, IF "console" \in S THEN enableConsoleCmdlineFunc
                                ELSE disableConsoleCmdlineFunc, <<g>>)
  BY <1>2, <1>3, Zenon DEF Enable
<1>5. S \in SUBSET (Settings \ {"i2c"})
  BY DEF Flags
<1>6. Serves(Enable(S), S, (Settings \ {"i2c"}) \ S, FALSE)
  BY <1>2, <1>3, <1>4, <1>5, InOrderServes
<1>7. QED
  BY <1>6, Zenon DEF Flags

(* --disable does for the others what --enable does for its flags.          *)
LEMMA DisableServes ==
  ASSUME NEW S \in SUBSET Flags
  PROVE  Serves(Disable(S), Flags \ S, S, FALSE)
<1> DEFINE T == Flags \ S
<1>1. "uart" \in {"uart", "getty"} /\ "getty" \in {"uart", "getty"}
  OBVIOUS
<1>2. /\ \A s \in {"uart", "getty", "console"} : s \in S <=> s \notin T
      /\ T \in SUBSET (Settings \ {"i2c"}) /\ S = (Settings \ {"i2c"}) \ T
  BY SettingsAre DEF Flags
<1> HIDE DEF T
<1>3. PICK b \in UartCommands :
        /\ Chosen("uart" \in S, disableConsoleConfigFunc, enableConsoleConfigFunc) = <<b>>
        /\ b.set = "uart" /\ ("uart" \in S => b.to = FALSE) /\ ("uart" \notin S => b.to = TRUE)
  BY <1>1, NotIs, ChoiceServes, Zenon DEF enableConsoleConfigFunc, disableConsoleConfigFunc
<1>4. PICK g \in UartCommands :
        /\ Chosen("getty" \in S, disableConsoleSystemdFunc, enableConsoleSystemdFunc) = <<g>>
        /\ g.set = "getty" /\ ("getty" \in S => g.to = FALSE) /\ ("getty" \notin S => g.to = TRUE)
  BY <1>1, NotIs, ChoiceServes, Zenon DEF enableConsoleSystemdFunc, disableConsoleSystemdFunc
<1>5. (IF "console" \in S THEN disableConsoleCmdlineFunc ELSE enableConsoleCmdlineFunc)
        = (IF "console" \in T THEN enableConsoleCmdlineFunc ELSE disableConsoleCmdlineFunc)
  <2>1. "console" \in S <=> "console" \notin T
    BY <1>2
  <2>2. QED
    BY <2>1, Zenon
<1>6. Disable(S) = InOrder(<<b>>, IF "console" \in T THEN enableConsoleCmdlineFunc
                                 ELSE disableConsoleCmdlineFunc, <<g>>)
  BY <1>3, <1>4, <1>5, Zenon DEF Disable
<1>7. ("uart" \in T => b.to = TRUE) /\ ("uart" \notin T => b.to = FALSE)
      /\ ("getty" \in T => g.to = TRUE) /\ ("getty" \notin T => g.to = FALSE)
  BY <1>2, <1>3, <1>4
<1>8. Serves(Disable(S), T, (Settings \ {"i2c"}) \ T, FALSE)
  <2>1. T \in SUBSET (Settings \ {"i2c"}) /\ b.set = "uart" /\ g.set = "getty"
    BY <1>2, <1>3, <1>4
  <2>2. Serves(InOrder(<<b>>, IF "console" \in T THEN enableConsoleCmdlineFunc
                              ELSE disableConsoleCmdlineFunc, <<g>>),
               T, (Settings \ {"i2c"}) \ T, FALSE)
    BY <1>7, <2>1, InOrderServes
  <2>3. QED
    BY <1>6, <2>2, Zenon
<1>9. QED
  BY <1>2, <1>8, Zenon DEF T

LEMMA PreinstServes == Serves(preinst, {"i2c", "uart"}, {"console"}, TRUE)
<1> DEFINE a == Cmd("i2c", TRUE)
           b == Cmd("uart", TRUE)
           c == Cmd("console", FALSE)
           t == preinst
<1>1. a \in UartCommands /\ b \in UartCommands /\ c \in UartCommands
  BY CommandsAre
<1>2. /\ a.set = "i2c" /\ a.to = TRUE /\ b.set = "uart" /\ b.to = TRUE
      /\ c.set = "console" /\ c.to = FALSE
  BY DEF Cmd
<1>3. t = <<a, b, c>>
  BY Zenon DEF preinst
<1> HIDE DEF a, b, c, t
<1>4. t \in Seq(UartCommands) /\ Len(t) = 3 /\ t[1] = a /\ t[2] = b /\ t[3] = c
  BY <1>1, <1>3
<1>5. \A k \in 1 .. 3 : k = 1 \/ k = 2 \/ k = 3
  OBVIOUS
<1>6. /\ t[1].set = "i2c" /\ t[2].set = "uart" /\ t[3].set = "console"
      /\ t[1].to = TRUE /\ t[2].to = TRUE /\ t[3].to = FALSE
  BY <1>2, <1>4
<1>7. BusFirst(t)
  BY <1>4, <1>5, <1>6 DEF BusFirst
<1>8. /\ Touches(t, "i2c") /\ Touches(t, "uart") /\ Touches(t, "console") /\ ~ Touches(t, "getty")
  BY <1>4, <1>5, <1>6 DEF Touches
<1>9. Owes(t, "i2c", TRUE) /\ Owes(t, "uart", TRUE) /\ Owes(t, "console", FALSE)
  BY <1>4, <1>5, <1>6 DEF Owes
<1> DEFINE on == {"i2c", "uart"}
<1>10. /\ ("i2c" \in on) = TRUE /\ ("uart" \in on) = TRUE /\ ("console" \in on) = FALSE
  OBVIOUS
<1> HIDE DEF on
<1>11. \A s \in Settings : Owes(t, s, s \in on)
  <2>1. \A v : Owes(t, "getty", v)
    BY <1>8 DEF Owes, Touches
  <2>2. \A s \in Settings : (s \in on => Owes(t, s, TRUE)) /\ (s \notin on => Owes(t, s, FALSE))
    BY <1>9, <2>1, SettingsAre DEF on
  <2>3. QED
    BY <2>2, OwesBoth
<1>12. Serves(t, on, {"console"}, TRUE)
  <2>1. \A s \in Settings : Touches(t, s) <=> s \in on \union {"console"}
    BY <1>8, SettingsAre DEF on
  <2>2. QED
    BY <1>4, <1>7, <1>11, <2>1 DEF Serves
<1>13. QED
  BY <1>12 DEF t, on

-----------------------------------------------------------------------------
(* One call goes on                                                        *)

LEMMA JobTypes ==
  ASSUME NEW j \in UartJob
  PROVE  /\ j.at \in {"none", "next", "rename", "done"} /\ j.todo \in Seq(UartCommands) /\ j.copy \in ConfigFile
         /\ j.install \in BOOLEAN /\ j.on \subseteq Settings /\ j.off \subseteq Settings
         /\ j.broken \subseteq Settings \union {"sync"}
  BY DEF UartJob

(* A call that still works on a setting the group agrees on does what it agreed. *)
LEMMA AgreedOwes ==
  ASSUME UartInv, NEW c \in group, IsBusy(ujob[c]), NEW s \in Settings, NEW v \in BOOLEAN,
         Touches(ujob[c].todo, s), Agreed(s, v)
  PROVE  Owes(ujob[c].todo, s, v)
<1>1. c \in UartCalls /\ UartSound(ujob[c])
  BY DEF UartInv, UartTable, UartSoundInv
<1>2. s \notin ujob[c].broken
  BY DEF Agreed, Exempt
<1>3. Owes(ujob[c].todo, s, s \in ujob[c].on) /\ s \in ujob[c].on \union ujob[c].off
  BY <1>1, <1>2 DEF UartSound
<1>4. CASE v = TRUE
  <2>1. s \in ujob[c].on
    BY <1>3, <1>4 DEF Agreed, Refused
  <2>2. (s \in ujob[c].on) = TRUE
    BY <2>1
  <2>3. QED
    BY <1>3, <1>4, <2>2
<1>5. CASE v = FALSE
  <2>1. s \notin ujob[c].on
    BY <1>3, <1>5 DEF Agreed, Asked
  <2>2. (s \in ujob[c].on) = FALSE
    BY <2>1
  <2>3. QED
    BY <1>3, <1>5, <2>2
<1>6. QED
  BY <1>4, <1>5

(* What the group owes, when call c becomes h: what c no longer works on it *)
(* has done, and what is as agreed remains so.                              *)
LEMMA GoesOn ==
  ASSUME UartInv, NEW c \in UartCalls, IsBusy(ujob[c]), NEW h \in UartJob,
         ujob' = [ujob EXCEPT ![c] = h], group' = group, hasAll' = hasAll,
         h.on = ujob[c].on, h.off = ujob[c].off, h.install = ujob[c].install,
         ujob[c].broken \subseteq h.broken, UartSound(h), h.at # "none",
         h.at = "rename" => h.copy = config',
         UartTable',
         \A s \in Settings, v \in BOOLEAN :
            Agreed(s, v) /\ s \notin h.broken =>
              /\ Touches(ujob[c].todo, s) /\ ~ (IsBusy(h) /\ Touches(h.todo, s)) => IsOn(s)' = v
              /\ IsOn(s) = v => IsOn(s)' = v \/ (IsBusy(h) /\ Touches(h.todo, s))
  PROVE  /\ UartSoundInv' /\ CopyInv' /\ AgreedInv' /\ c \in group
         /\ \A s, v : Agreed(s, v)' => Agreed(s, v) /\ s \notin h.broken
         /\ \A d \in group : ujob'[d].install = ujob[d].install
         /\ \A x : Working(x) => Working(x)' \/ Touches(ujob[c].todo, x)
         /\ \A x : IsBusy(h) /\ Touches(h.todo, x) => Working(x)'
<1>1. ujob \in [UartCalls -> UartJob] /\ group \subseteq UartCalls /\ c \in group
  BY DEF UartInv, UartTable, UartSoundInv
<1>2. ujob'[c] = h /\ \A d \in UartCalls \ {c} : ujob'[d] = ujob[d]
  BY <1>1
<1>3. \A d \in UartCalls : /\ ujob'[d].on = ujob[d].on /\ ujob'[d].off = ujob[d].off
                           /\ ujob'[d].install = ujob[d].install /\ ujob[d].broken \subseteq ujob'[d].broken
  BY <1>2
<1>4. ASSUME NEW s, NEW v, Agreed(s, v)' PROVE Agreed(s, v) /\ s \notin h.broken
  <2>1. Asked(s)' = Asked(s) /\ Refused(s)' = Refused(s)
    BY <1>1, <1>3 DEF Asked, Refused
  <2>2. Exempt(s) => Exempt(s)'
    BY <1>1, <1>3 DEF Exempt
  <2>3. s \in h.broken => Exempt(s)'
    BY <1>1, <1>2 DEF Exempt
  <2>4. QED
    BY <1>4, <2>1, <2>2, <2>3 DEF Agreed
<1>5. ASSUME NEW x, Working(x) PROVE Working(x)' \/ Touches(ujob[c].todo, x)
  BY <1>1, <1>2, <1>5 DEF Working
<1>6. ASSUME NEW x, IsBusy(h), Touches(h.todo, x) PROVE Working(x)'
  BY <1>1, <1>2, <1>6 DEF Working
<1>7. UartSoundInv'
  BY <1>1, <1>2 DEF UartInv, UartSoundInv
<1>8. CopyInv'
  BY <1>1, <1>2 DEF CopyInv
<1>9. AgreedInv'
  <2> SUFFICES ASSUME NEW s \in Settings, NEW v \in BOOLEAN, Agreed(s, v)' PROVE IsOn(s)' = v \/ Working(s)'
    BY DEF AgreedInv
  <2>1. Agreed(s, v) /\ s \notin h.broken
    BY <1>4
  <2>2. IsOn(s) = v \/ Working(s)
    BY <2>1 DEF UartInv, AgreedInv
  <2>3. /\ Touches(ujob[c].todo, s) /\ ~ (IsBusy(h) /\ Touches(h.todo, s)) => IsOn(s)' = v
        /\ IsOn(s) = v => IsOn(s)' = v \/ (IsBusy(h) /\ Touches(h.todo, s))
    BY <2>1
  <2>4. QED
    BY <1>5, <1>6, <2>2, <2>3
<1>10. QED
  BY <1>1, <1>3, <1>4, <1>5, <1>6, <1>7, <1>8, <1>9

(* ... and if it forgets no sync, the disk gets what it is owed.            *)
LEMMA GoesOnUnsynced ==
  ASSUME UartInv, NEW c \in UartCalls, IsBusy(ujob[c]), NEW h \in UartJob,
         ujob' = [ujob EXCEPT ![c] = h], group' = group, hasAll' = hasAll, disk' = disk,
         h.on = ujob[c].on, h.off = ujob[c].off, h.install = ujob[c].install,
         ujob[c].broken \subseteq h.broken, UartSound(h), h.at # "none",
         h.at = "rename" => h.copy = config',
         UartTable',
         \A s \in Settings, v \in BOOLEAN :
            Agreed(s, v) /\ s \notin h.broken =>
              /\ Touches(ujob[c].todo, s) /\ ~ (IsBusy(h) /\ Touches(h.todo, s)) => IsOn(s)' = v
              /\ IsOn(s) = v => IsOn(s)' = v \/ (IsBusy(h) /\ Touches(h.todo, s)),
         Touches(ujob[c].todo, "sync") => IsBusy(h) /\ Touches(h.todo, "sync")
  PROVE  UartInv'
<1>1. /\ UartSoundInv' /\ CopyInv' /\ AgreedInv' /\ c \in group
      /\ \A s, v : Agreed(s, v)' => Agreed(s, v) /\ s \notin h.broken
      /\ \A d \in group : ujob'[d].install = ujob[d].install
      /\ \A x : Working(x) => Working(x)' \/ Touches(ujob[c].todo, x)
      /\ \A x : IsBusy(h) /\ Touches(h.todo, x) => Working(x)'
  BY GoesOn
<1>2. DiskInv'
  <2> SUFFICES ASSUME \A d \in group' : ~ ujob'[d].install, NEW s \in Settings, NEW v \in BOOLEAN, Agreed(s, v)'
               PROVE  OnDisk(s)' = v \/ Working("sync")'
    BY DEF DiskInv
  <2>1. Agreed(s, v) /\ \A d \in group : ~ ujob[d].install
    BY <1>1
  <2>2. OnDisk(s) = v \/ Working("sync")
    BY <2>1 DEF UartInv, DiskInv
  <2>3. OnDisk(s)' = OnDisk(s)
    BY DEF OnDisk
  <2>4. QED
    BY <1>1, <2>2, <2>3
<1>3. QED
  BY <1>1, <1>2 DEF UartInv

(* A call that is done with its first command.                              *)
LEMMA ProceedsIs ==
  ASSUME UartInv, NEW c \in UartCalls, IsBusy(ujob[c]), ujob[c].todo # <<>>, Proceeds(c)
  PROVE  LET j == ujob[c]
             h == [j EXCEPT !.at = "next", !.todo = Tail(@), !.copy = NoUartCall.copy]
         IN  /\ ujob' = [ujob EXCEPT ![c] = h] /\ h \in UartJob /\ IsBusy(h) /\ h.at = "next"
             /\ h.todo = Tail(j.todo) /\ h.on = j.on /\ h.off = j.off /\ h.install = j.install
             /\ h.broken = j.broken /\ UartSound(h)
             /\ j \in UartJob /\ j.todo \in Seq(UartCommands) /\ UartSound(j) /\ c \in group
             /\ Command(c) = j.todo[1] /\ Command(c) \in UartCommands
<1> DEFINE j == ujob[c]
           h == [j EXCEPT !.at = "next", !.todo = Tail(@), !.copy = NoUartCall.copy]
<1>1. /\ ujob \in [UartCalls -> UartJob] /\ j \in UartJob /\ UartSound(j) /\ c \in group
      /\ j.todo \in Seq(UartCommands)
  BY JobTypes DEF UartInv, UartTable, UartSoundInv
<1>2. ujob' = [ujob EXCEPT ![c] = h]
  BY <1>1 DEF Proceeds, UartJob
<1>3. Tail(j.todo) \in Seq(UartCommands) /\ NoUartCall.copy \in ConfigFile
  BY <1>1, TailIs DEF NoUartCall, ConfigFile
<1>4. /\ h \in UartJob /\ h.at = "next" /\ h.todo = Tail(j.todo) /\ h.on = j.on /\ h.off = j.off
      /\ h.install = j.install /\ h.broken = j.broken
  BY <1>1, <1>3 DEF UartJob
<1>5. Command(c) = j.todo[1] /\ Command(c) \in UartCommands
  BY <1>1, TailIs DEF Command
<1> HIDE DEF h
<1>6. UartSound(h)
  <2>1. Len(h.todo) <= 5 /\ (BusFirst(j.todo) => BusFirst(h.todo)) /\ (SyncsLast(j.todo) => SyncsLast(h.todo))
    BY <1>1, <1>4, TailIs, TailTouches DEF UartSound
  <2>2. \A s : (Touches(h.todo, s) => Touches(j.todo, s)) /\ \A v : Owes(j.todo, s, v) => Owes(h.todo, s, v)
    BY <1>1, <1>4, TailTouches
  <2>3. h.at # "rename"
    BY <1>4
  <2>4. QED
    BY <1>1, <1>4, <2>1, <2>2, <2>3 DEF UartSound
<1>7. QED
  BY <1>1, <1>2, <1>4, <1>5, <1>6 DEF IsBusy, h

(* The command it is done with was the last on its setting, and did what the *)
(* group agreed, or there is more to come.                                  *)
LEMMA FirstDoes ==
  ASSUME UartInv, NEW c \in group, IsBusy(ujob[c]), ujob[c].todo # <<>>,
         NEW s \in Settings, NEW v \in BOOLEAN, Agreed(s, v)
  PROVE  /\ Touches(ujob[c].todo, s) => Touches(Tail(ujob[c].todo), s) \/ (Command(c).set = s /\ Command(c).to = v)
         /\ Command(c).set = s => Touches(ujob[c].todo, s)
<1>1. ujob[c].todo \in Seq(UartCommands)
  BY JobTypes DEF UartInv, UartTable
<1>2. Command(c) = ujob[c].todo[1] /\ 1 \in 1 .. Len(ujob[c].todo)
  BY <1>1, TailIs DEF Command
<1>3. Touches(ujob[c].todo, s) => Owes(ujob[c].todo, s, v)
  BY AgreedOwes
<1>4. /\ Touches(ujob[c].todo, s) => Touches(Tail(ujob[c].todo), s) \/ ujob[c].todo[1].set = s
      /\ Owes(ujob[c].todo, s, v) /\ ujob[c].todo[1].set = s => Touches(Tail(ujob[c].todo), s) \/ ujob[c].todo[1].to = v
  BY <1>1, TailOwes
<1>5. ujob[c].todo[1].set = s => Touches(ujob[c].todo, s)
  BY <1>2 DEF Touches
<1>6. QED
  BY <1>2, <1>3, <1>4, <1>5

LEMMA ReadStep == ASSUME UartInv, NEW c \in UartCalls, SedRead(c) PROVE UartInv'
<1> DEFINE j == ujob[c]
           h == [j EXCEPT !.at = "rename", !.copy = config]
<1>1. /\ j.at = "next" /\ j.todo # <<>> /\ Command(c).set \in {"i2c", "uart"}
      /\ config' = config /\ cmdline' = cmdline /\ getty' = getty /\ disk' = disk
      /\ hasAll' = hasAll /\ group' = group /\ IsBusy(j)
  BY DEF SedRead, settings, IsBusy
<1>2. /\ ujob \in [UartCalls -> UartJob] /\ j \in UartJob /\ UartSound(j) /\ config \in ConfigFile
      /\ j.todo \in Seq(UartCommands)
  BY JobTypes DEF UartInv, UartTable, UartSoundInv
<1>3. ujob' = [ujob EXCEPT ![c] = h]
  BY <1>2 DEF SedRead, UartJob
<1>4. /\ h \in UartJob /\ h.at = "rename" /\ h.copy = config /\ h.todo = j.todo /\ h.on = j.on /\ h.off = j.off
      /\ h.install = j.install /\ h.broken = j.broken /\ IsBusy(h)
  BY <1>2 DEF UartJob, IsBusy
<1> HIDE DEF h
<1>5. UartSound(h)
  <2>1. Len(j.todo) > 0 /\ j.todo[1].set \in {"i2c", "uart"}
    BY <1>1, <1>2, TailIs DEF Command
  <2>2. QED
    BY <1>1, <1>2, <1>4, <2>1 DEF UartSound
<1>6. UartTable'
  BY <1>1, <1>2, <1>3, <1>4 DEF UartInv, UartTable
<1>7. \A s : IsOn(s)' = IsOn(s)
  BY <1>1 DEF IsOn
<1>8. QED
  BY <1>1, <1>3, <1>4, <1>5, <1>6, <1>7, GoesOnUnsynced

LEMMA RenameStep == ASSUME UartInv, NEW c \in UartCalls, SedRename(c) PROVE UartInv'
<1> DEFINE j == ujob[c]
           h == [j EXCEPT !.at = "next", !.todo = Tail(@), !.copy = NoUartCall.copy]
           x == Command(c)
<1>1. /\ j.at = "rename" /\ IsBusy(j) /\ Proceeds(c)
      /\ config' = Edited(x, j.copy) /\ cmdline' = cmdline /\ getty' = getty /\ disk' = disk
      /\ hasAll' = hasAll /\ group' = group
  BY DEF SedRename, IsBusy
<1>2. UartTable /\ j.todo # <<>> /\ j.copy \in ConfigFile
  BY <1>1, JobTypes DEF UartInv, UartTable, UartSoundInv, UartSound
<1>3. /\ ujob' = [ujob EXCEPT ![c] = h] /\ h \in UartJob /\ IsBusy(h) /\ h.at = "next"
      /\ h.todo = Tail(j.todo) /\ h.on = j.on /\ h.off = j.off /\ h.install = j.install
      /\ h.broken = j.broken /\ UartSound(h)
      /\ j \in UartJob /\ j.todo \in Seq(UartCommands) /\ UartSound(j) /\ c \in group
      /\ x = j.todo[1] /\ x \in UartCommands
  BY <1>1, <1>2, ProceedsIs
<1> HIDE DEF h
<1>4. x.set \in {"i2c", "uart"} /\ x.to \in BOOLEAN /\ (x.set = "i2c" => x.to = TRUE)
  BY <1>1, <1>3, CommandTypes DEF UartSound
<1> HIDE DEF x
<1>5. /\ config' \in ConfigFile
      /\ x.set = "i2c" => config'.i2c = TRUE /\ config'.uart = j.copy.uart
      /\ x.set = "uart" => config'.i2c = j.copy.i2c /\ (hasAll = TRUE => config'.uart = x.to)
  BY <1>1, <1>2, <1>4 DEF Edited, ConfigFile
<1>6. UartTable'
  BY <1>1, <1>2, <1>3, <1>5 DEF UartTable
<1>7. ASSUME NEW s \in Settings, NEW v \in BOOLEAN, Agreed(s, v)
      PROVE  /\ Touches(j.todo, s) /\ ~ Touches(h.todo, s) => IsOn(s)' = v
             /\ IsOn(s) = v => IsOn(s)' = v \/ Touches(h.todo, s)
  <2>1. /\ Touches(j.todo, s) => Touches(h.todo, s) \/ (x.set = s /\ x.to = v)
        /\ x.set = s => Touches(j.todo, s)
    BY <1>1, <1>2, <1>3, <1>7, FirstDoes DEF x
  <2>2. s = "uart" => hasAll = TRUE
    BY <1>7 DEF Agreed, Exempt
  <2>3. x.set = s /\ x.to = v => IsOn(s)' = v
    BY <1>4, <1>5, <2>2 DEF IsOn
  <2>4. ASSUME x.set # s, IsOn(s) = v PROVE IsOn(s)' = v \/ Touches(h.todo, s)
    <3>1. CASE s = "console" \/ s = "getty"
      BY <1>1, <2>4, <3>1 DEF IsOn
    <3>2. CASE s = "uart"
      <4>1. x.set = "i2c"
        BY <1>4, <2>4, <3>2
      <4>2. QED
        BY <1>1, <1>2, <1>3, <3>2, <4>1, TailTouches DEF UartSound
    <3>3. CASE s = "i2c"
      <4>1. group = {c}
        BY <1>3, <1>7, <3>3 DEF Agreed, Exempt
      <4>2. j.copy = config
        BY <1>1, <4>1 DEF UartInv, CopyInv
      <4>3. config'.i2c = config.i2c
        BY <1>4, <1>5, <2>4, <3>3, <4>2
      <4>4. QED
        BY <2>4, <3>3, <4>3 DEF IsOn
    <3>4. QED
      BY <3>1, <3>2, <3>3, SettingsAre
  <2>5. QED
    BY <2>1, <2>3, <2>4
<1>8. Touches(j.todo, "sync") => Touches(h.todo, "sync")
  BY <1>2, <1>3, <1>4, TailTouches
<1>9. QED
  BY <1>1, <1>3, <1>6, <1>7, <1>8, GoesOnUnsynced

(* sed of cmdline.txt, systemctl: one setting becomes what the command says. *)
LEMMA SetStep ==
  ASSUME UartInv, NEW c \in UartCalls, NEW s0 \in {"console", "getty"},
         ujob[c].at = "next", ujob[c].todo # <<>>, Command(c).set = s0, Proceeds(c),
         UNCHANGED <<config, disk, hasAll, group>>,
         \/ s0 = "console" /\ cmdline' = Command(c).to /\ getty' = getty
         \/ s0 = "getty" /\ getty' = Command(c).to /\ cmdline' = cmdline
  PROVE  UartInv'
<1> DEFINE j == ujob[c]
           h == [j EXCEPT !.at = "next", !.todo = Tail(@), !.copy = NoUartCall.copy]
           x == Command(c)
<1>1. UartTable /\ IsBusy(j)
  BY DEF UartInv, IsBusy
<1>2. /\ ujob' = [ujob EXCEPT ![c] = h] /\ h \in UartJob /\ IsBusy(h) /\ h.at = "next"
      /\ h.todo = Tail(j.todo) /\ h.on = j.on /\ h.off = j.off /\ h.install = j.install
      /\ h.broken = j.broken /\ UartSound(h)
      /\ j \in UartJob /\ j.todo \in Seq(UartCommands) /\ UartSound(j) /\ c \in group
      /\ x = j.todo[1] /\ x \in UartCommands
  BY <1>1, ProceedsIs
<1> HIDE DEF h
<1>3. x.to \in BOOLEAN
  BY <1>2, CommandTypes
<1>4. UartTable'
  BY <1>1, <1>2, <1>3 DEF UartTable
<1>5. ASSUME NEW s \in Settings, NEW v \in BOOLEAN, Agreed(s, v)
      PROVE  /\ Touches(j.todo, s) /\ ~ Touches(h.todo, s) => IsOn(s)' = v
             /\ IsOn(s) = v => IsOn(s)' = v \/ Touches(h.todo, s)
  <2>1. /\ Touches(j.todo, s) => Touches(h.todo, s) \/ (x.set = s /\ x.to = v)
        /\ x.set = s => Touches(j.todo, s)
    BY <1>1, <1>2, <1>5, FirstDoes
  <2>2. x.set = s /\ x.to = v => IsOn(s)' = v
    BY DEF IsOn
  <2>3. x.set # s => IsOn(s)' = IsOn(s)
    BY SettingsAre DEF IsOn
  <2>4. QED
    BY <2>1, <2>2, <2>3
<1>6. Touches(j.todo, "sync") => Touches(h.todo, "sync")
  BY <1>2, TailTouches
<1>7. QED
  BY <1>1, <1>2, <1>4, <1>5, <1>6, GoesOnUnsynced

LEMMA UartExitStep == ASSUME UartInv, NEW c \in UartCalls, UartExit(c) PROVE UartInv'
<1> DEFINE j == ujob[c]
           h == [j EXCEPT !.at = "done"]
<1>1. /\ j.at = "next" /\ j.todo = <<>> /\ IsBusy(j)
      /\ config' = config /\ cmdline' = cmdline /\ getty' = getty /\ disk' = disk
      /\ hasAll' = hasAll /\ group' = group
  BY DEF UartExit, settings, IsBusy
<1>2. /\ UartTable /\ ujob \in [UartCalls -> UartJob] /\ j \in UartJob /\ UartSound(j)
  BY DEF UartInv, UartTable, UartSoundInv
<1>3. ujob' = [ujob EXCEPT ![c] = h]
  BY <1>2 DEF UartExit
<1>4. /\ h \in UartJob /\ h.at = "done" /\ h.todo = j.todo /\ h.on = j.on /\ h.off = j.off
      /\ h.install = j.install /\ h.broken = j.broken
  BY <1>2 DEF UartJob
<1> HIDE DEF h
<1>5. UartSound(h)
  BY <1>2, <1>4 DEF UartSound, IsBusy
<1>6. UartTable'
  BY <1>1, <1>2, <1>3, <1>4 DEF UartTable
<1>7. \A s : IsOn(s)' = IsOn(s) /\ ~ Touches(j.todo, s)
  BY <1>1 DEF IsOn, Touches
<1>8. QED
  BY <1>1, <1>3, <1>4, <1>5, <1>6, <1>7, GoesOnUnsynced

(* What is still to be done ends with the sync.                             *)
LEMMA SyncsInTheEnd ==
  ASSUME NEW j \in UartJob, UartSound(j), IsBusy(j), ~ j.install, NEW x, Touches(j.todo, x)
  PROVE  Touches(j.todo, "sync")
<1>1. j.todo \in Seq(UartCommands) /\ SyncsLast(j.todo)
  BY JobTypes DEF UartSound
<1>2. Len(j.todo) \in Nat
  BY <1>1
<1>3. PICK k \in 1 .. Len(j.todo) : j.todo[k].set = x
  BY DEF Touches
<1>4. Len(j.todo) > 0 /\ Len(j.todo) \in 1 .. Len(j.todo)
  BY <1>2, <1>3
<1>5. j.todo[Len(j.todo)].set = "sync"
  BY <1>1, <1>4 DEF SyncsLast
<1>6. QED
  BY <1>4, <1>5 DEF Touches

LEMMA SyncStep == ASSUME UartInv, NEW c \in UartCalls, Sync(c) PROVE UartInv'
<1> DEFINE j == ujob[c]
           h == [j EXCEPT !.at = "next", !.todo = Tail(@), !.copy = NoUartCall.copy]
<1>1. /\ j.todo # <<>> /\ IsBusy(j) /\ Proceeds(c) /\ Command(c).set = "sync"
      /\ disk' = [config |-> config, cmdline |-> cmdline, getty |-> getty]
      /\ config' = config /\ cmdline' = cmdline /\ getty' = getty
      /\ hasAll' = hasAll /\ group' = group
  BY DEF Sync, settings, IsBusy
<1>2. /\ ujob' = [ujob EXCEPT ![c] = h] /\ h \in UartJob /\ IsBusy(h) /\ h.at = "next"
      /\ h.todo = Tail(j.todo) /\ h.on = j.on /\ h.off = j.off /\ h.install = j.install
      /\ h.broken = j.broken /\ UartSound(h)
      /\ j \in UartJob /\ j.todo \in Seq(UartCommands) /\ UartSound(j) /\ c \in group
      /\ Command(c) = j.todo[1] /\ Command(c) \in UartCommands
  BY <1>1, ProceedsIs
<1> HIDE DEF h
<1>3. UartTable'
  BY <1>1, <1>2 DEF UartInv, UartTable
<1>4. \A s : IsOn(s)' = IsOn(s)
  BY <1>1 DEF IsOn
<1>5. \A s \in Settings : Touches(j.todo, s) => Touches(h.todo, s)
  BY <1>1, <1>2, SettingsAre, TailTouches
<1>6. UartSoundInv' /\ CopyInv' /\ AgreedInv'
  BY <1>1, <1>2, <1>3, <1>4, <1>5, GoesOn
<1>7. ASSUME NEW s \in Settings PROVE OnDisk(s)' = IsOn(s)'
  BY <1>1, SettingsAre DEF OnDisk, IsOn
<1>8. ASSUME \A d \in group' : ~ ujob'[d].install, NEW s, Working(s)' PROVE Working("sync")'
  <2>1. PICK d \in group' : IsBusy(ujob'[d]) /\ Touches(ujob'[d].todo, s)
    BY <1>8 DEF Working
  <2>2. ujob'[d] \in UartJob /\ UartSound(ujob'[d])
    BY <1>3, <1>6 DEF UartTable, UartSoundInv
  <2>3. Touches(ujob'[d].todo, "sync")
    BY <1>8, <2>1, <2>2, SyncsInTheEnd
  <2>4. QED
    BY <2>1, <2>3 DEF Working
<1>9. DiskInv'
  BY <1>6, <1>7, <1>8 DEF AgreedInv, DiskInv
<1>10. QED
  BY <1>3, <1>6, <1>9 DEF UartInv

LEMMA ConsoleStep == ASSUME UartInv, NEW c \in UartCalls, SedConsole(c) PROVE UartInv'
  BY SetStep DEF SedConsole

LEMMA SystemctlStep == ASSUME UartInv, NEW c \in UartCalls, Systemctl(c) PROVE UartInv'
  BY SetStep DEF Systemctl

(* A command that fails leaves the other settings to what is still to do.   *)
LEMMA UartFaultStep == ASSUME UartInv, NEW c \in UartCalls, UartFault(c) PROVE UartInv'
<1> DEFINE j == ujob[c]
           x == Command(c)
           h == [j EXCEPT !.at = "next", !.todo = AfterFailure(Head(@), Tail(@)),
                          !.copy = NoUartCall.copy, !.broken = @ \union {x.set}]
<1>1. /\ ujob \in [UartCalls -> UartJob] /\ j \in UartJob /\ UartSound(j) /\ c \in group
      /\ j.todo \in Seq(UartCommands) /\ IsBusy(j) /\ UartTable
  BY JobTypes DEF UartInv, UartTable, UartSoundInv, UartFault, IsBusy
<1>2. j.todo # <<>> /\ x.set \in Settings /\ x = j.todo[1] /\ x = Head(j.todo)
  <2>1. CASE j.at = "rename"
    <3>1. j.todo # <<>> /\ j.todo[1].set \in {"i2c", "uart"}
      BY <1>1, <2>1 DEF UartSound
    <3>2. QED
      BY <1>1, <3>1, TailIs, SettingsAre DEF Command
  <2>2. CASE j.at = "next" /\ j.todo # <<>> /\ x.set \in {"console", "getty"}
    BY <1>1, <2>2, TailIs, SettingsAre DEF Command
  <2>3. QED
    BY <2>1, <2>2 DEF UartFault
<1>3. /\ config' = config /\ cmdline' = cmdline /\ getty' = getty /\ disk' = disk
      /\ hasAll' = hasAll /\ group' = group
  BY DEF UartFault, settings
<1>4. ujob' = [ujob EXCEPT ![c] = h]
  BY <1>1 DEF UartFault, UartJob
<1>5. PICK r : r = AfterFailure(j.todo[1], Tail(j.todo))
  OBVIOUS
<1>6. /\ r \in Seq(UartCommands) /\ Len(r) <= Len(j.todo) /\ Len(r) \in Nat
      /\ \A s : x.set # s => Touches(r, s) <=> Touches(j.todo, s)
      /\ \A s, v : x.set # s /\ Owes(j.todo, s, v) => Owes(r, s, v)
      /\ \A s : Touches(r, s) => Touches(j.todo, s)
      /\ BusFirst(j.todo) => BusFirst(r)
      /\ SyncsLast(j.todo) /\ x.set # "sync" => SyncsLast(r)
  BY <1>1, <1>2, <1>5, FailedOwes
<1>7. NoUartCall.copy \in ConfigFile
  BY DEF NoUartCall, ConfigFile
<1> HIDE DEF x
<1>8. /\ h \in UartJob /\ h.at = "next" /\ h.todo = r /\ h.on = j.on /\ h.off = j.off
      /\ h.install = j.install /\ h.broken = j.broken \union {x.set}
  BY <1>1, <1>2, <1>5, <1>6, <1>7 DEF UartJob
<1> HIDE DEF h
<1>9. UartSound(h)
  <2>1. Len(h.todo) <= 5 /\ BusFirst(h.todo) /\ (~ h.install => SyncsLast(h.todo))
    <3>1. Len(j.todo) \in Nat /\ Len(j.todo) <= 5 /\ BusFirst(j.todo) /\ (~ j.install => SyncsLast(j.todo))
      BY <1>1 DEF UartSound
    <3>2. QED
      BY <1>2, <1>6, <1>8, <3>1, SettingsAre
  <2>2. ASSUME NEW s \in Settings
        PROVE  /\ s \notin h.broken => Owes(h.todo, s, s \in h.on)
               /\ Touches(h.todo, s) => s \in h.on \union h.off
    BY <1>1, <1>6, <1>8 DEF UartSound
  <2>3. QED
    BY <1>1, <1>8, <2>1, <2>2 DEF UartSound
<1>10. UartTable'
  BY <1>1, <1>3, <1>4, <1>8 DEF UartTable
<1>11. \A s : IsOn(s)' = IsOn(s)
  BY <1>3 DEF IsOn
<1>12. IsBusy(h) /\ h.at # "none" /\ h.at # "rename"
  BY <1>8 DEF IsBusy
<1>13. /\ \A s : s \notin h.broken => (Touches(h.todo, s) <=> Touches(j.todo, s))
       /\ Touches(j.todo, "sync") => Touches(h.todo, "sync")
  BY <1>2, <1>6, <1>8, SettingsAre
<1>14. QED
  BY <1>1, <1>3, <1>4, <1>8, <1>9, <1>10, <1>11, <1>12, <1>13, GoesOnUnsynced

-----------------------------------------------------------------------------
(* A call begins; the kernel; the power                                    *)

(* A call that begins owes what it is asked for, and a sync.                *)
LEMMA BeginStep ==
  ASSUME UartInv, NEW c \in UartCalls, NEW h \in UartJob, UartStart(c, h),
         h.at = "next", h.broken = {}, h.on \intersect h.off = {},
         ~ h.install => "i2c" \notin h.on \union h.off,
         Serves(h.todo, h.on, h.off, h.install)
  PROVE  UartInv'
<1>1. /\ ujob[c].at = "none" /\ ujob' = [ujob EXCEPT ![c] = h]
      /\ group' = IF Quiet THEN {c} ELSE group \union {c}
      /\ config' = config /\ cmdline' = cmdline /\ getty' = getty /\ disk' = disk /\ hasAll' = hasAll
  BY DEF UartStart, settings
<1>2. ujob \in [UartCalls -> UartJob] /\ group \subseteq UartCalls /\ c \notin group /\ UartTable
  BY <1>1 DEF UartInv, UartTable, UartSoundInv
<1>3. ujob'[c] = h /\ \A d \in UartCalls \ {c} : ujob'[d] = ujob[d]
  BY <1>1, <1>2
<1>4. c \in group' /\ (group' = {c} \/ group' = group \union {c}) /\ (~ Quiet => group' = group \union {c})
  BY <1>1
<1>5. UartTable'
  BY <1>1, <1>2, <1>4 DEF UartTable
<1>6. UartSound(h)
  BY DEF UartSound, Serves
<1>7. \A d \in UartCalls : IsBusy(ujob[d]) => ~ Quiet /\ d \in group
  BY DEF Quiet, Busy, IsBusy, UartInv, UartSoundInv
<1>8. UartSoundInv'
  <2> SUFFICES ASSUME NEW d \in UartCalls
               PROVE  /\ UartSound(ujob'[d]) /\ (IsBusy(ujob'[d]) => d \in group')
                      /\ ujob'[d].at = "none" => d \notin group'
    BY DEF UartSoundInv
  <2>1. CASE d = c
    BY <1>3, <1>4, <1>6, <2>1
  <2>2. CASE d # c
    <3>1. ujob'[d] = ujob[d] /\ UartSound(ujob[d]) /\ (ujob[d].at = "none" => d \notin group)
      BY <1>3, <2>2 DEF UartInv, UartSoundInv
    <3>2. QED
      BY <1>4, <1>7, <2>2, <3>1
  <2>3. QED
    BY <2>1, <2>2
<1>9. CopyInv'
  BY <1>3, <1>4 DEF CopyInv
<1>10. IsBusy(h) /\ \A s \in Settings : s \in h.on \union h.off => Touches(h.todo, s)
  BY DEF IsBusy, Serves
<1>11. AgreedInv'
  <2> SUFFICES ASSUME NEW s \in Settings, NEW v \in BOOLEAN, Agreed(s, v)' PROVE IsOn(s)' = v \/ Working(s)'
    BY DEF AgreedInv
  <2>1. CASE s \in h.on \union h.off
    BY <1>3, <1>4, <1>10, <2>1 DEF Working
  <2>2. CASE s \notin h.on \union h.off
    <3>1. PICK d \in group' : s \in ujob'[d].on \union ujob'[d].off
      BY DEF Agreed, Asked, Refused
    <3>2. d # c /\ group' = group \union {c}
      BY <1>3, <1>4, <2>2, <3>1
    <3>3. Asked(s)' = Asked(s) /\ Refused(s)' = Refused(s)
      BY <1>2, <1>3, <2>2, <3>2 DEF Asked, Refused
    <3>4. Exempt(s) => Exempt(s)'
      BY <1>1, <1>2, <1>3, <3>2 DEF Exempt
    <3>5. Agreed(s, v)
      BY <3>3, <3>4 DEF Agreed
    <3>6. IsOn(s) = v \/ Working(s)
      BY <3>5 DEF UartInv, AgreedInv
    <3>7. IsOn(s)' = IsOn(s)
      BY <1>1 DEF IsOn
    <3>8. Working(s) => Working(s)'
      BY <1>2, <1>3, <3>2 DEF Working
    <3>9. QED
      BY <3>6, <3>7, <3>8
  <2>3. QED
    BY <2>1, <2>2
<1>12. DiskInv'
  <2>1. ~ h.install => Working("sync")'
    BY <1>3, <1>4, <1>10 DEF Working, Serves
  <2>2. QED
    BY <1>3, <1>4, <2>1 DEF DiskInv
<1>13. QED
  BY <1>5, <1>8, <1>9, <1>11, <1>12 DEF UartInv

LEMMA CallBegins == ASSUME UartInv, NEW c \in UartCalls, UartCall(c) PROVE UartInv'
<1>1. ASSUME NEW t, NEW on \in SUBSET Flags, NEW off \in SUBSET Flags,
             on \intersect off = {}, Serves(t, on, off, FALSE),
             UartStart(c, [NoUartCall EXCEPT !.at = "next", !.todo = t, !.on = on, !.off = off])
      PROVE  UartInv'
  <2> DEFINE h == [NoUartCall EXCEPT !.at = "next", !.todo = t, !.on = on, !.off = off]
  <2>1. t \in Seq(UartCommands)
    BY <1>1 DEF Serves
  <2>2. /\ h \in UartJob /\ h.at = "next" /\ h.todo = t /\ h.on = on /\ h.off = off
        /\ h.install = FALSE /\ h.broken = {}
    BY <2>1 DEF NoUartCall, UartJob, ConfigFile, Flags
  <2>3. "i2c" \notin on \union off /\ UartStart(c, h)
    BY <1>1 DEF Flags
  <2> HIDE DEF h
  <2>4. QED
    BY <1>1, <2>2, <2>3, BeginStep
<1>2. PICK S \in SUBSET Flags :
        \/ UartStart(c, [NoUartCall EXCEPT !.at = "next", !.todo = Enable(S), !.on = S, !.off = Flags \ S])
        \/ UartStart(c, [NoUartCall EXCEPT !.at = "next", !.todo = Disable(S), !.on = Flags \ S, !.off = S])
  BY DEF UartCall
<1>3. /\ Flags \ S \in SUBSET Flags
      /\ S \intersect (Flags \ S) = {} /\ (Flags \ S) \intersect S = {}
  OBVIOUS
<1>4. Serves(Enable(S), S, Flags \ S, FALSE) /\ Serves(Disable(S), Flags \ S, S, FALSE)
  BY EnableServes, DisableServes
<1>5. QED
  BY <1>1, <1>2, <1>3, <1>4

LEMMA InstallBegins == ASSUME UartInv, NEW c \in UartCalls, Install(c) PROVE UartInv'
<1> DEFINE h == [NoUartCall EXCEPT !.at = "next", !.todo = preinst, !.install = TRUE,
                                   !.on = {"i2c", "uart"}, !.off = {"console"}]
<1>1. Serves(preinst, {"i2c", "uart"}, {"console"}, TRUE)
  BY PreinstServes
<1>2. preinst \in Seq(UartCommands)
  BY <1>1 DEF Serves
<1>3. /\ h \in UartJob /\ h.at = "next" /\ h.todo = preinst /\ h.on = {"i2c", "uart"} /\ h.off = {"console"}
      /\ h.install = TRUE /\ h.broken = {}
  BY <1>2 DEF NoUartCall, UartJob, ConfigFile, Settings
<1>4. {"i2c", "uart"} \intersect {"console"} = {}
  OBVIOUS
<1>5. UartStart(c, h)
  BY DEF Install
<1> HIDE DEF h
<1>6. QED
  BY <1>1, <1>3, <1>4, <1>5, BeginStep

(* The kernel writes back what is agreed, or what a call is still to sync.  *)
LEMMA WriteBackStep == ASSUME UartInv, WriteBack PROVE UartInv'
<1>1. /\ config' = config /\ cmdline' = cmdline /\ getty' = getty /\ hasAll' = hasAll
      /\ ujob' = ujob /\ group' = group
  BY DEF WriteBack, settings
<1>2. UartTable /\ UartSoundInv
  BY DEF UartInv
<1>3. disk' \in [config : ConfigFile, cmdline : BOOLEAN, getty : BOOLEAN]
  BY <1>2 DEF WriteBack, UartTable
<1>4. UartTable' /\ UartSoundInv' /\ CopyInv'
  BY <1>1, <1>2, <1>3 DEF UartInv, UartTable, UartSoundInv, CopyInv
<1>5. \A s, v : (Agreed(s, v)' <=> Agreed(s, v)) /\ (Working(s)' <=> Working(s)) /\ IsOn(s)' = IsOn(s)
  BY <1>1 DEF Agreed, Asked, Refused, Exempt, Working, IsOn
<1>6. AgreedInv'
  BY <1>5 DEF UartInv, AgreedInv
<1>7. ASSUME NEW s \in Settings PROVE OnDisk(s)' = OnDisk(s) \/ OnDisk(s)' = IsOn(s)
  <2>1. /\ disk'.config = disk.config \/ disk'.config = config
        /\ disk'.cmdline = disk.cmdline \/ disk'.cmdline = cmdline
        /\ disk'.getty = disk.getty \/ disk'.getty = getty
    BY <1>2 DEF WriteBack, UartTable
  <2>2. QED
    BY <2>1, SettingsAre DEF OnDisk, IsOn
<1>8. DiskInv'
  <2> SUFFICES ASSUME \A d \in group : ~ ujob[d].install, NEW s \in Settings, NEW v \in BOOLEAN, Agreed(s, v)
               PROVE  OnDisk(s)' = v \/ Working("sync")
    BY <1>1, <1>5 DEF DiskInv
  <2>1. OnDisk(s) = v \/ Working("sync")
    BY DEF UartInv, DiskInv
  <2>2. IsOn(s) = v \/ Working(s)
    BY DEF UartInv, AgreedInv
  <2>3. ASSUME Working(s) PROVE Working("sync")
    <3>1. PICK d \in group : IsBusy(ujob[d]) /\ Touches(ujob[d].todo, s)
      BY <2>3 DEF Working
    <3>2. ujob[d] \in UartJob /\ UartSound(ujob[d])
      BY <1>2 DEF UartTable, UartSoundInv
    <3>3. Touches(ujob[d].todo, "sync")
      BY <3>1, <3>2, SyncsInTheEnd
    <3>4. QED
      BY <3>1, <3>3 DEF Working
  <2>4. QED
    BY <1>7, <2>1, <2>2, <2>3
<1>9. QED
  BY <1>4, <1>6, <1>8 DEF UartInv

(* A power cut after calls that all synced loses nothing; after any other   *)
(* nothing is owed.                                                         *)
LEMMA PowerCutStep == ASSUME UartInv, PowerCut PROVE UartInv'
<1>1. /\ config' = disk.config /\ cmdline' = disk.cmdline /\ getty' = disk.getty
      /\ ujob' = [c \in UartCalls |-> IF c \in Busy THEN [NoUartCall EXCEPT !.at = "done"] ELSE ujob[c]]
      /\ group' = IF Quiet /\ (\A c \in group : ~ ujob[c].install) THEN group ELSE {}
      /\ disk' = disk /\ hasAll' = hasAll
  BY DEF PowerCut
<1>2. UartTable /\ UartSoundInv
  BY DEF UartInv
<1> DEFINE ended == [NoUartCall EXCEPT !.at = "done"]
<1>3. ended \in UartJob /\ UartSound(ended) /\ ended.at = "done"
  <2>1. <<>> \in Seq(UartCommands) /\ Len(<<>>) = 0
    OBVIOUS
  <2>2. ended \in UartJob
    BY <2>1 DEF NoUartCall, UartJob, ConfigFile
  <2>3. ended.at = "done" /\ ended.todo = <<>> /\ ended.on = {} /\ ended.off = {}
    BY DEF NoUartCall
  <2> HIDE DEF ended
  <2>4. UartSound(ended)
    BY <2>1, <2>3 DEF UartSound, IsBusy
  <2>5. QED
    BY <2>2, <2>3, <2>4
<1> HIDE DEF ended
<1>4. \A c \in UartCalls : ujob'[c] = IF c \in Busy THEN ended ELSE ujob[c]
  BY <1>1 DEF ended
<1>5. UartTable'
  <2>1. ujob' \in [UartCalls -> UartJob]
    BY <1>1, <1>2, <1>3 DEF UartTable, ended
  <2>2. group' \subseteq UartCalls
    BY <1>1, <1>2 DEF UartTable
  <2>3. QED
    BY <1>1, <1>2, <2>1, <2>2 DEF UartTable
<1>6. \A c \in UartCalls : ~ IsBusy(ujob'[c]) /\ ujob'[c].at # "rename"
  BY <1>3, <1>4 DEF Busy, IsBusy
<1>7. UartSoundInv'
  <2> SUFFICES ASSUME NEW c \in UartCalls
               PROVE  UartSound(ujob'[c]) /\ (ujob'[c].at = "none" => c \notin group')
    BY <1>6 DEF UartSoundInv
  <2>1. UartSound(ujob[c]) /\ (ujob[c].at = "none" => c \notin group)
    BY <1>2 DEF UartSoundInv
  <2>2. QED
    BY <1>1, <1>3, <1>4, <2>1
<1>8. CopyInv'
  BY <1>6 DEF CopyInv
<1>9. ASSUME NEW s \in Settings, NEW v \in BOOLEAN, Agreed(s, v)' PROVE IsOn(s)' = v /\ OnDisk(s)' = v
  <2>1. Quiet /\ (\A c \in group : ~ ujob[c].install) /\ group' = group
    BY <1>1, <1>9 DEF Agreed, Asked, Refused
  <2>2. \A c \in UartCalls : ujob'[c] = ujob[c]
    BY <1>4, <2>1 DEF Quiet
  <2>3. Asked(s)' = Asked(s) /\ Refused(s)' = Refused(s) /\ (Exempt(s) => Exempt(s)')
    BY <1>1, <1>2, <2>1, <2>2 DEF Asked, Refused, Exempt, UartTable
  <2>4. Agreed(s, v)
    BY <1>9, <2>3 DEF Agreed
  <2>5. ~ Working("sync")
    BY <1>2, <2>1 DEF Working, Quiet, Busy, IsBusy, UartTable
  <2>6. OnDisk(s) = v
    BY <2>1, <2>4, <2>5 DEF UartInv, DiskInv
  <2>7. OnDisk(s)' = OnDisk(s) /\ IsOn(s)' = OnDisk(s)
    BY <1>1, SettingsAre DEF OnDisk, IsOn
  <2>8. QED
    BY <2>6, <2>7
<1>10. AgreedInv' /\ DiskInv'
  BY <1>9 DEF AgreedInv, DiskInv
<1>11. QED
  BY <1>5, <1>7, <1>8, <1>10 DEF UartInv

-----------------------------------------------------------------------------
(* Every step                                                              *)

LEMMA UartInitInv == UartInit => UartInv
<1> SUFFICES ASSUME UartInit PROVE UartInv
  OBVIOUS
<1>1. /\ config \in ConfigFile /\ cmdline \in BOOLEAN /\ getty \in BOOLEAN /\ group = {}
      /\ disk = [config |-> config, cmdline |-> cmdline, getty |-> getty]
      /\ ujob = [c \in UartCalls |-> NoUartCall]
  BY DEF UartInit, ConfigFile
<1>2. NoUartCall \in UartJob /\ UartSound(NoUartCall) /\ NoUartCall.at = "none"
  <2>1. <<>> \in Seq(UartCommands) /\ Len(<<>>) = 0
    OBVIOUS
  <2>2. NoUartCall \in UartJob
    BY <2>1 DEF NoUartCall, UartJob, ConfigFile
  <2>3. UartSound(NoUartCall) /\ NoUartCall.at = "none"
    BY <2>1 DEF NoUartCall, UartSound, IsBusy
  <2>4. QED
    BY <2>2, <2>3
<1>3. UartTable
  BY <1>1, <1>2 DEF UartTable
<1>4. \A c \in UartCalls : ujob[c] = NoUartCall
  BY <1>1
<1>5. UartSoundInv /\ CopyInv
  BY <1>1, <1>2, <1>4 DEF UartSoundInv, CopyInv, IsBusy
<1>6. \A s, v : ~ Agreed(s, v)
  BY <1>1 DEF Agreed, Asked, Refused
<1>7. QED
  BY <1>3, <1>5, <1>6 DEF UartInv, AgreedInv, DiskInv

LEMMA UartNextInv == UartInv /\ [UartNext]_uartVars => UartInv'
<1> SUFFICES ASSUME UartInv, [UartNext]_uartVars PROVE UartInv'
  OBVIOUS
<1>1. ASSUME NEW c \in UartCalls,
             \/ UartCall(c) \/ Install(c) \/ SedRead(c) \/ SedRename(c) \/ SedConsole(c)
             \/ Systemctl(c) \/ Sync(c) \/ UartFault(c) \/ UartExit(c)
      PROVE  UartInv'
  BY <1>1, CallBegins, InstallBegins, ReadStep, RenameStep, ConsoleStep, SystemctlStep, SyncStep,
     UartFaultStep, UartExitStep, Zenon
<1>2. CASE WriteBack
  BY <1>2, WriteBackStep
<1>3. CASE PowerCut
  BY <1>3, PowerCutStep
<1>4. CASE UNCHANGED uartVars
  BY <1>4 DEF uartVars, settings, UartInv, UartTable, UartSoundInv, CopyInv, AgreedInv, DiskInv,
              Agreed, Asked, Refused, Exempt, Working, IsOn, OnDisk
<1>5. QED
  BY <1>1, <1>2, <1>3, <1>4 DEF UartNext

LEMMA UartInvType == UartInv => UartTypeOK
<1> SUFFICES ASSUME UartInv PROVE UartTypeOK
  OBVIOUS
<1>1. UartTable /\ \A c \in UartCalls : UartSound(ujob[c])
  BY DEF UartInv, UartSoundInv
<1>2. QED
  BY <1>1 DEF UartTable, UartTypeOK, UartSound, ConfigFile

LEMMA UartInvAgreed == UartInv => AgreedSettings
<1> SUFFICES ASSUME UartInv, Quiet, NEW s \in Settings, ~ Exempt(s)
             PROVE  /\ Asked(s) # {} /\ Refused(s) = {} => IsOn(s)
                    /\ Refused(s) # {} /\ Asked(s) = {} => ~ IsOn(s)
  BY DEF AgreedSettings
<1>1. ~ Working(s)
  BY DEF UartInv, UartTable, Working, Quiet, Busy, IsBusy
<1>2. Asked(s) # {} /\ Refused(s) = {} => IsOn(s) = TRUE
  BY <1>1 DEF UartInv, AgreedInv, Agreed
<1>3. Refused(s) # {} /\ Asked(s) = {} => IsOn(s) = FALSE
  BY <1>1 DEF UartInv, AgreedInv, Agreed
<1>4. QED
  BY <1>2, <1>3

=============================================================================
