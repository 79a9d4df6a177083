------------------------- MODULE CpuTempMon_proofs -------------------------
(***************************************************************************)
(* The safety properties of CpuTempMon for any number of processes, calls, *)
(* deaths and faults, and any temperatures.  The invariants speak of one   *)
(* process at a time: what its position says of its line in the pid file   *)
(* (FileInv), of the processes a stop still has to kill (QuietInv) and of  *)
(* the settings of the LED's pin (LedInv).                                 *)
(***************************************************************************)
EXTENDS CpuTempMon, TLAPS

Places == ToolSteps \union {"none", "other"}

Registered == AppendSteps \union StaySteps

Entry == [at : Places, bg : BOOLEAN,
          limit : Limits \union {0}, kid : Pids \union {NoPid},
          child : BOOLEAN, fd : {"none", "named", "unnamed"},
          over : BOOLEAN, found : SUBSET Pids, due : SUBSET Pids,
          quiet : BOOLEAN]

-----------------------------------------------------------------------------
(* The invariant                                                           *)

(* Whoever has come to rest has its line, or lost it; whoever is about to   *)
(* write its line will get it, or has lost it; and a pid that is in the     *)
(* file, or that a stop has read there, belongs to a process that stays, or *)
(* that was killed.                                                         *)
FileInv ==
  \A q \in Pids :
    /\ At(q) \in StaySteps => q \in lines \/ q \in unlisted
    /\ At(q) = "write" => proc[q].fd = "named" \/ q \in unlisted
    /\ q \in lines => At(q) \in Registered \/ q \in ended
    /\ \A s \in Pids : q \in proc[s].found => At(q) \in Registered \/ q \in ended

(* Every other process is at rest, and is going to be killed by this stop.  *)
QuietInv ==
  \A s \in Pids : proc[s].quiet =>
    /\ At(s) \in StopSteps
    /\ \A q \in Pids : q # s /\ At(q) \in ToolSteps =>
         /\ At(q) \in StaySteps
         /\ \/ At(s) = "cat" /\ q \in lines
            \/ At(s) = "kill" /\ q \in proc[s].found

(* How far the pin is set up, unless something failed.                      *)
LedInv ==
  \/ faults > 0 \/ owner = "driver"
  \/ \A q \in Pids :
       /\ At(q) \in {"direction", "active_low", "dark", "fork"} => owner = "sysfs"
       /\ At(q) \in {"active_low", "dark", "fork"} => "out" \in pin
       /\ At(q) \in {"dark", "fork"} => "active_low" \in pin
       /\ At(q) \in Registered /\ proc[q].child =>
            owner = "sysfs" /\ "out" \in pin /\ "active_low" \in pin

IInv == TypeOK /\ FileInv /\ QuietInv /\ LedInv

-----------------------------------------------------------------------------
(* Types                                                                   *)

LEMMA Types ==
  ASSUME TypeOK
  PROVE  /\ proc \in [Pids -> Entry]
         /\ lines \subseteq Pids /\ unlisted \subseteq Pids /\ ended \subseteq Pids
         /\ owner \in {"none", "sysfs", "driver"} /\ pin \subseteq {"out", "active_low"}
         /\ low \in BOOLEAN /\ temp \in Temps
         /\ calls \in 0..MaxCalls /\ deaths \in 0..MaxDeaths /\ faults \in 0..MaxFaults
  BY Zenon DEF TypeOK, Entry, Places

LEMMA Typed ==
  ASSUME proc' \in [Pids -> Entry],
         lines' \subseteq Pids, unlisted' \subseteq Pids, ended' \subseteq Pids,
         owner' \in {"none", "sysfs", "driver"}, pin' \subseteq {"out", "active_low"},
         low' \in BOOLEAN, temp' \in Temps,
         calls' \in 0..MaxCalls, deaths' \in 0..MaxDeaths, faults' \in 0..MaxFaults
  PROVE  TypeOK'
  BY Zenon DEF TypeOK, Entry, Places

LEMMA Bounds == MaxCalls \in Nat /\ MaxDeaths \in Nat /\ MaxFaults \in Nat /\ NoPid \notin Pids
  BY MonAssumption

LEMMA NobodyType == Nobody \in Entry
  BY DEF Nobody, Entry, Places

(* One process goes on.                                                     *)
LEMMA Going ==
  ASSUME proc \in [Pids -> Entry], NEW p \in Pids, NEW l \in Places, Goes(p, l)
  PROVE  /\ proc' \in [Pids -> Entry]
         /\ \A q \in Pids \ {p} : proc'[q] = proc[q]
         /\ proc'[p].at = l /\ proc'[p].fd = proc[p].fd /\ proc'[p].found = proc[p].found
         /\ proc'[p].quiet = proc[p].quiet /\ proc'[p].child = proc[p].child
  BY DEF Goes, Entry

LEMMA Becoming ==
  ASSUME proc \in [Pids -> Entry], NEW p \in Pids, NEW rec \in Entry, Becomes(p, rec)
  PROVE  /\ proc' \in [Pids -> Entry]
         /\ \A q \in Pids \ {p} : proc'[q] = proc[q]
         /\ proc'[p] = rec
  BY DEF Becomes

LEMMA Unnaming ==
  ASSUME proc \in [Pids -> Entry], NEW p \in Pids, NEW l \in Places, Unnamed(p, l)
  PROVE  /\ proc' \in [Pids -> Entry]
         /\ \A q \in Pids :
              /\ proc'[q].at = (IF q = p THEN l ELSE proc[q].at)
              /\ proc'[q].fd = (IF proc[q].fd = "named" THEN "unnamed" ELSE proc[q].fd)
              /\ proc'[q].found = proc[q].found
              /\ proc'[q].quiet = proc[q].quiet /\ proc'[q].child = proc[q].child
<1> DEFINE f(q) == IF proc[q].fd = "named" THEN "unnamed" ELSE proc[q].fd
           a(q) == IF q = p THEN l ELSE proc[q].at
<1>1. proc' = [q \in Pids |-> [proc[q] EXCEPT !.fd = f(q), !.at = a(q)]]
  BY Zenon DEF Unnamed
<1>2. ASSUME NEW q \in Pids
      PROVE  /\ proc'[q] \in Entry
             /\ proc'[q].at = a(q) /\ proc'[q].fd = f(q) /\ proc'[q].found = proc[q].found
             /\ proc'[q].quiet = proc[q].quiet /\ proc'[q].child = proc[q].child
  <2>1. proc'[q] = [proc[q] EXCEPT !.fd = f(q), !.at = a(q)]
    BY Zenon, <1>1
  <2>2. proc[q] \in Entry /\ a(q) \in Places /\ f(q) \in {"none", "named", "unnamed"}
    BY DEF Entry
  <2>3. QED
    BY <2>1, <2>2 DEF Entry
<1>3. proc' \in [Pids -> Entry]
  BY Zenon, <1>1, <1>2
<1>4. QED
  BY Zenon, <1>2, <1>3

(* What Without(P) makes of an entry.                                       *)
Thinned(new, old, gone) ==
  \/ /\ gone /\ new.at = "none" /\ new.fd = "none" /\ new.found = {}
     /\ new.quiet = FALSE /\ new.child = FALSE
  \/ /\ ~ gone /\ new.at = old.at /\ new.fd = old.fd /\ new.found = old.found
     /\ new.quiet = old.quiet /\ new.child = old.child

LEMMA Losing ==
  ASSUME proc \in [Pids -> Entry], NEW P
  PROVE  /\ Without(P) \in [Pids -> Entry]
         /\ \A q \in Pids : Thinned(Without(P)[q], proc[q], q \in P)
  BY NobodyType DEF Without, Entry, Nobody, Thinned

-----------------------------------------------------------------------------
(* What a step leaves alone                                                *)

(* A stop is quiet as long as nobody else moves but those at rest.          *)
LEMMA Alone ==
  ASSUME QuietInv, NEW p \in Pids, At(p) \in ToolSteps \ StaySteps,
         NEW s \in Pids, proc[s].quiet
  PROVE  s = p
  BY DEF QuietInv

LEMMA NoneQuiet ==
  ASSUME QuietInv, NEW p \in Pids, At(p) \in ToolSteps \ (StaySteps \union StopSteps),
         NEW s \in Pids
  PROVE  ~ proc[s].quiet
  BY DEF QuietInv

LEMMA SilentQuiet == ASSUME \A s \in Pids : ~ proc'[s].quiet PROVE QuietInv'
  BY DEF QuietInv

(* A process that is not in the file, and does not get there.               *)
LEMMA PassFile ==
  ASSUME FileInv, NEW p \in Pids, At(p) \notin Registered,
         \A q \in Pids \ {p} : proc'[q] = proc[q],
         proc'[p].at \notin Registered, proc'[p].found \subseteq proc[p].found,
         lines' = lines, unlisted' = unlisted, ended' = ended
  PROVE  FileInv'
<1> SUFFICES ASSUME NEW q \in Pids
             PROVE  /\ proc'[q].at \in StaySteps => q \in lines \/ q \in unlisted
                    /\ proc'[q].at = "write" => proc'[q].fd = "named" \/ q \in unlisted
                    /\ q \in lines => proc'[q].at \in Registered \/ q \in ended
                    /\ \A s \in Pids : q \in proc'[s].found => proc'[q].at \in Registered \/ q \in ended
  BY Zenon DEF FileInv, At
<1>1. /\ At(q) \in StaySteps => q \in lines \/ q \in unlisted
      /\ At(q) = "write" => proc[q].fd = "named" \/ q \in unlisted
      /\ q \in lines => At(q) \in Registered \/ q \in ended
      /\ \A s \in Pids : q \in proc[s].found => At(q) \in Registered \/ q \in ended
  BY Zenon DEF FileInv
<1>2. \A s \in Pids : proc'[s].found \subseteq proc[s].found
  OBVIOUS
<1>3. CASE q = p
  BY <1>1, <1>2, <1>3 DEF Registered, AppendSteps
<1>4. CASE q # p
  BY <1>1, <1>2, <1>4 DEF At
<1>5. QED
  BY <1>3, <1>4

SetUp == {"direction", "active_low", "dark", "fork"}

LEMMA LedKept ==
  ASSUME LedInv, owner' = owner, pin' = pin, faults \in Nat, faults' \in Nat, faults' >= faults,
         \A q \in Pids :
           \/ proc'[q].at = proc[q].at /\ proc'[q].child = proc[q].child
           \/ /\ proc'[q].at \notin SetUp
              /\ proc'[q].at \in Registered /\ proc'[q].child =>
                   proc[q].at \in Registered /\ proc[q].child
  PROVE  LedInv'
  BY DEF LedInv, At, SetUp

LEMMA LedKeptSame ==
  ASSUME LedInv, owner' = owner, pin' = pin, faults \in Nat, faults' = faults,
         \A q \in Pids :
           \/ proc'[q].at = proc[q].at /\ proc'[q].child = proc[q].child
           \/ /\ proc'[q].at \notin SetUp
              /\ proc'[q].at \in Registered /\ proc'[q].child =>
                   proc[q].at \in Registered /\ proc[q].child
  PROVE  LedInv'
<1>1. faults' \in Nat /\ faults' >= faults
  OBVIOUS
<1>2. QED
  BY Zenon, <1>1, LedKept

(* Every step goes over these.                                              *)
LEMMA Kept ==
  ASSUME IInv
  PROVE  /\ TypeOK /\ FileInv /\ QuietInv /\ LedInv /\ faults \in Nat
  BY Bounds, Types DEF IInv

-----------------------------------------------------------------------------
(* Calls                                                                   *)

LEMMA Calling ==
  ASSUME proc \in [Pids -> Entry], NEW p \in Pids, NEW rec \in Entry, Called(p, rec)
  PROVE  /\ proc' \in [Pids -> Entry] /\ proc'[p] = rec
         /\ \A q \in Pids \ {p} :
              /\ proc'[q].at = proc[q].at /\ proc'[q].fd = proc[q].fd
              /\ proc'[q].found = proc[q].found /\ proc'[q].child = proc[q].child
              /\ proc'[q].quiet = FALSE
<1> DEFINE g(q) == IF q = p THEN rec ELSE [proc[q] EXCEPT !.quiet = FALSE]
<1>1. proc' = [q \in Pids |-> g(q)]
  BY Zenon DEF Called
<1>2. ASSUME NEW q \in Pids
      PROVE  /\ g(q) \in Entry
             /\ q # p => /\ g(q).at = proc[q].at /\ g(q).fd = proc[q].fd
                         /\ g(q).found = proc[q].found /\ g(q).child = proc[q].child
                         /\ g(q).quiet = FALSE
  <2>1. proc[q] \in Entry
    OBVIOUS
  <2>2. QED
    BY <2>1 DEF Entry
<1>3. proc' \in [Pids -> Entry] /\ \A q \in Pids : proc'[q] = g(q)
  BY Zenon, <1>1, <1>2
<1>4. QED
  BY <1>2, <1>3

LEMMA CalledInv ==
  ASSUME IInv, NEW p \in Free, NEW rec \in Entry, Called(p, rec),
         rec.at \in {"remove", "cat"}, rec.found = {},
         rec.quiet => rec.at = "cat" /\ Undisturbed
  PROVE  IInv'
<1>1. TypeOK /\ FileInv /\ QuietInv /\ LedInv /\ faults \in Nat
  BY Kept
<1>2. /\ proc \in [Pids -> Entry]
      /\ lines \subseteq Pids /\ unlisted \subseteq Pids /\ ended \subseteq Pids
      /\ owner \in {"none", "sysfs", "driver"} /\ pin \subseteq {"out", "active_low"}
      /\ low \in BOOLEAN /\ temp \in Temps
      /\ calls \in 0..MaxCalls /\ deaths \in 0..MaxDeaths /\ faults \in 0..MaxFaults
  BY <1>1, Types
<1>3. p \in Pids /\ At(p) = "none"
  BY DEF Free
<1>4. /\ proc' \in [Pids -> Entry] /\ proc'[p] = rec
      /\ \A q \in Pids \ {p} :
           /\ proc'[q].at = proc[q].at /\ proc'[q].fd = proc[q].fd
           /\ proc'[q].found = proc[q].found /\ proc'[q].child = proc[q].child
           /\ proc'[q].quiet = FALSE
  BY Zenon, <1>2, <1>3, Calling
<1>5. /\ calls < MaxCalls /\ calls' = calls + 1 /\ unlisted' = unlisted \ {p}
      /\ lines' = lines /\ ended' = ended /\ owner' = owner /\ pin' = pin /\ low' = low
      /\ temp' = temp /\ deaths' = deaths /\ faults' = faults
  BY Zenon DEF Called, led
<1>6. TypeOK'
  <2>1. calls' \in 0..MaxCalls
    BY <1>2, <1>5, Bounds
  <2>2. unlisted' \subseteq Pids
    BY <1>2, <1>5
  <2>3. QED
    BY <1>2, <1>4, <1>5, <2>1, <2>2, Typed
<1>7. FileInv'
  <2> SUFFICES ASSUME NEW q \in Pids
               PROVE  /\ proc'[q].at \in StaySteps => q \in lines \/ q \in unlisted \ {p}
                      /\ proc'[q].at = "write" => proc'[q].fd = "named" \/ q \in unlisted \ {p}
                      /\ q \in lines => proc'[q].at \in Registered \/ q \in ended
                      /\ \A s \in Pids : q \in proc'[s].found => proc'[q].at \in Registered \/ q \in ended
    BY Zenon, <1>5 DEF FileInv, At
  <2>1. /\ At(q) \in StaySteps => q \in lines \/ q \in unlisted
        /\ At(q) = "write" => proc[q].fd = "named" \/ q \in unlisted
        /\ q \in lines => At(q) \in Registered \/ q \in ended
        /\ \A s \in Pids : q \in proc[s].found => At(q) \in Registered \/ q \in ended
    BY Zenon, <1>1 DEF FileInv
  <2>2. \A s \in Pids : proc'[s].found \subseteq proc[s].found
    BY <1>3, <1>4
  <2>3. CASE q = p
    BY <1>3, <1>4, <2>1, <2>2, <2>3 DEF Registered, AppendSteps, StaySteps
  <2>4. CASE q # p
    BY <1>4, <2>1, <2>2, <2>4 DEF At
  <2>5. QED
    BY <2>3, <2>4
<1>8. QuietInv'
  <2>1. CASE ~ rec.quiet
    BY <1>3, <1>4, <2>1, SilentQuiet
  <2>2. CASE rec.quiet
    <3>1. rec.at = "cat" /\ \A q \in Pids : At(q) \in ToolSteps => At(q) \in StaySteps /\ q \in lines
      BY <2>2 DEF Undisturbed, Tools, Settled
    <3>2. QED
      BY <1>3, <1>4, <1>5, <3>1 DEF QuietInv, At, StopSteps
  <2>3. QED
    BY <2>1, <2>2
<1>9. LedInv'
  <2>1. \A q \in Pids :
           \/ proc'[q].at = proc[q].at /\ proc'[q].child = proc[q].child
           \/ /\ proc'[q].at \notin SetUp
              /\ proc'[q].at \in Registered /\ proc'[q].child =>
                   proc[q].at \in Registered /\ proc[q].child
    BY <1>4 DEF SetUp, Registered, AppendSteps, StaySteps
  <2>2. QED
    BY Zenon, <1>1, <1>5, <2>1, LedKeptSame
<1>10. QED
  BY Zenon, <1>6, <1>7, <1>8, <1>9 DEF IInv

LEMMA StartInv == ASSUME IInv, NEW p \in Pids, Start(p) PROVE IInv'
<1>1. PICK b \in BOOLEAN, t \in Limits :
        p \in Free /\ Called(p, [Nobody EXCEPT !.at = "remove", !.bg = b, !.limit = t])
  BY Zenon DEF Start
<1> DEFINE rec == [Nobody EXCEPT !.at = "remove", !.bg = b, !.limit = t]
<1>2. rec \in Entry /\ rec.at = "remove" /\ rec.found = {} /\ ~ rec.quiet
  BY NobodyType DEF Entry, Nobody, Places, ToolSteps, InitSteps
<1>3. QED
  BY Zenon, <1>1, <1>2, CalledInv

LEMMA StopInv == ASSUME IInv, NEW p \in Pids, Stop(p) PROVE IInv'
<1> DEFINE rec == [Nobody EXCEPT !.at = "cat", !.due = Returned, !.quiet = Undisturbed]
<1>1. p \in Free /\ Called(p, rec)
  BY Zenon DEF Stop
<1>2. Returned \in SUBSET Pids /\ Undisturbed \in BOOLEAN
  BY DEF Returned, Monitors, Registrants, Undisturbed
<1>3. rec \in Entry /\ rec.at = "cat" /\ rec.found = {} /\ rec.quiet = Undisturbed
  BY <1>2, NobodyType DEF Entry, Nobody, Places, ToolSteps, StopSteps
<1>4. QED
  BY Zenon, <1>1, <1>3, CalledInv

-----------------------------------------------------------------------------
(* The steps of a start up to the fork                                     *)

LEMMA PassInv ==
  ASSUME IInv, NEW p \in Pids, At(p) \in InitSteps \union {"leave"},
         proc' \in [Pids -> Entry], \A q \in Pids \ {p} : proc'[q] = proc[q],
         proc'[p].at \in InitSteps \union {"leave", "none"},
         proc'[p].found \subseteq proc[p].found, proc'[p].quiet => proc[p].quiet,
         UNCHANGED <<files, temp>>, calls' = calls, deaths' = deaths, faults' \in 0..MaxFaults,
         owner' \in {"none", "sysfs", "driver"}, pin' \subseteq {"out", "active_low"},
         low' \in BOOLEAN, LedInv'
  PROVE  IInv'
<1>1. TypeOK /\ FileInv /\ QuietInv
  BY Kept
<1>2. lines' = lines /\ unlisted' = unlisted /\ ended' = ended /\ temp' = temp
  BY DEF files
<1>3. /\ proc \in [Pids -> Entry]
      /\ lines \subseteq Pids /\ unlisted \subseteq Pids /\ ended \subseteq Pids
      /\ temp \in Temps /\ calls \in 0..MaxCalls /\ deaths \in 0..MaxDeaths
  BY Zenon, <1>1, Types
<1>4. TypeOK'
  BY Zenon, <1>2, <1>3, Typed
<1>5. At(p) \notin Registered /\ proc'[p].at \notin Registered
  BY DEF InitSteps, Registered, AppendSteps, StaySteps
<1>6. FileInv'
  BY Zenon, <1>1, <1>2, <1>5, PassFile
<1>7. At(p) \in ToolSteps \ (StaySteps \union StopSteps)
  BY DEF ToolSteps, InitSteps, StaySteps, StopSteps
<1>8. \A s \in Pids : ~ proc[s].quiet
  BY <1>1, <1>7, NoneQuiet
<1>9. \A s \in Pids : ~ proc'[s].quiet
  BY <1>8
<1>10. QED
  BY Zenon, <1>4, <1>6, <1>9, SilentQuiet DEF IInv

(* The types of the pin and its counters before a step.                    *)
LEMMA Before ==
  ASSUME IInv
  PROVE  /\ proc \in [Pids -> Entry] /\ LedInv
         /\ owner \in {"none", "sysfs", "driver"} /\ pin \subseteq {"out", "active_low"}
         /\ low \in BOOLEAN /\ faults \in 0..MaxFaults /\ faults \in Nat
  BY Zenon, Kept, Types

LEMMA Faulty ==
  ASSUME IInv, Fault
  PROVE  /\ faults' \in 0..MaxFaults /\ faults' > 0 /\ calls' = calls /\ deaths' = deaths
         /\ LedInv'
<1>1. faults < MaxFaults /\ faults' = faults + 1 /\ calls' = calls /\ deaths' = deaths
  BY Zenon DEF Fault
<1>2. faults \in 0..MaxFaults
  BY Zenon, Before
<1>3. faults' \in 0..MaxFaults /\ faults' > 0
  BY <1>1, <1>2, Bounds
<1>4. QED
  BY <1>1, <1>3 DEF LedInv

LEMMA InitPlaces == InitSteps \union {"leave", "none"} \subseteq Places
  BY DEF InitSteps, Places, ToolSteps

LEMMA AccessInv == ASSUME IInv, NEW p \in Pids, Access(p) PROVE IInv'
<1>1. /\ At(p) = "access" /\ UNCHANGED <<files, temp>>
      /\ owner' = owner /\ pin' = pin /\ low' = low
      /\ \/ Goes(p, "check") /\ UNCHANGED bounds
         \/ Becomes(p, Nobody) /\ Fault
  BY Zenon DEF Access, led
<1>2. /\ proc \in [Pids -> Entry] /\ LedInv
      /\ owner \in {"none", "sysfs", "driver"} /\ pin \subseteq {"out", "active_low"}
      /\ low \in BOOLEAN /\ faults \in 0..MaxFaults /\ faults \in Nat
  BY Zenon, Before
<1>3. "access" \in InitSteps /\ "check" \in InitSteps
  BY DEF InitSteps
<1>4. CASE Goes(p, "check") /\ UNCHANGED bounds
  <2>1. calls' = calls /\ deaths' = deaths /\ faults' = faults
    BY Zenon, <1>4 DEF bounds
  <2>2. "check" \in Places
    BY <1>3, InitPlaces
  <2>3. /\ proc' \in [Pids -> Entry] /\ \A q \in Pids \ {p} : proc'[q] = proc[q]
        /\ proc'[p].at = "check" /\ proc'[p].found = proc[p].found
        /\ proc'[p].quiet = proc[p].quiet /\ proc'[p].child = proc[p].child
    BY Zenon, <1>2, <1>4, <2>2, Going
  <2>4. LedInv'
    <3>1. \A q \in Pids :
           \/ proc'[q].at = proc[q].at /\ proc'[q].child = proc[q].child
           \/ /\ proc'[q].at \notin SetUp
              /\ proc'[q].at \in Registered /\ proc'[q].child =>
                   proc[q].at \in Registered /\ proc[q].child
      BY <2>3 DEF SetUp, Registered, AppendSteps, StaySteps
    <3>2. QED
      BY Zenon, <1>1, <1>2, <2>1, <3>1, LedKeptSame
  <2>5. QED
    BY <1>1, <1>2, <1>3, <2>1, <2>3, <2>4, PassInv
<1>5. CASE Becomes(p, Nobody) /\ Fault
  <2>1. /\ faults' \in 0..MaxFaults /\ calls' = calls /\ deaths' = deaths /\ LedInv'
    BY <1>5, Faulty
  <2>2. /\ proc' \in [Pids -> Entry] /\ \A q \in Pids \ {p} : proc'[q] = proc[q]
        /\ proc'[p] = Nobody
    BY Zenon, <1>2, <1>5, NobodyType, Becoming
  <2>3. Nobody.at = "none" /\ Nobody.found = {} /\ Nobody.quiet = FALSE
    BY DEF Nobody
  <2>4. QED
    BY <1>1, <1>2, <1>3, <2>1, <2>2, <2>3, PassInv
<1>6. QED
  BY Zenon, <1>1, <1>4, <1>5

(* What a place in the set-up asks of the pin.                              *)
Asks(l) ==
  /\ l \in SetUp => owner = "sysfs"
  /\ l \in {"active_low", "dark", "fork"} => "out" \in pin
  /\ l \in {"dark", "fork"} => "active_low" \in pin

(* A step of the set-up that leads to l, if nothing failed.                 *)
LEMMA SetUpInv ==
  ASSUME IInv, NEW p \in Pids, At(p) \in InitSteps, NEW l \in InitSteps, Goes(p, l),
         UNCHANGED <<files, temp>>, calls' = calls, deaths' = deaths,
         faults' = faults,
         owner' \in {"none", "sysfs", "driver"}, pin' \subseteq {"out", "active_low"},
         low' \in BOOLEAN,
         owner = "driver" => owner' = "driver", owner = "sysfs" => owner' = "sysfs",
         pin \subseteq pin',
         faults = 0 /\ owner # "driver" => Asks(l)'
  PROVE  IInv'
<1>1. /\ proc \in [Pids -> Entry] /\ LedInv
      /\ owner \in {"none", "sysfs", "driver"} /\ pin \subseteq {"out", "active_low"}
      /\ low \in BOOLEAN /\ faults \in 0..MaxFaults /\ faults \in Nat
  BY Zenon, Before
<1>2. l \in Places
  BY InitPlaces
<1>3. /\ proc' \in [Pids -> Entry] /\ \A q \in Pids \ {p} : proc'[q] = proc[q]
      /\ proc'[p].at = l /\ proc'[p].found = proc[p].found
      /\ proc'[p].quiet = proc[p].quiet /\ proc'[p].child = proc[p].child
  BY Zenon, <1>1, <1>2, Going
<1>4. LedInv'
  <2>1. CASE faults > 0 \/ owner = "driver"
    BY <2>1 DEF LedInv
  <2>2. CASE ~ (faults > 0 \/ owner = "driver")
    <3>1. /\ l \in SetUp => owner' = "sysfs"
          /\ l \in {"active_low", "dark", "fork"} => "out" \in pin'
          /\ l \in {"dark", "fork"} => "active_low" \in pin'
      BY <1>1, <2>2 DEF Asks
    <3>2. \A q \in Pids :
            /\ proc[q].at \in {"direction", "active_low", "dark", "fork"} => owner = "sysfs"
            /\ proc[q].at \in {"active_low", "dark", "fork"} => "out" \in pin
            /\ proc[q].at \in {"dark", "fork"} => "active_low" \in pin
            /\ proc[q].at \in Registered /\ proc[q].child =>
                 owner = "sysfs" /\ "out" \in pin /\ "active_low" \in pin
      BY Zenon, <1>1, <2>2 DEF LedInv, At
    <3>3. l \notin Registered
      BY DEF InitSteps, Registered, AppendSteps, StaySteps
    <3>4. ASSUME NEW q \in Pids
          PROVE  /\ proc'[q].at \in {"direction", "active_low", "dark", "fork"} => owner' = "sysfs"
                 /\ proc'[q].at \in {"active_low", "dark", "fork"} => "out" \in pin'
                 /\ proc'[q].at \in {"dark", "fork"} => "active_low" \in pin'
                 /\ proc'[q].at \in Registered /\ proc'[q].child =>
                      owner' = "sysfs" /\ "out" \in pin' /\ "active_low" \in pin'
      <4>1. CASE q = p
        BY <1>3, <3>1, <3>3, <4>1 DEF SetUp
      <4>2. CASE q # p
        BY <1>3, <3>2, <4>2
      <4>3. QED
        BY <4>1, <4>2
    <3>5. QED
      BY Zenon, <3>4 DEF LedInv, At
  <2>3. QED
    BY <2>1, <2>2
<1>5. QED
  BY <1>1, <1>3, <1>4, PassInv

(* A step of the set-up that was refused.                                   *)
LEMMA RefusedInv ==
  ASSUME IInv, NEW p \in Pids, At(p) \in InitSteps, NEW l \in InitSteps, Goes(p, l),
         UNCHANGED <<files, temp, led>>, Fault
  PROVE  IInv'
<1>1. /\ proc \in [Pids -> Entry]
      /\ owner \in {"none", "sysfs", "driver"} /\ pin \subseteq {"out", "active_low"}
      /\ low \in BOOLEAN
  BY Zenon, Before
<1>2. l \in Places
  BY InitPlaces
<1>3. /\ proc' \in [Pids -> Entry] /\ \A q \in Pids \ {p} : proc'[q] = proc[q]
      /\ proc'[p].at = l /\ proc'[p].found = proc[p].found
      /\ proc'[p].quiet = proc[p].quiet /\ proc'[p].child = proc[p].child
  BY Zenon, <1>1, <1>2, Going
<1>4. /\ faults' \in 0..MaxFaults /\ calls' = calls /\ deaths' = deaths /\ LedInv'
  BY Faulty
<1>5. owner' = owner /\ pin' = pin /\ low' = low /\ UNCHANGED <<files, temp>>
  BY Zenon DEF led
<1>6. QED
  BY <1>1, <1>3, <1>4, <1>5, PassInv

LEMMA CheckInv == ASSUME IInv, NEW p \in Pids, Check(p) PROVE IInv'
<1>1. /\ At(p) = "check" /\ UNCHANGED <<files, temp, led>>
      /\ owner' = owner /\ pin' = pin /\ low' = low /\ UNCHANGED <<files, temp>>
      /\ \/ Goes(p, IF InSysfs THEN "direction" ELSE "export") /\ UNCHANGED bounds
         \/ Goes(p, "dark") /\ Fault
  BY Zenon DEF Check, led
<1>2. {"check", "direction", "export", "dark"} \subseteq InitSteps
  BY DEF InitSteps
<1>3. owner \in {"none", "sysfs", "driver"} /\ pin \subseteq {"out", "active_low"} /\ low \in BOOLEAN
  BY Zenon, Before
<1>4. CASE Goes(p, IF InSysfs THEN "direction" ELSE "export") /\ UNCHANGED bounds
  <2>1. calls' = calls /\ deaths' = deaths /\ faults' = faults
    BY Zenon, <1>4 DEF bounds
  <2>2. CASE InSysfs
    <3>1. Goes(p, "direction") /\ owner = "sysfs"
      BY Zenon, <1>4, <2>2 DEF InSysfs
    <3>2. Asks("direction")'
      BY <1>1, <3>1 DEF Asks, SetUp
    <3>3. QED
      BY <1>1, <1>2, <1>3, <2>1, <3>1, <3>2, SetUpInv
  <2>3. CASE ~ InSysfs
    <3>1. Goes(p, "export")
      BY Zenon, <1>4, <2>3
    <3>2. Asks("export")'
      BY DEF Asks, SetUp
    <3>3. QED
      BY <1>1, <1>2, <1>3, <2>1, <3>1, <3>2, SetUpInv
  <2>4. QED
    BY <2>2, <2>3
<1>5. CASE Goes(p, "dark") /\ Fault
  BY <1>1, <1>2, <1>5, RefusedInv
<1>6. QED
  BY Zenon, <1>1, <1>4, <1>5

LEMMA ExportInv == ASSUME IInv, NEW p \in Pids, Export(p) PROVE IInv'
<1>1. /\ At(p) = "export" /\ Goes(p, "direction") /\ UNCHANGED <<files, temp>>
      /\ \/ /\ owner' = (IF owner = "none" THEN "sysfs" ELSE owner) /\ pin' = pin /\ low' = low
            /\ UNCHANGED bounds
         \/ UNCHANGED led /\ Fault
  BY Zenon DEF Export, Shell
<1>2. {"export", "direction"} \subseteq InitSteps
  BY DEF InitSteps
<1>3. owner \in {"none", "sysfs", "driver"} /\ pin \subseteq {"out", "active_low"} /\ low \in BOOLEAN
  BY Zenon, Before
<1>4. CASE /\ owner' = (IF owner = "none" THEN "sysfs" ELSE owner) /\ pin' = pin /\ low' = low
           /\ UNCHANGED bounds
  <2>1. calls' = calls /\ deaths' = deaths /\ faults' = faults
    BY Zenon, <1>4 DEF bounds
  <2>2. /\ owner' \in {"none", "sysfs", "driver"} /\ owner = "driver" => owner' = "driver"
        /\ owner = "sysfs" => owner' = "sysfs"
        /\ owner # "driver" => Asks("direction")'
    BY <1>3, <1>4 DEF Asks, SetUp
  <2>3. QED
    BY <1>1, <1>2, <1>3, <1>4, <2>1, <2>2, SetUpInv
<1>5. CASE UNCHANGED led /\ Fault
  BY <1>1, <1>2, <1>5, RefusedInv
<1>6. QED
  BY Zenon, <1>1, <1>4, <1>5

(* In the set-up without a fault the pin is in sysfs.                       *)
LEMMA OursBefore ==
  ASSUME IInv, NEW p \in Pids, At(p) \in SetUp, faults = 0, owner # "driver"
  PROVE  Asks(At(p))
<1>1. LedInv /\ faults \in Nat
  BY Zenon, Before
<1>2. QED
  BY <1>1 DEF LedInv, Asks, SetUp

LEMMA DirectionInv == ASSUME IInv, NEW p \in Pids, Direction(p) PROVE IInv'
<1>1. /\ At(p) = "direction" /\ Goes(p, "active_low") /\ UNCHANGED <<files, temp>>
      /\ \/ owner = "sysfs" /\ pin' = pin \union {"out"} /\ low' = TRUE /\ owner' = owner /\ UNCHANGED bounds
         \/ owner # "sysfs" /\ UNCHANGED led /\ UNCHANGED bounds
         \/ UNCHANGED led /\ Fault
  BY Zenon DEF Direction, Shell, Attribute
<1>2. {"direction", "active_low"} \subseteq InitSteps /\ At(p) \in SetUp
  BY <1>1 DEF InitSteps, SetUp
<1>3. owner \in {"none", "sysfs", "driver"} /\ pin \subseteq {"out", "active_low"} /\ low \in BOOLEAN
  BY Zenon, Before
<1>4. faults = 0 /\ owner # "driver" => owner = "sysfs"
  BY <1>1, <1>2, OursBefore DEF Asks
<1>5. CASE owner = "sysfs" /\ pin' = pin \union {"out"} /\ low' = TRUE /\ owner' = owner /\ UNCHANGED bounds
  <2>1. calls' = calls /\ deaths' = deaths /\ faults' = faults
    BY Zenon, <1>5 DEF bounds
  <2>2. pin' \subseteq {"out", "active_low"} /\ pin \subseteq pin' /\ Asks("active_low")'
    BY <1>3, <1>5 DEF Asks
  <2>3. QED
    BY <1>1, <1>2, <1>3, <1>5, <2>1, <2>2, SetUpInv
<1>6. CASE owner # "sysfs" /\ UNCHANGED led /\ UNCHANGED bounds
  <2>1. /\ calls' = calls /\ deaths' = deaths /\ faults' = faults
        /\ owner' = owner /\ pin' = pin /\ low' = low
    BY Zenon, <1>6 DEF bounds, led
  <2>2. ~ (faults = 0 /\ owner # "driver")
    BY <1>4, <1>6
  <2>3. QED
    BY <1>1, <1>2, <1>3, <2>1, <2>2, SetUpInv
<1>7. CASE UNCHANGED led /\ Fault
  BY <1>1, <1>2, <1>7, RefusedInv
<1>8. QED
  BY Zenon, <1>1, <1>5, <1>6, <1>7

LEMMA ActiveLowInv == ASSUME IInv, NEW p \in Pids, ActiveLow(p) PROVE IInv'
<1>1. /\ At(p) = "active_low" /\ Goes(p, "dark") /\ UNCHANGED <<files, temp>>
      /\ \/ owner = "sysfs" /\ pin' = pin \union {"active_low"} /\ low' = low /\ owner' = owner /\ UNCHANGED bounds
         \/ owner # "sysfs" /\ UNCHANGED led /\ UNCHANGED bounds
         \/ UNCHANGED led /\ Fault
  BY Zenon DEF ActiveLow, Shell, Attribute
<1>2. {"active_low", "dark"} \subseteq InitSteps /\ At(p) \in SetUp
  BY <1>1 DEF InitSteps, SetUp
<1>3. owner \in {"none", "sysfs", "driver"} /\ pin \subseteq {"out", "active_low"} /\ low \in BOOLEAN
  BY Zenon, Before
<1>4. faults = 0 /\ owner # "driver" => owner = "sysfs" /\ "out" \in pin
  BY <1>1, <1>2, OursBefore DEF Asks
<1>5. CASE owner = "sysfs" /\ pin' = pin \union {"active_low"} /\ low' = low /\ owner' = owner /\ UNCHANGED bounds
  <2>1. calls' = calls /\ deaths' = deaths /\ faults' = faults
    BY Zenon, <1>5 DEF bounds
  <2>2. /\ pin' \subseteq {"out", "active_low"} /\ pin \subseteq pin'
        /\ faults = 0 /\ owner # "driver" => Asks("dark")'
    BY <1>3, <1>4, <1>5 DEF Asks
  <2>3. QED
    BY <1>1, <1>2, <1>3, <1>5, <2>1, <2>2, SetUpInv
<1>6. CASE owner # "sysfs" /\ UNCHANGED led /\ UNCHANGED bounds
  <2>1. /\ calls' = calls /\ deaths' = deaths /\ faults' = faults
        /\ owner' = owner /\ pin' = pin /\ low' = low
    BY Zenon, <1>6 DEF bounds, led
  <2>2. ~ (faults = 0 /\ owner # "driver")
    BY <1>4, <1>6
  <2>3. QED
    BY <1>1, <1>2, <1>3, <2>1, <2>2, SetUpInv
<1>7. CASE UNCHANGED led /\ Fault
  BY <1>1, <1>2, <1>7, RefusedInv
<1>8. QED
  BY Zenon, <1>1, <1>5, <1>6, <1>7

(* led_control changes the level only.                                      *)
LEMMA Controls ==
  ASSUME NEW on \in BOOLEAN, low \in BOOLEAN, Control(on)
  PROVE  owner' = owner /\ pin' = pin /\ low' \in BOOLEAN
<1>1. \/ /\ low' = (IF "out" \in pin THEN on = ("active_low" \in pin) ELSE low)
         /\ pin' = pin /\ owner' = owner
      \/ owner' = owner /\ pin' = pin /\ low' = low
  BY Zenon DEF Control, Attribute, led
<1>2. (IF "out" \in pin THEN on = ("active_low" \in pin) ELSE low) \in BOOLEAN
  OBVIOUS
<1>3. QED
  BY Zenon, <1>1, <1>2

LEMMA DarkInv == ASSUME IInv, NEW p \in Pids, Dark(p) PROVE IInv'
<1>1. /\ At(p) = "dark" /\ Goes(p, "fork") /\ UNCHANGED <<files, temp>>
      /\ \/ Control(FALSE) /\ UNCHANGED bounds
         \/ UNCHANGED led /\ Fault
  BY Zenon DEF Dark, Shell
<1>2. {"dark", "fork"} \subseteq InitSteps /\ At(p) \in SetUp
  BY <1>1 DEF InitSteps, SetUp
<1>3. owner \in {"none", "sysfs", "driver"} /\ pin \subseteq {"out", "active_low"} /\ low \in BOOLEAN
  BY Zenon, Before
<1>4. faults = 0 /\ owner # "driver" => owner = "sysfs" /\ "out" \in pin /\ "active_low" \in pin
  BY <1>1, <1>2, OursBefore DEF Asks
<1>5. CASE Control(FALSE) /\ UNCHANGED bounds
  <2>1. calls' = calls /\ deaths' = deaths /\ faults' = faults
    BY Zenon, <1>5 DEF bounds
  <2>2. owner' = owner /\ pin' = pin /\ low' \in BOOLEAN
    BY <1>3, <1>5, Controls
  <2>3. faults = 0 /\ owner # "driver" => Asks("fork")'
    BY <1>4, <2>2 DEF Asks
  <2>4. QED
    BY <1>1, <1>2, <1>3, <2>1, <2>2, <2>3, SetUpInv
<1>6. CASE UNCHANGED led /\ Fault
  BY <1>1, <1>2, <1>6, RefusedInv
<1>7. QED
  BY Zenon, <1>1, <1>5, <1>6

-----------------------------------------------------------------------------
(* Fork, and the way to rest                                               *)

(* All that a step needs, when no stop can be quiet.                        *)
LEMMA BusyInv ==
  ASSUME IInv, NEW p \in Pids, At(p) \in ToolSteps \ (StaySteps \union StopSteps),
         proc' \in [Pids -> Entry], \A q \in Pids : proc'[q].quiet => proc[q].quiet,
         lines' \subseteq Pids, unlisted' \subseteq Pids, ended' \subseteq Pids,
         owner' = owner, pin' = pin, low' \in BOOLEAN, temp' = temp,
         calls' = calls, deaths' = deaths, faults' \in 0..MaxFaults,
         FileInv', LedInv'
  PROVE  IInv'
<1>1. TypeOK /\ QuietInv
  BY Kept
<1>2. /\ owner \in {"none", "sysfs", "driver"} /\ pin \subseteq {"out", "active_low"}
      /\ temp \in Temps /\ calls \in 0..MaxCalls /\ deaths \in 0..MaxDeaths
  BY Zenon, <1>1, Types
<1>3. TypeOK'
  BY Zenon, <1>2, Typed
<1>4. \A s \in Pids : ~ proc[s].quiet
  BY <1>1, NoneQuiet
<1>5. QED
  BY Zenon, <1>3, <1>4, SilentQuiet DEF IInv

(* Before a step: the sets and the bounds.                                  *)
LEMMA FilesBefore ==
  ASSUME IInv
  PROVE  /\ proc \in [Pids -> Entry] /\ lines \subseteq Pids /\ unlisted \subseteq Pids
         /\ ended \subseteq Pids /\ temp \in Temps
         /\ calls \in 0..MaxCalls /\ deaths \in 0..MaxDeaths
         /\ \A q \in Pids :
              /\ proc[q].at \in StaySteps => q \in lines \/ q \in unlisted
              /\ proc[q].at = "write" => proc[q].fd = "named" \/ q \in unlisted
              /\ q \in lines => proc[q].at \in Registered \/ q \in ended
              /\ \A s \in Pids : q \in proc[s].found => proc[q].at \in Registered \/ q \in ended
<1>1. TypeOK /\ FileInv
  BY Kept
<1>2. QED
  BY Zenon, <1>1, Types DEF FileInv, At

LEMMA FilesAfter ==
  ASSUME \A q \in Pids :
              /\ proc'[q].at \in StaySteps => q \in lines' \/ q \in unlisted'
              /\ proc'[q].at = "write" => proc'[q].fd = "named" \/ q \in unlisted'
              /\ q \in lines' => proc'[q].at \in Registered \/ q \in ended'
              /\ \A s \in Pids : q \in proc'[s].found => proc'[q].at \in Registered \/ q \in ended'
  PROVE  FileInv'
  BY Zenon DEF FileInv, At

LEMMA ForkInv == ASSUME IInv, NEW p \in Pids, Fork(p) PROVE IInv'
<1>1. /\ At(p) = "fork" /\ lines' = lines /\ ended' = ended
      /\ owner' = owner /\ pin' = pin /\ low' = low /\ temp' = temp
      /\ \/ \E c \in Free :
              /\ proc' = [proc EXCEPT ![p].at = AfterFork(proc[p].bg), ![p].kid = c,
                                  ![c] = [Nobody EXCEPT !.at = "open", !.child = TRUE,
                                                        !.limit = proc[p].limit]]
              /\ unlisted' = unlisted \ {c} /\ calls' = calls /\ deaths' = deaths /\ faults' = faults
         \/ Goes(p, AfterFork(proc[p].bg)) /\ Fault /\ unlisted' = unlisted
  BY Zenon DEF Fork, led, bounds
<1>2. /\ proc \in [Pids -> Entry] /\ lines \subseteq Pids /\ unlisted \subseteq Pids
      /\ ended \subseteq Pids
      /\ \A q \in Pids :
              /\ proc[q].at \in StaySteps => q \in lines \/ q \in unlisted
              /\ proc[q].at = "write" => proc[q].fd = "named" \/ q \in unlisted
              /\ q \in lines => proc[q].at \in Registered \/ q \in ended
              /\ \A s \in Pids : q \in proc[s].found => proc[q].at \in Registered \/ q \in ended
  BY Zenon, FilesBefore
<1>3. /\ low \in BOOLEAN /\ faults \in 0..MaxFaults /\ LedInv
  BY Zenon, Before
<1>4. AfterFork(proc[p].bg) \in {"leave", "open"}
  BY Zenon DEF AfterFork
<1>5. {"leave", "open"} \subseteq Places /\ At(p) \in ToolSteps \ (StaySteps \union StopSteps)
  BY <1>1 DEF Places, ToolSteps, AppendSteps, InitSteps, StaySteps, StopSteps
<1>6. AfterFork(proc[p].bg) \in Places
  BY Zenon, <1>4, <1>5
<1>7. {"leave", "open", "fork"} \intersect (StaySteps \union {"write"}) = {} /\ proc[p].at = "fork"
      /\ "fork" \notin Registered /\ "none" \notin Registered
  BY <1>1 DEF StaySteps, At, Registered, AppendSteps
<1>8. CASE \E c \in Free :
              /\ proc' = [proc EXCEPT ![p].at = AfterFork(proc[p].bg), ![p].kid = c,
                                  ![c] = [Nobody EXCEPT !.at = "open", !.child = TRUE,
                                                        !.limit = proc[p].limit]]
              /\ unlisted' = unlisted \ {c} /\ calls' = calls /\ deaths' = deaths /\ faults' = faults
  <2>1. PICK c \in Free :
              /\ proc' = [proc EXCEPT ![p].at = AfterFork(proc[p].bg), ![p].kid = c,
                                  ![c] = [Nobody EXCEPT !.at = "open", !.child = TRUE,
                                                        !.limit = proc[p].limit]]
              /\ unlisted' = unlisted \ {c} /\ calls' = calls /\ deaths' = deaths /\ faults' = faults
    BY Zenon, <1>8
  <2>2. c \in Pids \ {p} /\ proc[c].at = "none"
    BY <1>1 DEF Free, At
  <2>3. /\ proc' \in [Pids -> Entry]
        /\ \A q \in Pids \ {p, c} : proc'[q] = proc[q]
        /\ proc'[p].at = AfterFork(proc[p].bg) /\ proc'[p].fd = proc[p].fd
        /\ proc'[p].found = proc[p].found
        /\ proc'[p].quiet = proc[p].quiet /\ proc'[p].child = proc[p].child
        /\ proc'[c].at = "open" /\ proc'[c].found = {} /\ proc'[c].quiet = FALSE
    <3> DEFINE parent == [proc[p] EXCEPT !.at = AfterFork(proc[p].bg), !.kid = c]
               kid == [Nobody EXCEPT !.at = "open", !.child = TRUE, !.limit = proc[p].limit]
    <3>1. proc[p] \in Entry
      BY <1>2
    <3>2. /\ parent \in Entry /\ parent.at = AfterFork(proc[p].bg) /\ parent.fd = proc[p].fd
          /\ parent.found = proc[p].found /\ parent.quiet = proc[p].quiet
          /\ parent.child = proc[p].child
      BY <1>6, <2>2, <3>1 DEF Entry
    <3>3. kid \in Entry /\ kid.at = "open" /\ kid.found = {} /\ kid.quiet = FALSE
      BY <3>1, NobodyType DEF Entry, Nobody, Places, ToolSteps, AppendSteps
    <3>4. proc' = [q \in Pids |-> IF q = c THEN kid ELSE IF q = p THEN parent ELSE proc[q]]
      BY <1>2, <2>1, <2>2
    <3> HIDE DEF parent, kid
    <3>5. proc'[p] = parent /\ proc'[c] = kid /\ \A q \in Pids \ {p, c} : proc'[q] = proc[q]
      BY <2>2, <3>4
    <3>6. proc' \in [Pids -> Entry]
      BY <1>2, <3>2, <3>3, <3>4
    <3>7. QED
      BY Zenon, <3>2, <3>3, <3>5, <3>6
  <2>4. FileInv'
    <3>1. \A s \in Pids : proc'[s].found \subseteq proc[s].found
      BY <2>3
    <3>2. ASSUME NEW q \in Pids
          PROVE  /\ proc'[q].at \in StaySteps => q \in lines' \/ q \in unlisted'
                 /\ proc'[q].at = "write" => proc'[q].fd = "named" \/ q \in unlisted'
                 /\ q \in lines' => proc'[q].at \in Registered \/ q \in ended'
                 /\ \A s \in Pids : q \in proc'[s].found => proc'[q].at \in Registered \/ q \in ended'
      <4>1. CASE q = p \/ q = c
        BY <1>1, <1>2, <1>4, <1>7, <2>2, <2>3, <3>1, <4>1
      <4>2. CASE q # p /\ q # c
        BY <1>1, <1>2, <2>1, <2>3, <3>1, <4>2
      <4>3. QED
        BY <4>1, <4>2
    <3>3. QED
      BY Zenon, <3>2, FilesAfter
  <2>5. LedInv'
    <3>1. CASE faults > 0 \/ owner = "driver"
      BY <1>1, <2>1, <3>1 DEF LedInv
    <3>2. CASE ~ (faults > 0 \/ owner = "driver")
      <4>1. owner = "sysfs" /\ "out" \in pin /\ "active_low" \in pin
        BY <1>1, <1>3, <3>2 DEF LedInv
      <4>2. QED
        BY Zenon, <1>1, <4>1 DEF LedInv
    <3>3. QED
      BY <3>1, <3>2
  <2>6. \A q \in Pids : proc'[q].quiet => proc[q].quiet
    BY <2>3
  <2>7. lines' \subseteq Pids /\ unlisted' \subseteq Pids /\ ended' \subseteq Pids
    BY <1>1, <1>2, <2>1
  <2>8. QED
    BY Zenon, <1>1, <1>3, <1>5, <2>1, <2>3, <2>4, <2>5, <2>6, <2>7, BusyInv
<1>9. CASE Goes(p, AfterFork(proc[p].bg)) /\ Fault /\ unlisted' = unlisted
  <2>1. /\ faults' \in 0..MaxFaults /\ calls' = calls /\ deaths' = deaths /\ LedInv'
    BY <1>9, Faulty
  <2>2. /\ proc' \in [Pids -> Entry] /\ \A q \in Pids \ {p} : proc'[q] = proc[q]
        /\ proc'[p].at = AfterFork(proc[p].bg) /\ proc'[p].found = proc[p].found
        /\ proc'[p].quiet = proc[p].quiet
    BY Zenon, <1>2, <1>6, <1>9, Going
  <2>3. FileInv'
    <3>1. \A s \in Pids : proc'[s].found = proc[s].found
      BY <2>2
    <3>2. ASSUME NEW q \in Pids
          PROVE  /\ proc'[q].at \in StaySteps => q \in lines' \/ q \in unlisted'
                 /\ proc'[q].at = "write" => proc'[q].fd = "named" \/ q \in unlisted'
                 /\ q \in lines' => proc'[q].at \in Registered \/ q \in ended'
                 /\ \A s \in Pids : q \in proc'[s].found => proc'[q].at \in Registered \/ q \in ended'
      <4>1. CASE q = p
        BY <1>1, <1>2, <1>4, <1>7, <2>2, <3>1, <4>1
      <4>2. CASE q # p
        BY <1>1, <1>2, <1>9, <2>2, <3>1, <4>2
      <4>3. QED
        BY <4>1, <4>2
    <3>3. QED
      BY Zenon, <3>2, FilesAfter
  <2>4. \A q \in Pids : proc'[q].quiet => proc[q].quiet
    BY <2>2
  <2>5. lines' \subseteq Pids /\ unlisted' \subseteq Pids /\ ended' \subseteq Pids
    BY <1>1, <1>2, <1>9
  <2>6. QED
    BY Zenon, <1>1, <1>3, <1>5, <2>1, <2>2, <2>3, <2>4, <2>5, BusyInv
<1>10. QED
  BY Zenon, <1>1, <1>8, <1>9

LEMMA LeaveInv == ASSUME IInv, NEW p \in Pids, Leave(p) PROVE IInv'
<1>1. /\ At(p) = "leave" /\ Becomes(p, Nobody) /\ UNCHANGED <<files, temp>>
      /\ owner' = owner /\ pin' = pin /\ low' = low
      /\ calls' = calls /\ deaths' = deaths /\ faults' = faults
  BY Zenon DEF Leave, led, bounds
<1>2. /\ proc \in [Pids -> Entry] /\ LedInv
      /\ owner \in {"none", "sysfs", "driver"} /\ pin \subseteq {"out", "active_low"}
      /\ low \in BOOLEAN /\ faults \in 0..MaxFaults /\ faults \in Nat
  BY Zenon, Before
<1>3. /\ proc' \in [Pids -> Entry] /\ \A q \in Pids \ {p} : proc'[q] = proc[q]
      /\ proc'[p] = Nobody
  BY Zenon, <1>1, <1>2, NobodyType, Becoming
<1>4. Nobody.at = "none" /\ Nobody.found = {} /\ Nobody.quiet = FALSE
  BY DEF Nobody
<1>5. LedInv'
  <2>1. \A q \in Pids :
         \/ proc'[q].at = proc[q].at /\ proc'[q].child = proc[q].child
         \/ /\ proc'[q].at \notin SetUp
            /\ proc'[q].at \in Registered /\ proc'[q].child =>
                 proc[q].at \in Registered /\ proc[q].child
    BY <1>3, <1>4 DEF SetUp, Registered, AppendSteps, StaySteps
  <2>2. QED
    BY Zenon, <1>1, <1>2, <2>1, LedKeptSame
<1>6. QED
  BY <1>1, <1>2, <1>3, <1>4, <1>5, PassInv

(* A registrant that goes on, and stays one.                                *)
LEMMA LedRegistered ==
  ASSUME IInv, NEW p \in Pids, At(p) \in Registered, proc'[p].at \in Registered,
         proc'[p].child = proc[p].child, \A q \in Pids \ {p} : proc'[q] = proc[q],
         owner' = owner, pin' = pin, faults' \in Nat, faults' >= faults
  PROVE  LedInv'
<1>1. LedInv /\ faults \in Nat
  BY Zenon, Before
<1>2. \A q \in Pids :
         \/ proc'[q].at = proc[q].at /\ proc'[q].child = proc[q].child
         \/ /\ proc'[q].at \notin SetUp
            /\ proc'[q].at \in Registered /\ proc'[q].child =>
                 proc[q].at \in Registered /\ proc[q].child
  BY DEF SetUp, Registered, AppendSteps, StaySteps, At
<1>3. QED
  BY Zenon, <1>1, <1>2, LedKept

LEMMA StayPlace == ASSUME NEW p \in Pids PROVE Stay(p) \in StaySteps /\ Stay(p) \in Places
<1>1. Stay(p) \in {"measure", "sleep"}
  BY Zenon DEF Stay
<1>2. QED
  BY <1>1 DEF StaySteps, Places, ToolSteps

LEMMA Opening ==
  ASSUME proc \in [Pids -> Entry], NEW p \in Pids,
         proc' = [proc EXCEPT ![p].at = "write", ![p].fd = "named"]
  PROVE  /\ proc' \in [Pids -> Entry] /\ \A q \in Pids \ {p} : proc'[q] = proc[q]
         /\ proc'[p].at = "write" /\ proc'[p].fd = "named" /\ proc'[p].found = proc[p].found
         /\ proc'[p].quiet = proc[p].quiet /\ proc'[p].child = proc[p].child
<1>1. proc[p] \in Entry
  OBVIOUS
<1>2. "write" \in Places
  BY DEF Places, ToolSteps, AppendSteps
<1>3. QED
  BY <1>1, <1>2 DEF Entry

LEMMA OpenInv == ASSUME IInv, NEW p \in Pids, Open(p) PROVE IInv'
<1>1. /\ At(p) = "open" /\ lines' = lines /\ ended' = ended
      /\ owner' = owner /\ pin' = pin /\ low' = low /\ temp' = temp
      /\ \/ /\ proc' = [proc EXCEPT ![p].at = "write", ![p].fd = "named"]
            /\ unlisted' = unlisted /\ calls' = calls /\ deaths' = deaths /\ faults' = faults
         \/ Goes(p, Stay(p)) /\ unlisted' = unlisted \union {p} /\ Fault
  BY Zenon DEF Open, led, bounds
<1>2. /\ proc \in [Pids -> Entry] /\ lines \subseteq Pids /\ unlisted \subseteq Pids
      /\ ended \subseteq Pids
      /\ \A q \in Pids :
              /\ proc[q].at \in StaySteps => q \in lines \/ q \in unlisted
              /\ proc[q].at = "write" => proc[q].fd = "named" \/ q \in unlisted
              /\ q \in lines => proc[q].at \in Registered \/ q \in ended
              /\ \A s \in Pids : q \in proc[s].found => proc[q].at \in Registered \/ q \in ended
  BY Zenon, FilesBefore
<1>3. low \in BOOLEAN /\ faults \in 0..MaxFaults /\ faults \in Nat
  BY Zenon, Before
<1>4. At(p) \in ToolSteps \ (StaySteps \union StopSteps) /\ At(p) \in Registered
  BY <1>1 DEF ToolSteps, AppendSteps, StaySteps, StopSteps, Registered
<1>5. CASE /\ proc' = [proc EXCEPT ![p].at = "write", ![p].fd = "named"]
           /\ unlisted' = unlisted /\ calls' = calls /\ deaths' = deaths /\ faults' = faults
  <2>1. /\ proc' \in [Pids -> Entry] /\ \A q \in Pids \ {p} : proc'[q] = proc[q]
        /\ proc'[p].at = "write" /\ proc'[p].fd = "named" /\ proc'[p].found = proc[p].found
        /\ proc'[p].quiet = proc[p].quiet /\ proc'[p].child = proc[p].child
    BY Zenon, <1>2, <1>5, Opening
  <2>2. "write" \in Registered /\ "write" \notin StaySteps
    BY DEF Registered, AppendSteps, StaySteps
  <2>3. FileInv'
    <3>1. \A s \in Pids : proc'[s].found = proc[s].found
      BY <2>1
    <3>2. \A q \in Pids :
                 /\ proc'[q].at \in StaySteps => q \in lines' \/ q \in unlisted'
                 /\ proc'[q].at = "write" => proc'[q].fd = "named" \/ q \in unlisted'
                 /\ q \in lines' => proc'[q].at \in Registered \/ q \in ended'
                 /\ \A s \in Pids : q \in proc'[s].found => proc'[q].at \in Registered \/ q \in ended'
      BY <1>1, <1>2, <1>5, <2>1, <2>2, <3>1
    <3>3. QED
      BY Zenon, <3>2, FilesAfter
  <2>4. LedInv'
    BY <1>1, <1>3, <1>4, <1>5, <2>1, <2>2, LedRegistered
  <2>5. \A q \in Pids : proc'[q].quiet => proc[q].quiet
    BY <2>1
  <2>6. lines' \subseteq Pids /\ unlisted' \subseteq Pids /\ ended' \subseteq Pids
    BY <1>1, <1>2, <1>5
  <2>7. QED
    BY Zenon, <1>1, <1>3, <1>4, <1>5, <2>1, <2>3, <2>4, <2>5, <2>6, BusyInv
<1>6. CASE Goes(p, Stay(p)) /\ unlisted' = unlisted \union {p} /\ Fault
  <2>1. /\ faults' \in 0..MaxFaults /\ calls' = calls /\ deaths' = deaths /\ LedInv'
    BY <1>6, Faulty
  <2>2. /\ proc' \in [Pids -> Entry] /\ \A q \in Pids \ {p} : proc'[q] = proc[q]
        /\ proc'[p].at = Stay(p) /\ proc'[p].found = proc[p].found
        /\ proc'[p].quiet = proc[p].quiet
    BY Zenon, <1>2, <1>6, StayPlace, Going
  <2>3. proc'[p].at \in StaySteps /\ proc'[p].at # "write" /\ proc'[p].at \in Registered
    BY <2>2, StayPlace DEF Registered, StaySteps
  <2>4. FileInv'
    <3>1. \A s \in Pids : proc'[s].found = proc[s].found
      BY <2>2
    <3>2. \A q \in Pids :
                 /\ proc'[q].at \in StaySteps => q \in lines' \/ q \in unlisted'
                 /\ proc'[q].at = "write" => proc'[q].fd = "named" \/ q \in unlisted'
                 /\ q \in lines' => proc'[q].at \in Registered \/ q \in ended'
                 /\ \A s \in Pids : q \in proc'[s].found => proc'[q].at \in Registered \/ q \in ended'
      BY <1>1, <1>2, <1>6, <2>2, <2>3, <3>1
    <3>3. QED
      BY Zenon, <3>2, FilesAfter
  <2>5. \A q \in Pids : proc'[q].quiet => proc[q].quiet
    BY <2>2
  <2>6. lines' \subseteq Pids /\ unlisted' \subseteq Pids /\ ended' \subseteq Pids
    BY <1>1, <1>2, <1>6
  <2>7. QED
    BY Zenon, <1>1, <1>3, <1>4, <2>1, <2>2, <2>4, <2>5, <2>6, BusyInv
<1>7. QED
  BY Zenon, <1>1, <1>5, <1>6

LEMMA Writing ==
  ASSUME proc \in [Pids -> Entry], NEW p \in Pids, NEW l \in Places,
         proc' = [proc EXCEPT ![p].at = l, ![p].fd = "none"]
  PROVE  /\ proc' \in [Pids -> Entry] /\ \A q \in Pids \ {p} : proc'[q] = proc[q]
         /\ proc'[p].at = l /\ proc'[p].found = proc[p].found
         /\ proc'[p].quiet = proc[p].quiet /\ proc'[p].child = proc[p].child
<1>1. proc[p] \in Entry
  OBVIOUS
<1>2. QED
  BY <1>1 DEF Entry

LEMMA WriteInv == ASSUME IInv, NEW p \in Pids, Write(p) PROVE IInv'
<1>1. /\ At(p) = "write" /\ unlisted' = unlisted /\ ended' = ended
      /\ owner' = owner /\ pin' = pin /\ low' = low /\ temp' = temp
      /\ calls' = calls /\ deaths' = deaths /\ faults' = faults
      /\ lines' = (IF proc[p].fd = "named" THEN lines \union {p} ELSE lines)
      /\ proc' = [proc EXCEPT ![p].at = Stay(p), ![p].fd = "none"]
  BY Zenon DEF Write, Appended, OwnPid, led, bounds
<1>2. /\ proc \in [Pids -> Entry] /\ lines \subseteq Pids /\ unlisted \subseteq Pids
      /\ ended \subseteq Pids
      /\ \A q \in Pids :
              /\ proc[q].at \in StaySteps => q \in lines \/ q \in unlisted
              /\ proc[q].at = "write" => proc[q].fd = "named" \/ q \in unlisted
              /\ q \in lines => proc[q].at \in Registered \/ q \in ended
              /\ \A s \in Pids : q \in proc[s].found => proc[q].at \in Registered \/ q \in ended
  BY Zenon, FilesBefore
<1>3. low \in BOOLEAN /\ faults \in 0..MaxFaults /\ faults \in Nat
  BY Zenon, Before
<1>4. At(p) \in ToolSteps \ (StaySteps \union StopSteps) /\ At(p) \in Registered
  BY <1>1 DEF ToolSteps, AppendSteps, StaySteps, StopSteps, Registered
<1>5. /\ proc' \in [Pids -> Entry] /\ \A q \in Pids \ {p} : proc'[q] = proc[q]
      /\ proc'[p].at = Stay(p) /\ proc'[p].found = proc[p].found
      /\ proc'[p].quiet = proc[p].quiet /\ proc'[p].child = proc[p].child
  BY Zenon, <1>1, <1>2, StayPlace, Writing
<1>6. proc'[p].at \in StaySteps /\ proc'[p].at # "write" /\ proc'[p].at \in Registered
  BY <1>5, StayPlace DEF Registered, StaySteps
<1>7. FileInv'
  <2>1. \A s \in Pids : proc'[s].found = proc[s].found
    BY <1>5
  <2>2. p \in lines' \/ p \in unlisted'
    BY <1>1, <1>2 DEF At
  <2>3. lines \subseteq lines' /\ lines' \subseteq lines \union {p}
    BY <1>1
  <2>4. \A q \in Pids :
               /\ proc'[q].at \in StaySteps => q \in lines' \/ q \in unlisted'
               /\ proc'[q].at = "write" => proc'[q].fd = "named" \/ q \in unlisted'
               /\ q \in lines' => proc'[q].at \in Registered \/ q \in ended'
               /\ \A s \in Pids : q \in proc'[s].found => proc'[q].at \in Registered \/ q \in ended'
    <3>1. unlisted' = unlisted /\ ended' = ended
      BY <1>1
    <3>2. QED
      BY <1>2, <1>5, <1>6, <2>1, <2>2, <2>3, <3>1
  <2>5. QED
    BY Zenon, <2>4, FilesAfter
<1>8. LedInv'
  <2>1. owner' = owner /\ pin' = pin /\ faults' = faults
    BY <1>1
  <2>2. QED
    BY <1>3, <1>4, <1>5, <1>6, <2>1, LedRegistered
<1>9. \A q \in Pids : proc'[q].quiet => proc[q].quiet
  BY <1>5
<1>10. lines' \subseteq Pids /\ unlisted' \subseteq Pids /\ ended' \subseteq Pids
  BY <1>1, <1>2
<1>11. QED
  BY Zenon, <1>1, <1>3, <1>4, <1>5, <1>7, <1>8, <1>9, <1>10, BusyInv

-----------------------------------------------------------------------------
(* At rest                                                                 *)

LEMMA QuietBefore ==
  ASSUME IInv
  PROVE  \A s \in Pids : proc[s].quiet =>
           /\ proc[s].at \in StopSteps
           /\ \A q \in Pids : q # s /\ proc[q].at \in ToolSteps =>
                /\ proc[q].at \in StaySteps
                /\ \/ proc[s].at = "cat" /\ q \in lines
                   \/ proc[s].at = "kill" /\ q \in proc[s].found
  BY Zenon, Kept DEF QuietInv, At

LEMMA QuietAfter ==
  ASSUME \A s \in Pids : proc'[s].quiet =>
           /\ proc'[s].at \in StopSteps
           /\ \A q \in Pids : q # s /\ proc'[q].at \in ToolSteps =>
                /\ proc'[q].at \in StaySteps
                /\ \/ proc'[s].at = "cat" /\ q \in lines'
                   \/ proc'[s].at = "kill" /\ q \in proc'[s].found
  PROVE  QuietInv'
  BY Zenon DEF QuietInv, At

(* One at rest goes on in its loop.                                         *)
LEMMA RestInv ==
  ASSUME IInv, NEW p \in Pids, At(p) \in StaySteps,
         proc' \in [Pids -> Entry], \A q \in Pids \ {p} : proc'[q] = proc[q],
         proc'[p].at \in StaySteps, proc'[p].fd = proc[p].fd, proc'[p].found = proc[p].found,
         proc'[p].quiet = proc[p].quiet, proc'[p].child = proc[p].child,
         UNCHANGED <<files, temp>>, owner' = owner, pin' = pin, low' \in BOOLEAN,
         calls' = calls, deaths' = deaths, faults' \in 0..MaxFaults, faults' >= faults
  PROVE  IInv'
<1>1. /\ proc \in [Pids -> Entry] /\ lines \subseteq Pids /\ unlisted \subseteq Pids
      /\ ended \subseteq Pids /\ temp \in Temps
      /\ calls \in 0..MaxCalls /\ deaths \in 0..MaxDeaths
      /\ \A q \in Pids :
              /\ proc[q].at \in StaySteps => q \in lines \/ q \in unlisted
              /\ proc[q].at = "write" => proc[q].fd = "named" \/ q \in unlisted
              /\ q \in lines => proc[q].at \in Registered \/ q \in ended
              /\ \A s \in Pids : q \in proc[s].found => proc[q].at \in Registered \/ q \in ended
  BY Zenon, FilesBefore
<1>2. owner \in {"none", "sysfs", "driver"} /\ pin \subseteq {"out", "active_low"}
  BY Zenon, Before
<1>3. lines' = lines /\ unlisted' = unlisted /\ ended' = ended /\ temp' = temp
  BY Zenon DEF files
<1>4. TypeOK'
  BY Zenon, <1>1, <1>2, <1>3, Typed
<1>5. /\ proc[p].at \in StaySteps /\ proc[p].at # "write" /\ proc'[p].at # "write"
      /\ proc[p].at \in Registered /\ proc'[p].at \in Registered
      /\ proc[p].at \notin StopSteps
  BY DEF At, StaySteps, StopSteps, Registered
<1>6. FileInv'
  <2>1. \A s \in Pids : proc'[s].found = proc[s].found
    OBVIOUS
  <2>2. \A q \in Pids :
               /\ proc'[q].at \in StaySteps => q \in lines' \/ q \in unlisted'
               /\ proc'[q].at = "write" => proc'[q].fd = "named" \/ q \in unlisted'
               /\ q \in lines' => proc'[q].at \in Registered \/ q \in ended'
               /\ \A s \in Pids : q \in proc'[s].found => proc'[q].at \in Registered \/ q \in ended'
    BY <1>1, <1>3, <1>5, <2>1
  <2>3. QED
    BY Zenon, <2>2, FilesAfter
<1>7. QuietInv'
  <2>1. \A s \in Pids : proc[s].quiet =>
           /\ proc[s].at \in StopSteps
           /\ \A q \in Pids : q # s /\ proc[q].at \in ToolSteps =>
                /\ proc[q].at \in StaySteps
                /\ \/ proc[s].at = "cat" /\ q \in lines
                   \/ proc[s].at = "kill" /\ q \in proc[s].found
    BY Zenon, QuietBefore
  <2>2. StaySteps \subseteq ToolSteps
    BY DEF ToolSteps
  <2>3. ~ proc'[p].quiet
    BY <1>5, <2>1
  <2>4. \A s \in Pids : proc'[s].quiet =>
           /\ proc'[s].at \in StopSteps
           /\ \A q \in Pids : q # s /\ proc'[q].at \in ToolSteps =>
                /\ proc'[q].at \in StaySteps
                /\ \/ proc'[s].at = "cat" /\ q \in lines'
                   \/ proc'[s].at = "kill" /\ q \in proc'[s].found
    <3> SUFFICES ASSUME NEW s \in Pids, proc'[s].quiet, NEW q \in Pids, q # s, proc'[q].at \in ToolSteps
                 PROVE  /\ proc'[s].at \in StopSteps
                        /\ proc'[q].at \in StaySteps
                        /\ \/ proc'[s].at = "cat" /\ q \in lines'
                           \/ proc'[s].at = "kill" /\ q \in proc'[s].found
      BY <2>1, <2>3
    <3>1. s # p /\ proc'[s] = proc[s] /\ proc[s].quiet
      BY <2>3
    <3>2. proc[q].at \in ToolSteps /\ (q = p \/ proc'[q] = proc[q])
      BY <1>5, <2>2
    <3>3. QED
      BY <1>3, <1>5, <2>1, <3>1, <3>2
  <2>5. QED
    BY Zenon, <2>4, QuietAfter
<1>8. LedInv'
  <2>1. At(p) \in Registered /\ faults' \in Nat
    BY <1>5, Bounds DEF At
  <2>2. QED
    BY Zenon, <1>5, <2>1, LedRegistered
<1>9. QED
  BY Zenon, <1>4, <1>6, <1>7, <1>8 DEF IInv

LEMMA Looping ==
  ASSUME proc \in [Pids -> Entry], NEW p \in Pids, NEW l \in StaySteps, NEW b \in BOOLEAN,
         proc' = [proc EXCEPT ![p].at = l, ![p].over = b]
  PROVE  /\ proc' \in [Pids -> Entry] /\ \A q \in Pids \ {p} : proc'[q] = proc[q]
         /\ proc'[p].at = l /\ proc'[p].fd = proc[p].fd /\ proc'[p].found = proc[p].found
         /\ proc'[p].quiet = proc[p].quiet /\ proc'[p].child = proc[p].child
<1>1. proc[p] \in Entry
  OBVIOUS
<1>2. l \in Places
  BY DEF Places, ToolSteps
<1>3. QED
  BY <1>1, <1>2 DEF Entry

LEMMA MeasureInv == ASSUME IInv, NEW p \in Pids, Measure(p) PROVE IInv'
<1>1. /\ At(p) = "measure" /\ UNCHANGED <<files, temp>> /\ owner' = owner /\ pin' = pin /\ low' = low
      /\ calls' = calls /\ deaths' = deaths /\ faults' = faults
      /\ proc' = [proc EXCEPT ![p].at = "led", ![p].over = Over(temp, proc[p].limit)]
  BY Zenon DEF Measure, led, bounds
<1>2. proc \in [Pids -> Entry] /\ low \in BOOLEAN /\ faults \in 0..MaxFaults
  BY Zenon, Before
<1>3. "led" \in StaySteps /\ "measure" \in StaySteps
  BY DEF StaySteps
<1>4. Over(temp, proc[p].limit) \in BOOLEAN
  BY DEF Over
<1>5. /\ proc' \in [Pids -> Entry] /\ \A q \in Pids \ {p} : proc'[q] = proc[q]
      /\ proc'[p].at = "led" /\ proc'[p].fd = proc[p].fd /\ proc'[p].found = proc[p].found
      /\ proc'[p].quiet = proc[p].quiet /\ proc'[p].child = proc[p].child
  BY Zenon, <1>1, <1>2, <1>3, <1>4, Looping
<1>6. faults' >= faults /\ faults' \in 0..MaxFaults /\ low' \in BOOLEAN
  BY <1>1, <1>2
<1>7. QED
  BY <1>1, <1>3, <1>5, <1>6, RestInv

LEMMA NoSensorInv == ASSUME IInv, NEW p \in Pids, NoSensor(p) PROVE IInv'
<1>1. /\ At(p) = "measure" /\ proc' = proc /\ UNCHANGED <<files, temp>>
      /\ owner' = owner /\ pin' = pin /\ low' = low /\ faults' = faults + 1
  BY Zenon DEF NoSensor, Fault, led
<1>2. proc \in [Pids -> Entry] /\ low \in BOOLEAN /\ faults \in Nat
  BY Zenon, Before
<1>3. faults' \in 0..MaxFaults /\ calls' = calls /\ deaths' = deaths
  BY Faulty DEF NoSensor
<1>4. "measure" \in StaySteps /\ faults' >= faults
  BY <1>1, <1>2 DEF StaySteps
<1>5. QED
  BY <1>1, <1>2, <1>3, <1>4, RestInv DEF At

LEMMA IndicateInv == ASSUME IInv, NEW p \in Pids, Indicate(p) PROVE IInv'
<1>1. /\ At(p) = "led" /\ UNCHANGED <<files, temp>>
      /\ \/ Control(proc[p].over) /\ UNCHANGED bounds
         \/ UNCHANGED led /\ Fault
      /\ proc' = [proc EXCEPT ![p].at = "measure", ![p].over = FALSE]
  BY Zenon DEF Indicate
<1>2. proc \in [Pids -> Entry] /\ low \in BOOLEAN /\ faults \in 0..MaxFaults /\ faults \in Nat
  BY Zenon, Before
<1>3. "led" \in StaySteps /\ "measure" \in StaySteps
  BY DEF StaySteps
<1>4. /\ proc' \in [Pids -> Entry] /\ \A q \in Pids \ {p} : proc'[q] = proc[q]
      /\ proc'[p].at = "measure" /\ proc'[p].fd = proc[p].fd /\ proc'[p].found = proc[p].found
      /\ proc'[p].quiet = proc[p].quiet /\ proc'[p].child = proc[p].child
  BY Zenon, <1>1, <1>2, <1>3, Looping
<1>5. proc[p].over \in BOOLEAN
  BY <1>2 DEF Entry
<1>6. owner' = owner /\ pin' = pin /\ low' \in BOOLEAN
  <2>1. CASE Control(proc[p].over)
    BY <1>2, <1>5, <2>1, Controls
  <2>2. CASE UNCHANGED led
    BY <1>2, <2>2 DEF led
  <2>3. QED
    BY Zenon, <1>1, <2>1, <2>2
<1>7. /\ calls' = calls /\ deaths' = deaths /\ faults' \in 0..MaxFaults
      /\ faults' = faults \/ faults' = faults + 1
  <2>1. CASE UNCHANGED bounds
    BY <1>2, <2>1 DEF bounds
  <2>2. CASE Fault
    BY <1>2, <2>2, Faulty DEF Fault
  <2>3. QED
    BY Zenon, <1>1, <2>1, <2>2
<1>8. faults' >= faults
  BY <1>2, <1>7
<1>9. QED
  BY <1>1, <1>3, <1>4, <1>6, <1>7, <1>8, RestInv

-----------------------------------------------------------------------------
(* The pid file goes                                                       *)

LEMMA RemovedInv ==
  ASSUME IInv, NEW p \in Pids, NEW l \in {"access", "exit"},
         \/ (At(p) = "remove" /\ l = "access")
         \/ (At(p) = "unlink" /\ l = "exit"),
         Remove, Unnamed(p, l), UNCHANGED <<led, temp, bounds>>
  PROVE  IInv'
<1>1. /\ proc \in [Pids -> Entry] /\ lines \subseteq Pids /\ unlisted \subseteq Pids
      /\ ended \subseteq Pids /\ temp \in Temps
      /\ calls \in 0..MaxCalls /\ deaths \in 0..MaxDeaths
      /\ \A q \in Pids :
              /\ proc[q].at \in StaySteps => q \in lines \/ q \in unlisted
              /\ proc[q].at = "write" => proc[q].fd = "named" \/ q \in unlisted
              /\ q \in lines => proc[q].at \in Registered \/ q \in ended
              /\ \A s \in Pids : q \in proc[s].found => proc[q].at \in Registered \/ q \in ended
  BY Zenon, FilesBefore
<1>2. /\ owner \in {"none", "sysfs", "driver"} /\ pin \subseteq {"out", "active_low"}
      /\ low \in BOOLEAN /\ faults \in 0..MaxFaults /\ faults \in Nat /\ LedInv
  BY Zenon, Before
<1>3. /\ owner' = owner /\ pin' = pin /\ low' = low /\ temp' = temp
      /\ calls' = calls /\ deaths' = deaths /\ faults' = faults
  BY Zenon DEF led, bounds
<1>4. l \in Places
  BY DEF Places, ToolSteps, InitSteps, StopSteps
<1>5. /\ proc' \in [Pids -> Entry]
      /\ \A q \in Pids :
           /\ proc'[q].at = (IF q = p THEN l ELSE proc[q].at)
           /\ proc'[q].fd = (IF proc[q].fd = "named" THEN "unnamed" ELSE proc[q].fd)
           /\ proc'[q].found = proc[q].found
           /\ proc'[q].quiet = proc[q].quiet /\ proc'[q].child = proc[q].child
  BY Zenon, <1>1, <1>4, Unnaming
<1>6. /\ lines' = {}
      /\ \A q \in Pids : proc[q].at \in Registered /\ (q \in lines \/ proc[q].fd = "named") =>
           q \in unlisted'
      /\ unlisted \subseteq unlisted' /\ unlisted' \subseteq Pids
      /\ ended' \subseteq Pids
      /\ \A q \in ended, s \in Pids : q \in proc[s].found => q \in ended'
  BY <1>1 DEF Remove, Registrants, Registered, At
<1>7. TypeOK'
  <2>1. lines' \subseteq Pids
    BY <1>6
  <2>2. QED
    BY Zenon, <1>1, <1>2, <1>3, <1>5, <1>6, <2>1, Typed
<1>8. l \notin Registered /\ l \notin StaySteps /\ l # "write" /\ l \notin SetUp
      /\ proc[p].at \notin Registered
  BY DEF Registered, StaySteps, AppendSteps, At, SetUp
<1>9. FileInv'
  <2>1. StaySteps \subseteq Registered /\ "write" \in Registered
    BY DEF Registered, AppendSteps
  <2>2. ASSUME NEW q \in Pids
        PROVE  /\ proc'[q].at \in StaySteps => q \in lines' \/ q \in unlisted'
               /\ proc'[q].at = "write" => proc'[q].fd = "named" \/ q \in unlisted'
               /\ q \in lines' => proc'[q].at \in Registered \/ q \in ended'
               /\ \A s \in Pids : q \in proc'[s].found => proc'[q].at \in Registered \/ q \in ended'
    <3>1. CASE q = p
      BY <1>1, <1>5, <1>6, <1>8, <3>1
    <3>2. CASE q # p
      BY <1>1, <1>5, <1>6, <2>1, <3>2
    <3>3. QED
      BY <3>1, <3>2
  <2>3. QED
    BY Zenon, <2>2, FilesAfter
<1>10. QuietInv'
  <2>1. \A s \in Pids : proc[s].quiet =>
           /\ proc[s].at \in StopSteps
           /\ \A q \in Pids : q # s /\ proc[q].at \in ToolSteps =>
                /\ proc[q].at \in StaySteps
                /\ \/ proc[s].at = "cat" /\ q \in lines
                   \/ proc[s].at = "kill" /\ q \in proc[s].found
    BY Zenon, QuietBefore
  <2>2. proc[p].at \in ToolSteps /\ proc[p].at \notin StaySteps
    BY DEF ToolSteps, InitSteps, StopSteps, StaySteps, At
  <2>3. \A s \in Pids : proc[s].quiet => s = p
    BY <2>1, <2>2
  <2>4. CASE At(p) = "remove"
    <3>1. \A s \in Pids : ~ proc'[s].quiet
      BY <1>5, <2>1, <2>3, <2>4 DEF StopSteps, At
    <3>2. QED
      BY Zenon, <3>1, SilentQuiet
  <2>5. CASE At(p) = "unlink" /\ l = "exit"
    <3>1. "exit" \in StopSteps
      BY DEF StopSteps
    <3>2. proc[p].quiet => \A q \in Pids \ {p} : proc[q].at \notin ToolSteps
      BY <2>1, <2>5 DEF At
    <3>3. \A s \in Pids : proc'[s].quiet =>
           /\ proc'[s].at \in StopSteps
           /\ \A q \in Pids : q # s /\ proc'[q].at \in ToolSteps =>
                /\ proc'[q].at \in StaySteps
                /\ \/ proc'[s].at = "cat" /\ q \in lines'
                   \/ proc'[s].at = "kill" /\ q \in proc'[s].found
      BY <1>5, <2>3, <2>5, <3>1, <3>2
    <3>4. QED
      BY Zenon, <3>3, QuietAfter
  <2>6. QED
    BY <2>4, <2>5
<1>11. LedInv'
  <2>1. \A q \in Pids :
         \/ proc'[q].at = proc[q].at /\ proc'[q].child = proc[q].child
         \/ /\ proc'[q].at \notin SetUp
            /\ proc'[q].at \in Registered /\ proc'[q].child =>
                 proc[q].at \in Registered /\ proc[q].child
    BY <1>5, <1>8
  <2>2. QED
    BY Zenon, <1>2, <1>3, <2>1, LedKeptSame
<1>12. QED
  BY Zenon, <1>7, <1>9, <1>10, <1>11 DEF IInv

LEMMA RemoveOldInv == ASSUME IInv, NEW p \in Pids, RemoveOld(p) PROVE IInv'
<1>1. At(p) = "remove" /\ Remove /\ Unnamed(p, "access") /\ UNCHANGED <<led, temp, bounds>>
  BY Zenon DEF RemoveOld
<1>2. "access" \in {"access", "exit"}
  OBVIOUS
<1>3. QED
  BY Zenon, <1>1, <1>2, RemovedInv

LEMMA UnlinkInv == ASSUME IInv, NEW p \in Pids, Unlink(p) PROVE IInv'
<1>1. At(p) = "unlink" /\ Remove /\ Unnamed(p, "exit") /\ UNCHANGED <<led, temp, bounds>>
  BY Zenon DEF Unlink
<1>2. "exit" \in {"access", "exit"}
  OBVIOUS
<1>3. QED
  BY Zenon, <1>1, <1>2, RemovedInv

-----------------------------------------------------------------------------
(* A stop                                                                  *)

LEMMA Reading ==
  ASSUME proc \in [Pids -> Entry], NEW p \in Pids, lines \subseteq Pids,
         proc' = [proc EXCEPT ![p].at = "kill", ![p].found = lines]
  PROVE  /\ proc' \in [Pids -> Entry] /\ \A q \in Pids \ {p} : proc'[q] = proc[q]
         /\ proc'[p].at = "kill" /\ proc'[p].fd = proc[p].fd /\ proc'[p].found = lines
         /\ proc'[p].quiet = proc[p].quiet /\ proc'[p].child = proc[p].child
<1>1. proc[p] \in Entry
  OBVIOUS
<1>2. "kill" \in Places /\ lines \in SUBSET Pids
  BY DEF Places, ToolSteps, StopSteps
<1>3. QED
  BY <1>1, <1>2 DEF Entry

LEMMA NotReading ==
  ASSUME proc \in [Pids -> Entry], NEW p \in Pids,
         proc' = [proc EXCEPT ![p].at = "unlink", ![p].quiet = FALSE]
  PROVE  /\ proc' \in [Pids -> Entry] /\ \A q \in Pids \ {p} : proc'[q] = proc[q]
         /\ proc'[p].at = "unlink" /\ proc'[p].fd = proc[p].fd /\ proc'[p].found = proc[p].found
         /\ proc'[p].quiet = FALSE /\ proc'[p].child = proc[p].child
<1>1. proc[p] \in Entry
  OBVIOUS
<1>2. "unlink" \in Places
  BY DEF Places, ToolSteps, StopSteps
<1>3. QED
  BY <1>1, <1>2 DEF Entry

LEMMA CatInv == ASSUME IInv, NEW p \in Pids, Cat(p) PROVE IInv'
<1>1. /\ At(p) = "cat" /\ lines' = lines /\ unlisted' = unlisted /\ ended' = ended
      /\ owner' = owner /\ pin' = pin /\ low' = low /\ temp' = temp
      /\ \/ /\ proc' = [proc EXCEPT ![p].at = "kill", ![p].found = lines]
            /\ calls' = calls /\ deaths' = deaths /\ faults' = faults
         \/ proc' = [proc EXCEPT ![p].at = "unlink", ![p].quiet = FALSE] /\ Fault
  BY Zenon DEF Cat, Found, files, led, bounds
<1>2. /\ proc \in [Pids -> Entry] /\ lines \subseteq Pids /\ unlisted \subseteq Pids
      /\ ended \subseteq Pids /\ temp \in Temps
      /\ calls \in 0..MaxCalls /\ deaths \in 0..MaxDeaths
      /\ \A q \in Pids :
              /\ proc[q].at \in StaySteps => q \in lines \/ q \in unlisted
              /\ proc[q].at = "write" => proc[q].fd = "named" \/ q \in unlisted
              /\ q \in lines => proc[q].at \in Registered \/ q \in ended
              /\ \A s \in Pids : q \in proc[s].found => proc[q].at \in Registered \/ q \in ended
  BY Zenon, FilesBefore
<1>3. /\ owner \in {"none", "sysfs", "driver"} /\ pin \subseteq {"out", "active_low"}
      /\ low \in BOOLEAN /\ faults \in 0..MaxFaults /\ faults \in Nat /\ LedInv
  BY Zenon, Before
<1>4. \A s \in Pids : proc[s].quiet =>
           /\ proc[s].at \in StopSteps
           /\ \A q \in Pids : q # s /\ proc[q].at \in ToolSteps =>
                /\ proc[q].at \in StaySteps
                /\ \/ proc[s].at = "cat" /\ q \in lines
                   \/ proc[s].at = "kill" /\ q \in proc[s].found
  BY Zenon, QuietBefore
<1>5. /\ proc[p].at = "cat" /\ proc[p].at \in ToolSteps /\ proc[p].at \notin StaySteps
      /\ proc[p].at \notin Registered
      /\ {"kill", "unlink"} \intersect (Registered \union StaySteps \union SetUp \union {"write"}) = {}
      /\ "kill" \in StopSteps
  BY <1>1 DEF ToolSteps, StopSteps, StaySteps, Registered, AppendSteps, SetUp, At
<1>6. \A s \in Pids : proc[s].quiet => s = p
  BY <1>4, <1>5
<1>7. CASE /\ proc' = [proc EXCEPT ![p].at = "kill", ![p].found = lines]
           /\ calls' = calls /\ deaths' = deaths /\ faults' = faults
  <2>1. /\ proc' \in [Pids -> Entry] /\ \A q \in Pids \ {p} : proc'[q] = proc[q]
        /\ proc'[p].at = "kill" /\ proc'[p].fd = proc[p].fd /\ proc'[p].found = lines
        /\ proc'[p].quiet = proc[p].quiet /\ proc'[p].child = proc[p].child
    BY Zenon, <1>2, <1>7, Reading
  <2>2. TypeOK'
    BY Zenon, <1>1, <1>2, <1>3, <1>7, <2>1, Typed
  <2>3. FileInv'
    <3>1. \A s \in Pids : proc'[s].found = (IF s = p THEN lines ELSE proc[s].found)
      BY <2>1
    <3>2. \A q \in Pids :
               /\ proc'[q].at \in StaySteps => q \in lines' \/ q \in unlisted'
               /\ proc'[q].at = "write" => proc'[q].fd = "named" \/ q \in unlisted'
               /\ q \in lines' => proc'[q].at \in Registered \/ q \in ended'
               /\ \A s \in Pids : q \in proc'[s].found => proc'[q].at \in Registered \/ q \in ended'
      BY <1>1, <1>2, <1>5, <2>1, <3>1
    <3>3. QED
      BY Zenon, <3>2, FilesAfter
  <2>4. QuietInv'
    <3>1. \A s \in Pids : proc'[s].quiet =>
           /\ proc'[s].at \in StopSteps
           /\ \A q \in Pids : q # s /\ proc'[q].at \in ToolSteps =>
                /\ proc'[q].at \in StaySteps
                /\ \/ proc'[s].at = "cat" /\ q \in lines'
                   \/ proc'[s].at = "kill" /\ q \in proc'[s].found
      BY <1>4, <1>5, <1>6, <2>1
    <3>2. QED
      BY Zenon, <3>1, QuietAfter
  <2>5. LedInv'
    <3>1. \A q \in Pids :
           \/ proc'[q].at = proc[q].at /\ proc'[q].child = proc[q].child
           \/ /\ proc'[q].at \notin SetUp
              /\ proc'[q].at \in Registered /\ proc'[q].child =>
                   proc[q].at \in Registered /\ proc[q].child
      BY <1>5, <2>1
    <3>2. QED
      BY Zenon, <1>1, <1>3, <1>7, <3>1, LedKeptSame
  <2>6. QED
    BY Zenon, <2>2, <2>3, <2>4, <2>5 DEF IInv
<1>8. CASE proc' = [proc EXCEPT ![p].at = "unlink", ![p].quiet = FALSE] /\ Fault
  <2>1. /\ proc' \in [Pids -> Entry] /\ \A q \in Pids \ {p} : proc'[q] = proc[q]
        /\ proc'[p].at = "unlink" /\ proc'[p].fd = proc[p].fd /\ proc'[p].found = proc[p].found
        /\ proc'[p].quiet = FALSE /\ proc'[p].child = proc[p].child
    BY Zenon, <1>2, <1>8, NotReading
  <2>2. /\ faults' \in 0..MaxFaults /\ calls' = calls /\ deaths' = deaths /\ LedInv'
    BY <1>8, Faulty
  <2>3. TypeOK'
    BY Zenon, <1>1, <1>2, <1>3, <2>1, <2>2, Typed
  <2>4. FileInv'
    <3>1. FileInv /\ At(p) \notin Registered /\ proc'[p].at \notin Registered
          /\ proc'[p].found \subseteq proc[p].found
      BY Kept, <1>5, <2>1 DEF At
    <3>2. QED
      BY Zenon, <1>1, <2>1, <3>1, PassFile
  <2>5. \A s \in Pids : ~ proc'[s].quiet
    BY <1>6, <2>1
  <2>6. QED
    BY Zenon, <2>2, <2>3, <2>4, <2>5, SilentQuiet DEF IInv
<1>9. QED
  BY Zenon, <1>1, <1>7, <1>8

LEMMA ExitInv == ASSUME IInv, NEW p \in Pids, Exit(p) PROVE IInv'
<1>1. /\ At(p) = "exit" /\ Becomes(p, Nobody)
      /\ lines' = lines /\ unlisted' = unlisted /\ ended' = ended /\ temp' = temp
      /\ owner' = owner /\ pin' = pin /\ low' = low
      /\ calls' = calls /\ deaths' = deaths /\ faults' = faults
  BY Zenon DEF Exit, files, led, bounds
<1>2. /\ proc \in [Pids -> Entry] /\ lines \subseteq Pids /\ unlisted \subseteq Pids
      /\ ended \subseteq Pids /\ temp \in Temps
      /\ calls \in 0..MaxCalls /\ deaths \in 0..MaxDeaths
  BY Zenon, FilesBefore
<1>3. /\ owner \in {"none", "sysfs", "driver"} /\ pin \subseteq {"out", "active_low"}
      /\ low \in BOOLEAN /\ faults \in 0..MaxFaults /\ faults \in Nat /\ LedInv
  BY Zenon, Before
<1>4. /\ proc' \in [Pids -> Entry] /\ \A q \in Pids \ {p} : proc'[q] = proc[q]
      /\ proc'[p] = Nobody
  BY Zenon, <1>1, <1>2, NobodyType, Becoming
<1>5. Nobody.at = "none" /\ Nobody.found = {} /\ Nobody.quiet = FALSE
  BY DEF Nobody
<1>6. TypeOK'
  BY Zenon, <1>1, <1>2, <1>3, <1>4, Typed
<1>7. FileInv'
  <2>1. FileInv /\ At(p) \notin Registered /\ proc'[p].at \notin Registered
        /\ proc'[p].found \subseteq proc[p].found
    BY Kept, <1>1, <1>4, <1>5 DEF Registered, AppendSteps, StaySteps
  <2>2. QED
    BY Zenon, <1>1, <1>4, <2>1, PassFile
<1>8. \A s \in Pids : ~ proc'[s].quiet
  <2>1. QuietInv /\ At(p) \in ToolSteps \ StaySteps
    BY <1>1, Kept DEF ToolSteps, StopSteps, StaySteps
  <2>2. \A s \in Pids : proc[s].quiet => s = p
    BY <2>1, Alone
  <2>3. QED
    BY <1>4, <1>5, <2>2
<1>9. LedInv'
  <2>1. \A q \in Pids :
         \/ proc'[q].at = proc[q].at /\ proc'[q].child = proc[q].child
         \/ /\ proc'[q].at \notin SetUp
            /\ proc'[q].at \in Registered /\ proc'[q].child =>
                 proc[q].at \in Registered /\ proc[q].child
    BY <1>4, <1>5 DEF SetUp, Registered, AppendSteps, StaySteps
  <2>2. QED
    BY Zenon, <1>1, <1>3, <2>1, LedKeptSame
<1>10. QED
  BY Zenon, <1>6, <1>7, <1>8, <1>9, SilentQuiet DEF IInv

(* Processes P are gone; p, the stop that killed them, may go on at l.      *)
LEMMA KilledInv ==
  ASSUME IInv, NEW P, Killed(P),
         UNCHANGED <<lines, unlisted, temp, calls, faults>>, deaths' \in 0..MaxDeaths,
         proc' \in [Pids -> Entry],
         \A q \in Pids :
           \/ /\ q \in P \/ proc[q].at = "kill"
              /\ proc'[q].at \notin Registered \union SetUp /\ proc'[q].found = {}
           \/ /\ q \notin P
              /\ proc'[q].at = proc[q].at /\ proc'[q].fd = proc[q].fd
              /\ proc'[q].found = proc[q].found /\ proc'[q].child = proc[q].child,
         QuietInv'
  PROVE  IInv'
<1>1. /\ proc \in [Pids -> Entry] /\ lines \subseteq Pids /\ unlisted \subseteq Pids
      /\ ended \subseteq Pids /\ temp \in Temps
      /\ calls \in 0..MaxCalls /\ deaths \in 0..MaxDeaths
      /\ \A q \in Pids :
              /\ proc[q].at \in StaySteps => q \in lines \/ q \in unlisted
              /\ proc[q].at = "write" => proc[q].fd = "named" \/ q \in unlisted
              /\ q \in lines => proc[q].at \in Registered \/ q \in ended
              /\ \A s \in Pids : q \in proc[s].found => proc[q].at \in Registered \/ q \in ended
  BY Zenon, FilesBefore
<1>2. /\ owner \in {"none", "sysfs", "driver"} /\ pin \subseteq {"out", "active_low"}
      /\ low \in BOOLEAN /\ faults \in 0..MaxFaults /\ faults \in Nat /\ LedInv
  BY Zenon, Before
<1>3. /\ lines' = lines /\ unlisted' = unlisted /\ temp' = temp /\ calls' = calls /\ faults' = faults
      /\ owner' = owner /\ pin' = pin /\ low' = low
      /\ ended' = ended \union (P \intersect Registrants)
  BY Zenon DEF Killed, led
<1>4. /\ ended \subseteq ended' /\ ended' \subseteq Pids
      /\ \A q \in P \intersect Pids : proc[q].at \in Registered => q \in ended'
  BY <1>1, <1>3 DEF Registrants, Registered, At
<1>5. TypeOK'
  BY Zenon, <1>1, <1>2, <1>3, <1>4, Typed
<1>6. "kill" \notin Registered /\ StaySteps \subseteq Registered /\ "write" \in Registered
  BY DEF Registered, AppendSteps, StaySteps
<1>7. FileInv'
  <2>1. \A s \in Pids : proc'[s].found \subseteq proc[s].found
    OBVIOUS
  <2>2. ASSUME NEW q \in Pids
        PROVE  /\ proc'[q].at \in StaySteps => q \in lines' \/ q \in unlisted'
               /\ proc'[q].at = "write" => proc'[q].fd = "named" \/ q \in unlisted'
               /\ q \in lines' => proc'[q].at \in Registered \/ q \in ended'
               /\ \A s \in Pids : q \in proc'[s].found => proc'[q].at \in Registered \/ q \in ended'
    <3>1. CASE /\ q \in P \/ proc[q].at = "kill"
               /\ proc'[q].at \notin Registered \union SetUp /\ proc'[q].found = {}
      BY <1>1, <1>3, <1>4, <1>6, <2>1, <3>1
    <3>2. CASE /\ q \notin P
               /\ proc'[q].at = proc[q].at /\ proc'[q].fd = proc[q].fd
               /\ proc'[q].found = proc[q].found /\ proc'[q].child = proc[q].child
      BY <1>1, <1>3, <1>4, <2>1, <3>2
    <3>3. QED
      BY <3>1, <3>2
  <2>3. QED
    BY Zenon, <2>2, FilesAfter
<1>8. LedInv'
  <2>1. \A q \in Pids :
         \/ proc'[q].at = proc[q].at /\ proc'[q].child = proc[q].child
         \/ /\ proc'[q].at \notin SetUp
            /\ proc'[q].at \in Registered /\ proc'[q].child =>
                 proc[q].at \in Registered /\ proc[q].child
    OBVIOUS
  <2>2. QED
    BY Zenon, <1>2, <1>3, <2>1, LedKeptSame
<1>9. QED
  BY Zenon, <1>5, <1>7, <1>8 DEF IInv

LEMMA Emptied ==
  ASSUME NEW table \in [Pids -> Entry], NEW p \in Pids,
         proc' = [table EXCEPT ![p].at = "unlink", ![p].found = {}]
  PROVE  /\ proc' \in [Pids -> Entry] /\ \A q \in Pids \ {p} : proc'[q] = table[q]
         /\ proc'[p].at = "unlink" /\ proc'[p].found = {} /\ proc'[p].quiet = table[p].quiet
<1>1. table[p] \in Entry
  OBVIOUS
<1>2. "unlink" \in Places /\ {} \in SUBSET Pids
  BY DEF Places, ToolSteps, StopSteps
<1>3. QED
  BY <1>1, <1>2 DEF Entry

LEMMA KillInv == ASSUME IInv, NEW p \in Pids, Kill(p) PROVE IInv'
<1> DEFINE P == proc[p].found
           table == Without(P)
<1>1. /\ At(p) = "kill" /\ Killed(P) /\ UNCHANGED <<lines, unlisted, temp, calls, faults>>
      /\ deaths' = deaths
      /\ \/ p \in P /\ proc' = table
         \/ p \notin P /\ proc' = [table EXCEPT ![p].at = "unlink", ![p].found = {}]
  BY Zenon DEF Kill, bounds
<1>2. proc \in [Pids -> Entry] /\ deaths \in 0..MaxDeaths
  BY Zenon, FilesBefore
<1>3. /\ table \in [Pids -> Entry]
      /\ \A q \in Pids : Thinned(table[q], proc[q], q \in P)
  BY Zenon, <1>2, Losing
<1>4. \A s \in Pids : proc[s].quiet =>
           /\ proc[s].at \in StopSteps
           /\ \A q \in Pids : q # s /\ proc[q].at \in ToolSteps =>
                /\ proc[q].at \in StaySteps
                /\ \/ proc[s].at = "cat" /\ q \in lines
                   \/ proc[s].at = "kill" /\ q \in proc[s].found
  BY Zenon, QuietBefore
<1>5. /\ proc[p].at = "kill" /\ proc[p].at \in ToolSteps /\ proc[p].at \notin StaySteps
      /\ {"none", "unlink"} \intersect (Registered \union SetUp) = {} /\ "none" \notin ToolSteps
      /\ "unlink" \in StopSteps
  BY <1>1 DEF At, ToolSteps, InitSteps, StopSteps, AppendSteps, StaySteps, Registered, SetUp
<1>6. \A s \in Pids : proc[s].quiet => s = p
  BY <1>4, <1>5
<1> HIDE DEF table, P
<1>7. CASE p \in P /\ proc' = table
  <2>1. \A s \in Pids : ~ proc'[s].quiet
    BY <1>3, <1>6, <1>7 DEF Thinned
  <2>2. \A q \in Pids :
           \/ /\ q \in P \/ proc[q].at = "kill"
              /\ proc'[q].at \notin Registered \union SetUp /\ proc'[q].found = {}
           \/ /\ q \notin P
              /\ proc'[q].at = proc[q].at /\ proc'[q].fd = proc[q].fd
              /\ proc'[q].found = proc[q].found /\ proc'[q].child = proc[q].child
    BY <1>3, <1>5, <1>7 DEF Thinned
  <2>3. QuietInv' /\ deaths' \in 0..MaxDeaths /\ proc' \in [Pids -> Entry]
    BY Zenon, <1>1, <1>2, <1>3, <1>7, <2>1, SilentQuiet
  <2>4. QED
    BY Zenon, <1>1, <2>2, <2>3, KilledInv
<1>8. CASE p \notin P /\ proc' = [table EXCEPT ![p].at = "unlink", ![p].found = {}]
  <2>1. /\ proc' \in [Pids -> Entry] /\ \A q \in Pids \ {p} : proc'[q] = table[q]
        /\ proc'[p].at = "unlink" /\ proc'[p].found = {} /\ proc'[p].quiet = table[p].quiet
    BY Zenon, <1>3, <1>8, Emptied
  <2>2. \A q \in Pids :
           \/ /\ q \in P \/ proc[q].at = "kill"
              /\ proc'[q].at \notin Registered \union SetUp /\ proc'[q].found = {}
           \/ /\ q \notin P
              /\ proc'[q].at = proc[q].at /\ proc'[q].fd = proc[q].fd
              /\ proc'[q].found = proc[q].found /\ proc'[q].child = proc[q].child
    BY <1>3, <1>5, <2>1 DEF Thinned
  <2>3. proc[p].quiet => \A q \in Pids \ {p} : proc[q].at \in ToolSteps => q \in P
    BY <1>4, <1>5 DEF P
  <2>4. \A s \in Pids : proc'[s].quiet =>
           /\ proc'[s].at \in StopSteps
           /\ \A q \in Pids : q # s /\ proc'[q].at \in ToolSteps =>
                /\ proc'[q].at \in StaySteps
                /\ \/ proc'[s].at = "cat" /\ q \in lines'
                   \/ proc'[s].at = "kill" /\ q \in proc'[s].found
    <3> SUFFICES ASSUME NEW s \in Pids, proc'[s].quiet
                 PROVE  /\ proc'[s].at \in StopSteps
                        /\ \A q \in Pids \ {s} : proc'[q].at \notin ToolSteps
      BY Zenon
    <3>1. s = p /\ proc[p].quiet
      BY <1>3, <1>6, <2>1 DEF Thinned
    <3>2. ASSUME NEW q \in Pids \ {s} PROVE proc'[q].at \notin ToolSteps
      <4>1. proc'[q] = table[q]
        BY <2>1, <3>1
      <4>2. CASE q \in P
        BY <1>3, <1>5, <4>1, <4>2 DEF Thinned
      <4>3. CASE q \notin P
        <5>1. proc[q].at \notin ToolSteps
          BY <2>3, <3>1, <4>3
        <5>2. QED
          BY <1>3, <4>1, <4>3, <5>1 DEF Thinned
      <4>4. QED
        BY <4>2, <4>3
    <3>3. QED
      BY <1>5, <2>1, <3>1, <3>2
  <2>5. QuietInv' /\ deaths' \in 0..MaxDeaths
    BY Zenon, <1>1, <1>2, <2>4, QuietAfter
  <2>6. QED
    BY Zenon, <1>1, <2>1, <2>2, <2>5, KilledInv
<1>9. QED
  BY Zenon, <1>1, <1>7, <1>8

LEMMA DeathInv == ASSUME IInv, NEW p \in Pids, Death(p) PROVE IInv'
<1>1. /\ p \in Tools /\ Killed({p}) /\ UNCHANGED <<lines, unlisted, temp, calls, faults>>
      /\ lines' = lines /\ deaths < MaxDeaths /\ deaths' = deaths + 1 /\ proc' = Without({p})
  BY Zenon DEF Death
<1>2. proc \in [Pids -> Entry] /\ deaths \in 0..MaxDeaths
  BY Zenon, FilesBefore
<1>3. /\ proc' \in [Pids -> Entry]
      /\ \A q \in Pids : Thinned(proc'[q], proc[q], q \in {p})
  BY Zenon, <1>1, <1>2, Losing
<1>4. \A s \in Pids : proc[s].quiet =>
           /\ proc[s].at \in StopSteps
           /\ \A q \in Pids : q # s /\ proc[q].at \in ToolSteps =>
                /\ proc[q].at \in StaySteps
                /\ \/ proc[s].at = "cat" /\ q \in lines
                   \/ proc[s].at = "kill" /\ q \in proc[s].found
  BY Zenon, QuietBefore
<1>5. "none" \notin ToolSteps /\ "none" \notin Registered \union SetUp
  BY DEF ToolSteps, InitSteps, StopSteps, AppendSteps, StaySteps, Registered, SetUp
<1>6. \A q \in Pids :
           \/ /\ q \in {p} \/ proc[q].at = "kill"
              /\ proc'[q].at \notin Registered \union SetUp /\ proc'[q].found = {}
           \/ /\ q \notin {p}
              /\ proc'[q].at = proc[q].at /\ proc'[q].fd = proc[q].fd
              /\ proc'[q].found = proc[q].found /\ proc'[q].child = proc[q].child
  BY <1>3, <1>5 DEF Thinned
<1>7. \A s \in Pids : proc'[s].quiet =>
           /\ proc'[s].at \in StopSteps
           /\ \A q \in Pids : q # s /\ proc'[q].at \in ToolSteps =>
                /\ proc'[q].at \in StaySteps
                /\ \/ proc'[s].at = "cat" /\ q \in lines'
                   \/ proc'[s].at = "kill" /\ q \in proc'[s].found
  <2> SUFFICES ASSUME NEW s \in Pids, proc'[s].quiet
               PROVE  /\ proc'[s].at \in StopSteps
                      /\ \A q \in Pids : q # s /\ proc'[q].at \in ToolSteps =>
                           /\ proc'[q].at \in StaySteps
                           /\ \/ proc'[s].at = "cat" /\ q \in lines'
                              \/ proc'[s].at = "kill" /\ q \in proc'[s].found
    BY Zenon
  <2>1. /\ s # p /\ proc[s].quiet /\ proc'[s].at = proc[s].at
        /\ proc'[s].found = proc[s].found
    BY <1>3 DEF Thinned
  <2>2. lines' = lines
    BY Zenon, <1>1
  <2>3. ASSUME NEW q \in Pids, q # s, proc'[q].at \in ToolSteps
        PROVE  /\ proc'[q].at \in StaySteps
               /\ \/ proc'[s].at = "cat" /\ q \in lines'
                  \/ proc'[s].at = "kill" /\ q \in proc'[s].found
    <3>1. proc'[q].at = proc[q].at
      BY <1>3, <1>5, <2>3 DEF Thinned
    <3>2. QED
      BY <1>4, <2>1, <2>2, <2>3, <3>1
  <2>4. QED
    BY <1>4, <2>1, <2>3
<1>8. deaths' \in 0..MaxDeaths
  BY <1>1, <1>2, Bounds
<1>9. QuietInv'
  BY Zenon, <1>7, QuietAfter
<1>10. QED
  BY Zenon, <1>1, <1>3, <1>6, <1>8, <1>9, KilledInv

-----------------------------------------------------------------------------
(* The world                                                               *)

LEMMA StrangerInv == ASSUME IInv, NEW p \in Pids, Stranger(p) PROVE IInv'
<1> DEFINE rec == [Nobody EXCEPT !.at = "other"]
<1>1. /\ p \in Free /\ Becomes(p, rec)
      /\ lines' = lines /\ unlisted' = unlisted /\ ended' = ended /\ temp' = temp
      /\ owner' = owner /\ pin' = pin /\ low' = low
      /\ calls' = calls /\ deaths' = deaths /\ faults' = faults
  BY Zenon DEF Stranger, files, led, bounds
<1>2. /\ proc \in [Pids -> Entry] /\ lines \subseteq Pids /\ unlisted \subseteq Pids
      /\ ended \subseteq Pids /\ temp \in Temps
      /\ calls \in 0..MaxCalls /\ deaths \in 0..MaxDeaths
  BY Zenon, FilesBefore
<1>3. /\ owner \in {"none", "sysfs", "driver"} /\ pin \subseteq {"out", "active_low"}
      /\ low \in BOOLEAN /\ faults \in 0..MaxFaults /\ faults \in Nat /\ LedInv
  BY Zenon, Before
<1>4. rec \in Entry /\ rec.at = "other" /\ rec.found = {} /\ rec.quiet = FALSE
  BY NobodyType DEF Entry, Nobody, Places
<1> HIDE DEF rec
<1>5. /\ proc' \in [Pids -> Entry] /\ \A q \in Pids \ {p} : proc'[q] = proc[q]
      /\ proc'[p] = rec
  BY Zenon, <1>1, <1>2, <1>4, Becoming
<1>6. TypeOK'
  BY Zenon, <1>1, <1>2, <1>3, <1>5, Typed
<1>7. /\ FileInv /\ At(p) \notin Registered /\ proc'[p].at \notin Registered
      /\ proc'[p].found \subseteq proc[p].found /\ proc'[p].at \notin SetUp
      /\ proc'[p].at \notin ToolSteps
  BY Kept, <1>1, <1>4, <1>5
     DEF Free, Registered, AppendSteps, StaySteps, SetUp, ToolSteps, InitSteps, StopSteps
<1>8. FileInv'
  BY Zenon, <1>1, <1>5, <1>7, PassFile
<1>9. QuietInv'
  <2>1. \A s \in Pids : proc[s].quiet =>
           /\ proc[s].at \in StopSteps
           /\ \A q \in Pids : q # s /\ proc[q].at \in ToolSteps =>
                /\ proc[q].at \in StaySteps
                /\ \/ proc[s].at = "cat" /\ q \in lines
                   \/ proc[s].at = "kill" /\ q \in proc[s].found
    BY Zenon, QuietBefore
  <2>2. \A s \in Pids : proc'[s].quiet =>
           /\ proc'[s].at \in StopSteps
           /\ \A q \in Pids : q # s /\ proc'[q].at \in ToolSteps =>
                /\ proc'[q].at \in StaySteps
                /\ \/ proc'[s].at = "cat" /\ q \in lines'
                   \/ proc'[s].at = "kill" /\ q \in proc'[s].found
    <3>1. ~ proc'[p].quiet /\ lines' = lines
      BY <1>1, <1>4, <1>5
    <3>2. QED
      BY <1>5, <1>7, <2>1, <3>1
  <2>3. QED
    BY Zenon, <2>2, QuietAfter
<1>10. LedInv'
  <2>1. \A q \in Pids :
         \/ proc'[q].at = proc[q].at /\ proc'[q].child = proc[q].child
         \/ /\ proc'[q].at \notin SetUp
            /\ proc'[q].at \in Registered /\ proc'[q].child =>
                 proc[q].at \in Registered /\ proc[q].child
    BY <1>5, <1>7
  <2>2. QED
    BY Zenon, <1>1, <1>3, <2>1, LedKeptSame
<1>11. QED
  BY Zenon, <1>6, <1>8, <1>9, <1>10 DEF IInv

(* Only the temperature changes, or nothing.                                *)
LEMMA WeatherInv ==
  ASSUME IInv, temp' \in Temps, UNCHANGED <<proc, files, led, bounds>>
  PROVE  IInv'
<1>1. /\ proc' = proc /\ lines' = lines /\ unlisted' = unlisted /\ ended' = ended
      /\ owner' = owner /\ pin' = pin /\ low' = low
      /\ calls' = calls /\ deaths' = deaths /\ faults' = faults
  BY Zenon DEF files, led, bounds
<1>2. TypeOK'
  BY Zenon, <1>1, FilesBefore, Before, Typed
<1>3. FileInv /\ QuietInv /\ LedInv
  BY Kept
<1>4. FileInv'
  BY Zenon, <1>1, <1>3 DEF FileInv, At
<1>5. QuietInv'
  BY Zenon, <1>1, <1>3 DEF QuietInv, At
<1>6. LedInv'
  BY Zenon, <1>1, <1>3 DEF LedInv, At
<1>7. QED
  BY Zenon, <1>2, <1>4, <1>5, <1>6 DEF IInv

LEMMA InitInv == Init => IInv
<1> SUFFICES ASSUME Init PROVE IInv
  OBVIOUS
<1>1. /\ proc = [p \in Pids |-> Nobody] /\ lines = {} /\ owner \in Owners /\ pin = {}
      /\ low \in BOOLEAN /\ temp \in Temps /\ calls = 0 /\ deaths = 0 /\ faults = 0
      /\ unlisted = {} /\ ended = {}
  BY Zenon DEF Init
<1>2. proc \in [Pids -> Entry] /\ \A p \in Pids : proc[p] = Nobody
  BY <1>1, NobodyType
<1>3. Nobody.at = "none" /\ Nobody.found = {} /\ Nobody.quiet = FALSE
  BY DEF Nobody
<1>4. TypeOK
  <2>1. owner \in {"none", "sysfs", "driver"}
    BY <1>1, MonAssumption
  <2>2. 0 \in 0..MaxCalls /\ 0 \in 0..MaxDeaths /\ 0 \in 0..MaxFaults
    BY Bounds
  <2>3. pin \subseteq {"out", "active_low"} /\ {} \subseteq Pids
    BY <1>1
  <2>4. QED
    BY Zenon, <1>1, <1>2, <2>1, <2>2, <2>3 DEF TypeOK, Entry, Places
<1>5. FileInv
  BY <1>1, <1>2, <1>3 DEF FileInv, At, StaySteps
<1>6. QuietInv
  BY <1>2, <1>3 DEF QuietInv
<1>7. LedInv
  BY <1>2, <1>3 DEF LedInv, At, Registered, AppendSteps, StaySteps
<1>8. QED
  BY Zenon, <1>4, <1>5, <1>6, <1>7 DEF IInv

-----------------------------------------------------------------------------
(* The theorems                                                            *)

LEMMA StepInv == IInv /\ [Next]_vars => IInv'
<1> SUFFICES ASSUME IInv, [Next]_vars PROVE IInv'
  OBVIOUS
<1>1. ASSUME NEW p \in Pids, Step(p) PROVE IInv'
  <2>1. CASE RemoveOld(p)
    BY <2>1, RemoveOldInv
  <2>2. CASE Access(p)
    BY <2>2, AccessInv
  <2>3. CASE Check(p)
    BY <2>3, CheckInv
  <2>4. CASE Export(p)
    BY <2>4, ExportInv
  <2>5. CASE Direction(p)
    BY <2>5, DirectionInv
  <2>6. CASE ActiveLow(p)
    BY <2>6, ActiveLowInv
  <2>7. CASE Dark(p)
    BY <2>7, DarkInv
  <2>8. CASE Fork(p)
    BY <2>8, ForkInv
  <2>9. CASE Leave(p)
    BY <2>9, LeaveInv
  <2>10. CASE Open(p)
    BY <2>10, OpenInv
  <2>11. CASE Write(p)
    BY <2>11, WriteInv
  <2>12. CASE Measure(p)
    BY <2>12, MeasureInv
  <2>13. CASE Indicate(p)
    BY <2>13, IndicateInv
  <2>14. CASE Cat(p)
    BY <2>14, CatInv
  <2>15. CASE Kill(p)
    BY <2>15, KillInv
  <2>16. CASE Unlink(p)
    BY <2>16, UnlinkInv
  <2>17. CASE Exit(p)
    BY <2>17, ExitInv
  <2>18. QED
    BY Zenon, <1>1, <2>1, <2>2, <2>3, <2>4, <2>5, <2>6, <2>7, <2>8, <2>9, <2>10, <2>11, <2>12,
       <2>13, <2>14, <2>15, <2>16, <2>17 DEF Step
<1>2. ASSUME NEW p \in Pids, Start(p) PROVE IInv'
  BY <1>2, StartInv
<1>3. ASSUME NEW p \in Pids, Stop(p) PROVE IInv'
  BY <1>3, StopInv
<1>4. ASSUME NEW p \in Pids, NoSensor(p) PROVE IInv'
  BY <1>4, NoSensorInv
<1>5. ASSUME NEW p \in Pids, Death(p) PROVE IInv'
  BY <1>5, DeathInv
<1>6. ASSUME NEW p \in Pids, Stranger(p) PROVE IInv'
  BY <1>6, StrangerInv
<1>7. CASE Weather
  <2>1. temp' \in Temps /\ UNCHANGED <<proc, files, led, bounds>>
    BY <1>7 DEF Weather
  <2>2. QED
    BY <2>1, WeatherInv
<1>8. CASE UNCHANGED vars
  <2>1. temp \in Temps
    BY Zenon, FilesBefore
  <2>2. temp' \in Temps /\ UNCHANGED <<proc, files, led, bounds>>
    BY <1>8, <2>1 DEF vars
  <2>3. QED
    BY <2>2, WeatherInv
<1>9. QED
  BY Zenon, <1>1, <1>2, <1>3, <1>4, <1>5, <1>6, <1>7, <1>8 DEF Next

LEMMA AlwaysInv == Spec => []IInv
<1>1. QED
  BY InitInv, StepInv, PTL DEF Spec

(* Every variable stays in its type, for any processes and any number of    *)
(* calls, deaths and faults.                                                *)
THEOREM TypeCorrect == Spec => []TypeOK
<1>1. IInv => TypeOK
  BY Zenon DEF IInv
<1>2. QED
  BY <1>1, AlwaysInv, PTL

(* However many starts append to the pid file at the same time, whoever has *)
(* come to rest has its line, unless the file was removed or refused.       *)
THEOREM RestingAreListed == Spec => []SettledListed
<1>1. IInv => SettledListed
  BY Kept DEF FileInv, SettledListed, Settled
<1>2. QED
  BY <1>1, AlwaysInv, PTL

(* No stop, however late it reads and kills, is going to kill a pid that    *)
(* was never that of a monitor or its foreground parent.                    *)
THEOREM OnlyMonitorsAreKilled == Spec => []OnlyMonitorsListed
<1>1. IInv => OnlyMonitorsListed
  <2> SUFFICES ASSUME IInv PROVE OnlyMonitorsListed
    OBVIOUS
  <2>1. /\ proc \in [Pids -> Entry] /\ lines \subseteq Pids
        /\ \A q \in Pids :
              /\ q \in lines => proc[q].at \in Registered \/ q \in ended
              /\ \A s \in Pids : q \in proc[s].found => proc[q].at \in Registered \/ q \in ended
    BY Zenon, FilesBefore
  <2>2. \A s \in Pids : proc[s].found \subseteq Pids
    BY <2>1 DEF Entry
  <2>3. ASSUME NEW q \in lines \union UNION {proc[s].found : s \in Pids}
        PROVE  q \in Registrants \union ended
    <3>1. q \in Pids /\ (q \in lines \/ \E s \in Pids : q \in proc[s].found)
      BY <2>1, <2>2
    <3>2. QED
      BY <2>1, <3>1 DEF Registrants, Registered, At
  <2>4. QED
    BY Zenon, <2>3 DEF OnlyMonitorsListed
<1>2. QED
  BY <1>1, AlwaysInv, PTL

(* However many instances run, a stop that met them at rest and listed, and *)
(* was not disturbed by another call, has ended them all when it is over.   *)
THEOREM QuietStopsStop == Spec => []QuietStopStops
<1>1. IInv => QuietStopStops
  <2> SUFFICES ASSUME IInv, NEW p \in Pids, At(p) = "exit", proc[p].quiet PROVE Tools = {p}
    BY Zenon DEF QuietStopStops
  <2>1. QuietInv
    BY Kept
  <2>2. \A q \in Pids : q # p => At(q) \notin ToolSteps
    BY <2>1 DEF QuietInv
  <2>3. At(p) \in ToolSteps
    BY DEF ToolSteps, StopSteps
  <2>4. QED
    BY <2>2, <2>3 DEF Tools
<1>2. QED
  BY <1>1, AlwaysInv, PTL

(* A monitor measures only with an LED that is set up, whatever other       *)
(* starts do to the pin meanwhile.                                          *)
THEOREM LedIsReady == Spec => []LedReady
<1>1. IInv => LedReady
  <2> SUFFICES ASSUME IInv, NEW m \in Monitors
               PROVE  \/ owner = "sysfs" /\ pin = {"out", "active_low"}
                      \/ faults > 0 \/ owner = "driver"
    BY Zenon DEF LedReady
  <2>1. LedInv /\ pin \subseteq {"out", "active_low"}
    BY Zenon, Before
  <2>2. m \in Pids /\ At(m) \in Registered /\ proc[m].child
    BY DEF Monitors, Registrants, Registered
  <2>3. \/ faults > 0 \/ owner = "driver"
        \/ owner = "sysfs" /\ "out" \in pin /\ "active_low" \in pin
    BY <2>1, <2>2 DEF LedInv
  <2>4. QED
    BY <2>1, <2>3
<1>2. QED
  BY <1>1, AlwaysInv, PTL
=============================================================================
