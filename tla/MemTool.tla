------------------------------ MODULE MemTool ------------------------------
(***************************************************************************)
(* The physical memory tool (srcs/memtool/memtool.c): what parse_cmdline   *)
(* makes of the command line, how main maps the memory in 32-bit           *)
(* arithmetic, and the accesses to it.                                     *)
(*                                                                         *)
(* An argument is what the program finds out about it: the size option it  *)
(* is, or 0; the number it begins with; whether it holds a `=' and begins  *)
(* with one; and the number behind the `=', if there is one.               *)
(***************************************************************************)
EXTENDS Integers, Sequences

CONSTANTS
  Word,         \* the values of an unsigned long: 2^32
  Page,         \* the bytes of a page: 4096
  MemCommands,  \* the command lines
  NoNumber

\* An argument that begins with a `=' begins with no number.
MemArguments ==
  {a \in [option : {0, 8, 16, 32}, num : Nat, eq : BOOLEAN, leads : BOOLEAN,
          value : Nat \union {NoNumber}] :
     /\ a.leads => a.eq /\ a.num = 0
     /\ ~ a.eq => a.value = NoNumber}

ASSUME MemAssumption ==
  /\ Word \in Nat \ {0} /\ Page \in Nat \ {0} /\ Page % 4 = 0 /\ Word % Page = 0
  /\ NoNumber \notin Nat
  /\ MemCommands \subseteq Seq(MemArguments)

VARIABLES
  at,       \* where the program is
  argv,     \* its arguments
  req,      \* g_size, g_paddr, g_is_write, g_value, g_count
  mapped,   \* the bytes mapped from aligned_paddr on, -1 if mmap failed
  next,     \* i of read_mem
  reached   \* history: how far behind aligned_paddr it has accessed

memVars == <<at, argv, req, mapped, next, reached>>

-----------------------------------------------------------------------------
(* parse_cmdline                                                           *)

Request(size, paddr, write, value, count) ==
  [ok |-> TRUE, size |-> size, paddr |-> paddr, write |-> write, value |-> value, count |-> count]
Usage == [Request(4, 0, FALSE, 0, 1) EXCEPT !.ok = FALSE]

Writes(size, paddr, value) == Request(size, paddr, TRUE, value, 1)
Reads(size, paddr, count)  == Request(size, paddr, FALSE, 0, count)

SlipNoBlankBehind(args, size, paddr) == Usage

\* "=" stands alone: the value is the next argument.
ValueBehind(args, size, paddr) ==
  IF Len(args) < 3 THEN Usage ELSE Writes(size, paddr, args[3].num)

\* The address and what follows it.
ParseAddress(args, size) ==
  LET paddr == args[1].num IN
    IF args = <<>> \/ paddr = 0 THEN Usage
    ELSE IF args[1].eq /\ args[1].value # NoNumber THEN Writes(size, paddr, args[1].value)
    ELSE IF Len(args) < 2 THEN Usage
    ELSE IF args[2].leads
    THEN IF args[2].value # NoNumber THEN Writes(size, paddr, args[2].value)
         ELSE ValueBehind(args, size, paddr)
    ELSE IF args[1].eq THEN Writes(size, paddr, args[2].num)
    ELSE Reads(size, paddr, args[2].num)

parse_cmdline(args) ==
  IF args = <<>> THEN Usage
  ELSE IF args[1].option # 0 THEN ParseAddress(Tail(args), args[1].option \div 8)
  ELSE ParseAddress(args, 4)

-----------------------------------------------------------------------------
(* main                                                                    *)

MemInit ==
  /\ at = "parse" /\ argv \in MemCommands /\ req = Usage
  /\ mapped = 0 /\ next = 0 /\ reached = 0

\* The address is aligned to the access size.
Parse ==
  /\ at = "parse"
  /\ LET r == parse_cmdline(argv) IN
       IF r.ok THEN at' = "open" /\ req' = [r EXCEPT !.paddr = @ - (@ % r.size)]
       ELSE at' = "exit" /\ UNCHANGED req
  /\ UNCHANGED <<argv, mapped, next, reached>>

\* Without /dev/mem it ends.
OpenMem ==
  /\ at = "open" /\ at' \in {"map", "exit"}
  /\ UNCHANGED <<argv, req, mapped, next, reached>>

\* g_paddr - aligned_paddr
InPage == req.paddr % Page

SlipFromPageStart == req.count * req.size

\* What is to be accessed, from the start of the page on.
Span == InPage + req.count * req.size

\* aligned_size, rounded up to pages, in 32 bits.
AlignedSize ==
  LET n == (Span + Page - 1) % Word IN n - (n % Page)

\* mmap refuses a length of 0, and may fail.  The result is compared with NULL,
\* not with MAP_FAILED, so that the program goes on.
Map ==
  /\ at = "map" /\ at' = "access"
  /\ mapped' \in {-1} \union ({AlignedSize} \ {0})
  /\ UNCHANGED <<argv, req, next, reached>>

\* One element of read_mem, or write_mem.
Access ==
  /\ at = "access" /\ next < req.count /\ mapped # -1
  /\ next' = next + 1 /\ reached' = InPage + next' * req.size
  /\ UNCHANGED <<at, argv, req, mapped>>

\* An access to what is not mapped: the program is killed, if not at once.
Fault ==
  /\ at = "access" /\ next < req.count /\ InPage + (next + 1) * req.size > mapped
  /\ at' = "exit"
  /\ UNCHANGED <<argv, req, mapped, next, reached>>

Unmap ==
  /\ at = "access" /\ next = req.count /\ at' = "exit"
  /\ UNCHANGED <<argv, req, mapped, next, reached>>

MemNext == Parse \/ OpenMem \/ Map \/ Access \/ Fault \/ Unmap

-----------------------------------------------------------------------------
(* Properties                                                              *)

\* Every access is inside the mapping, unless so much was asked for that its size
\* does not fit in 32 bits.
AccessMapped == reached > 0 => reached <= mapped \/ Span + Page > Word

\* What the command line says without its blanks: numbers, and -1 for a `='.
Symbols(arg) ==
  (IF arg.leads THEN <<>> ELSE <<arg.num>>) \o (IF arg.eq THEN <<-1>> ELSE <<>>)
    \o (IF arg.value = NoNumber THEN <<>> ELSE <<arg.value>>)

\* The first three arguments say all that counts.
Said(args, k) == IF k <= Len(args) THEN Symbols(args[k]) ELSE <<>>
Text(args)    == Said(args, 1) \o Said(args, 2) \o Said(args, 3)

Meant(args) ==
  LET s == IF args[1].option # 0 THEN Tail(args) ELSE args
      size == IF args[1].option # 0 THEN args[1].option \div 8 ELSE 4
      t == Text(s)
  IN IF t = <<>> \/ t[1] \in {0, -1} THEN Usage
     ELSE IF Len(t) >= 3 /\ t[2] = -1 THEN Writes(size, t[1], t[3])
     ELSE IF Len(t) >= 2 /\ t[2] # -1 THEN Reads(size, t[1], t[2])
     ELSE Usage

OneEquals(args) == \A i, j \in 1..Len(args) : args[i].eq /\ args[j].eq => i = j

\* "Write memory: memtool [...] <phys addr>=<value>" (the usage text, line 158):
\* blanks before and behind the `=' make no difference, and an address that is 0 or
\* missing, a missing count or a missing value is noticed.
BlanksIgnored == argv # <<>> /\ OneEquals(argv) => parse_cmdline(argv) = Meant(argv)
=============================================================================
