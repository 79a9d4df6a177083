--------------------------- MODULE OptionService ---------------------------
(***************************************************************************)
(* What eltt2 promises to whoever calls it: the options of a command line  *)
(* are carried out one after the other, each once; of each, one answer of  *)
(* the TPM is printed, for -a and -A the digest of the whole argument;     *)
(* after the first that fails no other is; and the exit status is 0 if and *)
(* only if all were carried out.  How many requests an option takes does   *)
(* not show.  What it does not promise is to notice that a request did not *)
(* reach the TPM: from then on the answers may be about anything.          *)
(***************************************************************************)
EXTENDS Integers, Sequences

CONSTANT CommandLines   \* [opts: the options, extra: an argument behind them?]

VARIABLES
  busy,    \* is the tool running?
  todo,    \* the options not yet carried out
  answer,  \* the bytes that went into the answer to the first, None if none came
  well,    \* nothing has gone wrong that the tool would have noticed
  status,  \* the exit status, -1 if none
  lost     \* requests of this call that were lost unnoticed

serviceVars == <<busy, todo, answer, well, status, lost>>

None == -1

Resting == busy = FALSE /\ todo = <<>> /\ answer = None /\ well = TRUE

Init == Resting /\ status = -1 /\ lost = 0

\* What an option is about, if it has data to be hashed: two digits make a byte.
Amount(o) == IF o.opt \in {"a", "A"} THEN (o.digits + 1) \div 2 ELSE 0

\* Without an argument nothing is carried out.
Call ==
  /\ ~ busy /\ busy' = TRUE /\ status' = -1 /\ lost' = 0
  /\ \E cl \in CommandLines : todo' = cl.opts /\ well' = (cl.opts # <<>> \/ cl.extra)
  /\ UNCHANGED answer

Asking == busy /\ well /\ todo # <<>> /\ answer = None

Answer ==
  /\ Asking /\ answer' # None /\ (answer' = Amount(Head(todo)) \/ lost > 0)
  /\ UNCHANGED <<busy, todo, well, status, lost>>

\* The tool goes on, or takes what it finds for the answer.
Lose ==
  /\ Asking /\ lost' = lost + 1 /\ (answer' # None \/ UNCHANGED answer)
  /\ UNCHANGED <<busy, todo, well, status>>

Printed ==
  /\ answer # None /\ answer' = None /\ todo' = Tail(todo)
  /\ UNCHANGED <<busy, well, status, lost>>

\* -h needs no answer.
Help ==
  /\ busy /\ well /\ todo # <<>> /\ Head(todo).opt = "h" /\ todo' = Tail(todo)
  /\ UNCHANGED <<busy, answer, well, status, lost>>

GiveUp ==
  /\ busy /\ well /\ well' = FALSE /\ answer' = None
  /\ UNCHANGED <<busy, todo, status, lost>>

Rests == busy' = FALSE /\ todo' = <<>> /\ answer' = None /\ well' = TRUE

Exit ==
  /\ busy /\ answer = None /\ Rests /\ UNCHANGED lost
  /\ status' \in 0..255 /\ (status' = 0 <=> well /\ todo = <<>>)

Kill == busy /\ Rests /\ UNCHANGED <<status, lost>>

Next == Call \/ Answer \/ Lose \/ Printed \/ Help \/ GiveUp \/ Exit \/ Kill

Spec == Init /\ [][Next]_serviceVars
=============================================================================
