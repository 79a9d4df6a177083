------------------------------- MODULE Eltt2 -------------------------------
(***************************************************************************)
(* The TPM command line tool eltt2 (srcs/root/rootAdvantech/usr/Advantech/ *)
(* eltt2/eltt2.c): the option loop of main, tpmtool_transmit with the      *)
(* response buffer it shares between options, and create_hash_sequence,    *)
(* which feeds one argument to the TPM in several requests.  The TPM       *)
(* outlives the program: a sequence it has started stays open.             *)
(*                                                                         *)
(* A request is its length; the response buffer is the length of the last  *)
(* response, the extent of the bytes that are not zero, and the return     *)
(* code in it.  An argument is its number of digits, whether it is well    *)
(* formed (hexadecimal, or one of the option's words), and its value where *)
(* one byte is asked for.                                                  *)
(*                                                                         *)
(* Definitions named Slip... are wrong variants of the definition they     *)
(* precede, to see that the properties notice the slip.                    *)
(***************************************************************************)
EXTENDS Integers, Sequences

CONSTANTS
  CommandLines,  \* what the tool is called with: [opts: options in getopt's
                 \* order, extra: is there a non-option argument?]
  TpmErrors,     \* error codes the TPM may answer with
  Slots,         \* sequences the TPM can hold open
  MaxRuns,       \* bound: calls of the tool
  MaxFaults      \* bound: device errors, and bound: kills of the tool

\* eltt2.h
RespMax == 4096
ReqMax  == 1024
Header  == 10
BAD_CMD == -2
EINVAL  == 22
EIO     == 5
TPM_RC_INITIALIZE == 256
TPM_RC_FAILURE    == 257
UpdateSize == 29      \* sizeof(tpm2_sequence_update)
Uint16  == 65536      \* the values of a uint16_t

\* -e or -E at the end of the command line: alone, or behind other options.
NoDigest   == -1
NullDigest == -2

Options ==
  [opt : {"?", "a", "A", "b", "c", "d", "e", "E", "g", "G", "h", "r", "R", "s", "S", "t",
          "T", "u", "v", "z"},
   digits : Nat, wellFormed : BOOLEAN, value : 0..255,
   digest : Nat \union {NoDigest, NullDigest}, wellFormedDigest : BOOLEAN]

ASSUME ToolAssumption ==
  /\ TpmErrors \subseteq Nat \ {0} /\ Slots \in Nat
  /\ MaxRuns \in Nat /\ MaxFaults \in Nat
  /\ \A cl \in CommandLines : cl \in [opts : Seq(Options), extra : BOOLEAN]

\* Of the TPM's codes only one ends in a zero byte (eltt2.c, line 364).
ASSUME ErrorAssumption ==
  \A code \in TpmErrors : code % 256 = 0 => code = TPM_RC_INITIALIZE

VARIABLES
  pc,        \* where the tool is
  rest,      \* the options not yet dealt with
  extra,     \* a non-option argument waits behind them
  size,      \* tpm_response_buf_size
  top,       \* the response buffer is zero from here on
  rc,        \* the return code in the response buffer
  ret,       \* ret_val
  total, remaining, orig,  \* locals of create_hash_sequence
  open,      \* the TPM: sequences it holds open
  absorbed,  \* the prefix of the data that the sequence the tool has a handle
             \* of has taken, in bytes; Garbled once it took any other byte,
             \* NoSequence if the tool has no such handle
  runs, faults, kills,
  \* history
  status,    \* the exit status the caller saw, -1 if none
  why,       \* the first thing that went wrong in this run
  before,    \* `open` when the tool was called
  lost       \* requests of this call that did not reach the TPM, unnoticed

loop    == <<pc, rest, extra, ret, why>>
buffer  == <<size, top, rc>>
locals  == <<total, remaining, orig>>
tpm     == <<open, absorbed>>
device  == <<faults, lost>>
counts  == <<runs, device, kills, status, before>>
vars    == <<loop, buffer, locals, tpm, counts>>

Garbled    == -2
NoSequence == -3

\* No process, so no memory of one.
Init ==
  /\ pc = "idle" /\ rest = <<>> /\ extra = FALSE /\ ret = 0 /\ why = "none"
  /\ size = 0 /\ top = 0 /\ rc = 0
  /\ total = 0 /\ remaining = 0 /\ orig = 0
  /\ open = 0 /\ absorbed = NoSequence
  /\ runs = 0 /\ faults = 0 /\ kills = 0 /\ status = -1 /\ before = 0 /\ lost = 0

-----------------------------------------------------------------------------
(* Arguments and requests                                                  *)

\* strlen(s) / HEX_BYTE_STRING_LENGTH + strlen(s) % HEX_BYTE_STRING_LENGTH
Bytes(digits) == (digits \div 2) + (digits % 2)

\* SHA-1 for the small letters, SHA-256 for the capitals.
DigestSize(o) == IF o.opt \in {"a", "e", "r", "s"} THEN 20 ELSE 32

\* hexstr_to_bytearray, with room for that many bytes.
HexRefused(digits, wellFormed, room) ==
  IF room = 0 \/ Bytes(digits) > room \/ ~ wellFormed THEN EINVAL ELSE 0

\* One byte: a PCR index or a random length.
ByteRefused(o, min, max) ==
  IF Bytes(o.digits) # 1 THEN BAD_CMD
  ELSE IF ~ o.wellFormed THEN HexRefused(o.digits, FALSE, 1)
  ELSE IF o.value \notin min..max THEN BAD_CMD ELSE 0

\* What the builders of the requests refuse: 0 or the error.
get_random(o) == ByteRefused(o, 1, 32)
pcr_read(o)   == ByteRefused(o, 0, 23)
pcr_reset(o)  == ByteRefused(o, 0, 23)

\* The digest is the argument after the index.  main misses it if there are fewer
\* than four arguments, pcr_extend if it is the NULL behind them.
pcr_extend(o) ==
  IF o.digest = NoDigest THEN BAD_CMD
  ELSE IF o.digest = NullDigest THEN EINVAL
  ELSE IF ByteRefused(o, 0, 23) # 0 THEN ByteRefused(o, 0, 23)
  ELSE IF Bytes(o.digest) > DigestSize(o) THEN BAD_CMD
  ELSE HexRefused(o.digest, o.wellFormedDigest, DigestSize(o))

create_hash(o) ==
  IF 18 + Bytes(o.digits) > ReqMax \/ o.digits = 0 THEN EINVAL
  ELSE HexRefused(o.digits, o.wellFormed, 6 + Bytes(o.digits))

\* What main or a builder refuses.  "?" is an unknown option or a missing
\* argument; -d, -t, -u have a default.
Refusal(o) ==
  CASE o.opt = "?" -> BAD_CMD
    [] o.opt \in {"d", "t", "u"} -> IF o.wellFormed THEN 0 ELSE BAD_CMD
    [] o.opt \in {"c", "g", "v", "T"} -> 0
    [] o.opt = "b" -> HexRefused(o.digits, o.wellFormed, Bytes(o.digits))
    [] o.opt \in {"s", "S"} -> create_hash(o)
    [] o.opt = "G" -> get_random(o)
    [] o.opt \in {"r", "R"} -> pcr_read(o)
    [] o.opt = "z" -> pcr_reset(o)
    [] o.opt \in {"e", "E"} -> pcr_extend(o)

RequestSize(o) ==
  CASE o.opt \in {"d", "u", "G"} -> 12
    [] o.opt \in {"c", "T"} -> 10
    [] o.opt \in {"g", "v"} -> 22
    [] o.opt = "t" -> o.value
    [] o.opt = "b" -> Bytes(o.digits)
    [] o.opt \in {"s", "S"} -> 18 + Bytes(o.digits)
    [] o.opt \in {"r", "R"} -> 20
    [] o.opt = "z" -> 27
    [] o.opt \in {"e", "E"} -> 33 + DigestSize(o)

\* The lengths of the TPM's answers when it succeeds; a TPM without the hash
\* algorithm's PCR bank answers -r with no digest.
AnswerSizes(o) ==
  CASE o.opt \in {"d", "t", "u"} -> {10}
    [] o.opt = "c" -> {35}
    [] o.opt \in {"g", "v"} -> {19, 435}
    [] o.opt = "b" -> {10, 14, 200}
    [] o.opt = "G" -> {12 + o.value}
    [] o.opt \in {"r", "R"} -> {28, 30 + DigestSize(o)}
    [] o.opt \in {"s", "S"} -> {20 + DigestSize(o)}
    [] o.opt \in {"e", "E", "z"} -> {19}
    [] o.opt = "T" -> {18}

\* response_print: the printers refuse a response that ends at or before the
\* offset they print from; -d, -t, -u and the tables of -c, -g, -v look at
\* the buffer only.
PrintOffset(o) ==
  CASE o.opt \in {"b", "e", "E", "c", "g", "v", "d", "t", "u", "z"} -> 0
    [] o.opt \in {"G", "s", "S", "T"} -> 12
    [] o.opt \in {"a", "A"} -> 16
    [] o.opt \in {"r", "R"} -> 30

-----------------------------------------------------------------------------
(* tpmtool_transmit, with *resp_length = s                                 *)

Accepted(len, s) == 0 < len /\ len <= ReqMax /\ Header < s /\ s <= RespMax

Quit(code, cause) == pc' = "exit" /\ ret' = code /\ why' = cause /\ UNCHANGED <<rest, extra>>

GoOn(l) == pc' = l /\ UNCHANGED <<rest, extra, ret, why>>

SlipHeaderOnly(s) == IF top <= Header THEN 0 ELSE top

\* memset(response, 0, *resp_length): only bytes behind it survive.
Cleared(s) == IF top <= s THEN 0 ELSE top

\* The answer: n bytes with return code `code`.
Answered(s, n, code) ==
  size' = n /\ rc' = code /\ top' = (IF n < Cleared(s) THEN Cleared(s) ELSE n)

\* open, write or read fails and the tool gives up.  `effect` holds if the TPM
\* executed the request all the same.
DeviceFails(s, effect) ==
  /\ faults < MaxFaults /\ faults' = faults + 1
  /\ size' = s /\ top' = Cleared(s) /\ rc' = 0
  /\ effect \/ UNCHANGED tpm
  /\ Quit(EIO, "device") /\ UNCHANGED lost

\* write takes less than the request, which sets no errno.  If errno is still 0,
\* so is the function's result: the caller finds a buffer without an answer, whose
\* return code is 0, and goes on.  (With any other errno it gives up, as above.)
ShortWrite(s, next) ==
  /\ faults < MaxFaults /\ faults' = faults + 1 /\ lost' = lost + 1
  /\ size' = s /\ top' = Cleared(s) /\ rc' = 0
  /\ UNCHANGED tpm /\ GoOn(next)

\* A transmission that is answered with n bytes after `effect`, is answered
\* with an error of the TPM, fails, or is lost.
Transmit(s, sizes, effect, next) ==
  \/ /\ \E n \in sizes : Answered(s, n, 0)
     /\ effect /\ GoOn(next) /\ UNCHANGED device
  \/ /\ \E code \in TpmErrors : Answered(s, Header, code)
     /\ GoOn("answer") /\ UNCHANGED <<tpm, device>>
  \/ DeviceFails(s, effect)
  \/ ShortWrite(s, next)

Counted == UNCHANGED <<runs, kills, status, before>>

-----------------------------------------------------------------------------
(* main                                                                    *)

Call(cl) ==
  /\ pc = "idle" /\ runs < MaxRuns /\ runs' = runs + 1
  /\ rest' = cl.opts /\ extra' = cl.extra
  /\ IF cl.opts = <<>> /\ ~ cl.extra
     THEN pc' = "exit" /\ ret' = BAD_CMD /\ why' = "arguments"
     ELSE pc' = "options" /\ ret' = 0 /\ why' = "none"
  /\ size' = RespMax /\ top' = RespMax /\ rc' = 0      \* filled with 0xFF
  /\ status' = -1 /\ before' = open /\ lost' = 0
  /\ UNCHANGED <<locals, tpm, faults, kills>>

AtOption(opts) == pc = "options" /\ rest # <<>> /\ Head(rest).opt \in opts

\* The option is refused, or its request is transmitted.
Request ==
  /\ AtOption({"?", "b", "c", "d", "e", "E", "g", "G", "r", "R", "s", "S", "t",
               "T", "u", "v", "z"})
  /\ LET o == Head(rest) IN
       IF Refusal(o) # 0
       THEN Quit(Refusal(o), "arguments") /\ UNCHANGED <<buffer, tpm, device>>
       ELSE IF ~ Accepted(RequestSize(o), size)
       THEN /\ Quit(EINVAL, IF RequestSize(o) > ReqMax THEN "arguments" ELSE "buffer")
            /\ UNCHANGED <<buffer, tpm, device>>
       ELSE Transmit(size, AnswerSizes(o), UNCHANGED tpm, "answer")
  /\ UNCHANGED locals /\ Counted

\* -h: print_help, and the loop ends.
Help ==
  /\ AtOption({"h"})
  /\ pc' = "left" /\ rest' = Tail(rest) /\ UNCHANGED <<extra, ret, why>>
  /\ UNCHANGED <<buffer, locals, tpm, device>> /\ Counted

SlipSameAgain == rest

\* What getopt finds next.
Following == Tail(rest)

\* return_error_handling and response_print.  The handle of a sequence is gone.
Report ==
  /\ pc = "answer"
  /\ IF rc # 0 THEN Quit(rc, "tpm")
     ELSE IF size <= PrintOffset(Head(rest)) THEN Quit(EINVAL, "short")
     ELSE pc' = "options" /\ rest' = Following /\ ret' = 0 /\ UNCHANGED <<extra, why>>
  /\ absorbed' = NoSequence /\ UNCHANGED <<buffer, locals, open, device>> /\ Counted

EndOfOptions ==
  /\ pc = "options" /\ rest = <<>> /\ GoOn("left")
  /\ UNCHANGED <<buffer, locals, tpm, device>> /\ Counted

\* What getopt left over is refused, once everything else has been done.
Leftover ==
  /\ pc = "left"
  /\ IF rest # <<>> \/ extra THEN Quit(BAD_CMD, "arguments") ELSE GoOn("exit")
  /\ UNCHANGED <<buffer, locals, tpm, device>> /\ Counted

SlipUnmapped(r) == r

\* 0x100 would look like 0 to a caller that sees the low byte.
Mapped(r) == IF r = TPM_RC_INITIALIZE THEN TPM_RC_FAILURE ELSE r

\* The process is gone, and with it the handle of a sequence left open.
Gone ==
  /\ pc' = "idle" /\ rest' = <<>> /\ extra' = FALSE /\ ret' = 0
  /\ size' = 0 /\ top' = 0 /\ rc' = 0
  /\ total' = 0 /\ remaining' = 0 /\ orig' = 0 /\ absorbed' = NoSequence

Exit ==
  /\ pc = "exit" /\ status' = Mapped(ret) % 256 /\ Gone
  /\ UNCHANGED <<why, open, runs, device, kills, before>>

-----------------------------------------------------------------------------
(* create_hash_sequence                                                    *)

\* The buffer must hold a handle behind the header: 14 bytes.
SeqRefused ==
  /\ AtOption({"a", "A"}) /\ size < Header + 4
  /\ Quit(EINVAL, "buffer") /\ top' = Cleared(size) /\ rc' = 0
  /\ UNCHANGED <<size, locals, tpm, device>> /\ Counted

\* TPM2_HashSequenceStart.  A TPM with no free slot answers with an error.  A
\* TPM error ends the function with ret_val 0; main finds the code.
SeqStart ==
  /\ AtOption({"a", "A"}) /\ size >= Header + 4
  /\ orig' = size /\ UNCHANGED <<total, remaining>>
  /\ Transmit(size, {14}, open < Slots /\ open' = open + 1 /\ absorbed' = 0, "split")
  /\ Counted

\* data_string_bytes_size is a uint16_t, so that of 65536 bytes none are counted.
DataSize(digits) == Bytes(digits) % Uint16

\* The argument as bytes.  An empty one, and one longer than DataSize, are
\* refused by hexstr_to_bytearray.
SeqSplit ==
  /\ pc = "split"
  /\ LET o == Head(rest)
         refused == HexRefused(o.digits, o.wellFormed, DataSize(o.digits))
     IN /\ total' = DataSize(o.digits) /\ remaining' = DataSize(o.digits)
        /\ IF refused = 0 THEN GoOn("update")
           ELSE Quit(refused, "arguments")
  /\ UNCHANGED <<orig, buffer, tpm, device>> /\ Counted

SlipWholeRequest == IF remaining <= ReqMax THEN remaining ELSE ReqMax

\* transfer_bytes: what one request takes.
TransferBytes ==
  IF remaining <= ReqMax - UpdateSize THEN remaining ELSE ReqMax - UpdateSize

SlipFromTheEnd == remaining - TransferBytes

\* Where in the data those bytes are copied from.
TransferFrom == total - remaining

\* The TPM appends them to what it has.  If the start of the sequence was lost
\* the handle is 0 and names none.
Absorbs == /\ absorbed # NoSequence /\ UNCHANGED open
           /\ absorbed' = (IF absorbed = TransferFrom THEN absorbed + TransferBytes ELSE Garbled)

SlipFullChunks == remaining - (ReqMax - UpdateSize)

\* remaining_bytes = remaining_bytes - transfer_bytes
Left == remaining - TransferBytes

SlipLastAnswer == IF Left = 0 THEN "answer" ELSE "update"

\* Back to the head of the loop.
NextUpdate == "update"

\* TPM2_SequenceUpdate, with the buffer size the option began with.
SeqUpdate ==
  /\ pc = "update" /\ remaining > 0
  /\ IF ~ Accepted(TransferBytes + UpdateSize, orig)
     THEN Quit(EINVAL, "request") /\ size' = orig /\ UNCHANGED <<top, rc, tpm, device>>
     ELSE Transmit(orig, {19}, Absorbs, NextUpdate)
  /\ remaining' = (IF pc' = "update" THEN Left ELSE remaining)
  /\ UNCHANGED <<total, orig>> /\ Counted

\* TPM2_SequenceComplete: the digest, and the TPM frees the sequence.
SeqComplete ==
  /\ pc = "update" /\ remaining = 0
  /\ Transmit(orig, {29 + DigestSize(Head(rest))},
              absorbed # NoSequence /\ open' = open - 1 /\ UNCHANGED absorbed, "answer")
  /\ UNCHANGED locals /\ Counted

\* The user interrupts the tool.  The TPM keeps what it has.
Kill ==
  /\ pc \notin {"idle", "exit"} /\ kills < MaxFaults /\ kills' = kills + 1
  /\ why' = "killed" /\ Gone
  /\ UNCHANGED <<open, runs, device, status, before>>

ToolStep == \/ Request \/ Help \/ Report \/ EndOfOptions \/ Leftover \/ Exit
            \/ SeqRefused \/ SeqStart \/ SeqSplit \/ SeqUpdate \/ SeqComplete

Next == (\E cl \in CommandLines : Call(cl)) \/ ToolStep \/ Kill

Spec == Init /\ [][Next]_vars

\* The tool runs on, and the TPM answers: the read blocks until it does.
FairSpec == Spec /\ WF_vars(ToolStep)
-----------------------------------------------------------------------------
(* What the caller sees                                                    *)

\* The bytes the answer is about: what the TPM has absorbed, for a hash.
AnswerAbout ==
  IF pc # "answer" \/ rc # 0 THEN -1
  ELSE IF Head(rest).opt \in {"a", "A"} THEN absorbed ELSE 0

Service == INSTANCE OptionService WITH
  busy <- pc # "idle", todo <- rest, answer <- AnswerAbout,
  well <- pc = "idle" \/ why = "none", status <- status, lost <- lost

-----------------------------------------------------------------------------
(* Properties                                                              *)

Labels == {"idle", "options", "answer", "left", "exit", "split", "update"}
Causes == {"none", "arguments", "device", "tpm", "short", "buffer",
           "request", "killed"}

\* Every variable stays in its type: the buffer size in what ssize_t and the
\* buffer allow, the sizes of the hash sequence in their uint16_t.
TypeOK ==
  /\ pc \in Labels /\ why \in Causes /\ extra \in BOOLEAN
  /\ rest \in Seq(Options) /\ ret \in Int
  /\ size \in 0..RespMax /\ top \in 0..RespMax /\ rc \in Nat
  /\ total \in 0 .. Uint16 - 1 /\ remaining \in 0..total /\ orig \in 0..RespMax
  /\ open \in 0..Slots /\ absorbed \in Int
  /\ runs \in 0..MaxRuns /\ faults \in 0..MaxFaults /\ kills \in 0..MaxFaults
  /\ status \in -1..255 /\ before \in 0..Slots /\ lost \in 0..faults

\* Whatever was answered to the options before, behind a good response the
\* buffer is zero: print_clock_info and print_capability_flags, which do not
\* look at its size, print no byte of an older response.  Once a request of the
\* call was lost, what may be left of the answer to a TPM2_SequenceUpdate is all
\* there is.
NoStaleBytes == pc = "answer" /\ rc = 0 => top = size \/ (lost > 0 /\ top <= 19)

\* When create_hash_sequence comes to a digest the TPM has taken every byte of
\* the argument, once and in order, however many requests that took, unless a
\* request of the call was lost.
HashedWhole ==
  pc = "answer" /\ rc = 0 /\ Head(rest).opt \in {"a", "A"} =>
    absorbed = Bytes(Head(rest).digits) \/ lost > 0

\* No part of the data is refused by tpmtool_transmit for its length.
UpdatesFit == why # "request"

\* The exit status the caller sees is 0 if and only if every option on the
\* command line was gone through and none of them was refused, failed or brought an
\* error of the TPM.  (That the TPM has carried them out does not follow: LossNoticed.)
ExitHonest == status # -1 => (status = 0 <=> why = "none")

\* A call that reports success leaves no sequence open in the TPM but those whose
\* completion was lost; any other leaves the one more it was busy with.
SequencesClosed ==
  /\ status = 0 => before <= open /\ open <= before + lost
  /\ open <= before + 1 + lost

\* The tool is the service of OptionService: to its caller the requests of a hash
\* sequence, the shared buffer and the checks are one answer per option.
ImplementsService == Service!Spec

\* Every call comes to an end.
Terminates == pc # "idle" ~> pc = "idle"

\* README.md L47, "./eltt2 <option(s)>": an option is carried out like any
\* other when options before it were.
OptionsIndependent == why # "buffer"

\* eltt2.h L268-273, tpmtool_transmit: "@retval EXIT_SUCCESS In case of success",
\* and main exits with 0 only if it was.  A call that succeeds has lost no request.
LossNoticed == status = 0 => lost = 0
=============================================================================
