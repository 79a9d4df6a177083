---------------------------- MODULE Eltt2_proofs ----------------------------
(***************************************************************************)
(* The safety properties of Eltt2, for all command lines, and that the     *)
(* tool implements OptionService.  The inductive invariant says for every  *)
(* place in the program what it has made of the buffer, of the data, of    *)
(* the TPM's sequences and of its exit status so far.                      *)
(***************************************************************************)
EXTENDS Eltt2, TLAPS

-----------------------------------------------------------------------------
(* Arguments                                                               *)

HashOptions == {"a", "A"}

(* A builder refuses with one of two codes.                                *)
LEMMA RefusalCode ==
  ASSUME NEW o \in Options, o.opt \notin HashOptions \union {"h"}
  PROVE  Refusal(o) \in {0, BAD_CMD, EINVAL}
<1> USE DEF BAD_CMD, EINVAL
<1>1. \A d, room \in Nat, w \in BOOLEAN : HexRefused(d, w, room) \in {0, EINVAL}
  BY DEF HexRefused
<1>2. \A min, max \in Nat : ByteRefused(o, min, max) \in {0, BAD_CMD, EINVAL}
  BY DEF ByteRefused, HexRefused, Options
<1>3. pcr_extend(o) \in {0, BAD_CMD, EINVAL}
  BY <1>2 DEF pcr_extend, HexRefused
<1>4. create_hash(o) \in {0, EINVAL}
  BY DEF create_hash, HexRefused
<1>5. get_random(o) \in {0, BAD_CMD, EINVAL} /\ pcr_read(o) \in {0, BAD_CMD, EINVAL}
      /\ pcr_reset(o) \in {0, BAD_CMD, EINVAL}
  BY <1>2 DEF get_random, pcr_read, pcr_reset
<1>6. HexRefused(o.digits, o.wellFormed, Bytes(o.digits)) \in {0, EINVAL}
  BY DEF HexRefused
<1>7. QED
  BY <1>3, <1>4, <1>5, <1>6 DEF Refusal, Options, HashOptions

(* Answers are short, and longer than nothing.                              *)
LEMMA AnswerSize ==
  ASSUME NEW o \in Options, o.opt \notin HashOptions \union {"h", "?"},
         NEW n \in AnswerSizes(o)
  PROVE  n \in 10..435
  BY DEF AnswerSizes, DigestSize, Options, HashOptions

(* What is left of the options is a sequence of them.                       *)
LEMMA Remainder ==
  ASSUME NEW s \in Seq(Options), s # <<>>
  PROVE  Head(s) \in Options /\ Tail(s) \in Seq(Options)
  OBVIOUS

(* The bounds, without the command lines.                                   *)
LEMMA Bounds ==
  /\ TpmErrors \subseteq Nat \ {0} /\ Slots \in Nat /\ MaxRuns \in Nat /\ MaxFaults \in Nat
  BY ToolAssumption

LEMMA Sizes == RespMax = 4096 /\ ReqMax = 1024 /\ Header = 10 /\ UpdateSize = 29 /\ Uint16 \in Nat \ {0}
  BY SMT DEF RespMax, ReqMax, Header, UpdateSize, Uint16

-----------------------------------------------------------------------------
(* The invariant                                                           *)

(* Where there is an option at hand.                                        *)
OptionInv ==
  /\ pc \in {"answer", "split", "update"} => rest # <<>>
  /\ pc \in {"split", "update"} => Head(rest).opt \in HashOptions

(* How much of the buffer is not zero.  A sequence keeps the size the buffer *)
(* had before, which may be shorter than the answers to its updates (19):   *)
(* if its completion is lost, such an answer stays behind.                  *)
BufferInv ==
  /\ NoStaleBytes
  /\ pc = "options" => top <= size \/ (lost > 0 /\ top <= 19)
  /\ pc \in {"split", "update"} => Header + 4 <= orig /\ (top <= orig \/ top <= 19)

(* What the TPM has taken of the data.                                      *)
HashInv ==
  /\ HashedWhole
  /\ pc \in {"idle", "options"} => absorbed = NoSequence
  /\ pc \in {"answer", "split", "update"} => absorbed # -1
  /\ pc = "split" /\ lost = 0 => absorbed = 0
  /\ pc = "update" => /\ total = Bytes(Head(rest).digits)
                      /\ lost = 0 => absorbed = total - remaining

(* k sequences of this option are open, and such as were not completed      *)
(* because the request was lost.                                            *)
OpenBut(k) == before + k <= open /\ open <= before + k + lost

(* The sequence of this option is the only one left open, unless a request  *)
(* was lost.                                                                *)
OpenInv ==
  /\ SequencesClosed
  /\ pc \in {"split", "update"} => OpenBut(IF absorbed = NoSequence THEN 0 ELSE 1)
  /\ pc \in {"options", "left"} => OpenBut(0)
  /\ pc = "answer" /\ rc = 0 => OpenBut(0)
  /\ pc = "exit" /\ why = "none" => OpenBut(0)

(* Nothing has gone wrong before the exit, and there the code says so.      *)
StatusInv ==
  /\ ExitHonest /\ UpdatesFit
  /\ pc \in {"options", "answer", "left", "split", "update"} => why = "none" /\ ret = 0
  /\ pc = "answer" => rc \in TpmErrors \union {0}
  /\ pc = "exit" => /\ ret \in TpmErrors \union {0, BAD_CMD, EINVAL, EIO}
                    /\ why = "none" <=> ret = 0
                    /\ why = "none" => rest = <<>>
  /\ pc # "idle" => status = -1

IInv == TypeOK /\ OptionInv /\ BufferInv /\ HashInv /\ OpenInv /\ StatusInv


(* What is known before a step.                                             *)
LEMMA Types ==
  ASSUME TypeOK
  PROVE  /\ pc \in Labels /\ why \in Causes /\ extra \in BOOLEAN
         /\ rest \in Seq(Options) /\ ret \in Int
         /\ size \in 0..RespMax /\ top \in 0..RespMax /\ rc \in Nat
         /\ total \in 0 .. Uint16 - 1 /\ remaining \in 0..total /\ orig \in 0..RespMax
         /\ open \in 0..Slots /\ absorbed \in Int
         /\ runs \in 0..MaxRuns /\ faults \in 0..MaxFaults /\ kills \in 0..MaxFaults
         /\ status \in -1..255 /\ before \in 0..Slots /\ lost \in 0..faults
  BY Zenon DEF TypeOK

(* The two marks of `absorbed` that are no amount of data.                  *)
LEMMA NoHandle == Garbled = -2 /\ NoSequence = -3
  BY SMT DEF Garbled, NoSequence

LEMMA InitInv == Init => IInv
<1> SUFFICES ASSUME Init PROVE IInv
  OBVIOUS
<1>1. /\ pc = "idle" /\ rest = <<>> /\ extra = FALSE /\ ret = 0 /\ why = "none"
      /\ size = 0 /\ top = 0 /\ rc = 0 /\ total = 0 /\ remaining = 0 /\ orig = 0
      /\ open = 0 /\ absorbed = NoSequence /\ runs = 0 /\ faults = 0 /\ kills = 0
      /\ status = -1 /\ before = 0 /\ lost = 0
  BY Zenon DEF Init
<1>2. rest \in Seq(Options)
  BY <1>1
<1>3. pc \in Labels /\ why \in Causes
  BY <1>1 DEF Labels, Causes
<1>4. /\ size \in 0..RespMax /\ top \in 0..RespMax /\ rc \in Nat
      /\ total \in 0 .. Uint16 - 1 /\ remaining \in 0..total /\ orig \in 0..RespMax
      /\ open \in 0..Slots /\ absorbed \in Int /\ ret \in Int
      /\ runs \in 0..MaxRuns /\ faults \in 0..MaxFaults /\ kills \in 0..MaxFaults
      /\ status \in -1..255 /\ before \in 0..Slots /\ lost \in 0..faults
  BY SMT, <1>1, Bounds, Sizes, NoHandle
<1>5. TypeOK
  BY Zenon, <1>1, <1>2, <1>3, <1>4 DEF TypeOK
<1>6. OptionInv /\ BufferInv /\ HashInv
  BY <1>1 DEF OptionInv, BufferInv, HashInv, NoStaleBytes, HashedWhole
<1>7. OpenInv /\ StatusInv
  BY <1>1 DEF OpenInv, StatusInv, SequencesClosed, ExitHonest, UpdatesFit
<1>8. QED
  BY Zenon, <1>5, <1>6, <1>7 DEF IInv

-----------------------------------------------------------------------------
(* Steps that end alike                                                    *)

LEMMA Codes ==
  /\ BAD_CMD = -2 /\ EINVAL = 22 /\ EIO = 5 /\ TPM_RC_INITIALIZE = 256 /\ TPM_RC_FAILURE = 257
  BY SMT DEF BAD_CMD, EINVAL, EIO, TPM_RC_INITIALIZE, TPM_RC_FAILURE

(* While the tool runs nothing has gone wrong, and there is no status yet.  *)
LEMMA Running ==
  ASSUME IInv, pc \in {"options", "answer", "left", "split", "update"}
  PROVE  why = "none" /\ ret = 0 /\ status = -1 /\ open <= before + 1 + lost
<1>1. StatusInv /\ OpenInv
  BY Zenon DEF IInv
<1>2. QED
  BY <1>1 DEF StatusInv, OpenInv, SequencesClosed

(* Something goes wrong and main returns.                                   *)
LEMMA Quits ==
  ASSUME IInv, pc \in {"options", "answer", "left", "split", "update"}, pc' = "exit",
         ret' \in TpmErrors \union {BAD_CMD, EINVAL, EIO}, why' \in Causes \ {"none", "request"},
         rest' = rest, extra' = extra, rc' \in Nat,
         size' \in 0..RespMax, top' \in 0..RespMax,
         total' \in 0 .. Uint16 - 1, remaining' \in 0..total', orig' \in 0..RespMax,
         open' \in 0..Slots, open' <= before + 1 + lost, absorbed' \in Int,
         runs' = runs, faults' \in 0..MaxFaults, kills' = kills, status' = status, before' = before,
         lost' = lost, lost' \in 0..faults'
  PROVE  IInv'
<1>1. /\ rest \in Seq(Options) /\ extra \in BOOLEAN
      /\ runs \in 0..MaxRuns /\ kills \in 0..MaxFaults
      /\ status \in -1..255 /\ before \in 0..Slots /\ lost \in 0..faults
  BY Zenon, Types DEF IInv
<1>2. status = -1
  BY Running
<1>3. pc' \in Labels /\ why' \in Causes
  BY DEF Labels
<1>4. ret' \in Int /\ ret' # 0
  BY Bounds, Codes
<1>5. TypeOK'
  BY Zenon, <1>1, <1>3, <1>4 DEF TypeOK
<1>6. OptionInv' /\ BufferInv' /\ HashInv'
  BY DEF OptionInv, BufferInv, HashInv, NoStaleBytes, HashedWhole
<1>7. OpenInv'
  BY <1>2 DEF OpenInv, OpenBut, SequencesClosed
<1>8. StatusInv'
  BY <1>2, <1>4 DEF StatusInv, ExitHonest, UpdatesFit
<1>9. QED
  BY Zenon, <1>5, <1>6, <1>7, <1>8 DEF IInv

(* The TPM answers with an error.                                           *)
LEMMA Errors ==
  ASSUME IInv, pc \in {"options", "update"}, rest # <<>>, pc' = "answer", rc' \in TpmErrors,
         rest' = rest, extra' = extra, ret' = ret, why' = why,
         size' \in 0..RespMax, top' \in 0..RespMax,
         total' \in 0 .. Uint16 - 1, remaining' \in 0..total', orig' \in 0..RespMax,
         open' = open, absorbed' = absorbed,
         runs' = runs, faults' = faults, kills' = kills, status' = status, before' = before,
         lost' = lost
  PROVE  IInv'
<1>1. /\ rest \in Seq(Options) /\ extra \in BOOLEAN /\ ret \in Int /\ why \in Causes
      /\ open \in 0..Slots /\ absorbed \in Int
      /\ runs \in 0..MaxRuns /\ faults \in 0..MaxFaults /\ kills \in 0..MaxFaults
      /\ status \in -1..255 /\ before \in 0..Slots /\ lost \in 0..faults
  BY Zenon, Types DEF IInv
<1>2. why = "none" /\ ret = 0 /\ status = -1 /\ open <= before + 1 + lost
  BY Running
<1>3. pc' \in Labels /\ rc' \in Nat /\ rc' # 0
  BY Bounds DEF Labels
<1>4. TypeOK'
  BY Zenon, <1>1, <1>3 DEF TypeOK
<1>5. OptionInv' /\ BufferInv' /\ HashInv'
  <2>1. absorbed # -1
    <3>1. pc = "options" => absorbed = NoSequence
      BY Zenon DEF IInv, HashInv
    <3>2. pc = "update" => absorbed # -1
      BY Zenon DEF IInv, HashInv
    <3>3. QED
      BY <3>1, <3>2, NoHandle
  <2>2. QED
    BY <1>3, <2>1 DEF OptionInv, BufferInv, HashInv, NoStaleBytes, HashedWhole
<1>6. OpenInv'
  BY <1>2, <1>3 DEF OpenInv, OpenBut, SequencesClosed
<1>7. StatusInv'
  BY <1>2 DEF StatusInv, ExitHonest, UpdatesFit
<1>8. QED
  BY Zenon, <1>4, <1>5, <1>6, <1>7 DEF IInv

(* Where the bytes of a response end that are not zero.                     *)
LEMMA Extent ==
  ASSUME top \in 0..RespMax, NEW s \in 0..RespMax, NEW n \in 0..RespMax, NEW code, Answered(s, n, code)
  PROVE  /\ size' = n /\ rc' = code /\ top' \in 0..RespMax
         /\ top <= s \/ top <= n => top' = n
         /\ top <= 19 => top' = n \/ top' <= 19
<1>1. /\ size' = n /\ rc' = code
      /\ top' = IF n < (IF top <= s THEN 0 ELSE top) THEN (IF top <= s THEN 0 ELSE top) ELSE n
  BY Zenon DEF Answered, Cleared
<1>2. QED
  BY SMT, <1>1, Sizes

LEMMA ClearedType == ASSUME top \in 0..RespMax, NEW s PROVE Cleared(s) \in 0..RespMax
  BY SMT, Sizes DEF Cleared

(* A request is lost, and the tool goes on.                                 *)
LEMMA Loses ==
  ASSUME IInv, NEW s \in 0..RespMax, NEW next, ShortWrite(s, next), top <= s \/ top <= 19
  PROVE  /\ pc' = next /\ rest' = rest /\ extra' = extra /\ ret' = ret /\ why' = why
         /\ size' = s /\ rc' = 0 /\ top' \in 0..RespMax /\ top' <= 19
         /\ open' = open /\ absorbed' = absorbed
         /\ faults' \in 0..MaxFaults /\ lost' \in 0..faults' /\ lost' = lost + 1 /\ lost' > 0
<1>1. /\ pc' = next /\ rest' = rest /\ extra' = extra /\ ret' = ret /\ why' = why
      /\ size' = s /\ rc' = 0 /\ top' = (IF top <= s THEN 0 ELSE top)
      /\ open' = open /\ absorbed' = absorbed
      /\ faults < MaxFaults /\ faults' = faults + 1 /\ lost' = lost + 1
  BY Zenon DEF ShortWrite, GoOn, Cleared, tpm
<1>2. top \in 0..RespMax /\ faults \in 0..MaxFaults /\ lost \in 0..faults
  BY Zenon, Types DEF IInv
<1>3. /\ top' \in 0..RespMax /\ top' <= 19
      /\ faults' \in 0..MaxFaults /\ lost' \in 0..faults' /\ lost' > 0
  BY SMT, <1>1, <1>2, Bounds, Sizes
<1>4. QED
  BY Zenon, <1>1, <1>3

-----------------------------------------------------------------------------
(* The steps                                                               *)

LEMMA CallInv == ASSUME IInv, NEW cl \in CommandLines, Call(cl) PROVE IInv'
<1>1. /\ rest' = cl.opts /\ extra' = cl.extra
      /\ \/ pc' = "exit" /\ ret' = BAD_CMD /\ why' = "arguments"
         \/ pc' = "options" /\ ret' = 0 /\ why' = "none"
      /\ size' = RespMax /\ top' = RespMax /\ rc' = 0 /\ status' = -1 /\ before' = open
      /\ total' = total /\ remaining' = remaining /\ orig' = orig
      /\ open' = open /\ absorbed' = absorbed
      /\ runs < MaxRuns /\ runs' = runs + 1 /\ faults' = faults /\ kills' = kills
      /\ lost' = 0 /\ pc = "idle"
  BY Zenon DEF Call, locals, tpm
<1>2. /\ total \in 0 .. Uint16 - 1 /\ remaining \in 0..total /\ orig \in 0..RespMax
      /\ open \in 0..Slots /\ absorbed \in Int
      /\ runs \in 0..MaxRuns /\ faults \in 0..MaxFaults /\ kills \in 0..MaxFaults
  BY Zenon, Types DEF IInv
<1>3. rest' \in Seq(Options) /\ extra' \in BOOLEAN
  <2>1. cl \in [opts : Seq(Options), extra : BOOLEAN]
    BY Zenon, ToolAssumption
  <2>2. QED
    BY <1>1, <2>1
<1>4. pc' \in Labels /\ why' \in Causes
  BY <1>1 DEF Labels, Causes
<1>5. /\ ret' \in Int /\ size' \in 0..RespMax /\ top' \in 0..RespMax /\ rc' \in Nat
      /\ runs' \in 0..MaxRuns /\ status' \in -1..255 /\ top' <= size' /\ lost' \in 0..faults'
  BY SMT, <1>1, <1>2, Bounds, Sizes, Codes
<1>6. TypeOK'
  BY Zenon, <1>1, <1>2, <1>3, <1>4, <1>5 DEF TypeOK
<1>11. absorbed = NoSequence
  BY Zenon, <1>1 DEF IInv, HashInv
<1>7. OptionInv' /\ BufferInv' /\ HashInv'
  BY <1>1, <1>5, <1>11 DEF OptionInv, BufferInv, HashInv, NoStaleBytes, HashedWhole
<1>8. OpenInv'
  BY <1>1, <1>2, Bounds DEF OpenInv, OpenBut, SequencesClosed
<1>9. StatusInv'
  BY <1>1, Codes DEF StatusInv, ExitHonest, UpdatesFit
<1>10. QED
  BY Zenon, <1>6, <1>7, <1>8, <1>9 DEF IInv

(* What the options of a command line are.                                  *)
LEMMA AtHand ==
  ASSUME IInv, NEW opts, AtOption(opts)
  PROVE  pc = "options" /\ rest # <<>> /\ Head(rest) \in Options /\ Head(rest).opt \in opts
<1>1. pc = "options" /\ rest # <<>> /\ Head(rest).opt \in opts
  BY DEF AtOption
<1>2. rest \in Seq(Options)
  BY Zenon, Types DEF IInv
<1>3. QED
  BY <1>1, <1>2, Remainder

LEMMA RequestInv == ASSUME IInv, Request PROVE IInv'
<1> DEFINE o == Head(rest)
           opts == {"?", "b", "c", "d", "e", "E", "g", "G", "r", "R", "s", "S", "t",
                    "T", "u", "v", "z"}
<1>1. pc = "options" /\ rest # <<>> /\ o \in Options /\ o.opt \in opts
  BY Zenon, AtHand DEF Request
<1>2. /\ rest \in Seq(Options) /\ extra \in BOOLEAN /\ ret \in Int /\ why \in Causes
      /\ size \in 0..RespMax /\ top \in 0..RespMax /\ rc \in Nat
      /\ total \in 0 .. Uint16 - 1 /\ remaining \in 0..total /\ orig \in 0..RespMax
      /\ open \in 0..Slots /\ absorbed \in Int
      /\ runs \in 0..MaxRuns /\ faults \in 0..MaxFaults /\ kills \in 0..MaxFaults
      /\ status \in -1..255 /\ before \in 0..Slots /\ lost \in 0..faults
  BY Zenon, Types DEF IInv
<1>3. why = "none" /\ ret = 0 /\ status = -1 /\ open <= before + 1 + lost
  BY <1>1, Running
<1>4. /\ OpenBut(0) /\ (top <= size \/ (lost > 0 /\ top <= 19))
      /\ absorbed = NoSequence
  BY Zenon, <1>1 DEF IInv, OpenInv, BufferInv, HashInv
<1>5. /\ total' = total /\ remaining' = remaining /\ orig' = orig
      /\ runs' = runs /\ kills' = kills /\ status' = status /\ before' = before
  BY Zenon DEF Request, locals, Counted
<1>6. \/ /\ Refusal(o) # 0 /\ Quit(Refusal(o), "arguments") /\ UNCHANGED <<buffer, tpm, device>>
      \/ /\ \E w \in {"arguments", "buffer"} : Quit(EINVAL, w)
         /\ UNCHANGED <<buffer, tpm, device>>
      \/ /\ Refusal(o) = 0
         /\ Transmit(size, AnswerSizes(o), UNCHANGED tpm, "answer")
  BY Zenon DEF Request
<1>7. {"arguments", "buffer", "device"} \subseteq Causes \ {"none", "request"}
  BY DEF Causes
<1>8. o.opt \notin HashOptions \union {"h"}
  BY <1>1 DEF HashOptions
<1>9. ASSUME NEW code \in {BAD_CMD, EINVAL}, NEW w \in {"arguments", "buffer"}, Quit(code, w),
             UNCHANGED <<buffer, tpm, device>>
      PROVE  IInv'
  <2>1. /\ pc' = "exit" /\ ret' = code /\ why' = w /\ rest' = rest /\ extra' = extra
        /\ size' = size /\ top' = top /\ rc' = rc /\ open' = open /\ absorbed' = absorbed
        /\ faults' = faults /\ lost' = lost
    BY Zenon, <1>9 DEF Quit, buffer, tpm, device
  <2>2. QED
    BY Zenon, <1>1, <1>2, <1>3, <1>5, <1>7, <2>1, Quits
<1>10. CASE Refusal(o) # 0 /\ Quit(Refusal(o), "arguments") /\ UNCHANGED <<buffer, tpm, device>>
  <2>1. Refusal(o) \in {BAD_CMD, EINVAL}
    <3>1. Refusal(o) \in {0, BAD_CMD, EINVAL}
      BY Zenon, <1>1, <1>8, RefusalCode
    <3>2. QED
      BY <1>10, <3>1
  <2>2. QED
    BY Zenon, <1>9, <1>10, <2>1
<1>11. CASE /\ Refusal(o) = 0
            /\ Transmit(size, AnswerSizes(o), UNCHANGED tpm, "answer")
  <2>1. \/ /\ \E n \in AnswerSizes(o) : Answered(size, n, 0)
           /\ UNCHANGED tpm /\ GoOn("answer") /\ UNCHANGED device
        \/ /\ \E code \in TpmErrors : Answered(size, Header, code)
           /\ GoOn("answer") /\ UNCHANGED <<tpm, device>>
        \/ /\ faults < MaxFaults /\ faults' = faults + 1
           /\ size' = size /\ top' = Cleared(size) /\ rc' = 0
           /\ UNCHANGED tpm /\ Quit(EIO, "device") /\ UNCHANGED lost
        \/ ShortWrite(size, "answer")
    BY Zenon, <1>11 DEF Transmit, DeviceFails
  <2>2. CASE /\ \E n \in AnswerSizes(o) : Answered(size, n, 0)
             /\ UNCHANGED tpm /\ GoOn("answer") /\ UNCHANGED device
    <3>1. PICK n \in AnswerSizes(o) : Answered(size, n, 0)
      BY Zenon, <2>2
    <3>2. /\ pc' = "answer" /\ rest' = rest /\ extra' = extra /\ ret' = ret /\ why' = why
          /\ open' = open /\ absorbed' = absorbed /\ faults' = faults /\ lost' = lost
      BY Zenon, <2>2 DEF GoOn, tpm, device
    <3>3. n \in 10..435
      <4>1. o.opt # "?"
        <5>1. o.opt = "?" => Refusal(o) = BAD_CMD
          BY Zenon DEF Refusal
        <5>2. BAD_CMD # 0
          BY Codes
        <5>3. QED
          BY <1>11, <5>1, <5>2
      <4>2. QED
        BY <1>1, <1>8, <4>1, AnswerSize
    <3>4. n \in 0..RespMax
      BY SMT, <3>3, Sizes
    <3>5. /\ size' = n /\ rc' = 0 /\ top' \in 0..RespMax
          /\ top' = n \/ (lost' > 0 /\ top' <= 19)
      BY Zenon, <1>2, <1>4, <3>1, <3>2, <3>4, Extent
    <3>6. pc' \in Labels /\ rc' \in Nat /\ size' \in 0..RespMax
      BY <3>2, <3>4, <3>5 DEF Labels
    <3>7. TypeOK'
      BY Zenon, <1>2, <1>5, <3>2, <3>5, <3>6 DEF TypeOK
    <3>8. OptionInv' /\ BufferInv' /\ HashInv'
      BY <1>1, <1>4, <1>8, <3>2, <3>5, NoHandle DEF OptionInv, BufferInv, HashInv, NoStaleBytes, HashedWhole, HashOptions
    <3>9. OpenInv' /\ StatusInv'
      BY <1>3, <1>4, <1>5, <3>2, <3>5 DEF OpenInv, OpenBut, SequencesClosed, StatusInv, ExitHonest, UpdatesFit
    <3>10. QED
      BY Zenon, <3>7, <3>8, <3>9 DEF IInv
  <2>3. CASE /\ \E code \in TpmErrors : Answered(size, Header, code)
             /\ GoOn("answer") /\ UNCHANGED <<tpm, device>>
    <3>1. PICK code \in TpmErrors : Answered(size, Header, code)
      BY Zenon, <2>3
    <3>2. /\ pc' = "answer" /\ rest' = rest /\ extra' = extra /\ ret' = ret /\ why' = why
          /\ open' = open /\ absorbed' = absorbed /\ faults' = faults /\ lost' = lost
      BY Zenon, <2>3 DEF GoOn, tpm, device
    <3>3. Header \in 0..RespMax
      BY SMT, Sizes
    <3>4. size' \in 0..RespMax /\ rc' = code /\ top' \in 0..RespMax
      BY Zenon, <1>2, <3>1, <3>3, Extent
    <3>5. QED
      BY Zenon, <1>1, <1>2, <1>5, <3>1, <3>2, <3>4, Errors
  <2>4. CASE /\ faults < MaxFaults /\ faults' = faults + 1
             /\ size' = size /\ top' = Cleared(size) /\ rc' = 0
             /\ UNCHANGED tpm /\ Quit(EIO, "device") /\ UNCHANGED lost
    <3>1. /\ pc' = "exit" /\ ret' = EIO /\ why' = "device" /\ rest' = rest /\ extra' = extra
          /\ open' = open /\ absorbed' = absorbed
      BY Zenon, <2>4 DEF Quit, tpm
    <3>2. faults' \in 0..MaxFaults /\ lost' = lost /\ lost' \in 0..faults' /\ rc' \in Nat
      BY SMT, <1>2, <2>4, Bounds
    <3>3. top' \in 0..RespMax
      BY Zenon, <1>2, <2>4, ClearedType
    <3>4. QED
      BY Zenon, <1>1, <1>2, <1>3, <1>5, <1>7, <2>4, <3>1, <3>2, <3>3, Quits
  <2>5. CASE ShortWrite(size, "answer")
    <3>1. top <= size \/ top <= 19
      BY <1>4
    <3>2. /\ pc' = "answer" /\ rest' = rest /\ extra' = extra /\ ret' = ret /\ why' = why
          /\ size' = size /\ rc' = 0 /\ top' \in 0..RespMax /\ top' <= 19
          /\ open' = open /\ absorbed' = absorbed
          /\ faults' \in 0..MaxFaults /\ lost' \in 0..faults' /\ lost' = lost + 1 /\ lost' > 0
      BY Zenon, <1>2, <2>5, <3>1, Loses
    <3>3. pc' \in Labels /\ rc' \in Nat
      BY <3>2 DEF Labels
    <3>4. TypeOK'
      BY Zenon, <1>2, <1>5, <3>2, <3>3 DEF TypeOK
    <3>5. OptionInv' /\ BufferInv' /\ HashInv'
      BY <1>1, <1>4, <1>8, <3>2, NoHandle
         DEF OptionInv, BufferInv, HashInv, NoStaleBytes, HashedWhole, HashOptions
    <3>6. OpenInv' /\ StatusInv'
      BY <1>2, <1>3, <1>4, <1>5, <3>2, Bounds
         DEF OpenInv, OpenBut, SequencesClosed, StatusInv, ExitHonest, UpdatesFit
    <3>7. QED
      BY Zenon, <3>4, <3>5, <3>6 DEF IInv
  <2>6. QED
    BY Zenon, <2>1, <2>2, <2>3, <2>4, <2>5
<1>12. QED
  BY Zenon, <1>6, <1>9, <1>10, <1>11

LEMMA HelpInv == ASSUME IInv, Help PROVE IInv'
<1>1. /\ pc = "options" /\ rest # <<>> /\ pc' = "left" /\ rest' = Tail(rest)
      /\ extra' = extra /\ ret' = ret /\ why' = why
      /\ size' = size /\ top' = top /\ rc' = rc
      /\ total' = total /\ remaining' = remaining /\ orig' = orig
      /\ open' = open /\ absorbed' = absorbed
      /\ runs' = runs /\ faults' = faults /\ kills' = kills /\ status' = status /\ before' = before
      /\ lost' = lost
  BY Zenon DEF Help, AtOption, buffer, locals, tpm, device, Counted
<1>2. /\ rest \in Seq(Options) /\ extra \in BOOLEAN /\ ret \in Int /\ why \in Causes
      /\ size \in 0..RespMax /\ top \in 0..RespMax /\ rc \in Nat
      /\ total \in 0 .. Uint16 - 1 /\ remaining \in 0..total /\ orig \in 0..RespMax
      /\ open \in 0..Slots /\ absorbed \in Int
      /\ runs \in 0..MaxRuns /\ faults \in 0..MaxFaults /\ kills \in 0..MaxFaults
      /\ status \in -1..255 /\ before \in 0..Slots /\ lost \in 0..faults
  BY Zenon, Types DEF IInv
<1>3. why = "none" /\ ret = 0 /\ status = -1 /\ open <= before + 1 + lost
  BY <1>1, Running
<1>4. OpenBut(0)
  BY Zenon, <1>1 DEF IInv, OpenInv
<1>5. pc' \in Labels /\ rest' \in Seq(Options)
  BY <1>1, <1>2, Remainder DEF Labels
<1>6. TypeOK'
  BY Zenon, <1>1, <1>2, <1>5 DEF TypeOK
<1>7. OptionInv' /\ BufferInv' /\ HashInv'
  BY <1>1 DEF OptionInv, BufferInv, HashInv, NoStaleBytes, HashedWhole
<1>8. OpenInv' /\ StatusInv'
  BY <1>1, <1>3, <1>4 DEF OpenInv, OpenBut, SequencesClosed, StatusInv, ExitHonest, UpdatesFit
<1>9. QED
  BY Zenon, <1>6, <1>7, <1>8 DEF IInv

LEMMA ReportInv == ASSUME IInv, Report PROVE IInv'
<1>1. /\ pc = "answer"
      /\ size' = size /\ top' = top /\ rc' = rc
      /\ total' = total /\ remaining' = remaining /\ orig' = orig
      /\ open' = open /\ absorbed' = NoSequence
      /\ runs' = runs /\ faults' = faults /\ kills' = kills /\ status' = status /\ before' = before
      /\ lost' = lost
  BY Zenon DEF Report, buffer, locals, device, Counted
<1>2. /\ rest \in Seq(Options) /\ extra \in BOOLEAN /\ ret \in Int /\ why \in Causes
      /\ size \in 0..RespMax /\ top \in 0..RespMax /\ rc \in Nat
      /\ total \in 0 .. Uint16 - 1 /\ remaining \in 0..total /\ orig \in 0..RespMax
      /\ open \in 0..Slots /\ absorbed \in Int
      /\ runs \in 0..MaxRuns /\ faults \in 0..MaxFaults /\ kills \in 0..MaxFaults
      /\ status \in -1..255 /\ before \in 0..Slots /\ lost \in 0..faults
  BY Zenon, Types DEF IInv
<1>3. why = "none" /\ ret = 0 /\ status = -1 /\ open <= before + 1 + lost
  BY <1>1, Running
<1>4. /\ rest # <<>> /\ rc \in TpmErrors \union {0}
      /\ rc = 0 => OpenBut(0) /\ (top = size \/ (lost > 0 /\ top <= 19))
  BY Zenon, <1>1 DEF IInv, OptionInv, StatusInv, BufferInv, NoStaleBytes, OpenInv
<1>10. absorbed' \in Int
  BY <1>1, NoHandle
<1>5. {"tpm", "short"} \subseteq Causes \ {"none", "request"}
  BY DEF Causes
<1>6. \/ rc # 0 /\ Quit(rc, "tpm")
      \/ Quit(EINVAL, "short")
      \/ /\ rc = 0 /\ pc' = "options" /\ rest' = Tail(rest) /\ ret' = 0
         /\ extra' = extra /\ why' = why
  BY Zenon DEF Report, Following
<1>7. ASSUME NEW code \in TpmErrors \union {EINVAL}, NEW w \in {"tpm", "short"}, Quit(code, w)
      PROVE  IInv'
  <2>1. pc' = "exit" /\ ret' = code /\ why' = w /\ rest' = rest /\ extra' = extra
    BY Zenon, <1>7 DEF Quit
  <2>2. QED
    BY Zenon, <1>1, <1>2, <1>3, <1>5, <1>7, <1>10, <2>1, Quits
<1>8. CASE /\ rc = 0 /\ pc' = "options" /\ rest' = Tail(rest) /\ ret' = 0
           /\ extra' = extra /\ why' = why
  <2>1. pc' \in Labels /\ rest' \in Seq(Options) /\ ret' \in Int
    BY <1>2, <1>4, <1>8, Remainder DEF Labels
  <2>2. TypeOK'
    BY Zenon, <1>1, <1>2, <1>8, <1>10, <2>1 DEF TypeOK
  <2>3. top' <= size' \/ (lost' > 0 /\ top' <= 19)
    BY <1>1, <1>2, <1>4, <1>8
  <2>4. OptionInv' /\ BufferInv' /\ HashInv'
    BY <1>1, <1>8, <2>3 DEF OptionInv, BufferInv, HashInv, NoStaleBytes, HashedWhole
  <2>5. OpenInv' /\ StatusInv'
    BY <1>1, <1>3, <1>4, <1>8 DEF OpenInv, OpenBut, SequencesClosed, StatusInv, ExitHonest, UpdatesFit
  <2>6. QED
    BY Zenon, <2>2, <2>4, <2>5 DEF IInv
<1>9. QED
  BY Zenon, <1>4, <1>6, <1>7, <1>8

LEMMA EndInv == ASSUME IInv, EndOfOptions PROVE IInv'
<1>1. /\ pc = "options" /\ pc' = "left" /\ rest' = rest
      /\ extra' = extra /\ ret' = ret /\ why' = why
      /\ size' = size /\ top' = top /\ rc' = rc
      /\ total' = total /\ remaining' = remaining /\ orig' = orig
      /\ open' = open /\ absorbed' = absorbed
      /\ runs' = runs /\ faults' = faults /\ kills' = kills /\ status' = status /\ before' = before
      /\ lost' = lost
  BY Zenon DEF EndOfOptions, GoOn, buffer, locals, tpm, device, Counted
<1>2. /\ rest \in Seq(Options) /\ extra \in BOOLEAN /\ ret \in Int /\ why \in Causes
      /\ size \in 0..RespMax /\ top \in 0..RespMax /\ rc \in Nat
      /\ total \in 0 .. Uint16 - 1 /\ remaining \in 0..total /\ orig \in 0..RespMax
      /\ open \in 0..Slots /\ absorbed \in Int
      /\ runs \in 0..MaxRuns /\ faults \in 0..MaxFaults /\ kills \in 0..MaxFaults
      /\ status \in -1..255 /\ before \in 0..Slots /\ lost \in 0..faults
  BY Zenon, Types DEF IInv
<1>3. why = "none" /\ ret = 0 /\ status = -1 /\ open <= before + 1 + lost
  BY <1>1, Running
<1>4. OpenBut(0)
  BY Zenon, <1>1 DEF IInv, OpenInv
<1>5. pc' \in Labels
  BY <1>1 DEF Labels
<1>6. TypeOK'
  BY Zenon, <1>1, <1>2, <1>5 DEF TypeOK
<1>7. OptionInv' /\ BufferInv' /\ HashInv'
  BY <1>1 DEF OptionInv, BufferInv, HashInv, NoStaleBytes, HashedWhole
<1>8. OpenInv' /\ StatusInv'
  BY <1>1, <1>3, <1>4 DEF OpenInv, OpenBut, SequencesClosed, StatusInv, ExitHonest, UpdatesFit
<1>9. QED
  BY Zenon, <1>6, <1>7, <1>8 DEF IInv

LEMMA LeftoverInv == ASSUME IInv, Leftover PROVE IInv'
<1>1. /\ pc = "left"
      /\ \/ Quit(BAD_CMD, "arguments")
         \/ rest = <<>> /\ GoOn("exit")
      /\ size' = size /\ top' = top /\ rc' = rc
      /\ total' = total /\ remaining' = remaining /\ orig' = orig
      /\ open' = open /\ absorbed' = absorbed
      /\ runs' = runs /\ faults' = faults /\ kills' = kills /\ status' = status /\ before' = before
      /\ lost' = lost
  BY Zenon DEF Leftover, buffer, locals, tpm, device, Counted
<1>2. /\ rest \in Seq(Options) /\ extra \in BOOLEAN /\ ret \in Int /\ why \in Causes
      /\ size \in 0..RespMax /\ top \in 0..RespMax /\ rc \in Nat
      /\ total \in 0 .. Uint16 - 1 /\ remaining \in 0..total /\ orig \in 0..RespMax
      /\ open \in 0..Slots /\ absorbed \in Int
      /\ runs \in 0..MaxRuns /\ faults \in 0..MaxFaults /\ kills \in 0..MaxFaults
      /\ status \in -1..255 /\ before \in 0..Slots /\ lost \in 0..faults
  BY Zenon, Types DEF IInv
<1>3. why = "none" /\ ret = 0 /\ status = -1 /\ open <= before + 1 + lost
  BY <1>1, Running
<1>4. OpenBut(0)
  BY Zenon, <1>1 DEF IInv, OpenInv
<1>5. CASE Quit(BAD_CMD, "arguments")
  <2>1. pc' = "exit" /\ ret' = BAD_CMD /\ why' = "arguments" /\ rest' = rest /\ extra' = extra
    BY Zenon, <1>5 DEF Quit
  <2>2. "arguments" \in Causes \ {"none", "request"}
    BY DEF Causes
  <2>3. QED
    BY Zenon, <1>1, <1>2, <1>3, <2>1, <2>2, Quits
<1>6. CASE rest = <<>> /\ GoOn("exit")
  <2>1. pc' = "exit" /\ rest' = rest /\ extra' = extra /\ ret' = ret /\ why' = why
    BY Zenon, <1>6 DEF GoOn
  <2>2. pc' \in Labels
    BY <2>1 DEF Labels
  <2>3. TypeOK'
    BY Zenon, <1>1, <1>2, <2>1, <2>2 DEF TypeOK
  <2>4. OptionInv' /\ BufferInv' /\ HashInv'
    BY <2>1 DEF OptionInv, BufferInv, HashInv, NoStaleBytes, HashedWhole
  <2>5. OpenInv' /\ StatusInv'
    BY <1>1, <1>3, <1>4, <1>6, <2>1 DEF OpenInv, OpenBut, SequencesClosed, StatusInv, ExitHonest, UpdatesFit
  <2>6. QED
    BY Zenon, <2>3, <2>4, <2>5 DEF IInv
<1>7. QED
  BY Zenon, <1>1, <1>5, <1>6

(* Of all the codes main returns only 0 has a low byte of 0.                *)
LEMMA LowByte ==
  ASSUME NEW code \in TpmErrors \union {0, BAD_CMD, EINVAL, EIO}
  PROVE  Mapped(code) % 256 \in 0..255 /\ (Mapped(code) % 256 = 0 <=> code = 0)
<1>1. CASE code \in TpmErrors
  <2>1. code \in Nat /\ code # 0 /\ (code % 256 = 0 => code = TPM_RC_INITIALIZE)
    BY <1>1, Bounds, ErrorAssumption
  <2>2. QED
    BY SMT, <2>1, Codes DEF Mapped
<1>2. CASE code \in {0, BAD_CMD, EINVAL, EIO}
  BY SMT, <1>2, Codes DEF Mapped
<1>3. QED
  BY Zenon, <1>1, <1>2

(* The process is gone.                                                     *)
LEMMA GoneInv ==
  ASSUME IInv, Gone, why' \in Causes \ {"request"},
         status' \in -1..255, status' # -1 => (status' = 0 <=> why' = "none"),
         open' = open, before' = before, open <= before + 1 + lost, status' = 0 => OpenBut(0),
         runs' = runs, faults' = faults, kills' \in 0..MaxFaults, lost' = lost
  PROVE  IInv'
<1>1. /\ pc' = "idle" /\ rest' = <<>> /\ extra' = FALSE /\ ret' = 0
      /\ size' = 0 /\ top' = 0 /\ rc' = 0
      /\ total' = 0 /\ remaining' = 0 /\ orig' = 0 /\ absorbed' = NoSequence
  BY Zenon DEF Gone
<1>2. /\ open \in 0..Slots /\ runs \in 0..MaxRuns /\ faults \in 0..MaxFaults /\ before \in 0..Slots
      /\ lost \in 0..faults
  BY Zenon, Types DEF IInv
<1>3. rest' \in Seq(Options)
  BY <1>1
<1>9. pc' \in Labels /\ extra' \in BOOLEAN
  BY <1>1 DEF Labels
<1>4. /\ ret' \in Int /\ size' \in 0..RespMax /\ top' \in 0..RespMax /\ rc' \in Nat
      /\ total' \in 0 .. Uint16 - 1 /\ remaining' \in 0..total' /\ orig' \in 0..RespMax
      /\ absorbed' \in Int
  BY SMT, <1>1, Sizes, NoHandle
<1>5. TypeOK'
  BY Zenon, <1>2, <1>3, <1>4, <1>9 DEF TypeOK
<1>6. OptionInv' /\ BufferInv' /\ HashInv'
  BY <1>1 DEF OptionInv, BufferInv, HashInv, NoStaleBytes, HashedWhole
<1>7. OpenInv' /\ StatusInv'
  BY <1>1, <1>2, Bounds DEF OpenInv, OpenBut, SequencesClosed, StatusInv, ExitHonest, UpdatesFit
<1>8. QED
  BY Zenon, <1>5, <1>6, <1>7 DEF IInv

LEMMA ExitInv == ASSUME IInv, Exit PROVE IInv'
<1>1. /\ pc = "exit" /\ status' = Mapped(ret) % 256 /\ Gone /\ why' = why
      /\ open' = open /\ runs' = runs /\ faults' = faults /\ kills' = kills /\ before' = before
      /\ lost' = lost
  BY Zenon DEF Exit, device
<1>2. kills \in 0..MaxFaults /\ why \in Causes
  BY Zenon, Types DEF IInv
<1>3. /\ ret \in TpmErrors \union {0, BAD_CMD, EINVAL, EIO} /\ (why = "none" <=> ret = 0)
      /\ why # "request" /\ open <= before + 1 + lost /\ (why = "none" => OpenBut(0))
  <2>1. StatusInv /\ OpenInv
    BY Zenon DEF IInv
  <2>2. QED
    BY Zenon, <1>1, <2>1 DEF StatusInv, UpdatesFit, OpenInv, SequencesClosed
<1>4. status' \in 0..255 /\ (status' = 0 <=> ret = 0)
  BY Zenon, <1>1, <1>3, LowByte
<1>5. status' \in -1..255
  BY <1>4
<1>6. QED
  BY Zenon, <1>1, <1>2, <1>3, <1>4, <1>5, GoneInv

LEMMA KillInv == ASSUME IInv, Kill PROVE IInv'
<1>1. /\ pc \notin {"idle", "exit"} /\ kills < MaxFaults /\ kills' = kills + 1
      /\ why' = "killed" /\ Gone
      /\ open' = open /\ runs' = runs /\ faults' = faults /\ status' = status /\ before' = before
      /\ lost' = lost
  BY Zenon DEF Kill, device
<1>2. kills \in 0..MaxFaults /\ pc \in Labels
  BY Zenon, Types DEF IInv
<1>3. pc \in {"options", "answer", "left", "split", "update"}
  BY <1>1, <1>2 DEF Labels
<1>4. status = -1 /\ open <= before + 1 + lost
  BY <1>3, Running
<1>5. kills' \in 0..MaxFaults /\ status' \in -1..255 /\ status' # 0 /\ why' \in Causes \ {"request"}
  BY <1>1, <1>2, <1>4, Bounds DEF Causes
<1>6. status' = -1
  BY <1>1, <1>4
<1>7. QED
  BY Zenon, <1>1, <1>4, <1>5, <1>6, GoneInv

-----------------------------------------------------------------------------
(* The steps of create_hash_sequence                                       *)

LEMMA SeqRefusedInv == ASSUME IInv, SeqRefused PROVE IInv'
<1>1. pc = "options" /\ rest # <<>>
  BY Zenon, AtHand DEF SeqRefused
<1>2. /\ rest \in Seq(Options) /\ extra \in BOOLEAN /\ ret \in Int /\ why \in Causes
      /\ size \in 0..RespMax /\ top \in 0..RespMax /\ rc \in Nat
      /\ total \in 0 .. Uint16 - 1 /\ remaining \in 0..total /\ orig \in 0..RespMax
      /\ open \in 0..Slots /\ absorbed \in Int
      /\ runs \in 0..MaxRuns /\ faults \in 0..MaxFaults /\ kills \in 0..MaxFaults
      /\ status \in -1..255 /\ before \in 0..Slots /\ lost \in 0..faults
  BY Zenon, Types DEF IInv
<1>3. why = "none" /\ ret = 0 /\ status = -1 /\ open <= before + 1 + lost
  BY <1>1, Running
<1>4. /\ pc' = "exit" /\ ret' = EINVAL /\ why' = "buffer" /\ rest' = rest /\ extra' = extra
      /\ top' = Cleared(size) /\ rc' = 0 /\ size' = size
      /\ total' = total /\ remaining' = remaining /\ orig' = orig
      /\ open' = open /\ absorbed' = absorbed
      /\ runs' = runs /\ faults' = faults /\ kills' = kills /\ status' = status /\ before' = before
      /\ lost' = lost
  BY Zenon DEF SeqRefused, Quit, locals, tpm, device, Counted
<1>5. "buffer" \in Causes \ {"none", "request"}
  BY DEF Causes
<1>6. rc' \in Nat
  BY <1>4
<1>7. top' \in 0..RespMax
  BY Zenon, <1>2, <1>4, ClearedType
<1>8. QED
  BY Zenon, <1>1, <1>2, <1>3, <1>4, <1>5, <1>6, <1>7, Quits

LEMMA SeqStartInv == ASSUME IInv, SeqStart PROVE IInv'
<1> DEFINE effect == open < Slots /\ open' = open + 1 /\ absorbed' = 0
<1>1. pc = "options" /\ rest # <<>> /\ Head(rest).opt \in HashOptions
  BY Zenon, AtHand DEF SeqStart, HashOptions
<1>2. /\ rest \in Seq(Options) /\ extra \in BOOLEAN /\ ret \in Int /\ why \in Causes
      /\ size \in 0..RespMax /\ top \in 0..RespMax /\ rc \in Nat
      /\ total \in 0 .. Uint16 - 1 /\ remaining \in 0..total /\ orig \in 0..RespMax
      /\ open \in 0..Slots /\ absorbed \in Int
      /\ runs \in 0..MaxRuns /\ faults \in 0..MaxFaults /\ kills \in 0..MaxFaults
      /\ status \in -1..255 /\ before \in 0..Slots /\ lost \in 0..faults
  BY Zenon, Types DEF IInv
<1>3. why = "none" /\ ret = 0 /\ status = -1 /\ open <= before + 1 + lost
  BY <1>1, Running
<1>4. /\ OpenBut(0) /\ (top <= size \/ (lost > 0 /\ top <= 19))
      /\ absorbed = NoSequence
  BY Zenon, <1>1 DEF IInv, OpenInv, BufferInv, HashInv
<1>5. /\ size >= Header + 4 /\ orig' = size /\ total' = total /\ remaining' = remaining
      /\ runs' = runs /\ kills' = kills /\ status' = status /\ before' = before
  BY Zenon DEF SeqStart, Counted
<1>6. \/ /\ \E n \in {14} : Answered(size, n, 0)
         /\ effect /\ GoOn("split") /\ UNCHANGED device
      \/ /\ \E code \in TpmErrors : Answered(size, Header, code)
         /\ GoOn("answer") /\ UNCHANGED <<tpm, device>>
      \/ /\ faults < MaxFaults /\ faults' = faults + 1
         /\ size' = size /\ top' = Cleared(size) /\ rc' = 0
         /\ effect \/ UNCHANGED tpm
         /\ Quit(EIO, "device") /\ UNCHANGED lost
      \/ ShortWrite(size, "split")
  BY Zenon DEF SeqStart, Transmit, DeviceFails
<1>7. CASE /\ \E n \in {14} : Answered(size, n, 0)
           /\ effect /\ GoOn("split") /\ UNCHANGED device
  <2>1. Answered(size, 14, 0)
    BY Zenon, <1>7
  <2>2. /\ pc' = "split" /\ rest' = rest /\ extra' = extra /\ ret' = ret /\ why' = why
        /\ open < Slots /\ open' = open + 1 /\ absorbed' = 0 /\ faults' = faults
        /\ lost' = lost
    BY Zenon, <1>7 DEF GoOn, device
  <2>3. 14 \in 0..RespMax
    BY SMT, Sizes
  <2>4. size' = 14 /\ rc' = 0 /\ top' \in 0..RespMax /\ (top' = 14 \/ top' <= 19)
    BY Zenon, <1>2, <1>4, <2>1, <2>3, Extent
  <2>5. /\ pc' \in Labels /\ rc' \in Nat /\ size' \in 0..RespMax /\ absorbed' \in Int
        /\ open' \in 0..Slots
    BY <1>2, <2>2, <2>3, <2>4, Bounds DEF Labels
  <2>6. TypeOK'
    BY Zenon, <1>2, <1>5, <2>2, <2>4, <2>5 DEF TypeOK
  <2>7. OptionInv' /\ HashInv'
    BY <1>1, <2>2 DEF OptionInv, HashInv, HashedWhole
  <2>8. BufferInv'
    BY <1>2, <1>5, <2>2, <2>4, Sizes DEF BufferInv, NoStaleBytes
  <2>9. OpenInv' /\ StatusInv'
    BY <1>2, <1>3, <1>4, <1>5, <2>2, NoHandle, Bounds DEF OpenInv, OpenBut, SequencesClosed, StatusInv, ExitHonest, UpdatesFit
  <2>10. QED
    BY Zenon, <2>6, <2>7, <2>8, <2>9 DEF IInv
<1>8. CASE /\ \E code \in TpmErrors : Answered(size, Header, code)
           /\ GoOn("answer") /\ UNCHANGED <<tpm, device>>
  <2>1. PICK code \in TpmErrors : Answered(size, Header, code)
    BY Zenon, <1>8
  <2>2. /\ pc' = "answer" /\ rest' = rest /\ extra' = extra /\ ret' = ret /\ why' = why
        /\ open' = open /\ absorbed' = absorbed /\ faults' = faults /\ lost' = lost
    BY Zenon, <1>8 DEF GoOn, tpm, device
  <2>3. Header \in 0..RespMax
    BY SMT, Sizes
  <2>4. size' \in 0..RespMax /\ rc' = code /\ top' \in 0..RespMax
    BY Zenon, <1>2, <2>1, <2>3, Extent
  <2>5. QED
    BY Zenon, <1>1, <1>2, <1>5, <2>1, <2>2, <2>4, Errors
<1>9. CASE /\ faults < MaxFaults /\ faults' = faults + 1
           /\ size' = size /\ top' = Cleared(size) /\ rc' = 0
           /\ effect \/ UNCHANGED tpm
           /\ Quit(EIO, "device") /\ UNCHANGED lost
  <2>1. /\ pc' = "exit" /\ ret' = EIO /\ why' = "device" /\ rest' = rest /\ extra' = extra
        /\ \/ open < Slots /\ open' = open + 1 /\ absorbed' = 0
           \/ open' = open /\ absorbed' = absorbed
    BY Zenon, <1>9 DEF Quit, tpm
  <2>2. faults' \in 0..MaxFaults /\ lost' = lost /\ lost' \in 0..faults' /\ rc' \in Nat
    BY SMT, <1>2, <1>9, Bounds
  <2>3. open' \in 0..Slots /\ open' <= before + 1 + lost /\ absorbed' \in Int
    BY SMT, <1>2, <1>4, <2>1, Bounds DEF OpenBut
  <2>4. top' \in 0..RespMax
    BY Zenon, <1>2, <1>9, ClearedType
  <2>5. "device" \in Causes \ {"none", "request"}
    BY DEF Causes
  <2>6. QED
    BY Zenon, <1>1, <1>2, <1>5, <1>9, <2>1, <2>2, <2>3, <2>4, <2>5, Quits
<1>10. CASE ShortWrite(size, "split")
  <2>1. top <= size \/ top <= 19
    BY <1>4
  <2>2. /\ pc' = "split" /\ rest' = rest /\ extra' = extra /\ ret' = ret /\ why' = why
        /\ size' = size /\ rc' = 0 /\ top' \in 0..RespMax /\ top' <= 19
        /\ open' = open /\ absorbed' = absorbed
        /\ faults' \in 0..MaxFaults /\ lost' \in 0..faults' /\ lost' = lost + 1 /\ lost' > 0
    BY Zenon, <1>2, <1>10, <2>1, Loses
  <2>3. pc' \in Labels /\ rc' \in Nat
    BY <2>2 DEF Labels
  <2>4. TypeOK'
    BY Zenon, <1>2, <1>5, <2>2, <2>3 DEF TypeOK
  <2>5. OptionInv' /\ BufferInv'
    BY <1>1, <1>5, <2>2 DEF OptionInv, BufferInv, NoStaleBytes
  <2>6. HashInv'
    BY <1>2, <1>4, <2>2, NoHandle DEF HashInv, HashedWhole
  <2>7. OpenInv' /\ StatusInv'
    BY <1>2, <1>3, <1>4, <1>5, <2>2, Bounds
       DEF OpenInv, OpenBut, SequencesClosed, StatusInv, ExitHonest, UpdatesFit
  <2>8. QED
    BY Zenon, <2>4, <2>5, <2>6, <2>7 DEF IInv
<1>11. QED
  BY Zenon, <1>6, <1>7, <1>8, <1>9, <1>10

(* The data of a sequence fits in its counters if it is not refused.        *)
LEMMA WholeArgument ==
  ASSUME NEW o \in Options
  PROVE  /\ DataSize(o.digits) \in 0 .. Uint16 - 1
         /\ HexRefused(o.digits, o.wellFormed, DataSize(o.digits)) \in {0, EINVAL}
         /\ HexRefused(o.digits, o.wellFormed, DataSize(o.digits)) = 0 =>
              DataSize(o.digits) = Bytes(o.digits)
<1>1. o.digits \in Nat
  BY DEF Options
<1>2. Bytes(o.digits) \in Nat
  BY <1>1 DEF Bytes
<1>3. /\ DataSize(o.digits) \in 0 .. Uint16 - 1
      /\ DataSize(o.digits) <= Bytes(o.digits)
  <2>1. \A b \in Nat, n \in Nat \ {0} : b % n \in 0 .. n - 1
    BY SMT
  <2>2. \A b \in Nat, n \in Nat \ {0} : b % n <= b
    BY SMT
  <2>3. QED
    BY Zenon, <1>2, <2>1, <2>2, Sizes DEF DataSize
<1>7. EINVAL # 0
  BY Codes
<1>4. HexRefused(o.digits, o.wellFormed, DataSize(o.digits)) \in {0, EINVAL}
  BY Zenon DEF HexRefused
<1>5. HexRefused(o.digits, o.wellFormed, DataSize(o.digits)) = 0 =>
        ~ (Bytes(o.digits) > DataSize(o.digits))
  BY Zenon, <1>7 DEF HexRefused
<1>6. QED
  BY SMT, <1>2, <1>3, <1>4, <1>5

LEMMA SeqSplitInv == ASSUME IInv, SeqSplit PROVE IInv'
<1> DEFINE o == Head(rest)
           refused == HexRefused(o.digits, o.wellFormed, DataSize(o.digits))
<1>1. /\ pc = "split" /\ total' = DataSize(o.digits) /\ remaining' = DataSize(o.digits)
      /\ \/ refused = 0 /\ GoOn("update")
         \/ refused # 0 /\ Quit(refused, "arguments")
      /\ orig' = orig /\ size' = size /\ top' = top /\ rc' = rc
      /\ open' = open /\ absorbed' = absorbed
      /\ runs' = runs /\ faults' = faults /\ kills' = kills /\ status' = status /\ before' = before
      /\ lost' = lost
  BY Zenon DEF SeqSplit, buffer, tpm, device, Counted
<1>2. /\ rest \in Seq(Options) /\ extra \in BOOLEAN /\ ret \in Int /\ why \in Causes
      /\ size \in 0..RespMax /\ top \in 0..RespMax /\ rc \in Nat
      /\ total \in 0 .. Uint16 - 1 /\ remaining \in 0..total /\ orig \in 0..RespMax
      /\ open \in 0..Slots /\ absorbed \in Int
      /\ runs \in 0..MaxRuns /\ faults \in 0..MaxFaults /\ kills \in 0..MaxFaults
      /\ status \in -1..255 /\ before \in 0..Slots /\ lost \in 0..faults
  BY Zenon, Types DEF IInv
<1>3. why = "none" /\ ret = 0 /\ status = -1 /\ open <= before + 1 + lost
  BY <1>1, Running
<1>4. /\ rest # <<>> /\ o.opt \in HashOptions
      /\ absorbed # -1 /\ (lost = 0 => absorbed = 0)
      /\ OpenBut(IF absorbed = NoSequence THEN 0 ELSE 1)
      /\ Header + 4 <= orig /\ (top <= orig \/ top <= 19)
  BY Zenon, <1>1 DEF IInv, OptionInv, BufferInv, HashInv, OpenInv
<1>5. o \in Options
  BY <1>2, <1>4, Remainder
<1>6. /\ DataSize(o.digits) \in 0 .. Uint16 - 1 /\ refused \in {0, EINVAL}
      /\ refused = 0 => DataSize(o.digits) = Bytes(o.digits)
  BY Zenon, <1>5, WholeArgument
<1>7. total' \in 0 .. Uint16 - 1 /\ remaining' \in 0..total'
  BY SMT, <1>1, <1>6, Sizes
<1>8. CASE refused = 0 /\ GoOn("update")
  <2>1. pc' = "update" /\ rest' = rest /\ extra' = extra /\ ret' = ret /\ why' = why
    BY Zenon, <1>8 DEF GoOn
  <2>2. pc' \in Labels
    BY <2>1 DEF Labels
  <2>3. TypeOK'
    BY Zenon, <1>1, <1>2, <1>7, <2>1, <2>2 DEF TypeOK
  <2>4. OptionInv' /\ BufferInv'
    BY <1>1, <1>4, <2>1 DEF OptionInv, BufferInv, NoStaleBytes
  <2>5. total' = Bytes(Head(rest').digits) /\ (lost' = 0 => absorbed' = total' - remaining')
    BY <1>1, <1>4, <1>6, <1>7, <1>8, <2>1
  <2>6. HashInv'
    BY <1>1, <1>4, <2>1, <2>5 DEF HashInv, HashedWhole
  <2>7. OpenInv' /\ StatusInv'
    BY <1>1, <1>3, <1>4, <2>1 DEF OpenInv, OpenBut, SequencesClosed, StatusInv, ExitHonest, UpdatesFit
  <2>8. QED
    BY Zenon, <2>3, <2>4, <2>6, <2>7 DEF IInv
<1>9. CASE refused # 0 /\ Quit(refused, "arguments")
  <2>1. pc' = "exit" /\ ret' = refused /\ why' = "arguments" /\ rest' = rest /\ extra' = extra
    BY Zenon, <1>9 DEF Quit
  <2>2. "arguments" \in Causes \ {"none", "request"}
    BY DEF Causes
  <2>3. refused = EINVAL
    BY Zenon, <1>6, <1>9
  <2>4. QED
    BY Zenon, <1>1, <1>2, <1>3, <1>7, <2>1, <2>2, <2>3, Quits
<1>10. QED
  BY Zenon, <1>1, <1>8, <1>9

LEMMA Chunk ==
  ASSUME remaining \in Nat, remaining > 0
  PROVE  /\ TransferBytes \in 1..remaining
         /\ TransferBytes + UpdateSize \in 1..ReqMax
  BY SMT, Sizes DEF TransferBytes

LEMMA SeqUpdateInv == ASSUME IInv, SeqUpdate PROVE IInv'
<1>1. /\ pc = "update" /\ remaining > 0
      /\ remaining' = (IF pc' = "update" THEN Left ELSE remaining)
      /\ total' = total /\ orig' = orig
      /\ runs' = runs /\ kills' = kills /\ status' = status /\ before' = before
  BY Zenon DEF SeqUpdate, Counted
<1>2. /\ rest \in Seq(Options) /\ extra \in BOOLEAN /\ ret \in Int /\ why \in Causes
      /\ size \in 0..RespMax /\ top \in 0..RespMax /\ rc \in Nat
      /\ total \in 0 .. Uint16 - 1 /\ remaining \in 0..total /\ orig \in 0..RespMax
      /\ open \in 0..Slots /\ absorbed \in Int
      /\ runs \in 0..MaxRuns /\ faults \in 0..MaxFaults /\ kills \in 0..MaxFaults
      /\ status \in -1..255 /\ before \in 0..Slots /\ lost \in 0..faults
  BY Zenon, Types DEF IInv
<1>3. why = "none" /\ ret = 0 /\ status = -1 /\ open <= before + 1 + lost
  BY <1>1, Running
<1>4. /\ rest # <<>> /\ Head(rest).opt \in HashOptions
      /\ total = Bytes(Head(rest).digits) /\ (lost = 0 => absorbed = total - remaining)
      /\ absorbed # -1 /\ OpenBut(IF absorbed = NoSequence THEN 0 ELSE 1)
      /\ Header + 4 <= orig /\ (top <= orig \/ top <= 19)
  BY Zenon, <1>1 DEF IInv, OptionInv, BufferInv, HashInv, OpenInv
<1>5. /\ total \in Nat /\ remaining \in Nat
      /\ \A r \in 0..remaining : r \in 0..total
  BY SMT, <1>2, Sizes
<1>6. TransferBytes \in 1..remaining /\ TransferBytes + UpdateSize \in 1..ReqMax
  BY Zenon, <1>1, <1>5, Chunk
<1>7. Accepted(TransferBytes + UpdateSize, orig)
  BY SMT, <1>2, <1>4, <1>6, Sizes DEF Accepted
<1>8. Absorbs => /\ open' = open /\ absorbed # NoSequence
                 /\ absorbed' \in Int \ {-1, NoSequence}
                 /\ lost = 0 => absorbed' = absorbed + TransferBytes
  <2>1. TransferFrom \in Nat /\ TransferFrom = total - remaining
    BY SMT, <1>2, <1>5 DEF TransferFrom
  <2>2. Absorbs => /\ open' = open /\ absorbed # NoSequence
                   /\ \/ absorbed = TransferFrom /\ absorbed' = absorbed + TransferBytes
                      \/ absorbed # TransferFrom /\ absorbed' = Garbled
    BY Zenon DEF Absorbs
  <2>3. lost = 0 => absorbed = TransferFrom
    BY <1>4, <2>1
  <2>4. absorbed = TransferFrom => absorbed + TransferBytes \in Nat
    BY SMT, <1>5, <1>6, <2>1
  <2>5. Garbled \in Int \ {-1, NoSequence} /\ \A k \in Nat : k \in Int \ {-1, NoSequence}
    BY SMT, NoHandle
  <2>6. QED
    BY Zenon, <2>2, <2>3, <2>4, <2>5
<1>9. Left \in 0..remaining /\ Left = remaining - TransferBytes
  BY SMT, <1>5, <1>6 DEF Left
<1>10. \/ /\ \E n \in {19} : Answered(orig, n, 0)
          /\ Absorbs /\ GoOn("update") /\ UNCHANGED device
       \/ /\ \E code \in TpmErrors : Answered(orig, Header, code)
          /\ GoOn("answer") /\ UNCHANGED <<tpm, device>>
       \/ /\ faults < MaxFaults /\ faults' = faults + 1
          /\ size' = orig /\ top' = Cleared(orig) /\ rc' = 0
          /\ Absorbs \/ UNCHANGED tpm
          /\ Quit(EIO, "device") /\ UNCHANGED lost
       \/ ShortWrite(orig, "update")
  BY Zenon, <1>7 DEF SeqUpdate, Transmit, DeviceFails, NextUpdate
<1>11. CASE /\ \E n \in {19} : Answered(orig, n, 0)
            /\ Absorbs /\ GoOn("update") /\ UNCHANGED device
  <2>1. Answered(orig, 19, 0)
    BY Zenon, <1>11
  <2>2. /\ pc' = "update" /\ rest' = rest /\ extra' = extra /\ ret' = ret /\ why' = why
        /\ open' = open /\ absorbed # NoSequence /\ absorbed' \in Int \ {-1, NoSequence}
        /\ lost = 0 => absorbed' = absorbed + TransferBytes
        /\ faults' = faults /\ lost' = lost
        /\ remaining' = remaining - TransferBytes /\ remaining' = Left
    BY Zenon, <1>1, <1>8, <1>9, <1>11 DEF GoOn, device
  <2>3. 19 \in 0..RespMax
    BY SMT, Sizes
  <2>4. size' = 19 /\ rc' = 0 /\ top' \in 0..RespMax /\ top' = 19
    BY Zenon, <1>2, <1>4, <2>1, <2>3, Extent
  <2>5. pc' \in Labels /\ rc' \in Nat /\ size' \in 0..RespMax
    BY <2>2, <2>3, <2>4 DEF Labels
  <2>6. /\ remaining' \in 0..total' /\ absorbed' \in Int /\ absorbed' # -1
        /\ lost' = 0 => absorbed' = total' - remaining'
    <3>1. total' = total
      BY Zenon, <1>1
    <3>2. remaining' \in 0..total'
      BY Zenon, <1>5, <1>9, <2>2, <3>1
    <3>3. TransferBytes \in Int
      BY <1>6
    <3>4. QED
      BY SMT, <1>4, <1>5, <2>2, <3>1, <3>2, <3>3
  <2>7. TypeOK'
    BY Zenon, <1>1, <1>2, <2>2, <2>4, <2>5, <2>6 DEF TypeOK
  <2>8. OptionInv' /\ BufferInv'
    BY <1>1, <1>4, <2>2, <2>4 DEF OptionInv, BufferInv, NoStaleBytes
  <2>9. HashInv'
    BY <1>1, <1>4, <2>2, <2>6 DEF HashInv, HashedWhole
  <2>10. OpenInv' /\ StatusInv'
    BY <1>1, <1>2, <1>3, <1>4, <2>2, <2>6, Bounds DEF OpenInv, OpenBut, SequencesClosed, StatusInv, ExitHonest, UpdatesFit
  <2>11. QED
    BY Zenon, <2>7, <2>8, <2>9, <2>10 DEF IInv
<1>12. CASE /\ \E code \in TpmErrors : Answered(orig, Header, code)
            /\ GoOn("answer") /\ UNCHANGED <<tpm, device>>
  <2>1. PICK code \in TpmErrors : Answered(orig, Header, code)
    BY Zenon, <1>12
  <2>2. /\ pc' = "answer" /\ rest' = rest /\ extra' = extra /\ ret' = ret /\ why' = why
        /\ open' = open /\ absorbed' = absorbed /\ faults' = faults /\ lost' = lost
    BY Zenon, <1>12 DEF GoOn, tpm, device
  <2>3. Header \in 0..RespMax
    BY SMT, Sizes
  <2>4. size' \in 0..RespMax /\ rc' = code /\ top' \in 0..RespMax
    BY Zenon, <1>2, <2>1, <2>3, Extent
  <2>5. remaining' = remaining
    BY <1>1, <2>2
  <2>6. QED
    BY Zenon, <1>1, <1>2, <1>4, <2>1, <2>2, <2>4, <2>5, Errors
<1>13. CASE /\ faults < MaxFaults /\ faults' = faults + 1
            /\ size' = orig /\ top' = Cleared(orig) /\ rc' = 0
            /\ Absorbs \/ UNCHANGED tpm
            /\ Quit(EIO, "device") /\ UNCHANGED lost
  <2>1. /\ pc' = "exit" /\ ret' = EIO /\ why' = "device" /\ rest' = rest /\ extra' = extra
        /\ open' = open /\ (absorbed' \in Int \/ absorbed' = absorbed)
    BY Zenon, <1>8, <1>13 DEF Quit, tpm
  <2>2. faults' \in 0..MaxFaults /\ lost' = lost /\ lost' \in 0..faults' /\ rc' \in Nat
    BY SMT, <1>2, <1>13, Bounds
  <2>3. absorbed' \in Int
    BY SMT, <1>2, <2>1
  <2>4. top' \in 0..RespMax
    BY Zenon, <1>2, <1>13, ClearedType
  <2>5. "device" \in Causes \ {"none", "request"}
    BY DEF Causes
  <2>6. remaining' = remaining
    BY <1>1, <2>1
  <2>7. QED
    BY Zenon, <1>1, <1>2, <1>3, <1>13, <2>1, <2>2, <2>3, <2>4, <2>5, <2>6, Quits
<1>14. CASE ShortWrite(orig, "update")
  <2>1. top <= orig \/ top <= 19
    BY <1>4
  <2>2. /\ pc' = "update" /\ rest' = rest /\ extra' = extra /\ ret' = ret /\ why' = why
        /\ size' = orig /\ rc' = 0 /\ top' \in 0..RespMax /\ top' <= 19
        /\ open' = open /\ absorbed' = absorbed
        /\ faults' \in 0..MaxFaults /\ lost' \in 0..faults' /\ lost' = lost + 1 /\ lost' > 0
    BY Zenon, <1>2, <1>14, <2>1, Loses
  <2>3. pc' \in Labels /\ rc' \in Nat
    BY <2>2 DEF Labels
  <2>4. remaining' \in 0..total'
    BY Zenon, <1>1, <1>5, <1>9, <2>2
  <2>5. TypeOK'
    BY Zenon, <1>1, <1>2, <2>2, <2>3, <2>4 DEF TypeOK
  <2>6. OptionInv' /\ BufferInv'
    BY <1>1, <1>4, <2>2 DEF OptionInv, BufferInv, NoStaleBytes
  <2>7. HashInv'
    BY <1>1, <1>2, <1>4, <2>2 DEF HashInv, HashedWhole
  <2>8. OpenInv' /\ StatusInv'
    BY <1>1, <1>2, <1>3, <1>4, <2>2, Bounds
       DEF OpenInv, OpenBut, SequencesClosed, StatusInv, ExitHonest, UpdatesFit
  <2>9. QED
    BY Zenon, <2>5, <2>6, <2>7, <2>8 DEF IInv
<1>15. QED
  BY Zenon, <1>10, <1>11, <1>12, <1>13, <1>14

LEMMA SeqCompleteInv == ASSUME IInv, SeqComplete PROVE IInv'
<1> DEFINE effect == absorbed # NoSequence /\ open' = open - 1 /\ UNCHANGED absorbed
           n == 29 + DigestSize(Head(rest))
<1>1. /\ pc = "update" /\ remaining = 0
      /\ total' = total /\ remaining' = remaining /\ orig' = orig
      /\ runs' = runs /\ kills' = kills /\ status' = status /\ before' = before
  BY Zenon DEF SeqComplete, Counted, locals
<1>2. /\ rest \in Seq(Options) /\ extra \in BOOLEAN /\ ret \in Int /\ why \in Causes
      /\ size \in 0..RespMax /\ top \in 0..RespMax /\ rc \in Nat
      /\ total \in 0 .. Uint16 - 1 /\ remaining \in 0..total /\ orig \in 0..RespMax
      /\ open \in 0..Slots /\ absorbed \in Int
      /\ runs \in 0..MaxRuns /\ faults \in 0..MaxFaults /\ kills \in 0..MaxFaults
      /\ status \in -1..255 /\ before \in 0..Slots /\ lost \in 0..faults
  BY Zenon, Types DEF IInv
<1>3. why = "none" /\ ret = 0 /\ status = -1 /\ open <= before + 1 + lost
  BY <1>1, Running
<1>4. /\ rest # <<>> /\ Head(rest).opt \in HashOptions
      /\ total = Bytes(Head(rest).digits) /\ (lost = 0 => absorbed = total - remaining)
      /\ absorbed # -1 /\ OpenBut(IF absorbed = NoSequence THEN 0 ELSE 1)
      /\ Header + 4 <= orig /\ (top <= orig \/ top <= 19)
  BY Zenon, <1>1 DEF IInv, OptionInv, BufferInv, HashInv, OpenInv
<1>5. n \in {49, 61}
  BY DEF DigestSize
<1>6. n \in 0..RespMax /\ (top <= orig \/ top <= n)
  BY SMT, <1>2, <1>4, <1>5, Sizes
<1>7. total \in Nat /\ (lost = 0 => absorbed = Bytes(Head(rest).digits))
  BY SMT, <1>1, <1>2, <1>4, Sizes
<1>8. \/ /\ \E m \in {n} : Answered(orig, m, 0)
         /\ effect /\ GoOn("answer") /\ UNCHANGED device
      \/ /\ \E code \in TpmErrors : Answered(orig, Header, code)
         /\ GoOn("answer") /\ UNCHANGED <<tpm, device>>
      \/ /\ faults < MaxFaults /\ faults' = faults + 1
         /\ size' = orig /\ top' = Cleared(orig) /\ rc' = 0
         /\ effect \/ UNCHANGED tpm
         /\ Quit(EIO, "device") /\ UNCHANGED lost
      \/ ShortWrite(orig, "answer")
  BY Zenon DEF SeqComplete, Transmit, DeviceFails
<1>9. CASE /\ \E m \in {n} : Answered(orig, m, 0)
           /\ effect /\ GoOn("answer") /\ UNCHANGED device
  <2>1. Answered(orig, n, 0)
    BY Zenon, <1>9
  <2>2. /\ pc' = "answer" /\ rest' = rest /\ extra' = extra /\ ret' = ret /\ why' = why
        /\ open' = open - 1 /\ absorbed' = absorbed /\ absorbed # NoSequence
        /\ faults' = faults /\ lost' = lost
    BY Zenon, <1>9 DEF GoOn, device
  <2>3. size' = n /\ rc' = 0 /\ top' \in 0..RespMax /\ top' = n
    BY Zenon, <1>2, <1>6, <2>1, Extent
  <2>4. size' \in 0..RespMax /\ top' = size'
    BY Zenon, <1>6, <2>3
  <2>5. pc' \in Labels /\ rc' \in Nat
    BY <2>2, <2>3 DEF Labels
  <2>6. before <= open' /\ open' <= before + lost /\ open' \in 0..Slots
    BY SMT, <1>2, <1>4, <2>2, Bounds DEF OpenBut
  <2>7. TypeOK'
    BY Zenon, <1>1, <1>2, <2>2, <2>3, <2>4, <2>5, <2>6 DEF TypeOK
  <2>8. OptionInv' /\ BufferInv' /\ HashInv'
    BY <1>2, <1>4, <1>7, <2>2, <2>4 DEF OptionInv, BufferInv, NoStaleBytes, HashInv, HashedWhole
  <2>9. OpenInv' /\ StatusInv'
    BY <1>1, <1>2, <1>3, <2>2, <2>3, <2>6, Bounds DEF OpenInv, OpenBut, SequencesClosed, StatusInv, ExitHonest, UpdatesFit
  <2>10. QED
    BY Zenon, <2>7, <2>8, <2>9 DEF IInv
<1>10. CASE /\ \E code \in TpmErrors : Answered(orig, Header, code)
            /\ GoOn("answer") /\ UNCHANGED <<tpm, device>>
  <2>1. PICK code \in TpmErrors : Answered(orig, Header, code)
    BY Zenon, <1>10
  <2>2. /\ pc' = "answer" /\ rest' = rest /\ extra' = extra /\ ret' = ret /\ why' = why
        /\ open' = open /\ absorbed' = absorbed /\ faults' = faults /\ lost' = lost
    BY Zenon, <1>10 DEF GoOn, tpm, device
  <2>3. Header \in 0..RespMax
    BY SMT, Sizes
  <2>4. size' \in 0..RespMax /\ rc' = code /\ top' \in 0..RespMax
    BY Zenon, <1>2, <2>1, <2>3, Extent
  <2>5. QED
    BY Zenon, <1>1, <1>2, <1>4, <2>1, <2>2, <2>4, Errors
<1>11. CASE /\ faults < MaxFaults /\ faults' = faults + 1
            /\ size' = orig /\ top' = Cleared(orig) /\ rc' = 0
            /\ effect \/ UNCHANGED tpm
            /\ Quit(EIO, "device") /\ UNCHANGED lost
  <2>1. /\ pc' = "exit" /\ ret' = EIO /\ why' = "device" /\ rest' = rest /\ extra' = extra
        /\ \/ absorbed # NoSequence /\ open' = open - 1
           \/ open' = open
        /\ absorbed' = absorbed
    BY Zenon, <1>11 DEF Quit, tpm
  <2>2. faults' \in 0..MaxFaults /\ lost' = lost /\ lost' \in 0..faults' /\ rc' \in Nat
    BY SMT, <1>2, <1>11, Bounds
  <2>3. open' \in 0..Slots /\ open' <= before + 1 + lost
    BY SMT, <1>2, <1>4, <2>1, Bounds DEF OpenBut
  <2>4. top' \in 0..RespMax
    BY Zenon, <1>2, <1>11, ClearedType
  <2>5. "device" \in Causes \ {"none", "request"}
    BY DEF Causes
  <2>6. QED
    BY Zenon, <1>1, <1>2, <1>3, <1>11, <2>1, <2>2, <2>3, <2>4, <2>5, Quits
<1>12. CASE ShortWrite(orig, "answer")
  <2>1. top <= orig \/ top <= 19
    BY <1>4
  <2>2. /\ pc' = "answer" /\ rest' = rest /\ extra' = extra /\ ret' = ret /\ why' = why
        /\ size' = orig /\ rc' = 0 /\ top' \in 0..RespMax /\ top' <= 19
        /\ open' = open /\ absorbed' = absorbed
        /\ faults' \in 0..MaxFaults /\ lost' \in 0..faults' /\ lost' = lost + 1 /\ lost' > 0
    BY Zenon, <1>2, <1>12, <2>1, Loses
  <2>3. pc' \in Labels /\ rc' \in Nat
    BY <2>2 DEF Labels
  <2>4. TypeOK'
    BY Zenon, <1>1, <1>2, <2>2, <2>3 DEF TypeOK
  <2>5. OptionInv' /\ BufferInv' /\ HashInv'
    BY <1>4, <2>2 DEF OptionInv, BufferInv, NoStaleBytes, HashInv, HashedWhole
  <2>6. OpenInv' /\ StatusInv'
    BY <1>1, <1>2, <1>3, <1>4, <2>2, Bounds
       DEF OpenInv, OpenBut, SequencesClosed, StatusInv, ExitHonest, UpdatesFit
  <2>7. QED
    BY Zenon, <2>4, <2>5, <2>6 DEF IInv
<1>13. QED
  BY Zenon, <1>8, <1>9, <1>10, <1>11, <1>12

LEMMA StutterInv == ASSUME IInv, UNCHANGED vars PROVE IInv'
<1>1. /\ pc' = pc /\ rest' = rest /\ extra' = extra /\ ret' = ret /\ why' = why
      /\ size' = size /\ top' = top /\ rc' = rc
      /\ total' = total /\ remaining' = remaining /\ orig' = orig
      /\ open' = open /\ absorbed' = absorbed
      /\ runs' = runs /\ faults' = faults /\ kills' = kills /\ status' = status /\ before' = before
      /\ lost' = lost
  BY Zenon DEF vars, loop, buffer, locals, tpm, counts, device
<1>2. TypeOK'
  BY Zenon, <1>1, Types DEF IInv, TypeOK
<1>3. OptionInv' /\ BufferInv' /\ HashInv'
  BY Zenon, <1>1 DEF IInv, OptionInv, BufferInv, HashInv, NoStaleBytes, HashedWhole
<1>4. OpenInv' /\ StatusInv'
  BY Zenon, <1>1 DEF IInv, OpenInv, OpenBut, SequencesClosed, StatusInv, ExitHonest, UpdatesFit
<1>5. QED
  BY Zenon, <1>2, <1>3, <1>4 DEF IInv

-----------------------------------------------------------------------------
(* The theorems                                                            *)

LEMMA StepInv == IInv /\ [Next]_vars => IInv'
<1> SUFFICES ASSUME IInv, [Next]_vars PROVE IInv'
  OBVIOUS
<1>1. ASSUME NEW cl \in CommandLines, Call(cl) PROVE IInv'
  BY <1>1, CallInv
<1>2. CASE Request
  BY <1>2, RequestInv
<1>3. CASE Help
  BY <1>3, HelpInv
<1>4. CASE Report
  BY <1>4, ReportInv
<1>5. CASE EndOfOptions
  BY <1>5, EndInv
<1>6. CASE Leftover
  BY <1>6, LeftoverInv
<1>7. CASE Exit
  BY <1>7, ExitInv
<1>8. CASE SeqRefused
  BY <1>8, SeqRefusedInv
<1>9. CASE SeqStart
  BY <1>9, SeqStartInv
<1>10. CASE SeqSplit
  BY <1>10, SeqSplitInv
<1>11. CASE SeqUpdate
  BY <1>11, SeqUpdateInv
<1>12. CASE SeqComplete
  BY <1>12, SeqCompleteInv
<1>13. CASE Kill
  BY <1>13, KillInv
<1>14. CASE UNCHANGED vars
  BY <1>14, StutterInv
<1>15. QED
  BY Zenon, <1>1, <1>2, <1>3, <1>4, <1>5, <1>6, <1>7, <1>8, <1>9, <1>10, <1>11, <1>12, <1>13, <1>14
     DEF Next, ToolStep

LEMMA AlwaysInv == Spec => []IInv
<1>1. QED
  BY InitInv, StepInv, PTL DEF Spec

(* Every variable of the tool stays in its type, whatever command lines it  *)
(* is called with: the buffer's size within the buffer, the amounts of a    *)
(* hash sequence within their uint16_t.                                     *)
THEOREM TypeCorrect == Spec => []TypeOK
<1>1. IInv => TypeOK
  BY Zenon DEF IInv
<1>2. QED
  BY <1>1, AlwaysInv, PTL

(* Behind a good response the shared buffer is zero, whatever options came  *)
(* before: tpmtool_transmit clears what it was told of, and no response is  *)
(* longer where create_hash_sequence goes back to an older size.  After a   *)
(* short write that went unnoticed at most the 19 bytes of an answer to     *)
(* TPM2_SequenceUpdate may be left.                                         *)
THEOREM CleanBuffer == Spec => []NoStaleBytes
<1>1. IInv => NoStaleBytes
  BY Zenon DEF IInv, BufferInv
<1>2. QED
  BY <1>1, AlwaysInv, PTL

(* The digest of -a and -A is that of the whole argument, for arguments of  *)
(* every length, in every call that lost no request to a short write: the   *)
(* requests of create_hash_sequence cover it, in order.                     *)
THEOREM WholeHash == Spec => []HashedWhole
<1>1. IInv => HashedWhole
  BY Zenon DEF IInv, HashInv
<1>2. QED
  BY <1>1, AlwaysInv, PTL

(* create_hash_sequence never cuts a piece that tpmtool_transmit refuses.   *)
THEOREM PiecesFit == Spec => []UpdatesFit
<1>1. IInv => UpdatesFit
  BY Zenon DEF IInv, StatusInv
<1>2. QED
  BY <1>1, AlwaysInv, PTL

(* The exit status of main is 0 exactly when every option was gone through  *)
(* and none was refused, failed or brought an error, for every set of TPM   *)
(* errors in which only 0x100 ends in a zero byte.  It does not say that    *)
(* the TPM carried them out: a short write with errno 0 is no failure to    *)
(* tpmtool_transmit.                                                        *)
THEOREM HonestStatus == Spec => []ExitHonest
<1>1. IInv => ExitHonest
  BY Zenon DEF IInv, StatusInv
<1>2. QED
  BY <1>1, AlwaysInv, PTL

(* Of the sequences the TPM holds, a successful call has left none and any  *)
(* other call at most one, though the TPM may have carried out a request    *)
(* whose answer never came; and one more for each request that the call     *)
(* lost to a short write.                                                   *)
THEOREM NoneLeftOpen == Spec => []SequencesClosed
<1>1. IInv => SequencesClosed
  BY Zenon DEF IInv, OpenInv
<1>2. QED
  BY <1>1, AlwaysInv, PTL

-----------------------------------------------------------------------------
(* The tool is the service                                                 *)

ServiceStep == Service!Next \/ UNCHANGED Service!serviceVars

LEMMA MapInit == Init => Service!Init
<1> SUFFICES ASSUME Init PROVE Service!Init
  OBVIOUS
<1>1. pc = "idle" /\ rest = <<>> /\ status = -1 /\ lost = 0
  BY Zenon DEF Init
<1>2. AnswerAbout = -1
  BY <1>1 DEF AnswerAbout
<1>3. QED
  BY <1>1, <1>2 DEF Service!Init, Service!Resting, Service!None

(* Requests after which the service still has no answer.                   *)
LEMMA MapSilent ==
  ASSUME pc # "idle", pc' # "idle", pc # "answer", pc' = "answer" => rc' # 0,
         why' = why, rest' = rest, status' = status, lost' = lost
  PROVE  ServiceStep
<1>1. AnswerAbout = -1 /\ AnswerAbout' = -1
  BY DEF AnswerAbout
<1>2. UNCHANGED Service!serviceVars
  BY Zenon, <1>1 DEF Service!serviceVars
<1>3. QED
  BY Zenon, <1>2 DEF ServiceStep

LEMMA MapGiveUp ==
  ASSUME pc \notin {"idle", "exit"}, why = "none", pc' = "exit", why' # "none",
         rest' = rest, status' = status, lost' = lost
  PROVE  ServiceStep
<1>1. AnswerAbout' = -1
  BY DEF AnswerAbout
<1>2. Service!GiveUp
  BY <1>1 DEF Service!GiveUp, Service!None
<1>3. QED
  BY Zenon, <1>2 DEF ServiceStep, Service!Next

LEMMA MapAnswer ==
  ASSUME pc \notin {"idle", "answer"}, why = "none", rest # <<>>, pc' = "answer", rc' = 0,
         AnswerAbout' # -1, AnswerAbout' = Service!Amount(Head(rest)) \/ lost > 0,
         why' = why, rest' = rest, status' = status, lost' = lost
  PROVE  ServiceStep
<1>1. AnswerAbout = -1
  BY DEF AnswerAbout
<1>2. Service!Answer
  BY <1>1 DEF Service!Answer, Service!Asking, Service!None
<1>3. QED
  BY Zenon, <1>2 DEF ServiceStep, Service!Next

(* A lost request, whether the tool goes on to the next or finds an answer.  *)
LEMMA MapLose ==
  ASSUME IInv, pc \in {"options", "update"}, rest # <<>>,
         NEW s, NEW next \in {"answer", "split", "update"}, ShortWrite(s, next), status' = status
  PROVE  ServiceStep
<1>1. pc' = next /\ why' = why /\ rest' = rest /\ lost' = lost + 1
  BY Zenon DEF ShortWrite, GoOn
<1>2. why = "none"
  BY Running
<1>3. AnswerAbout = -1
  BY DEF AnswerAbout
<1>4. Service!Asking
  BY <1>2, <1>3 DEF Service!Asking, Service!None
<1>5. AnswerAbout' # Service!None \/ AnswerAbout' = AnswerAbout
  BY <1>3 DEF Service!None
<1>6. (pc' # "idle") = (pc # "idle") /\ (pc' = "idle" \/ why' = "none") = (pc = "idle" \/ why = "none")
  BY <1>1
<1>7. Service!Lose
  BY Zenon, <1>1, <1>4, <1>5, <1>6 DEF Service!Lose
<1>8. QED
  BY Zenon, <1>7 DEF ServiceStep, Service!Next

LEMMA MapCall == ASSUME NEW cl \in CommandLines, Call(cl) PROVE ServiceStep
<1>1. /\ pc = "idle" /\ rest' = cl.opts /\ status' = -1 /\ lost' = 0
      /\ \/ cl.opts = <<>> /\ ~ cl.extra /\ pc' = "exit" /\ why' = "arguments"
         \/ ~ (cl.opts = <<>> /\ ~ cl.extra) /\ pc' = "options" /\ why' = "none"
  BY Zenon DEF Call
<1>2. AnswerAbout = -1 /\ AnswerAbout' = -1
  BY <1>1 DEF AnswerAbout
<1>3. cl \in [opts : Seq(Options), extra : BOOLEAN]
  BY Zenon, ToolAssumption
<1>4. cl.extra \in BOOLEAN
  BY <1>3
<1>5. (pc' = "idle" \/ why' = "none") = (cl.opts # <<>> \/ cl.extra)
  BY <1>1, <1>4
<1>6. (pc' # "idle") = TRUE /\ ~ (pc # "idle")
  BY <1>1
<1>7. Service!Call
  BY Zenon, <1>1, <1>2, <1>5, <1>6 DEF Service!Call
<1>8. QED
  BY Zenon, <1>7 DEF ServiceStep, Service!Next

LEMMA MapRequest == ASSUME IInv, Request PROVE ServiceStep
<1> DEFINE o == Head(rest)
           opts == {"?", "b", "c", "d", "e", "E", "g", "G", "r", "R", "s", "S", "t",
                    "T", "u", "v", "z"}
<1>1. pc = "options" /\ rest # <<>> /\ o \in Options /\ o.opt \in opts
  BY Zenon, AtHand DEF Request
<1>2. why = "none"
  BY <1>1, Running
<1>3. status' = status
  BY Zenon DEF Request, Counted
<1>4. \/ /\ \E code \in {Refusal(o), EINVAL, EIO}, w \in {"arguments", "buffer", "device"} : Quit(code, w)
         /\ lost' = lost
      \/ (\E n \in AnswerSizes(o) : Answered(size, n, 0)) /\ GoOn("answer") /\ lost' = lost
      \/ (\E code \in TpmErrors : Answered(size, Header, code)) /\ GoOn("answer") /\ lost' = lost
      \/ ShortWrite(size, "answer")
  BY Zenon DEF Request, Transmit, DeviceFails, device
<1>5. ASSUME NEW code, NEW w \in {"arguments", "buffer", "device"}, Quit(code, w), lost' = lost
      PROVE  ServiceStep
  <2>1. pc' = "exit" /\ why' = w /\ rest' = rest
    BY Zenon, <1>5 DEF Quit
  <2>2. QED
    BY <1>1, <1>2, <1>3, <1>5, <2>1, MapGiveUp
<1>6. CASE (\E n \in AnswerSizes(o) : Answered(size, n, 0)) /\ GoOn("answer") /\ lost' = lost
  <2>1. pc' = "answer" /\ rc' = 0 /\ why' = why /\ rest' = rest
    BY Zenon, <1>6 DEF GoOn, Answered
  <2>2. AnswerAbout' = 0 /\ Service!Amount(o) = 0
    BY <1>1, <2>1 DEF AnswerAbout, Service!Amount
  <2>3. QED
    BY <1>1, <1>2, <1>3, <1>6, <2>1, <2>2, MapAnswer
<1>7. CASE (\E code \in TpmErrors : Answered(size, Header, code)) /\ GoOn("answer") /\ lost' = lost
  <2>1. pc' = "answer" /\ rc' \in TpmErrors /\ why' = why /\ rest' = rest
    BY Zenon, <1>7 DEF GoOn, Answered
  <2>2. rc' # 0
    BY <2>1, Bounds
  <2>3. QED
    BY <1>1, <1>3, <1>7, <2>1, <2>2, MapSilent
<1>8. CASE ShortWrite(size, "answer")
  BY <1>1, <1>3, <1>8, MapLose
<1>9. QED
  BY Zenon, <1>4, <1>5, <1>6, <1>7, <1>8

LEMMA MapHelp == ASSUME IInv, Help PROVE ServiceStep
<1>1. /\ pc = "options" /\ rest # <<>> /\ Head(rest).opt = "h" /\ pc' = "left"
      /\ rest' = Tail(rest) /\ why' = why /\ status' = status /\ lost' = lost
  BY Zenon DEF Help, AtOption, Counted, device
<1>2. why = "none"
  BY <1>1, Running
<1>3. AnswerAbout = -1 /\ AnswerAbout' = -1
  BY <1>1 DEF AnswerAbout
<1>4. Service!Help
  BY <1>1, <1>2, <1>3 DEF Service!Help
<1>5. QED
  BY Zenon, <1>4 DEF ServiceStep, Service!Next

LEMMA MapReport == ASSUME IInv, Report PROVE ServiceStep
<1>1. /\ pc = "answer" /\ status' = status /\ lost' = lost
      /\ \/ \E code \in {rc, EINVAL}, w \in {"tpm", "short"} : Quit(code, w)
         \/ rc = 0 /\ pc' = "options" /\ rest' = Tail(rest) /\ why' = why
  BY Zenon DEF Report, Following, Counted, device
<1>2. why = "none"
  BY <1>1, Running
<1>3. ASSUME NEW code, NEW w \in {"tpm", "short"}, Quit(code, w) PROVE ServiceStep
  <2>1. pc' = "exit" /\ why' = w /\ rest' = rest
    BY Zenon, <1>3 DEF Quit
  <2>2. QED
    BY <1>1, <1>2, <2>1, MapGiveUp
<1>4. CASE rc = 0 /\ pc' = "options" /\ rest' = Tail(rest) /\ why' = why
  <2>1. rest # <<>> /\ absorbed # -1
    BY Zenon, <1>1 DEF IInv, OptionInv, HashInv
  <2>4. AnswerAbout # -1
    BY <1>1, <1>4, <2>1 DEF AnswerAbout
  <2>5. AnswerAbout' = -1
    BY <1>4 DEF AnswerAbout
  <2>6. Service!Printed
    BY <1>1, <1>2, <1>4, <2>4, <2>5 DEF Service!Printed, Service!None
  <2>7. QED
    BY Zenon, <2>6 DEF ServiceStep, Service!Next
<1>5. QED
  BY Zenon, <1>1, <1>3, <1>4

LEMMA MapEnd == ASSUME EndOfOptions PROVE ServiceStep
<1>1. pc = "options" /\ pc' = "left" /\ rest' = rest /\ why' = why /\ status' = status
      /\ lost' = lost
  BY Zenon DEF EndOfOptions, GoOn, Counted, device
<1>2. QED
  BY <1>1, MapSilent

LEMMA MapLeftover == ASSUME IInv, Leftover PROVE ServiceStep
<1>1. /\ pc = "left" /\ pc' = "exit" /\ rest' = rest /\ status' = status
      /\ lost' = lost /\ (why' = "arguments" \/ why' = why)
  BY Zenon DEF Leftover, Quit, GoOn, Counted, device
<1>2. why = "none"
  BY <1>1, Running
<1>3. QED
  BY <1>1, <1>2, MapSilent, MapGiveUp

LEMMA MapExit == ASSUME IInv, Exit PROVE ServiceStep
<1>1. pc = "exit" /\ status' = Mapped(ret) % 256 /\ pc' = "idle" /\ rest' = <<>> /\ lost' = lost
  BY Zenon DEF Exit, Gone, device
<1>2. /\ ret \in TpmErrors \union {0, BAD_CMD, EINVAL, EIO}
      /\ why = "none" <=> ret = 0
      /\ why = "none" => rest = <<>>
  BY Zenon, <1>1 DEF IInv, StatusInv
<1>3. status' \in 0..255 /\ (status' = 0 <=> ret = 0)
  BY Zenon, <1>1, <1>2, LowByte
<1>4. AnswerAbout = -1 /\ AnswerAbout' = -1
  BY <1>1 DEF AnswerAbout
<1>5. Service!Rests
  BY <1>1, <1>4 DEF Service!Rests, Service!None
<1>6. status' = 0 <=> (pc = "idle" \/ why = "none") /\ rest = <<>>
  BY <1>1, <1>2, <1>3
<1>7. Service!Exit
  BY Zenon, <1>1, <1>3, <1>4, <1>5, <1>6 DEF Service!Exit, Service!None
<1>8. QED
  BY Zenon, <1>7 DEF ServiceStep, Service!Next

LEMMA MapKill == ASSUME Kill PROVE ServiceStep
<1>1. pc # "idle" /\ pc' = "idle" /\ rest' = <<>> /\ status' = status /\ lost' = lost
  BY Zenon DEF Kill, Gone, device
<1>2. AnswerAbout' = -1
  BY <1>1 DEF AnswerAbout
<1>3. Service!Kill
  BY <1>1, <1>2 DEF Service!Kill, Service!Rests, Service!None
<1>4. QED
  BY Zenon, <1>3 DEF ServiceStep, Service!Next

LEMMA MapSeqRefused == ASSUME IInv, SeqRefused PROVE ServiceStep
<1>1. /\ pc = "options" /\ pc' = "exit" /\ why' = "buffer" /\ rest' = rest /\ status' = status
      /\ lost' = lost
  BY Zenon DEF SeqRefused, AtOption, Quit, Counted, device
<1>2. why = "none"
  BY <1>1, Running
<1>3. QED
  BY <1>1, <1>2, MapGiveUp

(* A TPM error is not 0.                                                   *)
LEMMA ErrorCode == 0 \notin TpmErrors
  BY Bounds

LEMMA MapSeqStart == ASSUME IInv, SeqStart PROVE ServiceStep
<1>1. pc = "options" /\ rest # <<>> /\ status' = status
  BY Zenon DEF SeqStart, AtOption, Counted
<1>2. why = "none"
  BY <1>1, Running
<1>3. \/ /\ \/ pc' = "split" /\ why' = why /\ rest' = rest
            \/ pc' = "answer" /\ rc' # 0 /\ why' = why /\ rest' = rest
            \/ pc' = "exit" /\ why' = "device" /\ rest' = rest
         /\ lost' = lost
      \/ ShortWrite(size, "split")
  BY Zenon, ErrorCode DEF SeqStart, Transmit, Answered, DeviceFails, Quit, GoOn, device
<1>4. QED
  BY <1>1, <1>2, <1>3, MapSilent, MapGiveUp, MapLose

LEMMA MapSeqSplit == ASSUME IInv, SeqSplit PROVE ServiceStep
<1>1. /\ pc = "split" /\ status' = status /\ lost' = lost
      /\ \/ pc' = "update" /\ why' = why /\ rest' = rest
         \/ pc' = "exit" /\ why' = "arguments" /\ rest' = rest
  BY Zenon DEF SeqSplit, GoOn, Quit, Counted, device
<1>2. why = "none"
  BY <1>1, Running
<1>3. QED
  BY <1>1, <1>2, MapSilent, MapGiveUp

LEMMA MapSeqUpdate == ASSUME IInv, SeqUpdate PROVE ServiceStep
<1>1. pc = "update" /\ rest # <<>> /\ status' = status
  BY Zenon DEF SeqUpdate, Counted, IInv, OptionInv
<1>2. why = "none"
  BY <1>1, Running
<1>3. \/ /\ \/ pc' = "update" /\ why' = why /\ rest' = rest
            \/ pc' = "answer" /\ rc' # 0 /\ why' = why /\ rest' = rest
            \/ pc' = "exit" /\ why' \in {"device", "request"} /\ rest' = rest
         /\ lost' = lost
      \/ ShortWrite(orig, "update")
  BY Zenon, ErrorCode DEF SeqUpdate, NextUpdate, Transmit, Answered, DeviceFails, Quit, GoOn, device
<1>4. QED
  BY <1>1, <1>2, <1>3, MapSilent, MapGiveUp, MapLose

LEMMA MapSeqComplete == ASSUME IInv, SeqComplete PROVE ServiceStep
<1>1. pc = "update" /\ rest # <<>> /\ remaining = 0 /\ status' = status
  BY Zenon DEF SeqComplete, Counted, IInv, OptionInv
<1>2. why = "none"
  BY <1>1, Running
<1>3. \/ /\ \/ rc' = 0 /\ absorbed' = absorbed /\ pc' = "answer" /\ why' = why /\ rest' = rest
            \/ pc' = "answer" /\ rc' # 0 /\ why' = why /\ rest' = rest
            \/ pc' = "exit" /\ why' = "device" /\ rest' = rest
         /\ lost' = lost
      \/ ShortWrite(orig, "answer")
  BY Zenon, ErrorCode DEF SeqComplete, Transmit, Answered, DeviceFails, Quit, GoOn, device
<1>4. CASE /\ rc' = 0 /\ absorbed' = absorbed /\ pc' = "answer" /\ why' = why /\ rest' = rest
           /\ lost' = lost
  <2>1. /\ rest \in Seq(Options) /\ rest # <<>> /\ Head(rest).opt \in HashOptions
        /\ total = Bytes(Head(rest).digits) /\ (lost = 0 => absorbed = total - remaining)
        /\ absorbed # -1 /\ lost \in 0..faults /\ faults \in 0..MaxFaults
    BY Zenon, <1>1, Types DEF IInv, OptionInv, HashInv
  <2>2. Head(rest).digits \in Nat
    BY <2>1, Remainder DEF Options
  <2>3. Bytes(Head(rest).digits) \in Nat
    BY <2>2 DEF Bytes
  <2>4. absorbed' = Bytes(Head(rest).digits) \/ lost > 0
    BY <1>1, <1>4, <2>1, <2>3, Bounds
  <2>5. AnswerAbout' = absorbed'
    BY <1>4, <2>1 DEF AnswerAbout, HashOptions
  <2>6. Bytes(Head(rest).digits) = (Head(rest).digits + 1) \div 2
    BY <2>2 DEF Bytes
  <2>7. Service!Amount(Head(rest)) = (Head(rest).digits + 1) \div 2
    BY <2>1 DEF Service!Amount, HashOptions
  <2>8. QED
    BY <1>1, <1>2, <1>4, <2>1, <2>4, <2>5, <2>6, <2>7, MapAnswer
<1>5. QED
  BY <1>1, <1>2, <1>3, <1>4, MapSilent, MapGiveUp, MapLose

LEMMA MapStutter == ASSUME UNCHANGED vars PROVE ServiceStep
<1>1. /\ pc' = pc /\ rest' = rest /\ why' = why /\ rc' = rc /\ absorbed' = absorbed
      /\ status' = status /\ lost' = lost
  BY Zenon DEF vars, loop, buffer, tpm, counts, device
<1>2. AnswerAbout' = AnswerAbout
  BY Zenon, <1>1 DEF AnswerAbout
<1>3. UNCHANGED Service!serviceVars
  BY Zenon, <1>1, <1>2 DEF Service!serviceVars
<1>4. QED
  BY Zenon, <1>3 DEF ServiceStep

LEMMA MapStep == IInv /\ [Next]_vars => [Service!Next]_(Service!serviceVars)
<1> SUFFICES ASSUME IInv, [Next]_vars PROVE ServiceStep
  BY Zenon DEF ServiceStep
<1>1. ASSUME NEW cl \in CommandLines, Call(cl) PROVE ServiceStep
  BY <1>1, MapCall
<1>2. CASE Request
  BY <1>2, MapRequest
<1>3. CASE Help
  BY <1>3, MapHelp
<1>4. CASE Report
  BY <1>4, MapReport
<1>5. CASE EndOfOptions
  BY <1>5, MapEnd
<1>6. CASE Leftover
  BY <1>6, MapLeftover
<1>7. CASE Exit
  BY <1>7, MapExit
<1>8. CASE SeqRefused
  BY <1>8, MapSeqRefused
<1>9. CASE SeqStart
  BY <1>9, MapSeqStart
<1>10. CASE SeqSplit
  BY <1>10, MapSeqSplit
<1>11. CASE SeqUpdate
  BY <1>11, MapSeqUpdate
<1>12. CASE SeqComplete
  BY <1>12, MapSeqComplete
<1>13. CASE Kill
  BY <1>13, MapKill
<1>14. CASE UNCHANGED vars
  BY <1>14, MapStutter
<1>15. QED
  BY Zenon, <1>1, <1>2, <1>3, <1>4, <1>5, <1>6, <1>7, <1>8, <1>9, <1>10, <1>11, <1>12, <1>13, <1>14
     DEF Next, ToolStep

(* eltt2 is OptionService: to its caller the requests of a hash sequence,   *)
(* the shared buffer and the checks of each response are one answer per     *)
(* option, after the first failure it notices none, and the exit status     *)
(* tells which.  Until a request is lost to a short write each answer is    *)
(* about that option's data; from then on it may be about anything.         *)
THEOREM ToolServes == Spec => ImplementsService
<1>1. QED
  BY MapInit, MapStep, AlwaysInv, PTL DEF Spec, Service!Spec, ImplementsService
=============================================================================
