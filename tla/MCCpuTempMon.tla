----------------------------- MODULE MCCpuTempMon -----------------------------
(* Instances of CpuTempMon for TLC. *)
EXTENDS CpuTempMon, TLC

\* Nothing but the history of a choice tells one pid from another.
AnyPid == Permutations(Pids)
=============================================================================
