----------------------------- MODULE MCIpcClient -----------------------------
(* An instance of IpcClient for TLC: two interchangeable callers.           *)
EXTENDS IpcClient, TLC

Symmetry == Permutations(Callers)
=============================================================================
