----------------------------- MODULE MCFileLock -----------------------------
(* FileLock for TLC: three threads in two processes.                       *)
EXTENDS FileLockProofs, TLC

CONSTANTS p1, p2, t1, t2, t3

TwoProcesses == t1 :> p1 @@ t2 :> p1 @@ t3 :> p2

=============================================================================
