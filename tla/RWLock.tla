------------------------------- MODULE RWLock -------------------------------
(***************************************************************************)
(* What a readers-writer lock promises to the threads of one process: one  *)
(* writer alone, or any number of readers.  The locks of the executor (the *)
(* type lock of vcs/executor/locker.go: mutexLock and FileLock) are meant  *)
(* to implement it in every process that opens the view.                   *)
(***************************************************************************)
CONSTANTS Client,   \* the threads that use the lock
          home      \* the process of each thread

VARIABLE mode       \* what each thread holds: "free", "read" or "write"

Peers(c) == {d \in Client : home[d] = home[c]}

Init == mode = [c \in Client |-> "free"]

AcquireWrite(c) ==
    /\ \A d \in Peers(c) : mode[d] = "free"
    /\ mode' = [mode EXCEPT ![c] = "write"]

AcquireRead(c) ==
    /\ mode[c] = "free"
    /\ \A d \in Peers(c) : mode[d] # "write"
    /\ mode' = [mode EXCEPT ![c] = "read"]

Release(c) ==
    /\ mode[c] # "free"
    /\ mode' = [mode EXCEPT ![c] = "free"]

Next == \E c \in Client : AcquireWrite(c) \/ AcquireRead(c) \/ Release(c)

Spec == Init /\ [][Next]_mode

=============================================================================
