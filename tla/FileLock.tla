------------------------------ MODULE FileLock ------------------------------
(***************************************************************************)
(* The lock of one view (api/vcs/executor/flock.go): a Go readers-writer   *)
(* mutex between the threads of a process, and under it a flock(2) lock on *)
(* .git/sturdy.lock between processes (the API server and mutagen's        *)
(* agents), with a counter of readers so that the last reader of a process *)
(* is the one that drops the shared file lock.                             *)
(*                                                                         *)
(* External parts, modelled from how flock.go uses them: sync.RWMutex (a   *)
(* pending writer stops new readers; unlocking admits every reader that is *)
(* blocked) and gofrs/flock (flags l and r that remember a lock, conversion*)
(* of the lock of the same descriptor, which drops it first).              *)
(*                                                                         *)
(* A thread's position is pc:                                              *)
(*   idle                         outside                                  *)
(*   wmu, wpend, wflock           in Lock: waiting for the writers' turn,  *)
(*                                waiting for the readers, at flock        *)
(*   write, writeBare             after Lock; Bare when there was no file  *)
(*   wrelease                     in Unlock, before the deferred mu.Unlock *)
(*   rmu, rwait, radmit, rflock   in RLock: counted, blocked behind a      *)
(*                                writer, woken by it, at flock            *)
(*   read, readBare, rrelease     after RLock; in RUnlock with countMx     *)
(*   wstuck, rstuck               Lock or RLock returned an error: the     *)
(*                                caller gives up and mu stays taken       *)
(***************************************************************************)
EXTENDS Naturals, FiniteSets

CONSTANTS Process,  \* the processes that open the view
          Thread,   \* the threads of all processes
          home      \* the process of each thread

ASSUME HomeAssumption == home \in [Thread -> Process]
ASSUME ThreadAssumption == IsFiniteSet(Thread)

VARIABLES pc,           \* position of each thread
          count,        \* FileLock.count of each process
          l,            \* flock.Flock.l: the exclusive lock is remembered
          r,            \* flock.Flock.r: the shared lock is remembered
          os,           \* what the kernel grants the process's descriptor
          exists,       \* the directory .git of the view exists
          unlockFailed  \* some flock.Unlock has returned an error

vars == <<pc, count, l, r, os, exists, unlockFailed>>

PC == {"idle", "wmu", "wpend", "wflock", "write", "writeBare", "wrelease",
       "wstuck", "rmu", "rwait", "radmit", "rflock", "read", "readBare",
       "rrelease", "rstuck"}

(* Who occupies the mutex: a writer from its announcement (wpend) on.      *)
WriterTurn == {"wpend", "wflock", "write", "writeBare", "wrelease", "wstuck"}
WriterIn   == WriterTurn \ {"wpend"}
ReaderIn   == {"radmit", "rflock", "read", "readBare", "rrelease", "rstuck"}
Counted    == {"rmu", "rwait", "radmit", "rflock", "read", "readBare", "rstuck"}

At(p, S) == {t \in Thread : home[t] = p /\ pc[t] \in S}

TypeOK ==
    /\ pc \in [Thread -> PC]
    /\ count \in [Process -> Nat]
    /\ l \in [Process -> BOOLEAN]
    /\ r \in [Process -> BOOLEAN]
    /\ os \in [Process -> {"none", "sh", "ex"}]
    /\ exists \in BOOLEAN
    /\ unlockFailed \in BOOLEAN

Init ==
    /\ pc = [t \in Thread |-> "idle"]
    /\ count = [p \in Process |-> 0]
    /\ l = [p \in Process |-> FALSE]
    /\ r = [p \in Process |-> FALSE]
    /\ os = [p \in Process |-> "none"]
    /\ exists \in BOOLEAN
    /\ unlockFailed = FALSE

Goto(t, to) == pc' = [pc EXCEPT ![t] = to]
Move(t, from, to) == pc[t] = from /\ Goto(t, to)

-----------------------------------------------------------------------------
(* gofrs/flock and flock(2).                                               *)

FlockVars == <<l, r, os>>

(* The kernel grants an exclusive (shared) lock when no other descriptor   *)
(* holds any (an exclusive) one.                                           *)
CanEx(p) == \A q \in Process \ {p} : os[q] = "none"
CanSh(p) == \A q \in Process \ {p} : os[q] # "ex"

FlockLock(p) ==
    \/ l[p] /\ UNCHANGED FlockVars
    \/ /\ ~l[p]
       /\ CanEx(p)
       /\ l' = [l EXCEPT ![p] = TRUE]
       /\ os' = [os EXCEPT ![p] = "ex"]
       /\ UNCHANGED r

FlockRLock(p) ==
    \/ r[p] /\ UNCHANGED FlockVars
    \/ /\ ~r[p]
       /\ CanSh(p)
       /\ r' = [r EXCEPT ![p] = TRUE]
       /\ os' = [os EXCEPT ![p] = "sh"]
       /\ UNCHANGED l

FlockUnlock(p) ==
    /\ l' = [l EXCEPT ![p] = FALSE]
    /\ r' = [r EXCEPT ![p] = FALSE]
    /\ os' = [os EXCEPT ![p] = "none"]

(* A failing LOCK_UN leaves the flags and the lock as they were.           *)
FlockUnlockFails(p) ==
    /\ l[p] \/ r[p]
    /\ unlockFailed' = TRUE
    /\ UNCHANGED FlockVars

(* flock(2) converts a shared lock by dropping it and then waiting.        *)
Convert(t) ==
    LET p == home[t] IN
    /\ exists
    /\ pc[t] = "wflock" /\ ~l[p] /\ os[p] = "sh" /\ ~CanEx(p)
    /\ os' = [os EXCEPT ![p] = "none"]
    /\ UNCHANGED <<pc, count, l, r, exists, unlockFailed>>

-----------------------------------------------------------------------------
(* Lock.                                                                   *)

Lock(t) == Move(t, "idle", "wmu") /\ UNCHANGED <<count, FlockVars, exists, unlockFailed>>

LockAnnounce(t) ==
    /\ Move(t, "wmu", "wpend")
    /\ At(home[t], WriterTurn) = {}
    /\ UNCHANGED <<count, FlockVars, exists, unlockFailed>>

LockMu(t) ==
    /\ Move(t, "wpend", "wflock")
    /\ At(home[t], ReaderIn) = {}
    /\ UNCHANGED <<count, FlockVars, exists, unlockFailed>>

(* A remembered lock returns at once; otherwise the file is opened first,  *)
(* and ErrNotExist counts as success.                                      *)
LockFlock(t) ==
    /\ exists
    /\ Move(t, "wflock", "write")
    /\ FlockLock(home[t])
    /\ UNCHANGED <<count, exists, unlockFailed>>

LockNoFile(t) ==
    /\ ~exists
    /\ Move(t, "wflock", "writeBare")
    /\ UNCHANGED <<count, FlockVars, exists, unlockFailed>>

LockFails(t) ==
    /\ ~l[home[t]]
    /\ Move(t, "wflock", "wstuck")
    /\ UNCHANGED <<count, FlockVars, exists, unlockFailed>>

(* Unlock: flock.Unlock, then the deferred mu.Unlock whatever it returned, *)
(* which wakes every reader that is blocked behind the writer.             *)
Unlock(t) ==
    /\ pc[t] \in {"write", "writeBare"} /\ Goto(t, "wrelease")
    /\ \/ FlockUnlock(home[t]) /\ UNCHANGED unlockFailed
       \/ FlockUnlockFails(home[t])
    /\ UNCHANGED <<count, exists>>

UnlockMu(t) ==
    /\ pc[t] = "wrelease"
    /\ pc' = [u \in Thread |-> IF u = t THEN "idle"
                               ELSE IF home[u] = home[t] /\ pc[u] = "rwait" THEN "radmit"
                               ELSE pc[u]]
    /\ UNCHANGED <<count, FlockVars, exists, unlockFailed>>

-----------------------------------------------------------------------------
(* RLock.  Incrementing needs countMx, which a thread in RUnlock holds.    *)

(* Mutant: mu.RLock is forgotten. *)
RLockMu_NotTaken(t) ==
    /\ Move(t, "rmu", "radmit")
    /\ UNCHANGED <<count, FlockVars, exists, unlockFailed>>

RLock(t) ==
    /\ Move(t, "idle", "rmu")
    /\ At(home[t], {"rrelease"}) = {}
    /\ count' = [count EXCEPT ![home[t]] = @ + 1]
    /\ UNCHANGED <<FlockVars, exists, unlockFailed>>

RLockMu(t) ==
    /\ \/ Move(t, "rmu", "rwait") /\ At(home[t], WriterTurn) # {}
       \/ Move(t, "rmu", "radmit") /\ At(home[t], WriterTurn) = {}
    /\ UNCHANGED <<count, FlockVars, exists, unlockFailed>>

RLockAdmitted(t) ==
    /\ Move(t, "radmit", "rflock")
    /\ UNCHANGED <<count, FlockVars, exists, unlockFailed>>

RLockFlock(t) ==
    /\ exists
    /\ Move(t, "rflock", "read")
    /\ FlockRLock(home[t])
    /\ UNCHANGED <<count, exists, unlockFailed>>

RLockNoFile(t) ==
    /\ ~exists
    /\ Move(t, "rflock", "readBare")
    /\ UNCHANGED <<count, FlockVars, exists, unlockFailed>>

RLockFails(t) ==
    /\ ~r[home[t]]
    /\ Move(t, "rflock", "rstuck")
    /\ UNCHANGED <<count, FlockVars, exists, unlockFailed>>

(* Mutants: every reader drops the file lock; the count is tested before   *)
(* it is decremented; an error path forgets to release mu and countMx.     *)
RUnlock_Every(t) ==
    LET p == home[t] IN
    /\ pc[t] \in {"read", "readBare"} /\ Goto(t, "rrelease")
    /\ At(p, {"rrelease"}) = {}
    /\ count' = [count EXCEPT ![p] = @ - 1]
    /\ FlockUnlock(p)
    /\ UNCHANGED <<exists, unlockFailed>>

RUnlockMu_NotOnError(t) ==
    /\ ~unlockFailed
    /\ Move(t, "rrelease", "idle")
    /\ UNCHANGED <<count, FlockVars, exists, unlockFailed>>

(* RUnlock holds countMx from the decrement to the release of mu.          *)
RUnlock(t) ==
    LET p == home[t] IN
    /\ pc[t] \in {"read", "readBare"} /\ Goto(t, "rrelease")
    /\ At(p, {"rrelease"}) = {}
    /\ count' = [count EXCEPT ![p] = @ - 1]
    /\ \/ count[p] # 1 /\ UNCHANGED <<FlockVars, unlockFailed>>
       \/ count[p] = 1 /\ FlockUnlock(p) /\ UNCHANGED unlockFailed
       \/ count[p] = 1 /\ FlockUnlockFails(p)
    /\ UNCHANGED exists

RUnlockMu(t) ==
    /\ Move(t, "rrelease", "idle")
    /\ UNCHANGED <<count, FlockVars, exists, unlockFailed>>

(* The directory appears while a writer clones the view into place.        *)
Clone(t) ==
    /\ pc[t] = "writeBare" /\ ~exists
    /\ exists' = TRUE
    /\ UNCHANGED <<pc, count, FlockVars, unlockFailed>>

-----------------------------------------------------------------------------
LockStep(t) ==
    \/ Lock(t) \/ LockAnnounce(t) \/ LockMu(t) \/ LockFlock(t) \/ LockNoFile(t)
    \/ LockFails(t) \/ Unlock(t) \/ UnlockMu(t)

RLockStep(t) ==
    \/ RLock(t) \/ RLockMu(t) \/ RLockAdmitted(t) \/ RLockFlock(t)
    \/ RLockNoFile(t) \/ RLockFails(t) \/ RUnlock(t) \/ RUnlockMu(t)

Next == \E t \in Thread : LockStep(t) \/ RLockStep(t) \/ Convert(t) \/ Clone(t)

Spec == Init /\ [][Next]_vars

-----------------------------------------------------------------------------
(* Inside a process a writer excludes everyone, with a file or without,    *)
(* and also after flock has failed (flock.go: "lock within this process"). *)
InProcessExclusion ==
    \A t, u \in Thread :
        /\ t # u /\ home[t] = home[u]
        /\ pc[t] \in {"write", "writeBare"}
        => pc[u] \notin {"write", "writeBare", "read", "readBare"}

(* Between processes a writer that holds the file excludes everyone that   *)
(* holds the file, whatever the overlap of readers, conversions of a lock  *)
(* left behind and failed acquisitions (flock.go: "lock between            *)
(* processes"), as long as no LOCK_UN has failed.                          *)
CrossProcessExclusion ==
    \A t, u \in Thread :
        ~unlockFailed /\ home[t] # home[u] /\ pc[t] = "write"
        => pc[u] \notin {"write", "read"}

(* The last user of a process leaves no file lock behind, or the other     *)
(* processes would wait for ever for a process that does nothing.          *)
QuietProcessHoldsNoFile ==
    \A p \in Process :
        At(p, Counted \cup WriterIn) = {} /\ ~unlockFailed => os[p] = "none"

(* Each process sees a plain readers-writer lock (RWLock).                 *)
Mode(t) ==
    IF pc[t] \in WriterIn THEN "write"
    ELSE IF pc[t] \in ReaderIn \ {"radmit"} THEN "read" ELSE "free"

Local == INSTANCE RWLock WITH Client <- Thread, mode <- [t \in Thread |-> Mode(t)]

ImplementsRWLock == Local!Spec

-----------------------------------------------------------------------------
(* Holders finish and release; the kernel and the runtime keep going.  The *)
(* writers' turn is a Go mutex, which does not starve a waiter.            *)
Fairness ==
    \A t \in Thread :
        /\ SF_vars(LockAnnounce(t))
        /\ WF_vars(LockMu(t) \/ LockFlock(t) \/ LockNoFile(t) \/ LockFails(t))
        /\ WF_vars(Unlock(t) \/ UnlockMu(t))
        /\ WF_vars(RLockMu(t) \/ RLockAdmitted(t) \/ RLockFlock(t) \/ RLockNoFile(t)
                    \/ RLockFails(t) \/ RUnlockMu(t))
        /\ SF_vars(RUnlock(t))

FairSpec == Spec /\ Fairness

(* Every request is served, readers under a stream of writers and writers  *)
(* under a stream of readers, unless a flock call has failed and left mu   *)
(* taken.  The kernel promises no turns between processes: one of them may *)
(* find the file locked whenever it looks.                                 *)
HeldElsewhere(p) == \E q \in Process \ {p} : os[q] # "none"

EveryRequestServed ==
    \A t \in Thread :
        pc[t] \in {"wmu", "rmu"} ~>
            \/ pc[t] \in {"write", "writeBare", "read", "readBare"}
            \/ At(home[t], {"wstuck", "rstuck"}) # {}
            \/ HeldElsewhere(home[t])

=============================================================================
