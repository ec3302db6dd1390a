--------------------------- MODULE FileLockProofs ---------------------------
(***************************************************************************)
(* FileLock excludes writers from writers and readers, in a process and    *)
(* between processes, for any number of threads and processes.             *)
(*                                                                         *)
(* The inductive invariant relates the RWMutex, the counter of readers,    *)
(* the flags of the flock library and the kernel's lock.  Its last part    *)
(* holds until an unlock of the file has failed.                           *)
(***************************************************************************)
EXTENDS FileLock, FiniteSetTheorems, TLAPS

(* The RWMutex: one writer of a process, and no readers with it.           *)
MuExclusive ==
    \A t, u \in Thread :
        t # u /\ home[t] = home[u] =>
            /\ ~(pc[t] \in WriterTurn /\ pc[u] \in WriterTurn)
            /\ ~(pc[t] \in WriterIn /\ pc[u] \in ReaderIn)

(* The counter counts the readers between RLock and RUnlock.               *)
CountIsReaders == \A p \in Process : count[p] = Cardinality(At(p, Counted))

(* The kernel: the exclusive lock is the only lock.                        *)
KernelExclusive ==
    \A p, q \in Process : p # q /\ os[p] = "ex" => os[q] = "none"

(* Who has got the lock has got the lock of the file.                      *)
HoldersHaveFile ==
    \A t \in Thread :
        /\ pc[t] = "write" => os[home[t]] = "ex"
        /\ pc[t] = "read" => r[home[t]] /\ os[home[t]] = "sh"

(* The flags of the library are set while somebody uses the lock.          *)
FlagsHaveUsers ==
    \A p \in Process :
        /\ l[p] => At(p, {"write"}) # {}
        /\ r[p] => At(p, Counted) # {}
        /\ os[p] # "none" => l[p] \/ r[p]
        /\ r[p] /\ At(p, {"wflock", "write", "wstuck"}) = {} => os[p] = "sh"

(* Without the file nothing is locked.                                     *)
NoFileNoFlags == ~exists => \A p \in Process : ~l[p] /\ ~r[p]

IInv ==
    /\ TypeOK
    /\ NoFileNoFlags
    /\ MuExclusive
    /\ CountIsReaders
    /\ KernelExclusive
    /\ ~unlockFailed => HoldersHaveFile /\ FlagsHaveUsers

-----------------------------------------------------------------------------
(* Facts about At.                                                         *)

LEMMA AtFinite ==
    \A p \in Process : \A S : IsFiniteSet(At(p, S)) /\ IsFiniteSet(At(p, S)')
  BY ThreadAssumption, FS_Subset DEF At

LEMMA AtMove ==
    ASSUME TypeOK, NEW t \in Thread, NEW to \in PC, Goto(t, to),
           NEW p \in Process, NEW S
    PROVE  At(p, S)' = IF p = home[t]
                       THEN IF to \in S THEN At(p, S) \cup {t} ELSE At(p, S) \ {t}
                       ELSE At(p, S)
  BY HomeAssumption DEF At, Goto, TypeOK

(* Waking the blocked readers changes no set that holds rwait and radmit   *)
(* together, or neither of them, except for the writer that leaves.        *)
LEMMA AtWake ==
    ASSUME TypeOK, NEW t \in Thread, UnlockMu(t), NEW p \in Process
    PROVE  At(p, Counted)' = At(p, Counted)
  BY HomeAssumption DEF At, UnlockMu, TypeOK, Counted

-----------------------------------------------------------------------------
(* The counter is the number of readers between RLock and RUnlock.         *)

LEMMA CountStep ==
    ASSUME TypeOK, CountIsReaders, [Next]_vars
    PROVE  CountIsReaders' /\ count' \in [Process -> Nat]
<1>1. SUFFICES CountIsReaders' /\ DOMAIN count' = Process /\ count' = [p \in Process |-> count'[p]]
  BY AtFinite, FS_CardinalityType DEF CountIsReaders
<1>2. ASSUME NEW t \in Thread, RLock(t)
      PROVE  CountIsReaders' /\ count' = [count EXCEPT ![home[t]] = @ + 1]
  <2> DEFINE p == home[t]
  <2>1. p \in Process /\ t \notin At(p, Counted)
    BY <1>2, HomeAssumption DEF RLock, Move, At, Counted
  <2>2. \A q \in Process : At(q, Counted)' = IF q = p THEN At(q, Counted) \cup {t} ELSE At(q, Counted)
    BY <1>2, AtMove DEF RLock, Move, PC, Counted
  <2>3. Cardinality(At(p, Counted) \cup {t}) = Cardinality(At(p, Counted)) + 1
    BY <2>1, AtFinite, FS_AddElement
  <2>. QED BY <1>2, <2>1, <2>2, <2>3 DEF CountIsReaders, RLock, TypeOK
<1>3. ASSUME NEW t \in Thread, RUnlock(t)
      PROVE  CountIsReaders' /\ count' = [count EXCEPT ![home[t]] = @ - 1]
  <2> DEFINE p == home[t]
  <2>1. p \in Process /\ t \in At(p, Counted)
    BY <1>3, HomeAssumption DEF RUnlock, At, Counted
  <2>2. \A q \in Process : At(q, Counted)' = IF q = p THEN At(q, Counted) \ {t} ELSE At(q, Counted)
    <3>1. Goto(t, "rrelease") /\ "rrelease" \in PC /\ "rrelease" \notin Counted
      BY <1>3 DEF RUnlock, PC, Counted
    <3>. QED BY <3>1, AtMove
  <2>3. Cardinality(At(p, Counted) \ {t}) = Cardinality(At(p, Counted)) - 1
    BY <2>1, AtFinite, FS_RemoveElement
  <2>. QED BY <1>3, <2>1, <2>2, <2>3 DEF CountIsReaders, RUnlock, TypeOK
<1>4. ASSUME NEW t \in Thread, UnlockMu(t) PROVE CountIsReaders' /\ count' = count
  BY <1>4, AtWake DEF UnlockMu, CountIsReaders
<1>5. ASSUME UNCHANGED vars PROVE CountIsReaders' /\ count' = count
  BY <1>5 DEF vars, CountIsReaders, At
<1>6. ASSUME NEW t \in Thread, Convert(t) \/ Clone(t) PROVE CountIsReaders' /\ count' = count
  BY <1>6 DEF Convert, Clone, CountIsReaders, At
<1>7. ASSUME NEW t \in Thread,
             \/ Lock(t) \/ LockAnnounce(t) \/ LockMu(t) \/ LockFlock(t) \/ LockNoFile(t)
             \/ LockFails(t) \/ Unlock(t) \/ RLockMu(t) \/ RLockAdmitted(t) \/ RLockFlock(t)
             \/ RLockNoFile(t) \/ RLockFails(t) \/ RUnlockMu(t)
      PROVE  CountIsReaders' /\ count' = count
  <2>1. count' = count
    BY <1>7 DEF Lock, LockAnnounce, LockMu, LockFlock, LockNoFile, LockFails, Unlock,
                RLockMu, RLockAdmitted, RLockFlock, RLockNoFile, RLockFails, RUnlockMu
  <2>2. PICK to \in PC : Goto(t, to) /\ (to \in Counted <=> pc[t] \in Counted)
    BY <1>7 DEF Lock, LockAnnounce, LockMu, LockFlock, LockNoFile, LockFails, Unlock,
                RLockMu, RLockAdmitted, RLockFlock, RLockNoFile, RLockFails, RUnlockMu,
                Move, Counted, PC
  <2>3. \A q \in Process : At(q, Counted)' = At(q, Counted)
    BY <2>2, AtMove DEF At
  <2>. QED BY <2>1, <2>3 DEF CountIsReaders
<1>. QED BY <1>2, <1>3, <1>4, <1>5, <1>6, <1>7 DEF Next, LockStep, RLockStep, TypeOK, vars

(* The variables but the counter keep their types.                         *)
LEMMA TypeStep ==
    ASSUME TypeOK, CountIsReaders, [Next]_vars
    PROVE  TypeOK'
<1>1. CASE UNCHANGED vars
  BY <1>1 DEF vars, TypeOK
<1>2. ASSUME NEW t \in Thread, LockStep(t) PROVE TypeOK'
  <2>1. pc' \in [Thread -> PC]
    BY <1>2 DEF LockStep, Lock, LockAnnounce, LockMu, LockFlock, LockNoFile, LockFails,
                Unlock, UnlockMu, Move, Goto, TypeOK, PC
  <2>2. /\ l' \in [Process -> BOOLEAN] /\ r' \in [Process -> BOOLEAN]
        /\ os' \in [Process -> {"none", "sh", "ex"}]
        /\ exists' \in BOOLEAN /\ unlockFailed' \in BOOLEAN
    BY <1>2 DEF LockStep, Lock, LockAnnounce, LockMu, LockFlock, LockNoFile, LockFails,
                Unlock, UnlockMu, FlockLock, FlockUnlock, FlockUnlockFails, FlockVars, TypeOK
  <2>. QED BY <2>1, <2>2, CountStep DEF TypeOK
<1>3. ASSUME NEW t \in Thread, RLockStep(t) PROVE TypeOK'
  <2>1. pc' \in [Thread -> PC]
    BY <1>3 DEF RLockStep, RLock, RLockMu, RLockAdmitted, RLockFlock, RLockNoFile,
                RLockFails, RUnlock, RUnlockMu, Move, Goto, TypeOK, PC
  <2>2. /\ l' \in [Process -> BOOLEAN] /\ r' \in [Process -> BOOLEAN]
        /\ os' \in [Process -> {"none", "sh", "ex"}]
        /\ exists' \in BOOLEAN /\ unlockFailed' \in BOOLEAN
    BY <1>3 DEF RLockStep, RLock, RLockMu, RLockAdmitted, RLockFlock, RLockNoFile,
                RLockFails, RUnlock, RUnlockMu, FlockRLock, FlockUnlock, FlockUnlockFails,
                FlockVars, TypeOK
  <2>. QED BY <2>1, <2>2, CountStep DEF TypeOK
<1>4. ASSUME NEW t \in Thread, Convert(t) \/ Clone(t) PROVE TypeOK'
  BY <1>4, CountStep DEF Convert, Clone, FlockVars, TypeOK
<1>. QED BY <1>1, <1>2, <1>3, <1>4 DEF Next

(* The mutex admits one writer or any number of readers.                   *)
LEMMA MuStep ==
    ASSUME TypeOK, MuExclusive, [Next]_vars
    PROVE  MuExclusive'
<1> USE DEF MuExclusive, WriterTurn, WriterIn, ReaderIn
<1>1. CASE UNCHANGED vars
  BY <1>1 DEF vars
<1>2. ASSUME NEW t \in Thread, LockAnnounce(t) \/ LockMu(t) \/ RLockMu(t) PROVE MuExclusive'
  BY <1>2 DEF LockAnnounce, LockMu, RLockMu, Move, Goto, At, TypeOK
<1>3. ASSUME NEW t \in Thread, UnlockMu(t) PROVE MuExclusive'
  BY <1>3 DEF UnlockMu, TypeOK
<1>4. ASSUME NEW t \in Thread,
             \/ Lock(t) \/ LockFlock(t) \/ LockNoFile(t) \/ LockFails(t) \/ Unlock(t)
             \/ RLock(t) \/ RLockAdmitted(t) \/ RLockFlock(t) \/ RLockNoFile(t)
             \/ RLockFails(t) \/ RUnlock(t) \/ RUnlockMu(t)
      PROVE  MuExclusive'
  <2>1. PICK to \in PC : /\ Goto(t, to)
                         /\ to \in WriterTurn => pc[t] \in WriterIn
                         /\ to \in ReaderIn => pc[t] \in ReaderIn
    BY <1>4 DEF Lock, LockFlock, LockNoFile, LockFails, Unlock, RLock, RLockAdmitted,
                RLockFlock, RLockNoFile, RLockFails, RUnlock, RUnlockMu, Move, PC
  <2>. QED BY <2>1 DEF Goto, TypeOK
<1>5. ASSUME NEW t \in Thread, Convert(t) \/ Clone(t) PROVE MuExclusive'
  BY <1>5 DEF Convert, Clone
<1>. QED BY <1>1, <1>2, <1>3, <1>4, <1>5 DEF Next, LockStep, RLockStep

(* The kernel never grants an exclusive lock next to another lock.         *)
LEMMA KernelStep ==
    ASSUME TypeOK, KernelExclusive, [Next]_vars
    PROVE  KernelExclusive'
<1> USE DEF KernelExclusive, TypeOK
<1>1. CASE UNCHANGED os BY <1>1
<1>2. ASSUME NEW t \in Thread, LockFlock(t) PROVE KernelExclusive'
  BY <1>2, HomeAssumption DEF LockFlock, FlockLock, FlockVars, CanEx
<1>3. ASSUME NEW t \in Thread, RLockFlock(t) PROVE KernelExclusive'
  BY <1>3, HomeAssumption DEF RLockFlock, FlockRLock, FlockVars, CanSh
<1>4. ASSUME NEW t \in Thread, Unlock(t) \/ RUnlock(t) \/ Convert(t) PROVE KernelExclusive'
  BY <1>4, HomeAssumption DEF Unlock, RUnlock, Convert, FlockUnlock, FlockUnlockFails, FlockVars
<1>. QED BY <1>1, <1>2, <1>3, <1>4
         DEF Next, LockStep, RLockStep, Lock, LockAnnounce, LockMu, LockNoFile, LockFails,
             UnlockMu, RLock, RLockMu, RLockAdmitted, RLockNoFile, RLockFails, RUnlockMu,
             Clone, FlockVars, vars

(* The counter tells a reader whether it is the last one.                  *)
LEMMA LastReader ==
    ASSUME TypeOK, CountIsReaders, NEW p \in Process, NEW t \in At(p, Counted)
    PROVE  count[p] = 1 <=> At(p, Counted) = {t}
<1>1. Cardinality(At(p, Counted) \ {t}) = count[p] - 1
  BY AtFinite, FS_RemoveElement DEF CountIsReaders
<1>2. Cardinality(At(p, Counted) \ {t}) = 0 <=> At(p, Counted) \ {t} = {}
  BY AtFinite, FS_EmptySet, FS_Subset
<1>. QED BY <1>1, <1>2 DEF TypeOK

Good == HoldersHaveFile /\ FlagsHaveUsers

(* Steps that leave the flock alone and move a thread neither into nor out *)
(* of a position that the file lock depends on.                            *)
LEMMA QuietStep ==
    ASSUME TypeOK, NoFileNoFlags, Good, UNCHANGED FlockVars, NEW t \in Thread, NEW to \in PC, Goto(t, to),
           to \notin {"write", "read"},
           pc[t] \notin {"write", "wstuck"},
           pc[t] = "wflock" => to = "wstuck" \/ ~exists,
           pc[t] \in Counted => to \in Counted
    PROVE  Good'
<1>1. HoldersHaveFile'
  BY DEF Good, HoldersHaveFile, FlockVars, Goto, TypeOK
<1>2. \A p \in Process :
         /\ At(p, {"write"}) # {} => At(p, {"write"})' # {}
         /\ At(p, Counted) # {} => At(p, Counted)' # {}
         /\ exists /\ At(p, {"wflock", "write", "wstuck"})' = {}
            => At(p, {"wflock", "write", "wstuck"}) = {}
  <2> TAKE p \in Process
  <2>1. At(p, {"write"})' = At(p, {"write"})
    BY HomeAssumption DEF At, Goto, TypeOK
  <2>2. At(p, Counted) \subseteq At(p, Counted)'
    BY AtMove DEF At
  <2>3. exists => At(p, {"wflock", "write", "wstuck"}) \subseteq At(p, {"wflock", "write", "wstuck"})'
    BY HomeAssumption DEF At, Goto, TypeOK
  <2>. QED BY <2>1, <2>2, <2>3
<1>. QED BY <1>1, <1>2 DEF Good, FlagsHaveUsers, FlockVars, NoFileNoFlags

(* The file lock is held by those who use it, and by nobody else.          *)
LEMMA FlockStep ==
    ASSUME TypeOK, NoFileNoFlags, MuExclusive, CountIsReaders, Good, [Next]_vars, ~unlockFailed'
    PROVE  Good'
<1>1. CASE UNCHANGED vars
  BY <1>1 DEF vars, Good, HoldersHaveFile, FlagsHaveUsers, At
<1>2. ASSUME NEW t \in Thread,
             \/ Lock(t) \/ LockAnnounce(t) \/ LockMu(t) \/ LockNoFile(t) \/ LockFails(t)
             \/ RLock(t) \/ RLockMu(t) \/ RLockAdmitted(t) \/ RLockNoFile(t)
             \/ RLockFails(t) \/ RUnlockMu(t)
      PROVE  Good'
  <2>1. UNCHANGED FlockVars
    BY <1>2 DEF Lock, LockAnnounce, LockMu, LockNoFile, LockFails, RLock, RLockMu,
                RLockAdmitted, RLockNoFile, RLockFails, RUnlockMu
  <2>2. PICK to \in PC : /\ Goto(t, to) /\ to \notin {"write", "read"}
                         /\ pc[t] \notin {"write", "wstuck"}
                         /\ pc[t] = "wflock" => to = "wstuck" \/ ~exists
                         /\ pc[t] \in Counted => to \in Counted
    BY <1>2 DEF Lock, LockAnnounce, LockMu, LockNoFile, LockFails, RLock, RLockMu,
                RLockAdmitted, RLockNoFile, RLockFails, RUnlockMu, Move, Counted, PC
  <2>. QED BY <2>1, <2>2, QuietStep
<1>3. ASSUME NEW t \in Thread, UnlockMu(t) PROVE Good'
  <2>1. \A p \in Process : At(p, Counted)' = At(p, Counted)
    BY <1>3, AtWake
  <2>2. \A p \in Process : /\ At(p, {"write"})' = At(p, {"write"})
                           /\ At(p, {"wflock", "write", "wstuck"})' = At(p, {"wflock", "write", "wstuck"})
    BY <1>3 DEF UnlockMu, At, TypeOK
  <2>3. HoldersHaveFile'
    BY <1>3 DEF UnlockMu, Good, HoldersHaveFile, FlockVars, TypeOK
  <2>. QED BY <1>3, <2>1, <2>2, <2>3 DEF UnlockMu, FlockVars, Good, FlagsHaveUsers
<1>4. ASSUME NEW t \in Thread, LockFlock(t) PROVE Good'
  <2> DEFINE p == home[t]
  <2>1. p \in Process /\ pc[t] = "wflock" /\ Goto(t, "write") /\ ~unlockFailed
    BY <1>4, HomeAssumption DEF LockFlock, Move
  <2>2. At(p, {"write"}) = {}
    BY <2>1 DEF MuExclusive, WriterTurn, At
  <2>3. /\ l' = [l EXCEPT ![p] = TRUE] /\ os' = [os EXCEPT ![p] = "ex"] /\ r' = r
    BY <1>4, <2>1, <2>2 DEF LockFlock, FlockLock, FlockVars, Good, FlagsHaveUsers
  <2>4. At(p, {"write"})' # {}
    BY <2>1, HomeAssumption DEF At, Goto, TypeOK
  <2>5. \A q \in Process : At(q, Counted)' = At(q, Counted)
    BY <2>1, HomeAssumption DEF At, Goto, TypeOK, Counted
  <2>6. \A q \in Process \ {p} : \A S : At(q, S)' = At(q, S)
    BY <2>1, AtMove DEF PC
  <2>7. At(p, {"wflock", "write", "wstuck"})' # {}
    BY <2>1, HomeAssumption DEF At, Goto, TypeOK
  <2>8. HoldersHaveFile'
    BY <2>1, <2>3 DEF Good, HoldersHaveFile, MuExclusive, WriterIn, WriterTurn, ReaderIn, Goto, TypeOK
  <2>. QED BY <2>1, <2>3, <2>4, <2>5, <2>6, <2>7, <2>8 DEF Good, FlagsHaveUsers, TypeOK
<1>5. ASSUME NEW t \in Thread, RLockFlock(t) PROVE Good'
  <2> DEFINE p == home[t]
  <2>1. p \in Process /\ pc[t] = "rflock" /\ Goto(t, "read")
    BY <1>5, HomeAssumption DEF RLockFlock, Move
  <2>2. At(p, {"wflock", "write", "wstuck"}) = {} /\ At(p, {"write"}) = {}
    BY <2>1 DEF MuExclusive, WriterTurn, WriterIn, ReaderIn, At
  <2>3. r' = [r EXCEPT ![p] = TRUE] /\ os' = [os EXCEPT ![p] = "sh"] /\ l' = l /\ ~l[p]
    BY <1>5, <2>1, <2>2 DEF RLockFlock, FlockRLock, FlockVars, Good, FlagsHaveUsers, TypeOK
  <2>4. \A q \in Process : At(q, Counted)' = At(q, Counted) /\ At(q, {"write"})' = At(q, {"write"})
    BY <2>1, HomeAssumption DEF At, Goto, TypeOK, Counted
  <2>5. \A q \in Process : At(q, {"wflock", "write", "wstuck"})' = At(q, {"wflock", "write", "wstuck"})
    BY <2>1, HomeAssumption DEF At, Goto, TypeOK
  <2>6. At(p, Counted) # {}
    BY <2>1 DEF At, Counted
  <2>7. HoldersHaveFile'
    BY <2>1, <2>2, <2>3 DEF Good, HoldersHaveFile, Goto, At, TypeOK
  <2>. QED BY <2>1, <2>3, <2>4, <2>5, <2>6, <2>7 DEF Good, FlagsHaveUsers, TypeOK
<1>6. ASSUME NEW t \in Thread, Unlock(t) PROVE Good'
  <2> DEFINE p == home[t]
  <2>1. p \in Process /\ pc[t] \in {"write", "writeBare"} /\ Goto(t, "wrelease") /\ FlockUnlock(p)
    BY <1>6, HomeAssumption DEF Unlock, FlockUnlockFails
  <2>2. \A q \in Process \ {p} : \A S : At(q, S)' = At(q, S)
    BY <2>1, AtMove DEF PC
  <2>3. HoldersHaveFile'
    BY <2>1 DEF Good, HoldersHaveFile, MuExclusive, WriterIn, WriterTurn, ReaderIn, FlockUnlock, Goto, TypeOK
  <2>. QED BY <2>1, <2>2, <2>3 DEF Good, FlagsHaveUsers, FlockUnlock, TypeOK
<1>7. ASSUME NEW t \in Thread, RUnlock(t) PROVE Good'
  <2> DEFINE p == home[t]
  <2>1. p \in Process /\ pc[t] \in {"read", "readBare"} /\ Goto(t, "rrelease") /\ t \in At(p, Counted)
    BY <1>7, HomeAssumption DEF RUnlock, At, Counted
  <2>2. \A q \in Process : q # p => \A S : At(q, S)' = At(q, S)
    BY <2>1, AtMove DEF PC
  <2>3. /\ At(p, {"write"})' = At(p, {"write"}) /\ At(p, Counted)' = At(p, Counted) \ {t}
        /\ At(p, {"wflock", "write", "wstuck"})' = At(p, {"wflock", "write", "wstuck"})
    BY <2>1, HomeAssumption DEF At, Goto, TypeOK, Counted
  <2>4. CASE count[p] # 1
    <3>1. UNCHANGED FlockVars
      BY <1>7, <2>4 DEF RUnlock
    <3>2. At(p, Counted) \ {t} # {}
      BY <2>1, <2>4, LastReader
    <3>3. HoldersHaveFile'
      BY <2>1, <3>1 DEF Good, HoldersHaveFile, FlockVars, Goto, TypeOK
    <3>. QED BY <2>2, <2>3, <3>1, <3>2, <3>3 DEF Good, FlagsHaveUsers, FlockVars
  <2>5. CASE count[p] = 1
    <3>1. FlockUnlock(p)
      BY <1>7, <2>5 DEF RUnlock, FlockUnlockFails
    <3>2. At(p, Counted) = {t}
      BY <2>1, <2>5, LastReader
    <3>3. \A u \in Thread : home[u] = p => pc'[u] \notin {"write", "read"}
      BY <2>1, <3>2 DEF At, Counted, Goto, TypeOK, MuExclusive, WriterIn, WriterTurn, ReaderIn
    <3>4. HoldersHaveFile'
      BY <2>1, <3>1, <3>3, HomeAssumption DEF Good, HoldersHaveFile, FlockUnlock, Goto, TypeOK
    <3>. QED BY <2>1, <2>2, <3>1, <3>4 DEF Good, FlagsHaveUsers, FlockUnlock, TypeOK
  <2>. QED BY <2>4, <2>5
<1>8. ASSUME NEW t \in Thread, Convert(t) PROVE Good'
  <2>1. \A p \in Process : \A S : At(p, S)' = At(p, S)
    BY <1>8 DEF Convert, At
  <2>2. At(home[t], {"wflock", "write", "wstuck"}) # {} /\ home[t] \in Process
    BY <1>8, HomeAssumption DEF Convert, At
  <2>3. HoldersHaveFile'
    BY <1>8 DEF Convert, Good, HoldersHaveFile, MuExclusive, WriterIn, WriterTurn, ReaderIn, TypeOK
  <2>. QED BY <1>8, <2>1, <2>2, <2>3 DEF Convert, Good, FlagsHaveUsers, TypeOK
<1>9. ASSUME NEW t \in Thread, Clone(t) PROVE Good'
  BY <1>9 DEF Clone, Good, HoldersHaveFile, FlagsHaveUsers, At, FlockVars
<1>. QED BY <1>1, <1>2, <1>3, <1>4, <1>5, <1>6, <1>7, <1>8, <1>9 DEF Next, LockStep, RLockStep

-----------------------------------------------------------------------------
LEMMA InitIInv == Init => IInv
<1> SUFFICES ASSUME Init PROVE IInv OBVIOUS
<1>1. TypeOK
  BY DEF Init, TypeOK, PC
<1>2. MuExclusive /\ KernelExclusive /\ NoFileNoFlags /\ HoldersHaveFile
  BY DEF Init, MuExclusive, KernelExclusive, NoFileNoFlags, HoldersHaveFile, WriterTurn, WriterIn, ReaderIn
<1>3. CountIsReaders
  <2>1. \A p \in Process : At(p, Counted) = {}
    BY DEF Init, At, Counted
  <2>. QED BY <2>1, FS_EmptySet DEF Init, CountIsReaders
<1>4. FlagsHaveUsers
  BY DEF Init, FlagsHaveUsers
<1>. QED BY <1>1, <1>2, <1>3, <1>4 DEF IInv

LEMMA NextIInv == IInv /\ [Next]_vars => IInv'
<1> SUFFICES ASSUME IInv, [Next]_vars PROVE IInv' OBVIOUS
<1>1. TypeOK' /\ CountIsReaders'
  BY TypeStep, CountStep DEF IInv
<1>2. MuExclusive' /\ KernelExclusive'
  BY MuStep, KernelStep DEF IInv
<1>3. NoFileNoFlags'
  <2>1. CASE UNCHANGED <<exists, l, r>>
    BY <2>1 DEF NoFileNoFlags, IInv
  <2>2. ASSUME NEW t \in Thread, LockFlock(t) \/ RLockFlock(t) \/ Clone(t) PROVE NoFileNoFlags'
    BY <2>2 DEF LockFlock, RLockFlock, Clone, NoFileNoFlags
  <2>3. ASSUME NEW t \in Thread, Unlock(t) \/ RUnlock(t) PROVE NoFileNoFlags'
    BY <2>3 DEF Unlock, RUnlock, FlockUnlock, FlockUnlockFails, FlockVars, NoFileNoFlags, IInv, TypeOK
  <2>. QED BY <2>1, <2>2, <2>3
           DEF Next, LockStep, RLockStep, Lock, LockAnnounce, LockMu, LockNoFile, LockFails,
               UnlockMu, RLock, RLockMu, RLockAdmitted, RLockNoFile, RLockFails, RUnlockMu,
               Convert, FlockVars, vars
<1>4. ~unlockFailed' => Good'
  <2>1. ~unlockFailed' => ~unlockFailed
    BY DEF Next, LockStep, RLockStep, Lock, LockAnnounce, LockMu, LockFlock, LockNoFile,
           LockFails, Unlock, UnlockMu, RLock, RLockMu, RLockAdmitted, RLockFlock, RLockNoFile,
           RLockFails, RUnlock, RUnlockMu, FlockUnlockFails, Convert, Clone, vars
  <2>. QED BY <2>1, FlockStep DEF IInv, Good
<1>. QED BY <1>1, <1>2, <1>3, <1>4 DEF IInv, Good

LEMMA Invariance == Spec => []IInv
  BY InitIInv, NextIInv, PTL DEF Spec

(* The counter, the flags and the positions keep their types; count never  *)
(* goes below zero, where FileLock.count, a uint, would wrap.              *)
THEOREM TypeCorrect == Spec => []TypeOK
<1>1. IInv => TypeOK BY DEF IInv
<1>. QED BY <1>1, Invariance, PTL

(* In a process a writer excludes all others (FileLock.mu).                *)
THEOREM InProcess == Spec => []InProcessExclusion
<1>1. IInv => InProcessExclusion
  BY DEF IInv, MuExclusive, InProcessExclusion, WriterTurn, WriterIn, ReaderIn
<1>. QED BY <1>1, Invariance, PTL

(* Between processes a writer with the file excludes all others with it,   *)
(* unless a LOCK_UN has failed (FileLock.lock).                            *)
THEOREM CrossProcess == Spec => []CrossProcessExclusion
<1>1. IInv => CrossProcessExclusion
  BY HomeAssumption DEF IInv, HoldersHaveFile, KernelExclusive, CrossProcessExclusion
<1>. QED BY <1>1, Invariance, PTL

(* A process without users holds no file lock, unless a LOCK_UN has failed *)
(* (the count of FileLock.RUnlock).                                        *)
THEOREM QuietProcess == Spec => []QuietProcessHoldsNoFile
<1>1. IInv => QuietProcessHoldsNoFile
  BY DEF IInv, FlagsHaveUsers, QuietProcessHoldsNoFile, At, WriterIn, WriterTurn, Counted, TypeOK
<1>. QED BY <1>1, Invariance, PTL

-----------------------------------------------------------------------------
(* Every process sees a readers-writer lock.                               *)

modeBar == [t \in Thread |-> Mode(t)]

LEMMA ModeStep ==
    ASSUME TypeOK, MuExclusive, Next
    PROVE  [Local!Next]_modeBar
<1> USE DEF modeBar, Mode, WriterIn, WriterTurn, ReaderIn
<1>1. ASSUME NEW t \in Thread, LockMu(t) PROVE Local!AcquireWrite(t)
  <2>1. \A u \in Thread : home[u] = home[t] => pc[u] \notin WriterIn \cup ReaderIn
    BY <1>1 DEF LockMu, Move, At, MuExclusive
  <2>2. modeBar' = [modeBar EXCEPT ![t] = "write"]
    BY <1>1 DEF LockMu, Move, Goto, TypeOK
  <2>. QED BY <2>1, <2>2 DEF Local!AcquireWrite, Local!Peers
<1>2. ASSUME NEW t \in Thread, RLockAdmitted(t) PROVE Local!AcquireRead(t)
  <2>1. \A u \in Thread : home[u] = home[t] => pc[u] \notin WriterIn
    BY <1>2 DEF RLockAdmitted, Move, MuExclusive
  <2>2. modeBar' = [modeBar EXCEPT ![t] = "read"]
    BY <1>2 DEF RLockAdmitted, Move, Goto, TypeOK
  <2>. QED BY <1>2, <2>1, <2>2 DEF RLockAdmitted, Move, Local!AcquireRead, Local!Peers
<1>3. ASSUME NEW t \in Thread, UnlockMu(t) \/ RUnlockMu(t) PROVE Local!Release(t)
  <2>1. modeBar' = [modeBar EXCEPT ![t] = "free"]
    BY <1>3 DEF UnlockMu, RUnlockMu, Move, Goto, TypeOK
  <2>. QED BY <1>3, <2>1 DEF UnlockMu, RUnlockMu, Move, Local!Release
<1>4. ASSUME NEW t \in Thread,
             \/ Lock(t) \/ LockAnnounce(t) \/ LockFlock(t) \/ LockNoFile(t) \/ LockFails(t)
             \/ Unlock(t) \/ RLock(t) \/ RLockMu(t) \/ RLockFlock(t) \/ RLockNoFile(t)
             \/ RLockFails(t) \/ RUnlock(t) \/ Convert(t) \/ Clone(t)
      PROVE  UNCHANGED modeBar
  <2>1. \A u \in Thread : Mode(u)' = Mode(u)
    BY <1>4 DEF Lock, LockAnnounce, LockFlock, LockNoFile, LockFails, Unlock, RLock, RLockMu,
                RLockFlock, RLockNoFile, RLockFails, RUnlock, Convert, Clone, Move, Goto, TypeOK
  <2>. QED BY <2>1
<1>. QED BY <1>1, <1>2, <1>3, <1>4 DEF Next, LockStep, RLockStep, Local!Next

(* FileLock implements RWLock: Lock, Unlock, RLock and RUnlock of flock.go *)
(* take effect at mu.Lock, mu.Unlock, mu.RLock and mu.RUnlock.             *)
THEOREM Refinement == Spec => ImplementsRWLock
<1>1. Init => Local!Init
  BY DEF Init, Local!Init, Mode, WriterIn, WriterTurn, ReaderIn
<1>2. IInv /\ [Next]_vars => [Local!Next]_modeBar
  <2>1. UNCHANGED vars => UNCHANGED modeBar
    BY DEF vars, modeBar, Mode
  <2>. QED BY <2>1, ModeStep DEF IInv
<1>. QED BY <1>1, <1>2, Invariance, PTL DEF Spec, ImplementsRWLock, Local!Spec, modeBar

=============================================================================
