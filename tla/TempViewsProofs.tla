-------------------------- MODULE TempViewsProofs --------------------------
(***************************************************************************)
(* What holds in the pool of temporary views for any number of processes   *)
(* and views, and any number of jobs and failures.                         *)
(*                                                                         *)
(* The inductive invariant has three parts.  JobsOK: a process that has a  *)
(* job has all of it.  PoolInv: a process that holds a view is the only    *)
(* one, and the view is not marked free; a view marked as in use is held   *)
(* or lost.  EditsInv: a view on the trunk branch has no edits, and what a *)
(* job checks out is there when its work begins.                           *)
(*                                                                         *)
(* And what holds of executions, for any goroutines, views and branches.   *)
(* XInv: who holds a lock or waits for it is an execution that needs it,   *)
(* in that mode, and one that is past a lock has it until it ends.         *)
(* ExpInv: what a check or an assertion has found stays true while the     *)
(* functions after it run.  NestInv: who executes within an execution is a *)
(* landing, in trunk.                                                      *)
(***************************************************************************)
EXTENDS MCTempViews, FiniteSetTheorems, TLAPS

(* A process that is not idle knows its job, its workspace and snapshot,   *)
(* and from its choice of a view on, the view.                             *)
JobsOK ==
    \A p \in Process :
        /\ pc[p] # "idle" => job[p].kind \in Kinds /\ job[p].ws \in Workspace
        /\ pc[p] # "idle" /\ job[p].kind \in {"copy", "amend"}
              => job[p].of \in DOMAIN snaps
        /\ pc[p] = "work" => job[p].kind # "archive"
        /\ pc[p] \notin {"idle", "list"} => job[p].view \in View
        /\ pc[p] \in {"idle", "list"} => job[p].view = none

(* Nobody can take a view that is held.                                    *)
HeldIsNotFree == \A p \in Process : Holds(p) => name[job[p].view] # "free"

PoolInv == OneJobPerView /\ UsedHasUser /\ HeldIsNotFree

(* A view that is left with edits is left on another branch: the next job  *)
(* checks trunk out by force.                                              *)
TrunkIsClean == \A v \in View : repo[v].head = Trunk => repo[v].work = {}

EditsInv ==
    /\ TrunkIsClean
    /\ \A p \in Process : pc[p] = "checkout" => MyRepo(p).head = Trunk
    /\ \A p \in Process : pc[p] = "work" => MyRepo(p).head # Trunk
    /\ FindsOwnEdits

(* The views that exist or are about to, but for the lost ones.            *)
Claimed == {v \in View : \E p \in Process : pc[p] = "prepare" /\ job[p].view = v}
Pool == ({v \in View : name[v] # "absent"} \union Claimed) \ lost

PoolLimited == Cardinality(Pool) <= MinPool - 1 + Cardinality(Process)

IInv == TypeOK /\ JobsOK /\ PoolInv /\ EditsInv /\ PoolLimited

-----------------------------------------------------------------------------
(* The steps of a process inside its view.                                 *)

Inside(p) ==
    \/ Reuse(p) \/ CheckoutWorkspace(p) \/ CheckoutSnapshot(p)
    \/ UnknownSnapshot(p) \/ CheckoutReverted(p) \/ CheckoutArchived(p)
    \/ Work(p) \/ Save(p) \/ LeaveReverted(p) \/ LeaveArchived(p) \/ Fail(p)

HoldPCs == {"checkout", "work", "save", "leave", "return"}

(* To the pool, such a step is only a move of the process that holds it.   *)
LEMMA InsideHolds ==
    ASSUME NEW p \in Process, Inside(p)
    PROVE  /\ Holds(p) /\ \E at \in HoldPCs : Goto(p, at)
           /\ UNCHANGED <<name, job, lost>>
  BY DEF Inside, Reuse, CheckoutWorkspace, CheckoutSnapshot, UnknownSnapshot,
         CheckoutReverted, CheckoutArchived, Work, Save, LeaveReverted,
         LeaveArchived, Fail, InView, At, Holds, HoldPCs

(* Snapshots are only added.                                               *)
LEMMA SnapsGrow ==
    ASSUME TypeOK, NEW s \in SnapType, snaps' = Append(snaps, s)
    PROVE  /\ snaps' \in Seq(SnapType)
           /\ DOMAIN snaps \subseteq DOMAIN snaps'
           /\ \A i \in DOMAIN snaps : snaps'[i] = snaps[i]
  BY DEF TypeOK

(* The edits that a job's patches can leave are edits.                     *)
LEMMA PatchedType ==
    ASSUME TypeOK, JobsOK, NEW p \in Process, pc[p] = "work",
           NEW work \in Patched(job[p], MyRepo(p).work)
    PROVE  work \subseteq Edits
<1>1. /\ job[p].id \in Nat /\ MyRepo(p).work \subseteq Nat
      /\ job[p].kind \in {"copy", "amend", "revert"}
  BY DEF TypeOK, JobsOK, MyRepo, JobType, RepoType, Edits, Kinds
<1>2. job[p].kind = "copy" => snaps[job[p].of].work \subseteq Nat
  <2>1. job[p].kind = "copy" => job[p].of \in DOMAIN snaps
    BY DEF JobsOK
  <2>2. \A i \in DOMAIN snaps : snaps[i] \in SnapType
    BY DEF TypeOK
  <2>. QED BY <2>1, <2>2 DEF SnapType, Edits
<1>3. CASE job[p].kind = "copy"
  BY <1>1, <1>2, <1>3 DEF Patched, Edits
<1>4. CASE job[p].kind = "amend"
  BY <1>1, <1>4 DEF Patched, Edits
<1>5. CASE job[p].kind = "revert"
  BY <1>1, <1>5 DEF Patched, Edits
<1>. QED BY <1>1, <1>3, <1>4, <1>5

-----------------------------------------------------------------------------
(* What a step may do to a repository and to a job keeps their types.      *)
LEMMA RepoUpdate ==
    ASSUME TypeOK, NEW v \in View, NEW r \in RepoType,
           repo' = [repo EXCEPT ![v] = r]
    PROVE  repo' \in [View -> RepoType]
  BY DEF TypeOK

(* A repository that is prepared or checked out is a repository.           *)
LEMMA RepoHelpers ==
    ASSUME TypeOK, NEW r \in RepoType, NEW w \in Workspace
    PROVE  /\ Prepared(r) \in RepoType /\ CheckedOut(r, w) \in RepoType
           /\ NewRepo \in RepoType
           /\ \A i \in DOMAIN snaps : Restored(r, i) \in RepoType
<1>1. DOMAIN snaps \subseteq Nat
  BY DEF TypeOK
<1>2. \A i \in DOMAIN snaps : snaps[i] \in SnapType
  BY DEF TypeOK
<1>. QED BY <1>1, <1>2 DEF Prepared, CheckedOut, NewRepo, Restored, RepoType, SnapType, Edits

(* A job that is under way: its view's repository, and its snapshot.       *)
LEMMA JobFacts ==
    ASSUME TypeOK, JobsOK, NEW p \in Process, pc[p] \notin {"idle", "list"}
    PROVE  /\ job[p].view \in View /\ MyRepo(p) \in RepoType
           /\ job[p].ws \in Workspace /\ job[p].kind \in Kinds
           /\ job[p].kind \in {"copy", "amend"} => job[p].of \in DOMAIN snaps
  BY DEF TypeOK, JobsOK, MyRepo

LEMMA InsideType ==
    ASSUME TypeOK, JobsOK, NEW p \in Process, Inside(p)
    PROVE  /\ repo' \in [View -> RepoType] /\ snaps' \in Seq(SnapType)
           /\ DOMAIN snaps \subseteq DOMAIN snaps' /\ jobs' = jobs
<1>1. pc[p] \notin {"idle", "list"}
  BY InsideHolds DEF Holds
<1>2. /\ job[p].view \in View /\ MyRepo(p) \in RepoType
      /\ job[p].ws \in Workspace /\ job[p].kind \in Kinds
      /\ job[p].kind \in {"copy", "amend"} => job[p].of \in DOMAIN snaps
  BY <1>1, JobFacts
<1>3. CASE UnknownSnapshot(p) \/ Fail(p)
  BY <1>3 DEF UnknownSnapshot, Fail, TypeOK
<1>4. CASE Reuse(p) \/ CheckoutWorkspace(p) \/ CheckoutSnapshot(p) \/ LeaveReverted(p)
  <2>1. PICK r \in RepoType : repo' = [repo EXCEPT ![job[p].view] = r]
    BY <1>2, <1>4, RepoHelpers DEF Reuse, CheckoutWorkspace, CheckoutSnapshot,
       LeaveReverted, InView, At
  <2>. QED BY <1>2, <1>4, <2>1, RepoUpdate
           DEF Reuse, CheckoutWorkspace, CheckoutSnapshot, LeaveReverted, InView, TypeOK
<1>5. CASE CheckoutReverted(p) \/ CheckoutArchived(p) \/ LeaveArchived(p)
  <2>1. PICK r \in RepoType : repo' = [repo EXCEPT ![job[p].view] = r]
    BY <1>2, <1>5 DEF CheckoutReverted, CheckoutArchived, LeaveArchived, InView,
       RepoType, Edits
  <2>. QED BY <1>2, <1>5, <2>1, RepoUpdate
           DEF CheckoutReverted, CheckoutArchived, LeaveArchived, InView, TypeOK
<1>6. CASE Work(p)
  <2>1. PICK work \in Patched(job[p], MyRepo(p).work) :
             repo' = [repo EXCEPT ![job[p].view] = [MyRepo(p) EXCEPT !.work = work]]
    BY <1>6 DEF Work, InView
  <2>2. work \subseteq Edits
    BY <1>6, <2>1, PatchedType DEF Work
  <2>3. [MyRepo(p) EXCEPT !.work = work] \in RepoType
    BY <1>2, <2>2 DEF RepoType
  <2>. QED BY <1>2, <1>6, <2>1, <2>3, RepoUpdate DEF Work, InView, TypeOK
<1>7. CASE Save(p)
  <2>1. [ws |-> job[p].ws, work |-> MyRepo(p).work] \in SnapType
    BY <1>2 DEF RepoType, SnapType
  <2>2. /\ snaps' = Append(snaps, [ws |-> job[p].ws, work |-> MyRepo(p).work])
        /\ \E known \in {MyRepo(p).known, MyRepo(p).known \union {Len(snaps')}} :
              repo' = [repo EXCEPT ![job[p].view] = [MyRepo(p) EXCEPT !.known = known]]
        /\ jobs' = jobs
    BY <1>7 DEF Save, InView
  <2>3. Len(snaps') \in Nat
    BY <2>1, <2>2, SnapsGrow
  <2>4. PICK r \in RepoType : repo' = [repo EXCEPT ![job[p].view] = r]
    BY <1>2, <2>2, <2>3 DEF RepoType
  <2>. QED BY <1>2, <2>1, <2>2, <2>4, RepoUpdate, SnapsGrow
<1>. QED BY <1>3, <1>4, <1>5, <1>6, <1>7 DEF Inside

-----------------------------------------------------------------------------
LEMMA TypeStep ==
    ASSUME TypeOK, JobsOK, [Next]_vars
    PROVE  TypeOK' /\ JobsOK'
<1>1. CASE UNCHANGED vars
  BY <1>1 DEF vars, TypeOK, JobsOK
<1>2. ASSUME NEW p \in Process, NEW k \in Kinds, Start(p, k) PROVE TypeOK' /\ JobsOK'
  <2>1. PICK w \in Workspace, i \in 0..Len(snaps) :
           /\ k \in {"copy", "amend"} => i # 0
           /\ job' = [job EXCEPT ![p] = [id |-> jobs + 1, kind |-> k, ws |-> w,
                                         of |-> i, view |-> none]]
    BY <1>2 DEF Start
  <2>2. /\ jobs + 1 \in Nat /\ i \in Nat
        /\ k \in {"copy", "amend"} => i \in DOMAIN snaps
    BY <2>1 DEF TypeOK
  <2>3. [id |-> jobs + 1, kind |-> k, ws |-> w, of |-> i, view |-> none] \in JobType
    BY <2>2 DEF JobType
  <2>. QED BY <1>2, <2>1, <2>2, <2>3 DEF Start, Goto, TypeOK, JobsOK, PCs
<1>3. ASSUME NEW p \in Process, NewName(p) \/ Pick(p) PROVE TypeOK' /\ JobsOK'
  <2>1. PICK v \in View : job' = [job EXCEPT ![p].view = v]
    BY <1>3 DEF NewName, Pick, Free
  <2>2. /\ UNCHANGED <<name, repo, snaps, jobs, lost>> /\ pc[p] = "list"
        /\ \E at \in {"prepare", "rename"} : Goto(p, at)
    BY <1>3 DEF NewName, Pick
  <2>3. job' \in [Process -> JobType]
    BY <2>1 DEF TypeOK, JobType
  <2>4. TypeOK'
    BY <2>2, <2>3 DEF Goto, TypeOK, PCs
  <2>5. \A q \in Process : q # p => job'[q] = job[q]
    BY <2>1 DEF TypeOK
  <2>6. /\ job'[p].view = v /\ job'[p].kind = job[p].kind
        /\ job'[p].ws = job[p].ws /\ job'[p].of = job[p].of
    BY <2>1 DEF TypeOK, JobType
  <2>. QED BY <2>2, <2>4, <2>5, <2>6 DEF Goto, TypeOK, JobsOK
<1>4. ASSUME NEW p \in Process, MarkUsing(p) PROVE TypeOK' /\ JobsOK'
  BY <1>4 DEF MarkUsing, Goto, TypeOK, JobsOK, PCs
<1>5. ASSUME NEW p \in Process, LoseRename(p) \/ Return(p) \/ Die(p) PROVE TypeOK' /\ JobsOK'
  <2>1. NoJob \in JobType
    BY DEF NoJob, JobType
  <2>2. /\ name' \in [View -> {"absent", "free", "using"}] /\ lost' \subseteq View
        /\ UNCHANGED <<repo, snaps, jobs>> /\ End(p)
    BY <1>5 DEF LoseRename, Return, Die, TypeOK
  <2>. QED BY <2>1, <2>2 DEF End, Goto, NoJob, TypeOK, JobsOK, PCs
<1>6. ASSUME NEW p \in Process, Clone(p) PROVE TypeOK' /\ JobsOK'
  <2>1. NewRepo \in RepoType
    BY DEF NewRepo, RepoType, TypeOK, Edits
  <2>. QED BY <1>6, <2>1 DEF Clone, Goto, TypeOK, JobsOK, PCs
<1>7. ASSUME NEW p \in Process, Inside(p) PROVE TypeOK' /\ JobsOK'
  <2>1. PICK at \in HoldPCs : Holds(p) /\ Goto(p, at) /\ UNCHANGED <<name, job, lost>>
    BY <1>7, InsideHolds
  <2>2. at = "work" => job[p].kind # "archive"
    BY <1>7, <2>1 DEF Inside, Reuse, CheckoutWorkspace, CheckoutSnapshot, UnknownSnapshot,
         CheckoutReverted, CheckoutArchived, Work, Save, LeaveReverted,
         LeaveArchived, Fail, InView, At, Goto, TypeOK
  <2>. QED BY <1>7, <2>1, <2>2, InsideType DEF Goto, Holds, HoldPCs, TypeOK, JobsOK, PCs
<1>8. ASSUME TakenElsewhere PROVE TypeOK' /\ JobsOK'
  <2>1. PICK w \in Workspace : snaps' = Append(snaps, [ws |-> w, work |-> {0}])
    BY <1>8 DEF TakenElsewhere
  <2>2. [ws |-> w, work |-> {0}] \in SnapType
    BY DEF SnapType, Edits
  <2>. QED BY <1>8, <2>1, <2>2, SnapsGrow DEF TakenElsewhere, TypeOK, JobsOK
<1>. QED BY <1>1, <1>2, <1>3, <1>4, <1>5, <1>6, <1>7, <1>8 DEF Next, JobStep, Inside

-----------------------------------------------------------------------------
(* Who holds which view.                                                   *)

LEMMA PoolStep ==
    ASSUME TypeOK, JobsOK, PoolInv, [Next]_vars
    PROVE  PoolInv'
<1>1. CASE UNCHANGED vars \/ TakenElsewhere
  BY <1>1 DEF vars, TakenElsewhere, PoolInv, OneJobPerView, UsedHasUser, HeldIsNotFree, Holds
<1>2. ASSUME NEW p \in Process, NEW k \in Kinds, Start(p, k) PROVE PoolInv'
  BY <1>2 DEF Start, Goto, TypeOK, PoolInv, OneJobPerView, UsedHasUser, HeldIsNotFree, Holds
<1>3. ASSUME NEW p \in Process, NewName(p) PROVE PoolInv'
  <2>1. PICK v \in View : Unclaimed(v) /\ job' = [job EXCEPT ![p].view = v]
    BY <1>3 DEF NewName
  <2>2. /\ job'[p].view = v /\ name[v] = "absent"
        /\ \A q \in Process : q # p => job'[q] = job[q] /\ job[q].view # v
    BY <2>1 DEF Unclaimed, TypeOK, JobType
  <2>. QED BY <1>3, <2>2 DEF NewName, Goto, TypeOK, PoolInv, OneJobPerView, UsedHasUser,
              HeldIsNotFree, Holds
<1>4. ASSUME NEW p \in Process, Pick(p) PROVE PoolInv'
  <2>1. \A q \in Process : q # p => job'[q] = job[q]
    BY <1>4 DEF Pick, TypeOK
  <2>. QED BY <1>4, <2>1 DEF Pick, Goto, TypeOK, PoolInv, OneJobPerView, UsedHasUser,
              HeldIsNotFree, Holds
<1>5. ASSUME NEW p \in Process, MarkUsing(p) PROVE PoolInv'
  BY <1>5 DEF MarkUsing, Goto, TypeOK, JobsOK, PoolInv, OneJobPerView, UsedHasUser,
              HeldIsNotFree, Holds
<1>6. ASSUME NEW p \in Process, LoseRename(p) PROVE PoolInv'
  BY <1>6 DEF LoseRename, End, Goto, TypeOK, PoolInv, OneJobPerView, UsedHasUser,
              HeldIsNotFree, Holds
<1>7. ASSUME NEW p \in Process, Clone(p) PROVE PoolInv'
  BY <1>7 DEF Clone, Goto, TypeOK, JobsOK, PoolInv, OneJobPerView, UsedHasUser,
              HeldIsNotFree, Holds
<1>8. ASSUME NEW p \in Process, Inside(p) PROVE PoolInv'
  <2>1. PICK at \in HoldPCs : Holds(p) /\ Goto(p, at) /\ UNCHANGED <<name, job, lost>>
    BY <1>8, InsideHolds
  <2>2. \A q \in Process : Holds(q)' <=> Holds(q)
    BY <2>1 DEF Goto, Holds, HoldPCs, TypeOK
  <2>. QED BY <2>1, <2>2 DEF PoolInv, OneJobPerView, UsedHasUser, HeldIsNotFree
<1>9. ASSUME NEW p \in Process, Return(p) PROVE PoolInv'
  BY <1>9 DEF Return, End, Goto, TypeOK, JobsOK, PoolInv, OneJobPerView, UsedHasUser,
              HeldIsNotFree, Holds
<1>10. ASSUME NEW p \in Process, Die(p) PROVE PoolInv'
  <2>1. \A q \in Process : q # p => job'[q] = job[q] /\ pc'[q] = pc[q]
    BY <1>10 DEF Die, End, Goto, TypeOK
  <2>2. /\ pc'[p] = "idle" /\ name' = name
        /\ lost' = lost \union
                      {v \in View : Holds(p) /\ v = job[p].view /\ name[v] = "using"}
    BY <1>10 DEF Die, End, Goto, TypeOK
  <2>. QED BY <2>1, <2>2 DEF PoolInv, OneJobPerView, UsedHasUser, HeldIsNotFree, Holds
<1>. QED BY <1>1, <1>2, <1>3, <1>4, <1>5, <1>6, <1>7, <1>8, <1>9, <1>10
         DEF Next, JobStep, Inside

-----------------------------------------------------------------------------
(* The size of the pool.  Only NewName makes it larger, and then every     *)
(* view that is not free is held.                                          *)

LEMMA PoolFinite == IsFiniteSet(Pool) /\ IsFiniteSet(Pool') /\ IsFiniteSet(Free)
  BY TempViewsAssumption, FS_Subset DEF Pool, Claimed, Free

LEMMA PoolShrinks ==
    ASSUME PoolLimited, Pool' \subseteq Pool
    PROVE  PoolLimited'
<1>1. Cardinality(Pool') <= Cardinality(Pool) /\ Cardinality(Pool') \in Nat
  BY PoolFinite, FS_Subset, FS_CardinalityType
<1>2. /\ Cardinality(Pool) \in Nat /\ Cardinality(Process) \in Nat
      /\ MinPool \in Nat
  BY PoolFinite, TempViewsAssumption, FS_CardinalityType
<1>. QED BY <1>1, <1>2 DEF PoolLimited

(* Two facts about cardinalities: of a union, and of a function's range.   *)
LEMMA UnionBound ==
    ASSUME NEW S, NEW T, IsFiniteSet(S), IsFiniteSet(T)
    PROVE  /\ IsFiniteSet(S \union T)
           /\ Cardinality(S \union T) <= Cardinality(S) + Cardinality(T)
<1>1. /\ IsFiniteSet(S \union T) /\ IsFiniteSet(S \intersect T)
      /\ Cardinality(S \union T)
            = Cardinality(S) + Cardinality(T) - Cardinality(S \intersect T)
  BY FS_Union, FS_Intersection
<1>2. /\ Cardinality(S) \in Nat /\ Cardinality(T) \in Nat
      /\ Cardinality(S \intersect T) \in Nat
  BY <1>1, FS_CardinalityType
<1>. QED BY <1>1, <1>2

LEMMA RangeBound ==
    ASSUME NEW S, IsFiniteSet(S), NEW f, f = [x \in S |-> f[x]]
    PROVE  /\ IsFiniteSet({f[x] : x \in S})
           /\ Cardinality({f[x] : x \in S}) <= Cardinality(S)
<1> DEFINE T == {f[x] : x \in S}
<1>1. f \in Surjection(S, T)
  BY DEF Surjection
<1>. QED BY <1>1, FS_Surjection

LEMMA NewNameLimited ==
    ASSUME TypeOK, JobsOK, PoolInv, NEW p \in Process, NewName(p)
    PROVE  PoolLimited'
<1> DEFINE view == [q \in Process |-> job'[q].view]
           Views == {view[q] : q \in Process}
<1>1. PICK v \in View : Unclaimed(v) /\ job' = [job EXCEPT ![p].view = v]
  BY DEF NewName
<1>2. /\ job'[p].view = v
      /\ \A q \in Process : q # p => job'[q] = job[q] /\ pc'[q] = pc[q]
  BY <1>1 DEF NewName, Goto, TypeOK, JobType
<1>3. Pool' \subseteq Free \union Views
  <2>1. \A u \in View : name[u] # "absent" /\ u \notin lost => u \in Free \union Views
    <3>1. TAKE u \in View
    <3>2. HAVE name[u] # "absent" /\ u \notin lost
    <3>3. CASE name[u] = "free"
      BY <3>3 DEF Free
    <3>4. CASE name[u] = "using"
      <4>1. PICK q \in Process : Holds(q) /\ job[q].view = u
        BY <3>2, <3>4 DEF PoolInv, UsedHasUser
      <4>2. q # p
        BY <4>1 DEF NewName, Holds
      <4>. QED BY <1>2, <4>1, <4>2
    <3>. QED BY <3>2, <3>3, <3>4 DEF TypeOK
  <2>. QED BY <2>1 DEF Pool, Claimed, NewName
<1>4. IsFiniteSet(Views) /\ Cardinality(Views) <= Cardinality(Process)
  <2>1. view = [q \in Process |-> view[q]]
    OBVIOUS
  <2>. HIDE DEF view
  <2>. QED BY <2>1, TempViewsAssumption, RangeBound
<1>5. Cardinality(Free) <= MinPool - 1
  BY PoolFinite, FS_CardinalityType, TempViewsAssumption DEF NewName
<1>6. /\ IsFiniteSet(Free \union Views)
      /\ Cardinality(Free \union Views) <= Cardinality(Free) + Cardinality(Views)
  BY <1>4, PoolFinite, UnionBound
<1>7. Cardinality(Pool') <= Cardinality(Free \union Views)
  BY <1>3, <1>6, FS_Subset
<1>8. /\ Cardinality(Pool') \in Nat /\ Cardinality(Free) \in Nat
      /\ Cardinality(Views) \in Nat /\ Cardinality(Process) \in Nat
      /\ Cardinality(Free \union Views) \in Nat /\ MinPool \in Nat
  BY <1>4, <1>6, PoolFinite, TempViewsAssumption, FS_CardinalityType
<1>9. Cardinality(Pool') <= MinPool - 1 + Cardinality(Process)
  BY <1>4, <1>5, <1>6, <1>7, <1>8
<1>. QED BY <1>9 DEF PoolLimited

LEMMA LimitStep ==
    ASSUME TypeOK, JobsOK, PoolInv, PoolLimited, [Next]_vars
    PROVE  PoolLimited'
<1>1. CASE UNCHANGED vars \/ TakenElsewhere
  BY <1>1, PoolShrinks DEF vars, TakenElsewhere, Pool, Claimed
<1>2. ASSUME NEW p \in Process, NEW k \in Kinds, Start(p, k) PROVE PoolLimited'
  <2>1. Pool' \subseteq Pool
    BY <1>2 DEF Start, Goto, TypeOK, Pool, Claimed
  <2>. QED BY <2>1, PoolShrinks
<1>3. ASSUME NEW p \in Process, Pick(p) PROVE PoolLimited'
  <2>1. \A q \in Process : q # p => job'[q] = job[q]
    BY <1>3 DEF Pick, TypeOK
  <2>2. Pool' \subseteq Pool
    BY <1>3, <2>1 DEF Pick, Goto, TypeOK, Pool, Claimed
  <2>. QED BY <2>2, PoolShrinks
<1>4. ASSUME NEW p \in Process, MarkUsing(p) PROVE PoolLimited'
  <2>1. /\ job[p].view \in View /\ name[job[p].view] = "free"
        /\ name' = [name EXCEPT ![job[p].view] = "using"]
        /\ pc' = [pc EXCEPT ![p] = "prepare"] /\ UNCHANGED <<job, lost>>
    BY <1>4 DEF MarkUsing, Goto, JobsOK
  <2>2. Pool' \subseteq Pool
    BY <2>1 DEF TypeOK, Pool, Claimed
  <2>. QED BY <2>2, PoolShrinks
<1>5. ASSUME NEW p \in Process, Clone(p) PROVE PoolLimited'
  <2>1. /\ job[p].view \in View /\ pc[p] = "prepare"
        /\ name' = [name EXCEPT ![job[p].view] = "using"]
        /\ pc' = [pc EXCEPT ![p] = "checkout"] /\ UNCHANGED <<job, lost>>
    BY <1>5 DEF Clone, Goto, JobsOK
  <2>2. Pool' \subseteq Pool
    BY <2>1 DEF TypeOK, Pool, Claimed
  <2>. QED BY <2>2, PoolShrinks
<1>6. ASSUME NEW p \in Process, Inside(p) PROVE PoolLimited'
  <2>1. PICK at \in HoldPCs : Holds(p) /\ Goto(p, at) /\ UNCHANGED <<name, job, lost>>
    BY <1>6, InsideHolds
  <2>2. Pool' \subseteq Pool
    BY <2>1 DEF Goto, HoldPCs, TypeOK, Pool, Claimed
  <2>. QED BY <2>2, PoolShrinks
<1>7. ASSUME NEW p \in Process, LoseRename(p) \/ Return(p) \/ Die(p) PROVE PoolLimited'
  <2>1. \A q \in Process : q # p => job'[q] = job[q] /\ pc'[q] = pc[q]
    BY <1>7 DEF LoseRename, Return, Die, End, Goto, TypeOK
  <2>2. /\ pc'[p] = "idle" /\ lost \subseteq lost'
        /\ \A v \in View : name'[v] # "absent" => name[v] # "absent"
    BY <1>7 DEF LoseRename, Return, Die, End, Goto, TypeOK
  <2>3. Pool' \subseteq Pool
    BY <2>1, <2>2 DEF Pool, Claimed
  <2>. QED BY <2>3, PoolShrinks
<1>. QED BY <1>1, <1>2, <1>3, <1>4, <1>5, <1>6, <1>7, NewNameLimited
         DEF Next, JobStep, Inside

-----------------------------------------------------------------------------
(* The edits in a view.                                                    *)

(* A step that leaves the repositories and the snapshots alone, and brings *)
(* nobody to the checkout or to the work.                                  *)
LEMMA EditsKept ==
    ASSUME EditsInv, UNCHANGED repo,
           \A p \in Process : pc'[p] \in {"checkout", "work"} =>
               pc'[p] = pc[p] /\ job'[p] = job[p] /\ snaps'[job[p].of] = snaps[job[p].of]
    PROVE  EditsInv'
  BY DEF EditsInv, TrunkIsClean, FindsOwnEdits, MyRepo

(* A step of p that sets the repository of its view to r.                  *)
LEMMA EditsMoved ==
    ASSUME TypeOK, JobsOK, PoolInv, EditsInv, NEW p \in Process, Holds(p),
           NEW r \in RepoType, NEW at \in HoldPCs,
           repo' = [repo EXCEPT ![job[p].view] = r], Goto(p, at), job' = job,
           \A i \in DOMAIN snaps : snaps'[i] = snaps[i],
           r.head = Trunk => r.work = {},
           at = "checkout" => r.head = Trunk,
           at = "work" => /\ r.head # Trunk
                          /\ r.work = IF job[p].kind = "amend"
                                      THEN snaps[job[p].of].work ELSE {}
    PROVE  EditsInv'
<1>1. TrunkIsClean'
  BY DEF TrunkIsClean, EditsInv, TypeOK
<1>2. \A q \in Process : pc'[q] \in {"checkout", "work"} /\ q # p =>
           MyRepo(q)' = MyRepo(q) /\ pc'[q] = pc[q]
  BY DEF Goto, TypeOK, JobsOK, MyRepo, PoolInv, OneJobPerView, Holds
<1>3. MyRepo(p)' = r /\ pc'[p] = at
  BY DEF Goto, TypeOK, JobsOK, MyRepo, Holds
<1>4. \A q \in Process : pc'[q] = "work" /\ job[q].kind = "amend" =>
           snaps'[job[q].of] = snaps[job[q].of]
  BY DEF JobsOK, Goto, Holds, HoldPCs, TypeOK
<1>5. \A q \in Process : pc'[q] = "checkout" => MyRepo(q)'.head = Trunk
  BY <1>2, <1>3 DEF EditsInv
<1>6. \A q \in Process : pc'[q] = "work" => MyRepo(q)'.head # Trunk
  BY <1>2, <1>3 DEF EditsInv
<1>7. FindsOwnEdits'
  BY <1>2, <1>3, <1>4 DEF EditsInv, FindsOwnEdits
<1>. QED BY <1>1, <1>5, <1>6, <1>7 DEF EditsInv

LEMMA EditsStep ==
    ASSUME TypeOK, JobsOK, PoolInv, EditsInv, [Next]_vars
    PROVE  EditsInv'
<1>1. CASE UNCHANGED vars
  BY <1>1 DEF vars, EditsInv, TrunkIsClean, FindsOwnEdits, MyRepo
<1>2. CASE TakenElsewhere
  <2>1. PICK w \in Workspace : snaps' = Append(snaps, [ws |-> w, work |-> {0}])
    BY <1>2 DEF TakenElsewhere
  <2>2. \A i \in DOMAIN snaps : snaps'[i] = snaps[i]
    BY <2>1, SnapsGrow DEF SnapType, Edits
  <2>3. \A p \in Process : pc[p] = "work" /\ job[p].kind = "amend" => job[p].of \in DOMAIN snaps
    BY DEF JobsOK
  <2>. QED BY <1>2, <2>2, <2>3
           DEF TakenElsewhere, EditsInv, TrunkIsClean, FindsOwnEdits, MyRepo
<1>3. ASSUME NEW p \in Process,
             \/ \E k \in Kinds : Start(p, k)
             \/ NewName(p) \/ Pick(p) \/ MarkUsing(p) \/ LoseRename(p) \/ Return(p)
             \/ UnknownSnapshot(p) \/ Fail(p) \/ Die(p)
      PROVE  EditsInv'
  <2>1. UNCHANGED <<repo, snaps>>
    BY <1>3 DEF Start, NewName, Pick, MarkUsing, LoseRename, Return, UnknownSnapshot, Fail, Die
  <2>2. \A q \in Process : q # p => pc'[q] = pc[q] /\ job'[q] = job[q]
    BY <1>3 DEF Start, NewName, Pick, MarkUsing, LoseRename, Return, UnknownSnapshot, Fail,
            Die, End, Goto, TypeOK
  <2>3. pc'[p] \notin {"checkout", "work"}
    BY <1>3 DEF Start, NewName, Pick, MarkUsing, LoseRename, Return, UnknownSnapshot, Fail,
            Die, End, Goto, TypeOK
  <2>. QED BY <2>1, <2>2, <2>3, EditsKept
<1>4. ASSUME NEW p \in Process, Clone(p) PROVE EditsInv'
  <2>1. \A q \in Process : q # p /\ pc[q] \in {"checkout", "work"} => MyRepo(q)' = MyRepo(q)
    BY <1>4 DEF Clone, TypeOK, JobsOK, MyRepo, PoolInv, OneJobPerView, Holds
  <2>2. MyRepo(p)' = NewRepo /\ pc'[p] = "checkout"
    BY <1>4 DEF Clone, Goto, TypeOK, JobsOK, MyRepo
  <2>3. TrunkIsClean'
    BY <1>4 DEF Clone, NewRepo, TypeOK, JobsOK, EditsInv, TrunkIsClean
  <2>4. /\ \A q \in Process : q # p => pc'[q] = pc[q]
        /\ UNCHANGED <<snaps, job>>
    BY <1>4 DEF Clone, Goto, TypeOK
  <2>. QED BY <2>1, <2>2, <2>3, <2>4 DEF NewRepo, EditsInv, FindsOwnEdits
<1>5. ASSUME NEW p \in Process,
             \/ Reuse(p) \/ CheckoutWorkspace(p) \/ CheckoutSnapshot(p)
             \/ CheckoutReverted(p) \/ CheckoutArchived(p)
             \/ Work(p) \/ Save(p) \/ LeaveReverted(p) \/ LeaveArchived(p)
      PROVE  EditsInv'
  <2>1. /\ Holds(p) /\ job[p].view \in View /\ MyRepo(p) \in RepoType /\ job' = job
        /\ job[p].ws \in Workspace /\ job[p].kind \in Kinds
        /\ job[p].kind \in {"copy", "amend"} => job[p].of \in DOMAIN snaps
    BY <1>5, InsideHolds, JobFacts DEF Inside, Holds
  <2>2. MyRepo(p).head = Trunk => MyRepo(p).work = {}
    BY <2>1 DEF EditsInv, TrunkIsClean, MyRepo
  <2>3. \A i \in DOMAIN snaps : snaps[i] \in SnapType
    BY DEF TypeOK
  <2>4. CASE Reuse(p)
    <3> DEFINE r == Prepared(MyRepo(p))
    <3>1. r \in RepoType /\ r.head = Trunk /\ r.work = {}
      BY <2>1, <2>2, RepoHelpers DEF Prepared, RepoType
    <3>2. repo' = [repo EXCEPT ![job[p].view] = r] /\ Goto(p, "checkout") /\ snaps' = snaps
      BY <2>4 DEF Reuse, InView
    <3>. HIDE DEF r
    <3>. QED BY <2>1, <3>1, <3>2, EditsMoved DEF HoldPCs
  <2>5. CASE CheckoutWorkspace(p)
    <3> DEFINE r == CheckedOut(MyRepo(p), job[p].ws)
    <3>1. MyRepo(p).head = Trunk /\ job[p].kind = "copy"
      BY <2>5 DEF CheckoutWorkspace, At, EditsInv
    <3>2. r \in RepoType /\ r.head = job[p].ws /\ r.work = {}
      BY <2>1, <3>1, RepoHelpers, TempViewsAssumption DEF CheckedOut, RepoType
    <3>3. repo' = [repo EXCEPT ![job[p].view] = r] /\ Goto(p, "work") /\ snaps' = snaps
      BY <2>5 DEF CheckoutWorkspace, InView
    <3>. HIDE DEF r
    <3>. QED BY <2>1, <3>1, <3>2, <3>3, EditsMoved, TempViewsAssumption DEF HoldPCs
  <2>6. CASE CheckoutSnapshot(p)
    <3> DEFINE i == job[p].of
               r == Restored(MyRepo(p), i)
    <3>1. job[p].kind = "amend" /\ i \in DOMAIN snaps
      BY <2>1, <2>6 DEF CheckoutSnapshot, At
    <3>2. r \in RepoType /\ r.head \in Workspace /\ r.work = snaps[i].work
      BY <2>1, <2>3, <3>1, RepoHelpers DEF Restored, RepoType, SnapType
    <3>3. repo' = [repo EXCEPT ![job[p].view] = r] /\ Goto(p, "work") /\ snaps' = snaps
      BY <2>6 DEF CheckoutSnapshot, InView
    <3>. HIDE DEF r
    <3>. QED BY <2>1, <3>1, <3>2, <3>3, EditsMoved, TempViewsAssumption DEF HoldPCs
  <2>7. CASE CheckoutReverted(p)
    BY <2>1, <2>2, <2>7, EditsMoved, TempViewsAssumption
       DEF CheckoutReverted, InView, At, HoldPCs, RepoType, EditsInv
  <2>8. CASE CheckoutArchived(p)
    BY <2>1, <2>8, EditsMoved DEF CheckoutArchived, InView, HoldPCs, RepoType, Edits
  <2>9. CASE Work(p)
    BY <2>1, <2>9, PatchedType, EditsMoved DEF Work, InView, HoldPCs, RepoType, EditsInv
  <2>10. CASE Save(p)
    <3> DEFINE s == [ws |-> job[p].ws, work |-> MyRepo(p).work]
    <3>1. s \in SnapType
      BY <2>1 DEF RepoType, SnapType
    <3>2. snaps' = Append(snaps, s)
      BY <2>10 DEF Save
    <3>3. PICK known \in {MyRepo(p).known, MyRepo(p).known \union {Len(snaps')}} :
               repo' = [repo EXCEPT ![job[p].view] = [MyRepo(p) EXCEPT !.known = known]]
      BY <2>10 DEF Save, InView
    <3>4. \E at \in {"leave", "return"} : Goto(p, at)
      BY <2>10 DEF Save, InView
    <3>5. (\A i \in DOMAIN snaps : snaps'[i] = snaps[i]) /\ Len(snaps') \in Nat
      BY <3>1, <3>2, SnapsGrow
    <3> DEFINE r == [MyRepo(p) EXCEPT !.known = known]
    <3>6. r \in RepoType /\ r.head = MyRepo(p).head /\ r.work = MyRepo(p).work
      BY <2>1, <3>3, <3>5 DEF RepoType
    <3>7. repo' = [repo EXCEPT ![job[p].view] = r]
      BY <3>3
    <3>. HIDE DEF r
    <3>. QED BY <2>1, <2>2, <3>4, <3>5, <3>6, <3>7, EditsMoved DEF HoldPCs
  <2>11. CASE LeaveReverted(p)
    <3> DEFINE r == CheckedOut(MyRepo(p), job[p].ws)
    <3>1. r \in RepoType /\ r.head \in Workspace
      BY <2>1, RepoHelpers DEF CheckedOut, RepoType
    <3>2. repo' = [repo EXCEPT ![job[p].view] = r] /\ Goto(p, "return") /\ snaps' = snaps
      BY <2>11 DEF LeaveReverted, InView
    <3>. HIDE DEF r
    <3>. QED BY <2>1, <3>1, <3>2, EditsMoved, TempViewsAssumption DEF HoldPCs
  <2>12. CASE LeaveArchived(p)
    BY <2>1, <2>12, EditsMoved DEF LeaveArchived, InView, HoldPCs, RepoType, Edits
  <2>. QED BY <1>5, <2>4, <2>5, <2>6, <2>7, <2>8, <2>9, <2>10, <2>11, <2>12
<1>. QED BY <1>1, <1>2, <1>3, <1>4, <1>5 DEF Next, JobStep

-----------------------------------------------------------------------------
(* The theorems.                                                           *)

LEMMA InitIInv == Init => IInv
<1> SUFFICES ASSUME Init PROVE IInv
  OBVIOUS
<1>1. DOMAIN snaps = {} /\ snaps \in Seq(SnapType)
  BY DEF Init
<1>2. NewRepo \in RepoType /\ NoJob \in JobType
  BY <1>1 DEF NewRepo, RepoType, NoJob, JobType, Edits
<1>3. TypeOK /\ JobsOK
  BY <1>1, <1>2 DEF Init, TypeOK, JobsOK, PCs, NoJob
<1>4. PoolInv /\ EditsInv
  BY DEF Init, PoolInv, OneJobPerView, UsedHasUser, HeldIsNotFree, Holds, EditsInv,
     TrunkIsClean, FindsOwnEdits, NewRepo
<1>5. Pool = {}
  BY DEF Init, Pool, Claimed
<1>6. PoolLimited
  <2>1. Cardinality(Process) \in Nat
    BY TempViewsAssumption, FS_CardinalityType
  <2>. QED BY <1>5, <2>1, FS_EmptySet, TempViewsAssumption DEF PoolLimited
<1>. QED BY <1>3, <1>4, <1>6 DEF IInv

LEMMA IInvAlways == Spec => []IInv
<1>1. IInv /\ [Next]_vars => IInv'
  BY TypeStep, PoolStep, LimitStep, EditsStep DEF IInv
<1>. QED BY <1>1, InitIInv, PTL DEF Spec

(* Every variable keeps its type.                                          *)
THEOREM TypeCorrect == Spec => []TypeOK
<1>1. IInv => TypeOK
  BY DEF IInv
<1>. QED BY <1>1, IInvAlways, PTL

(* No two jobs ever work in one temporary view: the rename decides, however*)
(* old the list of free views is (temporaryViewMarkUsing); and a view that *)
(* is marked as in use is held by a job, or its server died or failed to   *)
(* give it back (the deferred temporaryViewMarkNotUsing).                  *)
THEOREM HeldByOne == Spec => []UsedByItsJob
<1>1. IInv => UsedByItsJob
  BY DEF IInv, PoolInv, UsedByItsJob
<1>. QED BY <1>1, IInvAlways, PTL

(* There are never more views than the minimum and one for each other      *)
(* process, but for the lost ones (getTemporaryViewID).                    *)
THEOREM Bounded == Spec => []PoolBounded
<1>1. IInv => PoolBounded
  <2>1. SUFFICES ASSUME IInv PROVE PoolBounded
    OBVIOUS
  <2> DEFINE There == {v \in View : name[v] # "absent"} \ lost
  <2>2. Cardinality(There) <= Cardinality(Pool) /\ Cardinality(There) \in Nat
    <3>1. There \in SUBSET Pool
      BY DEF Pool
    <3>. HIDE DEF There
    <3>. QED BY <3>1, PoolFinite, FS_Subset, FS_CardinalityType
  <2>3. /\ Cardinality(Pool) \in Nat /\ Cardinality(Process) \in Nat /\ MinPool \in Nat
    BY PoolFinite, TempViewsAssumption, FS_CardinalityType
  <2>4. Cardinality(There) <= MinPool - 1 + Cardinality(Process)
    BY <2>1, <2>2, <2>3 DEF IInv, PoolLimited
  <2>. QED BY <2>4 DEF PoolBounded
<1>. QED BY <1>1, IInvAlways, PTL

(* A job finds the edits it asked for and no other's, however the last job *)
(* in its view ended (ExecTemporaryView's forced checkout of trunk).       *)
THEOREM OwnEdits == Spec => []FindsOwnEdits
<1>1. IInv => FindsOwnEdits
  BY DEF IInv, EditsInv
<1>. QED BY <1>1, IInvAlways, PTL
-----------------------------------------------------------------------------
(* Executor, as the instance X of MCTempViews.                             *)

Kind == {"check", "assert", "read", "write", "gitRead", "gitWrite", "fileReadGitWrite", "schedule"}
Locks == {"file", "memory"}

(* What is known of the executions of the program. *)
LEMMA Known ==
    ASSUME NEW s \in X!Names
    PROVE  /\ X!Executed(s).in \in {"view", "trunk"} /\ X!Executed(s).allow \in BOOLEAN
           /\ X!Executed(s).fns \in Seq(Kind \ {"check"}) /\ Len(X!Executed(s).fns) \in {1, 2}
           /\ X!Executed(s).fns # <<>>
           /\ \A i \in DOMAIN X!Executed(s).fns :
                 X!Executed(s).fns[i] = "assert" => i = 1 /\ X!Executed(s).allow
<1>1. X!Executed(s).in \in {"view", "trunk"} /\ X!Executed(s).allow \in BOOLEAN
  BY DEF X!Names, X!Executed, X!Execution, X!openWorkspace, X!diffsFromView, X!snapshotOnView,
         X!syncOnTrunk, X!syncResolve, X!landChange, X!checkConflicts, X!deleteSnapshot, X!viewFs,
         X!repairView, X!getCommit, X!pullRemote, X!receivePack, X!infoRefs, X!welcomeMessage
<1>2. \E k, l \in Kind \ {"check"} :
         /\ X!Executed(s).fns \in {<<k>>, <<k, l>>}
         /\ l # "assert" /\ (k = "assert" => X!Executed(s).allow)
  <2> DEFINE F == {<<"write", "write">>, <<"assert", "read">>, <<"read", "fileReadGitWrite">>, <<"assert", "write">>,
                   <<"write">>, <<"gitWrite">>, <<"gitRead">>, <<"schedule">>, <<"read">>, <<"fileReadGitWrite">>}
  <2>1. /\ X!Executed(s).fns \in F
        /\ X!Executed(s).fns \in {<<"assert", "read">>, <<"assert", "write">>} => X!Executed(s).allow
    BY DEF X!Names, X!Executed, X!Execution, X!openWorkspace, X!diffsFromView, X!snapshotOnView,
           X!syncOnTrunk, X!syncResolve, X!landChange, X!checkConflicts, X!deleteSnapshot, X!viewFs,
           X!repairView, X!getCommit, X!pullRemote, X!receivePack, X!infoRefs, X!welcomeMessage
  <2> QED
    BY <2>1 DEF Kind
<1>3. PICK k \in Kind \ {"check"}, l \in Kind \ {"check"} :
         /\ X!Executed(s).fns \in {<<k>>, <<k, l>>}
         /\ l # "assert" /\ (k = "assert" => X!Executed(s).allow)
  BY <1>2
<1> HIDE DEF Kind
<1>4. CASE X!Executed(s).fns = <<k>>
  BY <1>1, <1>3, <1>4
<1>5. CASE X!Executed(s).fns = <<k, l>>
  BY <1>1, <1>3, <1>5
<1> QED
  BY <1>3, <1>4, <1>5

LEMMA Asserted ==
    ASSUME NEW s \in X!Names, X!Executed(s).fns[1] = "assert"
    PROVE  Len(X!Executed(s).fns) = 2
  BY DEF X!Names, X!Executed, X!Execution, X!openWorkspace, X!diffsFromView, X!snapshotOnView,
         X!syncOnTrunk, X!syncResolve, X!landChange, X!checkConflicts, X!deleteSnapshot, X!viewFs,
         X!repairView, X!getCommit, X!pullRemote, X!receivePack, X!infoRefs, X!welcomeMessage

LEMMA KnownCalls ==
    ASSUME NEW s \in X!Names
    PROVE  /\ X!Calls(s) \in {"none", "getCommit", "snapshotOnView"}
           /\ X!Calls(s) = "getCommit" => X!Executed(s).in = "view"
           /\ X!Calls(s) = "snapshotOnView" => s = "repairView"
           /\ X!Executed("getCommit").in = "trunk" /\ X!Calls("getCommit") = "none"
           /\ X!Calls("snapshotOnView") = "none" /\ X!Executed("snapshotOnView").in = "view"
  BY DEF X!Names, X!Calls, X!Executed, X!Execution, X!openWorkspace, X!diffsFromView, X!snapshotOnView,
         X!syncOnTrunk, X!syncResolve, X!landChange, X!checkConflicts, X!deleteSnapshot, X!viewFs,
         X!repairView, X!getCommit, X!pullRemote, X!receivePack, X!infoRefs, X!welcomeMessage

LEMMA KnownEffects ==
    /\ X!Executed("openWorkspace").fns = <<"write", "write">>
    /\ X!Executed("syncOnTrunk").fns = <<"assert", "write">>
    /\ X!Executed("syncResolve").fns = <<"write">>
    /\ ~X!Executed("openWorkspace").allow /\ X!Executed("syncOnTrunk").allow /\ X!Executed("syncResolve").allow
    /\ X!Executed("openWorkspace").in = "view" /\ X!Executed("syncOnTrunk").in = "view"
    /\ X!Executed("syncResolve").in = "view"
  BY DEF X!Executed, X!Execution, X!openWorkspace, X!syncOnTrunk, X!syncResolve

LEMMA FunctionsOf ==
    ASSUME NEW s \in X!Names
    PROVE  /\ X!Functions(s) \in Seq(Kind) /\ Len(X!Functions(s)) \in Nat /\ Len(X!Functions(s)) >= 1
           /\ DOMAIN X!Functions(s) = 1..Len(X!Functions(s))
           /\ ~X!Executed(s).allow => X!Functions(s)[1] = "check"
           /\ \A i \in 1..Len(X!Functions(s)) :
                 /\ X!Functions(s)[i] = "check" => i = 1 /\ ~X!Executed(s).allow
                 /\ X!Functions(s)[i] # "check" => X!Functions(s)[i] \in X!Kinds(s)
                 /\ X!Functions(s)[i] = "assert" => i = 1 /\ X!Executed(s).allow
           /\ "assert" \in X!Kinds(s) => X!Executed(s).allow /\ X!Functions(s)[1] = "assert"
<1> DEFINE f == X!Executed(s).fns  K == Kind \ {"check"}
<1>1. f \in Seq(K) /\ Len(f) \in Nat /\ DOMAIN f = 1..Len(f) /\ Len(f) >= 1
  BY Known
<1>2. \A i \in 1..Len(f) : /\ f[i] \in K /\ f[i] \in X!Kinds(s)
                           /\ f[i] = "assert" => i = 1 /\ X!Executed(s).allow
  BY <1>1, Known DEF X!Kinds
<1>3. "assert" \in X!Kinds(s) => X!Executed(s).allow /\ f[1] = "assert"
  BY <1>1, <1>2 DEF X!Kinds
<1>6. "check" \notin K /\ "check" \in Kind /\ K \subseteq Kind
  BY DEF Kind
<1> HIDE DEF f, K
<1>7. f \in Seq(Kind)
  BY <1>1, <1>6
<1>8. \A i \in 1..Len(f) : /\ f[i] # "check" /\ f[i] \in X!Kinds(s)
                           /\ f[i] = "assert" => i = 1 /\ X!Executed(s).allow
  BY <1>2, <1>6
<1>4. CASE X!Executed(s).allow
  <2>1. X!Functions(s) = f
    BY <1>4 DEF X!Functions, f
  <2> QED
    BY <1>1, <1>3, <1>4, <1>7, <1>8, <2>1
<1>5. CASE ~X!Executed(s).allow
  <2>1. X!Functions(s) = <<"check">> \o f
    BY <1>5 DEF X!Functions, f
  <2>2. /\ X!Functions(s) \in Seq(Kind) /\ Len(X!Functions(s)) = Len(f) + 1
        /\ X!Functions(s)[1] = "check"
        /\ \A i \in 1..Len(X!Functions(s)) : i # 1 => X!Functions(s)[i] = f[i - 1] /\ i - 1 \in 1..Len(f)
    BY <1>1, <1>6, <1>7, <2>1
  <2>3. ASSUME NEW i \in 1..Len(X!Functions(s)), i # 1
        PROVE  X!Functions(s)[i] \notin {"check", "assert"} /\ X!Functions(s)[i] \in X!Kinds(s)
    <3>1. X!Functions(s)[i] = f[i - 1] /\ i - 1 \in 1..Len(f)
      BY <2>2, <2>3
    <3> QED
      BY <1>5, <1>8, <3>1
  <2>4. X!Functions(s)[1] # "assert" /\ "assert" \notin X!Kinds(s) /\ DOMAIN X!Functions(s) = 1..Len(X!Functions(s))
    BY <1>3, <1>5, <1>8, <2>2
  <2> QED
    BY <1>1, <1>5, <2>2, <2>3, <2>4
<1> QED
  BY <1>4, <1>5, Known

(* After a check there is always a function. *)
LEMMA EnoughFunctions ==
    ASSUME NEW s \in X!Names, X!Functions(s)[1] \in {"check", "assert"}
    PROVE  Len(X!Functions(s)) >= 2
<1>1. CASE ~X!Executed(s).allow
  <2>1. X!Functions(s) = <<"check">> \o X!Executed(s).fns
    BY <1>1 DEF X!Functions
  <2>2. Len(X!Functions(s)) = 1 + Len(X!Executed(s).fns)
    BY <2>1, Known
  <2> QED
    BY <2>2, Known
<1>2. CASE X!Executed(s).allow
  <2>1. X!Functions(s) = X!Executed(s).fns /\ X!Executed(s).fns[1] = "assert"
    BY <1>2, FunctionsOf DEF X!Functions
  <2> QED
    BY <2>1, Asserted
<1> QED
  BY <1>1, <1>2, Known

(* The mode of each lock follows from the kinds. *)
LEMMA Modes ==
    ASSUME NEW s \in X!Names, NEW i \in 1..Len(X!Functions(s))
    PROVE  /\ X!Functions(s)[i] \in X!WritesFiles => X!Mode(s, "file") = "write"
           /\ X!Functions(s)[i] \in X!ReadsFiles => X!Mode(s, "file") \in {"read", "write"}
           /\ X!Functions(s)[i] \in X!WritesGit => X!Mode(s, "memory") = "write"
           /\ X!Functions(s)[i] \in X!ReadsGit => X!Mode(s, "memory") \in {"read", "write"}
<1> DEFINE f == X!Functions(s)[i]
<1>1. f # "check" => f \in X!Kinds(s)
  BY FunctionsOf
<1> HIDE DEF f
<1>2. /\ f \in X!WritesFiles => X!Kinds(s) \intersect {"write", "schedule"} # {}
      /\ f \in X!ReadsFiles => X!Kinds(s) \intersect {"read", "fileReadGitWrite"} # {}
      /\ f \in X!WritesGit => X!Kinds(s) \intersect {"gitWrite", "fileReadGitWrite"} # {}
      /\ f \in X!ReadsGit => X!Kinds(s) \intersect {"gitRead", "assert"} # {}
  BY <1>1 DEF X!WritesFiles, X!ReadsFiles, X!WritesGit, X!ReadsGit
<1> HIDE DEF f
<1>3. /\ f \in X!WritesFiles => X!Mode(s, "file") = "write"
      /\ f \in X!ReadsFiles => X!Mode(s, "file") \in {"read", "write"}
  BY <1>2 DEF X!Mode, X!ForWriting, X!ForReading
<1>4. /\ f \in X!WritesGit => X!Mode(s, "memory") = "write"
      /\ f \in X!ReadsGit => X!Mode(s, "memory") \in {"read", "write"}
  BY <1>2 DEF X!Mode, X!ForWriting, X!ForReading
<1> QED
  BY <1>3, <1>4 DEF f

Places == {"file", "memory", "run", "in", "back", "unlock"}
Frame == [what : X!Names, repo : X!Repo, branch : Branch \union {X!None}, pc : Places, i : Nat]

StackOK == stack \in [Thread -> Seq(Frame)]

(* Executions by goroutine and depth. *)
LEMMA Member ==
    ASSUME NEW x
    PROVE  x \in X!Executions <=> \E t \in Thread : \E d \in DOMAIN stack[t] : x = <<t, d>>
  BY DEF X!Executions

LEMMA Depths ==
    ASSUME StackOK, NEW t \in Thread
    PROVE  /\ Len(stack[t]) \in Nat /\ DOMAIN stack[t] = 1..Len(stack[t])
           /\ stack[t] # <<>> <=> Len(stack[t]) >= 1
           /\ \A d \in 1..Len(stack[t]) : <<t, d>> \in X!Executions /\ X!E(<<t, d>>) = stack[t][d]
                                          /\ stack[t][d] \in Frame
<1>1. stack[t] \in Seq(Frame)
  BY DEF StackOK
<1>2. Len(stack[t]) \in Nat /\ DOMAIN stack[t] = 1..Len(stack[t])
  BY <1>1
<1>3. stack[t] # <<>> <=> Len(stack[t]) >= 1
  BY <1>1
<1>4. \A d \in 1..Len(stack[t]) : stack[t][d] \in Frame
  BY <1>1
<1>5. \A d \in 1..Len(stack[t]) : <<t, d>> \in X!Executions
  BY <1>2, Member
<1> QED
  BY <1>2, <1>3, <1>4, <1>5 DEF X!E

LEMMA Frames ==
    ASSUME StackOK, NEW x \in X!Executions
    PROVE  X!E(x) \in Frame /\ \E t \in Thread : \E d \in 1..Len(stack[t]) : x = <<t, d>>
<1>1. PICK t \in Thread : \E d \in DOMAIN stack[t] : x = <<t, d>>
  BY Member
<1> QED
  BY <1>1, Depths

(* The innermost execution of a goroutine. *)
LEMMA Innermost ==
    ASSUME StackOK, NEW t \in Thread, stack[t] # <<>>
    PROVE  X!Me(t) \in X!Executions /\ X!E(X!Me(t)) = X!Top(t) /\ X!Top(t) \in Frame
           /\ X!Me(t) # <<>>
  BY Depths DEF X!Me, X!Top

(* It moves on: nothing else changes. *)
LEMMA Moves ==
    ASSUME StackOK, NEW t \in Thread, stack[t] # <<>>, NEW e \in Frame, X!SetTop(t, e)
    PROVE  /\ StackOK' /\ X!Executions' = X!Executions
           /\ \A x \in X!Executions : X!E(x)' = IF x = X!Me(t) THEN e ELSE X!E(x)
           /\ \A u \in Thread : Len(stack'[u]) = Len(stack[u])
<1> DEFINE n == Len(stack[t])  s == [stack[t] EXCEPT ![n] = e]
<1>1. n \in Nat /\ n >= 1 /\ stack[t] \in Seq(Frame) /\ DOMAIN stack[t] = 1..n
  BY Depths DEF StackOK
<1>2. s \in Seq(Frame) /\ Len(s) = n /\ DOMAIN s = 1..n
  BY <1>1
<1>3. s[n] = e /\ \A d \in 1..n : d # n => s[d] = stack[t][d]
  BY <1>1
<1>4. stack' = [stack EXCEPT ![t] = s]
  BY DEF X!SetTop
<1> HIDE DEF s
<1>5. \A u \in Thread : stack'[u] = IF u = t THEN s ELSE stack[u]
  BY <1>4 DEF StackOK
<1>6. StackOK'
  BY <1>2, <1>4 DEF StackOK
<1>7. \A u \in Thread : DOMAIN stack'[u] = DOMAIN stack[u] /\ Len(stack'[u]) = Len(stack[u])
  BY <1>1, <1>2, <1>5
<1>8. X!Executions' = X!Executions
  BY <1>7 DEF X!Executions
<1>9. ASSUME NEW x \in X!Executions, x # X!Me(t)
      PROVE  X!E(x)' = X!E(x)
  <2>0. PICK u \in Thread : \E d \in 1..Len(stack[u]) : x = <<u, d>>
    BY Frames
  <2>1. PICK d \in 1..Len(stack[u]) : x = <<u, d>>
    BY <2>0
  <2>2. u = t => d # n
    BY <1>9, <2>1 DEF X!Me
  <2>3. stack'[u][d] = stack[u][d]
    BY <1>3, <1>5, <2>1, <2>2
  <2> QED
    BY <2>1, <2>3 DEF X!E
<1>10. ASSUME NEW x \in X!Executions, x = X!Me(t)
       PROVE  X!E(x)' = e
  <2>1. x = <<t, n>>
    BY <1>10 DEF X!Me
  <2>2. stack'[t][n] = e
    BY <1>3, <1>5
  <2> QED
    BY <2>1, <2>2 DEF X!E
<1> QED
  BY <1>6, <1>7, <1>8, <1>9, <1>10

(* An execution begins, maybe within another, which keeps what e has of it. *)
LEMMA Begins ==
    ASSUME StackOK, NEW t \in Thread, NEW e \in Frame, NEW s \in Seq(Frame),
           stack' = [stack EXCEPT ![t] = Append(s, e)],
           Len(s) = Len(stack[t])
    PROVE  /\ StackOK' /\ X!Executions' = X!Executions \union {<<t, Len(s) + 1>>}
           /\ <<t, Len(s) + 1>> \notin X!Executions /\ X!E(<<t, Len(s) + 1>>)' = e
           /\ \A d \in 1..Len(s) : X!E(<<t, d>>)' = s[d]
           /\ \A x \in X!Executions : x[1] # t => X!E(x)' = X!E(x)
<1> DEFINE n == Len(s)  a == Append(s, e)
<1>1. n \in Nat /\ n = Len(stack[t])
  BY Depths
<1>2. a \in Seq(Frame) /\ Len(a) = n + 1 /\ DOMAIN a = 1..(n + 1) /\ a[n + 1] = e
      /\ \A d \in 1..n : a[d] = s[d]
  OBVIOUS
<1> HIDE DEF a
<1>3. stack' = [stack EXCEPT ![t] = a]
  BY DEF a
<1>4. \A u \in Thread : stack'[u] = IF u = t THEN a ELSE stack[u]
  BY <1>3 DEF StackOK
<1>5. StackOK'
  BY <1>2, <1>3 DEF StackOK
<1>6. X!Executions' = X!Executions \union {<<t, n + 1>>}
  <2>1. \A u \in Thread : DOMAIN stack'[u] = IF u = t THEN 1..(n + 1) ELSE DOMAIN stack[u]
    BY <1>2, <1>4
  <2>2. DOMAIN stack[t] = 1..n
    BY <1>1, Depths
  <2>3. 1..(n + 1) = 1..n \union {n + 1}
    BY <1>1
  <2>4. X!Executions' = UNION {{<<u, d>> : d \in DOMAIN stack'[u]} : u \in Thread}
    BY DEF X!Executions
  <2>5. \A x : x \in X!Executions' <=> \E u \in Thread : \E d \in DOMAIN stack'[u] : x = <<u, d>>
    BY <2>4
  <2>6. \A x : x \in X!Executions <=> \E u \in Thread : \E d \in DOMAIN stack[u] : x = <<u, d>>
    BY Member
  <2> HIDE DEF n
  <2>8. ASSUME NEW x, x \in X!Executions'
        PROVE  x \in X!Executions \union {<<t, n + 1>>}
    <3>1. PICK u \in Thread : \E d \in DOMAIN stack'[u] : x = <<u, d>>
      BY <2>5, <2>8
    <3>2. PICK d \in DOMAIN stack'[u] : x = <<u, d>>
      BY <3>1
    <3>3. d \in DOMAIN stack[u] \/ (u = t /\ d = n + 1)
      BY <2>1, <2>2, <2>3, <3>2
    <3> QED
      BY <2>6, <3>2, <3>3
  <2>9. ASSUME NEW x, x \in X!Executions
        PROVE  x \in X!Executions'
    <3>1. PICK u \in Thread : \E d \in DOMAIN stack[u] : x = <<u, d>>
      BY <2>6, <2>9
    <3>2. PICK d \in DOMAIN stack[u] : x = <<u, d>>
      BY <3>1
    <3>3. d \in DOMAIN stack'[u]
      BY <2>1, <2>2, <2>3, <3>2
    <3> QED
      BY <2>5, <3>2, <3>3
  <2>10. <<t, n + 1>> \in X!Executions'
    BY <2>1, <2>3, <2>5
  <2>7. \A x : x \in X!Executions' <=> x \in X!Executions \union {<<t, n + 1>>}
    BY <2>8, <2>9, <2>10
  <2> QED
    BY <2>7
<1>7. <<t, n + 1>> \notin X!Executions
  <2>1. \A d \in DOMAIN stack[t] : d # n + 1
    BY <1>1, Depths
  <2> QED
    BY <2>1, Member
<1>8. X!E(<<t, n + 1>>)' = e /\ \A d \in 1..n : X!E(<<t, d>>)' = s[d]
  BY <1>2, <1>4 DEF X!E
<1>9. ASSUME NEW x \in X!Executions, x[1] # t
      PROVE  X!E(x)' = X!E(x)
  <2>0. PICK u \in Thread : \E d \in 1..Len(stack[u]) : x = <<u, d>>
    BY Frames
  <2>1. PICK d \in 1..Len(stack[u]) : x = <<u, d>>
    BY <2>0
  <2> QED
    BY <1>4, <1>9, <2>1 DEF X!E
<1> QED
  BY <1>5, <1>6, <1>7, <1>8, <1>9

(* The innermost execution ends. *)
LEMMA Ends ==
    ASSUME StackOK, NEW t \in Thread, stack[t] # <<>>,
           stack' = [stack EXCEPT ![t] = SubSeq(stack[t], 1, Len(stack[t]) - 1)]
    PROVE  /\ StackOK' /\ X!Executions' = X!Executions \ {X!Me(t)}
           /\ \A x \in X!Executions' : X!E(x)' = X!E(x)
<1> DEFINE n == Len(stack[t])  s == SubSeq(stack[t], 1, n - 1)
<1>1. n \in Nat /\ n >= 1 /\ stack[t] \in Seq(Frame) /\ DOMAIN stack[t] = 1..n
  BY Depths DEF StackOK
<1>2. s \in Seq(Frame) /\ DOMAIN s = 1..(n - 1) /\ \A d \in 1..(n - 1) : s[d] = stack[t][d]
  BY <1>1
<1>3. stack' = [stack EXCEPT ![t] = s]
  OBVIOUS
<1> HIDE DEF s
<1>4. \A u \in Thread : stack'[u] = IF u = t THEN s ELSE stack[u]
  BY <1>3 DEF StackOK
<1>5. StackOK'
  BY <1>2, <1>3 DEF StackOK
<1>6. X!Executions' = X!Executions \ {X!Me(t)}
  <2>1. \A u \in Thread : DOMAIN stack'[u] = IF u = t THEN 1..(n - 1) ELSE DOMAIN stack[u]
    BY <1>2, <1>4
  <2>2. 1..(n - 1) = 1..n \ {n}
    BY <1>1
  <2>4. X!Executions' = UNION {{<<u, d>> : d \in DOMAIN stack'[u]} : u \in Thread}
    BY DEF X!Executions
  <2>5. \A x : x \in X!Executions' <=> \E u \in Thread : \E d \in DOMAIN stack'[u] : x = <<u, d>>
    BY <2>4
  <2>6. \A x : x \in X!Executions <=> \E u \in Thread : \E d \in DOMAIN stack[u] : x = <<u, d>>
    BY Member
  <2>3. X!Me(t) = <<t, n>>
    BY DEF X!Me
  <2> HIDE DEF n
  <2>7. \A x : x \in X!Executions' <=> x \in X!Executions \ {<<t, n>>}
    BY <1>1, <2>1, <2>2, <2>5, <2>6
  <2> QED
    BY <2>3, <2>7
<1>7. ASSUME NEW x \in X!Executions'
      PROVE  X!E(x)' = X!E(x)
  <2>0. PICK u \in Thread : \E d \in 1..Len(stack[u]) : x = <<u, d>>
    BY <1>6, <1>7, Frames
  <2>1. PICK d \in 1..Len(stack[u]) : x = <<u, d>>
    BY <2>0
  <2>2. u = t => d # n
    BY <1>6, <1>7, <2>1 DEF X!Me
  <2>3. stack'[u][d] = stack[u][d]
    BY <1>1, <1>2, <1>4, <2>1, <2>2
  <2> QED
    BY <2>1, <2>3 DEF X!E
<1> QED
  BY <1>5, <1>6, <1>7

Holder == Thread \X Nat
LockType == [writer : Holder \union {<<>>}, readers : SUBSET Holder, waiting : SUBSET Holder]

XTypes ==
    /\ StackOK /\ lock \in [X!Repo -> [Locks -> LockType]]
    /\ branch \in [View2 -> Branch] /\ rebasing \in [View2 -> BOOLEAN]

FrameOK(e) ==
    /\ e \in Frame
    /\ e.i \in 1..Len(X!Functions(e.what))
    /\ e.repo \in IF X!Executed(e.what).in = "trunk" THEN {Trunk2} ELSE View2
    /\ e.branch # X!None => "assert" \in X!Kinds(e.what)
    /\ e.pc \in Locks => e.i = 1
    /\ e.pc \in {"in", "back"} => X!Functions(e.what)[e.i] \notin {"check", "assert"}

(* Past the lock k. *)
Past(place, k) == place \notin {"file", k}

Uses(x, r, k, mode) ==
    /\ x \in X!Executions /\ X!E(x).repo = r /\ X!Mode(X!E(x).what, k) = mode
    /\ k = "memory" => X!E(x).pc # "file"

LockOK(r, k) ==
    LET l == lock[r][k] IN
    /\ l.writer # <<>> => /\ Uses(l.writer, r, k, "write")
                          /\ Past(X!E(l.writer).pc, k) => l.readers = {}
    /\ \A y \in l.readers \union l.waiting : Uses(y, r, k, "read")
    /\ \A y \in l.waiting : X!E(y).pc = k /\ y \notin l.readers /\ l.writer # <<>>

HasIt(x, k) ==
    /\ X!Mode(X!E(x).what, k) = "write" => lock[X!E(x).repo][k].writer = x
    /\ X!Mode(X!E(x).what, k) = "read" => x \in lock[X!E(x).repo][k].readers

HasOK(x) == \A k \in Locks : Past(X!E(x).pc, k) /\ X!E(x).pc # "unlock" => HasIt(x, k)

XInv ==
    /\ XTypes
    /\ \A x \in X!Executions : FrameOK(X!E(x)) /\ HasOK(x)
    /\ \A r \in X!Repo, k \in Locks : LockOK(r, k)

(* An execution has got the lock that it asks for, if it needs one. *)
Gets(t, k) ==
    \/ X!Mode(X!Top(t).what, k) = "none"
    \/ X!Mode(X!Top(t).what, k) = "read" /\ X!Me(t) \in X!L(t, k).readers
    \/ X!Mode(X!Top(t).what, k) = "write" /\ X!L(t, k).writer = X!Me(t) /\ X!L(t, k).readers = {}

LEMMA ModeIs ==
    ASSUME NEW s, NEW k
    PROVE  X!Mode(s, k) \in {"none", "read", "write"}
  BY DEF X!Mode

LEMMA LockTyped ==
    ASSUME XInv, NEW r \in X!Repo, NEW k \in Locks
    PROVE  /\ lock[r][k] \in LockType
           /\ lock[r][k].writer \in Holder \union {<<>>}
           /\ lock[r][k].readers \subseteq Holder /\ lock[r][k].waiting \subseteq Holder
  BY DEF XInv, XTypes, LockType

(* The innermost execution moves on, past a lock or in its functions. *)
LEMMA MoveOK ==
    ASSUME XInv, NEW t \in Thread, stack[t] # <<>>, NEW e, X!SetTop(t, e), lock' = lock,
           branch' \in [View2 -> Branch], rebasing' \in [View2 -> BOOLEAN],
           FrameOK(e), e.what = X!Top(t).what, e.repo = X!Top(t).repo,
           X!Top(t).pc # "unlock",
           X!Top(t).pc = "file" => e.pc = "memory" /\ Gets(t, "file"),
           X!Top(t).pc = "memory" => e.pc = "run" /\ Gets(t, "memory"),
           X!Top(t).pc \notin Locks => e.pc \notin Locks
    PROVE  XInv'
<1>1. StackOK /\ e \in Frame /\ e.pc # "file"
  BY DEF XInv, XTypes, FrameOK, Locks
<1>0. PICK m : m = X!Me(t)
  OBVIOUS
<1>2. /\ StackOK' /\ X!Executions' = X!Executions
      /\ \A x \in X!Executions : X!E(x)' = IF x = m THEN e ELSE X!E(x)
  BY <1>0, <1>1, Moves
<1>3. m \in X!Executions /\ X!E(m) = X!Top(t) /\ m # <<>> /\ FrameOK(X!Top(t))
  BY <1>0, <1>1, Innermost DEF XInv
<1>4. XTypes'
  BY <1>2 DEF XInv, XTypes
<1> DEFINE F(x) == IF x = m THEN e ELSE X!E(x)
<1>5. \A x \in X!Executions : /\ X!E(x)' = F(x) /\ F(x).what = X!E(x).what /\ F(x).repo = X!E(x).repo
  BY <1>2, <1>3
<1>6. m = X!Me(t) /\ X!Top(t).repo \in X!Repo
  BY <1>0, <1>3 DEF FrameOK, Frame
<1>7. \A r \in X!Repo, k \in Locks : m \notin lock[r][k].waiting
  <2>1. ASSUME NEW r \in X!Repo, NEW k \in Locks, m \in lock[r][k].waiting
        PROVE  FALSE
    <3>1. /\ X!E(m).pc = k /\ m \notin lock[r][k].readers /\ X!E(m).repo = r
          /\ X!Mode(X!E(m).what, k) = "read"
      BY <2>1 DEF XInv, LockOK, Uses
    <3>2. Gets(t, k)
      BY <1>3, <3>1 DEF Locks
    <3> QED
      BY <1>0, <1>3, <3>1, <3>2 DEF Gets, X!L
  <2> QED
    BY <2>1
<1>8. \A x \in X!Executions : FrameOK(X!E(x))' /\ HasOK(x)'
  <2>1. ASSUME NEW x \in X!Executions
        PROVE  FrameOK(F(x))
    BY <2>1 DEF XInv
  <2>2. \A x \in X!Executions : FrameOK(X!E(x))'
    BY <1>5, <2>1 DEF FrameOK
  <2>3. ASSUME NEW x \in X!Executions, NEW k \in Locks, Past(F(x).pc, k), F(x).pc # "unlock"
        PROVE  HasIt(x, k)
    <3>1. CASE x # m
      BY <2>3, <3>1 DEF XInv, HasOK
    <3>2. CASE x = m /\ Past(X!Top(t).pc, k)
      BY <1>3, <3>2 DEF XInv, HasOK
    <3>3. CASE x = m /\ ~Past(X!Top(t).pc, k)
      <4>1. X!Top(t).pc = k
        BY <2>3, <3>3 DEF Past, Locks
      <4>2. Gets(t, k)
        BY <4>1 DEF Locks
      <4> QED
        BY <1>0, <1>3, <3>3, <4>2 DEF Gets, HasIt, X!L
    <3> QED
      BY <3>1, <3>2, <3>3
  <2>4. \A x \in X!Executions : HasOK(x)'
    BY <1>5, <2>3 DEF HasOK, HasIt
  <2> QED
    BY <2>2, <2>4
<1>9. ASSUME NEW r \in X!Repo, NEW k \in Locks
      PROVE  LockOK(r, k)'
  <2> DEFINE l == lock[r][k]
  <2>0. PICK w : w = l.writer
    OBVIOUS
  <2>1. \A x, mode : Uses(x, r, k, mode) => Uses(x, r, k, mode)' /\ x \in X!Executions
    BY <1>1, <1>2, <1>5 DEF Uses
  <2>2. ASSUME w # <<>>
        PROVE  Uses(w, r, k, "write") /\ (Past(F(w).pc, k) => l.readers = {})
    <3>1. Uses(w, r, k, "write") /\ (Past(X!E(w).pc, k) => l.readers = {})
      BY <2>0, <2>2 DEF XInv, LockOK
    <3>2. ASSUME w = m, ~Past(X!E(m).pc, k), Past(e.pc, k)
          PROVE  l.readers = {}
      <4>1. X!E(m).repo = r /\ X!Mode(X!E(m).what, k) = "write" /\ X!E(m).pc = k
        BY <3>1, <3>2 DEF Uses, Past, Locks
      <4>2. Gets(t, k)
        BY <1>3, <4>1 DEF Locks
      <4> QED
        BY <1>0, <1>3, <4>1, <4>2 DEF Gets, X!L
    <3> QED
      BY <1>3, <3>1, <3>2
  <2>3. \A y \in l.waiting : X!E(y).pc = k /\ y \notin l.readers /\ l.writer # <<>> /\ y # m
    BY <1>7 DEF XInv, LockOK
  <2>4. \A y \in l.readers \union l.waiting : Uses(y, r, k, "read")
    BY DEF XInv, LockOK
  <2>5. lock'[r][k] = l
    OBVIOUS
  <2>6. \A y \in l.waiting : X!E(y)'.pc = k
    BY <1>5, <2>3, <2>4 DEF Uses
  <2>7. w # <<>> => /\ Uses(w, r, k, "write")'
                    /\ Past(X!E(w)'.pc, k) => l.readers = {}
    BY <1>5, <2>1, <2>2
  <2>8. \A y \in l.readers \union l.waiting : Uses(y, r, k, "read")'
    BY <2>1, <2>4
  <2> HIDE DEF l
  <2> QED
    BY <2>0, <2>3, <2>5, <2>6, <2>7, <2>8 DEF LockOK, Past
<1> QED
  BY <1>2, <1>4, <1>8, <1>9 DEF XInv

(* The innermost execution is one of the program's. *)
LEMMA TopOK ==
    ASSUME XInv, NEW t \in Thread, stack[t] # <<>>
    PROVE  /\ StackOK /\ X!Me(t) \in X!Executions /\ X!E(X!Me(t)) = X!Top(t) /\ X!Me(t) # <<>>
           /\ FrameOK(X!Top(t)) /\ X!Top(t) \in Frame /\ X!Top(t).what \in X!Names /\ X!Top(t).i \in Nat
           /\ X!Top(t).repo \in X!Repo /\ X!Top(t).pc \in Places
           /\ X!Top(t).repo \in IF X!Executed(X!Top(t).what).in = "trunk" THEN {Trunk2} ELSE View2
<1>1. StackOK
  BY DEF XInv, XTypes
<1>2. X!Me(t) \in X!Executions /\ X!E(X!Me(t)) = X!Top(t) /\ X!Top(t) \in Frame /\ X!Me(t) # <<>>
  BY <1>1, Innermost
<1>3. FrameOK(X!Top(t))
  BY <1>2 DEF XInv
<1> QED
  BY <1>1, <1>2, <1>3 DEF FrameOK, Frame

(* Go and GoOn change its place only. *)
LEMMA GoOK ==
    ASSUME NEW e \in Frame, NEW place \in Places
    PROVE  /\ [e EXCEPT !.pc = place] \in Frame /\ [e EXCEPT !.pc = place].pc = place
           /\ [e EXCEPT !.pc = place].what = e.what /\ [e EXCEPT !.pc = place].repo = e.repo
           /\ [e EXCEPT !.pc = place].branch = e.branch /\ [e EXCEPT !.pc = place].i = e.i
  BY DEF Frame

LEMMA GoOnOK ==
    ASSUME NEW e \in Frame, NEW f, f = [e EXCEPT !.pc = "run", !.i = @ + 1]
    PROVE  /\ f \in Frame /\ f.pc = "run" /\ f.what = e.what /\ f.repo = e.repo
           /\ f.branch = e.branch /\ f.i = e.i + 1
<1>1. e.i \in Nat /\ "run" \in Places
  BY DEF Frame, Places
<1>2. PICK g : g = [e EXCEPT !.pc = "run"]
  OBVIOUS
<1>3. g \in Frame /\ g.pc = "run" /\ g.what = e.what /\ g.repo = e.repo /\ g.branch = e.branch /\ g.i = e.i
  BY <1>1, <1>2, GoOK
<1>4. f = [g EXCEPT !.i = e.i + 1]
  BY <1>2, <1>3 DEF Frame
<1>5. e.i + 1 \in Nat
  BY <1>1
<1> QED
  BY <1>3, <1>4, <1>5 DEF Frame

LEMMA XNoLock ==
    ASSUME XInv, NEW t \in Thread, NEW k \in Locks, X!NoLock(t, k)
    PROVE  XInv'
<1>1. stack[t] # <<>> /\ X!Top(t).pc = k /\ Gets(t, k) /\ X!Go(t, X!After(k))
  BY DEF X!NoLock, X!At, Gets
<1>2. FrameOK(X!Top(t)) /\ X!Top(t) \in Frame
  BY <1>1, TopOK
<1>3. X!After(k) \in Places /\ X!After(k) = IF k = "file" THEN "memory" ELSE "run"
  BY DEF X!After, Places
<1>4. PICK e : e = [X!Top(t) EXCEPT !.pc = X!After(k)]
  OBVIOUS
<1>5. /\ e \in Frame /\ e.pc = X!After(k) /\ e.what = X!Top(t).what /\ e.repo = X!Top(t).repo
      /\ e.branch = X!Top(t).branch /\ e.i = X!Top(t).i
  BY <1>2, <1>3, <1>4, GoOK
<1>6. FrameOK(e)
  BY <1>1, <1>2, <1>3, <1>5 DEF FrameOK, Locks
<1>7. X!SetTop(t, e) /\ UNCHANGED <<lock, branch, rebasing>>
  BY <1>1, <1>4 DEF X!NoLock, X!Go
<1>8. branch' \in [View2 -> Branch] /\ rebasing' \in [View2 -> BOOLEAN]
  BY <1>7 DEF XInv, XTypes
<1> QED
  BY <1>1, <1>3, <1>5, <1>6, <1>7, <1>8, MoveOK DEF Locks

LEMMA XLocked ==
    ASSUME XInv, NEW t \in Thread, NEW k \in Locks, X!Locked(t, k)
    PROVE  XInv'
<1>1. stack[t] # <<>> /\ X!Top(t).pc = k /\ Gets(t, k) /\ X!Go(t, X!After(k))
  BY DEF X!Locked, X!At, Gets
<1>2. FrameOK(X!Top(t)) /\ X!Top(t) \in Frame
  BY <1>1, TopOK
<1>3. X!After(k) \in Places /\ X!After(k) = IF k = "file" THEN "memory" ELSE "run"
  BY DEF X!After, Places
<1>4. PICK e : e = [X!Top(t) EXCEPT !.pc = X!After(k)]
  OBVIOUS
<1>5. /\ e \in Frame /\ e.pc = X!After(k) /\ e.what = X!Top(t).what /\ e.repo = X!Top(t).repo
      /\ e.branch = X!Top(t).branch /\ e.i = X!Top(t).i
  BY <1>2, <1>3, <1>4, GoOK
<1>6. FrameOK(e)
  BY <1>1, <1>2, <1>3, <1>5 DEF FrameOK, Locks
<1>7. X!SetTop(t, e) /\ UNCHANGED <<lock, branch, rebasing>>
  BY <1>1, <1>4 DEF X!Locked, X!Go
<1>8. branch' \in [View2 -> Branch] /\ rebasing' \in [View2 -> BOOLEAN]
  BY <1>7 DEF XInv, XTypes
<1> QED
  BY <1>1, <1>3, <1>5, <1>6, <1>7, <1>8, MoveOK DEF Locks

(* Within its functions an execution goes to its end or to the next one. *)
LEMMA XWithin ==
    ASSUME XInv, NEW t \in Thread, stack[t] # <<>>, X!Top(t).pc \in {"run", "in", "back"},
           lock' = lock, branch' \in [View2 -> Branch], rebasing' \in [View2 -> BOOLEAN],
           \/ X!Go(t, "unlock")
           \/ X!Go(t, "in") /\ X!Function(t) \notin {"check", "assert"}
           \/ X!GoOn(t) /\ X!Top(t).i < Len(X!Functions(X!Top(t).what))
    PROVE  XInv'
<1>1. FrameOK(X!Top(t)) /\ X!Top(t) \in Frame /\ X!Top(t).what \in X!Names
  BY TopOK
<1>2. CASE X!Go(t, "unlock") \/ (X!Go(t, "in") /\ X!Function(t) \notin {"check", "assert"})
  <2>1. PICK place \in {"unlock", "in"} : X!Go(t, place) /\ (place = "in" => X!Function(t) \notin {"check", "assert"})
    BY <1>2
  <2>2. PICK e : e = [X!Top(t) EXCEPT !.pc = place]
    OBVIOUS
  <2>3. /\ e \in Frame /\ e.pc = place /\ e.what = X!Top(t).what /\ e.repo = X!Top(t).repo
        /\ e.branch = X!Top(t).branch /\ e.i = X!Top(t).i
    <3>1. place \in Places
      BY DEF Places
    <3> QED
      BY <1>1, <2>2, <3>1, GoOK
  <2>4. FrameOK(e)
    BY <1>1, <2>1, <2>3 DEF FrameOK, Locks, X!Function
  <2>5. X!SetTop(t, e)
    BY <2>1, <2>2 DEF X!Go
  <2> QED
    BY <2>1, <2>3, <2>4, <2>5, MoveOK DEF Locks
<1>3. CASE X!GoOn(t) /\ X!Top(t).i < Len(X!Functions(X!Top(t).what))
  <2>1. PICK e : e = [X!Top(t) EXCEPT !.pc = "run", !.i = @ + 1]
    OBVIOUS
  <2>2. /\ e \in Frame /\ e.pc = "run" /\ e.what = X!Top(t).what /\ e.repo = X!Top(t).repo
        /\ e.branch = X!Top(t).branch /\ e.i = X!Top(t).i + 1
    BY <1>1, <2>1, GoOnOK
  <2>3. e.i \in 1..Len(X!Functions(e.what))
    BY <1>1, <1>3, <2>2, FunctionsOf DEF FrameOK
  <2>4. FrameOK(e)
    BY <1>1, <2>2, <2>3 DEF FrameOK, Locks
  <2>5. X!SetTop(t, e)
    BY <1>3, <2>1 DEF X!GoOn
  <2> QED
    BY <2>2, <2>4, <2>5, MoveOK DEF Locks
<1> QED
  BY <1>2, <1>3

(* After a check there is a function. *)
LEMMA ChecksComeFirst ==
    ASSUME XInv, NEW t \in Thread, stack[t] # <<>>, X!Function(t) \in {"check", "assert"}
    PROVE  X!Top(t).i = 1 /\ X!Top(t).i < Len(X!Functions(X!Top(t).what))
<1> DEFINE s == X!Top(t).what
<1>1. s \in X!Names /\ X!Top(t).i \in 1..Len(X!Functions(s))
  BY TopOK DEF FrameOK
<1> HIDE DEF s
<1>2. X!Top(t).i = 1 /\ Len(X!Functions(s)) >= 2
  BY <1>1, FunctionsOf, EnoughFunctions DEF X!Function, s
<1> QED
  BY <1>2 DEF s

LEMMA XCheck ==
    ASSUME XInv, NEW t \in Thread, X!Check(t)
    PROVE  XInv'
<1>1. stack[t] # <<>> /\ X!Top(t).pc = "run" /\ UNCHANGED <<lock, branch, rebasing>>
      /\ X!Function(t) = "check" /\ (X!Go(t, "unlock") \/ X!GoOn(t))
  BY DEF X!Check, X!At
<1>2. branch' \in [View2 -> Branch] /\ rebasing' \in [View2 -> BOOLEAN]
  BY <1>1 DEF XInv, XTypes
<1> QED
  BY <1>1, <1>2, ChecksComeFirst, XWithin

LEMMA XAssertBranchName ==
    ASSUME XInv, NEW t \in Thread, X!AssertBranchName(t)
    PROVE  XInv'
<1>1. stack[t] # <<>> /\ X!Top(t).pc = "run" /\ UNCHANGED <<lock, branch, rebasing>>
      /\ X!Function(t) = "assert" /\ (X!Go(t, "unlock") \/ X!GoOn(t))
  BY DEF X!AssertBranchName, X!At
<1>2. branch' \in [View2 -> Branch] /\ rebasing' \in [View2 -> BOOLEAN]
  BY <1>1 DEF XInv, XTypes
<1> QED
  BY <1>1, <1>2, ChecksComeFirst, XWithin

LEMMA XCall ==
    ASSUME XInv, NEW t \in Thread, X!Call(t)
    PROVE  XInv'
<1>1. stack[t] # <<>> /\ X!Top(t).pc = "run" /\ UNCHANGED <<lock, branch, rebasing>>
      /\ X!Function(t) \notin {"check", "assert"} /\ X!Go(t, "in")
  BY DEF X!Call, X!At
<1>2. branch' \in [View2 -> Branch] /\ rebasing' \in [View2 -> BOOLEAN]
  BY <1>1 DEF XInv, XTypes
<1> QED
  BY <1>1, <1>2, XWithin

(* Only openWorkspace, and the two of a sync, change what is asserted. *)
LEMMA Effects ==
    ASSUME XInv, NEW t \in Thread, stack[t] # <<>>, X!Effect(X!Top(t).what, X!Top(t).repo)
    PROVE  /\ branch' \in [View2 -> Branch] /\ rebasing' \in [View2 -> BOOLEAN]
           /\ branch' # branch \/ rebasing' # rebasing =>
                 X!Top(t).what \in {"openWorkspace", "syncOnTrunk", "syncResolve"}
           /\ X!Top(t).what \in {"openWorkspace", "syncOnTrunk", "syncResolve"} =>
                 /\ X!Top(t).repo \in View2 /\ X!Mode(X!Top(t).what, "file") = "write"
                 /\ \A v \in View2 : v # X!Top(t).repo =>
                       branch'[v] = branch[v] /\ rebasing'[v] = rebasing[v]
           /\ X!Top(t).what = "openWorkspace" => rebasing' = rebasing
<1> DEFINE s == X!Top(t).what  v == X!Top(t).repo
<1>1. /\ branch \in [View2 -> Branch] /\ rebasing \in [View2 -> BOOLEAN]
      /\ v \in IF X!Executed(s).in = "trunk" THEN {Trunk2} ELSE View2
  BY TopOK DEF XInv, XTypes
<1> HIDE DEF s, v
<1>2. CASE s = "openWorkspace"
  <2>1. PICK b \in Branch : branch' = [branch EXCEPT ![v] = b] /\ rebasing' = rebasing
    BY <1>2 DEF X!Effect, s, v
  <2>2. v \in View2 /\ X!Mode(s, "file") = "write"
    BY <1>1, <1>2, KnownEffects DEF X!Mode, X!Kinds, X!ForWriting
  <2> QED
    BY <1>1, <1>2, <2>1, <2>2 DEF s, v
<1>3. CASE s \in {"syncOnTrunk", "syncResolve"}
  <2>1. PICK b \in BOOLEAN : rebasing' = [rebasing EXCEPT ![v] = b] /\ branch' = branch
    <3>1. v \in View2
      BY <1>1, <1>3, KnownEffects
    <3>2. rebasing[v] \in BOOLEAN
      BY <1>1, <3>1
    <3> QED
      BY <1>3, <3>2 DEF X!Effect, s, v
  <2>2. v \in View2 /\ X!Mode(s, "file") = "write"
    BY <1>1, <1>3, KnownEffects DEF X!Mode, X!Kinds, X!ForWriting
  <2> QED
    BY <1>1, <1>3, <2>1, <2>2 DEF s, v
<1>4. CASE s \notin {"openWorkspace", "syncOnTrunk", "syncResolve"}
  BY <1>1, <1>4 DEF X!Effect, s, v
<1> QED
  BY <1>2, <1>3, <1>4

LEMMA XReturn ==
    ASSUME XInv, NEW t \in Thread, X!Return(t)
    PROVE  XInv'
<1>1. stack[t] # <<>> /\ X!Top(t).pc \in {"in", "back"} /\ lock' = lock
      /\ X!Effect(X!Top(t).what, X!Top(t).repo)
      /\ (X!Go(t, "unlock") \/ (X!GoOn(t) /\ X!Top(t).i < Len(X!Functions(X!Top(t).what))))
  BY DEF X!Return, X!At
<1>2. branch' \in [View2 -> Branch] /\ rebasing' \in [View2 -> BOOLEAN]
  BY <1>1, Effects
<1> QED
  BY <1>1, <1>2, XWithin

(* What is to be shown of a lock that changes. *)
LockGood(l, r, k) ==
    /\ l.writer # <<>> => /\ Uses(l.writer, r, k, "write")
                          /\ Past(X!E(l.writer).pc, k) => l.readers = {}
    /\ \A y \in l.readers \union l.waiting : Uses(y, r, k, "read")
    /\ \A y \in l.waiting : X!E(y).pc = k /\ y \notin l.readers /\ l.writer # <<>>
    /\ \A x \in X!Executions : X!E(x).repo = r /\ Past(X!E(x).pc, k) /\ X!E(x).pc # "unlock" =>
          /\ X!Mode(X!E(x).what, k) = "write" => l.writer = x
          /\ X!Mode(X!E(x).what, k) = "read" => x \in l.readers

(* A lock changes. *)
LEMMA SetLockOK ==
    ASSUME XInv, NEW r \in X!Repo, NEW k \in Locks, NEW l \in LockType,
           lock' = [lock EXCEPT ![r][k] = l], UNCHANGED <<stack, branch, rebasing>>,
           LockGood(l, r, k)
    PROVE  XInv'
<1>1. \A q \in X!Repo, j \in Locks : lock'[q][j] = IF q = r /\ j = k THEN l ELSE lock[q][j]
  BY DEF XInv, XTypes
<1>2. lock' \in [X!Repo -> [Locks -> LockType]]
  BY DEF XInv, XTypes
<1>3. X!Executions' = X!Executions /\ \A x : X!E(x)' = X!E(x)
  BY DEF X!Executions, X!E
<1>4. XTypes'
  BY <1>2 DEF XInv, XTypes, StackOK
<1>5. ASSUME NEW q \in X!Repo, NEW j \in Locks
      PROVE  LockOK(q, j)'
  <2>1. \A x, mode : Uses(x, q, j, mode)' <=> Uses(x, q, j, mode)
    BY <1>3 DEF Uses
  <2>2. CASE q = r /\ j = k
    <3>1. lock'[q][j] = l
      BY <1>1, <2>2
    <3> QED
      BY <1>3, <2>1, <2>2, <3>1 DEF LockOK, LockGood
  <2>3. CASE ~(q = r /\ j = k)
    <3>1. lock'[q][j] = lock[q][j]
      BY <1>1, <2>3
    <3>2. LockOK(q, j)
      BY DEF XInv
    <3> QED
      BY <1>3, <2>1, <3>1, <3>2 DEF LockOK
  <2> QED
    BY <2>2, <2>3
<1>6. ASSUME NEW x \in X!Executions
      PROVE  FrameOK(X!E(x))' /\ HasOK(x)'
  <2>1. FrameOK(X!E(x)) /\ HasOK(x) /\ X!E(x).repo \in X!Repo
    BY DEF XInv, FrameOK, Frame
  <2>2. \A j \in Locks : lock'[X!E(x).repo][j] = IF X!E(x).repo = r /\ j = k THEN l ELSE lock[X!E(x).repo][j]
    BY <1>1, <2>1
  <2>3. \A j \in Locks : Past(X!E(x).pc, j) /\ X!E(x).pc # "unlock" =>
           /\ X!Mode(X!E(x).what, j) = "write" => lock'[X!E(x).repo][j].writer = x
           /\ X!Mode(X!E(x).what, j) = "read" => x \in lock'[X!E(x).repo][j].readers
    BY <2>1, <2>2 DEF HasOK, HasIt, LockGood
  <2> QED
    BY <1>3, <2>1, <2>3 DEF FrameOK, HasOK, HasIt
<1> QED
  BY <1>3, <1>4, <1>5, <1>6 DEF XInv

(* What the lock of an execution is, and who has it. *)
LEMMA LockNow ==
    ASSUME XInv, NEW t \in Thread, stack[t] # <<>>, NEW k \in Locks
    PROVE  /\ X!L(t, k) = lock[X!Top(t).repo][k] /\ X!L(t, k) \in LockType
           /\ X!L(t, k).writer \in Holder \union {<<>>}
           /\ X!L(t, k).readers \subseteq Holder /\ X!L(t, k).waiting \subseteq Holder
           /\ LockOK(X!Top(t).repo, k) /\ X!Me(t) \in Holder /\ X!Me(t) \notin {<<>>}
           /\ \A x \in X!Executions : X!E(x).repo = X!Top(t).repo => HasOK(x) /\
                 (Past(X!E(x).pc, k) /\ X!E(x).pc # "unlock" =>
                    /\ X!Mode(X!E(x).what, k) = "write" => X!L(t, k).writer = x
                    /\ X!Mode(X!E(x).what, k) = "read" => x \in X!L(t, k).readers)
<1>1. X!Top(t).repo \in X!Repo /\ StackOK
  BY TopOK
<1>2. X!Me(t) \in Holder
  BY <1>1, Depths DEF X!Me, Holder
<1>3. LockOK(X!Top(t).repo, k)
  BY <1>1 DEF XInv
<1>4. \A x \in X!Executions : HasOK(x)
  BY DEF XInv
<1>5. \A x \in X!Executions : X!E(x).repo = X!Top(t).repo /\ Past(X!E(x).pc, k) /\ X!E(x).pc # "unlock" =>
         /\ X!Mode(X!E(x).what, k) = "write" => X!L(t, k).writer = x
         /\ X!Mode(X!E(x).what, k) = "read" => x \in X!L(t, k).readers
  BY <1>4 DEF HasOK, HasIt, X!L
<1> QED
  BY <1>1, <1>2, <1>3, <1>4, <1>5, TopOK, LockTyped DEF X!L

LEMMA XRLock ==
    ASSUME XInv, NEW t \in Thread, NEW k \in Locks, X!RLock(t, k)
    PROVE  XInv'
<1>1. /\ stack[t] # <<>> /\ X!Top(t).pc = k /\ X!Mode(X!Top(t).what, k) = "read"
      /\ X!Me(t) \notin X!L(t, k).readers \union X!L(t, k).waiting
      /\ UNCHANGED <<stack, branch, rebasing>>
  BY DEF X!RLock, X!At
<1>2. PICK m, r, o : m = X!Me(t) /\ r = X!Top(t).repo /\ o = X!L(t, k)
  OBVIOUS
<1>3. /\ r \in X!Repo /\ m \in X!Executions /\ X!E(m) = X!Top(t)
  BY <1>1, <1>2, TopOK
<1>4. /\ o = lock[r][k] /\ o \in LockType /\ LockOK(r, k) /\ m \in Holder
      /\ \A x \in X!Executions : X!E(x).repo = r =>
                 (Past(X!E(x).pc, k) /\ X!E(x).pc # "unlock" =>
                    /\ X!Mode(X!E(x).what, k) = "write" => o.writer = x
                    /\ X!Mode(X!E(x).what, k) = "read" => x \in o.readers)
  BY <1>1, <1>2, LockNow
<1>5. Uses(m, r, k, "read")
  BY <1>1, <1>2, <1>3 DEF Uses, Locks
<1>6. CASE o.writer = <<>>
  <2>1. PICK l : l = [o EXCEPT !.readers = o.readers \union {m}]
    OBVIOUS
  <2>2. l \in LockType /\ l.writer = <<>> /\ l.readers = o.readers \union {m} /\ l.waiting = o.waiting
    BY <1>4, <1>6, <2>1 DEF LockType
  <2>3. lock' = [lock EXCEPT ![r][k] = l]
    BY <1>2, <1>6, <2>1 DEF X!RLock, X!SetLock
  <2>4. o.waiting = {} /\ \A y \in o.readers : Uses(y, r, k, "read")
    BY <1>4, <1>6 DEF LockOK
  <2>9. LockGood(l, r, k)
    BY <1>4, <1>5, <1>6, <2>2, <2>4 DEF LockGood
  <2> QED
    BY <1>1, <1>3, <2>2, <2>3, <2>9, SetLockOK
<1>7. CASE o.writer # <<>>
  <2>1. PICK l : l = [o EXCEPT !.waiting = o.waiting \union {m}]
    OBVIOUS
  <2>2. l \in LockType /\ l.writer = o.writer /\ l.readers = o.readers /\ l.waiting = o.waiting \union {m}
    BY <1>4, <2>1 DEF LockType
  <2>3. lock' = [lock EXCEPT ![r][k] = l]
    BY <1>2, <1>7, <2>1 DEF X!RLock, X!SetLock
  <2>4. /\ \A y \in o.readers \union o.waiting : Uses(y, r, k, "read")
        /\ \A y \in o.waiting : X!E(y).pc = k /\ y \notin o.readers
        /\ Uses(o.writer, r, k, "write")
        /\ Past(X!E(o.writer).pc, k) => o.readers = {}
    BY <1>4, <1>7 DEF LockOK
  <2>5. m \notin o.readers /\ X!E(m).pc = k
    BY <1>1, <1>2, <1>3
  <2>9. LockGood(l, r, k)
    BY <1>4, <1>5, <1>7, <2>2, <2>4, <2>5 DEF LockGood
  <2> QED
    BY <1>1, <1>3, <2>2, <2>3, <2>9, SetLockOK
<1> QED
  BY <1>6, <1>7

LEMMA XLock ==
    ASSUME XInv, NEW t \in Thread, NEW k \in Locks, X!Lock(t, k)
    PROVE  XInv'
<1>1. /\ stack[t] # <<>> /\ X!Top(t).pc = k /\ X!Mode(X!Top(t).what, k) = "write"
      /\ X!L(t, k).writer = <<>>
      /\ UNCHANGED <<stack, branch, rebasing>>
  BY DEF X!Lock, X!At
<1>2. PICK m, r, o : m = X!Me(t) /\ r = X!Top(t).repo /\ o = X!L(t, k)
  OBVIOUS
<1>3. /\ r \in X!Repo /\ m \in X!Executions /\ X!E(m) = X!Top(t) /\ m # <<>>
  BY <1>1, <1>2, TopOK
<1>4. /\ o = lock[r][k] /\ o \in LockType /\ LockOK(r, k) /\ m \in Holder
      /\ \A x \in X!Executions : X!E(x).repo = r =>
                 (Past(X!E(x).pc, k) /\ X!E(x).pc # "unlock" =>
                    /\ X!Mode(X!E(x).what, k) = "write" => o.writer = x
                    /\ X!Mode(X!E(x).what, k) = "read" => x \in o.readers)
  BY <1>1, <1>2, LockNow
<1>5. Uses(m, r, k, "write") /\ ~Past(X!E(m).pc, k)
  BY <1>1, <1>2, <1>3 DEF Uses, Locks, Past
<1>6. PICK l : l = [o EXCEPT !.writer = m]
  OBVIOUS
<1>7. l \in LockType /\ l.writer = m /\ l.readers = o.readers /\ l.waiting = o.waiting
  BY <1>4, <1>6 DEF LockType
<1>8. lock' = [lock EXCEPT ![r][k] = l]
  BY <1>2, <1>6 DEF X!Lock, X!SetLock
<1>9. /\ o.waiting = {} /\ o.writer = <<>>
      /\ \A y \in o.readers : Uses(y, r, k, "read")
  BY <1>1, <1>2, <1>4 DEF LockOK
<1>10. \A x \in X!Executions : X!E(x).repo = r /\ Past(X!E(x).pc, k) /\ X!E(x).pc # "unlock" =>
              /\ X!Mode(X!E(x).what, k) = "write" => l.writer = x
              /\ X!Mode(X!E(x).what, k) = "read" => x \in l.readers
  <2>1. \A x \in X!Executions : x # <<>>
    BY Member
  <2> QED
    BY <1>4, <1>7, <1>9, <2>1
<1>11. LockGood(l, r, k)
  BY <1>5, <1>7, <1>9, <1>10 DEF LockGood
<1> QED
  BY <1>1, <1>3, <1>7, <1>8, <1>11, SetLockOK

LEMMA XRelease ==
    ASSUME XInv, NEW t \in Thread, NEW k \in Locks, X!At(t, "unlock"), X!Holds(t, k),
           X!SetLock(t, k, X!Released(t, k)), UNCHANGED <<stack, branch, rebasing>>
    PROVE  XInv'
<1>1. stack[t] # <<>> /\ X!Top(t).pc = "unlock"
  BY DEF X!At
<1>2. PICK m, r, o : m = X!Me(t) /\ r = X!Top(t).repo /\ o = X!L(t, k)
  OBVIOUS
<1>3. /\ r \in X!Repo /\ m \in X!Executions /\ X!E(m) = X!Top(t) /\ m # <<>>
  BY <1>1, <1>2, TopOK
<1>4. /\ o = lock[r][k] /\ o \in LockType /\ LockOK(r, k) /\ m \in Holder
      /\ \A x \in X!Executions : X!E(x).repo = r =>
                 (Past(X!E(x).pc, k) /\ X!E(x).pc # "unlock" =>
                    /\ X!Mode(X!E(x).what, k) = "write" => o.writer = x
                    /\ X!Mode(X!E(x).what, k) = "read" => x \in o.readers)
  BY <1>1, <1>2, LockNow
<1>5. /\ \A y \in o.readers \union o.waiting : Uses(y, r, k, "read")
      /\ \A y \in o.waiting : X!E(y).pc = k /\ y \notin o.readers
      /\ o.writer # <<>> => /\ Uses(o.writer, r, k, "write")
                            /\ Past(X!E(o.writer).pc, k) => o.readers = {}
      /\ o.waiting # {} => o.writer # <<>>
  BY <1>4 DEF LockOK
<1>6. CASE o.writer = m
  <2>1. PICK l : l = [writer |-> <<>>, readers |-> o.waiting, waiting |-> {}]
    OBVIOUS
  <2>2. l \in LockType /\ l.writer = <<>> /\ l.readers = o.waiting /\ l.waiting = {}
    BY <1>4, <2>1 DEF LockType
  <2>3. lock' = [lock EXCEPT ![r][k] = l]
    BY <1>2, <1>6, <2>1 DEF X!Released, X!SetLock
  <2>4. Past(X!E(m).pc, k) /\ X!E(m).pc = "unlock"
    BY <1>1, <1>2, <1>3 DEF Past, Locks
  <2>5. o.readers = {}
    BY <1>3, <1>5, <1>6, <2>4
  <2>6. \A x \in X!Executions : X!E(x).repo = r /\ Past(X!E(x).pc, k) /\ X!E(x).pc # "unlock" =>
              /\ X!Mode(X!E(x).what, k) # "write" /\ X!Mode(X!E(x).what, k) # "read"
    BY <1>4, <1>6, <2>4, <2>5
  <2>9. LockGood(l, r, k)
    BY <1>5, <2>2, <2>6 DEF LockGood
  <2> QED
    BY <1>3, <2>2, <2>3, <2>9, SetLockOK
<1>7. CASE o.writer # m
  <2>1. PICK l : l = [o EXCEPT !.readers = o.readers \ {m}]
    OBVIOUS
  <2>2. l \in LockType /\ l.writer = o.writer /\ l.readers = o.readers \ {m} /\ l.waiting = o.waiting
    BY <1>4, <2>1 DEF LockType
  <2>3. lock' = [lock EXCEPT ![r][k] = l]
    BY <1>2, <1>7, <2>1 DEF X!Released, X!SetLock
  <2>4. \A x \in X!Executions : X!E(x).repo = r /\ Past(X!E(x).pc, k) /\ X!E(x).pc # "unlock" =>
              /\ X!Mode(X!E(x).what, k) = "write" => l.writer = x
              /\ X!Mode(X!E(x).what, k) = "read" => x \in l.readers
    BY <1>1, <1>2, <1>3, <1>4, <2>2
  <2>9. LockGood(l, r, k)
    BY <1>5, <2>2, <2>4 DEF LockGood
  <2> QED
    BY <1>3, <2>2, <2>3, <2>9, SetLockOK
<1> QED
  BY <1>6, <1>7

(* One execution more, which has no lock yet. *)
Begun(z) ==
    /\ z \notin X!Executions /\ X!Executions' = X!Executions \union {z} /\ StackOK'
    /\ UNCHANGED <<lock, branch, rebasing>>
    /\ FrameOK(X!E(z)') /\ (X!E(z)').pc = "file"
    /\ \A x \in X!Executions :
          /\ FrameOK(X!E(x)') /\ (X!E(x)').what = X!E(x).what /\ (X!E(x)').repo = X!E(x).repo
          /\ (X!E(x)').branch = X!E(x).branch /\ (X!E(x)').i = X!E(x).i
          /\ (X!E(x)').pc = X!E(x).pc \/ (X!E(x).pc = "in" /\ (X!E(x)').pc = "back")

LEMMA BeginOK ==
    ASSUME XInv, NEW z, Begun(z)
    PROVE  XInv'
<1> USE DEF Begun
<1>1. XTypes'
  BY DEF XInv, XTypes
<1>2. \A x \in X!Executions, k \in Locks :
         /\ Past((X!E(x)').pc, k) <=> Past(X!E(x).pc, k)
         /\ (X!E(x)').pc = "unlock" <=> X!E(x).pc = "unlock"
         /\ (X!E(x)').pc = k <=> X!E(x).pc = k
         /\ (X!E(x)').pc = "file" <=> X!E(x).pc = "file"
  BY DEF Past, Locks
<1>3. ASSUME NEW x \in X!Executions'
      PROVE  FrameOK(X!E(x))' /\ HasOK(x)'
  <2>1. FrameOK(X!E(x))'
    BY DEF FrameOK
  <2>2. CASE x = z
    BY <2>1, <2>2 DEF HasOK, Past
  <2>3. CASE x \in X!Executions
    <3>1. HasOK(x)
      BY <2>3 DEF XInv
    <3> QED
      BY <1>2, <2>1, <2>3, <3>1 DEF HasOK, HasIt
  <2> QED
    BY <2>2, <2>3
<1>4. ASSUME NEW r \in X!Repo, NEW k \in Locks
      PROVE  LockOK(r, k)'
  <2>1. \A x, mode : Uses(x, r, k, mode) => Uses(x, r, k, mode)' /\ x \in X!Executions
    BY <1>2 DEF Uses
  <2>2. LockOK(r, k)
    BY DEF XInv
  <2>3. \A y \in lock[r][k].readers \union lock[r][k].waiting : Uses(y, r, k, "read")' /\ y \in X!Executions
    BY <2>1, <2>2 DEF LockOK
  <2>4. lock[r][k].writer # <<>> =>
           /\ Uses(lock[r][k].writer, r, k, "write")' /\ lock[r][k].writer \in X!Executions
           /\ Past(X!E(lock[r][k].writer).pc, k) => lock[r][k].readers = {}
    BY <2>1, <2>2 DEF LockOK
  <2>5. \A y \in lock[r][k].waiting : (X!E(y)').pc = k /\ y \notin lock[r][k].readers /\ lock[r][k].writer # <<>>
    BY <1>2, <2>2, <2>3 DEF LockOK
  <2>6. PICK w : w = lock[r][k].writer
    OBVIOUS
  <2>7. w # <<>> => Uses(w, r, k, "write")' /\ (Past((X!E(w)').pc, k) => lock[r][k].readers = {})
    BY <1>2, <2>4, <2>6 DEF Uses
  <2> QED
    BY <2>3, <2>5, <2>6, <2>7 DEF LockOK
<1> QED
  BY <1>1, <1>3, <1>4 DEF XInv

(* An execution as it is started. *)
LEMMA StartedOK ==
    ASSUME NEW s \in X!Names, NEW r, r \in IF X!Executed(s).in = "trunk" THEN {Trunk2} ELSE View2,
           NEW b \in Branch \union {X!None}, b # X!None => "assert" \in X!Kinds(s)
    PROVE  FrameOK(X!Started(s, r, b)) /\ X!Started(s, r, b).pc = "file" /\ X!Started(s, r, b) \in Frame
           /\ X!Started(s, r, b).branch = b /\ X!Started(s, r, b).what = s /\ X!Started(s, r, b).repo = r
<1>1. r \in X!Repo
  BY Known DEF X!Repo
<1>2. 1 \in 1..Len(X!Functions(s))
  BY FunctionsOf
<1> QED
  BY <1>1, <1>2 DEF X!Started, FrameOK, Frame, Places, Locks

LEMMA ExecBegun ==
    ASSUME XInv, NEW t \in Thread, X!Exec(t)
    PROVE  \E z : Begun(z)
<1>1. PICK s \in Offered, r \in View2 \union {Trunk2}, b \in Branch \union {X!None} :
         /\ r \in IF X!Executed(s).in = "trunk" THEN {Trunk2} ELSE View2
         /\ b # X!None => "assert" \in X!Kinds(s)
         /\ stack' = [stack EXCEPT ![t] = <<X!Started(s, r, b)>>]
  BY DEF X!Exec
<1>2. stack[t] = <<>> /\ UNCHANGED <<lock, branch, rebasing>> /\ StackOK
  BY DEF X!Exec, XInv, XTypes
<1>3. s \in X!Names
  BY ExecutorAssumption
<1>4. PICK e : e = X!Started(s, r, b)
  OBVIOUS
<1>5. FrameOK(e) /\ e.pc = "file" /\ e \in Frame
  BY <1>1, <1>3, <1>4, StartedOK
<1>6. stack' = [stack EXCEPT ![t] = Append(<<>>, e)] /\ Len(<<>>) = Len(stack[t]) /\ <<>> \in Seq(Frame)
  BY <1>1, <1>2, <1>4
<1>7. PICK z : z = <<t, Len(<<>>) + 1>>
  OBVIOUS
<1>8. /\ StackOK' /\ X!Executions' = X!Executions \union {z} /\ z \notin X!Executions /\ X!E(z)' = e
      /\ \A x \in X!Executions : x[1] # t => X!E(x)' = X!E(x)
  BY <1>2, <1>5, <1>6, <1>7, Begins
<1>9. \A x \in X!Executions : x[1] # t
  BY <1>2, Frames
<1>10. \A x \in X!Executions : X!E(x)' = X!E(x) /\ FrameOK(X!E(x))
  BY <1>8, <1>9 DEF XInv
<1> QED
  BY <1>2, <1>5, <1>8, <1>10 DEF Begun

LEMMA InsideBegun ==
    ASSUME XInv, NEW t \in Thread, X!ExecInside(t)
    PROVE  \E z : Begun(z)
<1>1. PICK c, r : /\ c = X!Calls(X!Top(t).what)
                  /\ r = IF X!Executed(c).in = "trunk" THEN Trunk2 ELSE X!Top(t).repo
  OBVIOUS
<1>0. PICK e : e = X!Started(c, r, X!None)
  OBVIOUS
<1>2. PICK n, s : n = Len(stack[t]) /\ s = [stack[t] EXCEPT ![n].pc = "back"]
  OBVIOUS
<1>3. /\ stack[t] # <<>> /\ X!Top(t).pc = "in" /\ c # "none"
      /\ stack' = [stack EXCEPT ![t] = Append(s, e)]
      /\ UNCHANGED <<lock, branch, rebasing>>
  <2>1. /\ stack[t] # <<>> /\ X!Top(t).pc = "in" /\ c # "none"
        /\ UNCHANGED <<lock, branch, rebasing>>
    BY <1>1 DEF X!ExecInside, X!At
  <2>2. stack' = [stack EXCEPT ![t] =
            Append([stack[t] EXCEPT ![Len(stack[t])].pc = "back"], X!Started(c, r, X!None))]
    BY <1>1 DEF X!ExecInside
  <2> QED
    BY <1>0, <1>2, <2>1, <2>2
<1>4. /\ StackOK /\ X!Me(t) \in X!Executions /\ X!E(X!Me(t)) = X!Top(t)
      /\ FrameOK(X!Top(t)) /\ X!Top(t) \in Frame
      /\ X!Top(t).what \in X!Names
      /\ X!Top(t).repo \in IF X!Executed(X!Top(t).what).in = "trunk" THEN {Trunk2} ELSE View2
  BY <1>3, TopOK
<1>5. c \in X!Names /\ r \in IF X!Executed(c).in = "trunk" THEN {Trunk2} ELSE View2
  <2>1. c \in {"getCommit", "snapshotOnView"} /\ c \in X!Names
    BY <1>1, <1>3, <1>4, KnownCalls DEF X!Names
  <2>2. CASE c = "getCommit"
    BY <1>1, <1>4, <2>1, <2>2, KnownCalls
  <2>3. CASE c = "snapshotOnView"
    <3>1. X!Top(t).what = "repairView" /\ X!Executed(c).in = "view"
      BY <1>1, <1>4, <2>3, KnownCalls
    <3>2. X!Executed("repairView").in = "view"
      BY DEF X!Executed, X!repairView, X!Execution
    <3> QED
      BY <1>1, <1>4, <2>1, <3>1, <3>2
  <2> QED
    BY <2>1, <2>2, <2>3
<1>6. FrameOK(e) /\ e.pc = "file" /\ e \in Frame
  <2>1. X!None \in Branch \union {X!None} /\ (X!None # X!None => "assert" \in X!Kinds(c))
    OBVIOUS
  <2> QED
    BY <1>0, <1>5, <2>1, StartedOK
<1>7. /\ n \in Nat /\ n >= 1 /\ stack[t] \in Seq(Frame) /\ DOMAIN stack[t] = 1..n
      /\ X!Me(t) = <<t, n>> /\ X!Top(t) = stack[t][n]
      /\ \A d \in 1..n : <<t, d>> \in X!Executions /\ X!E(<<t, d>>) = stack[t][d]
  BY <1>2, <1>3, <1>4, Depths DEF StackOK, X!Me, X!Top
<1>16. PICK o : o = [X!Top(t) EXCEPT !.pc = "back"]
  OBVIOUS
<1>8. /\ o \in Frame /\ o.pc = "back" /\ o.what = X!Top(t).what /\ o.repo = X!Top(t).repo
      /\ o.branch = X!Top(t).branch /\ o.i = X!Top(t).i
  <2>1. "back" \in Places
    BY DEF Places
  <2> QED
    BY <1>4, <1>16, <2>1, GoOK
<1>9. FrameOK(o)
  BY <1>3, <1>4, <1>8 DEF FrameOK, Locks
<1>10. s = [stack[t] EXCEPT ![n] = o]
  BY <1>2, <1>7, <1>16
<1>11. s \in Seq(Frame) /\ Len(s) = n /\ \A d \in 1..n : s[d] = IF d = n THEN o ELSE stack[t][d]
  BY <1>7, <1>8, <1>10
<1>12. PICK z : z = <<t, Len(s) + 1>>
  OBVIOUS
<1>13. /\ StackOK' /\ X!Executions' = X!Executions \union {z} /\ z \notin X!Executions /\ X!E(z)' = e
       /\ \A d \in 1..Len(s) : X!E(<<t, d>>)' = s[d]
       /\ \A x \in X!Executions : x[1] # t => X!E(x)' = X!E(x)
  <2>1. Len(s) = Len(stack[t])
    BY <1>2, <1>11
  <2>2. s \in Seq(Frame) /\ stack' = [stack EXCEPT ![t] = Append(s, e)]
    BY <1>3, <1>11
  <2>3. /\ StackOK' /\ X!Executions' = X!Executions \union {<<t, Len(s) + 1>>}
        /\ <<t, Len(s) + 1>> \notin X!Executions /\ X!E(<<t, Len(s) + 1>>)' = e
        /\ \A d \in 1..Len(s) : X!E(<<t, d>>)' = s[d]
        /\ \A x \in X!Executions : x[1] # t => X!E(x)' = X!E(x)
    BY <1>4, <1>6, <2>1, <2>2, Begins
  <2> QED
    BY <1>12, <2>3
<1>14. ASSUME NEW x \in X!Executions
       PROVE  X!E(x)' = X!E(x) \/ (X!E(x)' = o /\ X!E(x) = X!Top(t))
  <2>1. CASE x[1] # t
    BY <1>13, <2>1
  <2>2. CASE x[1] = t
    <3>1. PICK u \in Thread : \E d \in 1..Len(stack[u]) : x = <<u, d>>
      BY <1>4, Frames
    <3>2. PICK d \in 1..Len(stack[u]) : x = <<u, d>>
      BY <3>1
    <3>3. x = <<t, d>> /\ d \in 1..n
      BY <1>2, <2>2, <3>2
    <3>4. X!E(<<t, d>>)' = s[d]
      BY <1>11, <1>13, <3>3
    <3>5. X!E(<<t, d>>) = stack[t][d]
      BY <1>7, <3>3
    <3> QED
      BY <1>7, <1>11, <3>3, <3>4, <3>5
  <2> QED
    BY <2>1, <2>2
<1>15. \A x \in X!Executions :
              /\ FrameOK(X!E(x)') /\ (X!E(x)').what = X!E(x).what /\ (X!E(x)').repo = X!E(x).repo
              /\ (X!E(x)').branch = X!E(x).branch /\ (X!E(x)').i = X!E(x).i
              /\ (X!E(x)').pc = X!E(x).pc \/ (X!E(x).pc = "in" /\ (X!E(x)').pc = "back")
  <2>1. \A x \in X!Executions : FrameOK(X!E(x))
    BY DEF XInv
  <2> QED
    BY <1>3, <1>8, <1>9, <1>14, <2>1
<1> QED
  BY <1>3, <1>6, <1>13, <1>15 DEF Begun

(* An execution that has given up its locks ends. *)
LEMMA XEnd ==
    ASSUME XInv, NEW t \in Thread, X!At(t, "unlock"), ~X!Holds(t, "file"), ~X!Holds(t, "memory"),
           stack' = [stack EXCEPT ![t] = SubSeq(stack[t], 1, Len(stack[t]) - 1)],
           UNCHANGED <<lock, branch, rebasing>>
    PROVE  XInv'
<1>0. PICK m : m = X!Me(t)
  OBVIOUS
<1>1. /\ stack[t] # <<>> /\ X!Top(t).pc = "unlock" /\ StackOK
      /\ m \in X!Executions /\ X!E(m) = X!Top(t) /\ m # <<>>
  BY <1>0, TopOK DEF X!At
<1>2. /\ StackOK' /\ X!Executions' = X!Executions \ {m}
      /\ \A x \in X!Executions' : X!E(x)' = X!E(x)
  BY <1>0, <1>1, Ends
<1>3. ASSUME NEW r \in X!Repo, NEW k \in Locks
      PROVE  m \notin X!Users(lock[r][k])
  <2>1. LockOK(r, k)
    BY DEF XInv
  <2>2. ASSUME m \in X!Users(lock[r][k])
        PROVE  FALSE
    <3>1. X!E(m).repo = r /\ m \notin lock[r][k].waiting
      BY <1>1, <2>1, <2>2 DEF X!Users, LockOK, Uses, Locks
    <3>2. m = lock[r][k].writer \/ m \in lock[r][k].readers
      BY <2>2, <3>1 DEF X!Users
    <3>3. ~X!Holds(t, k)
      BY DEF Locks
    <3> QED
      BY <1>0, <1>1, <3>1, <3>2, <3>3 DEF X!Holds, X!L
  <2> QED
    BY <2>2
<1>4. XTypes'
  BY <1>2 DEF XInv, XTypes
<1>5. ASSUME NEW x \in X!Executions'
      PROVE  FrameOK(X!E(x))' /\ HasOK(x)'
  <2>1. x \in X!Executions /\ X!E(x)' = X!E(x)
    BY <1>2
  <2>2. FrameOK(X!E(x)) /\ HasOK(x)
    BY <2>1 DEF XInv
  <2> QED
    BY <2>1, <2>2 DEF FrameOK, HasOK, HasIt
<1>6. ASSUME NEW r \in X!Repo, NEW k \in Locks
      PROVE  LockOK(r, k)'
  <2>1. LockOK(r, k)
    BY DEF XInv
  <2>2. \A x \in X!Users(lock[r][k]) : \A mode : Uses(x, r, k, mode) => Uses(x, r, k, mode)' /\ X!E(x)' = X!E(x)
    BY <1>2, <1>3 DEF Uses
  <2>3. PICK w : w = lock[r][k].writer
    OBVIOUS
  <2>4. w # <<>> => Uses(w, r, k, "write")' /\ (Past((X!E(w)').pc, k) => lock[r][k].readers = {})
    BY <2>1, <2>2, <2>3 DEF LockOK, X!Users
  <2>5. \A y \in lock[r][k].readers \union lock[r][k].waiting : Uses(y, r, k, "read")' /\ X!E(y)' = X!E(y)
    BY <2>1, <2>2 DEF LockOK, X!Users
  <2>6. \A y \in lock[r][k].waiting : (X!E(y)').pc = k /\ y \notin lock[r][k].readers /\ w # <<>>
    BY <2>1, <2>3, <2>5 DEF LockOK
  <2> QED
    BY <2>3, <2>4, <2>5, <2>6 DEF LockOK
<1> QED
  BY <1>2, <1>4, <1>5, <1>6 DEF XInv

LEMMA XUnlock ==
    ASSUME XInv, NEW t \in Thread, X!Unlock(t)
    PROVE  XInv'
<1>1. X!At(t, "unlock") /\ UNCHANGED <<branch, rebasing>>
  BY DEF X!Unlock
<1>2. ASSUME NEW k \in Locks, X!Holds(t, k), X!SetLock(t, k, X!Released(t, k)), UNCHANGED stack
      PROVE  XInv'
  BY <1>1, <1>2, XRelease
<1>3. ASSUME ~X!Holds(t, "file"), ~X!Holds(t, "memory"),
             stack' = [stack EXCEPT ![t] = SubSeq(stack[t], 1, Len(stack[t]) - 1)], UNCHANGED lock
      PROVE  XInv'
  BY <1>1, <1>3, XEnd
<1> QED
  BY <1>2, <1>3 DEF X!Unlock, Locks

LEMMA XInit ==
    ASSUME X!Init
    PROVE  XInv /\ X!Executions = {}
<1>1. X!Executions = {}
  BY DEF X!Init, X!Executions
<1>2. X!Free \in LockType
  BY DEF X!Free, LockType
<1>3. XTypes
  <2>1. lock \in [X!Repo -> [Locks -> LockType]]
    BY <1>2 DEF X!Init, Locks
  <2>2. StackOK
    BY DEF X!Init, StackOK
  <2> QED
    BY <2>1, <2>2 DEF X!Init, XTypes
<1>4. \A r \in X!Repo, k \in Locks : LockOK(r, k)
  <2>1. \A r \in X!Repo, k \in Locks : lock[r][k] = X!Free
    BY DEF X!Init, Locks
  <2> QED
    BY <2>1 DEF LockOK, X!Free
<1> QED
  BY <1>1, <1>3, <1>4 DEF XInv

LEMMA XNext ==
    ASSUME XInv, X!Next
    PROVE  XInv'
<1>1. PICK t \in Thread : \/ X!Exec(t) \/ X!Step(t)
                          \/ \E k \in Locks : X!Lock(t, k)
  BY DEF X!Next, Locks
<1>2. \A k \in Locks : k \in {"file", "memory"}
  BY DEF Locks
<1>4. CASE X!Exec(t) \/ X!ExecInside(t)
  BY <1>4, ExecBegun, InsideBegun, BeginOK
<1>3. CASE X!Step(t)
  BY <1>3, <1>4, XNoLock, XRLock, XLocked, XCheck, XAssertBranchName, XCall, XReturn, XUnlock
     DEF X!Step, Locks
<1> QED
  BY <1>1, <1>3, <1>4, XLock

(* The inductive invariant.                                                *)
THEOREM ExecutionsHaveTheirLocks ==
    X!Spec => []XInv
<1>1. ASSUME XInv, UNCHANGED X!vars
      PROVE  XInv'
  <2>1. UNCHANGED <<stack, lock, branch, rebasing>>
    BY <1>1 DEF X!vars
  <2>2. XTypes' /\ X!Executions' = X!Executions /\ \A x : X!E(x)' = X!E(x)
    BY <1>1, <2>1 DEF XInv, XTypes, StackOK, X!Executions, X!E
  <2>3. \A x \in X!Executions : FrameOK(X!E(x))' /\ HasOK(x)'
    BY <1>1, <2>1, <2>2 DEF XInv, FrameOK, HasOK, HasIt
  <2>4. \A r \in X!Repo, k \in Locks : LockOK(r, k)'
    BY <1>1, <2>1, <2>2 DEF XInv, LockOK, Uses
  <2> QED
    BY <2>2, <2>3, <2>4 DEF XInv
<1>2. XInv /\ [X!Next]_X!vars => XInv'
  BY <1>1, XNext
<1> QED
  BY XInit, <1>2, PTL DEF X!Spec

(* While a function writes the files of a repository no other reads or     *)
(* writes them, and while one writes .git no other reads or writes it: the *)
(* mode of each lock follows from the kinds of all functions (exec), and   *)
(* an execution keeps its locks until the last function has returned.      *)
THEOREM Exclusive ==
    X!Spec => []LocksExclude
<1>1. ASSUME XInv, NEW x \in X!Executions, NEW y \in X!Executions, NEW k \in Locks, x # y,
             X!E(x).repo = X!E(y).repo, X!E(x).pc \in {"in", "back"}, X!E(y).pc \in {"in", "back"},
             X!Mode(X!E(x).what, k) = "write"
      PROVE  X!Mode(X!E(y).what, k) \notin {"read", "write"}
  <2>1. /\ HasIt(x, k) /\ HasIt(y, k) /\ X!E(x).repo \in X!Repo /\ Past(X!E(x).pc, k)
    BY <1>1 DEF XInv, HasOK, Past, Locks, FrameOK, Frame
  <2>2. lock[X!E(x).repo][k].writer = x /\ x # <<>>
    BY <1>1, <2>1, Member DEF HasIt
  <2>3. lock[X!E(x).repo][k].readers = {}
    <3>1. LockOK(X!E(x).repo, k)
      BY <1>1, <2>1 DEF XInv
    <3> QED
      BY <2>1, <2>2, <3>1 DEF LockOK
  <2> QED
    BY <1>1, <2>1, <2>2, <2>3 DEF HasIt
<1>2. ASSUME XInv, NEW x \in X!Executions, NEW kinds, X!Running(x, kinds)
      PROVE  /\ X!E(x).pc \in {"in", "back"}
             /\ kinds = X!WritesFiles => X!Mode(X!E(x).what, "file") = "write"
             /\ kinds = X!WritesFiles \union X!ReadsFiles => X!Mode(X!E(x).what, "file") \in {"read", "write"}
             /\ kinds = X!WritesGit => X!Mode(X!E(x).what, "memory") = "write"
             /\ kinds = X!WritesGit \union X!ReadsGit => X!Mode(X!E(x).what, "memory") \in {"read", "write"}
  <2>1. X!E(x).what \in X!Names /\ X!E(x).i \in 1..Len(X!Functions(X!E(x).what))
    BY <1>2 DEF XInv, FrameOK, Frame
  <2> QED
    BY <1>2, <2>1, Modes DEF X!Running
<1>3. XInv => LocksExclude
  BY <1>1, <1>2 DEF LocksExclude, X!LocksExclude, Locks
<1> QED
  BY ExecutionsHaveTheirLocks, <1>3, PTL

(* Past its first function, a function that needs files finds what was checked. *)
Concerned(e) == e.repo \in View2 /\ X!Mode(e.what, "file") # "none" /\ e.i > 1 /\ e.pc \in {"run", "in", "back"}

ExpOK(e) == Concerned(e) =>
    /\ rebasing[e.repo] => X!Executed(e.what).allow
    /\ e.branch \in {X!None, branch[e.repo]} \/ rebasing[e.repo]

ExpInv == \A x \in X!Executions : ExpOK(X!E(x))

(* When the innermost execution moves on. *)
LEMMA ExpMove ==
    ASSUME XInv, ExpInv, NEW t \in Thread, stack[t] # <<>>, NEW e \in Frame, X!SetTop(t, e), ExpOK(e)',
           \A x \in X!Executions : x # X!Me(t) /\ Concerned(X!E(x)) =>
              branch'[X!E(x).repo] = branch[X!E(x).repo] /\ rebasing'[X!E(x).repo] = rebasing[X!E(x).repo]
    PROVE  ExpInv'
<1>1. PICK m : m = X!Me(t)
  OBVIOUS
<1>2. /\ X!Executions' = X!Executions
      /\ \A x \in X!Executions : X!E(x)' = IF x = m THEN e ELSE X!E(x)
  BY <1>1, Moves DEF XInv, XTypes
<1>3. ASSUME NEW x \in X!Executions
      PROVE  ExpOK(X!E(x))'
  <2>1. CASE x = m
    BY <1>2, <2>1 DEF ExpOK, Concerned
  <2>2. CASE x # m
    <3>1. X!E(x)' = X!E(x) /\ ExpOK(X!E(x))
      BY <1>2, <2>2 DEF ExpInv
    <3> QED
      BY <1>1, <2>2, <3>1 DEF ExpOK, Concerned
  <2> QED
    BY <2>1, <2>2
<1> QED
  BY <1>2, <1>3 DEF ExpInv

(* Without a change of place in the functions there is nothing new. *)
LEMMA ExpGo ==
    ASSUME XInv, ExpInv, NEW t \in Thread, stack[t] # <<>>, NEW place \in Places, X!Go(t, place),
           UNCHANGED <<branch, rebasing>>,
           place \in {"run", "in", "back"} => X!Top(t).pc \in {"run", "in", "back"} \/ X!Top(t).i = 1
    PROVE  ExpInv'
<1>1. PICK e : e = [X!Top(t) EXCEPT !.pc = place]
  OBVIOUS
<1>2. X!Top(t) \in Frame /\ X!Me(t) \in X!Executions /\ X!E(X!Me(t)) = X!Top(t)
  BY TopOK
<1>3. /\ e \in Frame /\ e.pc = place /\ e.what = X!Top(t).what /\ e.repo = X!Top(t).repo
      /\ e.branch = X!Top(t).branch /\ e.i = X!Top(t).i
  BY <1>1, <1>2, GoOK
<1>4. ExpOK(X!Top(t))
  BY <1>2 DEF ExpInv
<1>5. ExpOK(e)'
  BY <1>3, <1>4 DEF ExpOK, Concerned
<1>6. X!SetTop(t, e)
  BY <1>1 DEF X!Go
<1> QED
  BY <1>3, <1>5, <1>6, ExpMove

(* The next function. *)
LEMMA ExpGoOn ==
    ASSUME XInv, ExpInv, NEW t \in Thread, stack[t] # <<>>, X!GoOn(t),
           X!Top(t).repo \in View2 =>
              /\ rebasing'[X!Top(t).repo] => X!Executed(X!Top(t).what).allow
              /\ X!Top(t).branch \in {X!None, branch'[X!Top(t).repo]} \/ rebasing'[X!Top(t).repo],
           \A x \in X!Executions : x # X!Me(t) /\ Concerned(X!E(x)) =>
              branch'[X!E(x).repo] = branch[X!E(x).repo] /\ rebasing'[X!E(x).repo] = rebasing[X!E(x).repo]
    PROVE  ExpInv'
<1>1. PICK e : e = [X!Top(t) EXCEPT !.pc = "run", !.i = @ + 1]
  OBVIOUS
<1>2. X!Top(t) \in Frame
  BY TopOK
<1>3. /\ e \in Frame /\ e.pc = "run" /\ e.what = X!Top(t).what /\ e.repo = X!Top(t).repo
      /\ e.branch = X!Top(t).branch
  BY <1>1, <1>2, GoOnOK
<1>4. ExpOK(e)'
  <2>1. e.repo \in View2 =>
           /\ rebasing'[e.repo] => X!Executed(e.what).allow
           /\ e.branch \in {X!None, branch'[e.repo]} \/ rebasing'[e.repo]
    BY <1>3
  <2> QED
    BY <2>1 DEF ExpOK, Concerned
<1>5. X!SetTop(t, e)
  BY <1>1 DEF X!GoOn
<1> QED
  BY <1>3, <1>4, <1>5, ExpMove

LEMMA ExpChecks ==
    ASSUME XInv, ExpInv, NEW t \in Thread, X!Check(t) \/ X!AssertBranchName(t)
    PROVE  ExpInv'
<1>1. stack[t] # <<>> /\ UNCHANGED <<branch, rebasing>> /\ X!Top(t).pc = "run"
      /\ X!Function(t) \in {"check", "assert"}
  BY DEF X!Check, X!AssertBranchName, X!At
<1>2. FrameOK(X!Top(t)) /\ X!Top(t).what \in X!Names /\ X!Top(t).i = 1
  BY <1>1, TopOK, ChecksComeFirst
<1>3. CASE X!Go(t, "unlock")
  BY <1>1, <1>3, ExpGo DEF Places
<1>4. CASE X!Check(t) /\ ~X!Rebasing(X!Top(t).repo) /\ X!GoOn(t)
  <2>1. X!Functions(X!Top(t).what)[1] = "check"
    BY <1>2, <1>4 DEF X!Check, X!Function
  <2>2. X!Top(t).branch = X!None
    BY <1>2, <2>1, FunctionsOf DEF FrameOK
  <2>3. X!Top(t).repo \in View2 => ~rebasing[X!Top(t).repo]
    BY <1>4 DEF X!Rebasing
  <2> QED
    BY <1>1, <1>4, <2>2, <2>3, ExpGoOn
<1>5. CASE /\ X!AssertBranchName(t) /\ X!GoOn(t)
           /\ X!Rebasing(X!Top(t).repo) \/ branch[X!Top(t).repo] = X!Top(t).branch
  <2>1. X!Functions(X!Top(t).what)[1] = "assert" /\ 1 \in 1..Len(X!Functions(X!Top(t).what))
    BY <1>2, <1>5 DEF X!AssertBranchName, X!Function, FrameOK
  <2>2. X!Executed(X!Top(t).what).allow
    BY <1>2, <2>1, FunctionsOf
  <2>3. X!Top(t).repo \in View2 => X!Top(t).branch \in {X!None, branch[X!Top(t).repo]} \/ rebasing[X!Top(t).repo]
    BY <1>5 DEF X!Rebasing
  <2> QED
    BY <1>1, <1>5, <2>2, <2>3, ExpGoOn
<1> QED
  BY <1>3, <1>4, <1>5 DEF X!Check, X!AssertBranchName

(* While a function changes what is checked out nobody else needs it. *)
LEMMA Alone ==
    ASSUME XInv, NEW t \in Thread, X!Return(t), NEW x \in X!Executions, x # X!Me(t), Concerned(X!E(x))
    PROVE  branch'[X!E(x).repo] = branch[X!E(x).repo] /\ rebasing'[X!E(x).repo] = rebasing[X!E(x).repo]
<1>1. stack[t] # <<>> /\ X!Top(t).pc \in {"in", "back"} /\ X!Effect(X!Top(t).what, X!Top(t).repo)
  BY DEF X!Return, X!At
<1>2. /\ branch' # branch \/ rebasing' # rebasing =>
            X!Top(t).what \in {"openWorkspace", "syncOnTrunk", "syncResolve"}
      /\ X!Top(t).what \in {"openWorkspace", "syncOnTrunk", "syncResolve"} =>
            /\ X!Mode(X!Top(t).what, "file") = "write"
            /\ \A v \in View2 : v # X!Top(t).repo => branch'[v] = branch[v] /\ rebasing'[v] = rebasing[v]
  BY <1>1, Effects
<1>3. PICK m : m = X!Me(t)
  OBVIOUS
<1>4. m \in X!Executions /\ X!E(m) = X!Top(t) /\ m # <<>> /\ X!Top(t).repo \in X!Repo
  BY <1>1, <1>3, TopOK
<1>5. CASE X!Mode(X!Top(t).what, "file") = "write" /\ X!E(x).repo = X!Top(t).repo
  <2>1. Past(X!E(m).pc, "file") /\ Past(X!E(x).pc, "file") /\ X!E(m).pc # "unlock" /\ X!E(x).pc # "unlock"
    BY <1>1, <1>4 DEF Past, Concerned
  <2>2. HasIt(m, "file") /\ HasIt(x, "file") /\ LockOK(X!Top(t).repo, "file")
    <3>1. HasOK(m) /\ HasOK(x)
      BY <1>4 DEF XInv
    <3> QED
      BY <1>4, <2>1, <3>1 DEF XInv, HasOK, Locks
  <2>3. lock[X!Top(t).repo]["file"].writer = m
    BY <1>4, <1>5, <2>2 DEF HasIt
  <2>4. lock[X!Top(t).repo]["file"].readers = {}
    BY <1>4, <2>1, <2>2, <2>3 DEF LockOK
  <2>5. X!Mode(X!E(x).what, "file") \in {"read", "write"}
    BY ModeIs DEF Concerned
  <2> QED
    BY <1>3, <1>5, <2>2, <2>3, <2>4, <2>5 DEF HasIt
<1>6. CASE ~(X!Mode(X!Top(t).what, "file") = "write" /\ X!E(x).repo = X!Top(t).repo)
  BY <1>2, <1>6 DEF Concerned
<1> QED
  BY <1>5, <1>6

LEMMA ExpReturn ==
    ASSUME XInv, ExpInv, NEW t \in Thread, X!Return(t)
    PROVE  ExpInv'
<1>1. stack[t] # <<>> /\ X!Top(t).pc \in {"in", "back"} /\ X!Effect(X!Top(t).what, X!Top(t).repo)
  BY DEF X!Return, X!At
<1>2. \A x \in X!Executions : x # X!Me(t) /\ Concerned(X!E(x)) =>
         branch'[X!E(x).repo] = branch[X!E(x).repo] /\ rebasing'[X!E(x).repo] = rebasing[X!E(x).repo]
  BY Alone
<1>3. FrameOK(X!Top(t)) /\ X!Top(t).what \in X!Names /\ X!Top(t) \in Frame /\ X!Top(t).i \in Nat
      /\ X!Me(t) \in X!Executions /\ X!E(X!Me(t)) = X!Top(t)
  BY <1>1, TopOK
<1>4. CASE X!Go(t, "unlock")
  <2>1. PICK e : e = [X!Top(t) EXCEPT !.pc = "unlock"]
    OBVIOUS
  <2>2. e \in Frame /\ e.pc = "unlock"
    BY <1>3, <2>1, GoOK DEF Places
  <2>3. X!SetTop(t, e)
    BY <1>4, <2>1 DEF X!Go
  <2>4. ExpOK(e)'
    BY <2>2 DEF ExpOK, Concerned
  <2> QED
    BY <1>1, <1>2, <2>2, <2>3, <2>4, ExpMove
<1>5. CASE X!Top(t).i < Len(X!Functions(X!Top(t).what)) /\ X!GoOn(t)
  <2>1. PICK s, v, b, i : s = X!Top(t).what /\ v = X!Top(t).repo /\ b = X!Top(t).branch /\ i = X!Top(t).i
    OBVIOUS
  <2>2. /\ s \in X!Names /\ i \in 1..Len(X!Functions(s)) /\ i < Len(X!Functions(s))
        /\ X!Functions(s)[i] \notin {"check", "assert"}
        /\ b # X!None => "assert" \in X!Kinds(s)
    BY <1>1, <1>3, <1>5, <2>1 DEF FrameOK
  <2>3. i = 1 => b = X!None /\ X!Executed(s).allow
    BY <2>2, FunctionsOf
  <2>4. s \notin {"syncOnTrunk", "syncResolve"}
    <3>1. s \in {"syncOnTrunk", "syncResolve"} => X!Functions(s) = X!Executed(s).fns
      BY KnownEffects DEF X!Functions
    <3>2. s = "syncResolve" => Len(X!Functions(s)) = 1
      BY <3>1, KnownEffects
    <3>3. s = "syncOnTrunk" => Len(X!Functions(s)) = 2 /\ X!Functions(s)[1] = "assert"
      BY <3>1, KnownEffects
    <3>4. ASSUME NEW n \in Nat, Len(X!Functions(s)) = n
          PROVE  (n = 1 => FALSE) /\ (n = 2 => i = 1)
      BY <2>2, <3>4
    <3> QED
      BY <2>2, <3>2, <3>3, <3>4
  <2>5. rebasing' = rebasing /\ (branch' # branch => s = "openWorkspace")
    <3>1. /\ branch' # branch \/ rebasing' # rebasing =>
                 s \in {"openWorkspace", "syncOnTrunk", "syncResolve"}
          /\ s = "openWorkspace" => rebasing' = rebasing
      BY <1>1, <2>1, Effects
    <3> QED
      BY <2>4, <3>1
  <2>6. s = "openWorkspace" => b = X!None
    <3>1. s = "openWorkspace" => X!Kinds(s) = {"write"}
      BY KnownEffects DEF X!Kinds
    <3> QED
      BY <2>2, <3>1
  <2>7. v \in View2 /\ i > 1 /\ X!Mode(s, "file") # "none" =>
           /\ rebasing[v] => X!Executed(s).allow
           /\ b \in {X!None, branch[v]} \/ rebasing[v]
    BY <1>1, <1>3, <2>1 DEF ExpInv, ExpOK, Concerned
  <2>8. CASE X!Mode(s, "file") # "none"
    <3>1. v \in View2 => /\ rebasing'[v] => X!Executed(s).allow
                         /\ b \in {X!None, branch'[v]} \/ rebasing'[v]
      BY <2>2, <2>3, <2>5, <2>6, <2>7, <2>8
    <3> QED
      BY <1>1, <1>2, <1>5, <2>1, <3>1, ExpGoOn
  <2>9. CASE X!Mode(s, "file") = "none"
    <3>1. PICK e : e = [X!Top(t) EXCEPT !.pc = "run", !.i = @ + 1]
      OBVIOUS
    <3>2. e \in Frame /\ e.what = s
      BY <1>3, <2>1, <3>1, GoOnOK
    <3>3. X!SetTop(t, e)
      BY <1>5, <3>1 DEF X!GoOn
    <3>4. ExpOK(e)'
      BY <2>9, <3>2 DEF ExpOK, Concerned
    <3> QED
      BY <1>1, <1>2, <3>2, <3>3, <3>4, ExpMove
  <2> QED
    BY <2>8, <2>9
<1> QED
  BY <1>4, <1>5 DEF X!Return

(* Executions that begin are at their first function. *)
LEMMA ExpBegin ==
    ASSUME XInv, ExpInv, NEW t \in Thread, X!Exec(t) \/ X!ExecInside(t)
    PROVE  ExpInv'
<1>1. PICK z : Begun(z)
  BY ExecBegun, InsideBegun
<1>2. X!Executions' = X!Executions \union {z} /\ UNCHANGED <<lock, branch, rebasing>>
  BY <1>1 DEF Begun
<1>3. ExpOK(X!E(z))'
  BY <1>1 DEF Begun, ExpOK, Concerned
<1>4. ASSUME NEW x \in X!Executions
      PROVE  ExpOK(X!E(x))'
  <2>1. Concerned(X!E(x))' => Concerned(X!E(x))
    BY <1>1 DEF Begun, Concerned
  <2>2. /\ ExpOK(X!E(x)) /\ (X!E(x)').what = X!E(x).what
        /\ (X!E(x)').repo = X!E(x).repo /\ (X!E(x)').branch = X!E(x).branch
    BY <1>1 DEF Begun, ExpInv
  <2> QED
    BY <1>2, <2>1, <2>2 DEF ExpOK
<1> QED
  BY <1>2, <1>3, <1>4 DEF ExpInv

LEMMA ExpUnlock ==
    ASSUME XInv, ExpInv, NEW t \in Thread, X!Unlock(t)
    PROVE  ExpInv'
<1>1. UNCHANGED <<branch, rebasing>> /\ stack[t] # <<>>
  BY DEF X!Unlock, X!At
<1>2. CASE UNCHANGED stack
  BY <1>1, <1>2 DEF ExpInv, X!Executions, X!E, ExpOK, Concerned
<1>3. CASE stack' = [stack EXCEPT ![t] = SubSeq(stack[t], 1, Len(stack[t]) - 1)]
  <2>1. X!Executions' = X!Executions \ {X!Me(t)} /\ \A x \in X!Executions' : X!E(x)' = X!E(x)
    BY <1>1, <1>3, Ends DEF XInv, XTypes
  <2>2. \A x \in X!Executions' : ExpOK(X!E(x)) /\ X!E(x)' = X!E(x)
    BY <2>1 DEF ExpInv
  <2> QED
    BY <1>1, <2>2 DEF ExpInv, ExpOK, Concerned
<1> QED
  BY <1>2, <1>3 DEF X!Unlock

LEMMA ExpNext ==
    ASSUME XInv, ExpInv, X!Next
    PROVE  ExpInv'
<1>1. PICK t \in Thread : \/ X!Exec(t) \/ X!Step(t)
                          \/ \E k \in Locks : X!Lock(t, k)
  BY DEF X!Next, Locks
<1>2. ASSUME NEW k \in Locks, X!RLock(t, k) \/ X!Lock(t, k)
      PROVE  ExpInv'
  <2>1. UNCHANGED <<stack, branch, rebasing>>
    BY <1>2 DEF X!RLock, X!Lock
  <2> QED
    BY <2>1 DEF ExpInv, X!Executions, X!E, ExpOK, Concerned
<1>3. ASSUME NEW k \in Locks, X!NoLock(t, k) \/ X!Locked(t, k)
      PROVE  ExpInv'
  <2>1. stack[t] # <<>> /\ X!Top(t).pc = k /\ X!Go(t, X!After(k)) /\ UNCHANGED <<branch, rebasing>>
    BY <1>3 DEF X!NoLock, X!Locked, X!At
  <2>2. X!Top(t).i = 1 /\ X!After(k) \in Places
    BY <2>1, TopOK DEF FrameOK, X!After, Places
  <2> QED
    BY <2>1, <2>2, ExpGo
<1>4. CASE X!Call(t)
  <2>1. stack[t] # <<>> /\ X!Top(t).pc = "run" /\ X!Go(t, "in") /\ UNCHANGED <<branch, rebasing>>
    BY <1>4 DEF X!Call, X!At
  <2> QED
    BY <2>1, ExpGo DEF Places
<1>5. CASE X!Step(t)
  BY <1>2, <1>3, <1>4, <1>5, ExpChecks, ExpReturn, ExpBegin, ExpUnlock DEF X!Step, Locks
<1> QED
  BY <1>1, <1>2, <1>5, ExpBegin

(* At its first function, too, a function that needs files finds what is expected. *)
LEMMA Expected ==
    ASSUME XInv, ExpInv
    PROVE  InExpectedState
<1>1. SUFFICES ASSUME NEW x \in X!Executions, X!E(x).repo \in View2,
                      X!Running(x, X!WritesFiles \union X!ReadsFiles)
               PROVE  /\ rebasing[X!E(x).repo] => X!Executed(X!E(x).what).allow
                      /\ X!E(x).branch \in {X!None, branch[X!E(x).repo]} \/ rebasing[X!E(x).repo]
  BY DEF InExpectedState, X!InExpectedState
<1>2. /\ X!E(x).what \in X!Names /\ X!E(x).i \in 1..Len(X!Functions(X!E(x).what)) /\ X!E(x).i \in Nat
      /\ X!E(x).branch # X!None => "assert" \in X!Kinds(X!E(x).what)
      /\ X!E(x).pc \in {"in", "back"} /\ X!Functions(X!E(x).what)[X!E(x).i] \notin {"check", "assert"}
      /\ X!Functions(X!E(x).what)[X!E(x).i] \in X!WritesFiles \union X!ReadsFiles
  BY <1>1 DEF XInv, FrameOK, Frame, X!Running
<1>3. CASE X!E(x).i = 1
  BY <1>2, <1>3, FunctionsOf
<1>4. CASE X!E(x).i # 1
  <2>1. X!E(x).i > 1
    BY <1>2, <1>4
  <2>2. X!Mode(X!E(x).what, "file") # "none"
    BY <1>2, Modes
  <2> QED
    BY <1>1, <1>2, <2>1, <2>2 DEF ExpInv, ExpOK, Concerned
<1> QED
  BY <1>3, <1>4

(* A function that needs files runs in a view that is not in a rebase,     *)
(* unless that is allowed, and on the branch that was asserted: nobody     *)
(* else can start a rebase or change the branch between the check and the  *)
(* functions (gitFirst and AssertBranchName run under the same locks).     *)
THEOREM Undisturbed ==
    X!Spec => []InExpectedState
<1>1. X!Init => ExpInv
  BY XInit DEF ExpInv
<1>2. ExpInv /\ UNCHANGED X!vars => ExpInv'
  BY DEF X!vars, ExpInv, X!Executions, X!E, ExpOK, Concerned
<1>3. XInv /\ ExpInv /\ [X!Next]_X!vars => ExpInv'
  BY <1>2, ExpNext
<1>4. XInv /\ ExpInv => InExpectedState
  BY Expected
<1> QED
  BY <1>1, <1>3, <1>4, ExecutionsHaveTheirLocks, PTL DEF X!Spec

(* A landing executes in trunk from within its view: nobody else executes within. *)
NestOK(s) ==
    /\ Len(s) <= 2
    /\ s # <<>> => s[1].what \in Offered
    /\ Len(s) = 2 => s[2].what = "getCommit" /\ s[1].pc = "back" /\ s[1].repo \in View2

NestInv == \A t \in Thread : NestOK(stack[t])

LEMMA NestMove ==
    ASSUME XInv, NestInv, NEW t \in Thread, stack[t] # <<>>, NEW e \in Frame, X!SetTop(t, e),
           e.what = X!Top(t).what
    PROVE  NestInv'
<1>1. PICK n, s : n = Len(stack[t]) /\ s = [stack[t] EXCEPT ![n] = e]
  OBVIOUS
<1>2. StackOK /\ n \in Nat /\ n >= 1 /\ DOMAIN stack[t] = 1..n /\ stack[t] \in Seq(Frame) /\ NestOK(stack[t])
  BY <1>1, Depths DEF XInv, XTypes, StackOK, NestInv
<1>3. s \in Seq(Frame) /\ Len(s) = n /\ s # <<>> /\ s[n] = e /\ \A d \in 1..n : d # n => s[d] = stack[t][d]
  BY <1>1, <1>2
<1>4. stack' = [stack EXCEPT ![t] = s]
  BY <1>1 DEF X!SetTop
<1>5. \A u \in Thread : stack'[u] = IF u = t THEN s ELSE stack[u]
  BY <1>2, <1>4 DEF StackOK
<1>6. e.what = stack[t][n].what
  BY <1>1 DEF X!Top
<1>7. NestOK(s)
  <2>1. n <= 2 /\ stack[t] # <<>>
    BY <1>1, <1>2 DEF NestOK
  <2>2. CASE n = 1
    BY <1>2, <1>3, <1>6, <2>1, <2>2 DEF NestOK
  <2>3. CASE n = 2
    <3>1. s[1] = stack[t][1] /\ s[2] = e
      BY <1>3, <2>3
    <3>2. stack[t][2].what = "getCommit" /\ stack[t][1].pc = "back" /\ stack[t][1].repo \in View2
          /\ stack[t][1].what \in Offered
      BY <1>1, <1>2, <2>1, <2>3 DEF NestOK
    <3> QED
      BY <1>3, <1>6, <2>1, <2>3, <3>1, <3>2 DEF NestOK
  <2> QED
    BY <1>2, <2>1, <2>2, <2>3
<1> QED
  BY <1>5, <1>7 DEF NestInv

LEMMA NestGo ==
    ASSUME XInv, NestInv, NEW t \in Thread, stack[t] # <<>>,
           X!GoOn(t) \/ \E place \in Places : X!Go(t, place)
    PROVE  NestInv'
<1>1. X!Top(t) \in Frame
  BY TopOK
<1>2. CASE X!GoOn(t)
  <2>1. PICK e : e = [X!Top(t) EXCEPT !.pc = "run", !.i = @ + 1]
    OBVIOUS
  <2>2. e \in Frame /\ e.what = X!Top(t).what
    BY <1>1, <2>1, GoOnOK
  <2>3. X!SetTop(t, e)
    BY <1>2, <2>1 DEF X!GoOn
  <2> QED
    BY <2>2, <2>3, NestMove
<1>3. ASSUME NEW place \in Places, X!Go(t, place)
      PROVE  NestInv'
  <2>1. PICK e : e = [X!Top(t) EXCEPT !.pc = place]
    OBVIOUS
  <2>2. e \in Frame /\ e.what = X!Top(t).what
    BY <1>1, <2>1, GoOK
  <2>3. X!SetTop(t, e)
    BY <1>3, <2>1 DEF X!Go
  <2> QED
    BY <2>2, <2>3, NestMove
<1> QED
  BY <1>2, <1>3

(* What calls others, unless it is the repair of a view: a landing. *)
LEMMA NestInside ==
    ASSUME XInv, NestInv, "repairView" \notin Offered, NEW t \in Thread, X!ExecInside(t)
    PROVE  NestInv'
<1>1. PICK n, c, e : /\ n = Len(stack[t]) /\ c = X!Calls(X!Top(t).what)
                     /\ e.what = c
                     /\ stack' = [stack EXCEPT ![t] = Append([stack[t] EXCEPT ![n].pc = "back"], e)]
  <2>1. PICK c, r : /\ c = X!Calls(X!Top(t).what)
                    /\ r = IF X!Executed(c).in = "trunk" THEN Trunk2 ELSE X!Top(t).repo
    OBVIOUS
  <2>2. stack' = [stack EXCEPT ![t] =
            Append([stack[t] EXCEPT ![Len(stack[t])].pc = "back"], X!Started(c, r, X!None))]
    BY <2>1 DEF X!ExecInside
  <2>3. X!Started(c, r, X!None).what = c
    BY DEF X!Started
  <2> QED
    BY <2>1, <2>2, <2>3
<1>2. stack[t] # <<>> /\ c # "none"
  BY <1>1 DEF X!ExecInside, X!At
<1>3. /\ StackOK /\ n \in Nat /\ n >= 1 /\ DOMAIN stack[t] = 1..n /\ stack[t] \in Seq(Frame)
      /\ NestOK(stack[t]) /\ X!Top(t) = stack[t][n] /\ X!Top(t).what \in X!Names /\ X!Top(t) \in Frame
      /\ X!Top(t).repo \in IF X!Executed(X!Top(t).what).in = "trunk" THEN {Trunk2} ELSE View2
  BY <1>1, <1>2, Depths, TopOK DEF XInv, XTypes, StackOK, NestInv, X!Top
<1>4. n = 1 /\ X!Top(t).what \in Offered
  <2>1. n # 2
    <3>1. n = 2 => X!Top(t).what = "getCommit"
      BY <1>1, <1>3 DEF NestOK
    <3> QED
      BY <1>1, <1>2, <1>3, <3>1, KnownCalls
  <2>2. n <= 2
    BY <1>1, <1>3 DEF NestOK
  <2>3. n = 1
    BY <1>3, <2>1, <2>2
  <2> QED
    BY <1>2, <1>3, <2>3 DEF NestOK
<1>5. c = "getCommit" /\ X!Top(t).repo \in View2
  <2>1. c \in {"none", "getCommit", "snapshotOnView"} /\ (c = "snapshotOnView" => X!Top(t).what = "repairView")
        /\ (c = "getCommit" => X!Executed(X!Top(t).what).in = "view")
    BY <1>1, <1>3, KnownCalls
  <2>2. X!Top(t).what # "repairView"
    BY <1>4
  <2> QED
    BY <1>2, <1>3, <2>1, <2>2
<1>6. PICK o : o = [X!Top(t) EXCEPT !.pc = "back"]
  OBVIOUS
<1>7. o \in Frame /\ o.pc = "back" /\ o.what = X!Top(t).what /\ o.repo = X!Top(t).repo
  <2>1. "back" \in Places
    BY DEF Places
  <2> QED
    BY <1>3, <1>6, <2>1, GoOK
<1>8. PICK a, s : a = [stack[t] EXCEPT ![n] = o] /\ s = Append(a, e)
  OBVIOUS
<1>9. a \in Seq(Frame) /\ Len(a) = 1 /\ a[1] = o
  <2>1. n = 1 /\ stack[t] \in Seq(Frame) /\ Len(stack[t]) = 1 /\ o \in Frame
    BY <1>1, <1>3, <1>4, <1>7
  <2> QED
    BY <1>8, <2>1
<1>10. Len(s) = 2 /\ s[1] = o /\ s[2] = e /\ s # <<>>
  BY <1>8, <1>9
<1>11. stack' = [stack EXCEPT ![t] = s]
  BY <1>1, <1>3, <1>6, <1>8
<1>12. \A u \in Thread : stack'[u] = IF u = t THEN s ELSE stack[u]
  BY <1>3, <1>11 DEF StackOK
<1>13. NestOK(s)
  BY <1>1, <1>4, <1>5, <1>7, <1>10 DEF NestOK
<1> QED
  BY <1>12, <1>13 DEF NestInv

LEMMA NestExec ==
    ASSUME XInv, NestInv, NEW t \in Thread, X!Exec(t)
    PROVE  NestInv'
<1>1. PICK e : e.what \in Offered /\ stack' = [stack EXCEPT ![t] = <<e>>]
  BY DEF X!Exec, X!Started
<1>2. \A u \in Thread : stack'[u] = IF u = t THEN <<e>> ELSE stack[u]
  BY <1>1 DEF XInv, XTypes, StackOK
<1>3. NestOK(<<e>>)
  BY <1>1 DEF NestOK
<1> QED
  BY <1>2, <1>3 DEF NestInv

LEMMA NestUnlock ==
    ASSUME XInv, NestInv, NEW t \in Thread, X!Unlock(t)
    PROVE  NestInv'
<1>1. CASE UNCHANGED stack
  BY <1>1 DEF NestInv
<1>2. CASE stack' = [stack EXCEPT ![t] = SubSeq(stack[t], 1, Len(stack[t]) - 1)]
  <2>1. PICK n, s : n = Len(stack[t]) /\ s = SubSeq(stack[t], 1, n - 1)
    OBVIOUS
  <2>2. stack[t] # <<>>
    BY DEF X!Unlock, X!At
  <2>3. StackOK /\ n \in Nat /\ n >= 1 /\ n <= 2 /\ stack[t] \in Seq(Frame) /\ NestOK(stack[t])
    BY <2>1, <2>2, Depths DEF XInv, XTypes, StackOK, NestInv, NestOK
  <2>4. s \in Seq(Frame) /\ Len(s) = n - 1 /\ Len(s) <= 1 /\ (s # <<>> => s[1] = stack[t][1])
    BY <2>1, <2>3
  <2>5. \A u \in Thread : stack'[u] = IF u = t THEN s ELSE stack[u]
    BY <1>2, <2>1, <2>3 DEF StackOK
  <2>6. NestOK(s)
    BY <2>2, <2>3, <2>4 DEF NestOK
  <2> QED
    BY <2>5, <2>6 DEF NestInv
<1> QED
  BY <1>1, <1>2 DEF X!Unlock

LEMMA NestNext ==
    ASSUME XInv, NestInv, "repairView" \notin Offered, X!Next
    PROVE  NestInv'
<1>1. PICK t \in Thread : \/ X!Exec(t) \/ X!Step(t)
                          \/ \E k \in Locks : X!Lock(t, k)
  BY DEF X!Next, Locks
<1>2. ASSUME NEW k \in Locks, X!RLock(t, k) \/ X!Lock(t, k)
      PROVE  NestInv'
  BY <1>2 DEF X!RLock, X!Lock, NestInv
<1>3. ASSUME NEW k \in Locks, X!NoLock(t, k) \/ X!Locked(t, k)
      PROVE  NestInv'
  <2>1. stack[t] # <<>> /\ X!Go(t, X!After(k)) /\ X!After(k) \in Places
    BY <1>3 DEF X!NoLock, X!Locked, X!At, X!After, Places
  <2> QED
    BY <2>1, NestGo
<1>4. CASE X!Check(t) \/ X!AssertBranchName(t) \/ X!Call(t) \/ X!Return(t)
  <2>1. stack[t] # <<>> /\ (X!GoOn(t) \/ \E place \in {"in", "unlock"} : X!Go(t, place))
    BY <1>4 DEF X!Check, X!AssertBranchName, X!Call, X!Return, X!At
  <2>2. {"in", "unlock"} \subseteq Places
    BY DEF Places
  <2> QED
    BY <2>1, <2>2, NestGo
<1>5. CASE X!Step(t)
  BY <1>2, <1>3, <1>4, <1>5, NestInside, NestUnlock DEF X!Step, Locks
<1> QED
  BY <1>1, <1>2, <1>5, NestExec

(* A goroutine waits for those of a higher rank: files come before memory, *)
(* views before trunk, and at one lock the writer who has it comes last.   *)
Rank(t) ==
    IF X!Waiting(t) = {} THEN 8
    ELSE (IF X!Top(t).repo = Trunk2 THEN 4 ELSE 0) + (IF X!Top(t).pc = "memory" THEN 2 ELSE 0)
         + (IF X!L(t, X!Top(t).pc).writer = X!Me(t) THEN 1 ELSE 0)

LEMMA Ranked ==
    ASSUME NEW t \in Thread
    PROVE  Rank(t) \in 0..8 /\ (X!Waiting(t) # {} => Rank(t) < 8)
           /\ (X!Waiting(t) # {} /\ X!Top(t).repo # Trunk2 => Rank(t) < 4)
  BY DEF Rank

(* The lock of someone who waits, and who it is that he waits for. *)
LEMMA Awaited ==
    ASSUME XInv, NEW t \in Thread, NEW x \in X!WaitsFor(X!Me(t)), stack[t] # <<>>
    PROVE  /\ X!Top(t).pc \in Locks /\ x \in X!Executions /\ X!E(x).repo = X!Top(t).repo
           /\ X!Top(t).pc = "memory" => X!E(x).pc # "file"
           /\ \/ /\ x = X!L(t, X!Top(t).pc).writer /\ x # X!Me(t) /\ X!L(t, X!Top(t).pc).writer # X!Me(t)
                 /\ X!Mode(X!E(x).what, X!Top(t).pc) = "write"
              \/ x \in X!L(t, X!Top(t).pc).readers /\ X!Mode(X!E(x).what, X!Top(t).pc) = "read"
<1>1. PICK m, e, k, l : m = X!Me(t) /\ e = X!Top(t) /\ k = X!Top(t).pc /\ l = X!L(t, X!Top(t).pc)
  OBVIOUS
<1>2. X!E(m) = e /\ e.repo \in X!Repo /\ e.what = X!Top(t).what /\ m # <<>>
  BY <1>1, TopOK
<1>3. k \in Locks /\ l = lock[e.repo][k]
  BY <1>1, <1>2 DEF X!WaitsFor, Locks, X!L
<1>4. LockOK(e.repo, k)
  BY <1>2, <1>3 DEF XInv
<1>5. /\ X!Mode(e.what, k) \in {"none", "read", "write"}
      /\ X!Mode(e.what, k) = "read" => m \in l.waiting /\ x = l.writer
      /\ X!Mode(e.what, k) = "write" => x \in IF l.writer = m THEN l.readers ELSE X!Users(l) \ l.waiting
      /\ X!Mode(e.what, k) # "none"
  <2>1. X!Mode(e.what, k) \in {"none", "read", "write"}
    BY ModeIs
  <2>2. x \in X!WaitsFor(m) /\ e.pc = k
    BY <1>1
  <2> QED
    BY <1>2, <1>3, <2>1, <2>2 DEF X!WaitsFor, Locks
<1>6. CASE X!Mode(e.what, k) = "read"
  <2>1. x = l.writer /\ x # <<>> /\ Uses(x, e.repo, k, "write")
    BY <1>3, <1>4, <1>5, <1>6 DEF LockOK
  <2>2. x # m
    BY <1>2, <1>6, <2>1 DEF Uses
  <2> QED
    BY <1>1, <1>3, <2>1, <2>2 DEF Uses
<1>7. CASE X!Mode(e.what, k) = "write" /\ x \in l.readers
  <2>1. Uses(x, e.repo, k, "read")
    BY <1>3, <1>4, <1>7 DEF LockOK
  <2> QED
    BY <1>1, <1>3, <1>7, <2>1 DEF Uses
<1>8. CASE X!Mode(e.what, k) = "write" /\ x \notin l.readers
  <2>1. l.writer # m /\ x = l.writer /\ x # <<>>
    BY <1>5, <1>8 DEF X!Users
  <2>2. Uses(x, e.repo, k, "write")
    BY <1>3, <1>4, <2>1 DEF LockOK
  <2> QED
    BY <1>1, <1>3, <2>1, <2>2 DEF Uses
<1> QED
  BY <1>5, <1>6, <1>7, <1>8

LEMMA Upwards ==
    ASSUME XInv, NestInv, NEW t \in Thread, NEW u \in X!Waiting(t)
    PROVE  u \in Thread /\ Rank(u) > Rank(t)
<1>1. stack[t] # <<>> /\ X!Waiting(t) # {}
  BY DEF X!Waiting
<1>2. PICK x \in X!WaitsFor(X!Me(t)) : u = x[1]
  BY <1>1 DEF X!Waiting
<1>3. PICK k, r : k = X!Top(t).pc /\ r = X!Top(t).repo
  OBVIOUS
<1>4. /\ k \in Locks /\ x \in X!Executions /\ X!E(x).repo = r
      /\ k = "memory" => X!E(x).pc # "file"
      /\ \/ /\ x = X!L(t, k).writer /\ x # X!Me(t) /\ X!L(t, k).writer # X!Me(t)
            /\ X!Mode(X!E(x).what, k) = "write"
         \/ x \in X!L(t, k).readers /\ X!Mode(X!E(x).what, k) = "read"
  BY <1>1, <1>2, <1>3, Awaited
<1>5. StackOK
  BY DEF XInv, XTypes
<1>6. PICK w \in Thread : \E d \in 1..Len(stack[w]) : x = <<w, d>>
  BY <1>4, <1>5, Frames
<1>7. PICK d \in 1..Len(stack[w]) : x = <<w, d>>
  BY <1>6
<1>8. u = w
  BY <1>2, <1>7
<1>9. /\ Len(stack[u]) \in Nat /\ stack[u] # <<>> /\ Len(stack[u]) <= 2 /\ d \in 1..Len(stack[u])
      /\ X!E(x) = stack[u][d] /\ u \in Thread
  <2>1. NestOK(stack[u])
    BY <1>6, <1>8 DEF NestInv
  <2> QED
    BY <1>5, <1>6, <1>7, <1>8, <2>1, Depths DEF NestOK
<1>10. CASE X!Waiting(u) = {}
  BY <1>1, <1>9, <1>10, Ranked DEF Rank
<1>11. CASE X!Waiting(u) # {} /\ d < Len(stack[u])
  <2>1. d = 1 /\ Len(stack[u]) = 2
    <3>1. \A n \in Nat : \A c \in 1..n : n <= 2 /\ c < n => c = 1 /\ n = 2
      OBVIOUS
    <3> QED
      BY <1>9, <1>11, <3>1
  <2>2. stack[u][2].what = "getCommit" /\ stack[u][1].repo \in View2
    BY <1>9, <2>1 DEF NestInv, NestOK
  <2>3. X!Top(u).what = "getCommit" /\ r \in View2
    BY <1>4, <1>9, <2>1, <2>2 DEF X!Top
  <2>4. X!Top(u).repo = Trunk2
    BY <1>9, <2>3, TopOK, KnownCalls
  <2>5. Rank(u) >= 4
    BY <1>11, <2>4 DEF Rank
  <2>6. r # Trunk2
    BY <2>3, ExecutorAssumption
  <2> QED
    BY <1>1, <1>3, <1>9, <2>5, <2>6, Ranked
<1>12. CASE X!Waiting(u) # {} /\ d = Len(stack[u])
  <2>1. x = X!Me(u) /\ X!E(x) = X!Top(u)
    BY <1>7, <1>8, <1>9, <1>12 DEF X!Me, X!Top
  <2>2. X!Top(u).pc \in Locks
    <3>1. PICK y : y \in X!WaitsFor(X!Me(u))
      BY <1>9, <1>12 DEF X!Waiting
    <3> QED
      BY <1>9, <3>1, Awaited
  <2>3. X!Top(u).repo = r /\ (k = "memory" => X!Top(u).pc = "memory")
    BY <1>4, <2>1, <2>2 DEF Locks
  <2>4. PICK a \in Nat, i \in 0..1, j \in 0..1 :
           /\ Rank(t) = a + (IF k = "memory" THEN 2 ELSE 0) + i
           /\ Rank(u) = a + (IF X!Top(u).pc = "memory" THEN 2 ELSE 0) + j
           /\ (i = 1) <=> X!L(t, k).writer = X!Me(t)
           /\ (j = 1) <=> X!L(u, X!Top(u).pc).writer = X!Me(u)
    <3>1. PICK a, i, j : /\ a = IF r = Trunk2 THEN 4 ELSE 0
                         /\ i = IF X!L(t, k).writer = X!Me(t) THEN 1 ELSE 0
                         /\ j = IF X!L(u, X!Top(u).pc).writer = X!Me(u) THEN 1 ELSE 0
      OBVIOUS
    <3>2. a \in Nat /\ i \in 0..1 /\ j \in 0..1
      BY <3>1
    <3>3. Rank(t) = a + (IF k = "memory" THEN 2 ELSE 0) + i
      BY <1>1, <1>3, <3>1 DEF Rank
    <3>4. Rank(u) = a + (IF X!Top(u).pc = "memory" THEN 2 ELSE 0) + j
      BY <1>12, <2>3, <3>1 DEF Rank
    <3>5. /\ (i = 1) <=> X!L(t, k).writer = X!Me(t)
          /\ (j = 1) <=> X!L(u, X!Top(u).pc).writer = X!Me(u)
      BY <3>1
    <3> QED
      BY <3>2, <3>3, <3>4, <3>5
  <2>5. CASE X!Top(u).pc # k
    <3>1. k = "file" /\ X!Top(u).pc = "memory"
      BY <1>4, <2>2, <2>3, <2>5 DEF Locks
    <3>2. Rank(t) = a + i /\ Rank(u) = a + 2 + j
      BY <2>4, <3>1
    <3> QED
      BY <1>9, <2>4, <3>2
  <2>6. CASE X!Top(u).pc = k
    <3>1. X!L(u, k) = X!L(t, k)
      BY <1>3, <2>3 DEF X!L
    <3>2. CASE x = X!L(t, k).writer /\ X!L(t, k).writer # X!Me(t)
      <4>1. X!L(u, X!Top(u).pc).writer = X!Me(u)
        BY <2>1, <2>6, <3>1, <3>2
      <4>2. i = 0 /\ j = 1
        BY <2>4, <3>2, <4>1
      <4>3. Rank(u) = Rank(t) + 1 /\ Rank(t) \in Nat
        BY <2>4, <2>6, <4>2
      <4> QED
        BY <1>9, <4>3
    <3>3. CASE x \in X!L(t, k).readers /\ X!Mode(X!E(x).what, k) = "read"
      <4>1. x \notin X!L(t, k).waiting
        <5>1. r \in X!Repo /\ X!L(t, k) = lock[r][k]
          BY <1>1, <1>3, TopOK DEF X!L
        <5>2. LockOK(r, k)
          BY <1>4, <5>1 DEF XInv
        <5> QED
          BY <3>3, <5>1, <5>2 DEF LockOK
      <4>2. X!WaitsFor(X!Me(u)) = {}
        <5>1. lock[X!Top(u).repo][X!Top(u).pc] = X!L(t, k)
          BY <1>3, <2>3, <2>6 DEF X!L
        <5> QED
          BY <2>1, <2>6, <3>3, <4>1, <5>1 DEF X!WaitsFor
      <4> QED
        BY <1>9, <1>12, <4>2 DEF X!Waiting
    <3> QED
      BY <1>4, <3>2, <3>3
  <2> QED
    BY <2>5, <2>6
<1> QED
  BY <1>9, <1>10, <1>11, <1>12

LEMMA NotInACircle ==
    ASSUME XInv, NestInv, NEW ts \in SUBSET Thread, ts # {}
    PROVE  \E t \in ts : X!Waiting(t) \intersect ts = {}
<1>1. SUFFICES ASSUME \A t \in ts : \E u \in ts : u \in X!Waiting(t)
               PROVE  FALSE
  OBVIOUS
<1>2. \A t \in ts : \E u \in ts : Rank(u) > Rank(t)
  BY <1>1, Upwards
<1>3. \A t \in ts : Rank(t) \in 0..8
  BY Ranked
<1>4. ASSUME NEW n \in Nat, \A t \in ts : Rank(t) <= n
      PROVE  \A t \in ts : Rank(t) <= n - 1
  <2>1. ASSUME NEW t \in ts
        PROVE  Rank(t) <= n - 1
    <3>1. PICK u \in ts : Rank(u) > Rank(t)
      BY <1>2
    <3>2. Rank(u) <= n /\ Rank(u) \in 0..8 /\ Rank(t) \in 0..8
      BY <1>3, <1>4
    <3> QED
      BY <3>1, <3>2
  <2> QED
    BY <2>1
<1> DEFINE Below(n) == \A t \in ts : Rank(t) <= n
<1>5. \A n \in Nat : \A m : m = n - 1 /\ Below(n) => Below(m)
  BY <1>4
<1>6. Below(8)
  BY <1>3
<1> HIDE DEF Below
<1>7. Below(7)
  BY <1>5, <1>6
<1>8. Below(6)
  BY <1>5, <1>7
<1>9. Below(5)
  BY <1>5, <1>8
<1>10. Below(4)
  BY <1>5, <1>9
<1>11. Below(3)
  BY <1>5, <1>10
<1>12. Below(2)
  BY <1>5, <1>11
<1>13. Below(1)
  BY <1>5, <1>12
<1>14. Below(0)
  BY <1>5, <1>13
<1>15. Below(0 - 1)
  BY <1>5, <1>14
<1> QED
  BY <1>3, <1>15 DEF Below

(* Unless views are repaired, no goroutines wait for each other in a       *)
(* circle, and nothing is left locked by an execution that has ended: the  *)
(* files come before the memory, and trunk is taken within a view only.    *)
THEOREM EverybodyGetsOn ==
    ASSUME "repairView" \notin Offered
    PROVE  X!Spec => []NoCircularWait
<1>1. X!Init => NestInv
  BY DEF X!Init, NestInv, NestOK
<1>2. NestInv /\ UNCHANGED X!vars => NestInv'
  BY DEF X!vars, NestInv
<1>3. XInv /\ NestInv /\ [X!Next]_X!vars => NestInv'
  BY <1>2, NestNext
<1>4. XInv /\ NestInv => NoCircularWait
  <2>1. ASSUME XInv, NEW r \in X!Repo, NEW k \in Locks
        PROVE  X!Users(lock[r][k]) \subseteq X!Executions
    <3>1. LockOK(r, k)
      BY <2>1 DEF XInv
    <3> QED
      BY <3>1 DEF LockOK, X!Users, Uses
  <2>2. ASSUME XInv, NestInv, NEW ts \in (SUBSET Thread) \ {{}}
        PROVE  \E t \in ts : X!Waiting(t) \intersect ts = {}
    <3>1. ts \in SUBSET Thread /\ ts # {}
      BY <2>2
    <3> QED
      BY <2>2, <3>1, NotInACircle
  <2> QED
    BY <2>1, <2>2 DEF NoCircularWait, X!NoCircularWait, Locks
<1> QED
  BY <1>1, <1>3, <1>4, ExecutionsHaveTheirLocks, PTL DEF X!Spec
=============================================================================
