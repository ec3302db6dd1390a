----------------------------- MODULE TempViews -----------------------------
(***************************************************************************)
(* The pool of temporary views of a codebase (executor.ExecTemporaryView)  *)
(* and what runs in them: everything that needs a checkout of a workspace  *)
(* that is not open anywhere.                                              *)
(*                                                                         *)
(* The pool is kept in directory names only.  A request lists the free     *)
(* views, and either makes up the name of a new one or renames one of them *)
(* to take it; it prepares the view, runs its job there and renames the    *)
(* view back.  Requests of several servers share the directory.            *)
(***************************************************************************)
EXTENDS Naturals, Sequences, FiniteSets

CONSTANTS Process,     \* goroutines that execute jobs, on any server
          View,        \* names of temporary views (uuids)
          Workspace,   \* branches that jobs check out
          Trunk,       \* the branch "sturdytrunk"
          none,        \* no view
          MinPool,     \* minTmpBufferSize
          MaxJobs,     \* bound: jobs started
          MaxForeign,  \* bound: snapshots taken in other views
          MaxFailures  \* bound: servers that die, renames that fail

ASSUME TempViewsAssumption ==
    /\ none \notin View /\ Trunk \notin Workspace \union {"other"}
    /\ IsFiniteSet(Process) /\ IsFiniteSet(View) /\ MinPool \in Nat \ {0}
    /\ {MaxJobs, MaxForeign, MaxFailures} \subseteq Nat

VARIABLES name,     \* of a view's directory: absent, free (tmp-), using (using-tmp-)
          repo,     \* the repository in it
          snaps,    \* snapshot branches in trunk, in the order of their pushes
          pc, job,  \* where a process is, and its job
          jobs,     \* number of jobs started
          lost      \* views that nobody will give back

vars == <<name, repo, snaps, pc, job, jobs, lost>>

(* An edit is named for the job that makes it; 0 is the users' own edits.  *)
Edits == Nat

Kinds == {"copy", "amend", "revert", "archive"}

(* What is checked out, the snapshots that origin/ names, and the          *)
(* uncommitted edits.  "other" is a branch of no workspace.                *)
RepoType == [head : Workspace \union {Trunk, "other"}, known : SUBSET Nat,
             work : SUBSET Edits]

SnapType == [ws : Workspace, work : SUBSET Edits]

(* id names the job's edits; of is the snapshot it is about, if any.       *)
JobType == [id : Nat, kind : Kinds \union {none}, ws : Workspace \union {none},
            of : Nat, view : View \union {none}]

PCs == {"idle", "list", "rename", "prepare", "checkout", "work", "save",
        "leave", "return"}

NoJob == [id |-> 0, kind |-> none, ws |-> none, of |-> 0, view |-> none]

NewRepo == [head |-> Trunk, known |-> DOMAIN snaps, work |-> {}]

Init ==
    /\ name = [v \in View |-> "absent"]
    /\ snaps = <<>>
    /\ repo = [v \in View |-> NewRepo]
    /\ pc = [p \in Process |-> "idle"]
    /\ job = [p \in Process |-> NoJob]
    /\ jobs = 0
    /\ lost = {}

Free == {v \in View : name[v] = "free"}

MyRepo(p) == repo[job[p].view]

Goto(p, at) == pc' = [pc EXCEPT ![p] = at]

End(p) == Goto(p, "idle") /\ job' = [job EXCEPT ![p] = NoJob]

(* A step of p inside its view.                                            *)
InView(p, r, at) ==
    /\ repo' = [repo EXCEPT ![job[p].view] = r]
    /\ Goto(p, at)
    /\ UNCHANGED <<name, job, jobs, lost>>

-----------------------------------------------------------------------------
(* The jobs: copy a snapshot's edits onto its workspace's branch (Copy);   *)
(* change the edits of a workspace that is open nowhere, or land them      *)
(* (RemovePatches, suggestions, LandChange); start a workspace that reverts*)
(* a change; pack the files of a commit.                                   *)
Start(p, k) ==
    /\ pc[p] = "idle" /\ jobs < MaxJobs
    /\ \E w \in Workspace, i \in 0..Len(snaps) :
          /\ k \in {"copy", "amend"} => i # 0 /\ w = snaps[i].ws
          /\ k \in {"revert", "archive"} => i = 0
          /\ job' = [job EXCEPT ![p] = [id |-> jobs + 1, kind |-> k, ws |-> w,
                                        of |-> i, view |-> none]]
    /\ Goto(p, "list")
    /\ jobs' = jobs + 1
    /\ UNCHANGED <<name, repo, snaps, lost>>

(* The list is complete when it is read and may be old when it is used.    *)
Unclaimed(v) == name[v] = "absent" /\ \A p \in Process : job[p].view # v

NewName_AtMinimum(p) ==
    /\ pc[p] = "list" /\ Cardinality(Free) <= MinPool
    /\ \E v \in View : Unclaimed(v) /\ job' = [job EXCEPT ![p].view = v]
    /\ Goto(p, "prepare")
    /\ UNCHANGED <<name, repo, snaps, jobs, lost>>

NewName(p) ==
    /\ pc[p] = "list" /\ Cardinality(Free) < MinPool
    /\ \E v \in View : Unclaimed(v) /\ job' = [job EXCEPT ![p].view = v]
    /\ Goto(p, "prepare")
    /\ UNCHANGED <<name, repo, snaps, jobs, lost>>

Pick(p) ==
    /\ pc[p] = "list" /\ Cardinality(Free) >= MinPool
    /\ \E v \in Free : job' = [job EXCEPT ![p].view = v]
    /\ Goto(p, "rename")
    /\ UNCHANGED <<name, repo, snaps, jobs, lost>>

MarkUsing_AnyName(p) ==
    /\ pc[p] = "rename" /\ name[job[p].view] # "absent"
    /\ name' = [name EXCEPT ![job[p].view] = "using"]
    /\ Goto(p, "prepare")
    /\ UNCHANGED <<repo, snaps, job, jobs, lost>>

MarkUsing(p) ==
    /\ pc[p] = "rename" /\ name[job[p].view] = "free"
    /\ name' = [name EXCEPT ![job[p].view] = "using"]
    /\ Goto(p, "prepare")
    /\ UNCHANGED <<repo, snaps, job, jobs, lost>>

(* Another process has taken it first: the job fails.                      *)
LoseRename(p) ==
    /\ pc[p] = "rename" /\ name[job[p].view] # "free"
    /\ End(p)
    /\ UNCHANGED <<name, repo, snaps, jobs, lost>>

(* A new view is cloned with every branch of trunk.                        *)
Clone(p) ==
    /\ pc[p] = "prepare" /\ name[job[p].view] = "absent"
    /\ name' = [name EXCEPT ![job[p].view] = "using"]
    /\ repo' = [repo EXCEPT ![job[p].view] = NewRepo]
    /\ Goto(p, "checkout")
    /\ UNCHANGED <<snaps, job, jobs, lost>>

Prepared_NoCheckout(r) == [r EXCEPT !.head = Trunk]

(* An old one fetches the head branch of trunk alone, and checks that out  *)
(* by force unless it is there already.                                    *)
Prepared(r) == IF r.head = Trunk THEN r
               ELSE [r EXCEPT !.head = Trunk, !.work = {}]

Reuse(p) ==
    /\ pc[p] = "prepare" /\ name[job[p].view] = "using"
    /\ InView(p, Prepared(MyRepo(p)), "checkout")
    /\ UNCHANGED snaps

(* CheckoutBranch: fetches the branch, does nothing if it is there already.*)
CheckedOut(r, b) == IF r.head = b THEN r ELSE [r EXCEPT !.head = b, !.work = {}]

(* CheckoutSnapshot: the snapshot's files on the branch of its workspace.  *)
(* It fetches nothing.                                                     *)
Restored(r, i) == [r EXCEPT !.head = snaps[i].ws, !.work = snaps[i].work]

At(p, at, kind) == pc[p] = at /\ job[p].kind = kind

CheckoutWorkspace(p) ==
    /\ At(p, "checkout", "copy")
    /\ InView(p, CheckedOut(MyRepo(p), job[p].ws), "work")
    /\ UNCHANGED snaps

CheckoutSnapshot(p) ==
    /\ At(p, "checkout", "amend") /\ job[p].of \in MyRepo(p).known
    /\ InView(p, Restored(MyRepo(p), job[p].of), "work")
    /\ UNCHANGED snaps

UnknownSnapshot(p) ==
    /\ At(p, "checkout", "amend") /\ job[p].of \notin MyRepo(p).known
    /\ Goto(p, "return")
    /\ UNCHANGED <<name, repo, snaps, job, jobs, lost>>

(* git checkout -f leaves the files alone that the commit does not have.   *)
CheckoutReverted(p) ==
    /\ At(p, "checkout", "revert")
    /\ InView(p, [MyRepo(p) EXCEPT !.head = "other"], "work")
    /\ UNCHANGED snaps

CheckoutArchived(p) ==
    /\ At(p, "checkout", "archive")
    /\ InView(p, [MyRepo(p) EXCEPT !.head = "other", !.work = {}], "leave")
    /\ UNCHANGED snaps

(* What the edits in the view can be after the job's patches.              *)
Patched(j, work) ==
    CASE j.kind = "copy"   -> {work \union s : s \in SUBSET snaps[j.of].work}
      [] j.kind = "amend"  -> {work \union {j.id}} \union SUBSET work
      [] j.kind = "revert" -> {work \union {j.id}}

Work(p) ==
    /\ pc[p] = "work"
    /\ \E work \in Patched(job[p], MyRepo(p).work) :
          InView(p, [MyRepo(p) EXCEPT !.work = work], "save")
    /\ UNCHANGED snaps

(* SnapshotOnViewRepo pushes the branch of the snapshot to trunk; the push *)
(* may also set origin/snapshot here.  Its files stay.                     *)
Save(p) ==
    /\ pc[p] = "save"
    /\ LET r == MyRepo(p) IN
       /\ snaps' = Append(snaps, [ws |-> job[p].ws, work |-> r.work])
       /\ \E known \in {r.known, r.known \union {Len(snaps')}} :
             InView(p, [r EXCEPT !.known = known],
                    IF job[p].kind = "revert" THEN "leave" ELSE "return")

(* What is scheduled after the snapshot of a revert, and after the upload. *)
LeaveReverted(p) ==
    /\ At(p, "leave", "revert")
    /\ InView(p, CheckedOut(MyRepo(p), job[p].ws), "return")
    /\ UNCHANGED snaps

LeaveArchived(p) ==
    /\ At(p, "leave", "archive")
    /\ InView(p, [MyRepo(p) EXCEPT !.head = Trunk, !.work = {}], "return")
    /\ UNCHANGED snaps

(* The deferred temporaryViewMarkNotUsing, which warns if nothing is there.*)
Return(p) ==
    /\ pc[p] = "return"
    /\ name' = [name EXCEPT ![job[p].view] = IF @ = "using" THEN "free" ELSE @]
    /\ End(p)
    /\ UNCHANGED <<repo, snaps, jobs, lost>>

JobStep(p) ==
    \/ NewName(p) \/ Pick(p) \/ MarkUsing(p) \/ LoseRename(p) \/ Clone(p)
    \/ Reuse(p) \/ CheckoutWorkspace(p) \/ CheckoutSnapshot(p)
    \/ UnknownSnapshot(p) \/ CheckoutReverted(p) \/ CheckoutArchived(p)
    \/ Work(p) \/ Save(p) \/ LeaveReverted(p) \/ LeaveArchived(p) \/ Return(p)

(* A function fails or panics: the rest is skipped, the view given back.   *)
Fail(p) ==
    /\ pc[p] \in {"prepare", "checkout", "work", "save", "leave"}
    /\ Goto(p, "return")
    /\ UNCHANGED <<name, repo, snaps, job, jobs, lost>>

(* The positions at which a process has a view, or its name, to itself.    *)
Holds(p) == pc[p] \in {"prepare", "checkout", "work", "save", "leave", "return"}

(* The server dies, or cannot rename the view back.                        *)
Die(p) ==
    /\ pc[p] # "idle" /\ Cardinality(lost) < MaxFailures
    /\ lost' = lost \union
                   {v \in View : Holds(p) /\ v = job[p].view /\ name[v] = "using"}
    /\ End(p)
    /\ UNCHANGED <<name, repo, snaps, jobs>>

(* A snapshot of a view that is not temporary.                             *)
TakenElsewhere ==
    /\ Len(snaps) < MaxForeign
    /\ \E w \in Workspace : snaps' = Append(snaps, [ws |-> w, work |-> {0}])
    /\ UNCHANGED <<name, repo, pc, job, jobs, lost>>

Next ==
    \/ \E p \in Process :
          \/ \E k \in Kinds : Start(p, k)
          \/ JobStep(p) \/ Fail(p) \/ Die(p)
    \/ TakenElsewhere

Spec == Init /\ [][Next]_vars

-----------------------------------------------------------------------------
(* Properties.                                                             *)

TypeOK ==
    /\ name \in [View -> {"absent", "free", "using"}]
    /\ repo \in [View -> RepoType]
    /\ snaps \in Seq(SnapType)
    /\ pc \in [Process -> PCs]
    /\ job \in [Process -> JobType]
    /\ jobs \in Nat
    /\ lost \subseteq View

OneJobPerView ==
    \A p, q \in Process :
        p # q /\ Holds(p) /\ Holds(q) => job[p].view # job[q].view

UsedHasUser ==
    \A v \in View :
        name[v] = "using" => v \in lost \/ \E p \in Process :
                                              Holds(p) /\ job[p].view = v

(* No two jobs ever work in one temporary view, although they choose it    *)
(* from lists that are out of date by then, and whatever fails; and a view *)
(* that is marked as in use has a job, which will give it back.  Only a    *)
(* server that dies leaves one marked for ever.                            *)
UsedByItsJob == OneJobPerView /\ UsedHasUser

(* The pool never grows beyond its minimum and what runs at once: a burst  *)
(* of jobs does not fill the disk (a lost view does).                      *)
PoolBounded ==
    Cardinality({v \in View : name[v] # "absent"} \ lost)
        <= MinPool - 1 + Cardinality(Process)

(* A job finds in its view the edits it asked for and no other's, however  *)
(* the last job in that view has ended: what it snapshots, or lands, is    *)
(* its workspace's.                                                        *)
FindsOwnEdits ==
    \A p \in Process :
        pc[p] = "work" =>
            MyRepo(p).work = IF job[p].kind = "amend" THEN snaps[job[p].of].work
                             ELSE {}

=============================================================================
