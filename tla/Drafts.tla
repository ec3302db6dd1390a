------------------------------ MODULE Drafts ------------------------------
(***************************************************************************)
(* The files of a workspace (its draft) live on the disk of the view that  *)
(* has the workspace open, and in a snapshot when no view has.  This module*)
(* models who moves them: opening a workspace on a view (views/service),   *)
(* snapshots (snapshots/service) taken by requests and by the queue worker,*)
(* archiving and going back to a snapshot (workspaces/service), and the    *)
(* sync of user edits by mutagen with the request it posts (mutagen).      *)
(*                                                                         *)
(* A request is a goroutine with copies of the rows it has read; between   *)
(* two of its database or repository accesses others may run.  What runs   *)
(* on the repository of a view under its lock (see FileLock) is one step.  *)
(*                                                                         *)
(* Abstractions: the files of a view are the set of edits on top of trunk, *)
(* one trunk version; a snapshot's id is its index.                        *)
(***************************************************************************)
EXTENDS Naturals, Sequences, FiniteSets

CONSTANTS Workspace, View, Edit,
          Request,      \* the API server's concurrent requests
          Worker,       \* the goroutine of the snapshot queue
          none,         \* a NULL column, an unset pointer
          MaxRequests,  \* bound: requests that are ever started
          MaxFailures   \* bound: requests that end by an error or a crash

ASSUME WorkerAssumption == Worker \notin Request
ASSUME BoundAssumption == MaxRequests \in Nat /\ MaxFailures \in Nat
ASSUME NoneAssumption == none \notin Workspace \union View
ASSUME SyncAssumption == {"quiet", "changed"} \intersect Workspace = {}

VARIABLES
    row,      \* workspaces: view_id, latest_snapshot_id, archived_at, ...
    viewWs,   \* views.workspace_id
    disk,     \* each view's checked out branch (a workspace) and its files
    snaps,    \* the rows of snapshots, in the order of their creation
    sync,     \* "quiet"; "changed": files synced, not yet reported; or the
              \* workspace_id that the report's handler has read
    queue,    \* the snapshot queue
    pc, loc,  \* position of a goroutine, its copies of rows
    snap,     \* the call of Snapshot it is in
    since,    \* history: edits on the target view since Lookup
    started, failed

Actor == Request \union {Worker}
vars == <<row, viewWs, disk, snaps, sync, queue, pc, loc, snap, since,
          started, failed>>

NoId == 0
Absent == [branch |-> none, work |-> {}]
NewRow == [exists |-> TRUE, view |-> none, latest |-> NoId,
           archived |-> FALSE, unarchived |-> FALSE]
NoLoc == [w |-> none, v |-> none, view |-> none, latest |-> NoId, cur |-> none]
NoSnap == [ws |-> none, view |-> none, mark |-> FALSE, ret |-> "idle",
           rowView |-> none, before |-> NoId, work |-> {}]

PC == {"idle", "lookup", "detach", "checkout", "link", "linkView", "archive",
       "replace", "restore", "setLatest", "snapRead", "snapExec", "snapSave"}

InSnapshot(a) == pc[a] \in {"snapRead", "snapExec", "snapSave"}

RowType == [exists : BOOLEAN, view : View \union {none}, latest : Nat,
            archived : BOOLEAN, unarchived : BOOLEAN]
LocType == [w : Workspace \union {none}, v : View \union {none},
            view : View \union {none}, latest : Nat,
            cur : Workspace \union {none}]
SnapType == [ws : Workspace \union {none}, view : View \union {none},
             mark : BOOLEAN, ret : {"idle", "detach", "checkout"},
             rowView : View \union {none}, before : Nat, work : SUBSET Edit]

DiskType == [branch : Workspace \union {none}, work : SUBSET Edit]

StoreOK ==
    /\ row \in [Workspace -> RowType]
    /\ viewWs \in [View -> Workspace \union {none}]
    /\ disk \in [View -> DiskType]
    /\ snaps \in Seq([ws : Workspace, work : SUBSET Edit])
    /\ sync \in [View -> {"quiet", "changed"} \union Workspace]
    /\ queue \in Seq([view : View, ws : Workspace])
    /\ started \in 0..MaxRequests
    /\ failed \in 0..MaxFailures

GoroutinesOK ==
    /\ pc \in [Actor -> PC]
    /\ loc \in [Actor -> LocType]
    /\ snap \in [Actor -> SnapType]
    /\ \A a \in Actor : InSnapshot(a) =>
          snap[a].ws \in Workspace /\ snap[a].view \in View
    /\ since \in [Actor -> SUBSET Edit]

TypeOK == StoreOK /\ GoroutinesOK

(* At first no view is connected; some workspaces have been created.       *)
Init ==
    /\ \E W \in SUBSET Workspace :
          row = [w \in Workspace |-> [NewRow EXCEPT !.exists = w \in W]]
    /\ viewWs = [v \in View |-> none]
    /\ disk = [v \in View |-> Absent]
    /\ snaps = <<>>
    /\ sync = [v \in View |-> "quiet"]
    /\ queue = <<>>
    /\ pc = [a \in Actor |-> "idle"]
    /\ loc = [a \in Actor |-> NoLoc]
    /\ snap = [a \in Actor |-> NoSnap]
    /\ since = [a \in Actor |-> {}]
    /\ started = 0
    /\ failed = 0

Exists(w)   == row[w].exists
Mounted(v)  == viewWs[v] # none
OpenOn(v)   == {w \in Workspace : row[w].view = v}
Goto(a, to) == pc' = [pc EXCEPT ![a] = to]

(* What the snapshots hold, what all edits made are.                       *)
Saved == UNION {snaps[i].work : i \in DOMAIN snaps}

(* The request or the message is done: its local variables are gone.       *)
Finish(a) ==
    /\ Goto(a, "idle")
    /\ loc' = [loc EXCEPT ![a] = NoLoc]
    /\ snap' = [snap EXCEPT ![a] = NoSnap]
    /\ since' = [since EXCEPT ![a] = {}]

Begin(a, l, at) ==
    /\ pc[a] = "idle" /\ a \in Request
    /\ started < MaxRequests
    /\ started' = started + 1
    /\ loc' = [loc EXCEPT ![a] = l]
    /\ Goto(a, at)

-----------------------------------------------------------------------------
(* Snapshot(ctx, codebase, ws, WithOnView(view), ...): snapshots/service.  *)

Call(a, ws, view, mark, ret) ==
    /\ snap' = [snap EXCEPT ![a] =
                   [ws |-> ws, view |-> view, mark |-> mark, ret |-> ret,
                    rowView |-> none, before |-> NoId, work |-> {}]]
    /\ Goto(a, "snapRead")

IsNewestOf(w, i) ==
    /\ i \in DOMAIN snaps /\ snaps[i].ws = w
    /\ \A j \in DOMAIN snaps : snaps[j].ws = w => j <= i

(* The snapshot to compare with: the latest, or else the newest.           *)
IsPrevious(w, i) ==
    \/ row[w].latest # NoId /\ i = row[w].latest
    \/ row[w].latest = NoId /\ IsNewestOf(w, i)
    \/ /\ row[w].latest = NoId /\ i = NoId
       /\ \A j \in DOMAIN snaps : snaps[j].ws # w

(* Mutant: the throttle of sync snapshots applies.                         *)
SnapRead_Throttled(a) ==
    LET r == row[snap[a].ws]
    IN  /\ pc[a] = "snapRead"
        /\ IF r.latest # NoId /\ ~snap[a].mark
           THEN Finish(a)
           ELSE /\ snap' = [snap EXCEPT ![a].rowView = r.view,
                                        ![a].before = r.latest]
                /\ Goto(a, "snapExec")
                /\ UNCHANGED <<loc, since>>
        /\ UNCHANGED <<row, viewWs, disk, snaps, sync, queue, started, failed>>

(* Read the workspace and its previous snapshot.  The throttle that follows*)
(* never applies: its isSuggesting is always true.                         *)
SnapRead(a) ==
    /\ pc[a] = "snapRead"
    /\ \E i \in 0..Len(snaps) :
          /\ IsPrevious(snap[a].ws, i)
          /\ snap' = [snap EXCEPT ![a].rowView = row[snap[a].ws].view,
                                  ![a].before = i]
    /\ Goto(a, "snapExec")
    /\ UNCHANGED <<row, viewWs, disk, snaps, sync, queue, loc, since, started,
                   failed>>

(* Commit whatever the view holds, under the lock of the view.  The branch *)
(* that the view has checked out is not asserted.                          *)
SnapExec(a) ==
    /\ pc[a] = "snapExec"
    /\ snap' = [snap EXCEPT ![a].work = disk[snap[a].view].work]
    /\ Goto(a, "snapSave")
    /\ UNCHANGED <<row, viewWs, disk, snaps, sync, queue, loc, since, started,
                   failed>>

(* Mutant: any previous snapshot will do.                                  *)
SameAsBefore_Any(a) == snap[a].before # NoId

SameAsBefore(a) ==
    snap[a].before # NoId /\ snaps[snap[a].before].work = snap[a].work

Return(a) ==
    IF snap[a].ret = "idle" THEN Finish(a)
    ELSE /\ Goto(a, snap[a].ret)
         /\ snap' = [snap EXCEPT ![a] = NoSnap]
         /\ UNCHANGED <<loc, since>>

CreateSnapshot(a) ==
    snaps' = Append(snaps, [ws |-> snap[a].ws, work |-> snap[a].work])

(* Nothing new: return the previous snapshot, write no row.                *)
SnapSame(a) ==
    /\ pc[a] = "snapSave" /\ SameAsBefore(a)
    /\ Return(a)
    /\ UNCHANGED <<row, viewWs, disk, snaps, sync, queue, started, failed>>

IsAuthoritative(a) == snap[a].rowView = snap[a].view

(* Create the row; make it the latest of the workspace if the view was the *)
(* workspace's own at SnapRead or the caller asks for it.                  *)
SnapSave(a) ==
    /\ pc[a] = "snapSave" /\ ~SameAsBefore(a)
    /\ CreateSnapshot(a)
    /\ row' = IF IsAuthoritative(a) \/ snap[a].mark
              THEN [row EXCEPT ![snap[a].ws].latest = Len(snaps) + 1]
              ELSE row
    /\ Return(a)
    /\ UNCHANGED <<viewWs, disk, sync, queue, started, failed>>

SnapStep(a) == SnapRead(a) \/ SnapExec(a) \/ SnapSame(a) \/ SnapSave(a)

-----------------------------------------------------------------------------
(* Opening a workspace: views/service OpenWorkspace and its callers.       *)

(* The row of the workspace as the caller has read it.                     *)
OpenLoc(w, v) == [w |-> w, v |-> v, view |-> row[w].view,
                  latest |-> row[w].latest, cur |-> none]

(* The mutation openWorkspaceOnView, up to the checks of OpenWorkspace.    *)
Open(a, w, v) ==
    /\ Exists(w) /\ ~row[w].archived /\ Mounted(v)
    /\ row[w].view # v
    /\ Begin(a, OpenLoc(w, v), "lookup")
    /\ UNCHANGED <<row, viewWs, disk, snaps, sync, queue, snap, since, failed>>

(* A new view of w: its row, a clone with the branch of w, OpenWorkspace.  *)
NewView(a, w, v) ==
    /\ Exists(w) /\ ~row[w].archived /\ ~Mounted(v)
    /\ viewWs' = [viewWs EXCEPT ![v] = w]
    /\ disk' = [disk EXCEPT ![v].branch = w]
    /\ Begin(a, OpenLoc(w, v), "lookup")
    /\ UNCHANGED <<row, snaps, sync, queue, snap, since, failed>>

(* After the view's previous workspace: save the workspace itself if it is *)
(* open on another view.                                                   *)
SaveOwn(a) ==
    IF loc[a].view = none
    THEN Goto(a, "checkout") /\ UNCHANGED snap
    ELSE Call(a, loc[a].w, loc[a].view, TRUE, "checkout")

(* Mutant: GetByViewID without the archived workspaces.                    *)
Lookup_NotArchived(a) ==
    LET on == {w \in OpenOn(loc[a].v) : ~row[w].archived}
    IN  /\ pc[a] = "lookup"
        /\ since' = [since EXCEPT ![a] = {}]
        /\ \/ \E c \in on :
                /\ loc' = [loc EXCEPT ![a].cur = c]
                /\ Call(a, c, loc[a].v, TRUE, "detach")
           \/ on = {} /\ SaveOwn(a) /\ UNCHANGED loc
        /\ UNCHANGED <<row, viewWs, disk, snaps, sync, queue, started, failed>>

(* Is another workspace, archived or not, open on the view?  Then save it. *)
Lookup(a) ==
    LET on == OpenOn(loc[a].v)
    IN  /\ pc[a] = "lookup"
        /\ since' = [since EXCEPT ![a] = {}]
        /\ \/ \E c \in on :
                /\ loc' = [loc EXCEPT ![a].cur = c]
                /\ Call(a, c, loc[a].v, TRUE, "detach")
           \/ on = {} /\ SaveOwn(a) /\ UNCHANGED loc
        /\ UNCHANGED <<row, viewWs, disk, snaps, sync, queue, started, failed>>

(* Mutant: the previous workspace keeps its view.                          *)
Detach_KeepsView(a) ==
    /\ pc[a] = "detach"
    /\ SaveOwn(a)
    /\ UNCHANGED <<row, viewWs, disk, snaps, sync, queue, loc, since, started,
                   failed>>

Detach(a) ==
    /\ pc[a] = "detach"
    /\ row' = [row EXCEPT ![loc[a].cur].view = none]
    /\ SaveOwn(a)
    /\ UNCHANGED <<viewWs, disk, snaps, sync, queue, loc, since, started,
                   failed>>

(* CheckoutBranch with force, unless the branch is checked out, and restore*)
(* the snapshot that the caller's copy of the workspace names.             *)
Restored(a) ==
    CASE loc[a].latest # NoId -> snaps[loc[a].latest].work
      [] loc[a].latest = NoId /\ disk[loc[a].v].branch = loc[a].w
                              -> disk[loc[a].v].work
      [] OTHER                -> {}

Checkout(a) ==
    /\ pc[a] = "checkout"
    /\ disk' = [disk EXCEPT ![loc[a].v] = [branch |-> loc[a].w,
                                           work |-> Restored(a)]]
    /\ Goto(a, "link")
    /\ UNCHANGED <<row, viewWs, snaps, sync, queue, loc, snap, since, started,
                   failed>>

Link(a) ==
    /\ pc[a] = "link"
    /\ row' = [row EXCEPT ![loc[a].w].view = loc[a].v]
    /\ Goto(a, "linkView")
    /\ UNCHANGED <<viewWs, disk, snaps, sync, queue, loc, snap, since, started,
                   failed>>

LinkView(a) ==
    /\ pc[a] = "linkView"
    /\ viewWs' = [viewWs EXCEPT ![loc[a].v] = loc[a].w]
    /\ Finish(a)
    /\ UNCHANGED <<row, disk, snaps, sync, queue, started, failed>>

OpenStep(a) == Lookup(a) \/ Detach(a) \/ Checkout(a) \/ Link(a) \/ LinkView(a)

-----------------------------------------------------------------------------
(* Archive, Unarchive and SetSnapshot: workspaces/service.                 *)

Fresh(w) == ~row[w].exists

(* Read the row.  (An open workspace needs a fresh one to replace it.)     *)
Archive(a, w) ==
    /\ Exists(w) /\ ~row[w].archived
    /\ row[w].view # none => \E n \in Workspace : Fresh(n)
    /\ Begin(a, OpenLoc(w, none), "archive")
    /\ UNCHANGED <<row, viewWs, disk, snaps, sync, queue, snap, since, failed>>

ArchiveRow(a) ==
    /\ pc[a] = "archive"
    /\ row' = [row EXCEPT ![loc[a].w].archived = TRUE,
                          ![loc[a].w].unarchived = FALSE]
    /\ IF loc[a].view = none
       THEN Finish(a)
       ELSE Goto(a, "replace") /\ UNCHANGED <<loc, snap, since>>
    /\ UNCHANGED <<viewWs, disk, snaps, sync, queue, started, failed>>

(* The view gets a new workspace, opened as above: that is what saves and  *)
(* closes the archived one.                                                *)
Replace(a) ==
    /\ pc[a] = "replace"
    /\ \E n \in Workspace :
          /\ Fresh(n)
          /\ row' = [row EXCEPT ![n] = NewRow]
          /\ loc' = [loc EXCEPT ![a] =
                        [w |-> n, v |-> loc[a].view, view |-> none,
                         latest |-> NoId, cur |-> none]]
    /\ Goto(a, "lookup")
    /\ UNCHANGED <<viewWs, disk, snaps, sync, queue, snap, since, started,
                   failed>>

(* One update.  (The code would unarchive a workspace that never was       *)
(* archived; the clients offer it for archived ones only.)                 *)
Unarchive(a, w) ==
    /\ row[w].archived /\ ~row[w].unarchived
    /\ a \in Request /\ pc[a] = "idle" /\ started < MaxRequests
    /\ started' = started + 1
    /\ row' = [row EXCEPT ![w].archived = FALSE, ![w].unarchived = TRUE,
                          ![w].view = none]
    /\ UNCHANGED <<viewWs, disk, snaps, sync, queue, pc, loc, snap, since,
                   failed>>

(* Go to snapshot i of w: restore it on the view that the row read here    *)
(* names, then make it the latest.                                         *)
SetSnapshot(a, w, i) ==
    /\ Exists(w) /\ i \in DOMAIN snaps /\ snaps[i].ws = w
    /\ Begin(a, [w |-> w, v |-> none, view |-> row[w].view, latest |-> i,
                 cur |-> none],
             IF row[w].view = none THEN "setLatest" ELSE "restore")
    /\ UNCHANGED <<row, viewWs, disk, snaps, sync, queue, snap, since, failed>>

RestoreOnView(a) ==
    /\ pc[a] = "restore"
    /\ disk' = [disk EXCEPT ![loc[a].view].work = snaps[loc[a].latest].work]
    /\ Goto(a, "setLatest")
    /\ UNCHANGED <<row, viewWs, snaps, sync, queue, loc, snap, since, started,
                   failed>>

SetLatest(a) ==
    /\ pc[a] = "setLatest"
    /\ row' = [row EXCEPT ![loc[a].w].latest = loc[a].latest]
    /\ Finish(a)
    /\ UNCHANGED <<viewWs, disk, snaps, sync, queue, started, failed>>

WorkspaceStep(a) ==
    ArchiveRow(a) \/ Replace(a) \/ RestoreOnView(a) \/ SetLatest(a)

-----------------------------------------------------------------------------
(* The owner's edits, mutagen's report of them, the snapshot queue.        *)

(* Mutagen writes an edit to the view, under the view's lock.              *)
MakeEdit(v, e) ==
    /\ Mounted(v)
    /\ \A u \in View : e \notin disk[u].work
    /\ e \notin Saved
    /\ sync[v] \in {"quiet", "changed"}
    /\ disk' = [disk EXCEPT ![v].work = @ \union {e}]
    /\ sync' = [sync EXCEPT ![v] = "changed"]
    /\ since' = [a \in Actor |-> IF loc[a].v = v THEN since[a] \union {e}
                                                 ELSE since[a]]
    /\ UNCHANGED <<row, viewWs, snaps, queue, pc, loc, snap, started, failed>>

(* SyncTransitions reads the view's row, ...                               *)
SyncRead(v) ==
    /\ sync[v] = "changed"
    /\ sync' = [sync EXCEPT ![v] = viewWs[v]]
    /\ UNCHANGED <<row, viewWs, disk, snaps, queue, pc, loc, snap, since,
                   started, failed>>

(* ... writes all its columns back with a new last_used_at, and enqueues a *)
(* snapshot of the view for the workspace it has read.                     *)
SyncWrite(v) ==
    /\ sync[v] \in Workspace
    /\ viewWs' = [viewWs EXCEPT ![v] = sync[v]]
    /\ queue' = Append(queue, [view |-> v, ws |-> sync[v]])
    /\ sync' = [sync EXCEPT ![v] = "quiet"]
    /\ UNCHANGED <<row, disk, snaps, pc, loc, snap, since, started, failed>>

WorkerTake ==
    /\ pc[Worker] = "idle" /\ queue # <<>>
    /\ queue' = Tail(queue)
    /\ Call(Worker, Head(queue).ws, Head(queue).view, FALSE, "idle")
    /\ UNCHANGED <<row, viewWs, disk, snaps, sync, loc, since, started, failed>>

-----------------------------------------------------------------------------
(* A step fails, or the process of the goroutine dies: what it has written *)
(* stays.  A message of the in-memory queue is gone.                       *)

CanFail(a) == pc[a] # "idle" /\ failed < MaxFailures /\ failed' = failed + 1

Fail(a) ==
    /\ CanFail(a)
    /\ Finish(a)
    /\ UNCHANGED <<row, viewWs, disk, snaps, sync, queue, started>>

(* Between the two writes of SnapSave.                                     *)
FailToMark(a) ==
    /\ CanFail(a)
    /\ pc[a] = "snapSave" /\ ~SameAsBefore(a)
    /\ CreateSnapshot(a)
    /\ Finish(a)
    /\ UNCHANGED <<row, viewWs, disk, sync, queue, started>>

Crash == \E a \in Actor : Fail(a) \/ FailToMark(a)

StartRequest(a) ==
    \E w \in Workspace :
        \/ \E v \in View : Open(a, w, v) \/ NewView(a, w, v)
        \/ Archive(a, w)
        \/ Unarchive(a, w)
        \/ \E i \in DOMAIN snaps : SetSnapshot(a, w, i)

Run(a) == SnapStep(a) \/ OpenStep(a) \/ WorkspaceStep(a)

MutagenStep(v) == SyncRead(v) \/ SyncWrite(v)

AnyEdit == \E v \in View, e \in Edit : MakeEdit(v, e)

Next ==
    \/ \E a \in Request : StartRequest(a)
    \/ \E a \in Actor : Run(a)
    \/ AnyEdit
    \/ \E v \in View : MutagenStep(v)
    \/ WorkerTake
    \/ Crash

Spec == Init /\ [][Next]_vars

(* What must go on: goroutines run, mutagen posts, the queue is consumed.  *)
Fairness ==
    /\ \A a \in Actor : WF_vars(Run(a))
    /\ \A v \in View : WF_vars(MutagenStep(v))
    /\ WF_vars(WorkerTake)

FairSpec == Spec /\ Fairness

(* The calm server: a request starts when everything else has come to rest,*)
(* edits are made while no goroutine runs, nothing fails.                  *)
NobodyRuns == \A a \in Actor : pc[a] = "idle"

AtRest ==
    /\ NobodyRuns
    /\ \A v \in View : sync[v] = "quiet"
    /\ queue = <<>>

CalmNext ==
    \/ AtRest /\ \E a \in Request : StartRequest(a)
    \/ \E a \in Actor : Run(a)
    \/ NobodyRuns /\ AnyEdit
    \/ \E v \in View : MutagenStep(v)
    \/ WorkerTake

-----------------------------------------------------------------------------
(* Properties.                                                             *)

(* With one request at a time, a workspace that has a view is the branch   *)
(* checked out there: whatever happens to the other workspaces of the view,*)
(* whichever step fails.  Everything that trusts view_id (snapshots of the *)
(* view, syncing, landing) relies on this.                                 *)
LinkedIsCheckedOut ==
    \A w \in Workspace :
        row[w].view # none => disk[row[w].view].branch = w

(* What makes it inductive.  Ids that are stored or remembered are those of*)
(* rows; a position implies which local variables are set.                 *)
KnownIds ==
    /\ \A w \in Workspace : row[w].latest \in 0..Len(snaps)
    /\ \A a \in Actor : /\ loc[a].latest \in 0..Len(snaps)
                        /\ snap[a].before \in 0..Len(snaps)

Within(a, at) == pc[a] = at \/ (InSnapshot(a) /\ snap[a].ret = at)

Opening(a) == \E at \in {"lookup", "detach", "checkout", "link", "linkView"} :
                  Within(a, at)

Locals ==
    /\ \A a \in Actor :
          /\ Opening(a) => loc[a].w \in Workspace /\ loc[a].v \in View
          /\ Within(a, "detach") => loc[a].cur \in Workspace
          /\ pc[a] \in {"archive", "replace", "restore", "setLatest"}
                => loc[a].w \in Workspace
          /\ pc[a] \in {"replace", "restore"} => loc[a].view \in View
          /\ pc[a] = "restore" => loc[a].latest # NoId
    /\ Within(Worker, "idle")

(* Whatever names a view names one that exists.                            *)
ViewsExist ==
    /\ \A w \in Workspace : row[w].view # none => Mounted(row[w].view)
    /\ \A a \in Actor : /\ loc[a].v # none => Mounted(loc[a].v)
                        /\ loc[a].view # none => Mounted(loc[a].view)
    /\ \A v \in View :
          disk[v].branch # none \/ sync[v] # "quiet" => Mounted(v)

(* Once it has looked, a request knows who is open on its view.            *)
OnlyCurrentIsOpen ==
    \A a \in Request :
        /\ Within(a, "detach")   => OpenOn(loc[a].v) \subseteq {loc[a].cur}
        /\ Within(a, "checkout") => OpenOn(loc[a].v) = {}
        /\ Within(a, "link")     => disk[loc[a].v].branch = loc[a].w

SerialInv ==
    /\ TypeOK /\ KnownIds /\ Locals /\ ViewsExist
    /\ OnlyCurrentIsOpen /\ LinkedIsCheckedOut

(* However requests race, OpenWorkspace on a view with an open workspace   *)
(* destroys no edit by its forced checkout but those synced since it looked*)
(* that workspace up: all the others are in a snapshot.  (Edits on a view  *)
(* that no workspace is open on have no such protection.)                  *)
OverwritesOnlyRacedEdits ==
    [][\A a \in Request : Checkout(a) /\ loc[a].cur # none =>
          disk[loc[a].v].work \ disk'[loc[a].v].work
              \subseteq Saved \union since[a]]_vars

(* Without failures, every edit on a view reaches a snapshot, unless it    *)
(* disappears from the view first (overwritten by a raced open or undone). *)
EditsReachASnapshot ==
    \A v \in View, e \in Edit :
        e \in disk[v].work ~> (e \in Saved \/ e \notin disk[v].work)

(* The draft of a workspace: where the code looks for it.                  *)
Contents(w) ==
    CASE row[w].view # none -> disk[row[w].view].work
      [] row[w].view = none /\ row[w].latest # NoId -> snaps[row[w].latest].work
      [] OTHER -> {}

VersionsOf(w) == {snaps[i].work : i \in {j \in DOMAIN snaps : snaps[j].ws = w}}

Drafted == [w \in Workspace |-> Contents(w)]
Versions == [w \in Workspace |-> VersionsOf(w)]

DS == INSTANCE DraftStore WITH draft <- Drafted, versions <- Versions

(* OpenWorkspace, service.go:99: 'The snapshot will also be used to "move" *)
(* the contents to the new view'.                                          *)
MoveKeepsContents ==
    [][\A a \in Request : Checkout(a) /\ loc[a].view # none =>
          snaps[row[loc[a].w].latest].work \subseteq disk'[loc[a].v].work]_vars
=============================================================================
