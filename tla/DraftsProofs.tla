---------------------------- MODULE DraftsProofs ----------------------------
(***************************************************************************)
(* Proofs about Drafts, and (in the last part) about Suggestions.          *)
(*                                                                         *)
(* BInv (types, known ids, locals, existing views) is inductive for any    *)
(* number of concurrent requests: one lemma B<action> for each action, put *)
(* together in BNext.  It gives TypeCorrect.                               *)
(*                                                                         *)
(* SInv says who is open where.  Most actions leave the owners of views and*)
(* the progress of requests alone (Quiet); Lookup, Detach, Checkout, Link, *)
(* NewView, Replace and Unarchive do not, and for them there must be one   *)
(* request at a time.  SNext puts these together; BInv /\ SInv is SerialInv*)
(* and contains LinkedIsCheckedOut.                                        *)
(*                                                                         *)
(* RInv says, for any number of requests, where the edits are of a view    *)
(* that OpenWorkspace is about to overwrite.  A request is disturbed by the*)
(* others only in what they put on its view, and that is saved or counted  *)
(* in since (Puts, SavesKept, SavesEdit); its own steps are SavesStart,    *)
(* SavesSnap, SavesOpen and SavesOther.  RNext puts these together and     *)
(* gives OverwritesOnlyRacedEdits.                                         *)
(*                                                                         *)
(* CInv says where drafts are on a calm server with one view (OneView, an  *)
(* assumption of the last part), and who is about to move them.  A lemma   *)
(* C<action> for each action says that it preserves CInv and what it does  *)
(* in DraftStore; CNext puts them together into the step simulation.       *)
(***************************************************************************)
EXTENDS DraftsWatched, MCDrafts, SequenceTheorems, FiniteSetTheorems, TLAPS

(* What holds for any number of requests. *)
BInv == TypeOK /\ KnownIds /\ Locals /\ ViewsExist

(* Where the edits on its view are while OpenWorkspace saves the workspace *)
(* it has found there: what the snapshot has taken, what is in one already *)
(* and what has been synced since Lookup is all there is on the view.      *)
SavesIt(a) ==
    /\ pc[a] = "lookup" => loc[a].cur = none
    /\ InSnapshot(a) /\ snap[a].ret = "detach" => snap[a].view = loc[a].v
    /\ pc[a] = "snapSave" /\ snap[a].ret = "detach" =>
          disk[loc[a].v].work \subseteq snap[a].work \union Saved \union since[a]
    /\ pc[a] = "detach" \/ (Within(a, "checkout") /\ loc[a].cur # none) =>
          disk[loc[a].v].work \subseteq Saved \union since[a]

RInv == \A a \in Request : SavesIt(a)

(* There is one view. *)
OneView == \A x, y \in View : x = y

(* A step that DraftStore does not see. *)
Unseen == UNCHANGED <<Drafted, Versions>>

(* What the latest snapshot of a workspace holds. *)
Kept(w) == IF row[w].latest = NoId THEN {} ELSE snaps[row[w].latest].work

(* One goroutine runs at a time; a request, when all has been reported.    *)
OneRuns ==
    /\ \A a, b \in Actor : pc[a] # "idle" /\ pc[b] # "idle" => a = b
    /\ \A a \in Request : pc[a] # "idle" =>
          queue = <<>> /\ \A v \in View : sync[v] = "quiet"

(* Reports and messages are about the workspace that the view has.         *)
Reports ==
    /\ \A v \in View : sync[v] \in Workspace => sync[v] = viewWs[v]
    /\ \A i \in 1..Len(queue) : viewWs[queue[i].view] = queue[i].ws
    /\ pc[Worker] # "idle" => viewWs[snap[Worker].view] = snap[Worker].ws

(* A workspace without a latest snapshot has none at all.                  *)
LatestOK ==
    /\ \A w \in Workspace : row[w].latest = NoId =>
          \A i \in 1..Len(snaps) : snaps[i].ws # w
    /\ \A w \in Workspace : ~row[w].exists => row[w].view = none /\ row[w].latest = NoId

(* Between requests the view has the workspace that is open on it.         *)
Settled ==
    /\ \A w \in Workspace, v \in View : row[w].view = v <=> viewWs[v] = w
    /\ \A v \in View : viewWs[v] = none => disk[v].work = {}
    /\ \A w \in Workspace : row[w].view # none => ~row[w].archived

(* A request is moving workspaces from or to a view. *)
Moving(a) == Opening(a) \/ pc[a] = "replace"

(* Snapshot takes what is in the draft of its workspace.                   *)
TakesDraft(a) ==
    /\ InSnapshot(a) => row[snap[a].ws].view = snap[a].view
    /\ pc[a] \in {"snapExec", "snapSave"} =>
          /\ IsAuthoritative(a)
          /\ snap[a].before = row[snap[a].ws].latest
    /\ pc[a] = "snapSave" => snap[a].work = disk[snap[a].view].work

(* A request that opens workspace w on view v closes the one it has found. *)
OpensIt(a) ==
    LET w == loc[a].w  v == loc[a].v  c == loc[a].cur IN
    /\ row[w].exists /\ ~row[w].archived
    /\ loc[a].view = none /\ loc[a].latest = row[w].latest
    /\ InSnapshot(a) => snap[a].ws = c /\ snap[a].view = v
    /\ pc[a] # "linkView" => row[w].view = none
    /\ pc[a] \notin {"link", "linkView"} /\ row[w].latest = NoId /\ disk[v].branch = w =>
          disk[v].work = {}
    /\ Within(a, "detach") => row[c].view = v
    /\ pc[a] = "detach" => Kept(c) = disk[v].work
    /\ pc[a] \in {"checkout", "link"} => \A x \in Workspace : row[x].view = none
    /\ pc[a] = "link" => disk[v].branch = w /\ disk[v].work = Kept(w)
    /\ pc[a] = "linkView" => row[w].view = v

(* The other requests have read what still holds. *)
OtherwiseOK(a) ==
    LET w == loc[a].w IN
    /\ InSnapshot(a) => snap[a].ret = "detach"
    /\ pc[a] \in {"archive", "replace", "restore"} => loc[a].view = row[w].view
    /\ pc[a] \in {"restore", "setLatest"} =>
          row[w].exists /\ loc[a].latest \in 1..Len(snaps) /\ snaps[loc[a].latest].ws = w

(* The calm invariant. *)
CInv ==
    /\ OneRuns /\ Reports /\ LatestOK /\ LinkedIsCheckedOut
    /\ (\A a \in Request : ~Moving(a)) => Settled
    /\ \A a \in Actor : TakesDraft(a)
    /\ \A a \in Request : (Opening(a) => OpensIt(a)) /\ OtherwiseOK(a)

USE DEF NoId, Absent, NewRow, NoLoc, NoSnap, PC, Actor

(* Finish resets the locals of a goroutine to values of their types. *)
LEMMA FinishOK ==
    ASSUME GoroutinesOK, NEW a \in Actor, Finish(a)
    PROVE  GoroutinesOK'
<1>1. NoLoc \in LocType /\ NoSnap \in SnapType
  BY DEF LocType, SnapType
<1> QED
  BY <1>1 DEF GoroutinesOK, Finish, Goto, InSnapshot

(* A call of Snapshot names a workspace and a view. *)
LEMMA CallOK ==
    ASSUME GoroutinesOK, NEW a \in Actor, NEW w \in Workspace, NEW v \in View,
           NEW mark \in BOOLEAN, NEW ret \in {"idle", "detach", "checkout"},
           Call(a, w, v, mark, ret)
    PROVE  /\ pc' \in [Actor -> PC] /\ snap' \in [Actor -> SnapType]
           /\ (\A b \in Actor : InSnapshot(b) =>
                  snap[b].ws \in Workspace /\ snap[b].view \in View)'
<1> DEFINE s == [ws |-> w, view |-> v, mark |-> mark, ret |-> ret,
                    rowView |-> none, before |-> NoId, work |-> {}]
<1>1. s \in SnapType /\ s.ws = w /\ s.view = v
  BY DEF SnapType
<1>2. snap' = [snap EXCEPT ![a] = s]
  BY DEF Call
<1> HIDE DEF s
<1> QED
  BY <1>1, <1>2 DEF GoroutinesOK, Call, Goto, InSnapshot

(* The updates of one row or one view that the actions make keep its type. *)
LEMMA RowView ==
    ASSUME NEW R \in [Workspace -> RowType], NEW w \in Workspace,
           NEW x \in View \union {none}
    PROVE  [R EXCEPT ![w].view = x] \in [Workspace -> RowType]
  BY DEF RowType

LEMMA RowLatest ==
    ASSUME NEW R \in [Workspace -> RowType], NEW w \in Workspace, NEW y \in Nat
    PROVE  [R EXCEPT ![w].latest = y] \in [Workspace -> RowType]
  BY DEF RowType

LEMMA RowFlags ==
    ASSUME NEW R \in [Workspace -> RowType], NEW w \in Workspace,
           NEW x \in BOOLEAN, NEW y \in BOOLEAN
    PROVE  [R EXCEPT ![w].archived = x, ![w].unarchived = y]
               \in [Workspace -> RowType]
<1> DEFINE r == [R[w] EXCEPT !.archived = x, !.unarchived = y]
<1>1. R[w] \in RowType
  OBVIOUS
<1>2. r \in RowType
  BY <1>1 DEF RowType
<1>3. [R EXCEPT ![w].archived = x, ![w].unarchived = y] = [R EXCEPT ![w] = r]
  OBVIOUS
<1> QED
  BY <1>2, <1>3

LEMMA DiskWork ==
    ASSUME NEW D \in [View -> DiskType], NEW v \in View, NEW x \in SUBSET Edit
    PROVE  [D EXCEPT ![v].work = x] \in [View -> DiskType]
  BY DEF DiskType

LEMMA DiskBranch ==
    ASSUME NEW D \in [View -> DiskType], NEW v \in View, NEW b \in Workspace
    PROVE  [D EXCEPT ![v].branch = b] \in [View -> DiskType]
  BY DEF DiskType

(* Every action preserves BInv.  Snapshot reads its workspace. *)
LEMMA BSnapRead ==
    ASSUME BInv, NEW a \in Actor, SnapRead(a)
    PROVE  BInv'
<1>1. PICK i \in 0..Len(snaps) :
          snap' = [snap EXCEPT ![a].rowView = row[snap[a].ws].view,
                               ![a].before = i]
  BY DEF SnapRead
<1> DEFINE x == row[snap[a].ws].view
           s == [snap[a] EXCEPT !.rowView = x, !.before = i]
<1>2. snap[a] \in SnapType /\ i \in Nat
  BY DEF BInv, TypeOK, StoreOK, GoroutinesOK
<1>3. x \in View \union {none}
  BY DEF BInv, TypeOK, StoreOK, GoroutinesOK, InSnapshot, SnapRead, RowType
<1>4. snap' = [snap EXCEPT ![a] = s]
  BY <1>1
<1> HIDE DEF x
<1>5. s \in SnapType
  BY <1>2, <1>3 DEF SnapType
<1>6. /\ s.ws = snap[a].ws /\ s.view = snap[a].view /\ s.ret = snap[a].ret
      /\ s.before = i
  BY <1>2 DEF SnapType
<1> HIDE DEF s
<1>7. StoreOK'
  BY DEF BInv, TypeOK, StoreOK, SnapRead
<1>8. GoroutinesOK'
  BY <1>4, <1>5, <1>6
     DEF BInv, TypeOK, GoroutinesOK, SnapRead, Goto, InSnapshot
<1>9. KnownIds'
  BY <1>4, <1>6 DEF BInv, TypeOK, GoroutinesOK, SnapRead, KnownIds
<1>10. Locals'
  BY <1>4, <1>6
     DEF BInv, TypeOK, GoroutinesOK, SnapRead, Goto, Locals, Opening,
         Within, InSnapshot
<1>11. ViewsExist'
  BY DEF BInv, SnapRead, ViewsExist, Mounted
<1> QED
  BY <1>7, <1>8, <1>9, <1>10, <1>11 DEF BInv, TypeOK

(* What one goroutine's position implies of its locals (see Locals). *)
LocalsOf(a) ==
    /\ Opening(a) => loc[a].w \in Workspace /\ loc[a].v \in View
    /\ Within(a, "detach") => loc[a].cur \in Workspace
    /\ pc[a] \in {"archive", "replace", "restore", "setLatest"}
          => loc[a].w \in Workspace
    /\ pc[a] \in {"replace", "restore"} => loc[a].view \in View
    /\ pc[a] = "restore" => loc[a].latest # NoId

(* Locals is a statement about each goroutine by itself ... *)
LEMMA LocalsSplit ==
    Locals <=> (\A a \in Actor : LocalsOf(a)) /\ Within(Worker, "idle")
  BY DEF Locals, LocalsOf

(* The others stand still. *)
OnlyMoves(a) == \A b \in Actor \ {a} :
    pc'[b] = pc[b] /\ snap'[b] = snap[b] /\ loc'[b] = loc[b]

(* ... so that only the goroutine that moves needs a look. *)
LEMMA LocalsStep ==
    ASSUME Locals, NEW a \in Actor, OnlyMoves(a), LocalsOf(a)',
           a = Worker => Within(a, "idle")'
    PROVE  Locals'
<1>1. \A b \in Actor \ {a} : LocalsOf(b)' /\ (b = Worker => Within(b, "idle")')
  BY LocalsSplit DEF OnlyMoves, LocalsOf, Within, Opening, InSnapshot
<1> QED
  BY <1>1, WorkerAssumption DEF Locals, LocalsOf

-----------------------------------------------------------------------------
(* Snapshot returns to a position whose locals are set.                    *)
LEMMA ReturnOK ==
    ASSUME GoroutinesOK, Locals, KnownIds, NEW a \in Actor,
           InSnapshot(a), Return(a)
    PROVE  /\ GoroutinesOK' /\ OnlyMoves(a) /\ LocalsOf(a)'
           /\ (a = Worker => Within(a, "idle")')
           /\ loc'[a].latest \in 0..Len(snaps) /\ snap'[a].before = 0
<1>1. CASE snap[a].ret = "idle"
  <2>1. Finish(a)
    BY <1>1 DEF Return
  <2>2. pc'[a] = "idle" /\ snap'[a] = NoSnap /\ loc'[a] = NoLoc
    BY <2>1 DEF Finish, Goto, GoroutinesOK
  <2>3. OnlyMoves(a)
    BY <2>1 DEF Finish, Goto, GoroutinesOK, OnlyMoves
  <2>4. LocalsOf(a)' /\ Within(a, "idle")'
    BY <2>2 DEF LocalsOf, Opening, Within, InSnapshot
  <2>5. Len(snaps) \in Nat => 0 \in 0..Len(snaps)
    OBVIOUS
  <2>6. NoLoc.latest \in 0..Len(snaps)
    BY DEF KnownIds
  <2> QED
    BY <2>1, <2>2, <2>3, <2>4, <2>6, FinishOK
<1>2. CASE snap[a].ret # "idle"
  <2>1. /\ pc' = [pc EXCEPT ![a] = snap[a].ret]
        /\ snap' = [snap EXCEPT ![a] = NoSnap]
        /\ loc' = loc /\ since' = since
    BY <1>2 DEF Return, Goto
  <2>2. snap[a].ret \in {"detach", "checkout"}
    BY <1>2 DEF GoroutinesOK, SnapType
  <2>3. NoSnap \in SnapType
    BY DEF SnapType
  <2>4. GoroutinesOK'
    BY <2>1, <2>2, <2>3 DEF GoroutinesOK, InSnapshot
  <2>5. OnlyMoves(a)
    BY <2>1 DEF GoroutinesOK, OnlyMoves
  <2>6. pc'[a] = snap[a].ret /\ snap'[a] = NoSnap /\ loc'[a] = loc[a]
    BY <2>1 DEF GoroutinesOK
  <2>7. LocalsOf(a)
    BY LocalsSplit
  <2>8. LocalsOf(a)'
    BY <2>2, <2>6, <2>7 DEF LocalsOf, Opening, Within
  <2>9. a # Worker
    BY <2>2 DEF Locals, Within, InSnapshot
  <2> QED
    BY <2>4, <2>5, <2>6, <2>8, <2>9 DEF KnownIds
<1> QED
  BY <1>1, <1>2

(* OpenWorkspace goes on to save the workspace it opens, or to the *)
(* checkout.                                                               *)
LEMMA SaveOwnOK ==
    ASSUME GoroutinesOK, NEW a \in Actor, SaveOwn(a), loc[a].w \in Workspace
    PROVE  /\ pc' \in [Actor -> PC] /\ snap' \in [Actor -> SnapType]
           /\ (\A b \in Actor : InSnapshot(b) =>
                  snap[b].ws \in Workspace /\ snap[b].view \in View)'
           /\ \A b \in Actor \ {a} : pc'[b] = pc[b] /\ snap'[b] = snap[b]
           /\ Within(a, "checkout")' /\ ~Within(a, "detach")'
           /\ pc'[a] \in {"checkout", "snapRead"}
           /\ snap'[a].before \in {0, snap[a].before}
<1>1. CASE loc[a].view = none
  BY <1>1 DEF SaveOwn, Goto, GoroutinesOK, InSnapshot, Within
<1>2. CASE loc[a].view # none
  <2>1. Call(a, loc[a].w, loc[a].view, TRUE, "checkout")
    BY <1>2 DEF SaveOwn
  <2>2. loc[a].view \in View
    BY <1>2 DEF GoroutinesOK, LocType
  <2>3. /\ pc' \in [Actor -> PC] /\ snap' \in [Actor -> SnapType]
        /\ (\A b \in Actor : InSnapshot(b) =>
               snap[b].ws \in Workspace /\ snap[b].view \in View)'
    BY <2>1, <2>2, CallOK
  <2>4. /\ pc'[a] = "snapRead" /\ snap'[a].ret = "checkout"
        /\ snap'[a].before = 0
    BY <2>1 DEF Call, Goto, GoroutinesOK
  <2>5. \A b \in Actor \ {a} : pc'[b] = pc[b] /\ snap'[b] = snap[b]
    BY <2>1 DEF Call, Goto, GoroutinesOK
  <2> QED
    BY <2>3, <2>4, <2>5 DEF Within, InSnapshot
<1> QED
  BY <1>1, <1>2

(* Snapshot takes the files of the view. *)
LEMMA BSnapExec ==
    ASSUME BInv, NEW a \in Actor, SnapExec(a)
    PROVE  BInv'
<1> DEFINE x == disk[snap[a].view].work
           s == [snap[a] EXCEPT !.work = x]
<1>1. x \in SUBSET Edit
  BY DEF BInv, TypeOK, StoreOK, DiskType, GoroutinesOK, InSnapshot, SnapExec
<1>2. snap[a] \in SnapType
  BY DEF BInv, TypeOK, GoroutinesOK
<1>3. s \in SnapType
  BY <1>1, <1>2 DEF SnapType
<1>4. /\ s.ws = snap[a].ws /\ s.view = snap[a].view /\ s.ret = snap[a].ret
      /\ s.before = snap[a].before
  BY <1>2 DEF SnapType
<1>5. snap' = [snap EXCEPT ![a] = s]
  BY DEF SnapExec
<1> HIDE DEF s
<1>6. StoreOK'
  BY DEF BInv, TypeOK, StoreOK, SnapExec
<1>7. GoroutinesOK'
  BY <1>3, <1>4, <1>5
     DEF BInv, TypeOK, GoroutinesOK, SnapExec, Goto, InSnapshot
<1>8. KnownIds'
  BY <1>4, <1>5 DEF BInv, SnapExec, KnownIds
<1>9. Locals'
  BY <1>4, <1>5 DEF BInv, SnapExec, Goto, Locals, Opening, Within, InSnapshot
<1>10. ViewsExist'
  BY DEF BInv, SnapExec, ViewsExist, Mounted
<1> QED
  BY <1>6, <1>7, <1>8, <1>9, <1>10 DEF BInv, TypeOK

(* Snapshot finds nothing new and returns. *)
LEMMA BSnapSame ==
    ASSUME BInv, NEW a \in Actor, SnapSame(a)
    PROVE  BInv'
<1>1. StoreOK'
  BY DEF BInv, TypeOK, StoreOK, SnapSame
<1>2. InSnapshot(a) /\ Return(a) /\ UNCHANGED <<row, viewWs, disk, snaps, sync>>
  BY DEF SnapSame, InSnapshot
<1>3. /\ GoroutinesOK' /\ OnlyMoves(a) /\ LocalsOf(a)'
      /\ (a = Worker => Within(a, "idle")')
      /\ loc'[a].latest \in 0..Len(snaps) /\ snap'[a].before = 0
  BY <1>2, ReturnOK DEF BInv, TypeOK
<1>4. ViewsExist'
  BY <1>2 DEF BInv, TypeOK, GoroutinesOK, ViewsExist, Mounted, Return, Finish
<1>5. Locals'
  BY <1>3, LocalsStep DEF BInv
<1>6. KnownIds'
  BY <1>2, <1>3 DEF BInv, KnownIds, OnlyMoves
<1> QED
  BY <1>1, <1>3, <1>4, <1>5, <1>6 DEF BInv, TypeOK

(* Snapshot writes its row: the new id is known from now on. *)
LEMMA BSnapSave ==
    ASSUME BInv, NEW a \in Actor, SnapSave(a)
    PROVE  BInv'
<1> DEFINE s == [ws |-> snap[a].ws, work |-> snap[a].work]
<1>1. /\ InSnapshot(a) /\ Return(a)
      /\ UNCHANGED <<viewWs, disk, sync, queue, started, failed>>
  BY DEF SnapSave, InSnapshot
<1>2. /\ GoroutinesOK' /\ OnlyMoves(a) /\ LocalsOf(a)'
      /\ (a = Worker => Within(a, "idle")')
      /\ loc'[a].latest \in 0..Len(snaps) /\ snap'[a].before = 0
  BY <1>1, ReturnOK DEF BInv, TypeOK
<1>3. snap[a].ws \in Workspace /\ snap[a].work \in SUBSET Edit
  BY <1>1 DEF BInv, TypeOK, GoroutinesOK, SnapType
<1>4. /\ snaps' = Append(snaps, s)
      /\ s \in [ws : Workspace, work : SUBSET Edit]
  BY <1>3 DEF SnapSave, CreateSnapshot
<1>5. /\ snaps \in Seq([ws : Workspace, work : SUBSET Edit])
      /\ row \in [Workspace -> RowType]
  BY DEF BInv, TypeOK, StoreOK
<1> HIDE DEF s
<1>6. /\ snaps' \in Seq([ws : Workspace, work : SUBSET Edit])
      /\ Len(snaps) \in Nat /\ Len(snaps') = Len(snaps) + 1
  BY <1>4, <1>5
<1>7. /\ row' \in [Workspace -> RowType]
      /\ \A w \in Workspace : row'[w].latest \in 0..Len(snaps')
  <2>1. CASE IsAuthoritative(a) \/ snap[a].mark
    <3> DEFINE n == Len(snaps) + 1
    <3>1. row' = [row EXCEPT ![snap[a].ws].latest = n]
      BY <2>1 DEF SnapSave
    <3>2. n \in Nat /\ n \in 0..Len(snaps')
      BY <1>6
    <3> HIDE DEF n
    <3>3. row' \in [Workspace -> RowType]
      BY <1>3, <1>5, <3>1, <3>2, RowLatest
    <3>4. \A w \in Workspace : row'[w].latest \in {row[w].latest, n}
      BY <3>1, <1>3, <1>5 DEF RowType
    <3> QED
      BY <3>2, <3>3, <3>4, <1>6 DEF BInv, KnownIds
  <2>2. CASE ~(IsAuthoritative(a) \/ snap[a].mark)
    BY <2>2, <1>5, <1>6 DEF SnapSave, BInv, KnownIds
  <2> QED
    BY <2>1, <2>2
<1>8. StoreOK'
  BY <1>1, <1>6, <1>7 DEF BInv, TypeOK, StoreOK
<1>9. ViewsExist'
  BY <1>1, <1>7
     DEF BInv, TypeOK, GoroutinesOK, ViewsExist, Mounted, Return, Finish,
         SnapSave, RowType
<1>10. Locals'
  BY <1>2, LocalsStep DEF BInv
<1>11. 0..Len(snaps) \subseteq 0..Len(snaps')
  BY <1>6
<1>12. \A b \in Actor : /\ loc'[b].latest \in 0..Len(snaps)
                       /\ snap'[b].before \in 0..Len(snaps)
  BY <1>2, <1>6 DEF BInv, KnownIds, OnlyMoves
<1>13. KnownIds'
  BY <1>7, <1>11, <1>12 DEF KnownIds
<1> QED
  BY <1>2, <1>8, <1>9, <1>10, <1>13 DEF BInv, TypeOK

(* No id is an id as good as any. *)
LEMMA ZeroIsId ==
    ASSUME BInv
    PROVE  0 \in 0..Len(snaps)
  BY DEF BInv, TypeOK, StoreOK

(* OpenWorkspace looks for the workspace on its view. *)
LEMMA BLookup ==
    ASSUME BInv, NEW a \in Request, Lookup(a)
    PROVE  BInv'
<1>1. StoreOK' /\ UNCHANGED <<row, viewWs, disk, snaps, sync>>
  BY DEF BInv, TypeOK, StoreOK, Lookup
<1>2. ViewsExist'
  <2>1. loc \in [Actor -> LocType]
    BY DEF BInv, TypeOK, GoroutinesOK
  <2>2. loc' = loc \/ \E c \in Workspace : loc' = [loc EXCEPT ![a].cur = c]
    BY DEF Lookup, OpenOn
  <2>3. \A b \in Actor : loc'[b].v = loc[b].v /\ loc'[b].view = loc[b].view
    BY <2>1, <2>2 DEF LocType
  <2> QED
    BY <1>1, <2>3 DEF BInv, ViewsExist, Mounted
<1>3. loc[a].w \in Workspace /\ loc[a].v \in View /\ loc[a] \in LocType
  BY DEF BInv, TypeOK, GoroutinesOK, Locals, Opening, Within, Lookup
<1>4. since' \in [Actor -> SUBSET Edit] /\ a \in Actor /\ a # Worker
  BY WorkerAssumption DEF BInv, TypeOK, GoroutinesOK, Lookup
<1>5. CASE \E c \in OpenOn(loc[a].v) :
              /\ loc' = [loc EXCEPT ![a].cur = c]
              /\ Call(a, c, loc[a].v, TRUE, "detach")
  <2>1. PICK c \in Workspace : /\ loc' = [loc EXCEPT ![a].cur = c]
                               /\ Call(a, c, loc[a].v, TRUE, "detach")
    BY <1>5 DEF OpenOn
  <2> DEFINE l == [loc[a] EXCEPT !.cur = c]
  <2>2. /\ l \in LocType /\ l.w = loc[a].w /\ l.v = loc[a].v /\ l.cur = c
        /\ l.latest = loc[a].latest
    BY <1>3 DEF LocType
  <2>3. loc' = [loc EXCEPT ![a] = l]
    BY <2>1
  <2> HIDE DEF l
  <2>4. /\ pc' \in [Actor -> PC] /\ snap' \in [Actor -> SnapType]
        /\ (\A b \in Actor : InSnapshot(b) =>
               snap[b].ws \in Workspace /\ snap[b].view \in View)'
    BY <1>3, <1>4, <2>1, CallOK DEF BInv, TypeOK
  <2>5. GoroutinesOK'
    BY <1>4, <2>2, <2>3, <2>4 DEF BInv, TypeOK, GoroutinesOK
  <2>6. /\ pc'[a] = "snapRead" /\ snap'[a].ret = "detach"
        /\ snap'[a].before = 0 /\ loc'[a] = l /\ OnlyMoves(a)
    BY <1>4, <2>1, <2>3 DEF Call, Goto, BInv, TypeOK, GoroutinesOK, OnlyMoves
  <2>7. LocalsOf(a)'
    BY <1>3, <2>2, <2>6 DEF LocalsOf
  <2>8. Locals'
    BY <1>4, <2>6, <2>7, LocalsStep DEF BInv
  <2>9. KnownIds'
    BY <1>1, <1>4, <2>2, <2>6 DEF BInv, KnownIds, OnlyMoves
  <2> QED
    BY <1>1, <1>2, <2>5, <2>8, <2>9 DEF BInv, TypeOK
<1>6. CASE SaveOwn(a) /\ UNCHANGED loc
  <2>1. /\ pc' \in [Actor -> PC] /\ snap' \in [Actor -> SnapType]
        /\ (\A b \in Actor : InSnapshot(b) =>
               snap[b].ws \in Workspace /\ snap[b].view \in View)'
        /\ \A b \in Actor \ {a} : pc'[b] = pc[b] /\ snap'[b] = snap[b]
        /\ Within(a, "checkout")' /\ ~Within(a, "detach")'
        /\ pc'[a] \in {"checkout", "snapRead"}
        /\ snap'[a].before \in {0, snap[a].before}
    BY <1>3, <1>4, <1>6, SaveOwnOK DEF BInv, TypeOK
  <2>2. GoroutinesOK'
    BY <1>4, <1>6, <2>1 DEF BInv, TypeOK, GoroutinesOK
  <2>3. OnlyMoves(a)
    BY <1>6, <2>1 DEF OnlyMoves
  <2>4. LocalsOf(a)'
    BY <1>3, <1>6, <2>1 DEF LocalsOf
  <2>5. Locals'
    BY <1>4, <2>3, <2>4, LocalsStep DEF BInv
  <2>6. KnownIds'
    BY <1>1, <1>4, <1>6, <2>1, <2>3 DEF BInv, KnownIds
  <2> QED
    BY <1>1, <1>2, <2>2, <2>5, <2>6 DEF BInv, TypeOK
<1> QED
  BY <1>5, <1>6 DEF Lookup

(* OpenWorkspace takes the view from the previous workspace. *)
LEMMA BDetach ==
    ASSUME BInv, NEW a \in Request, Detach(a)
    PROVE  BInv'
<1>1. /\ loc[a].w \in Workspace /\ loc[a].v \in View
      /\ loc[a].cur \in Workspace /\ a \in Actor /\ a # Worker
  BY WorkerAssumption DEF BInv, Locals, Opening, Within, Detach
<1>2. /\ row' = [row EXCEPT ![loc[a].cur].view = none] /\ SaveOwn(a)
      /\ UNCHANGED <<viewWs, disk, snaps, sync, queue, loc, since, started,
                     failed>>
  BY DEF Detach
<1>3. row \in [Workspace -> RowType]
  BY DEF BInv, TypeOK, StoreOK
<1>4. row' \in [Workspace -> RowType]
  BY <1>1, <1>2, <1>3, RowView
<1>5. \A w \in Workspace : row'[w].latest = row[w].latest
  BY <1>1, <1>2, <1>3 DEF RowType
<1>6. StoreOK'
  BY <1>2, <1>4 DEF BInv, TypeOK, StoreOK
<1>7. /\ pc' \in [Actor -> PC] /\ snap' \in [Actor -> SnapType]
      /\ (\A b \in Actor : InSnapshot(b) =>
             snap[b].ws \in Workspace /\ snap[b].view \in View)'
      /\ \A b \in Actor \ {a} : pc'[b] = pc[b] /\ snap'[b] = snap[b]
      /\ Within(a, "checkout")' /\ ~Within(a, "detach")'
      /\ pc'[a] \in {"checkout", "snapRead"}
      /\ snap'[a].before \in {0, snap[a].before}
  BY <1>1, <1>2, SaveOwnOK DEF BInv, TypeOK
<1>8. GoroutinesOK'
  BY <1>2, <1>7 DEF BInv, TypeOK, GoroutinesOK
<1>9. OnlyMoves(a) /\ LocalsOf(a)'
  BY <1>1, <1>2, <1>7 DEF OnlyMoves, LocalsOf
<1>10. ViewsExist'
  BY <1>1, <1>2 DEF BInv, ViewsExist, Mounted
<1>11. Locals'
  BY <1>1, <1>9, LocalsStep DEF BInv
<1>12. KnownIds'
  BY <1>1, <1>2, <1>5, <1>7 DEF BInv, KnownIds
<1> QED
  BY <1>6, <1>8, <1>10, <1>11, <1>12 DEF BInv, TypeOK

(* OpenWorkspace checks out the branch and restores the snapshot it knows. *)
LEMMA BCheckout ==
    ASSUME BInv, NEW a \in Request, Checkout(a)
    PROVE  BInv'
<1>1. loc[a].w \in Workspace /\ loc[a].v \in View /\ a \in Actor
  BY DEF BInv, Locals, Opening, Within, Checkout
<1>2. disk \in [View -> DiskType]
  BY DEF BInv, TypeOK, StoreOK
<1>3. Restored(a) \in SUBSET Edit
  <2>1. CASE loc[a].latest # NoId
    <3>1. loc[a].latest \in DOMAIN snaps
      BY <2>1, <1>1 DEF BInv, KnownIds
    <3>2. snaps[loc[a].latest] \in [ws : Workspace, work : SUBSET Edit]
      <4> DEFINE T == [ws : Workspace, work : SUBSET Edit]
      <4>1. snaps \in Seq(T)
        BY DEF BInv, TypeOK, StoreOK
      <4> HIDE DEF T
      <4>2. \A i \in DOMAIN snaps : snaps[i] \in T
        BY <4>1
      <4> QED
        BY <3>1, <4>2 DEF T
    <3> QED
      BY <2>1, <3>2 DEF Restored
  <2>2. CASE loc[a].latest = NoId /\ disk[loc[a].v].branch = loc[a].w
    BY <2>2, <1>1, <1>2 DEF Restored, DiskType
  <2>3. CASE loc[a].latest = NoId /\ disk[loc[a].v].branch # loc[a].w
    BY <2>3 DEF Restored
  <2> QED
    BY <2>1, <2>2, <2>3
<1> DEFINE d == [branch |-> loc[a].w, work |-> Restored(a)]
<1>4. d \in DiskType /\ d.branch = loc[a].w
  BY <1>1, <1>3 DEF DiskType
<1>5. disk' = [disk EXCEPT ![loc[a].v] = d]
  BY DEF Checkout
<1> HIDE DEF d
<1>6. disk' \in [View -> DiskType]
  BY <1>1, <1>2, <1>4, <1>5
<1>7. StoreOK'
  BY <1>6 DEF BInv, TypeOK, StoreOK, Checkout
<1>8. GoroutinesOK'
  BY DEF BInv, TypeOK, GoroutinesOK, Checkout, Goto, InSnapshot
<1>9. KnownIds'
  BY DEF BInv, KnownIds, Checkout
<1>10. OnlyMoves(a) /\ LocalsOf(a)' /\ a # Worker
  BY <1>1, WorkerAssumption
     DEF OnlyMoves, LocalsOf, Checkout, Goto, Within, InSnapshot
<1>11. Locals'
  BY <1>10, <1>1, LocalsStep DEF BInv
<1>12. ViewsExist'
  BY <1>1, <1>2, <1>4, <1>5, NoneAssumption
     DEF BInv, Checkout, ViewsExist, Mounted
<1> QED
  BY <1>7, <1>8, <1>9, <1>11, <1>12 DEF BInv, TypeOK
(* A request to open a workspace starts.                                   *)
LEMMA BOpen ==
    ASSUME BInv, NEW a \in Request, NEW w \in Workspace, NEW v \in View,
           Open(a, w, v)
    PROVE  BInv'
<1>1. StoreOK'
  BY BoundAssumption DEF BInv, TypeOK, StoreOK, Open, Begin
<1>2. GoroutinesOK'
  BY DEF BInv, TypeOK, StoreOK, GoroutinesOK, Open, Begin, OpenLoc, Goto,
         InSnapshot, LocType, RowType
<1>3. KnownIds'
  BY DEF BInv, Open, Begin, OpenLoc, KnownIds
<1>4. Locals'
  BY WorkerAssumption
     DEF BInv, TypeOK, GoroutinesOK, Open, Begin, OpenLoc, Goto, Locals,
         Opening, Within, InSnapshot
<1>5. ViewsExist'
  BY DEF BInv, Open, Begin, OpenLoc, Mounted, ViewsExist
<1> QED
  BY <1>1, <1>2, <1>3, <1>4, <1>5 DEF BInv, TypeOK

(* A new view is connected. *)
LEMMA BNewView ==
    ASSUME BInv, NEW a \in Request, NEW w \in Workspace, NEW v \in View,
           NewView(a, w, v)
    PROVE  BInv'
<1>1. StoreOK'
  <2>1. disk' \in [View -> DiskType]
    BY DiskBranch DEF BInv, TypeOK, StoreOK, NewView
  <2> QED
    BY <2>1, BoundAssumption DEF BInv, TypeOK, StoreOK, NewView, Begin
<1>2. GoroutinesOK'
  BY DEF BInv, TypeOK, StoreOK, GoroutinesOK, NewView, Begin, OpenLoc, Goto,
         InSnapshot, LocType, RowType
<1>3. KnownIds'
  BY DEF BInv, NewView, Begin, OpenLoc, KnownIds
<1>4. Locals'
  BY WorkerAssumption
     DEF BInv, TypeOK, GoroutinesOK, NewView, Begin, OpenLoc, Goto, Locals,
         Opening, Within, InSnapshot
<1>5. ViewsExist'
  BY NoneAssumption
     DEF BInv, TypeOK, StoreOK, NewView, Begin, OpenLoc, Mounted, ViewsExist
<1> QED
  BY <1>1, <1>2, <1>3, <1>4, <1>5 DEF BInv, TypeOK

(* OpenWorkspace gives the view to the workspace. *)
LEMMA BLink ==
    ASSUME BInv, NEW a \in Request, Link(a)
    PROVE  BInv'
<1>1. StoreOK'
  <2>1. row' \in [Workspace -> RowType]
    BY RowView DEF BInv, TypeOK, StoreOK, Link, Locals, Opening, Within
  <2> QED
    BY <2>1 DEF BInv, TypeOK, StoreOK, Link
<1>2. GoroutinesOK'
  BY DEF BInv, TypeOK, GoroutinesOK, Link, Goto, InSnapshot
<1>3. KnownIds'
  BY DEF BInv, Link, KnownIds
<1>4. Locals'
  BY DEF BInv, Link, Goto, Locals, Opening, Within, InSnapshot
<1>5. ViewsExist'
  BY DEF BInv, Link, Mounted, ViewsExist
<1> QED
  BY <1>1, <1>2, <1>3, <1>4, <1>5 DEF BInv, TypeOK

(* OpenWorkspace gives the workspace to the view. *)
LEMMA BLinkView ==
    ASSUME BInv, NEW a \in Request, LinkView(a)
    PROVE  BInv'
<1>1. StoreOK'
  BY DEF BInv, TypeOK, StoreOK, LinkView, Locals, Opening, Within
<1>2. GoroutinesOK'
  BY DEF BInv, TypeOK, GoroutinesOK, LinkView, Finish, Goto, InSnapshot,
         LocType, SnapType
<1>3. KnownIds'
  BY DEF BInv, LinkView, Finish, KnownIds
<1>4. Locals'
  BY DEF BInv, TypeOK, GoroutinesOK, LinkView, Finish, Goto, Locals, Opening,
         Within, InSnapshot
<1>5. ViewsExist'
  BY NoneAssumption
     DEF BInv, LinkView, Finish, Mounted, ViewsExist, Locals, Opening,
         Within
<1> QED
  BY <1>1, <1>2, <1>3, <1>4, <1>5 DEF BInv, TypeOK

(* A request to archive a workspace starts. *)
LEMMA BArchive ==
    ASSUME BInv, NEW a \in Request, NEW w \in Workspace, Archive(a, w)
    PROVE  BInv'
<1>1. StoreOK'
  BY BoundAssumption DEF BInv, TypeOK, StoreOK, Archive, Begin
<1>2. GoroutinesOK'
  BY DEF BInv, TypeOK, StoreOK, GoroutinesOK, Archive, Begin, OpenLoc, Goto,
         InSnapshot, LocType, RowType
<1>3. KnownIds'
  BY DEF BInv, Archive, Begin, OpenLoc, KnownIds
<1>4. Locals'
  BY WorkerAssumption
     DEF BInv, TypeOK, GoroutinesOK, Archive, Begin, OpenLoc, Goto, Locals,
         Opening, Within, InSnapshot
<1>5. ViewsExist'
  BY DEF BInv, Archive, Begin, OpenLoc, Mounted, ViewsExist
<1> QED
  BY <1>1, <1>2, <1>3, <1>4, <1>5 DEF BInv, TypeOK

(* The workspace is archived. *)
LEMMA BArchiveRow ==
    ASSUME BInv, NEW a \in Request, ArchiveRow(a)
    PROVE  BInv'
<1>0. loc[a].w \in Workspace /\ row \in [Workspace -> RowType]
  BY DEF BInv, TypeOK, StoreOK, Locals, ArchiveRow
<1>a. /\ UNCHANGED <<viewWs, disk, snaps, sync>>
      /\ \A w \in Workspace :
            row'[w].latest = row[w].latest /\ row'[w].view = row[w].view
  BY <1>0 DEF ArchiveRow, RowType
<1>b. \/ Finish(a)
      \/ loc[a].view # none /\ Goto(a, "replace") /\ UNCHANGED <<loc, snap>>
  BY DEF ArchiveRow
<1>1. StoreOK'
  <2>1. row' \in [Workspace -> RowType]
    BY <1>0, RowFlags DEF ArchiveRow
  <2> QED
    BY <2>1 DEF BInv, TypeOK, StoreOK, ArchiveRow
<1>2. GoroutinesOK'
  BY FinishOK DEF BInv, TypeOK, GoroutinesOK, ArchiveRow, Goto, InSnapshot
<1>3. KnownIds'
  <2>1. \A b \in Actor : /\ loc'[b] \in {NoLoc, loc[b]}
                         /\ snap'[b] \in {NoSnap, snap[b]}
    BY <1>b DEF BInv, TypeOK, GoroutinesOK, Finish
  <2>2. \A b \in Actor : /\ loc'[b].latest \in {0, loc[b].latest}
                         /\ snap'[b].before \in {0, snap[b].before}
    BY <2>1
  <2> QED
    BY <1>a, <2>2, ZeroIsId DEF BInv, KnownIds
<1>4. Locals'
  BY <1>0, <1>b
     DEF BInv, TypeOK, GoroutinesOK, LocType, ArchiveRow, Finish, Goto,
         Locals, Opening, Within, InSnapshot
<1>5. ViewsExist'
  BY <1>a, <1>b DEF BInv, TypeOK, GoroutinesOK, Finish, Mounted, ViewsExist
<1> QED
  BY <1>1, <1>2, <1>3, <1>4, <1>5 DEF BInv, TypeOK

(* A new workspace takes its place on the view. *)
LEMMA BReplace ==
    ASSUME BInv, NEW a \in Request, Replace(a)
    PROVE  BInv'
<1>1. StoreOK'
  <2>1. NewRow \in RowType
    BY DEF RowType
  <2> QED
    BY <2>1 DEF BInv, TypeOK, StoreOK, Replace
<1>2. GoroutinesOK'
  <2>1. loc[a].view \in View
    BY DEF BInv, Locals, Replace
  <2>2. \A n \in Workspace :
            [w |-> n, v |-> loc[a].view, view |-> none, latest |-> NoId,
             cur |-> none] \in LocType
    BY <2>1 DEF LocType
  <2>3. PICK n \in Workspace : loc' =
            [loc EXCEPT ![a] = [w |-> n, v |-> loc[a].view, view |-> none,
                                latest |-> NoId, cur |-> none]]
    BY DEF Replace
  <2>4. loc' \in [Actor -> LocType]
    BY <2>2, <2>3 DEF BInv, TypeOK, GoroutinesOK
  <2> QED
    BY <2>4 DEF BInv, TypeOK, GoroutinesOK, Replace, Goto, InSnapshot
<1>3. KnownIds'
  BY DEF BInv, Replace, KnownIds
<1>4. Locals'
  BY DEF BInv, TypeOK, GoroutinesOK, Replace, Goto, Locals, Opening, Within,
         InSnapshot
<1>5. ViewsExist'
  BY DEF BInv, Replace, Mounted, ViewsExist
<1> QED
  BY <1>1, <1>2, <1>3, <1>4, <1>5 DEF BInv, TypeOK

(* Unarchive. *)
LEMMA BUnarchive ==
    ASSUME BInv, NEW a \in Request, NEW w \in Workspace, Unarchive(a, w)
    PROVE  BInv'
<1>1. StoreOK'
  <2> DEFINE r == [row[w] EXCEPT !.archived = FALSE, !.unarchived = TRUE,
                           !.view = none]
  <2>1. row[w] \in RowType
    BY DEF BInv, TypeOK, StoreOK
  <2>2. r \in RowType
    BY <2>1 DEF RowType
  <2>3. row' = [row EXCEPT ![w] = r]
    BY DEF Unarchive
  <2> HIDE DEF r
  <2> QED
    <3>1. row' \in [Workspace -> RowType]
      BY <2>2, <2>3 DEF BInv, TypeOK, StoreOK
    <3>2. started' \in 0..MaxRequests
      BY BoundAssumption DEF BInv, TypeOK, StoreOK, Unarchive
    <3> QED
      BY <3>1, <3>2 DEF BInv, TypeOK, StoreOK, Unarchive
<1>2. GoroutinesOK'
  BY DEF BInv, TypeOK, GoroutinesOK, Unarchive, InSnapshot
<1>3. KnownIds'
  BY DEF BInv, TypeOK, StoreOK, Unarchive, KnownIds
<1>4. Locals'
  BY DEF BInv, Unarchive, Locals, Opening, Within, InSnapshot
<1>5. ViewsExist'
  BY DEF BInv, TypeOK, StoreOK, Unarchive, Mounted, ViewsExist
<1> QED
  BY <1>1, <1>2, <1>3, <1>4, <1>5 DEF BInv, TypeOK

(* A request to go to a snapshot starts. *)
LEMMA BSetSnapshot ==
    ASSUME BInv, NEW a \in Request, NEW w \in Workspace,
           NEW i \in DOMAIN snaps, SetSnapshot(a, w, i)
    PROVE  BInv'
<1>1. StoreOK'
  BY BoundAssumption DEF BInv, TypeOK, StoreOK, SetSnapshot, Begin
<1>2. GoroutinesOK'
  <2>1. i \in Nat /\ row[w].view \in View \union {none}
    BY DEF BInv, TypeOK, StoreOK, RowType
  <2> DEFINE l == [w |-> w, v |-> none, view |-> row[w].view, latest |-> i,
                  cur |-> none]
  <2>2. l \in LocType
    BY <2>1 DEF LocType
  <2>3. loc' = [loc EXCEPT ![a] = l]
    BY DEF SetSnapshot, Begin
  <2> HIDE DEF l
  <2>4. /\ pc' = [pc EXCEPT ![a] = IF row[w].view = none
                                   THEN "setLatest" ELSE "restore"]
        /\ UNCHANGED <<snap, since>>
    BY DEF SetSnapshot, Begin, Goto
  <2> QED
    BY <2>2, <2>3, <2>4 DEF BInv, TypeOK, GoroutinesOK, InSnapshot
<1>3. KnownIds'
  BY DEF BInv, SetSnapshot, Begin, KnownIds
<1>4. Locals'
  BY WorkerAssumption
     DEF BInv, TypeOK, StoreOK, GoroutinesOK, SetSnapshot, Begin, Goto,
         Locals, Opening, Within, InSnapshot, RowType
<1>5. ViewsExist'
  BY DEF BInv, SetSnapshot, Begin, Mounted, ViewsExist
<1> QED
  BY <1>1, <1>2, <1>3, <1>4, <1>5 DEF BInv, TypeOK

(* SetSnapshot restores on the view. *)
LEMMA BRestoreOnView ==
    ASSUME BInv, NEW a \in Request, RestoreOnView(a)
    PROVE  BInv'
<1>1. StoreOK'
  <2> DEFINE T == [ws : Workspace, work : SUBSET Edit]
             x == snaps[loc[a].latest].work
  <2>1. /\ snaps \in Seq(T) /\ loc[a].latest \in 1..Len(snaps)
        /\ loc[a].view \in View
    <3>1. /\ snaps \in Seq(T) /\ loc[a].latest \in 0..Len(snaps)
          /\ loc[a].view \in View
      BY DEF BInv, TypeOK, StoreOK, KnownIds, Locals, RestoreOnView
    <3>2. loc[a].latest # 0
      BY DEF BInv, Locals, RestoreOnView
    <3> HIDE DEF T
    <3> QED
      BY <3>1, <3>2
  <2>2. x \in SUBSET Edit
    <3> HIDE DEF T
    <3>1. snaps[loc[a].latest] \in T
      BY <2>1
    <3> QED
      BY <3>1 DEF T
  <2>3. /\ disk \in [View -> DiskType]
        /\ disk' = [disk EXCEPT ![loc[a].view].work = x]
    BY DEF BInv, TypeOK, StoreOK, RestoreOnView
  <2> HIDE DEF x
  <2>4. disk' \in [View -> DiskType]
    BY <2>1, <2>2, <2>3, DiskWork
  <2> QED
    BY <2>4 DEF BInv, TypeOK, StoreOK, RestoreOnView
<1>2. GoroutinesOK'
  BY DEF BInv, TypeOK, GoroutinesOK, RestoreOnView, Goto, InSnapshot
<1>3. KnownIds'
  BY DEF BInv, RestoreOnView, KnownIds
<1>4. Locals'
  BY DEF BInv, RestoreOnView, Goto, Locals, Opening, Within, InSnapshot
<1>5. ViewsExist'
  BY DEF BInv, RestoreOnView, Mounted, ViewsExist
<1> QED
  BY <1>1, <1>2, <1>3, <1>4, <1>5 DEF BInv, TypeOK

(* SetSnapshot makes it the latest. *)
LEMMA BSetLatest ==
    ASSUME BInv, NEW a \in Request, SetLatest(a)
    PROVE  BInv'
<1>1. StoreOK'
  <2>1. row' \in [Workspace -> RowType]
    BY RowLatest DEF BInv, TypeOK, StoreOK, GoroutinesOK, LocType, SetLatest
  <2> QED
    BY <2>1 DEF BInv, TypeOK, StoreOK, SetLatest
<1>2. GoroutinesOK'
  BY DEF BInv, TypeOK, GoroutinesOK, SetLatest, Finish, Goto, InSnapshot,
         LocType, SnapType
<1>3. KnownIds'
  BY DEF BInv, SetLatest, Finish, KnownIds
<1>4. Locals'
  BY DEF BInv, TypeOK, GoroutinesOK, SetLatest, Finish, Goto, Locals, Opening,
         Within, InSnapshot
<1>5. ViewsExist'
  BY DEF BInv, SetLatest, Finish, Mounted, ViewsExist
<1> QED
  BY <1>1, <1>2, <1>3, <1>4, <1>5 DEF BInv, TypeOK

(* The owner edits. *)
LEMMA BMakeEdit ==
    ASSUME BInv, NEW v \in View, NEW e \in Edit, MakeEdit(v, e)
    PROVE  BInv'
<1>1. StoreOK'
  <2>1. disk' \in [View -> DiskType]
    BY DEF BInv, TypeOK, StoreOK, DiskType, MakeEdit
  <2> QED
    BY <2>1 DEF BInv, TypeOK, StoreOK, MakeEdit
<1>2. GoroutinesOK'
  BY DEF BInv, TypeOK, GoroutinesOK, MakeEdit, InSnapshot
<1>3. KnownIds'
  BY DEF BInv, MakeEdit, KnownIds
<1>4. Locals'
  BY DEF BInv, MakeEdit, Locals, Opening, Within, InSnapshot
<1>5. ViewsExist'
  BY DEF BInv, MakeEdit, Mounted, ViewsExist
<1> QED
  BY <1>1, <1>2, <1>3, <1>4, <1>5 DEF BInv, TypeOK

(* SyncTransitions reads the view, *)
LEMMA BSyncRead ==
    ASSUME BInv, NEW v \in View, SyncRead(v)
    PROVE  BInv'
<1>1. StoreOK'
  BY DEF BInv, TypeOK, StoreOK, SyncRead, Mounted, ViewsExist
<1>2. GoroutinesOK'
  BY DEF BInv, TypeOK, GoroutinesOK, SyncRead, InSnapshot
<1>3. KnownIds'
  BY DEF BInv, SyncRead, KnownIds
<1>4. Locals'
  BY DEF BInv, SyncRead, Locals, Opening, Within, InSnapshot
<1>5. ViewsExist'
  BY DEF BInv, SyncRead, Mounted, ViewsExist
<1> QED
  BY <1>1, <1>2, <1>3, <1>4, <1>5 DEF BInv, TypeOK

(* and writes it back. *)
LEMMA BSyncWrite ==
    ASSUME BInv, NEW v \in View, SyncWrite(v)
    PROVE  BInv'
<1>1. StoreOK'
  BY DEF BInv, TypeOK, StoreOK, SyncWrite
<1>2. GoroutinesOK'
  BY DEF BInv, TypeOK, GoroutinesOK, SyncWrite, InSnapshot
<1>3. KnownIds'
  BY DEF BInv, SyncWrite, KnownIds
<1>4. Locals'
  BY DEF BInv, SyncWrite, Locals, Opening, Within, InSnapshot
<1>5. ViewsExist'
  BY NoneAssumption DEF BInv, SyncWrite, Mounted, ViewsExist
<1> QED
  BY <1>1, <1>2, <1>3, <1>4, <1>5 DEF BInv, TypeOK

(* The queue worker takes a message: it calls Snapshot and returns to *)
(* idle.                                                                   *)
LEMMA BWorkerTake ==
    ASSUME BInv, WorkerTake
    PROVE  BInv'
<1>1. StoreOK'
  BY DEF BInv, TypeOK, StoreOK, WorkerTake
<1>2. GoroutinesOK'
  <2> DEFINE T == [view : View, ws : Workspace]
  <2>1. queue \in Seq(T) /\ queue # <<>>
    BY DEF BInv, TypeOK, StoreOK, WorkerTake
  <2>2. Head(queue) \in T
    <3> HIDE DEF T
    <3> QED
      BY <2>1
  <2>3. /\ Head(queue).ws \in Workspace /\ Head(queue).view \in View
        /\ Call(Worker, Head(queue).ws, Head(queue).view, FALSE, "idle")
    BY <2>2 DEF WorkerTake
  <2>4. /\ pc' \in [Actor -> PC] /\ snap' \in [Actor -> SnapType]
        /\ (\A b \in Actor : InSnapshot(b) =>
               snap[b].ws \in Workspace /\ snap[b].view \in View)'
    <3>1. GoroutinesOK /\ Worker \in Actor
      BY DEF BInv, TypeOK
    <3> QED
      BY <2>3, <3>1, CallOK
  <2> QED
    BY <2>4 DEF BInv, TypeOK, GoroutinesOK, WorkerTake
<1>3. KnownIds'
  BY DEF BInv, WorkerTake, Call, KnownIds
<1>4. Locals'
  BY DEF BInv, TypeOK, GoroutinesOK, WorkerTake, Call, Goto, Locals, Opening,
         Within, InSnapshot
<1>5. ViewsExist'
  BY DEF BInv, WorkerTake, Mounted, ViewsExist
<1> QED
  BY <1>1, <1>2, <1>3, <1>4, <1>5 DEF BInv, TypeOK

(* A step fails. *)
LEMMA BFail ==
    ASSUME BInv, NEW a \in Actor, Fail(a)
    PROVE  BInv'
<1>1. StoreOK'
  BY BoundAssumption DEF BInv, TypeOK, StoreOK, Fail, CanFail
<1>2. GoroutinesOK'
  BY DEF BInv, TypeOK, GoroutinesOK, Fail, Finish, Goto, InSnapshot, LocType,
         SnapType
<1>3. KnownIds'
  BY DEF BInv, Fail, Finish, KnownIds
<1>4. Locals'
  BY DEF BInv, TypeOK, GoroutinesOK, Fail, Finish, Goto, Locals, Opening,
         Within, InSnapshot
<1>5. ViewsExist'
  BY DEF BInv, Fail, Finish, Mounted, ViewsExist
<1> QED
  BY <1>1, <1>2, <1>3, <1>4, <1>5 DEF BInv, TypeOK

(* Snapshot fails after it has created its row. *)
LEMMA BFailToMark ==
    ASSUME BInv, NEW a \in Actor, FailToMark(a)
    PROVE  BInv'
<1>1. StoreOK'
  BY BoundAssumption
     DEF BInv, TypeOK, StoreOK, GoroutinesOK, FailToMark, CanFail,
         CreateSnapshot, InSnapshot, SnapType
<1>2. GoroutinesOK'
  BY DEF BInv, TypeOK, GoroutinesOK, FailToMark, Finish, Goto, InSnapshot,
         LocType, SnapType
<1>3. KnownIds'
  BY DEF BInv, FailToMark, Finish, CreateSnapshot, KnownIds
<1>4. Locals'
  BY WorkerAssumption
     DEF BInv, TypeOK, GoroutinesOK, FailToMark, Finish, Goto, Locals,
         Opening, Within, InSnapshot
<1>5. ViewsExist'
  BY DEF BInv, FailToMark, Finish, Mounted, ViewsExist
<1> QED
  BY <1>1, <1>2, <1>3, <1>4, <1>5 DEF BInv, TypeOK

-----------------------------------------------------------------------------
(* BInv holds at first.                                                    *)
LEMMA BInit ==
    ASSUME Init
    PROVE  BInv
<1>1. PICK W \in SUBSET Workspace :
          row = [w \in Workspace |-> [NewRow EXCEPT !.exists = w \in W]]
  BY DEF Init
<1>2. StoreOK
  <2>1. \A b \in BOOLEAN : [NewRow EXCEPT !.exists = b] \in RowType
    BY NoneAssumption DEF RowType
  <2>3. \A w \in Workspace : (w \in W) \in BOOLEAN
    OBVIOUS
  <2>4. row \in [Workspace -> RowType]
    BY <1>1, <2>1, <2>3
  <2>2. disk \in [View -> DiskType]
    BY DEF Init, DiskType
  <2>5. /\ snaps \in Seq([ws : Workspace, work : SUBSET Edit])
        /\ queue \in Seq([view : View, ws : Workspace])
    BY DEF Init
  <2>6. /\ viewWs \in [View -> Workspace \union {none}]
        /\ sync \in [View -> {"quiet", "changed"} \union Workspace]
        /\ started \in 0..MaxRequests /\ failed \in 0..MaxFailures
    BY BoundAssumption DEF Init
  <2> QED
    BY <2>2, <2>4, <2>5, <2>6 DEF StoreOK
<1>3. GoroutinesOK
  BY DEF Init, GoroutinesOK, LocType, SnapType, InSnapshot
<1>4. KnownIds
  BY <1>1 DEF Init, KnownIds
<1>5. Locals
  BY DEF Init, Locals, Opening, Within
<1>6. ViewsExist
  BY <1>1 DEF Init, ViewsExist, Mounted
<1> QED
  BY <1>2, <1>3, <1>4, <1>5, <1>6 DEF BInv, TypeOK

(* Only requests open, archive or restore: the worker takes snapshots. *)
LEMMA RequestsOnly ==
    ASSUME Locals, NEW a \in Actor, OpenStep(a) \/ WorkspaceStep(a)
    PROVE  a \in Request
  BY DEF Locals, Within, InSnapshot, OpenStep, WorkspaceStep, Lookup, Detach,
         Checkout, Link, LinkView, ArchiveRow, Replace, RestoreOnView,
         SetLatest

(* BInv is inductive. *)
LEMMA BNext ==
    ASSUME BInv, [Next]_vars
    PROVE  BInv'
<1>1. ASSUME NEW a \in Request, StartRequest(a)
      PROVE  BInv'
  BY <1>1, BOpen, BNewView, BArchive, BUnarchive, BSetSnapshot DEF StartRequest
<1>2. ASSUME NEW a \in Actor, Run(a)
      PROVE  BInv'
  <2>1. CASE SnapStep(a)
    BY <2>1, BSnapRead, BSnapExec, BSnapSame, BSnapSave DEF SnapStep
  <2>2. CASE OpenStep(a) \/ WorkspaceStep(a)
    <3>1. a \in Request
      BY <2>2, RequestsOnly DEF BInv
    <3> QED
      BY <2>2, <3>1, BLookup, BDetach, BCheckout, BLink, BLinkView,
         BArchiveRow, BReplace, BRestoreOnView, BSetLatest
         DEF OpenStep, WorkspaceStep
  <2> QED
    BY <1>2, <2>1, <2>2 DEF Run
<1>3. CASE AnyEdit
  BY <1>3, BMakeEdit DEF AnyEdit
<1>4. ASSUME NEW v \in View, MutagenStep(v)
      PROVE  BInv'
  BY <1>4, BSyncRead, BSyncWrite DEF MutagenStep
<1>5. CASE WorkerTake
  BY <1>5, BWorkerTake
<1>6. CASE Crash
  BY <1>6, BFail, BFailToMark DEF Crash
<1>7. CASE UNCHANGED vars
  BY <1>7
     DEF vars, BInv, TypeOK, StoreOK, GoroutinesOK, InSnapshot, KnownIds,
         Locals, Opening, Within, ViewsExist, Mounted
<1> QED
  BY <1>1, <1>2, <1>3, <1>4, <1>5, <1>6, <1>7 DEF Next

(* Whatever races and fails, Drafts keeps its types: a goroutine in *)
(* Snapshot has a workspace and a view, ids of snapshots and the counters  *)
(* stay in range.                                                          *)
THEOREM TypeCorrect == Spec => []TypeOK
<1>1. Init => BInv
  BY BInit
<1>2. BInv /\ [Next]_vars => BInv'
  BY BNext
<1>3. BInv => TypeOK
  BY DEF BInv
<1> QED
  BY <1>1, <1>2, <1>3, PTL DEF Spec

-----------------------------------------------------------------------------
(* Who is open where.                                                      *)
SInv == OnlyCurrentIsOpen /\ LinkedIsCheckedOut

(* A step that moves no workspace to or from a view, and checks nothing *)
(* out.                                                                    *)
SameWhere == /\ \A w \in Workspace : row'[w].view = row[w].view
             /\ \A v \in View : disk'[v].branch = disk[v].branch

(* A request that does not get further in OpenWorkspace. *)
KeepsPlace(a) ==
    \A at \in {"detach", "checkout", "link"} :
        Within(a, at)' => Within(a, at) /\ loc'[a] = loc[a]

(* Such steps preserve SInv, for any number of requests. *)
LEMMA Quiet ==
    ASSUME BInv, SInv, SameWhere, \A a \in Request : KeepsPlace(a)
    PROVE  SInv'
<1>1. \A w \in Workspace : row[w].view \in View \union {none}
  BY DEF BInv, TypeOK, StoreOK, RowType
<1>2. LinkedIsCheckedOut'
  BY <1>1 DEF SInv, LinkedIsCheckedOut, SameWhere
<1>3. ASSUME NEW a \in Request, Opening(a)
      PROVE  loc[a].v \in View
  BY <1>3 DEF BInv, Locals
<1>4. \A v \in View : OpenOn(v)' = OpenOn(v)
  BY DEF SameWhere, OpenOn
<1>5. ASSUME NEW a \in Request
      PROVE  /\ Within(a, "detach")'
                   => OpenOn(loc[a].v)' \subseteq {loc[a].cur}'
             /\ Within(a, "checkout")' => OpenOn(loc[a].v)' = {}
             /\ Within(a, "link")'     => (disk[loc[a].v].branch = loc[a].w)'
  <2>1. CASE Within(a, "detach")'
    BY <2>1, <1>3, <1>4
       DEF KeepsPlace, SInv, OnlyCurrentIsOpen, Opening, Within, InSnapshot
  <2>2. CASE Within(a, "checkout")'
    BY <2>2, <1>3, <1>4
       DEF KeepsPlace, SInv, OnlyCurrentIsOpen, Opening, Within, InSnapshot
  <2>3. CASE Within(a, "link")'
    <3>1. Within(a, "link") /\ loc'[a] = loc[a]
      BY <2>3 DEF KeepsPlace
    <3>2. loc[a].v \in View
      BY <3>1, <1>3 DEF Opening
    <3>3. ~Within(a, "detach")' /\ ~Within(a, "checkout")'
      BY <2>3 DEF Within, InSnapshot
    <3> QED
      BY <3>1, <3>2, <3>3 DEF SInv, OnlyCurrentIsOpen, SameWhere
  <2> QED
    BY <2>1, <2>2, <2>3
<1>6. OnlyCurrentIsOpen'
  BY <1>5 DEF OnlyCurrentIsOpen
<1> QED
  BY <1>2, <1>6 DEF SInv

(* Snapshots are quiet: they know no view, ... *)
LEMMA SSnapRead ==
    ASSUME BInv, SInv, NEW a \in Actor, SnapRead(a)
    PROVE  SInv'
<1>1. SameWhere
  BY DEF SnapRead, Goto, SameWhere
<1>2. \A b \in Request : KeepsPlace(b)
  <2>1. PICK i \in 0..Len(snaps) :
            snap' = [snap EXCEPT ![a].rowView = row[snap[a].ws].view,
                                 ![a].before = i]
    BY DEF SnapRead
  <2>2. \A b \in Actor : snap'[b].ret = snap[b].ret
    BY <2>1 DEF BInv, TypeOK, GoroutinesOK, SnapType
  <2> QED
    BY <2>2 DEF SnapRead, Goto, KeepsPlace, Within, InSnapshot
<1> QED
  BY <1>1, <1>2, Quiet

LEMMA SSnapExec ==
    ASSUME BInv, SInv, NEW a \in Actor, SnapExec(a)
    PROVE  SInv'
<1>1. SameWhere
  BY DEF SnapExec, Goto, SameWhere
<1>2. \A b \in Request : KeepsPlace(b)
  <2>2. \A b \in Actor : snap'[b].ret = snap[b].ret
    BY DEF SnapExec, BInv, TypeOK, GoroutinesOK, SnapType
  <2> QED
    BY <2>2 DEF SnapExec, Goto, KeepsPlace, Within, InSnapshot
<1> QED
  BY <1>1, <1>2, Quiet

LEMMA SSnapSame ==
    ASSUME BInv, SInv, NEW a \in Actor, SnapSame(a)
    PROVE  SInv'
<1>1. SameWhere
  BY DEF SnapSame, Return, Finish, Goto, SameWhere
<1>2. \A b \in Request : KeepsPlace(b)
  BY DEF BInv, TypeOK, GoroutinesOK, SnapSame, Return, Finish, Goto,
         KeepsPlace, Within, InSnapshot
<1> QED
  BY <1>1, <1>2, Quiet

LEMMA SSnapSave ==
    ASSUME BInv, SInv, NEW a \in Actor, SnapSave(a)
    PROVE  SInv'
<1>1. SameWhere
  <2>1. row' = row \/ row' = [row EXCEPT ![snap[a].ws].latest = Len(snaps) + 1]
    BY DEF SnapSave
  <2>2. row \in [Workspace -> RowType] /\ disk' = disk
    BY DEF BInv, TypeOK, StoreOK, SnapSave
  <2> QED
    BY <2>1, <2>2 DEF SameWhere, RowType
<1>2. \A b \in Request : KeepsPlace(b)
  BY DEF BInv, TypeOK, GoroutinesOK, SnapSave, Return, Finish, Goto,
         KeepsPlace, Within, InSnapshot
<1> QED
  BY <1>1, <1>2, Quiet

(* Requests that only have read rows are quiet, ... *)
LEMMA SOpen ==
    ASSUME BInv, SInv, NEW a \in Request, NEW w \in Workspace, NEW v \in View,
           Open(a, w, v)
    PROVE  SInv'
<1>1. SameWhere
  BY DEF Open, Begin, Goto, SameWhere
<1>2. \A b \in Request : KeepsPlace(b)
  BY DEF Open, Begin, Goto, KeepsPlace, Within, InSnapshot
<1> QED
  BY <1>1, <1>2, Quiet

LEMMA SArchive ==
    ASSUME BInv, SInv, NEW a \in Request, NEW w \in Workspace, Archive(a, w)
    PROVE  SInv'
<1>1. SameWhere
  BY DEF Archive, Begin, Goto, SameWhere
<1>2. \A b \in Request : KeepsPlace(b)
  BY DEF Archive, Begin, Goto, KeepsPlace, Within, InSnapshot
<1> QED
  BY <1>1, <1>2, Quiet

LEMMA SSetSnapshot ==
    ASSUME BInv, SInv, NEW a \in Request, NEW w \in Workspace,
           NEW i \in DOMAIN snaps, SetSnapshot(a, w, i)
    PROVE  SInv'
<1>1. SameWhere
  BY DEF SetSnapshot, Begin, Goto, SameWhere
<1>2. \A b \in Request : KeepsPlace(b)
  BY DEF SetSnapshot, Begin, Goto, KeepsPlace, Within, InSnapshot
<1> QED
  BY <1>1, <1>2, Quiet

(* ... so is the second half of a link, ... *)
LEMMA SLinkView ==
    ASSUME BInv, SInv, NEW a \in Request, LinkView(a)
    PROVE  SInv'
<1>1. SameWhere
  BY DEF LinkView, Finish, Goto, SameWhere
<1>2. \A b \in Request : KeepsPlace(b)
  BY DEF LinkView, Finish, Goto, KeepsPlace, Within, InSnapshot
<1> QED
  BY <1>1, <1>2, Quiet

LEMMA SArchiveRow ==
    ASSUME BInv, SInv, NEW a \in Request, ArchiveRow(a)
    PROVE  SInv'
<1>1. SameWhere
  <2>1. row \in [Workspace -> RowType]
    BY DEF BInv, TypeOK, StoreOK
  <2> QED
    BY <2>1 DEF ArchiveRow, SameWhere, RowType
<1>2. \A b \in Request : KeepsPlace(b)
  BY DEF BInv, TypeOK, GoroutinesOK, ArchiveRow, Finish, Goto, KeepsPlace,
         Within, InSnapshot
<1> QED
  BY <1>1, <1>2, Quiet

LEMMA SRestoreOnView ==
    ASSUME BInv, SInv, NEW a \in Request, RestoreOnView(a)
    PROVE  SInv'
<1>1. SameWhere
  BY DEF RestoreOnView, SameWhere
<1>2. \A b \in Request : KeepsPlace(b)
  BY DEF RestoreOnView, Goto, KeepsPlace, Within, InSnapshot
<1> QED
  BY <1>1, <1>2, Quiet

LEMMA SSetLatest ==
    ASSUME BInv, SInv, NEW a \in Request, SetLatest(a)
    PROVE  SInv'
<1>1. SameWhere
  BY DEF SetLatest, SameWhere
<1>2. \A b \in Request : KeepsPlace(b)
  BY DEF SetLatest, Finish, Goto, KeepsPlace, Within, InSnapshot
<1> QED
  BY <1>1, <1>2, Quiet

(* ... edits, syncing and the worker, ... *)
LEMMA SMakeEdit ==
    ASSUME BInv, SInv, NEW v \in View, NEW e \in Edit, MakeEdit(v, e)
    PROVE  SInv'
<1>1. SameWhere
  BY DEF MakeEdit, SameWhere
<1>2. \A b \in Request : KeepsPlace(b)
  BY DEF MakeEdit, KeepsPlace, Within, InSnapshot
<1> QED
  BY <1>1, <1>2, Quiet

LEMMA SSyncRead ==
    ASSUME BInv, SInv, NEW v \in View, SyncRead(v)
    PROVE  SInv'
<1>1. SameWhere
  BY DEF SyncRead, Goto, SameWhere
<1>2. \A b \in Request : KeepsPlace(b)
  BY DEF SyncRead, KeepsPlace, Within, InSnapshot
<1> QED
  BY <1>1, <1>2, Quiet

LEMMA SSyncWrite ==
    ASSUME BInv, SInv, NEW v \in View, SyncWrite(v)
    PROVE  SInv'
<1>1. SameWhere
  BY DEF SyncWrite, Goto, SameWhere
<1>2. \A b \in Request : KeepsPlace(b)
  BY DEF SyncWrite, KeepsPlace, Within, InSnapshot
<1> QED
  BY <1>1, <1>2, Quiet

LEMMA SWorkerTake ==
    ASSUME BInv, SInv, WorkerTake
    PROVE  SInv'
<1>1. SameWhere
  BY DEF WorkerTake, Call, Goto, SameWhere
<1>2. \A b \in Request : KeepsPlace(b)
  BY DEF BInv, TypeOK, GoroutinesOK, WorkerTake, Call, Goto, KeepsPlace,
         Within, InSnapshot
<1> QED
  BY <1>1, <1>2, Quiet

(* ... and failures, which leave OpenWorkspace where it is for good. *)
LEMMA SFail ==
    ASSUME BInv, SInv, NEW a \in Actor, Fail(a)
    PROVE  SInv'
<1>1. SameWhere
  BY DEF Fail, Finish, Goto, CanFail, SameWhere
<1>2. \A b \in Request : KeepsPlace(b)
  BY DEF BInv, TypeOK, GoroutinesOK, Fail, Finish, Goto, KeepsPlace, Within,
         InSnapshot
<1> QED
  BY <1>1, <1>2, Quiet

LEMMA SFailToMark ==
    ASSUME BInv, SInv, NEW a \in Actor, FailToMark(a)
    PROVE  SInv'
<1>1. SameWhere
  BY DEF FailToMark, Finish, Goto, CanFail, SameWhere
<1>2. \A b \in Request : KeepsPlace(b)
  BY DEF BInv, TypeOK, GoroutinesOK, FailToMark, Finish, Goto, KeepsPlace,
         Within, InSnapshot
<1> QED
  BY <1>1, <1>2, Quiet

-----------------------------------------------------------------------------
(* One request at a time.                                                  *)
Serial == \A x, y \in Request : x = y

(* The steps that open, close or create a workspace.  A new view is one *)
(* that no workspace is open on.                                           *)
LEMMA SNewView ==
    ASSUME BInv, SInv, Serial, NEW a \in Request,
           NEW w \in Workspace, NEW v \in View,
           NewView(a, w, v)
    PROVE  SInv'
<1>1. \A x \in Workspace : row[x].view # v
  BY NoneAssumption DEF BInv, ViewsExist, NewView
<1>2. LinkedIsCheckedOut'
  BY <1>1 DEF SInv, LinkedIsCheckedOut, NewView
<1>3. pc'[a] = "lookup"
  BY DEF BInv, TypeOK, GoroutinesOK, NewView, Begin, Goto
<1>4. OnlyCurrentIsOpen'
  BY <1>3 DEF Serial, OnlyCurrentIsOpen, Within, InSnapshot
<1> QED
  BY <1>2, <1>4 DEF SInv

(* After Lookup only the workspace it found is open on the view. *)
LEMMA SLookup ==
    ASSUME BInv, SInv, Serial, NEW a \in Request, Lookup(a)
    PROVE  SInv'
<1>1. UNCHANGED <<row, disk>> /\ a \in Actor
  BY DEF Lookup
<1>2. LinkedIsCheckedOut'
  BY <1>1 DEF SInv, LinkedIsCheckedOut
<1>3. loc[a] \in LocType /\ loc[a].v # none
  BY <1>1, NoneAssumption
     DEF BInv, TypeOK, GoroutinesOK, Locals, Opening, Within, Lookup
<1>4. CASE \E c \in OpenOn(loc[a].v) :
              /\ loc' = [loc EXCEPT ![a].cur = c]
              /\ Call(a, c, loc[a].v, TRUE, "detach")
  <2>1. PICK c \in OpenOn(loc[a].v) :
              /\ loc' = [loc EXCEPT ![a].cur = c]
              /\ Call(a, c, loc[a].v, TRUE, "detach")
    BY <1>4
  <2>2. /\ loc'[a].v = loc[a].v /\ loc'[a].cur = c
        /\ pc'[a] = "snapRead" /\ snap'[a].ret = "detach"
    BY <2>1, <1>1, <1>3 DEF BInv, TypeOK, GoroutinesOK, Call, Goto
  <2>3. OpenOn(loc[a].v) \subseteq {c}
    BY <2>1, <1>3 DEF OpenOn, SInv, LinkedIsCheckedOut
  <2>4. OpenOn(loc[a].v)' \subseteq {c}
    BY <1>1, <2>2, <2>3 DEF OpenOn
  <2>5. OnlyCurrentIsOpen'
    BY <2>2, <2>4 DEF Serial, OnlyCurrentIsOpen, Within
  <2> QED
    BY <1>2, <2>5 DEF SInv
<1>5. CASE OpenOn(loc[a].v) = {} /\ SaveOwn(a) /\ UNCHANGED loc
  <2>1. Within(a, "checkout")' /\ ~Within(a, "detach")'
    BY <1>1, <1>5, SaveOwnOK DEF BInv, TypeOK, Locals, Opening, Within, Lookup
  <2>2. OpenOn(loc[a].v)' = {}
    BY <1>1, <1>5 DEF OpenOn
  <2>3. OnlyCurrentIsOpen'
    BY <2>1, <2>2 DEF Serial, OnlyCurrentIsOpen, Within, InSnapshot
  <2> QED
    BY <1>2, <2>3 DEF SInv
<1> QED
  BY <1>4, <1>5 DEF Lookup

(* After Detach no workspace is. *)
LEMMA SDetach ==
    ASSUME BInv, SInv, Serial, NEW a \in Request, Detach(a)
    PROVE  SInv'
<1>1. /\ loc[a].w \in Workspace /\ loc[a].v # none
      /\ loc[a].cur \in Workspace /\ Within(a, "detach")
  BY NoneAssumption DEF BInv, Locals, Opening, Within, Detach
<1>2. /\ row' = [row EXCEPT ![loc[a].cur].view = none] /\ SaveOwn(a)
      /\ UNCHANGED <<disk, loc>>
  BY DEF Detach
<1>3. \A w \in Workspace :
          row'[w].view = IF w = loc[a].cur THEN none ELSE row[w].view
  BY <1>1, <1>2 DEF BInv, TypeOK, StoreOK
<1>4. LinkedIsCheckedOut'
  BY <1>2, <1>3 DEF SInv, LinkedIsCheckedOut
<1>5. OpenOn(loc[a].v)' = {}
  BY <1>1, <1>2, <1>3 DEF SInv, OnlyCurrentIsOpen, OpenOn
<1>6. Within(a, "checkout")' /\ ~Within(a, "detach")'
  BY <1>1, <1>2, SaveOwnOK DEF BInv, TypeOK
<1>7. OnlyCurrentIsOpen'
  BY <1>5, <1>6 DEF Serial, OnlyCurrentIsOpen, Within, InSnapshot
<1> QED
  BY <1>4, <1>7 DEF SInv

(* So the checkout takes the branch away from nobody, ... *)
LEMMA SCheckout ==
    ASSUME BInv, SInv, Serial, NEW a \in Request, Checkout(a)
    PROVE  SInv'
<1>1. loc[a].v \in View /\ Within(a, "checkout")
  BY DEF BInv, Locals, Opening, Within, Checkout
<1>2. UNCHANGED <<row, loc, snap>> /\ pc'[a] = "link"
  BY DEF BInv, TypeOK, GoroutinesOK, Checkout, Goto
<1>3. /\ disk'[loc[a].v].branch = loc[a].w
      /\ \A v \in View \ {loc[a].v} : disk'[v] = disk[v]
  BY <1>1 DEF BInv, TypeOK, StoreOK, Checkout
<1>4. \A w \in Workspace : row[w].view # loc[a].v
  BY <1>1 DEF SInv, OnlyCurrentIsOpen, OpenOn
<1>5. LinkedIsCheckedOut'
  BY <1>2, <1>3, <1>4
     DEF SInv, LinkedIsCheckedOut, BInv, TypeOK, StoreOK, RowType
<1>6. OnlyCurrentIsOpen'
  BY <1>2, <1>3 DEF Serial, OnlyCurrentIsOpen, Within, InSnapshot
<1> QED
  BY <1>5, <1>6 DEF SInv

(* ... and the workspace that gets the view is checked out there. *)
LEMMA SLink ==
    ASSUME BInv, SInv, Serial, NEW a \in Request, Link(a)
    PROVE  SInv'
<1>1. loc[a].v \in View /\ loc[a].w \in Workspace /\ Within(a, "link")
  BY DEF BInv, Locals, Opening, Within, Link
<1>2. \A w \in Workspace :
          row'[w].view = IF w = loc[a].w THEN loc[a].v ELSE row[w].view
  BY <1>1 DEF BInv, TypeOK, StoreOK, Link
<1>3. disk' = disk /\ disk[loc[a].v].branch = loc[a].w
  BY <1>1 DEF SInv, OnlyCurrentIsOpen, Link
<1>4. LinkedIsCheckedOut'
  BY <1>2, <1>3 DEF SInv, LinkedIsCheckedOut
<1>5. pc'[a] = "linkView"
  BY DEF BInv, TypeOK, GoroutinesOK, Link, Goto
<1>6. OnlyCurrentIsOpen'
  BY <1>5 DEF Serial, OnlyCurrentIsOpen, Within, InSnapshot
<1> QED
  BY <1>4, <1>6 DEF SInv

(* A workspace that replaces an archived one has no view yet. *)
LEMMA SReplace ==
    ASSUME BInv, SInv, Serial, NEW a \in Request, Replace(a)
    PROVE  SInv'
<1>1. \A w \in Workspace : row'[w].view \in {none, row[w].view}
  BY DEF BInv, TypeOK, StoreOK, Replace
<1>2. disk' = disk /\ pc'[a] = "lookup"
  BY DEF BInv, TypeOK, GoroutinesOK, Replace, Goto
<1>3. LinkedIsCheckedOut'
  BY <1>1, <1>2 DEF SInv, LinkedIsCheckedOut
<1>4. OnlyCurrentIsOpen'
  BY <1>2 DEF Serial, OnlyCurrentIsOpen, Within, InSnapshot
<1> QED
  BY <1>3, <1>4 DEF SInv

(* Nor has an unarchived one. *)
LEMMA SUnarchive ==
    ASSUME BInv, SInv, Serial, NEW a \in Request, NEW w \in Workspace,
           Unarchive(a, w)
    PROVE  SInv'
<1>1. \A x \in Workspace : row'[x].view \in {none, row[x].view}
  BY DEF BInv, TypeOK, StoreOK, RowType, Unarchive
<1>2. disk' = disk /\ pc'[a] = "idle"
  BY DEF Unarchive
<1>3. LinkedIsCheckedOut'
  BY <1>1, <1>2 DEF SInv, LinkedIsCheckedOut
<1>4. OnlyCurrentIsOpen'
  BY <1>2 DEF Serial, OnlyCurrentIsOpen, Within, InSnapshot
<1> QED
  BY <1>3, <1>4 DEF SInv

(* SInv is inductive relative to BInv when there is one request at a time. *)
LEMMA SNext ==
    ASSUME BInv, SInv, Serial, [Next]_vars
    PROVE  SInv'
<1>1. ASSUME NEW a \in Request, StartRequest(a)
      PROVE  SInv'
  BY <1>1, SOpen, SNewView, SArchive, SUnarchive, SSetSnapshot DEF StartRequest
<1>2. ASSUME NEW a \in Actor, SnapStep(a)
      PROVE  SInv'
  BY <1>2, SSnapRead, SSnapExec, SSnapSame, SSnapSave DEF SnapStep
<1>3. ASSUME NEW a \in Actor, OpenStep(a) \/ WorkspaceStep(a)
      PROVE  SInv'
  <2>1. a \in Request
    BY <1>3, RequestsOnly DEF BInv
  <2> QED
    BY <1>3, <2>1, SLookup, SDetach, SCheckout, SLink, SLinkView, SArchiveRow,
       SReplace, SRestoreOnView, SSetLatest
       DEF OpenStep, WorkspaceStep
<1>4. CASE AnyEdit
  BY <1>4, SMakeEdit DEF AnyEdit
<1>5. ASSUME NEW v \in View, MutagenStep(v)
      PROVE  SInv'
  BY <1>5, SSyncRead, SSyncWrite DEF MutagenStep
<1>6. CASE WorkerTake
  BY <1>6, SWorkerTake
<1>7. CASE Crash
  BY <1>7, SFail, SFailToMark DEF Crash
<1>8. CASE UNCHANGED vars
  BY <1>8
     DEF vars, SInv, LinkedIsCheckedOut, OnlyCurrentIsOpen, OpenOn, Within,
         InSnapshot
<1> QED
  BY <1>1, <1>2, <1>3, <1>4, <1>5, <1>6, <1>7, <1>8 DEF Next, Run

(* With one request at a time, and the worker, mutagen and failures at any *)
(* moment, SerialInv holds, for any workspaces, views and edits.           *)
THEOREM SerialInvariant ==
    ASSUME \A x, y \in Request : x = y
    PROVE  Spec => []SerialInv
<1>1. Init => BInv /\ SInv
  <2>1. ASSUME Init
        PROVE  SInv
    BY <2>1
       DEF Init, SInv, LinkedIsCheckedOut, OnlyCurrentIsOpen, Within,
           InSnapshot
  <2> QED
    BY <2>1, BInit
<1>2. BInv /\ SInv /\ [Next]_vars => BInv' /\ SInv'
  BY BNext, SNext DEF Serial
<1>3. BInv /\ SInv => SerialInv
  BY DEF BInv, SInv, SerialInv
<1> QED
  BY <1>1, <1>2, <1>3, PTL DEF Spec

(* With one request at a time a workspace that has a view is the branch *)
(* checked out there, whichever step of OpenWorkspace, Archive or Snapshot *)
(* fails: what the snapshotter, the sync and landing rely on.              *)
THEOREM CheckedOutWhileSerial ==
    ASSUME \A x, y \in Request : x = y
    PROVE  Spec => []LinkedIsCheckedOut
<1>1. SerialInv => LinkedIsCheckedOut
  BY DEF SerialInv
<1> QED
  BY <1>1, SerialInvariant, PTL

-----------------------------------------------------------------------------
(* OpenWorkspace saves what it overwrites.                                 *)

(* No snapshot is lost, and what a step puts on a view is in one, unless it*)
(* is an edit.                                                             *)
Puts ==
    /\ Saved \subseteq Saved'
    /\ \A v \in View : disk'[v].work \subseteq disk[v].work \union Saved

LEMMA SavedHas ==
    ASSUME BInv, NEW i \in 1..Len(snaps)
    PROVE  snaps[i].work \subseteq Saved
<1>1. DOMAIN snaps = 1..Len(snaps)
  BY DEF BInv, TypeOK, StoreOK
<1> QED
  BY <1>1 DEF Saved

LEMMA SavedGrows ==
    ASSUME BInv, NEW a \in Actor, InSnapshot(a), CreateSnapshot(a)
    PROVE  Saved' = Saved \union snap[a].work
<1> DEFINE T == [ws : Workspace, work : SUBSET Edit]
           s == [ws |-> snap[a].ws, work |-> snap[a].work]
<1>1. s \in T /\ s.work = snap[a].work
  BY DEF BInv, TypeOK, GoroutinesOK, SnapType
<1>2. snaps \in Seq(T) /\ snaps' = Append(snaps, s)
  BY DEF BInv, TypeOK, StoreOK, CreateSnapshot
<1> HIDE DEF s, T
<1>3. /\ DOMAIN snaps = 1..Len(snaps) /\ Len(snaps) \in Nat
      /\ DOMAIN snaps' = 1..(Len(snaps) + 1) /\ snaps'[Len(snaps) + 1] = s
      /\ \A i \in 1..Len(snaps) : snaps'[i] = snaps[i]
  BY <1>1, <1>2
<1>4. 1..(Len(snaps) + 1) = 1..Len(snaps) \union {Len(snaps) + 1}
  BY <1>3
<1>5. Saved = UNION {snaps[i].work : i \in 1..Len(snaps)}
  BY <1>3 DEF Saved
<1>6. Saved' = UNION {snaps'[i].work : i \in 1..(Len(snaps) + 1)}
  BY <1>3 DEF Saved
<1> QED
  BY <1>1, <1>3, <1>4, <1>5, <1>6

LEMMA PutsSame ==
    ASSUME snaps' = snaps, disk' = disk
    PROVE  Puts
  BY DEF Puts, Saved

LEMMA PutsStart ==
    ASSUME BInv, NEW a \in Request, StartRequest(a)
    PROVE  Puts
<1>1. ASSUME NEW w \in Workspace, NEW v \in View, NewView(a, w, v)
      PROVE  Puts
  BY <1>1 DEF BInv, TypeOK, StoreOK, DiskType, NewView, Puts, Saved
<1> QED
  BY <1>1, PutsSame DEF StartRequest, Open, Archive, Unarchive, SetSnapshot

LEMMA PutsRun ==
    ASSUME BInv, NEW a \in Actor, Run(a)
    PROVE  Puts
<1>1. CASE SnapSave(a)
  BY <1>1, SavedGrows DEF SnapSave, InSnapshot, Puts
<1>2. disk \in [View -> DiskType] /\ loc \in [Actor -> LocType]
  BY DEF BInv, TypeOK, StoreOK, GoroutinesOK
<1>3. CASE Checkout(a)
  <2>1. /\ disk' = [disk EXCEPT ![loc[a].v] = [branch |-> loc[a].w, work |-> Restored(a)]]
        /\ snaps' = snaps
    BY <1>3 DEF Checkout
  <2>2. Restored(a) \subseteq Saved \union disk[loc[a].v].work
    <3>1. loc[a].latest # NoId => snaps[loc[a].latest].work \subseteq Saved
      <4>1. loc[a].latest \in 0..Len(snaps) /\ Len(snaps) \in Nat
        BY DEF BInv, KnownIds, TypeOK, StoreOK
      <4> QED
        BY <4>1, SavedHas
    <3> QED
      BY <3>1 DEF Restored
  <2>3. \A v \in View : disk'[v].work \in {disk[v].work, Restored(a)}
                        /\ (v # loc[a].v => disk'[v].work = disk[v].work)
    BY <1>2, <2>1
  <2> QED
    BY <2>1, <2>2, <2>3 DEF Puts, Saved
<1>4. CASE RestoreOnView(a)
  <2>1. /\ disk' = [disk EXCEPT ![loc[a].view].work = snaps[loc[a].latest].work]
        /\ snaps' = snaps
    BY <1>4 DEF RestoreOnView
  <2>2. snaps[loc[a].latest].work \subseteq Saved
    <3>1. loc[a].latest \in 0..Len(snaps) /\ loc[a].latest # NoId /\ Len(snaps) \in Nat
      BY <1>4 DEF BInv, KnownIds, Locals, RestoreOnView, TypeOK, StoreOK
    <3> QED
      BY <3>1, SavedHas
  <2>3. \A v \in View : disk'[v].work \in {disk[v].work, snaps[loc[a].latest].work}
    BY <1>2, <2>1 DEF DiskType
  <2> QED
    BY <2>1, <2>2, <2>3 DEF Puts, Saved
<1>5. CASE SnapRead(a) \/ SnapExec(a) \/ SnapSame(a)
  BY <1>5, PutsSame DEF SnapRead, SnapExec, SnapSame
<1>6. CASE Lookup(a) \/ Detach(a) \/ Link(a) \/ LinkView(a)
  BY <1>6, PutsSame DEF Lookup, Detach, Link, LinkView
<1>7. CASE ArchiveRow(a) \/ Replace(a) \/ SetLatest(a)
  BY <1>7, PutsSame DEF ArchiveRow, Replace, SetLatest
<1> QED
  BY <1>1, <1>3, <1>4, <1>5, <1>6, <1>7 DEF Run, SnapStep, OpenStep, WorkspaceStep

(* A request that stands still keeps what it knows of its view.            *)
LEMMA SavesKept ==
    ASSUME BInv, NEW a \in Request, SavesIt(a), Puts,
           pc'[a] = pc[a], loc'[a] = loc[a], snap'[a] = snap[a], since'[a] = since[a]
    PROVE  SavesIt(a)'
<1>1. Opening(a) => loc[a].v \in View
  BY DEF BInv, Locals
<1> DEFINE v == loc[a].v  W == disk[v].work  W2 == disk'[v].work
<1>2. Opening(a) => W2 \subseteq W \union Saved /\ Saved \subseteq Saved'
  BY <1>1 DEF Puts
<1>3. Within(a, "checkout")' = Within(a, "checkout") /\ InSnapshot(a)' = InSnapshot(a)
  BY DEF Within, InSnapshot
<1>4. pc[a] = "detach" \/ Within(a, "checkout") => Opening(a)
  BY DEF Opening, Within
<1>5. pc[a] = "snapSave" /\ snap[a].ret = "detach" => Opening(a)
  BY DEF Opening, Within, InSnapshot
<1> HIDE DEF W, W2
<1>6. pc[a] = "snapSave" /\ snap[a].ret = "detach" =>
          W2 \subseteq snap[a].work \union Saved' \union since[a]
  BY <1>2, <1>5 DEF SavesIt, W
<1>7. pc[a] = "detach" \/ (Within(a, "checkout") /\ loc[a].cur # none) =>
          W2 \subseteq Saved' \union since[a]
  BY <1>2, <1>4 DEF SavesIt, W
<1> QED
  BY <1>3, <1>6, <1>7 DEF SavesIt, W2

Stands(b) == pc'[b] = pc[b] /\ loc'[b] = loc[b] /\ snap'[b] = snap[b] /\ since'[b] = since[b]

(* One goroutine moves at a time.                                          *)
LEMMA OthersStand ==
    ASSUME BInv, NEW a \in Actor, StartRequest(a) \/ Run(a) \/ Fail(a) \/ FailToMark(a),
           NEW b \in Actor, b # a
    PROVE  Stands(b)
<1> USE DEF Stands, Goto, Finish, Call, Return, SaveOwn
<1>1. /\ pc \in [Actor -> PC] /\ loc \in [Actor -> LocType] /\ snap \in [Actor -> SnapType]
      /\ since \in [Actor -> SUBSET Edit]
  BY DEF BInv, TypeOK, GoroutinesOK
<1>2. CASE StartRequest(a)
  BY <1>1, <1>2 DEF StartRequest, Open, NewView, Archive, Unarchive, SetSnapshot, Begin
<1>3. CASE Fail(a) \/ FailToMark(a)
  BY <1>1, <1>3 DEF Fail, FailToMark
<1>4. CASE SnapStep(a)
  BY <1>1, <1>4 DEF SnapStep, SnapRead, SnapExec, SnapSame, SnapSave
<1>5. CASE Lookup(a)
  BY <1>1, <1>5 DEF Lookup
<1>6. CASE Detach(a) \/ Checkout(a) \/ Link(a) \/ LinkView(a)
  BY <1>1, <1>6 DEF Detach, Checkout, Link, LinkView
<1>7. CASE WorkspaceStep(a)
  BY <1>1, <1>7 DEF WorkspaceStep, ArchiveRow, Replace, RestoreOnView, SetLatest
<1> QED
  BY <1>2, <1>3, <1>4, <1>5, <1>6, <1>7 DEF Run, OpenStep

(* A request that starts has looked nothing up, ...                        *)
LEMMA SavesStart ==
    ASSUME BInv, NEW a \in Request, SavesIt(a), StartRequest(a)
    PROVE  SavesIt(a)'
<1>1. a \in Actor /\ pc \in [Actor -> PC] /\ loc \in [Actor -> LocType]
  BY DEF BInv, TypeOK, GoroutinesOK
<1>2. ASSUME NEW l, NEW at, Begin(a, l, at), l.cur = none,
             at \in {"lookup", "archive", "setLatest", "restore"}
      PROVE  SavesIt(a)'
  BY <1>1, <1>2 DEF Begin, Goto, SavesIt, InSnapshot, Within
<1>3. ASSUME NEW w \in Workspace, NEW v \in View, Open(a, w, v) \/ NewView(a, w, v)
      PROVE  SavesIt(a)'
  BY <1>2, <1>3 DEF Open, NewView, OpenLoc
<1>4. ASSUME NEW w \in Workspace, Archive(a, w)
      PROVE  SavesIt(a)'
  BY <1>2, <1>4 DEF Archive, OpenLoc
<1>5. ASSUME NEW w \in Workspace, Unarchive(a, w)
      PROVE  SavesIt(a)'
  BY <1>1, <1>5 DEF Unarchive, SavesIt, InSnapshot, Within
<1>6. ASSUME NEW w \in Workspace, NEW i \in DOMAIN snaps, SetSnapshot(a, w, i)
      PROVE  SavesIt(a)'
  BY <1>2, <1>6 DEF SetSnapshot
<1> QED
  BY <1>3, <1>4, <1>5, <1>6 DEF StartRequest

(* ... Snapshot takes all that is on the view and writes it, ...           *)
LEMMA SavesSnap ==
    ASSUME BInv, NEW a \in Request, SavesIt(a), SnapStep(a)
    PROVE  SavesIt(a)'
<1>1. /\ a \in Actor /\ pc \in [Actor -> PC] /\ loc \in [Actor -> LocType]
      /\ snap \in [Actor -> SnapType]
  BY DEF BInv, TypeOK, GoroutinesOK
<1>2. CASE SnapRead(a)
  <2>1. /\ pc'[a] = "snapExec" /\ loc' = loc /\ disk' = disk /\ snaps' = snaps
        /\ since' = since /\ pc[a] = "snapRead"
    BY <1>1, <1>2 DEF SnapRead, Goto
  <2>2. snap'[a].ret = snap[a].ret /\ snap'[a].view = snap[a].view
    BY <1>1, <1>2 DEF SnapRead, SnapType
  <2> QED
    BY <2>1, <2>2 DEF SavesIt, InSnapshot, Within, Saved
<1>3. CASE SnapExec(a)
  <2>1. /\ pc'[a] = "snapSave" /\ loc' = loc /\ disk' = disk /\ snaps' = snaps
        /\ since' = since /\ pc[a] = "snapExec"
    BY <1>1, <1>3 DEF SnapExec, Goto
  <2>2. /\ snap'[a].ret = snap[a].ret /\ snap'[a].view = snap[a].view
        /\ snap'[a].work = disk[snap[a].view].work
    BY <1>1, <1>3 DEF SnapExec, SnapType
  <2> QED
    BY <2>1, <2>2 DEF SavesIt, InSnapshot, Within, Saved
<1>4. CASE SnapSame(a) \/ SnapSave(a)
  <2>1. /\ pc[a] = "snapSave" /\ Return(a) /\ disk' = disk
    BY <1>4 DEF SnapSame, SnapSave
  <2>2. Saved \union snap[a].work \subseteq Saved'
    <3>1. CASE SnapSame(a)
      <4>1. /\ snap[a].before \in 0..Len(snaps) /\ snap[a].before # 0 /\ Len(snaps) \in Nat
            /\ snaps[snap[a].before].work = snap[a].work /\ snaps' = snaps
        BY <1>1, <3>1 DEF SnapSame, SameAsBefore, BInv, KnownIds, TypeOK, StoreOK
      <4>2. snap[a].before \in 1..Len(snaps)
        BY <4>1
      <4>3. snap[a].work \subseteq Saved
        BY <4>1, <4>2, SavedHas
      <4> QED
        BY <4>1, <4>3 DEF Saved
    <3>2. CASE SnapSave(a)
      BY <1>1, <3>2, SavedGrows DEF SnapSave, InSnapshot
    <3> QED
      BY <1>4, <3>1, <3>2
  <2>3. CASE snap[a].ret = "idle"
    <3>1. pc'[a] = "idle"
      BY <1>1, <2>1, <2>3 DEF Return, Finish, Goto
    <3> QED
      BY <3>1 DEF SavesIt, InSnapshot, Within
  <2>4. CASE snap[a].ret # "idle"
    <3>1. /\ pc'[a] = snap[a].ret /\ loc' = loc /\ since' = since
          /\ snap[a].ret \in {"detach", "checkout"}
      BY <1>1, <2>1, <2>4 DEF Return, Goto, SnapType
    <3>2. CASE snap[a].ret = "detach"
      BY <2>1, <2>2, <3>1, <3>2 DEF SavesIt, InSnapshot, Within
    <3>3. CASE snap[a].ret = "checkout"
      BY <2>1, <2>2, <3>1, <3>3 DEF SavesIt, InSnapshot, Within
    <3> QED
      BY <3>1, <3>2, <3>3
  <2> QED
    BY <2>3, <2>4
<1> QED
  BY <1>2, <1>3, <1>4 DEF SnapStep

(* ... and OpenWorkspace goes on to the checkout.                          *)
LEMMA SavesOpen ==
    ASSUME BInv, NEW a \in Request, SavesIt(a), OpenStep(a)
    PROVE  SavesIt(a)'
<1>1. /\ a \in Actor /\ pc \in [Actor -> PC] /\ loc \in [Actor -> LocType]
      /\ snap \in [Actor -> SnapType] /\ loc[a] \in LocType
  BY DEF BInv, TypeOK, GoroutinesOK
<1>2. ASSUME SaveOwn(a)
      PROVE  \/ pc'[a] = "checkout"
             \/ pc'[a] = "snapRead" /\ snap'[a].ret = "checkout"
  BY <1>1, <1>2 DEF SaveOwn, Call, Goto
<1>3. CASE Lookup(a)
  <2>1. pc[a] = "lookup" /\ loc[a].cur = none
    BY <1>3 DEF Lookup, SavesIt
  <2>2. ASSUME NEW c \in Workspace, loc' = [loc EXCEPT ![a].cur = c],
               Call(a, c, loc[a].v, TRUE, "detach")
        PROVE  SavesIt(a)'
    <3>1. /\ pc'[a] = "snapRead" /\ snap'[a].ret = "detach"
          /\ snap'[a].view = loc[a].v /\ loc'[a].v = loc[a].v
      BY <1>1, <2>2 DEF Call, Goto, LocType
    <3> QED
      BY <3>1 DEF SavesIt, InSnapshot, Within
  <2>3. CASE SaveOwn(a) /\ UNCHANGED loc
    BY <1>2, <2>1, <2>3 DEF SavesIt, InSnapshot, Within
  <2> QED
    BY <1>3, <2>2, <2>3 DEF Lookup, OpenOn
<1>4. CASE Detach(a)
  <2>1. /\ disk[loc[a].v].work \subseteq Saved \union since[a]
        /\ SaveOwn(a) /\ UNCHANGED <<disk, snaps, loc, since>>
    BY <1>4 DEF Detach, SavesIt
  <2> QED
    BY <1>2, <2>1 DEF SavesIt, InSnapshot, Within, Saved
<1>5. CASE Checkout(a) \/ Link(a) \/ LinkView(a)
  <2>1. pc'[a] \in {"link", "linkView", "idle"}
    BY <1>1, <1>5 DEF Checkout, Link, LinkView, Finish, Goto
  <2> QED
    BY <2>1 DEF SavesIt, InSnapshot, Within
<1> QED
  BY <1>3, <1>4, <1>5 DEF OpenStep

(* The other steps are not those of OpenWorkspace.                         *)
LEMMA SavesOther ==
    ASSUME BInv, NEW a \in Request, SavesIt(a),
           WorkspaceStep(a) \/ Fail(a) \/ FailToMark(a)
    PROVE  SavesIt(a)'
<1>1. /\ a \in Actor /\ pc \in [Actor -> PC] /\ loc \in [Actor -> LocType]
  BY DEF BInv, TypeOK, GoroutinesOK
<1>2. CASE Replace(a)
  <2>1. pc'[a] = "lookup" /\ loc'[a].cur = none
    BY <1>1, <1>2 DEF Replace, Goto
  <2> QED
    BY <2>1 DEF SavesIt, InSnapshot, Within
<1>3. CASE ArchiveRow(a) \/ RestoreOnView(a) \/ SetLatest(a) \/ Fail(a) \/ FailToMark(a)
  <2>1. pc'[a] \in {"replace", "setLatest", "idle"}
    BY <1>1, <1>3
       DEF ArchiveRow, RestoreOnView, SetLatest, Fail, FailToMark, Finish, Goto
  <2> QED
    BY <2>1 DEF SavesIt, InSnapshot, Within
<1> QED
  BY <1>2, <1>3 DEF WorkspaceStep

(* An edit on the view of a request is one that has been synced since.     *)
LEMMA SavesEdit ==
    ASSUME BInv, NEW a \in Request, SavesIt(a),
           NEW u \in View, NEW e \in Edit, MakeEdit(u, e)
    PROVE  SavesIt(a)'
<1> DEFINE v == loc[a].v  W == disk[v].work  W2 == disk'[v].work
<1>1. /\ a \in Actor /\ disk \in [View -> DiskType] /\ since \in [Actor -> SUBSET Edit]
      /\ Opening(a) => v \in View
  BY DEF BInv, TypeOK, StoreOK, GoroutinesOK, Locals
<1>2. /\ disk' = [disk EXCEPT ![u].work = disk[u].work \union {e}]
      /\ since'[a] = IF v = u THEN since[a] \union {e} ELSE since[a]
      /\ UNCHANGED <<pc, loc, snap, snaps>>
  BY <1>1 DEF MakeEdit
<1>3. Opening(a) => W2 \subseteq W \union since'[a] /\ since[a] \subseteq since'[a]
  <2>1. \A x \in View : disk'[x].work = IF x = u THEN disk[u].work \union {e}
                                                 ELSE disk[x].work
    BY <1>1, <1>2 DEF DiskType
  <2> QED
    BY <1>1, <1>2, <2>1
<1>4. pc[a] = "detach" \/ Within(a, "checkout") => Opening(a)
  BY DEF Opening, Within
<1>5. pc[a] = "snapSave" /\ snap[a].ret = "detach" => Opening(a)
  BY DEF Opening, Within, InSnapshot
<1>6. Within(a, "checkout")' = Within(a, "checkout") /\ InSnapshot(a)' = InSnapshot(a)
      /\ Saved' = Saved
  BY <1>2 DEF Within, InSnapshot, Saved
<1> HIDE DEF W, W2
<1>7. pc[a] = "snapSave" /\ snap[a].ret = "detach" =>
          W2 \subseteq snap[a].work \union Saved \union since'[a]
  BY <1>3, <1>5 DEF SavesIt, W
<1>8. pc[a] = "detach" \/ (Within(a, "checkout") /\ loc[a].cur # none) =>
          W2 \subseteq Saved \union since'[a]
  BY <1>3, <1>4 DEF SavesIt, W
<1> QED
  BY <1>2, <1>6, <1>7, <1>8 DEF SavesIt, W2

LEMMA RInit ==
    ASSUME Init
    PROVE  RInv
  BY DEF Init, RInv, SavesIt, InSnapshot, Within

LEMMA RNext ==
    ASSUME BInv, RInv, [Next]_vars
    PROVE  RInv'
<1> SUFFICES ASSUME NEW b \in Request
             PROVE  SavesIt(b)'
  BY DEF RInv
<1>1. SavesIt(b) /\ b \in Actor /\ b # Worker
  BY WorkerAssumption DEF RInv
<1>2. ASSUME NEW a \in Actor, a # b, Puts,
             StartRequest(a) \/ Run(a) \/ Fail(a) \/ FailToMark(a)
      PROVE  SavesIt(b)'
  <2>1. Stands(b)
    BY <1>1, <1>2, OthersStand
  <2> QED
    BY <1>1, <1>2, <2>1, SavesKept DEF Stands
<1>3. ASSUME NEW a \in Request, StartRequest(a)
      PROVE  SavesIt(b)'
  BY <1>1, <1>2, <1>3, PutsStart, SavesStart
<1>4. ASSUME NEW a \in Actor, Run(a)
      PROVE  SavesIt(b)'
  <2>1. CASE a = b
    BY <1>1, <1>4, <2>1, SavesSnap, SavesOpen, SavesOther DEF Run
  <2>2. CASE a # b
    BY <1>2, <1>4, <2>2, PutsRun
  <2> QED
    BY <2>1, <2>2
<1>5. CASE AnyEdit
  BY <1>1, <1>5, SavesEdit DEF AnyEdit
<1>6. ASSUME snaps' = snaps, disk' = disk, Stands(b)
      PROVE  SavesIt(b)'
  BY <1>1, <1>6, PutsSame, SavesKept DEF Stands
<1>7. ASSUME NEW v \in View, MutagenStep(v)
      PROVE  SavesIt(b)'
  BY <1>6, <1>7 DEF MutagenStep, SyncRead, SyncWrite, Stands
<1>8. CASE WorkerTake
  <2>1. snap \in [Actor -> SnapType] /\ pc \in [Actor -> PC]
    BY DEF BInv, TypeOK, GoroutinesOK
  <2> QED
    BY <1>1, <1>6, <1>8, <2>1 DEF WorkerTake, Call, Goto, Stands
<1>9. ASSUME NEW a \in Actor, Fail(a) \/ FailToMark(a)
      PROVE  SavesIt(b)'
  <2>1. Puts
    <3>1. CASE Fail(a)
      BY <3>1, PutsSame DEF Fail
    <3>2. CASE FailToMark(a)
      BY <3>2, SavedGrows DEF FailToMark, InSnapshot, Puts
    <3> QED
      BY <1>9, <3>1, <3>2
  <2>2. CASE a = b
    BY <1>1, <1>9, <2>2, SavesOther
  <2> QED
    BY <1>2, <1>9, <2>1, <2>2
<1>10. CASE UNCHANGED vars
  BY <1>6, <1>10 DEF vars, Stands
<1> QED
  BY <1>3, <1>4, <1>5, <1>7, <1>8, <1>9, <1>10 DEF Next, Crash

(* The forced checkout of OpenWorkspace on a view that has an open         *)
(* workspace destroys no edit but those synced since it looked that        *)
(* workspace up: the others are in a snapshot, however many requests race  *)
(* and whichever of them fail.                                             *)
THEOREM OverwritesRaced == Spec => OverwritesOnlyRacedEdits
<1>1. Init => BInv /\ RInv
  BY BInit, RInit
<1>2. BInv /\ RInv /\ [Next]_vars => (BInv /\ RInv)'
  BY BNext, RNext
<1>3. RInv => \A a \in Request : Checkout(a) /\ loc[a].cur # none =>
                 disk[loc[a].v].work \ disk'[loc[a].v].work
                     \subseteq Saved \union since[a]
  BY DEF RInv, SavesIt, Checkout, Within
<1>4. RInv /\ [Next]_vars =>
          [\A a \in Request : Checkout(a) /\ loc[a].cur # none =>
              disk[loc[a].v].work \ disk'[loc[a].v].work
                  \subseteq Saved \union since[a]]_vars
  BY <1>3
<1> QED
  BY <1>1, <1>2, <1>4, PTL DEF Spec, OverwritesOnlyRacedEdits

-----------------------------------------------------------------------------
(* What the lemmas below need of BInv. *)
LEMMA Types ==
    ASSUME BInv
    PROVE  /\ row \in [Workspace -> RowType] /\ disk \in [View -> DiskType]
           /\ viewWs \in [View -> Workspace \union {none}]
           /\ Len(snaps) \in Nat /\ DOMAIN snaps = 1..Len(snaps)
           /\ snaps \in Seq([ws : Workspace, work : SUBSET Edit])
           /\ pc \in [Actor -> PC] /\ loc \in [Actor -> LocType]
           /\ snap \in [Actor -> SnapType]
           /\ \A w \in Workspace : row[w].latest \in 0..Len(snaps)
           /\ \A w \in Workspace : row[w] \in RowType
           /\ \A v \in View : disk[v] \in DiskType
           /\ \A a \in Actor : loc[a] \in LocType /\ snap[a] \in SnapType
  BY DEF BInv, TypeOK, StoreOK, GoroutinesOK, KnownIds

(* Same snapshots, same contents: nothing to see. *)
LEMMA SameDrafts ==
    ASSUME snaps' = snaps, \A w \in Workspace : Contents(w)' = Contents(w)
    PROVE  Unseen
  BY DEF Unseen, Drafted, Versions, VersionsOf

(* Only goroutine a has something to show for. *)
LEMMA CalmStep ==
    ASSUME CInv, NEW a \in Actor, \A b \in Actor \ {a} : pc'[b] = "idle",
           a \in Request /\ pc'[a] # "idle" =>
               queue' = <<>> /\ \A v \in View : sync'[v] = "quiet",
           Reports', LatestOK', LinkedIsCheckedOut', TakesDraft(a)',
           (\A b \in Request : ~Moving(b))' => Settled',
           a \in Request => (Opening(a)' => OpensIt(a)') /\ OtherwiseOK(a)'
    PROVE  CInv'
<1>1. OneRuns'
  BY WorkerAssumption DEF OneRuns
<1>2. ASSUME NEW b \in Actor, b # a
      PROVE  TakesDraft(b)' /\ OtherwiseOK(b)' /\ ~Opening(b)'
  BY <1>2 DEF TakesDraft, OtherwiseOK, Opening, Within, InSnapshot
<1> QED
  BY <1>1, <1>2 DEF CInv

(* A request goes on. *)
LEMMA RequestStep ==
    ASSUME BInv, CInv, NEW a \in Request, pc[a] # "idle", Run(a),
           queue' = queue, sync' = sync,
           LatestOK', LinkedIsCheckedOut', TakesDraft(a)', OtherwiseOK(a)',
           ~Moving(a)' => Settled', Opening(a)' => OpensIt(a)'
    PROVE  CInv'
<1>1. a \in Actor /\ Worker \in Actor /\ Worker # a
  BY WorkerAssumption
<1>2. \A b \in Actor \ {a} : pc'[b] = "idle"
  BY <1>1, OthersStand DEF CInv, OneRuns, Stands
<1>3. queue' = <<>> /\ \A v \in View : sync'[v] = "quiet"
  BY <1>1 DEF CInv, OneRuns
<1>4. Reports'
  BY <1>1, <1>2, <1>3, SyncAssumption DEF Reports
<1>5. (\A b \in Request : ~Moving(b))' => Settled'
  OBVIOUS
<1> QED
  BY <1>1, <1>2, <1>3, <1>4, <1>5, CalmStep

(* What is open on a view is the only workspace open there. *)
LEMMA OnlyOpen ==
    ASSUME BInv, CInv, OneView, NEW w \in Workspace, row[w].view # none,
           NEW x \in Workspace, x # w
    PROVE  row[x].view = none
<1>1. LinkedIsCheckedOut
  BY DEF CInv
<1>2. row[x].view = none \/ row[x].view = row[w].view
  BY Types DEF OneView, RowType
<1> QED
  BY <1>1, <1>2 DEF LinkedIsCheckedOut

(* Opening a workspace, step by step, cannot be seen in DraftStore: the *)
(* request calls Snapshot or finds the view closed, ... *)
LEMMA CLookup ==
    ASSUME BInv, CInv, OneView, NEW a \in Request, Lookup(a)
    PROVE  CInv' /\ Unseen
<1>1. /\ pc[a] = "lookup" /\ UNCHANGED <<row, viewWs, disk, snaps, sync, queue>>
      /\ a \in Actor /\ Run(a)
  BY DEF Lookup, Run, OpenStep
<1>2. /\ OpensIt(a) /\ loc[a].w \in Workspace /\ loc[a].v \in View /\ Opening(a)
      /\ ~InSnapshot(a)
  BY <1>1 DEF CInv, Opening, Within, InSnapshot, BInv, Locals
<1>3. LatestOK' /\ LinkedIsCheckedOut'
  BY <1>1 DEF CInv, LatestOK, LinkedIsCheckedOut
<1>4. Unseen
  BY <1>1, SameDrafts DEF Contents
<1>5. ASSUME NEW c \in OpenOn(loc[a].v), loc' = [loc EXCEPT ![a].cur = c],
             Call(a, c, loc[a].v, TRUE, "detach")
      PROVE  CInv'
  <2>1. /\ loc'[a].w = loc[a].w /\ loc'[a].v = loc[a].v /\ loc'[a].cur = c
        /\ loc'[a].view = loc[a].view /\ loc'[a].latest = loc[a].latest
    BY <1>1, <1>5, Types DEF LocType
  <2>2. /\ pc'[a] = "snapRead" /\ snap'[a].ws = c /\ snap'[a].view = loc[a].v
        /\ snap'[a].ret = "detach" /\ snap'[a].mark = TRUE
    BY <1>1, <1>5, Types DEF Call, Goto
  <2>3. OpensIt(a)' /\ TakesDraft(a)' /\ OtherwiseOK(a)' /\ Opening(a)'
    BY <1>1, <1>2, <1>5, <2>1, <2>2
       DEF OpensIt, TakesDraft, OtherwiseOK, Opening, Within, InSnapshot, OpenOn
  <2> QED
    BY <1>1, <1>3, <2>3, RequestStep DEF Moving
<1>6. ASSUME OpenOn(loc[a].v) = {}, SaveOwn(a), UNCHANGED loc
      PROVE  CInv'
  <2>1. pc'[a] = "checkout"
    BY <1>1, <1>2, <1>6, Types DEF SaveOwn, OpensIt, Goto
  <2>2. \A x \in Workspace : row[x].view = none
    BY <1>2, <1>6, Types DEF OpenOn, OneView, RowType
  <2>3. OpensIt(a)' /\ TakesDraft(a)' /\ OtherwiseOK(a)' /\ Opening(a)'
    BY <1>1, <1>2, <1>6, <2>1, <2>2
       DEF OpensIt, TakesDraft, OtherwiseOK, Opening, Within, InSnapshot
  <2> QED
    BY <1>1, <1>3, <2>3, RequestStep DEF Moving
<1> QED
  BY <1>4, <1>5, <1>6 DEF Lookup

(* ... the closed workspace has its draft in its latest snapshot, ... *)
LEMMA CDetach ==
    ASSUME BInv, CInv, OneView, NEW a \in Request, Detach(a)
    PROVE  CInv' /\ Unseen
<1> DEFINE w == loc[a].w  v == loc[a].v  c == loc[a].cur
<1>1. /\ pc[a] = "detach" /\ UNCHANGED <<viewWs, disk, snaps, sync, queue, loc>>
      /\ a \in Actor /\ Run(a) /\ row' = [row EXCEPT ![c].view = none] /\ SaveOwn(a)
  BY DEF Detach, Run, OpenStep
<1>2. /\ OpensIt(a) /\ w \in Workspace /\ v \in View /\ c \in Workspace /\ ~InSnapshot(a)
  BY <1>1 DEF CInv, Opening, Within, InSnapshot, BInv, Locals
<1>3. row[c].view = v /\ Kept(c) = disk[v].work /\ row[w].view = none /\ c # w
  BY <1>1, <1>2, NoneAssumption DEF OpensIt, Within
<1>4. pc'[a] = "checkout"
  BY <1>1, <1>2, Types DEF SaveOwn, OpensIt, Goto
<1>5. \A x \in Workspace : x # c => row[x].view = none
  BY <1>2, <1>3, OnlyOpen, NoneAssumption
<1>6. \A x \in Workspace : /\ row'[x].view = none /\ row'[x].latest = row[x].latest
                           /\ row'[x].exists = row[x].exists
                           /\ row'[x].archived = row[x].archived
  BY <1>1, <1>2, <1>5, Types DEF RowType
<1>7. LatestOK' /\ LinkedIsCheckedOut'
  BY <1>1, <1>6 DEF CInv, LatestOK, LinkedIsCheckedOut
<1>8. OpensIt(a)' /\ TakesDraft(a)' /\ OtherwiseOK(a)' /\ Opening(a)'
  BY <1>1, <1>2, <1>4, <1>6
     DEF OpensIt, TakesDraft, OtherwiseOK, Opening, Within, InSnapshot
<1>9. CInv'
  BY <1>1, <1>7, <1>8, RequestStep DEF Moving
<1>10. Unseen
  <2>1. \A x \in Workspace : Kept(x)' = Kept(x)
    BY <1>1, <1>6 DEF Kept
  <2>2. \A x \in Workspace : Contents(x)' = Kept(x)
    BY <1>1, <1>6, <2>1 DEF Contents, Kept
  <2>3. \A x \in Workspace : Contents(x) = Kept(x)
    BY <1>2, <1>3, <1>5, NoneAssumption DEF Contents, Kept
  <2> QED
    BY <1>1, <2>2, <2>3, SameDrafts
<1> QED
  BY <1>9, <1>10

(* ... no workspace has the view that is checked out by force, ... *)
LEMMA CCheckout ==
    ASSUME BInv, CInv, OneView, NEW a \in Request, Checkout(a)
    PROVE  CInv' /\ Unseen
<1> DEFINE w == loc[a].w  v == loc[a].v
<1>1. /\ pc[a] = "checkout" /\ UNCHANGED <<row, viewWs, snaps, sync, queue, loc, snap>>
      /\ a \in Actor /\ Run(a)
      /\ disk' = [disk EXCEPT ![v] = [branch |-> w, work |-> Restored(a)]]
      /\ pc' = [pc EXCEPT ![a] = "link"]
  BY DEF Checkout, Run, OpenStep, Goto
<1>2. /\ OpensIt(a) /\ w \in Workspace /\ v \in View /\ ~InSnapshot(a)
  BY <1>1 DEF CInv, Opening, Within, InSnapshot, BInv, Locals
<1>3. Restored(a) = Kept(w)
  BY <1>1, <1>2 DEF OpensIt, Restored, Kept
<1>4. \A x \in Workspace : row[x].view = none
  BY <1>1, <1>2 DEF OpensIt
<1>5. disk'[v].branch = w /\ disk'[v].work = Kept(w) /\ pc'[a] = "link"
  BY <1>1, <1>2, <1>3, Types
<1>6. LatestOK' /\ LinkedIsCheckedOut'
  BY <1>1, <1>4 DEF CInv, LatestOK, LinkedIsCheckedOut
<1>7. OpensIt(a)' /\ TakesDraft(a)' /\ OtherwiseOK(a)' /\ Opening(a)'
  <2>1. Kept(w)' = Kept(w)
    BY <1>1 DEF Kept
  <2> QED
    BY <1>1, <1>2, <1>4, <1>5, <2>1
       DEF OpensIt, TakesDraft, OtherwiseOK, Opening, Within, InSnapshot
<1>8. CInv'
  BY <1>1, <1>6, <1>7, RequestStep DEF Moving
<1>9. Unseen
  BY <1>1, <1>4, SameDrafts DEF Contents
<1> QED
  BY <1>8, <1>9

(* ... what the view then holds is the draft of its new workspace, ... *)
LEMMA CLink ==
    ASSUME BInv, CInv, OneView, NEW a \in Request, Link(a)
    PROVE  CInv' /\ Unseen
<1> DEFINE w == loc[a].w  v == loc[a].v
<1>1. /\ pc[a] = "link" /\ UNCHANGED <<viewWs, disk, snaps, sync, queue, loc, snap>>
      /\ a \in Actor /\ Run(a) /\ row' = [row EXCEPT ![w].view = v]
      /\ pc' = [pc EXCEPT ![a] = "linkView"]
  BY DEF Link, Run, OpenStep, Goto
<1>2. /\ OpensIt(a) /\ w \in Workspace /\ v \in View /\ ~InSnapshot(a)
  BY <1>1 DEF CInv, Opening, Within, InSnapshot, BInv, Locals
<1>3. /\ \A x \in Workspace : row[x].view = none
      /\ disk[v].branch = w /\ disk[v].work = Kept(w)
  BY <1>1, <1>2 DEF OpensIt
<1>4. \A x \in Workspace : /\ row'[x].view = IF x = w THEN v ELSE none
                           /\ row'[x].latest = row[x].latest
                           /\ row'[x].exists = row[x].exists
                           /\ row'[x].archived = row[x].archived
  BY <1>1, <1>2, <1>3, Types DEF RowType
<1>5. pc'[a] = "linkView"
  BY <1>1, Types
<1>6. LatestOK' /\ LinkedIsCheckedOut'
  BY <1>1, <1>2, <1>3, <1>4 DEF CInv, LatestOK, LinkedIsCheckedOut, OpensIt
<1>7. OpensIt(a)' /\ TakesDraft(a)' /\ OtherwiseOK(a)' /\ Opening(a)'
  BY <1>1, <1>2, <1>4, <1>5
     DEF OpensIt, TakesDraft, OtherwiseOK, Opening, Within, InSnapshot
<1>8. CInv'
  BY <1>1, <1>6, <1>7, RequestStep DEF Moving
<1>9. Unseen
  <2>1. \A x \in Workspace : Kept(x)' = Kept(x)
    BY <1>1, <1>4 DEF Kept
  <2>2. \A x \in Workspace : Contents(x) = Kept(x)
    BY <1>3 DEF Contents, Kept
  <2>3. \A x \in Workspace : Contents(x)' = IF row'[x].view # none
                                            THEN disk'[row'[x].view].work ELSE Kept(x)'
    BY DEF Contents, Kept
  <2>4. \A x \in Workspace : Contents(x)' = Kept(x)
    BY <1>1, <1>2, <1>3, <1>4, <2>1, <2>3
  <2> QED
    BY <1>1, <2>2, <2>4, SameDrafts
<1> QED
  BY <1>8, <1>9

(* ... and in the end the view's row agrees. *)
LEMMA CLinkView ==
    ASSUME BInv, CInv, OneView, NEW a \in Request, LinkView(a)
    PROVE  CInv' /\ Unseen
<1> DEFINE w == loc[a].w  v == loc[a].v
<1>1. /\ pc[a] = "linkView" /\ UNCHANGED <<row, disk, snaps, sync, queue>>
      /\ a \in Actor /\ Run(a) /\ viewWs' = [viewWs EXCEPT ![v] = w]
  BY DEF LinkView, Run, OpenStep
<1>2. /\ OpensIt(a) /\ w \in Workspace /\ v \in View
  BY <1>1 DEF CInv, Opening, Within, InSnapshot, BInv, Locals
<1>3. row[w].view = v /\ ~row[w].archived
  BY <1>1, <1>2 DEF OpensIt
<1>4. \A x \in Workspace : x # w => row[x].view = none
  BY <1>2, <1>3, OnlyOpen, NoneAssumption
<1>5. viewWs'[v] = w /\ \A u \in View : u = v
  BY <1>1, <1>2, Types DEF OneView
<1>6. pc'[a] = "idle"
  BY <1>1, Types DEF LinkView, Finish, Goto
<1>7. LatestOK' /\ LinkedIsCheckedOut'
  BY <1>1 DEF CInv, LatestOK, LinkedIsCheckedOut
<1>8. Settled'
  BY <1>1, <1>2, <1>3, <1>4, <1>5, NoneAssumption DEF Settled
<1>9. TakesDraft(a)' /\ OtherwiseOK(a)' /\ ~Opening(a)'
  BY <1>6 DEF TakesDraft, OtherwiseOK, Opening, Within, InSnapshot
<1>10. CInv'
  BY <1>1, <1>7, <1>8, <1>9, RequestStep
<1>11. Unseen
  BY <1>1, SameDrafts DEF Contents
<1> QED
  BY <1>10, <1>11

(* Archiving leaves the draft alone, ... *)
LEMMA CArchiveRow ==
    ASSUME BInv, CInv, OneView, NEW a \in Request, ArchiveRow(a)
    PROVE  CInv' /\ Unseen
<1> DEFINE w == loc[a].w
<1>1. /\ pc[a] = "archive" /\ UNCHANGED <<viewWs, disk, snaps, sync, queue>>
      /\ a \in Actor /\ Run(a)
      /\ row' = [row EXCEPT ![w].archived = TRUE, ![w].unarchived = FALSE]
  BY DEF ArchiveRow, Run, WorkspaceStep
<1>2. w \in Workspace /\ loc[a].view = row[w].view
  BY <1>1 DEF CInv, BInv, Locals, OtherwiseOK
<1>3. Settled
  <2>1. ~Moving(a) /\ \A b \in Request : b # a => pc[b] = "idle"
    BY <1>1 DEF CInv, OneRuns, Moving, Opening, Within, InSnapshot
  <2> QED
    BY <2>1 DEF CInv, Moving, Opening, Within, InSnapshot
<1>4. \A x \in Workspace : /\ row'[x].view = row[x].view /\ row'[x].latest = row[x].latest
                           /\ row'[x].exists = row[x].exists
                           /\ x # w => row'[x].archived = row[x].archived
  BY <1>1, <1>2, Types DEF RowType
<1>5. LatestOK' /\ LinkedIsCheckedOut'
  BY <1>1, <1>4 DEF CInv, LatestOK, LinkedIsCheckedOut
<1>6. Unseen
  <2>1. \A x \in Workspace : Contents(x)' = Contents(x)
    BY <1>1, <1>4 DEF Contents
  <2> QED
    BY <1>1, <2>1, SameDrafts
<1>7. CASE loc[a].view = none
  <2>1. pc'[a] = "idle"
    <3>1. Finish(a)
      BY <1>7 DEF ArchiveRow
    <3> QED
      BY <1>1, <3>1, Types DEF Finish, Goto
  <2>2. Settled'
    <3>1. UNCHANGED <<viewWs, disk>>
      BY <1>1
    <3>2. \A x \in Workspace : row[x].view # none => ~row'[x].archived
      BY <1>2, <1>3, <1>4, <1>7 DEF Settled
    <3> QED
      BY <1>3, <1>4, <3>1, <3>2 DEF Settled
  <2>3. TakesDraft(a)' /\ OtherwiseOK(a)' /\ ~Opening(a)'
    BY <2>1 DEF TakesDraft, OtherwiseOK, Opening, Within, InSnapshot
  <2> QED
    BY <1>1, <1>5, <1>6, <2>2, <2>3, RequestStep
<1>8. CASE loc[a].view # none
  <2>1. pc'[a] = "replace" /\ loc' = loc
    BY <1>1, <1>8, Types DEF ArchiveRow, Goto
  <2>2. TakesDraft(a)' /\ OtherwiseOK(a)' /\ ~Opening(a)' /\ Moving(a)'
    BY <1>2, <1>4, <2>1 DEF TakesDraft, OtherwiseOK, Opening, Within, InSnapshot, Moving
  <2> QED
    BY <1>1, <1>5, <1>6, <2>2, RequestStep
<1> QED
  BY <1>7, <1>8

(* ... and the view gets a new workspace without one. *)
LEMMA CReplace ==
    ASSUME BInv, CInv, OneView, NEW a \in Request, Replace(a)
    PROVE  CInv' /\ Unseen
<1> DEFINE w == loc[a].w  v == loc[a].view
<1>1. /\ pc[a] = "replace" /\ UNCHANGED <<viewWs, disk, snaps, sync, queue, snap>>
      /\ a \in Actor /\ Run(a) /\ pc' = [pc EXCEPT ![a] = "lookup"]
  BY DEF Replace, Run, WorkspaceStep, Goto
<1>2. w \in Workspace /\ v \in View /\ v = row[w].view
  BY <1>1 DEF CInv, BInv, Locals, OtherwiseOK
<1>3. PICK n \in Workspace :
         /\ Fresh(n) /\ row' = [row EXCEPT ![n] = NewRow]
         /\ loc' = [loc EXCEPT ![a] = [w |-> n, v |-> v, view |-> none, latest |-> NoId, cur |-> none]]
  BY DEF Replace
<1>4. row[n].view = none /\ row[n].latest = NoId /\ ~row[n].exists /\ n # w
  BY <1>2, <1>3, NoneAssumption DEF CInv, LatestOK, Fresh
<1>5. \A x \in Workspace : /\ row'[x].view = row[x].view /\ row'[x].latest = row[x].latest
                           /\ x # n => row'[x] = row[x]
  BY <1>3, <1>4, Types
<1>6. row'[n].exists /\ ~row'[n].archived
  BY <1>3, Types
<1>7. LatestOK' /\ LinkedIsCheckedOut'
  BY <1>1, <1>5, <1>6 DEF CInv, LatestOK, LinkedIsCheckedOut
<1>8. /\ loc'[a].w = n /\ loc'[a].v = v /\ loc'[a].view = none /\ loc'[a].latest = NoId
      /\ pc'[a] = "lookup"
  BY <1>1, <1>3, Types
<1>9. disk[v].branch # n
  BY <1>2, <1>4, NoneAssumption DEF CInv, LinkedIsCheckedOut
<1>10. OpensIt(a)' /\ TakesDraft(a)' /\ OtherwiseOK(a)' /\ Opening(a)'
  BY <1>1, <1>4, <1>5, <1>6, <1>8, <1>9
     DEF OpensIt, TakesDraft, OtherwiseOK, Opening, Within, InSnapshot
<1>11. CInv'
  BY <1>1, <1>7, <1>10, RequestStep DEF Moving
<1>12. \A x \in Workspace : Contents(x)' = Contents(x)
  BY <1>1, <1>5 DEF Contents
<1> QED
  BY <1>1, <1>11, <1>12, SameDrafts

(* One draft changes. *)
LEMMA DraftChange ==
    ASSUME NEW w \in Workspace, NEW d, Contents(w)' = d,
           \A x \in Workspace : x # w => Contents(x)' = Contents(x)
    PROVE  Drafted' = [Drafted EXCEPT ![w] = d]
  BY DEF Drafted

(* While no request moves workspaces, views and workspaces agree. *)
LEMMA SettledNow ==
    ASSUME CInv, NEW a \in Actor, pc[a] # "idle", ~Moving(a)
    PROVE  Settled
<1>1. \A b \in Request : b # a => pc[b] = "idle"
  BY DEF CInv, OneRuns
<1> QED
  BY <1>1 DEF CInv, Moving, Opening, Within, InSnapshot

(* The restore on the view goes back to a version of the draft, ... *)
LEMMA CRestoreOnView ==
    ASSUME BInv, CInv, OneView, NEW a \in Request, RestoreOnView(a)
    PROVE  CInv' /\ DS!Next
<1> DEFINE w == loc[a].w  v == loc[a].view  i == loc[a].latest
<1>1. /\ pc[a] = "restore" /\ UNCHANGED <<row, viewWs, snaps, sync, queue, loc, snap>>
      /\ a \in Actor /\ Run(a) /\ pc' = [pc EXCEPT ![a] = "setLatest"]
      /\ disk' = [disk EXCEPT ![v].work = snaps[i].work]
  BY DEF RestoreOnView, Run, WorkspaceStep, Goto
<1>2. /\ w \in Workspace /\ v \in View /\ v = row[w].view /\ row[w].exists
      /\ i \in 1..Len(snaps) /\ snaps[i].ws = w
  BY <1>1 DEF CInv, BInv, Locals, OtherwiseOK
<1>3. Settled /\ pc'[a] = "setLatest"
  BY <1>1, SettledNow, Types DEF Moving, Opening, Within, InSnapshot
<1>4. \A u \in View : /\ disk'[u].branch = disk[u].branch
                      /\ disk'[u].work = snaps[i].work /\ u = v
  BY <1>1, <1>2, Types DEF DiskType, OneView
<1>5. LatestOK' /\ LinkedIsCheckedOut'
  <2>1. \A x \in Workspace : row[x].view # none => row[x].view \in View
    BY Types DEF RowType
  <2> QED
    BY <1>1, <1>4, <2>1 DEF CInv, LatestOK, LinkedIsCheckedOut
<1>6. Settled'
  BY <1>1, <1>2, <1>3, <1>4, NoneAssumption DEF Settled
<1>7. TakesDraft(a)' /\ OtherwiseOK(a)' /\ ~Opening(a)'
  BY <1>1, <1>2, <1>3 DEF TakesDraft, OtherwiseOK, Opening, Within, InSnapshot
<1>8. CInv'
  BY <1>1, <1>5, <1>6, <1>7, RequestStep
<1>0. PICK y \in Workspace : y = w
  BY <1>2
<1>9. PICK old : old = snaps[i].work
  OBVIOUS
<1>10. DS!GoBack(y, old) /\ old \in Versions[y]
  <2>1. old \in Versions[y]
    BY <1>0, <1>2, <1>9, Types DEF Versions, VersionsOf
  <2>2. Versions' = Versions
    BY <1>1 DEF Versions, VersionsOf
  <2>3. Contents(y)' = old
    BY <1>0, <1>1, <1>2, <1>4, <1>9, NoneAssumption DEF Contents
  <2>4. \A x \in Workspace : x # y => Contents(x)' = Contents(x)
    <3>1. \A x \in Workspace : x # y => row[x].view = none
      BY <1>0, <1>2, <1>9, OnlyOpen, NoneAssumption
    <3> QED
      BY <1>1, <3>1 DEF Contents
  <2> QED
    BY <2>1, <2>2, <2>3, <2>4, DraftChange DEF DS!GoBack
<1> QED
  BY <1>8, <1>10 DEF DS!Next

(* ... the update of the row does when there is no view. *)
LEMMA CSetLatest ==
    ASSUME BInv, CInv, OneView, NEW a \in Request, SetLatest(a)
    PROVE  CInv' /\ (DS!Next \/ Unseen)
<1> DEFINE i == loc[a].latest
<1>0. PICK w \in Workspace : w = loc[a].w
  BY DEF SetLatest, BInv, Locals
<1>1. /\ pc[a] = "setLatest" /\ UNCHANGED <<viewWs, disk, snaps, sync, queue>>
      /\ a \in Actor /\ Run(a) /\ row' = [row EXCEPT ![w].latest = i] /\ Finish(a)
  BY <1>0 DEF SetLatest, Run, WorkspaceStep
<1>2. /\ w \in Workspace /\ row[w].exists /\ i \in 1..Len(snaps) /\ snaps[i].ws = w
  BY <1>0, <1>1 DEF CInv, OtherwiseOK
<1>3. Settled /\ pc'[a] = "idle"
  BY <1>1, SettledNow, Types DEF Moving, Opening, Within, InSnapshot, Finish, Goto
<1>4. \A x \in Workspace : /\ row'[x].view = row[x].view
                           /\ row'[x].latest = IF x = w THEN i ELSE row[x].latest
                           /\ row'[x].exists = row[x].exists
                           /\ row'[x].archived = row[x].archived
  BY <1>1, <1>2, Types DEF RowType
<1>5. LatestOK' /\ LinkedIsCheckedOut'
  BY <1>1, <1>2, <1>4, Types DEF CInv, LatestOK, LinkedIsCheckedOut
<1>6. Settled'
  BY <1>1, <1>3, <1>4 DEF Settled
<1>7. TakesDraft(a)' /\ OtherwiseOK(a)' /\ ~Opening(a)'
  BY <1>3 DEF TakesDraft, OtherwiseOK, Opening, Within, InSnapshot
<1>8. CInv'
  BY <1>1, <1>5, <1>6, <1>7, RequestStep
<1>9. /\ \A x \in Workspace : x # w => Contents(x)' = Contents(x)
      /\ row[w].view # none => Contents(w)' = Contents(w)
      /\ row[w].view = none => Contents(w)' = snaps[i].work
  <2>1. i # NoId
    BY <1>2, Types
  <2>2. \A x \in Workspace : Contents(x)' =
           IF row'[x].view # none THEN disk'[row'[x].view].work
           ELSE IF row'[x].latest # NoId THEN snaps'[row'[x].latest].work ELSE {}
    BY DEF Contents
  <2>3. \A x \in Workspace : Contents(x) =
           IF row[x].view # none THEN disk[row[x].view].work
           ELSE IF row[x].latest # NoId THEN snaps[row[x].latest].work ELSE {}
    BY DEF Contents
  <2> HIDE DEF i
  <2>4. disk' = disk /\ snaps' = snaps
    BY <1>1
  <2>5. ASSUME NEW x \in Workspace, x # w
        PROVE  Contents(x)' = Contents(x)
    <3>1. row'[x].view = row[x].view /\ row'[x].latest = row[x].latest
      BY <1>4, <2>5
    <3> QED
      BY <2>2, <2>3, <2>4, <3>1
  <2>6. row'[w].view = row[w].view /\ row'[w].latest = i
    BY <1>4
  <2>7. row[w].view # none => Contents(w)' = Contents(w)
    BY <2>2, <2>3, <2>4, <2>6
  <2>8. row[w].view = none => Contents(w)' = snaps[i].work
    BY <2>1, <2>2, <2>4, <2>6
  <2> QED
    BY <2>5, <2>7, <2>8
<1>10. CASE row[w].view # none
  BY <1>1, <1>8, <1>9, <1>10, SameDrafts
<1>11. CASE row[w].view = none
  <2>0. PICK old : old = snaps[i].work
    OBVIOUS
  <2>1. old \in Versions[w]
    BY <1>2, <2>0, Types DEF Versions, VersionsOf
  <2>2. Versions' = Versions
    BY <1>1 DEF Versions, VersionsOf
  <2>3. DS!GoBack(w, old)
    BY <1>2, <1>9, <1>11, <2>0, <2>1, <2>2, DraftChange DEF DS!GoBack
  <2> QED
    BY <1>2, <1>8, <2>1, <2>3 DEF DS!Next
<1> QED
  BY <1>10, <1>11

(* A step of Snapshot. *)
LEMMA SnapFrame ==
    ASSUME BInv, CInv, NEW a \in Actor, SnapStep(a),
           LatestOK', LinkedIsCheckedOut', TakesDraft(a)',
           a \in Request => Opening(a)' /\ OpensIt(a)' /\ OtherwiseOK(a)',
           a = Worker => pc'[a] = "idle" \/ (/\ snap'[a].view = snap[a].view
                                             /\ snap'[a].ws = snap[a].ws),
           \A x \in Workspace : row'[x].view = row[x].view /\ row'[x].archived = row[x].archived
    PROVE  CInv'
<1>1. /\ UNCHANGED <<viewWs, disk, sync, queue>> /\ pc[a] # "idle" /\ InSnapshot(a)
  BY DEF SnapStep, SnapRead, SnapExec, SnapSame, SnapSave, InSnapshot
<1>2. \A b \in Actor \ {a} : pc[b] = "idle" /\ pc'[b] = "idle"
  <2>1. Run(a)
    BY DEF Run
  <2> QED
    BY <1>1, <2>1, OthersStand DEF CInv, OneRuns, Stands
<1>3. CASE a \in Request
  <2>1. queue' = <<>> /\ \A v \in View : sync'[v] = "quiet"
    BY <1>1, <1>3 DEF CInv, OneRuns
  <2>2. Worker \in Actor \ {a}
    BY <1>3, WorkerAssumption
  <2>3. Reports'
    BY <1>2, <2>1, <2>2, SyncAssumption DEF Reports
  <2>4. Moving(a)'
    BY <1>3 DEF Moving
  <2> QED
    BY <1>2, <1>3, <2>1, <2>3, <2>4, CalmStep
<1>4. CASE a = Worker
  <2>1. Reports'
    BY <1>1, <1>4 DEF CInv, Reports
  <2>2. Settled
    <3>1. \A b \in Request : pc[b] = "idle"
      BY <1>2, <1>4, WorkerAssumption
    <3> QED
      BY <3>1 DEF CInv, Moving, Opening, Within, InSnapshot
  <2>3. Settled'
    BY <1>1, <2>2 DEF Settled
  <2>4. a \notin Request
    BY <1>4, WorkerAssumption
  <2> QED
    BY <1>2, <2>1, <2>3, <2>4, CalmStep
<1> QED
  BY <1>3, <1>4

(* A goroutine in Snapshot has what is open on the view that it commits. *)
LEMMA Taking ==
    ASSUME BInv, CInv, NEW a \in Actor, InSnapshot(a)
    PROVE  /\ snap[a].ws \in Workspace /\ snap[a].view \in View
           /\ row[snap[a].ws].view = snap[a].view
           /\ a \in Request => /\ OpensIt(a) /\ snap[a].ret = "detach"
                               /\ loc[a].w \in Workspace /\ loc[a].v \in View
                               /\ snap[a].ws = loc[a].cur /\ snap[a].view = loc[a].v
           /\ a = Worker => snap[a].ret = "idle"
<1>1. /\ snap[a].ws \in Workspace /\ snap[a].view \in View
      /\ snap[a].ret \in {"idle", "detach", "checkout"}
  BY DEF BInv, TypeOK, GoroutinesOK, SnapType
<1>2. row[snap[a].ws].view = snap[a].view
  BY DEF CInv, TakesDraft
<1>3. a = Worker => snap[a].ret = "idle"
  BY DEF BInv, Locals, Within, InSnapshot
<1>4. ASSUME a \in Request
      PROVE  Opening(a) /\ snap[a].ret = "detach"
  <2>1. snap[a].ret = "detach"
    BY <1>4 DEF CInv, OtherwiseOK
  <2> QED
    BY <2>1 DEF Opening, Within
<1> QED
  BY <1>1, <1>2, <1>3, <1>4 DEF CInv, OpensIt, BInv, Locals

(* It reads the latest snapshot of the workspace, ... *)
LEMMA CSnapRead ==
    ASSUME BInv, CInv, NEW a \in Actor, SnapRead(a)
    PROVE  CInv' /\ Unseen
<1> DEFINE s == snap[a].ws
<1>1. /\ pc[a] = "snapRead" /\ UNCHANGED <<row, viewWs, disk, snaps, sync, queue, loc>>
      /\ pc'[a] = "snapExec" /\ InSnapshot(a) /\ SnapStep(a)
  BY Types DEF SnapRead, SnapStep, Goto, InSnapshot
<1>2. PICK i \in 0..Len(snaps) :
         IsPrevious(s, i) /\ snap' = [snap EXCEPT ![a].rowView = row[s].view, ![a].before = i]
  BY DEF SnapRead
<1>3. /\ snap'[a].ws = s /\ snap'[a].view = snap[a].view /\ snap'[a].ret = snap[a].ret
      /\ snap'[a].rowView = row[s].view /\ snap'[a].before = i
  BY <1>2, Types DEF SnapType
<1>4. i = row[s].latest
  <2>1. row[s].latest = NoId => \A j \in 1..Len(snaps) : snaps[j].ws # s
    BY <1>1, Taking DEF CInv, LatestOK
  <2> QED
    BY <1>2, <2>1, Types DEF IsPrevious, IsNewestOf
<1>5. TakesDraft(a)'
  BY <1>1, <1>3, <1>4, Taking DEF TakesDraft, InSnapshot, IsAuthoritative
<1>6. LatestOK' /\ LinkedIsCheckedOut'
  BY <1>1 DEF CInv, LatestOK, LinkedIsCheckedOut
<1>7. ASSUME a \in Request
      PROVE  Opening(a)' /\ OpensIt(a)' /\ OtherwiseOK(a)'
  BY <1>1, <1>3, <1>7, Taking DEF Opening, Within, InSnapshot, OpensIt, OtherwiseOK
<1>8. CInv'
  BY <1>1, <1>3, <1>5, <1>6, <1>7, SnapFrame
<1>9. Unseen
  BY <1>1, SameDrafts DEF Contents
<1> QED
  BY <1>8, <1>9

(* ... commits what is the draft, ... *)
LEMMA CSnapExec ==
    ASSUME BInv, CInv, NEW a \in Actor, SnapExec(a)
    PROVE  CInv' /\ Unseen
<1>1. /\ pc[a] = "snapExec" /\ UNCHANGED <<row, viewWs, disk, snaps, sync, queue, loc>>
      /\ pc'[a] = "snapSave" /\ InSnapshot(a) /\ SnapStep(a)
      /\ snap' = [snap EXCEPT ![a].work = disk[snap[a].view].work]
  BY Types DEF SnapExec, SnapStep, Goto, InSnapshot
<1>2. /\ snap'[a].ws = snap[a].ws /\ snap'[a].view = snap[a].view
      /\ snap'[a].ret = snap[a].ret /\ snap'[a].rowView = snap[a].rowView
      /\ snap'[a].before = snap[a].before /\ snap'[a].work = disk[snap[a].view].work
  BY <1>1, Types DEF SnapType
<1>3. TakesDraft(a)'
  BY <1>1, <1>2 DEF CInv, TakesDraft, InSnapshot, IsAuthoritative
<1>4. LatestOK' /\ LinkedIsCheckedOut'
  BY <1>1 DEF CInv, LatestOK, LinkedIsCheckedOut
<1>5. ASSUME a \in Request
      PROVE  Opening(a)' /\ OpensIt(a)' /\ OtherwiseOK(a)'
  BY <1>1, <1>2, <1>5, Taking DEF Opening, Within, InSnapshot, OpensIt, OtherwiseOK
<1>6. CInv'
  BY <1>1, <1>2, <1>3, <1>4, <1>5, SnapFrame
<1>7. Unseen
  BY <1>1, SameDrafts DEF Contents
<1> QED
  BY <1>6, <1>7

(* What the snapshot holds is the draft of its workspace; the request goes *)
(* on to detach it.                                                        *)
LEMMA Returns ==
    ASSUME BInv, CInv, OneView, NEW a \in Actor, InSnapshot(a), Return(a)
    PROVE  /\ a = Worker => pc'[a] = "idle"
           /\ a \in Request => pc'[a] = "detach" /\ loc' = loc
  BY Taking, Types DEF Return, Finish, Goto

(* ... and finds that the latest snapshot has it, ... *)
LEMMA CSnapSame ==
    ASSUME BInv, CInv, OneView, NEW a \in Actor, SnapSame(a)
    PROVE  CInv' /\ Unseen
<1>1. /\ pc[a] = "snapSave" /\ UNCHANGED <<row, viewWs, disk, snaps, sync, queue>>
      /\ InSnapshot(a) /\ SnapStep(a) /\ SameAsBefore(a) /\ Return(a)
  BY DEF SnapSame, SnapStep, InSnapshot
<1>2. pc'[a] \in {"idle", "detach"} /\ (a = Worker => pc'[a] = "idle")
  BY <1>1, Returns
<1>3. TakesDraft(a)'
  BY <1>2 DEF TakesDraft, InSnapshot
<1>4. LatestOK' /\ LinkedIsCheckedOut'
  BY <1>1 DEF CInv, LatestOK, LinkedIsCheckedOut
<1>5. ASSUME a \in Request
      PROVE  Opening(a)' /\ OpensIt(a)' /\ OtherwiseOK(a)'
  <2>1. pc'[a] = "detach" /\ loc' = loc
    BY <1>1, <1>5, Returns
  <2>2. Kept(loc[a].cur) = disk[loc[a].v].work
    <3>1. /\ snap[a].before = row[loc[a].cur].latest /\ snap[a].work = disk[loc[a].v].work
          /\ snap[a].before # NoId /\ snaps[snap[a].before].work = snap[a].work
      BY <1>1, <1>5, Taking DEF CInv, TakesDraft, SameAsBefore
    <3> QED
      BY <3>1 DEF Kept
  <2>3. Kept(loc[a].cur)' = Kept(loc[a].cur)
    BY <1>1, <2>1 DEF Kept
  <2> QED
    BY <1>1, <1>5, <2>1, <2>2, <2>3, Taking
       DEF Opening, Within, InSnapshot, OpensIt, OtherwiseOK
<1>6. CInv'
  BY <1>1, <1>2, <1>3, <1>4, <1>5, SnapFrame
<1>7. Unseen
  BY <1>1, SameDrafts DEF Contents
<1> QED
  BY <1>6, <1>7

(* ... or makes a new one, which remembers the draft. *)
LEMMA CSnapSave ==
    ASSUME BInv, CInv, OneView, NEW a \in Actor, SnapSave(a)
    PROVE  CInv' /\ DS!Next
<1>0. PICK s \in Workspace, v \in View, work \in SUBSET Edit :
         s = snap[a].ws /\ v = snap[a].view /\ work = snap[a].work
  BY Taking, Types DEF SnapSave, InSnapshot, SnapType
<1> DEFINE n == Len(snaps) + 1
<1>1. /\ pc[a] = "snapSave" /\ UNCHANGED <<viewWs, disk, sync, queue>>
      /\ InSnapshot(a) /\ SnapStep(a) /\ Return(a)
      /\ snaps' = Append(snaps, [ws |-> s, work |-> work])
  BY <1>0 DEF SnapSave, SnapStep, InSnapshot, CreateSnapshot
<1>2. IsAuthoritative(a) /\ work = disk[v].work /\ row[s].view = v
  BY <1>0, <1>1, Taking DEF CInv, TakesDraft
<1>3. row' = [row EXCEPT ![s].latest = n]
  BY <1>0, <1>2 DEF SnapSave
<1>4. \A x \in Workspace : /\ row'[x].view = row[x].view
                           /\ row'[x].latest = IF x = s THEN n ELSE row[x].latest
                           /\ row'[x].exists = row[x].exists
                           /\ row'[x].archived = row[x].archived
  BY <1>3, Types DEF RowType
<1>5. /\ Len(snaps') = n /\ DOMAIN snaps' = 1..n /\ DOMAIN snaps = 1..Len(snaps)
      /\ snaps'[n] = [ws |-> s, work |-> work] /\ n # 0 /\ Len(snaps) \in Nat
      /\ \A i \in 1..Len(snaps) : snaps'[i] = snaps[i]
  <2>1. [ws |-> s, work |-> work] \in [ws : Workspace, work : SUBSET Edit]
    BY <1>0, Types DEF SnapType
  <2> QED
    BY <1>1, <2>1, Types
<1> HIDE DEF n
<1>6. n \in 1..n /\ \A i \in 1..n : i \in 1..Len(snaps) \/ i = n
  BY <1>5 DEF n
<1>7. LatestOK'
  <2>1. \A x \in Workspace : row'[x].latest = NoId => x # s /\ row[x].latest = NoId
    BY <1>4, <1>5
  <2>2. ASSUME NEW x \in Workspace, row'[x].latest = NoId, NEW i \in 1..Len(snaps')
        PROVE  snaps'[i].ws # x
    BY <1>5, <1>6, <2>1, <2>2 DEF CInv, LatestOK
  <2>3. row[s].exists
    BY <1>2, NoneAssumption DEF CInv, LatestOK
  <2>4. \A x \in Workspace : ~row'[x].exists => row'[x].view = none /\ row'[x].latest = NoId
    BY <1>4, <2>3 DEF CInv, LatestOK
  <2> QED
    BY <2>2, <2>4 DEF LatestOK
<1>8. LinkedIsCheckedOut'
  BY <1>1, <1>4 DEF CInv, LinkedIsCheckedOut
<1>9. pc'[a] \in {"idle", "detach"} /\ (a = Worker => pc'[a] = "idle")
  BY <1>1, Returns
<1>10. TakesDraft(a)'
  BY <1>9 DEF TakesDraft, InSnapshot
<1>11. ASSUME a \in Request
       PROVE  Opening(a)' /\ OpensIt(a)' /\ OtherwiseOK(a)'
  <2>1. pc'[a] = "detach" /\ loc' = loc
    BY <1>1, <1>11, Returns
  <2>2. OpensIt(a) /\ loc[a].w \in Workspace /\ loc[a].cur = s /\ loc[a].v = v
    BY <1>0, <1>1, <1>11, Taking
  <2>3. Kept(s)' = disk'[v].work
    BY <1>1, <1>2, <1>4, <1>5 DEF Kept
  <2>4. loc[a].w # s
    BY <1>1, <1>2, <2>2, NoneAssumption DEF OpensIt, InSnapshot
  <2> QED
    BY <1>1, <1>2, <1>4, <2>1, <2>2, <2>3, <2>4
       DEF Opening, Within, InSnapshot, OpensIt, OtherwiseOK
<1>12. CInv'
  BY <1>1, <1>4, <1>7, <1>8, <1>9, <1>10, <1>11, SnapFrame
<1>13. DS!Remember(s)
  <2>1. \A x \in Workspace : Contents(x)' = Contents(x)
    <3>1. ASSUME NEW x \in Workspace
          PROVE  Contents(x)' = Contents(x)
      <4>1. CASE row[x].view # none
        BY <1>1, <1>4, <4>1 DEF Contents
      <4>2. CASE row[x].view = none
        <5>1. x # s
          BY <1>2, <4>2, NoneAssumption
        <5>2. row'[x].view = none /\ row'[x].latest = row[x].latest
          BY <1>4, <4>2, <5>1
        <5>3. row[x].latest # NoId => row[x].latest \in 1..Len(snaps)
          BY Types
        <5>4. row[x].latest # NoId => snaps'[row[x].latest] = snaps[row[x].latest]
          BY <1>5, <5>3
        <5> QED
          BY <4>2, <5>2, <5>4 DEF Contents
      <4> QED
        BY <4>1, <4>2
    <3> QED
      BY <3>1
  <2>2. Drafted' = Drafted
    BY <2>1 DEF Drafted
  <2>3. Contents(s) = work
    BY <1>2, NoneAssumption DEF Contents
  <2>4. \A x \in Workspace : VersionsOf(x)' = IF x = s THEN VersionsOf(x) \union {work} ELSE VersionsOf(x)
    <3>1. ASSUME NEW x \in Workspace, x # s
          PROVE  VersionsOf(x)' = VersionsOf(x)
      <4>1. {j \in 1..n : snaps'[j].ws = x} = {j \in 1..Len(snaps) : snaps[j].ws = x}
        <5>1. 1..n = 1..Len(snaps) \union {n}
          BY <1>5 DEF n
        <5> QED
          BY <1>5, <3>1, <5>1
      <4> QED
        BY <1>5, <4>1 DEF VersionsOf
    <3>2. VersionsOf(s)' = VersionsOf(s) \union {work}
      <4>1. {j \in 1..n : snaps'[j].ws = s} = {j \in 1..Len(snaps) : snaps[j].ws = s} \union {n}
        <5>1. 1..n = 1..Len(snaps) \union {n}
          BY <1>5 DEF n
        <5> QED
          BY <1>5, <5>1
      <4> DEFINE J == {j \in 1..Len(snaps) : snaps[j].ws = s}
      <4>2. VersionsOf(s)' = {snaps'[i].work : i \in J \union {n}}
        BY <1>5, <4>1 DEF VersionsOf
      <4>3. VersionsOf(s) = {snaps[i].work : i \in J}
        BY <1>5 DEF VersionsOf
      <4>4. \A i \in J : snaps'[i] = snaps[i]
        BY <1>5
      <4>5. snaps'[n].work = work
        BY <1>5
      <4> HIDE DEF J
      <4> QED
        BY <4>2, <4>3, <4>4, <4>5
    <3> QED
      BY <3>1, <3>2
  <2>5. Versions' = [Versions EXCEPT ![s] = Versions[s] \union {Drafted[s]}]
    BY <2>3, <2>4 DEF Versions, Drafted
  <2> QED
    BY <2>2, <2>5 DEF DS!Remember
<1> QED
  BY <1>12, <1>13 DEF DS!Next

(* A request starts when all is at rest. *)
LEMMA StartStep ==
    ASSUME BInv, CInv, AtRest, NEW a \in Request, StartRequest(a),
           queue' = queue, sync' = sync,
           LatestOK', LinkedIsCheckedOut', TakesDraft(a)', OtherwiseOK(a)',
           ~Moving(a)' => Settled', Opening(a)' => OpensIt(a)'
    PROVE  CInv'
<1>1. a \in Actor /\ Worker \in Actor /\ Worker # a
  BY WorkerAssumption
<1>2. \A b \in Actor \ {a} : pc'[b] = "idle"
  BY <1>1, OthersStand DEF AtRest, NobodyRuns, Stands
<1>3. queue' = <<>> /\ \A v \in View : sync'[v] = "quiet"
  BY DEF AtRest
<1>4. Reports'
  BY <1>1, <1>2, <1>3, SyncAssumption DEF Reports
<1>5. (\A b \in Request : ~Moving(b))' => Settled'
  OBVIOUS
<1> QED
  BY <1>1, <1>2, <1>3, <1>4, <1>5, CalmStep

(* Between requests views and workspaces agree. *)
LEMMA RestSettled ==
    ASSUME CInv, \A a \in Request : pc[a] = "idle"
    PROVE  Settled
  BY DEF CInv, Moving, Opening, Within, InSnapshot

(* The requests start: opening a workspace, ... *)
LEMMA COpen ==
    ASSUME BInv, CInv, OneView, AtRest, NEW a \in Request,
           NEW w \in Workspace, NEW v \in View, Open(a, w, v)
    PROVE  CInv' /\ Unseen
<1>1. /\ Settled /\ a \in Actor /\ StartRequest(a)
      /\ UNCHANGED <<row, viewWs, disk, snaps, sync, queue>>
  BY RestSettled DEF AtRest, NobodyRuns, Open, StartRequest
<1>2. row[w].exists /\ ~row[w].archived /\ viewWs[v] # none /\ row[w].view = none
  BY Types DEF Open, Exists, Mounted, OneView, RowType
<1>3. /\ pc'[a] = "lookup" /\ loc'[a].w = w /\ loc'[a].v = v
      /\ loc'[a].view = row[w].view /\ loc'[a].latest = row[w].latest
  BY <1>1, Types DEF Open, Begin, OpenLoc, Goto
<1>4. disk[v].branch # w
  <2>1. PICK y \in Workspace : viewWs[v] = y
    BY <1>2, Types
  <2>2. row[y].view = v
    BY <1>1, <2>1 DEF Settled
  <2> QED
    BY <1>2, <2>2, NoneAssumption DEF CInv, LinkedIsCheckedOut
<1>5. LatestOK' /\ LinkedIsCheckedOut'
  BY <1>1 DEF CInv, LatestOK, LinkedIsCheckedOut
<1>6. OpensIt(a)' /\ TakesDraft(a)' /\ OtherwiseOK(a)' /\ Opening(a)'
  BY <1>1, <1>2, <1>3, <1>4
     DEF OpensIt, TakesDraft, OtherwiseOK, Opening, Within, InSnapshot
<1>7. CInv'
  BY <1>1, <1>5, <1>6, StartStep DEF Moving
<1>8. Unseen
  BY <1>1, SameDrafts DEF Contents
<1> QED
  BY <1>7, <1>8

(* ... on a new view, which has no draft yet, ... *)
LEMMA CNewView ==
    ASSUME BInv, CInv, OneView, AtRest, NEW a \in Request,
           NEW w \in Workspace, NEW v \in View, NewView(a, w, v)
    PROVE  CInv' /\ Unseen
<1>1. /\ Settled /\ a \in Actor /\ StartRequest(a)
      /\ UNCHANGED <<row, snaps, sync, queue>>
      /\ disk' = [disk EXCEPT ![v].branch = w]
  BY RestSettled DEF AtRest, NobodyRuns, NewView, StartRequest
<1>2. row[w].exists /\ ~row[w].archived /\ viewWs[v] = none
  BY DEF NewView, Exists, Mounted
<1>3. \A x \in Workspace : row[x].view = none
  <2>1. \A x \in Workspace : row[x].view # v
    BY <1>1, <1>2, NoneAssumption DEF Settled
  <2> QED
    BY <2>1, Types DEF OneView, RowType
<1>4. /\ pc'[a] = "lookup" /\ loc'[a].w = w /\ loc'[a].v = v
      /\ loc'[a].view = row[w].view /\ loc'[a].latest = row[w].latest
  BY <1>1, Types DEF NewView, Begin, OpenLoc, Goto
<1>5. disk'[v].work = {}
  BY <1>1, <1>2, Types DEF Settled, DiskType
<1>6. LatestOK' /\ LinkedIsCheckedOut'
  BY <1>1, <1>3 DEF CInv, LatestOK, LinkedIsCheckedOut
<1>7. OpensIt(a)' /\ TakesDraft(a)' /\ OtherwiseOK(a)' /\ Opening(a)'
  BY <1>1, <1>2, <1>3, <1>4, <1>5
     DEF OpensIt, TakesDraft, OtherwiseOK, Opening, Within, InSnapshot
<1>8. CInv'
  BY <1>1, <1>6, <1>7, StartStep DEF Moving
<1>9. Unseen
  BY <1>1, <1>3, SameDrafts DEF Contents
<1> QED
  BY <1>8, <1>9

(* ... archiving it, ... *)
LEMMA CArchive ==
    ASSUME BInv, CInv, AtRest, NEW a \in Request,
           NEW w \in Workspace, Archive(a, w)
    PROVE  CInv' /\ Unseen
<1>1. /\ Settled /\ a \in Actor /\ StartRequest(a)
      /\ UNCHANGED <<row, viewWs, disk, snaps, sync, queue>>
  BY RestSettled DEF AtRest, NobodyRuns, Archive, StartRequest
<1>2. pc'[a] = "archive" /\ loc'[a].w = w /\ loc'[a].view = row[w].view
  BY <1>1, Types DEF Archive, Begin, OpenLoc, Goto
<1>3. LatestOK' /\ LinkedIsCheckedOut' /\ Settled'
  BY <1>1 DEF CInv, LatestOK, LinkedIsCheckedOut, Settled
<1>4. TakesDraft(a)' /\ OtherwiseOK(a)' /\ ~Opening(a)'
  BY <1>1, <1>2 DEF TakesDraft, OtherwiseOK, Opening, Within, InSnapshot
<1>5. CInv'
  BY <1>1, <1>3, <1>4, StartStep
<1>6. Unseen
  BY <1>1, SameDrafts DEF Contents
<1> QED
  BY <1>5, <1>6

(* ... unarchiving it: it has no view to lose, ... *)
LEMMA CUnarchive ==
    ASSUME BInv, CInv, AtRest, NEW a \in Request,
           NEW w \in Workspace, Unarchive(a, w)
    PROVE  CInv' /\ Unseen
<1>1. /\ Settled /\ a \in Actor /\ StartRequest(a)
      /\ UNCHANGED <<viewWs, disk, snaps, sync, queue, pc, loc, snap>>
      /\ row[w].archived /\ pc[a] = "idle"
      /\ row' = [row EXCEPT ![w].archived = FALSE, ![w].unarchived = TRUE,
                            ![w].view = none]
  BY RestSettled DEF AtRest, NobodyRuns, Unarchive, StartRequest
<1>2. row[w].view = none
  BY <1>1 DEF Settled
<1>3. \A x \in Workspace : /\ row'[x].view = row[x].view
                           /\ row'[x].latest = row[x].latest
                           /\ row'[x].exists = row[x].exists
                           /\ x # w => row'[x].archived = row[x].archived
  BY <1>1, <1>2, Types DEF RowType
<1>4. LatestOK' /\ LinkedIsCheckedOut'
  BY <1>1, <1>3 DEF CInv, LatestOK, LinkedIsCheckedOut
<1>5. Settled'
  <2>1. UNCHANGED <<viewWs, disk>>
    BY <1>1
  <2>2. \A x \in Workspace : row'[x].view # none => ~row'[x].archived
    <3>1. \A x \in Workspace : row[x].view # none => x # w /\ ~row[x].archived
      BY <1>1, <1>2 DEF Settled
    <3> QED
      BY <1>3, <3>1
  <2>3. Settled /\ \A x \in Workspace : row'[x].view = row[x].view
    BY <1>1, <1>3
  <2> QED
    BY <2>1, <2>2, <2>3 DEF Settled
<1>6. TakesDraft(a)' /\ OtherwiseOK(a)' /\ ~Opening(a)'
  BY <1>1 DEF TakesDraft, OtherwiseOK, Opening, Within, InSnapshot
<1>7. CInv'
  BY <1>1, <1>4, <1>5, <1>6, StartStep
<1>8. \A x \in Workspace : Contents(x)' = Contents(x)
  BY <1>1, <1>3 DEF Contents
<1> QED
  BY <1>1, <1>7, <1>8, SameDrafts

(* ... going back to a snapshot. *)
LEMMA CSetSnapshot ==
    ASSUME BInv, CInv, AtRest, NEW a \in Request, NEW w \in Workspace,
           NEW i \in DOMAIN snaps, SetSnapshot(a, w, i)
    PROVE  CInv' /\ Unseen
<1>1. /\ Settled /\ a \in Actor /\ StartRequest(a)
      /\ UNCHANGED <<row, viewWs, disk, snaps, sync, queue>>
      /\ row[w].exists /\ i \in 1..Len(snaps) /\ snaps[i].ws = w
  BY RestSettled, Types DEF AtRest, NobodyRuns, SetSnapshot, StartRequest, Exists
<1>2. /\ pc'[a] \in {"setLatest", "restore"} /\ loc'[a].w = w
      /\ loc'[a].view = row[w].view /\ loc'[a].latest = i
  BY <1>1, Types DEF SetSnapshot, Begin, Goto
<1>3. LatestOK' /\ LinkedIsCheckedOut' /\ Settled'
  BY <1>1 DEF CInv, LatestOK, LinkedIsCheckedOut, Settled
<1>4. TakesDraft(a)' /\ OtherwiseOK(a)' /\ ~Opening(a)'
  BY <1>1, <1>2 DEF TakesDraft, OtherwiseOK, Opening, Within, InSnapshot
<1>5. CInv'
  BY <1>1, <1>3, <1>4, StartStep
<1>6. Unseen
  BY <1>1, SameDrafts DEF Contents
<1> QED
  BY <1>5, <1>6

(* While no request runs: edits, reports and the queue worker. *)
LEMMA NoRequest ==
    ASSUME BInv, CInv, \A a \in Request : pc[a] = "idle" /\ pc'[a] = "idle",
           Reports', LatestOK', LinkedIsCheckedOut', Settled', TakesDraft(Worker)'
    PROVE  CInv'
<1>1. Worker \in Actor /\ Worker \notin Request
  BY WorkerAssumption
<1>2. \A b \in Actor \ {Worker} : pc'[b] = "idle"
  OBVIOUS
<1> QED
  BY <1>1, <1>2, CalmStep

(* Something waits to be reported or saved: no request runs. *)
LEMMA Standstill ==
    ASSUME CInv, queue # <<>> \/ \E v \in View : sync[v] # "quiet"
    PROVE  \A a \in Request : pc[a] = "idle"
  BY DEF CInv, OneRuns

(* An edit is written to the draft of what is open on the view. *)
LEMMA CMakeEdit ==
    ASSUME BInv, CInv, OneView, NobodyRuns, NEW v \in View, NEW e \in Edit,
           MakeEdit(v, e)
    PROVE  CInv' /\ DS!Next
<1>1. /\ Settled /\ UNCHANGED <<row, viewWs, snaps, queue, pc, loc, snap>>
      /\ \A a \in Actor : pc[a] = "idle" /\ pc'[a] = "idle"
      /\ disk' = [disk EXCEPT ![v].work = disk[v].work \union {e}]
      /\ sync' = [sync EXCEPT ![v] = "changed"]
  BY RestSettled DEF NobodyRuns, MakeEdit
<1>2. PICK w \in Workspace : viewWs[v] = w /\ row[w].view = v
  BY <1>1, Types DEF MakeEdit, Mounted, Settled
<1>3. \A u \in View : u = v
  BY DEF OneView
<1>4. /\ \A u \in View : disk'[u].branch = disk[u].branch
      /\ disk'[v].work = disk[v].work \union {e}
  BY <1>1, Types DEF DiskType
<1>5. sync'[v] = "changed"
  BY <1>1 DEF BInv, TypeOK, StoreOK
<1>6. Reports'
  BY <1>1, <1>3, <1>5, SyncAssumption DEF CInv, Reports
<1>7. LatestOK'
  BY <1>1 DEF CInv, LatestOK
<1>8. LinkedIsCheckedOut'
  <2>1. \A x \in Workspace : row[x].view # none => row[x].view \in View
    BY Types DEF RowType
  <2> QED
    BY <1>1, <1>4, <2>1 DEF CInv, LinkedIsCheckedOut
<1>9. Settled'
  BY <1>1, <1>2, <1>3, NoneAssumption DEF Settled
<1>10. TakesDraft(Worker)'
  BY <1>1 DEF TakesDraft, InSnapshot
<1>11. CInv'
  BY <1>1, <1>6, <1>7, <1>8, <1>9, <1>10, NoRequest
<1>12. DS!Write(w, e)
  <2>1. PICK d : d = disk[v].work \union {e}
    OBVIOUS
  <2>2. Contents(w) = disk[v].work
    BY <1>2, NoneAssumption DEF Contents
  <2>3. Contents(w)' = d
    BY <1>1, <1>2, <1>4, <2>1, NoneAssumption DEF Contents
  <2>4. \A x \in Workspace : x # w => Contents(x)' = Contents(x)
    <3>1. \A x \in Workspace : x # w => row[x].view = none
      BY <1>2, OnlyOpen, NoneAssumption
    <3> QED
      BY <1>1, <3>1 DEF Contents
  <2>5. Versions' = Versions
    BY <1>1 DEF Versions, VersionsOf
  <2>6. Drafted' = [Drafted EXCEPT ![w] = d]
    BY <2>3, <2>4, DraftChange
  <2>7. Drafted[w] = disk[v].work
    BY <2>2 DEF Drafted
  <2> QED
    BY <2>1, <2>5, <2>6, <2>7 DEF DS!Write
<1> QED
  BY <1>11, <1>12 DEF DS!Next

(* The report reads the workspace of the view, ... *)
LEMMA CSyncRead ==
    ASSUME BInv, CInv, OneView, NEW v \in View, SyncRead(v)
    PROVE  CInv' /\ Unseen
<1>1. /\ UNCHANGED <<row, viewWs, disk, snaps, queue, pc, loc, snap>>
      /\ sync[v] = "changed" /\ sync' = [sync EXCEPT ![v] = viewWs[v]]
  BY DEF SyncRead
<1>2. Settled /\ \A a \in Request : pc[a] = "idle" /\ pc'[a] = "idle"
  BY <1>1, Standstill, RestSettled
<1>3. sync'[v] = viewWs[v] /\ \A u \in View : u = v
  BY <1>1 DEF BInv, TypeOK, StoreOK, OneView
<1>4. Reports'
  BY <1>1, <1>3 DEF CInv, Reports
<1>5. LatestOK' /\ LinkedIsCheckedOut' /\ Settled'
  BY <1>1, <1>2 DEF CInv, LatestOK, LinkedIsCheckedOut, Settled
<1>6. TakesDraft(Worker)'
  BY <1>1 DEF CInv, TakesDraft, InSnapshot, IsAuthoritative
<1>7. CInv'
  BY <1>2, <1>4, <1>5, <1>6, NoRequest
<1>8. Unseen
  BY <1>1, SameDrafts DEF Contents
<1> QED
  BY <1>7, <1>8

(* ... writes back what the view has, ... *)
LEMMA CSyncWrite ==
    ASSUME BInv, CInv, OneView, NEW v \in View, SyncWrite(v)
    PROVE  CInv' /\ Unseen
<1>1. /\ UNCHANGED <<row, disk, snaps, pc, loc, snap>>
      /\ sync[v] \in Workspace /\ sync' = [sync EXCEPT ![v] = "quiet"]
      /\ viewWs' = [viewWs EXCEPT ![v] = sync[v]]
      /\ queue' = Append(queue, [view |-> v, ws |-> sync[v]])
  BY DEF SyncWrite
<1>2. Settled /\ \A a \in Request : pc[a] = "idle" /\ pc'[a] = "idle"
  BY <1>1, Standstill, RestSettled, SyncAssumption
<1>3. sync[v] = viewWs[v] /\ viewWs' = viewWs
  BY <1>1, Types DEF CInv, Reports
<1>4. sync'[v] = "quiet" /\ \A u \in View : u = v
  BY <1>1 DEF BInv, TypeOK, StoreOK, OneView
<1>5. /\ Len(queue') = Len(queue) + 1 /\ Len(queue) \in Nat
      /\ queue'[Len(queue) + 1] = [view |-> v, ws |-> sync[v]]
      /\ \A i \in 1..Len(queue) : queue'[i] = queue[i]
  <2>1. queue \in Seq([view : View, ws : Workspace])
    BY DEF BInv, TypeOK, StoreOK
  <2>2. [view |-> v, ws |-> sync[v]] \in [view : View, ws : Workspace]
    BY <1>1
  <2> QED
    BY <1>1, <2>1, <2>2
<1>6. Reports'
  <2>1. ASSUME NEW i \in 1..Len(queue')
        PROVE  viewWs'[queue'[i].view] = queue'[i].ws
    <3>1. CASE i \in 1..Len(queue)
      BY <1>3, <1>5, <3>1 DEF CInv, Reports
    <3>2. CASE i = Len(queue) + 1
      BY <1>3, <1>5, <3>2
    <3> QED
      BY <1>5, <3>1, <3>2
  <2> QED
    BY <1>1, <1>3, <1>4, <2>1, SyncAssumption DEF CInv, Reports
<1>7. LatestOK' /\ LinkedIsCheckedOut' /\ Settled'
  BY <1>1, <1>2, <1>3 DEF CInv, LatestOK, LinkedIsCheckedOut, Settled
<1>8. TakesDraft(Worker)'
  BY <1>1 DEF CInv, TakesDraft, InSnapshot, IsAuthoritative
<1>9. CInv'
  BY <1>2, <1>6, <1>7, <1>8, NoRequest
<1>10. Unseen
  BY <1>1, SameDrafts DEF Contents
<1> QED
  BY <1>9, <1>10

(* ... and the worker takes a snapshot of it. *)
LEMMA CWorkerTake ==
    ASSUME BInv, CInv, WorkerTake
    PROVE  CInv' /\ Unseen
<1>1. /\ UNCHANGED <<row, viewWs, disk, snaps, sync, loc>>
      /\ pc[Worker] = "idle" /\ queue # <<>> /\ queue' = Tail(queue)
      /\ Call(Worker, Head(queue).ws, Head(queue).view, FALSE, "idle")
  BY DEF WorkerTake
<1>2. Worker \in Actor /\ Worker \notin Request
  BY WorkerAssumption
<1>3. Settled /\ \A a \in Request : pc[a] = "idle"
  BY <1>1, Standstill, RestSettled
<1>4. /\ \A a \in Actor : a # Worker => pc'[a] = pc[a]
      /\ pc'[Worker] = "snapRead"
      /\ snap'[Worker].ws = Head(queue).ws /\ snap'[Worker].view = Head(queue).view
  BY <1>1, <1>2, Types DEF Call, Goto
<1>5. /\ 1 \in 1..Len(queue) /\ Head(queue) = queue[1]
      /\ Head(queue).ws \in Workspace /\ Head(queue).view \in View
      /\ \A i \in 1..Len(queue') : i + 1 \in 1..Len(queue) /\ queue'[i] = queue[i + 1]
  <2> DEFINE T == [view : View, ws : Workspace]
  <2>1. queue \in Seq(T)
    BY DEF BInv, TypeOK, StoreOK
  <2> HIDE DEF T
  <2>2. /\ Head(queue) \in T /\ 1 \in 1..Len(queue) /\ Head(queue) = queue[1]
        /\ \A i \in 1..Len(queue') : i + 1 \in 1..Len(queue) /\ queue'[i] = queue[i + 1]
    BY <1>1, <2>1
  <2> QED
    BY <2>2 DEF T
<1>6. viewWs[Head(queue).view] = Head(queue).ws
  BY <1>5 DEF CInv, Reports
<1>7. Reports'
  BY <1>1, <1>4, <1>5, <1>6 DEF CInv, Reports
<1>8. row[Head(queue).ws].view = Head(queue).view
  BY <1>3, <1>5, <1>6 DEF Settled
<1>9. TakesDraft(Worker)'
  BY <1>1, <1>4, <1>8 DEF TakesDraft, InSnapshot
<1>10. LatestOK' /\ LinkedIsCheckedOut' /\ Settled'
  BY <1>1, <1>3 DEF CInv, LatestOK, LinkedIsCheckedOut, Settled
<1>11. \A a \in Request : pc'[a] = "idle"
  BY <1>2, <1>3, <1>4
<1>12. CInv'
  BY <1>3, <1>7, <1>9, <1>10, <1>11, NoRequest
<1>13. Unseen
  BY <1>1, SameDrafts DEF Contents
<1> QED
  BY <1>12, <1>13

(* At first there are no drafts. *)
LEMMA CInit ==
    ASSUME Init
    PROVE  CInv /\ DS!Init
<1>1. PICK W \in SUBSET Workspace :
         row = [w \in Workspace |-> [NewRow EXCEPT !.exists = w \in W]]
  BY DEF Init
<1>2. \A w \in Workspace : row[w].view = none /\ row[w].latest = NoId
  BY <1>1
<1>3. /\ snaps = <<>> /\ queue = <<>> /\ \A a \in Actor : pc[a] = "idle"
      /\ \A v \in View : /\ viewWs[v] = none /\ disk[v].work = {}
                         /\ sync[v] = "quiet"
  BY DEF Init
<1>4. OneRuns /\ LatestOK /\ LinkedIsCheckedOut
  BY <1>2, <1>3 DEF OneRuns, LatestOK, LinkedIsCheckedOut
<1>5. Reports
  BY <1>3, SyncAssumption DEF Reports
<1>6. Settled
  BY <1>2, <1>3, NoneAssumption DEF Settled
<1>7. \A a \in Actor : TakesDraft(a) /\ OtherwiseOK(a) /\ ~Opening(a)
  BY <1>3 DEF TakesDraft, OtherwiseOK, Opening, Within, InSnapshot
<1>8. CInv
  BY <1>4, <1>5, <1>6, <1>7 DEF CInv
<1>9. DS!Init
  <2>1. \A w \in Workspace : Contents(w) = {}
    BY <1>2 DEF Contents
  <2>2. \A w \in Workspace : VersionsOf(w) = {}
    BY <1>3 DEF VersionsOf
  <2> QED
    BY <2>1, <2>2 DEF DS!Init, DS!EmptyDraft, Drafted, Versions
<1> QED
  BY <1>8, <1>9

(* A calm step with one view is one of DraftStore, or invisible there. *)
LEMMA CNext ==
    ASSUME BInv, CInv, OneView, CalmNext
    PROVE  CInv' /\ (DS!Next \/ Unseen)
<1>1. ASSUME AtRest, NEW a \in Request, StartRequest(a)
      PROVE  CInv' /\ Unseen
  BY <1>1, COpen, CNewView, CArchive, CUnarchive, CSetSnapshot DEF StartRequest
<1>2. ASSUME NEW a \in Actor, Run(a)
      PROVE  CInv' /\ (DS!Next \/ Unseen)
  <2>1. CASE SnapStep(a)
    BY <2>1, CSnapRead, CSnapExec, CSnapSame, CSnapSave DEF SnapStep
  <2>2. CASE OpenStep(a) \/ WorkspaceStep(a)
    <3>1. a \in Request
      BY <2>2, RequestsOnly DEF BInv
    <3> QED
      BY <2>2, <3>1, CLookup, CDetach, CCheckout, CLink, CLinkView,
         CArchiveRow, CReplace, CRestoreOnView, CSetLatest
         DEF OpenStep, WorkspaceStep
  <2> QED
    BY <1>2, <2>1, <2>2 DEF Run
<1>3. CASE NobodyRuns /\ AnyEdit
  BY <1>3, CMakeEdit DEF AnyEdit
<1>4. ASSUME NEW v \in View, MutagenStep(v)
      PROVE  CInv' /\ Unseen
  BY <1>4, CSyncRead, CSyncWrite DEF MutagenStep
<1>5. CASE WorkerTake
  BY <1>5, CWorkerTake
<1> QED
  BY <1>1, <1>2, <1>3, <1>4, <1>5 DEF CalmNext

(* Stuttering. *)
LEMMA CSame ==
    ASSUME CInv, UNCHANGED vars
    PROVE  CInv' /\ Unseen
<1>1. CInv'
  BY DEF vars, CInv, OneRuns, Reports, LatestOK, LinkedIsCheckedOut, Moving,
         Settled, TakesDraft, OpensIt, OtherwiseOK, Opening, Within, InSnapshot,
         IsAuthoritative, Kept
<1>2. Unseen
  BY SameDrafts DEF vars, Contents
<1> QED
  BY <1>1, <1>2

(* On a calm server with one view drafts change by their owner's edits and *)
(* by going back to a snapshot only: opening, closing, archiving, replacing*)
(* and saving workspaces, for any number of them, lose and mix up nothing. *)
THEOREM DraftsAreKept ==
    ASSUME OneView
    PROVE  WatchedSpec => ImplementsDraftStore
<1> DEFINE I == BInv /\ (calm => CInv)
<1>1. WatchedInit => I /\ DS!Init
  BY BInit, CInit DEF WatchedInit
<1>2. I /\ [WatchedNext]_<<vars, calm>> =>
         I' /\ [calm' => DS!Next \/ UNCHANGED <<Drafted, Versions>>]_<<vars, calm>>
  <2> SUFFICES ASSUME I, [WatchedNext]_<<vars, calm>>
               PROVE  I' /\ [calm' => DS!Next \/ UNCHANGED <<Drafted, Versions>>]_<<vars, calm>>
    OBVIOUS
  <2>1. CASE WatchedNext
    <3>1. BInv'
      BY <2>1, BNext DEF WatchedNext
    <3>2. calm' => calm /\ CalmNext
      BY <2>1 DEF WatchedNext
    <3> QED
      BY <3>1, <3>2, CNext DEF Unseen
  <2>2. CASE UNCHANGED <<vars, calm>>
    <3>1. BInv' /\ calm' = calm /\ UNCHANGED vars
      BY <2>2, BNext
    <3> QED
      BY <2>2, <3>1, CSame
  <2> QED
    BY <2>1, <2>2
<1> QED
  BY <1>1, <1>2, PTL DEF WatchedSpec, ImplementsDraftStore

-----------------------------------------------------------------------------
(***************************************************************************)
(* Suggestions (instance S of MCDrafts), for any number of workspaces,     *)
(* requests, collectors, passes and failures.                              *)
(*                                                                         *)
(* KeptOK says what rows, requests and collectors may name, and that what  *)
(* a collector is about to delete nobody uses, unless it is excused        *)
(* (Condemned).  MarksOK says that one request makes a suggestion          *)
(* (MakersOK), where a request can be with its task (AtRow), and, of a     *)
(* suggestion that nothing disturbs, that the one request that has its row *)
(* holds what it is about to write (Careful): each hunk has a position of  *)
(* its own (OnePosition), so that more positions are more hunks.           *)
(***************************************************************************)

(* What the rows hold, and what a request or a collector may hold.         *)
WsTypes   == [exists : BOOLEAN, open : BOOLEAN, archived : BOOLEAN, latest : Nat]
SnapTypes == [ws : Workspace2, work : SUBSET Edit2, old : BOOLEAN, live : BOOLEAN,
              trunk : BOOLEAN, local : BOOLEAN]
SugTypes  == [there : BOOLEAN, base : Nat, applied : SUBSET Nat, dismissed : SUBSET Nat,
              hidden : BOOLEAN, notified : BOOLEAN]
GCTypes   == [pc : {"idle", "check", "again", "view", "row"}, todo : SUBSET Nat, cur : Nat]

OnRow == {"apply", "dismissHunks", "dismiss", "activity"}
Holds == [kind : {"none", "snap", "suggest", "remove"} \union OnRow, w : Workspace2,
          d : Workspace2, latest : Nat, open : BOOLEAN, row : SugTypes,
          adds : SUBSET Edit2, dels : SUBSET Edit2, id : Nat]
Steps == {"idle", "take", "mark", "new", "link", "insert", "diff", "patch", "record", "undo"}

RowsTyped ==
    /\ ws \in [Workspace2 -> WsTypes]
    /\ disk2 \in [Workspace2 -> SUBSET Edit2]
    /\ snaps2 \in Seq(SnapTypes)
    /\ sug \in [Workspace2 -> SugTypes]
    /\ done \in [Workspace2 -> SUBSET Edit2]
RequestsTyped == pc2 \in [Request2 -> Steps] /\ loc2 \in [Request2 -> Holds]
CollectorsTyped ==
    /\ gc \in [Collector -> GCTypes]
    /\ \A c \in Collector : /\ gc[c].todo \subseteq S!Ids /\ gc[c].cur \in S!Ids \union {0}
                            /\ gc[c].pc \in {"idle", "check"} => gc[c].cur = 0

(* Rows and requests name snapshots that were taken.                       *)
Named == S!Ids \union {0}
NamesOK ==
    /\ \A w \in Workspace2 : ws[w].latest \in Named /\ sug[w].base \in Named
    /\ \A r \in Request2 : {loc2[r].latest, loc2[r].id, loc2[r].row.base} \subseteq Named

(* What a collector is about to delete nobody uses, or is excused.         *)
Condemned ==
    \A c \in Collector : gc[c].cur \in S!FoundInUse => gc[c].cur \in excused

KeptOK == /\ RowsTyped /\ RequestsTyped /\ CollectorsTyped /\ NamesOK
          /\ Condemned /\ S!UsedIsKept /\ S!LiveOnTrunk

(* Who makes a suggestion is the only one to, and it is not there yet.     *)
Making(r) == loc2[r].kind = "suggest"
MakersOK ==
    /\ \A d \in Workspace2 : sug[d].there => ws[d].exists
    /\ \A d \in Workspace2 : ~sug[d].there => done[d] = {}
    /\ \A r \in Request2 : Making(r) => /\ ~sug[loc2[r].d].there
                                        /\ pc2[r] # "new" => ws[loc2[r].d].exists
    /\ \A q, r \in Request2 : Making(q) /\ Making(r) /\ loc2[q].d = loc2[r].d => q = r

(* Where a request can be with its task, and what it then holds.           *)
Shape(at, l) ==
    /\ at = "idle" => l = S!NoLoc
    /\ at \in {"new", "link", "insert"} => l.kind = "suggest"
    /\ at \in {"diff", "patch", "record"} => l.kind \in OnRow
    /\ at = "patch" => l.kind = "apply"
    /\ at \in {"take", "undo"} => l.kind \in {"snap", "suggest", "remove"}
    /\ at = "mark" => l.kind \in {"snap", "suggest", "remove", "apply"}
    /\ l.kind \in OnRow => l.row.there
AtRow(r) ==
    /\ Shape(pc2[r], loc2[r])
    /\ loc2[r].kind \in OnRow => sug[loc2[r].d].there

(* Undisturbed: the row says what was done, or the one request that has it *)
(* is about to write it.                                                   *)
Told(d, applied) == S!Marked(d, applied) = done[d]
HasRow(r, d) == loc2[r].kind \in OnRow /\ loc2[r].d = d
Pending(r, d) ==
    LET l == loc2[r]  hunks == l.adds \union l.dels IN
    /\ l.row.base = sug[d].base
    /\ pc2[r] \in {"mark", "record"} => Told(d, l.row.applied)
    /\ pc2[r] \in {"diff", "patch"} => Told(d, sug[d].applied)
    /\ pc2[r] = "diff" => l.row = sug[d]
    /\ pc2[r] = "patch" =>
          /\ hunks \subseteq S!Diff(d)
          /\ l.row.applied = sug[d].applied \union {S!Position(h, S!Diff(d)) : h \in hunks}
Careful(d) ==
    /\ \A q, r \in Request2 : HasRow(q, d) /\ HasRow(r, d) => q = r
    /\ \A r \in Request2 : HasRow(r, d) => Pending(r, d)
    /\ (\A r \in Request2 : ~HasRow(r, d)) => Told(d, sug[d].applied)

MarksOK ==
    /\ MakersOK /\ \A r \in Request2 : AtRow(r)
    /\ \A d \in Workspace2 \ disturbed : sug[d].there => Careful(d)

LEMMA NothingIs ==
    /\ S!NoLoc \in Holds /\ S!NoLoc.kind = "none" /\ S!NoLoc.latest = 0 /\ S!NoLoc.id = 0
    /\ S!NoLoc.row.base = 0 /\ S!NoLoc.adds = {} /\ S!NoLoc.dels = {} /\ S!NoLoc.row = S!NoSug
    /\ S!NoSug \in SugTypes /\ S!NoSug.base = 0 /\ S!NoSug.applied = {} /\ ~S!NoSug.there
    /\ S!NoGC \in GCTypes /\ S!NoGC.todo = {} /\ S!NoGC.cur = 0 /\ S!NoGC.pc = "idle"
BY SuggestionsAssumption DEF S!NoLoc, S!NoSug, S!NoGC, Holds, SugTypes, GCTypes

LEMMA IdsAre ==
    ASSUME RowsTyped
    PROVE  S!Ids = 1..Len(snaps2) /\ Len(snaps2) \in Nat /\ 0 \notin S!Ids
BY DEF RowsTyped, S!Ids

LEMMA TakenIs ==
    ASSUME RowsTyped, NEW w \in Workspace2, NEW work \in SUBSET Edit2, NEW view \in BOOLEAN,
           snaps2' = S!Taken(snaps2, w, work, view)
    PROVE  \E x \in SnapTypes : /\ x.live /\ x.trunk /\ x.work = work
                                /\ snaps2' = Append(snaps2, x)
<1>1. PICK x : x = [ws |-> w, work |-> work, old |-> FALSE, live |-> TRUE,
                    trunk |-> TRUE, local |-> view]
  OBVIOUS
<1>2. x \in SnapTypes /\ x.live /\ x.trunk /\ x.work = work
  BY <1>1 DEF SnapTypes
<1>3. snaps2' = Append(snaps2, x)
  BY <1>1 DEF S!Taken
<1>. QED BY <1>2, <1>3

LEMMA WorkIs ==
    ASSUME RowsTyped, NEW i \in Named
    PROVE  S!Work(i) \in SUBSET Edit2
<1>1. i # 0 => snaps2[i] \in SnapTypes
  BY IdsAre DEF RowsTyped, Named
<1>. QED BY <1>1 DEF S!Work, SnapTypes

LEMMA PatchedIs ==
    ASSUME NEW l \in Holds, NEW work \in SUBSET Edit2
    PROVE  /\ S!Patched(l, work) \in SUBSET Edit2 /\ S!Fitting(l, work) \in SUBSET Edit2
           /\ S!Fitting(l, work) \subseteq l.adds \union l.dels
           /\ S!Blocked(l, work) = {} => S!Fitting(l, work) = l.adds \union l.dels
BY DEF Holds, S!Patched, S!Fitting, S!Blocked

(* What a step may do to the snapshots.                                    *)
Appends == \E x \in SnapTypes : x.live /\ x.trunk /\ snaps2' = Append(snaps2, x)
Deletes(c) == S!DeleteTrunkBranch(c) \/ S!DeleteViewBranch(c) \/ S!DeleteRow(c)
SnapsStep == snaps2' = snaps2 \/ Appends \/ S!Age \/ \E c \in Collector : Deletes(c)

LEMMA SnapsMove ==
    ASSUME RowsTyped, RequestsTyped, NamesOK, S!Step
    PROVE  SnapsStep
<1>1. ASSUME NEW r \in Request2, S!StartRequest(r) PROVE snaps2' = snaps2
  BY <1>1 DEF S!StartRequest, S!StartSnapshot, S!StartSuggestion, S!StartDismiss,
              S!StartActivity, S!StartHunks, S!RemovePatches, S!BeginOn, S!Begin,
              S!stores
<1>2. ASSUME NEW r \in Request2, S!Run(r) PROVE SnapsStep
  <2>. /\ loc2[r] \in Holds /\ loc2[r].w \in Workspace2 /\ disk2[loc2[r].w] \in SUBSET Edit2
       /\ loc2[r].latest \in Named
    BY DEF RequestsTyped, RowsTyped, Holds, NamesOK
  <2>1. CASE S!Take(r)
    <3>1. snaps2' = snaps2 \/ snaps2' = S!Taken(snaps2, loc2[r].w, disk2[loc2[r].w], TRUE)
      BY <2>1 DEF S!Take
    <3>. QED BY <3>1, TakenIs DEF SnapsStep, Appends
  <2>2. CASE S!PatchSnapshot(r)
    <3>1. \/ snaps2' = snaps2
          \/ snaps2' = S!Taken(snaps2, Original, S!Patched(loc2[r], S!Work(loc2[r].latest)), FALSE)
      BY <2>2 DEF S!PatchSnapshot
    <3>2. S!Patched(loc2[r], S!Work(loc2[r].latest)) \in SUBSET Edit2
      BY WorkIs, PatchedIs
    <3>. QED BY <3>1, <3>2, TakenIs, SuggestionsAssumption DEF SnapsStep, Appends
  <2>3. ~S!Take(r) /\ ~S!PatchSnapshot(r) => snaps2' = snaps2
    BY <1>2 DEF S!Run, S!Mark, S!NewWorkspace, S!LinkSnapshot, S!Insert, S!ReadDiff,
                S!ReadDeleted, S!PatchView, S!Record, S!RemoveInView, S!FailRequest,
                S!stores
  <2>. QED BY <2>1, <2>2, <2>3 DEF SnapsStep
<1>3. CASE S!UserStep
  <2>1. ASSUME NEW w \in Workspace2, NEW a \in BOOLEAN, S!Leave(w, a) PROVE SnapsStep
    <3>1. snaps2' = snaps2 \/ snaps2' = S!Taken(snaps2, w, disk2[w], TRUE)
      BY <2>1 DEF S!Leave
    <3>2. disk2[w] \in SUBSET Edit2
      BY DEF RowsTyped
    <3>. QED BY <3>1, <3>2, TakenIs DEF SnapsStep, Appends
  <2>2. (\A w \in Workspace2 : ~S!Leave(w, FALSE) /\ ~S!Leave(w, TRUE)) => snaps2' = snaps2
    BY <1>3 DEF S!UserStep, S!Open, S!Unarchive, S!SetSnapshot, S!Edits
  <2>. QED BY <2>1, <2>2 DEF SnapsStep
<1>4. ASSUME NEW c \in Collector, S!GCStep(c) PROVE SnapsStep
  BY <1>4 DEF S!GCStep, S!StartGC, S!EndGC, S!SkipBranches, S!FailBranch, S!Die, S!Keep,
              S!Condemn, S!stores, Deletes, SnapsStep
<1>. QED BY <1>1, <1>2, <1>3, <1>4 DEF S!Step, SnapsStep

(* Whatever happens to a snapshot, its files stay.                         *)
SnapsKeep ==
    /\ snaps2' \in Seq(SnapTypes) /\ S!Ids \subseteq S!Ids'
    /\ \A i \in S!Ids : snaps2'[i].work = snaps2[i].work

LEMMA SnapsAreKept ==
    ASSUME RowsTyped, CollectorsTyped, SnapsStep
    PROVE  SnapsKeep
<1>. snaps2 \in Seq(SnapTypes) /\ S!Ids = 1..Len(snaps2) /\ Len(snaps2) \in Nat
  BY IdsAre DEF RowsTyped
<1>1. CASE snaps2' = snaps2
  BY <1>1 DEF SnapsKeep, S!Ids
<1>2. CASE Appends
  <2>1. PICK x \in SnapTypes : snaps2' = Append(snaps2, x)
    BY <1>2 DEF Appends
  <2>. QED BY <2>1 DEF SnapsKeep, S!Ids
<1>3. CASE S!Age
  <2>1. snaps2' = [i \in 1..Len(snaps2) |-> [snaps2[i] EXCEPT !.old = TRUE]]
    BY <1>3 DEF S!Age
  <2>2. ASSUME NEW i \in 1..Len(snaps2)
        PROVE  snaps2'[i] \in SnapTypes /\ snaps2'[i].work = snaps2[i].work
    <3>1. snaps2'[i] = [snaps2[i] EXCEPT !.old = TRUE] /\ snaps2[i] \in SnapTypes
      BY <2>1, <2>2
    <3>. QED BY <3>1 DEF SnapTypes
  <2>3. snaps2' \in Seq(SnapTypes) /\ Len(snaps2') = Len(snaps2)
    BY <2>1, <2>2
  <2>. QED BY <2>1, <2>2, <2>3 DEF SnapsKeep, S!Ids
<1>4. ASSUME NEW c \in Collector, Deletes(c) PROVE SnapsKeep
  <2>0. gc[c].cur \in Nat
    BY DEF CollectorsTyped, GCTypes
  <2>1. PICK i \in Nat : i = gc[c].cur
    BY <2>0
  <2>2. \/ snaps2' = [snaps2 EXCEPT ![i].trunk = FALSE]
        \/ snaps2' = [snaps2 EXCEPT ![i].local = FALSE]
        \/ snaps2' = [snaps2 EXCEPT ![i].live = FALSE]
    BY <1>4, <2>1 DEF Deletes, S!DeleteTrunkBranch, S!DeleteViewBranch, S!DeleteRow
  <2>3. CASE i \in S!Ids
    <3>1. snaps2[i] \in SnapTypes
      BY <2>3
    <3>2. PICK x : /\ snaps2' = [snaps2 EXCEPT ![i] = x]
                   /\ \/ x = [snaps2[i] EXCEPT !.trunk = FALSE]
                      \/ x = [snaps2[i] EXCEPT !.local = FALSE]
                      \/ x = [snaps2[i] EXCEPT !.live = FALSE]
      BY <2>2
    <3>3. x \in SnapTypes /\ x.work = snaps2[i].work
      BY <3>1, <3>2 DEF SnapTypes
    <3>4. snaps2' \in Seq(SnapTypes) /\ Len(snaps2') = Len(snaps2)
      BY <2>3, <3>2, <3>3
    <3>. QED BY <2>3, <3>2, <3>3, <3>4 DEF SnapsKeep, S!Ids
  <2>4. CASE i \notin S!Ids
    <3>1. snaps2' = snaps2
      BY <2>2, <2>4 DEF S!Ids
    <3>. QED BY <1>1, <3>1
  <2>. QED BY <2>3, <2>4
<1>. QED BY <1>1, <1>2, <1>3, <1>4 DEF SnapsStep

-----------------------------------------------------------------------------
(* What a step may do to the rows.                                         *)

WsStep ==
    \/ ws' = ws
    \/ \E w \in Workspace2, m \in WsTypes :
          /\ ws' = [ws EXCEPT ![w] = m] /\ m.latest \in Named'
          /\ ws[w].exists => m.exists

LEMMA RequestsWs ==
    ASSUME RowsTyped, RequestsTyped, NamesOK, SnapsKeep, NEW r \in Request2, S!Run(r)
    PROVE  WsStep
<1>. /\ loc2[r] \in Holds /\ loc2[r].w \in Workspace2 /\ loc2[r].d \in Workspace2
     /\ {loc2[r].latest, loc2[r].id} \subseteq Named' \intersect Nat
  BY DEF RequestsTyped, NamesOK, Holds, Named, SnapsKeep
<1>. \A w \in Workspace2 : ws[w] \in WsTypes /\ ws[w].latest \in Named'
  BY DEF RowsTyped, NamesOK, Named, SnapsKeep
<1>1. CASE S!Mark(r)
  <2>1. PICK m : m = [ws[loc2[r].w] EXCEPT !.latest = loc2[r].id]
    OBVIOUS
  <2>2. m \in WsTypes /\ m.latest = loc2[r].id /\ m.exists = ws[loc2[r].w].exists
    BY <2>1 DEF WsTypes
  <2>3. ws' = [ws EXCEPT ![loc2[r].w] = m]
    BY <1>1, <2>1 DEF S!Mark
  <2>. QED BY <2>2, <2>3 DEF WsStep
<1>2. CASE S!NewWorkspace(r)
  <2>1. PICK m : m = [ws[loc2[r].d] EXCEPT !.exists = TRUE]
    OBVIOUS
  <2>2. m \in WsTypes /\ m.latest = ws[loc2[r].d].latest /\ m.exists
    BY <2>1 DEF WsTypes
  <2>3. ws' = [ws EXCEPT ![loc2[r].d] = m]
    BY <1>2, <2>1 DEF S!NewWorkspace
  <2>. QED BY <2>2, <2>3 DEF WsStep
<1>3. CASE S!LinkSnapshot(r)
  <2>1. PICK i \in Named' \intersect Nat : i = IF loc2[r].open THEN loc2[r].id ELSE loc2[r].latest
    OBVIOUS
  <2>2. PICK m : m = [ws[loc2[r].d] EXCEPT !.latest = i]
    OBVIOUS
  <2>3. m \in WsTypes /\ m.latest = i /\ m.exists = ws[loc2[r].d].exists
    BY <2>2 DEF WsTypes
  <2>4. ws' = [ws EXCEPT ![loc2[r].d] = m]
    BY <1>3, <2>1, <2>2 DEF S!LinkSnapshot
  <2>. QED BY <2>3, <2>4 DEF WsStep
<1>4. ~S!Mark(r) /\ ~S!NewWorkspace(r) /\ ~S!LinkSnapshot(r) => ws' = ws
  BY DEF S!Run, S!Take, S!Insert, S!ReadDiff, S!ReadDeleted, S!PatchView,
         S!PatchSnapshot, S!Record, S!RemoveInView, S!FailRequest, S!stores
<1>. QED BY <1>1, <1>2, <1>3, <1>4 DEF WsStep

(* Leaving a workspace that is open saves what is in the view.             *)
LEMMA LeaveSaves ==
    ASSUME RowsTyped, NamesOK, NEW w \in Workspace2, NEW a \in BOOLEAN, S!Leave(w, a)
    PROVE  \E m \in WsTypes :
              /\ ws' = [ws EXCEPT ![w] = m] /\ m.latest \in Named'
              /\ ws[w].exists /\ m.exists
              /\ m.latest = ws[w].latest
                 \/ (m.latest # 0 /\ snaps2'[m.latest].work = disk2[w] /\ ws[w].open)
<1>0. ws[w] \in WsTypes /\ ws[w].latest \in Named /\ disk2[w] \in SUBSET Edit2
  BY DEF RowsTyped, NamesOK
<1>1. PICK i : i = IF snaps2' = snaps2 THEN ws[w].latest ELSE Len(snaps2')
  OBVIOUS
<1>2. PICK m : m = [ws[w] EXCEPT !.open = FALSE, !.archived = a, !.latest = i]
  OBVIOUS
<1>3. ws' = [ws EXCEPT ![w] = m] /\ ws[w].exists
  BY <1>1, <1>2 DEF S!Leave, RowsTyped
<1>4. CASE snaps2' = snaps2
  <2>1. i = ws[w].latest /\ Named' = Named
    BY <1>1, <1>4 DEF Named, S!Ids
  <2>2. m \in WsTypes /\ m.latest = i /\ m.exists = ws[w].exists
    BY <1>0, <1>2, <2>1 DEF WsTypes
  <2>. QED BY <1>0, <1>3, <2>1, <2>2
<1>5. CASE snaps2' # snaps2
  <2>1. snaps2' = S!Taken(snaps2, w, disk2[w], TRUE) /\ ws[w].open
    BY <1>5 DEF S!Leave
  <2>2. PICK x \in SnapTypes : x.work = disk2[w] /\ snaps2' = Append(snaps2, x)
    BY <1>0, <2>1, TakenIs
  <2>3. i = Len(snaps2) + 1 /\ i \in S!Ids' /\ i # 0 /\ i \in Nat /\ snaps2'[i] = x
    BY <1>1, <1>5, <2>2 DEF RowsTyped, S!Ids
  <2>4. m \in WsTypes /\ m.latest = i /\ m.exists = ws[w].exists
    BY <1>0, <1>2, <2>3 DEF WsTypes
  <2>. QED BY <1>3, <2>1, <2>2, <2>3, <2>4 DEF Named
<1>. QED BY <1>4, <1>5

LEMMA UsersWs ==
    ASSUME RowsTyped, NamesOK, SnapsKeep, S!UserStep
    PROVE  WsStep
<1>. \A w \in Workspace2 : ws[w] \in WsTypes /\ ws[w].latest \in Named'
  BY DEF RowsTyped, NamesOK, Named, SnapsKeep
<1>1. ASSUME NEW w \in Workspace2, S!Open(w) PROVE WsStep
  <2>1. PICK m : m = [ws[w] EXCEPT !.open = TRUE]
    OBVIOUS
  <2>2. m \in WsTypes /\ m.latest = ws[w].latest /\ m.exists = ws[w].exists
    BY <2>1 DEF WsTypes
  <2>3. ws' = [ws EXCEPT ![w] = m]
    BY <1>1, <2>1 DEF S!Open
  <2>. QED BY <2>2, <2>3 DEF WsStep
<1>2. ASSUME NEW w \in Workspace2, S!Unarchive(w) PROVE WsStep
  <2>1. PICK m : m = [ws[w] EXCEPT !.archived = FALSE]
    OBVIOUS
  <2>2. m \in WsTypes /\ m.latest = ws[w].latest /\ m.exists = ws[w].exists
    BY <2>1 DEF WsTypes
  <2>3. ws' = [ws EXCEPT ![w] = m]
    BY <1>2, <2>1 DEF S!Unarchive
  <2>. QED BY <2>2, <2>3 DEF WsStep
<1>3. ASSUME NEW w \in Workspace2, NEW i \in S!Ids, S!SetSnapshot(w, i) PROVE WsStep
  <2>0. i \in Named' /\ i \in Nat
    BY IdsAre DEF SnapsKeep, Named
  <2>1. PICK m : m = [ws[w] EXCEPT !.latest = i]
    OBVIOUS
  <2>2. m \in WsTypes /\ m.latest = i /\ m.exists = ws[w].exists
    BY <2>0, <2>1 DEF WsTypes
  <2>3. ws' = [ws EXCEPT ![w] = m]
    BY <1>3, <2>1 DEF S!SetSnapshot
  <2>. QED BY <2>0, <2>2, <2>3 DEF WsStep
<1>4. ASSUME NEW w \in Workspace2, NEW a \in BOOLEAN, S!Leave(w, a) PROVE WsStep
  BY <1>4, LeaveSaves DEF WsStep
<1>5. ASSUME NEW w \in Workspace2, NEW e \in Edit2, S!Edits(w, e) PROVE WsStep
  BY <1>5 DEF S!Edits, WsStep
<1>. QED BY <1>1, <1>2, <1>3, <1>4, <1>5 DEF S!UserStep

LEMMA WsMoves ==
    ASSUME RowsTyped, RequestsTyped, NamesOK, SnapsKeep, S!Step
    PROVE  WsStep
<1>1. ASSUME NEW r \in Request2, S!StartRequest(r) PROVE ws' = ws
  BY <1>1 DEF S!StartRequest, S!StartSnapshot, S!StartSuggestion, S!StartDismiss,
              S!StartActivity, S!StartHunks, S!RemovePatches, S!BeginOn, S!Begin,
              S!stores
<1>2. ASSUME NEW c \in Collector, S!GCStep(c) PROVE ws' = ws
  BY <1>2 DEF S!GCStep, S!StartGC, S!EndGC, S!SkipBranches, S!DeleteTrunkBranch,
              S!DeleteViewBranch, S!FailBranch, S!DeleteRow, S!Die, S!Keep, S!Condemn,
              S!stores
<1>3. S!Age => ws' = ws
  BY DEF S!Age
<1>. QED BY <1>1, <1>2, <1>3, RequestsWs, UsersWs DEF S!Step, WsStep

SugStep ==
    \/ sug' = sug
    \/ \E r \in Request2 : (S!Insert(r) \/ S!Record(r)) /\
          \E d \in Workspace2, m \in SugTypes :
             sug' = [sug EXCEPT ![d] = m] /\ m.base \in Named'
DiskStep ==
    disk2' = disk2 \/ \E w \in Workspace2, x \in SUBSET Edit2 : disk2' = [disk2 EXCEPT ![w] = x]
DoneStep ==
    \/ done' = done
    \/ \E r \in Request2 : (S!PatchView(r) \/ S!PatchSnapshot(r)) /\
          \E x \in SUBSET Edit2 : done' = [done EXCEPT ![loc2[r].d] = x]

LEMMA RequestsRest ==
    ASSUME RowsTyped, RequestsTyped, NamesOK, SnapsKeep, NEW r \in Request2, S!Run(r)
    PROVE  SugStep /\ DiskStep /\ DoneStep
<1>. /\ loc2[r] \in Holds /\ loc2[r].w \in Workspace2 /\ loc2[r].d \in Workspace2
     /\ loc2[r].row \in SugTypes
     /\ {loc2[r].latest, loc2[r].id, loc2[r].row.base} \subseteq Named' \intersect Nat
  BY DEF RequestsTyped, NamesOK, Holds, SugTypes, Named, SnapsKeep
<1>1. CASE S!Insert(r)
  <2>1. PICK m : m = [S!NoSug EXCEPT !.there = TRUE, !.base = loc2[r].latest]
    OBVIOUS
  <2>2. m \in SugTypes /\ m.base = loc2[r].latest
    BY <2>1, NothingIs DEF SugTypes
  <2>3. sug' = [sug EXCEPT ![loc2[r].d] = m] /\ disk2' = disk2 /\ done' = done
    BY <1>1, <2>1 DEF S!Insert, S!history
  <2>. QED BY <1>1, <2>2, <2>3 DEF SugStep, DiskStep, DoneStep
<1>2. CASE S!Record(r)
  BY <1>2 DEF S!Record, SugStep, DiskStep, DoneStep, S!history
<1>3. CASE S!PatchView(r)
  <2>1. disk2[Original] \in SUBSET Edit2 /\ Original \in Workspace2 /\ done[loc2[r].d] \in SUBSET Edit2
    BY SuggestionsAssumption DEF RowsTyped
  <2>2. PICK x, y \in SUBSET Edit2 : /\ x = S!Patched(loc2[r], disk2[Original])
                                     /\ y = done[loc2[r].d] \union S!Fitting(loc2[r], disk2[Original])
    BY <2>1, PatchedIs
  <2>3. /\ disk2' = [disk2 EXCEPT ![Original] = x] /\ done' = [done EXCEPT ![loc2[r].d] = y]
        /\ sug' = sug
    BY <1>3, <2>2 DEF S!PatchView
  <2>. QED BY <1>3, <2>1, <2>3 DEF SugStep, DiskStep, DoneStep
<1>4. CASE S!PatchSnapshot(r)
  <2>1. S!Work(loc2[r].latest) \in SUBSET Edit2 /\ done[loc2[r].d] \in SUBSET Edit2
    BY WorkIs DEF RowsTyped, NamesOK
  <2>2. PICK y \in SUBSET Edit2 :
            y = done[loc2[r].d] \union S!Fitting(loc2[r], S!Work(loc2[r].latest))
    BY <2>1, PatchedIs
  <2>3. /\ done' = done \/ done' = [done EXCEPT ![loc2[r].d] = y]
        /\ sug' = sug /\ disk2' = disk2
    BY <1>4, <2>2 DEF S!PatchSnapshot
  <2>. QED BY <1>4, <2>3 DEF SugStep, DiskStep, DoneStep
<1>5. CASE S!RemoveInView(r)
  <2>1. disk2[loc2[r].w] \in SUBSET Edit2
    BY DEF RowsTyped
  <2>2. PICK x \in SUBSET Edit2 : x = S!Patched(loc2[r], disk2[loc2[r].w])
    BY <2>1, PatchedIs
  <2>3. disk2' = [disk2 EXCEPT ![loc2[r].w] = x] /\ sug' = sug /\ done' = done
    BY <1>5, <2>2 DEF S!RemoveInView, S!history
  <2>. QED BY <2>3 DEF SugStep, DiskStep, DoneStep
<1>6. ~S!Insert(r) /\ ~S!Record(r) /\ ~S!PatchView(r) /\ ~S!PatchSnapshot(r) /\ ~S!RemoveInView(r) =>
          UNCHANGED <<sug, disk2, done>>
  BY DEF S!Run, S!Take, S!Mark, S!NewWorkspace, S!LinkSnapshot, S!ReadDiff,
         S!ReadDeleted, S!FailRequest, S!stores, S!history
<1>. QED BY <1>1, <1>2, <1>3, <1>4, <1>5, <1>6 DEF SugStep, DiskStep, DoneStep

LEMMA RestMoves ==
    ASSUME RowsTyped, RequestsTyped, NamesOK, SnapsKeep, S!Step
    PROVE  SugStep /\ DiskStep /\ DoneStep
<1>1. ASSUME NEW r \in Request2, S!StartRequest(r) PROVE UNCHANGED <<sug, disk2, done>>
  BY <1>1 DEF S!StartRequest, S!StartSnapshot, S!StartSuggestion, S!StartDismiss,
              S!StartActivity, S!StartHunks, S!RemovePatches, S!BeginOn, S!Begin,
              S!stores
<1>2. ASSUME NEW c \in Collector, S!GCStep(c) PROVE UNCHANGED <<sug, disk2, done>>
  BY <1>2 DEF S!GCStep, S!StartGC, S!EndGC, S!SkipBranches, S!DeleteTrunkBranch,
              S!DeleteViewBranch, S!FailBranch, S!DeleteRow, S!Die, S!Keep, S!Condemn,
              S!stores, S!history
<1>3. S!Age => UNCHANGED <<sug, disk2, done>>
  BY DEF S!Age, S!history
<1>4. CASE S!UserStep
  <2>1. UNCHANGED <<sug, done>>
    BY <1>4 DEF S!UserStep, S!Open, S!Unarchive, S!Leave, S!SetSnapshot, S!Edits,
                S!history
  <2>2. ASSUME NEW w \in Workspace2, S!Open(w) PROVE DiskStep
    <3>1. S!Work(ws[w].latest) \in SUBSET Edit2
      BY WorkIs DEF NamesOK
    <3>. QED BY <2>2, <3>1 DEF S!Open, DiskStep
  <2>3. ASSUME NEW w \in Workspace2, NEW i \in S!Ids, S!SetSnapshot(w, i) PROVE DiskStep
    <3>1. S!Work(i) \in SUBSET Edit2
      BY WorkIs DEF Named
    <3>. QED BY <2>3, <3>1 DEF S!SetSnapshot, DiskStep
  <2>4. ASSUME NEW w \in Workspace2, NEW e \in Edit2, S!Edits(w, e) PROVE DiskStep
    <3>1. disk2[w] \union {e} \in SUBSET Edit2
      BY DEF RowsTyped
    <3>. QED BY <2>4, <3>1 DEF S!Edits, DiskStep
  <2>5. ASSUME NEW w \in Workspace2, S!Unarchive(w) \/ S!Leave(w, TRUE) \/ S!Leave(w, FALSE)
        PROVE  DiskStep
    BY <2>5 DEF S!Unarchive, S!Leave, DiskStep
  <2>. QED BY <1>4, <2>1, <2>2, <2>3, <2>4, <2>5 DEF S!UserStep, SugStep, DoneStep
<1>. QED BY <1>1, <1>2, <1>3, <1>4, RequestsRest DEF S!Step, SugStep, DiskStep, DoneStep

LEMMA RowsStayTyped ==
    ASSUME RowsTyped, RequestsTyped, SnapsKeep, WsStep, SugStep, DiskStep, DoneStep
    PROVE  RowsTyped'
<1>1. \A r \in Request2 : loc2[r].d \in Workspace2
  BY DEF RequestsTyped, Holds
<1>2. ws' \in [Workspace2 -> WsTypes]
  BY DEF RowsTyped, WsStep
<1>3. sug' \in [Workspace2 -> SugTypes]
  BY DEF RowsTyped, SugStep
<1>4. disk2' \in [Workspace2 -> SUBSET Edit2]
  BY DEF RowsTyped, DiskStep
<1>5. done' \in [Workspace2 -> SUBSET Edit2]
  BY <1>1 DEF RowsTyped, DoneStep
<1>. QED BY <1>2, <1>3, <1>4, <1>5 DEF RowsTyped, SnapsKeep

-----------------------------------------------------------------------------
(* What a step may do to requests and collectors.                          *)

Goes(r, at, l) == pc2' = [pc2 EXCEPT ![r] = at] /\ loc2' = [loc2 EXCEPT ![r] = l]
NamesIn(l, names) == {l.latest, l.id, l.row.base} \subseteq names
RequestMoves(r) ==
    \E at \in Steps, l \in Holds : Goes(r, at, l) /\ NamesIn(l, Named')

LEMMA Went ==
    ASSUME RequestsTyped, NEW r \in Request2, NEW at, NEW l, Goes(r, at, l)
    PROVE  /\ pc2'[r] = at /\ loc2'[r] = l
           /\ \A q \in Request2 \ {r} : pc2'[q] = pc2[q] /\ loc2'[q] = loc2[q]
           /\ at \in Steps /\ l \in Holds => RequestsTyped'
BY DEF RequestsTyped, Goes

LEMMA Ended ==
    ASSUME NEW r \in Request2, S!End(r)
    PROVE  Goes(r, "idle", S!NoLoc)
BY DEF S!End, S!Goto, Goes

LEMMA Stayed ==
    ASSUME RequestsTyped, NEW r \in Request2, NEW at, S!Goto(r, at), loc2' = loc2
    PROVE  Goes(r, at, loc2[r])
BY DEF RequestsTyped, Goes, S!Goto

LEMMA Began ==
    ASSUME NEW r \in Request2, NEW l, NEW at, S!Begin(r, l, at)
    PROVE  Goes(r, at, l) /\ pc2[r] = "idle" /\ UNCHANGED <<S!stores, S!rest, failed2, done>>
BY DEF S!Begin, S!Goto, Goes

LEMMA StartsTyped ==
    ASSUME RowsTyped, NamesOK, SnapsKeep, NEW r \in Request2, S!StartRequest(r)
    PROVE  RequestMoves(r)
<1>. 0 \in Named' /\ \A i \in Named : i \in Named'
  BY DEF Named, SnapsKeep
<1>. S!NoLoc \in Holds /\ S!NoLoc.latest = 0 /\ S!NoLoc.id = 0 /\ S!NoLoc.row.base = 0
  BY NothingIs
<1>. \A d \in Workspace2 : /\ sug[d] \in SugTypes /\ sug[d].base \in Named'
                           /\ ws[d] \in WsTypes /\ ws[d].latest \in Named'
  BY DEF RowsTyped, NamesOK, Named, SnapsKeep
<1>1. ASSUME NEW w \in Workspace2, S!StartSnapshot(r, w) PROVE RequestMoves(r)
  <2>1. PICK l : l = [S!NoLoc EXCEPT !.kind = "snap", !.w = w]
    OBVIOUS
  <2>2. l \in Holds /\ l.latest = 0 /\ l.id = 0 /\ l.row.base = 0
    BY <2>1 DEF Holds
  <2>3. Goes(r, "take", l)
    BY <1>1, <2>1, Began DEF S!StartSnapshot
  <2>. QED BY <2>2, <2>3 DEF RequestMoves, NamesIn, Steps
<1>2. ASSUME NEW w \in Workspace2, NEW d \in Workspace2, S!StartSuggestion(r, w, d)
      PROVE  RequestMoves(r)
  <2>1. PICK l : l = [S!NoLoc EXCEPT !.kind = "suggest", !.w = w, !.d = d,
                                   !.latest = ws[w].latest, !.open = ws[w].open]
    OBVIOUS
  <2>2. l \in Holds /\ l.latest = ws[w].latest /\ l.id = 0 /\ l.row.base = 0
    BY <2>1 DEF Holds, WsTypes
  <2>3. Goes(r, "new", l)
    BY <1>2, <2>1, Began DEF S!StartSuggestion
  <2>. QED BY <2>2, <2>3 DEF RequestMoves, NamesIn, Steps
<1>3. ASSUME NEW d \in Workspace2, S!StartDismiss(r, d) PROVE RequestMoves(r)
  <2>1. PICK m : m = [sug[d] EXCEPT !.hidden = TRUE]
    OBVIOUS
  <2>2. m \in SugTypes /\ m.base = sug[d].base
    BY <2>1 DEF SugTypes
  <2>3. PICK l : l = [S!NoLoc EXCEPT !.kind = "dismiss", !.d = d, !.row = m]
    OBVIOUS
  <2>4. l \in Holds /\ l.latest = 0 /\ l.id = 0 /\ l.row = m
    BY <2>2, <2>3 DEF Holds, OnRow
  <2>5. Goes(r, "record", l)
    BY <1>3, <2>1, <2>3, Began DEF S!StartDismiss, S!BeginOn
  <2>. QED BY <2>2, <2>4, <2>5 DEF RequestMoves, NamesIn, Steps
<1>4. ASSUME NEW d \in Workspace2, S!StartActivity(r, d) PROVE RequestMoves(r)
  <2>1. PICK m : m = [sug[d] EXCEPT !.hidden = FALSE, !.notified = TRUE]
    OBVIOUS
  <2>2. m \in SugTypes /\ m.base = sug[d].base
    BY <2>1 DEF SugTypes
  <2>3. PICK l : l = [S!NoLoc EXCEPT !.kind = "activity", !.d = d, !.row = m]
    OBVIOUS
  <2>4. l \in Holds /\ l.latest = 0 /\ l.id = 0 /\ l.row = m
    BY <2>2, <2>3 DEF Holds, OnRow
  <2>5. Goes(r, "record", l)
    BY <1>4, <2>1, <2>3, Began DEF S!StartActivity, S!BeginOn
  <2>. QED BY <2>2, <2>4, <2>5 DEF RequestMoves, NamesIn, Steps
<1>5. ASSUME NEW d \in Workspace2, NEW hunks \in SUBSET Edit2,
             NEW kind \in {"apply", "dismissHunks"}, S!StartHunks(r, d, kind, hunks)
      PROVE  RequestMoves(r)
  <2>1. PICK l : l = [S!NoLoc EXCEPT !.kind = kind, !.d = d, !.row = sug[d], !.adds = hunks]
    OBVIOUS
  <2>2. l \in Holds /\ l.latest = 0 /\ l.id = 0 /\ l.row = sug[d]
    BY <2>1 DEF Holds, OnRow
  <2>3. Goes(r, "diff", l)
    BY <1>5, <2>1, Began DEF S!StartHunks, S!BeginOn
  <2>. QED BY <2>2, <2>3 DEF RequestMoves, NamesIn, Steps
<1>6. ASSUME NEW d \in Workspace2, NEW hunks \in SUBSET Edit2, S!RemovePatches(r, d, hunks)
      PROVE  RequestMoves(r)
  <2>1. PICK x, y \in SUBSET Edit2 : /\ x = hunks \ S!Work(ws[d].latest)
                                     /\ y = hunks \intersect S!Work(ws[d].latest)
    OBVIOUS
  <2>2. PICK l : l = [S!NoLoc EXCEPT !.kind = "remove", !.w = d, !.adds = x, !.dels = y]
    OBVIOUS
  <2>3. l \in Holds /\ l.latest = 0 /\ l.id = 0 /\ l.row.base = 0
    BY <2>2 DEF Holds
  <2>4. Goes(r, "undo", l)
    BY <1>6, <2>1, <2>2, Began DEF S!RemovePatches
  <2>. QED BY <2>3, <2>4 DEF RequestMoves, NamesIn, Steps
<1>. QED BY <1>1, <1>2, <1>3, <1>4, <1>5, <1>6 DEF S!StartRequest

LEMMA NotedIs ==
    ASSUME NEW l \in Holds, l.d \in Workspace2, NEW hunks \in SUBSET Edit2
    PROVE  LET new == {S!Position(h, S!Diff(l.d)) : h \in hunks}  m == S!Noted(l, hunks) IN
           /\ m.base = l.row.base /\ m.there = l.row.there
           /\ m.applied = IF l.kind = "apply" THEN l.row.applied \union new ELSE l.row.applied
           /\ new \subseteq Nat => m \in SugTypes
<1>. DEFINE new == {S!Position(h, S!Diff(l.d)) : h \in hunks}
<1>1. PICK N : N = new
  OBVIOUS
<1>2. l.row \in SugTypes
  BY DEF Holds
<1>3. PICK m : m = S!Noted(l, hunks)
  OBVIOUS
<1>4. m = IF l.kind = "apply" THEN [l.row EXCEPT !.applied = @ \union N]
          ELSE [l.row EXCEPT !.dismissed = @ \union N]
  BY <1>1, <1>3 DEF S!Noted
<1>5. /\ m.base = l.row.base /\ m.there = l.row.there
      /\ m.applied = IF l.kind = "apply" THEN l.row.applied \union N ELSE l.row.applied
      /\ N \subseteq Nat => m \in SugTypes
  BY <1>2, <1>4 DEF SugTypes
<1>. QED BY <1>1, <1>3, <1>5

(* Positions in a difference are numbers, each of one hunk.                *)
LEMMA BelowFinite ==
    ASSUME NEW D \in SUBSET Nat, NEW h \in Nat
    PROVE  IsFiniteSet({x \in D : x < h})
<1>1. IsFiniteSet(0..h)
  BY FS_Interval
<1>2. \A x \in D : x < h => x \in 0..h
  <2>1. \A x \in D : x \in Nat
    OBVIOUS
  <2>. QED BY <2>1
<1>3. {x \in D : x < h} \subseteq 0..h
  BY <1>2
<1>. QED BY <1>1, <1>3, FS_Subset

LEMMA PositionCounts ==
    ASSUME NEW h, NEW D
    PROVE  S!Position(h, D) = Cardinality({x \in D : x < h})
BY Zenon DEF S!Position, S!Cardinality, Cardinality

LEMMA PositionIs ==
    ASSUME NEW D \in SUBSET Nat, NEW h \in D
    PROVE  S!Position(h, D) \in Nat
BY BelowFinite, FS_CardinalityType, PositionCounts

LEMMA PositionsGrow ==
    ASSUME NEW D \in SUBSET Nat, NEW h \in D, NEW k \in D, h < k
    PROVE  S!Position(h, D) < S!Position(k, D)
<1>. DEFINE H == {x \in D : x < h}  K == {x \in D : x < k}
<1>1. IsFiniteSet(H) /\ IsFiniteSet(K) /\ h \notin H
  BY BelowFinite
<1>2. H \union {h} \subseteq K
  <2>1. h \in Nat /\ k \in Nat /\ \A x \in D : x \in Nat
    OBVIOUS
  <2>2. \A x \in D : x < h => x < k
    BY <2>1
  <2>. QED BY <2>2
<1>3. Cardinality(H \union {h}) = Cardinality(H) + 1
  BY <1>1, FS_AddElement
<1>4. Cardinality(H \union {h}) <= Cardinality(K)
  BY <1>1, <1>2, FS_Subset
<1>5. Cardinality(H) \in Nat /\ Cardinality(K) \in Nat
  BY <1>1, FS_CardinalityType
<1>6. Cardinality(H) < Cardinality(K)
  BY <1>3, <1>4, <1>5
<1>. QED BY <1>6, PositionCounts

LEMMA OnePosition ==
    ASSUME NEW D \in SUBSET Nat, NEW h \in D, NEW k \in D, S!Position(h, D) = S!Position(k, D)
    PROVE  h = k
<1>1. S!Position(h, D) \in Nat /\ S!Position(k, D) \in Nat
  BY PositionIs
<1>2. ~(h < k) /\ ~(k < h)
  BY <1>1, PositionsGrow
<1>. QED BY <1>2

LEMMA DiffIs ==
    ASSUME RowsTyped, NamesOK, NEW d \in Workspace2
    PROVE  S!Diff(d) \in SUBSET Edit2 /\ S!Diff(d) \in SUBSET Nat
<1>1. S!Work(sug[d].base) \in SUBSET Edit2 /\ S!Work(ws[d].latest) \in SUBSET Edit2
  BY WorkIs DEF NamesOK
<1>. QED BY <1>1, SuggestionsAssumption DEF S!Diff

LEMMA RunsTyped ==
    ASSUME RowsTyped, RequestsTyped, NamesOK, SnapsKeep, SnapsStep, NEW r \in Request2, S!Run(r)
    PROVE  RequestMoves(r)
<1>. 0 \in Named' /\ \A i \in Named : i \in Named'
  BY DEF Named, SnapsKeep
<1>. /\ loc2[r] \in Holds /\ NamesIn(loc2[r], Named')
     /\ loc2[r].w \in Workspace2 /\ loc2[r].d \in Workspace2
  BY DEF RequestsTyped, Holds, NamesOK, NamesIn
<1>. \A d \in Workspace2 : /\ sug[d] \in SugTypes /\ sug[d].base \in Named'
                           /\ ws[d] \in WsTypes /\ ws[d].latest \in Named'
  BY DEF RowsTyped, NamesOK, Named, SnapsKeep
<1>. Original \in Workspace2
  BY SuggestionsAssumption
<1>0. ASSUME Goes(r, "idle", S!NoLoc) PROVE RequestMoves(r)
  BY <1>0, NothingIs DEF RequestMoves, NamesIn, Steps
<1>00. ASSUME NEW at \in Steps, Goes(r, at, loc2[r]) PROVE RequestMoves(r)
  BY <1>00 DEF RequestMoves
<1>01. ASSUME NEW w \in Workspace2, NEW work \in SUBSET Edit2, NEW view \in BOOLEAN,
             snaps2' = S!Taken(snaps2, w, work, view)
       PROVE  Len(snaps2) + 1 \in Named' \intersect Nat
  <2>1. PICK x \in SnapTypes : snaps2' = Append(snaps2, x)
    BY <1>01, TakenIs
  <2>. QED BY <2>1 DEF RowsTyped, Named, S!Ids
<1>1. CASE S!Take(r)
  <2>1. disk2[loc2[r].w] \in SUBSET Edit2
    BY DEF RowsTyped
  <2>2. PICK i \in Named' \intersect Nat : loc2' = [loc2 EXCEPT ![r].id = i]
    BY <1>1, <2>1, <1>01 DEF S!Take, WsTypes
  <2>3. PICK l : l = [loc2[r] EXCEPT !.id = i]
    OBVIOUS
  <2>4. l \in Holds /\ l.latest = loc2[r].latest /\ l.id = i /\ l.row = loc2[r].row
    BY <2>3 DEF Holds
  <2>5. Goes(r, "mark", l)
    BY <1>1, <2>2, <2>3 DEF S!Take, S!Goto, Goes
  <2>. QED BY <2>4, <2>5 DEF RequestMoves, NamesIn, Steps
<1>2. CASE S!Mark(r)
  BY <1>2, <1>0, <1>00, Ended, Stayed DEF S!Mark, Steps
<1>3. CASE S!NewWorkspace(r) \/ S!LinkSnapshot(r)
  <2>1. Goes(r, "take", loc2[r]) \/ Goes(r, "link", loc2[r]) \/ Goes(r, "insert", loc2[r])
    BY <1>3, Stayed DEF S!NewWorkspace, S!LinkSnapshot
  <2>. QED BY <2>1, <1>00 DEF Steps
<1>4. CASE S!ReadDiff(r)
  <2>0. loc2[r].adds \in SUBSET Edit2
    BY DEF Holds
  <2>1. PICK hunks \in SUBSET Edit2 : hunks = S!Diff(loc2[r].d) \intersect loc2[r].adds
    BY <2>0
  <2>2. {S!Position(h, S!Diff(loc2[r].d)) : h \in hunks} \subseteq Nat
    <3>1. \A h \in hunks : S!Position(h, S!Diff(loc2[r].d)) \in Nat
      BY <2>1, DiffIs, PositionIs
    <3>. QED BY <3>1
  <2>3. PICK m \in SugTypes : m = S!Noted(loc2[r], hunks) /\ m.base = loc2[r].row.base
    BY <2>2, NotedIs
  <2>4. PICK x, y \in SUBSET Edit2 : /\ x = hunks \intersect S!Work(ws[loc2[r].d].latest)
                                     /\ y = hunks \ S!Work(ws[loc2[r].d].latest)
    OBVIOUS
  <2>5. PICK i, o : i = ws[Original].latest /\ o = ws[Original].open
    OBVIOUS
  <2>6. PICK l : l = [loc2[r] EXCEPT !.adds = x, !.dels = y, !.latest = i, !.open = o, !.row = m]
    OBVIOUS
  <2>7. i \in Nat /\ i \in Named' /\ o \in BOOLEAN
    BY <2>5 DEF WsTypes
  <2>8. l \in Holds /\ l.latest = i /\ l.id = loc2[r].id /\ l.row = m
    BY <2>6, <2>7 DEF Holds
  <2>9. PICK at \in {"patch", "record"} : Goes(r, at, l)
    BY <1>4, <2>1, <2>3, <2>4, <2>5, <2>6 DEF S!ReadDiff, S!Goto, Goes
  <2>. QED BY <2>3, <2>7, <2>8, <2>9 DEF RequestMoves, NamesIn, Steps
<1>5. CASE S!PatchView(r)
  <2>1. Goes(r, "record", loc2[r]) \/ Goes(r, "idle", S!NoLoc)
    BY <1>5, Stayed, Ended DEF S!PatchView
  <2>. QED BY <2>1, <1>0, <1>00 DEF Steps
<1>6. CASE S!PatchSnapshot(r)
  <2>1. S!Work(loc2[r].latest) \in SUBSET Edit2
    BY WorkIs DEF NamesOK
  <2>2. CASE S!End(r)
    BY <2>2, <1>0, Ended
  <2>3. CASE ~S!End(r)
    <3>1. PICK i : i = Len(snaps2) + 1
      OBVIOUS
    <3>2. /\ snaps2' = S!Taken(snaps2, Original, S!Patched(loc2[r], S!Work(loc2[r].latest)), FALSE)
          /\ loc2' = [loc2 EXCEPT ![r].id = i, ![r].w = Original] /\ S!Goto(r, "mark")
      BY <1>6, <2>3, <3>1 DEF S!PatchSnapshot
    <3>3. i \in Named' \intersect Nat
      BY <2>1, <3>1, <3>2, <1>01, PatchedIs
    <3>4. PICK l : l = [loc2[r] EXCEPT !.id = i, !.w = Original]
      OBVIOUS
    <3>5. l \in Holds /\ l.latest = loc2[r].latest /\ l.id = i /\ l.row = loc2[r].row
      BY <3>3, <3>4 DEF Holds
    <3>6. Goes(r, "mark", l)
      BY <3>2, <3>4 DEF S!Goto, Goes, RequestsTyped
    <3>. QED BY <3>3, <3>5, <3>6 DEF RequestMoves, NamesIn, Steps
  <2>. QED BY <2>2, <2>3
<1>7. CASE S!RemoveInView(r)
  <2>1. Goes(r, "take", loc2[r]) \/ Goes(r, "idle", S!NoLoc)
    BY <1>7, Stayed, Ended DEF S!RemoveInView
  <2>. QED BY <2>1, <1>0, <1>00 DEF Steps
<1>8. CASE S!Insert(r) \/ S!ReadDeleted(r) \/ S!Record(r) \/ S!FailRequest(r)
  BY <1>8, <1>0, Ended DEF S!Insert, S!ReadDeleted, S!Record, S!FailRequest
<1>. QED BY <1>1, <1>2, <1>3, <1>4, <1>5, <1>6, <1>7, <1>8 DEF S!Run

(* Others do nothing to requests.                                          *)
LEMMA OthersAside ==
    ASSUME S!UserStep \/ S!Age \/ \E c \in Collector : S!GCStep(c)
    PROVE  UNCHANGED <<pc2, loc2>>
BY DEF S!UserStep, S!Open, S!Unarchive, S!Leave, S!SetSnapshot, S!Edits, S!Age,
       S!GCStep, S!StartGC, S!EndGC, S!SkipBranches, S!DeleteTrunkBranch,
       S!DeleteViewBranch, S!FailBranch, S!DeleteRow, S!Die, S!Keep, S!Condemn,
       S!NoRequest

LEMMA RequestsStayTyped ==
    ASSUME RowsTyped, RequestsTyped, NamesOK, SnapsKeep, SnapsStep, S!Step
    PROVE  RequestsTyped'
<1>1. ASSUME NEW r \in Request2, RequestMoves(r) PROVE RequestsTyped'
  BY <1>1, Went DEF RequestMoves
<1>2. CASE UNCHANGED <<pc2, loc2>>
  BY <1>2 DEF RequestsTyped
<1>. QED BY <1>1, <1>2, StartsTyped, RunsTyped, OthersAside DEF S!Step

LEMMA NamesStay ==
    ASSUME RowsTyped, RequestsTyped, NamesOK, SnapsKeep, SnapsStep, S!Step
    PROVE  NamesOK'
<1>. \A i \in Named : i \in Named'
  BY DEF Named, SnapsKeep
<1>1. WsStep /\ SugStep
  BY WsMoves, RestMoves
<1>2. \A w \in Workspace2 : ws'[w].latest \in Named'
  BY <1>1 DEF NamesOK, WsStep, RowsTyped
<1>3. \A w \in Workspace2 : sug'[w].base \in Named'
  BY <1>1 DEF NamesOK, SugStep, RowsTyped
<1>4. ASSUME NEW r \in Request2 PROVE NamesIn(loc2'[r], Named')
  <2>1. NamesIn(loc2[r], Named')
    BY DEF NamesOK, NamesIn
  <2>2. ASSUME NEW q \in Request2, RequestMoves(q) PROVE NamesIn(loc2'[r], Named')
    <3>1. PICK at \in Steps, l \in Holds : Goes(q, at, l) /\ NamesIn(l, Named')
      BY <2>2 DEF RequestMoves
    <3>. QED BY <2>1, <3>1, Went
  <2>3. CASE UNCHANGED <<pc2, loc2>>
    BY <2>1, <2>3
  <2>. QED BY <2>2, <2>3, StartsTyped, RunsTyped, OthersAside DEF S!Step
<1>. QED BY <1>2, <1>3, <1>4 DEF NamesOK, NamesIn

-----------------------------------------------------------------------------
(* Collectors.                                                             *)

GCTurns(c, m) == gc' = [gc EXCEPT ![c] = m]
GCMoves(c) ==
    \E m \in GCTypes : /\ GCTurns(c, m)
                       /\ m.todo \subseteq S!Ids /\ m.cur \in S!Ids \union {0}
                       /\ m.pc \in {"idle", "check"} => m.cur = 0

LEMMA Turns ==
    ASSUME CollectorsTyped, NEW c \in Collector, NEW m, GCTurns(c, m)
    PROVE  gc'[c] = m /\ \A b \in Collector \ {c} : gc'[b] = gc[b]
BY DEF CollectorsTyped, GCTurns

LEMMA CollectorsMove ==
    ASSUME RowsTyped, CollectorsTyped, NEW c \in Collector, S!GCStep(c)
    PROVE  GCMoves(c)
<1>. /\ gc[c] \in GCTypes /\ gc[c].todo \subseteq S!Ids /\ gc[c].cur \in S!Ids \union {0}
     /\ gc[c].pc \in {"idle", "check"} => gc[c].cur = 0
  BY DEF CollectorsTyped, S!At
<1>. \A i \in S!Ids : i \in Nat
  BY IdsAre
<1>1. CASE S!StartGC(c)
  <2>1. PICK T : T = S!Candidates
    OBVIOUS
  <2>2. T \subseteq S!Ids
    BY <2>1 DEF S!Candidates
  <2>3. PICK m : m = [pc |-> "check", todo |-> T, cur |-> 0]
    OBVIOUS
  <2>4. m \in GCTypes /\ m.todo = T /\ m.cur = 0
    BY <2>2, <2>3 DEF GCTypes
  <2>5. GCTurns(c, m)
    BY <1>1, <2>1, <2>3 DEF S!StartGC, GCTurns
  <2>. QED BY <2>2, <2>4, <2>5 DEF GCMoves
<1>2. CASE S!EndGC(c) \/ S!Die(c)
  BY <1>2, NothingIs DEF S!EndGC, S!Die, GCMoves, GCTurns
<1>3. ASSUME NEW i \in S!Ids, S!Keep(c, i) PROVE GCMoves(c)
  <2>1. PICK m : m = [gc[c] EXCEPT !.todo = @ \ {i}]
    OBVIOUS
  <2>2. m \in GCTypes /\ m.todo \subseteq S!Ids /\ m.cur = 0 /\ gc' = [gc EXCEPT ![c] = m]
    BY <1>3, <2>1 DEF GCTypes, S!Keep, S!At
  <2>. QED BY <2>2 DEF GCMoves, GCTurns
<1>4. ASSUME NEW i \in S!Ids, S!Condemn(c, i) PROVE GCMoves(c)
  <2>1. PICK m : m = [pc |-> "again", todo |-> gc[c].todo \ {i}, cur |-> i]
    OBVIOUS
  <2>2. m \in GCTypes /\ m.todo \subseteq S!Ids /\ m.cur = i /\ m.pc = "again"
    BY <2>1 DEF GCTypes
  <2>3. gc' = [gc EXCEPT ![c] = m]
    BY <1>4, <2>1 DEF S!Condemn, CollectorsTyped
  <2>. QED BY <2>2, <2>3 DEF GCMoves, GCTurns
<1>5. ASSUME NEW at \in {"view", "row"}, S!GoGC(c, at) PROVE GCMoves(c)
  <2>1. PICK m : m = [gc[c] EXCEPT !.pc = at]
    OBVIOUS
  <2>2. m \in GCTypes /\ m.todo = gc[c].todo /\ m.cur = gc[c].cur /\ m.pc = at
    BY <2>1 DEF GCTypes
  <2>3. gc' = [gc EXCEPT ![c] = m]
    BY <1>5, <2>1 DEF S!GoGC
  <2>. QED BY <2>2, <2>3 DEF GCMoves, GCTurns
<1>6. CASE S!DeleteRow(c)
  <2>1. PICK m : m = [gc[c] EXCEPT !.pc = "check", !.cur = 0]
    OBVIOUS
  <2>2. m \in GCTypes /\ m.todo = gc[c].todo /\ m.cur = 0
    BY <2>1 DEF GCTypes
  <2>3. gc' = [gc EXCEPT ![c] = m]
    BY <1>6, <2>1 DEF S!DeleteRow
  <2>. QED BY <2>2, <2>3 DEF GCMoves, GCTurns
<1>. QED BY <1>1, <1>2, <1>3, <1>4, <1>5, <1>6
         DEF S!GCStep, S!SkipBranches, S!DeleteTrunkBranch, S!DeleteViewBranch,
             S!FailBranch

LEMMA GCAside ==
    ASSUME S!Step
    PROVE  UNCHANGED <<gc, torn>> \/ \E c \in Collector : S!GCStep(c)
<1>1. ASSUME NEW r \in Request2, S!StartRequest(r) PROVE UNCHANGED <<gc, torn>>
  BY <1>1 DEF S!StartRequest, S!StartSnapshot, S!StartSuggestion, S!StartDismiss,
              S!StartActivity, S!StartHunks, S!RemovePatches, S!BeginOn, S!Begin, S!rest
<1>2. ASSUME NEW r \in Request2, S!Run(r) PROVE UNCHANGED <<gc, torn>>
  BY <1>2 DEF S!Run, S!Take, S!Mark, S!NewWorkspace, S!LinkSnapshot, S!Insert,
              S!ReadDiff, S!ReadDeleted, S!PatchView, S!PatchSnapshot, S!Record,
              S!RemoveInView, S!FailRequest, S!rest
<1>3. S!UserStep \/ S!Age => UNCHANGED <<gc, torn>>
  BY DEF S!UserStep, S!Open, S!Unarchive, S!Leave, S!SetSnapshot, S!Edits, S!Age, S!rest
<1>. QED BY <1>1, <1>2, <1>3 DEF S!Step

LEMMA CollectorsStayTyped ==
    ASSUME RowsTyped, CollectorsTyped, SnapsKeep, S!Step
    PROVE  CollectorsTyped'
<1>. S!Ids \subseteq S!Ids'
  BY DEF SnapsKeep
<1>1. CASE UNCHANGED <<gc, torn>>
  BY <1>1 DEF CollectorsTyped, S!At
<1>2. ASSUME NEW c \in Collector, S!GCStep(c) PROVE CollectorsTyped'
  <2>1. PICK m \in GCTypes : /\ GCTurns(c, m)
                             /\ m.todo \subseteq S!Ids /\ m.cur \in S!Ids \union {0}
                             /\ m.pc \in {"idle", "check"} => m.cur = 0
    BY <1>2, CollectorsMove DEF GCMoves
  <2>2. gc' \in [Collector -> GCTypes]
    BY <2>1 DEF CollectorsTyped, GCTurns
  <2>3. ASSUME NEW b \in Collector
        PROVE  /\ gc'[b].todo \subseteq S!Ids' /\ gc'[b].cur \in S!Ids' \union {0}
               /\ gc'[b].pc \in {"idle", "check"} => gc'[b].cur = 0
    BY <2>1, Turns DEF CollectorsTyped, S!At
  <2>. QED BY <2>2, <2>3 DEF CollectorsTyped, S!At
<1>. QED BY <1>1, <1>2, GCAside

(* What happens to the marks of a snapshot that there is.                  *)
LEMMA MarksKept ==
    ASSUME RowsTyped, CollectorsTyped, SnapsStep, NEW i \in S!Ids,
           \A c \in Collector : gc[c].cur # i
    PROVE  snaps2'[i].live = snaps2[i].live /\ snaps2'[i].trunk = snaps2[i].trunk
<1>. snaps2 \in Seq(SnapTypes) /\ S!Ids = 1..Len(snaps2) /\ Len(snaps2) \in Nat
  BY IdsAre DEF RowsTyped
<1>1. CASE Appends
  <2>1. PICK x \in SnapTypes : snaps2' = Append(snaps2, x)
    BY <1>1 DEF Appends
  <2>. QED BY <2>1
<1>2. CASE S!Age
  <2>1. snaps2'[i] = [snaps2[i] EXCEPT !.old = TRUE] /\ snaps2[i] \in SnapTypes
    BY <1>2 DEF S!Age
  <2>. QED BY <2>1 DEF SnapTypes
<1>3. ASSUME NEW c \in Collector, Deletes(c) PROVE snaps2'[i] = snaps2[i]
  <2>1. gc[c].cur # i
    OBVIOUS
  <2>2. PICK j : j = gc[c].cur
    OBVIOUS
  <2>3. \/ snaps2' = [snaps2 EXCEPT ![j].trunk = FALSE]
        \/ snaps2' = [snaps2 EXCEPT ![j].local = FALSE]
        \/ snaps2' = [snaps2 EXCEPT ![j].live = FALSE]
    BY <1>3, <2>2 DEF Deletes, S!DeleteTrunkBranch, S!DeleteViewBranch, S!DeleteRow
  <2>. QED BY <2>1, <2>2, <2>3
<1>. QED BY <1>1, <1>2, <1>3 DEF SnapsStep

LEMMA NewAreLive ==
    ASSUME RowsTyped, CollectorsTyped, SnapsStep, NEW i \in S!Ids', i \notin S!Ids
    PROVE  snaps2'[i].live /\ snaps2'[i].trunk
<1>. snaps2 \in Seq(SnapTypes) /\ S!Ids = 1..Len(snaps2) /\ Len(snaps2) \in Nat
  BY IdsAre DEF RowsTyped
<1>1. CASE Appends
  <2>1. PICK x \in SnapTypes : x.live /\ x.trunk /\ snaps2' = Append(snaps2, x)
    BY <1>1 DEF Appends
  <2>2. i = Len(snaps2) + 1
    BY <2>1 DEF S!Ids
  <2>. QED BY <2>1, <2>2
<1>2. ~Appends => S!Ids' = S!Ids
  BY DEF SnapsStep, S!Age, Deletes, S!DeleteTrunkBranch, S!DeleteViewBranch,
         S!DeleteRow, S!Ids
<1>. QED BY <1>1, <1>2

LEMMA ExcusesGrow ==
    ASSUME S!Next
    PROVE  /\ excused \subseteq excused' /\ S!Overlooked' \subseteq excused'
           /\ \A i \in S!Ids : i \in S!FoundInUse' /\ i \notin S!FoundInUse /\ S!Looked(i) => i \in excused'
BY DEF S!Next

LEMMA StepCondemned ==
    ASSUME RowsTyped, CollectorsTyped, SnapsKeep, Condemned, S!Next
    PROVE  Condemned'
<1>1. SUFFICES ASSUME NEW c \in Collector, NEW i, i = gc'[c].cur, i \in S!FoundInUse'
               PROVE  i \in excused'
  BY DEF Condemned
<1>2. i # 0 /\ i \in S!Ids'
  <2>1. i \in S!Ids' /\ 0 \notin S!Ids'
    BY <1>1 DEF S!FoundInUse, S!Ids, SnapsKeep
  <2>. QED BY <2>1
<1>3. CASE gc[c].cur = i
  <2>1. i \in S!Ids /\ (i \in S!FoundInUse => i \in excused)
    BY <1>2, <1>3 DEF CollectorsTyped, Condemned
  <2>. QED BY <1>1, <1>3, <2>1, ExcusesGrow DEF S!Looked
<1>4. CASE gc[c].cur # i
  <2>1. PICK b \in Collector : S!GCStep(b)
    BY <1>1, <1>4, GCAside DEF S!Next
  <2>2. PICK m \in GCTypes : GCTurns(b, m)
    BY <2>1, CollectorsMove DEF GCMoves
  <2>3. b = c
    BY <1>1, <1>4, <2>2, Turns
  <2>4. S!Condemn(c, i)
    <3>1. \/ gc'[c].cur \in {0, gc[c].cur} \/ \E j \in S!Ids : S!Condemn(c, j) /\ gc'[c].cur = j
      BY <2>1, <2>3, NothingIs
         DEF S!GCStep, S!StartGC, S!EndGC, S!SkipBranches, S!DeleteTrunkBranch,
             S!DeleteViewBranch, S!FailBranch, S!DeleteRow, S!Die, S!Keep, S!Condemn,
             S!GoGC, CollectorsTyped, GCTypes
    <3>. QED BY <1>1, <1>2, <1>4, <3>1
  <2>5. UNCHANGED <<ws, sug, snaps2>> /\ S!MaySeeUnused(i) /\ ~S!IsBase(i)
    BY <2>4 DEF S!Condemn, S!stores, S!PartOfSuggestion
  <2>6. ~S!IsBase(i)' /\ S!Holders(i)' = S!Holders(i) /\ S!Ids' = S!Ids
    BY <2>5 DEF S!IsBase, S!Holders, S!Ids
  <2>7. \E w \in Workspace2 : S!InUse(w, i)'
    BY <1>1, <2>6 DEF S!FoundInUse, S!Used
  <2>8. S!Holders(i) # {}
    BY <2>5, <2>7 DEF S!InUse, S!Holders
  <2>9. i \in S!Overlooked'
    BY <1>2, <2>5, <2>8 DEF S!MaySeeUnused, S!Overlooked, S!Holders, S!Ids
  <2>. QED BY <2>9, ExcusesGrow
<1>. QED BY <1>3, <1>4

LEMMA StepUsedIsKept ==
    ASSUME RowsTyped, CollectorsTyped, SnapsStep, Condemned, S!UsedIsKept, S!Next
    PROVE  S!UsedIsKept'
<1>1. SUFFICES ASSUME NEW i \in S!FoundInUse', i \notin excused'
               PROVE  snaps2'[i].live /\ snaps2'[i].trunk
  BY DEF S!UsedIsKept
<1>2. i \in S!Ids'
  BY DEF S!FoundInUse
<1>3. CASE i \notin S!Ids
  BY <1>2, <1>3, NewAreLive
<1>4. CASE i \in S!Ids /\ i \in S!FoundInUse
  <2>1. i \notin excused
    BY <1>1, ExcusesGrow
  <2>2. snaps2[i].live /\ snaps2[i].trunk
    BY <1>4, <2>1 DEF S!UsedIsKept
  <2>3. \A c \in Collector : gc[c].cur # i
    BY <1>4, <2>1 DEF Condemned
  <2>. QED BY <1>4, <2>2, <2>3, MarksKept
<1>5. CASE i \in S!Ids /\ i \notin S!FoundInUse
  <2>1. ~S!Looked(i)
    BY <1>1, <1>5, ExcusesGrow
  <2>. QED BY <1>5, <2>1, MarksKept DEF S!Looked
<1>. QED BY <1>3, <1>4, <1>5

(* Somebody is deleting snapshot i.                                        *)
Deleting(c, i) == gc[c].cur = i /\ gc[c].pc \in {"view", "row"}

LEMMA StepLiveOnTrunk ==
    ASSUME RowsTyped, CollectorsTyped, SnapsStep, S!LiveOnTrunk, S!Step
    PROVE  S!LiveOnTrunk'
<1>. snaps2 \in Seq(SnapTypes) /\ S!Ids = 1..Len(snaps2) /\ Len(snaps2) \in Nat
  BY IdsAre DEF RowsTyped
<1>1. SUFFICES ASSUME NEW i \in S!Ids', i \notin torn', snaps2'[i].live, ~snaps2'[i].trunk
               PROVE  \E c \in Collector : Deleting(c, i)'
  BY DEF S!LiveOnTrunk, Deleting
<1>2. i \in S!Ids
  BY <1>1, NewAreLive
<1>3. CASE UNCHANGED <<gc, torn>>
  <2>0. ASSUME NEW c \in Collector PROVE ~Deletes(c)
    <3>1. gc'[c] = gc[c] /\ gc[c] \in GCTypes
      BY <1>3 DEF CollectorsTyped
    <3>2. S!GoGC(c, "view") => gc'[c].pc = "view"
      BY <3>1 DEF S!GoGC, CollectorsTyped, GCTypes
    <3>3. S!GoGC(c, "row") => gc'[c].pc = "row"
      BY <3>1 DEF S!GoGC, CollectorsTyped, GCTypes
    <3>4. S!DeleteRow(c) => gc'[c].pc = "check"
      <4>1. PICK m : m = [gc[c] EXCEPT !.pc = "check", !.cur = 0]
        OBVIOUS
      <4>2. S!DeleteRow(c) => gc' = [gc EXCEPT ![c] = m]
        BY <4>1 DEF S!DeleteRow
      <4>3. m.pc = "check"
        BY <3>1, <4>1 DEF GCTypes
      <4>. QED BY <4>2, <4>3 DEF CollectorsTyped
    <3>. QED BY <3>1, <3>2, <3>3, <3>4
             DEF Deletes, S!DeleteTrunkBranch, S!DeleteViewBranch, S!DeleteRow, S!At
  <2>1. snaps2' = snaps2 \/ Appends \/ S!Age
    BY <2>0 DEF SnapsStep
  <2>2. snaps2'[i].live = snaps2[i].live /\ snaps2'[i].trunk = snaps2[i].trunk
    <3>1. CASE Appends
      BY <1>2, <3>1 DEF Appends
    <3>2. CASE S!Age
      <4>1. snaps2'[i] = [snaps2[i] EXCEPT !.old = TRUE] /\ snaps2[i] \in SnapTypes
        BY <1>2, <3>2 DEF S!Age
      <4>. QED BY <4>1 DEF SnapTypes
    <3>. QED BY <2>1, <3>1, <3>2
  <2>. QED BY <1>1, <1>2, <1>3, <2>2 DEF S!LiveOnTrunk, Deleting
<1>4. ASSUME NEW c \in Collector, S!GCStep(c) PROVE \E b \in Collector : Deleting(b, i)'
  <2>. DEFINE j == gc[c].cur
  <2>1. PICK m \in GCTypes : GCTurns(c, m)
    BY <1>4, CollectorsMove DEF GCMoves
  <2>2. gc'[c] = m /\ \A b \in Collector \ {c} : gc'[b] = gc[b]
    BY <2>1, Turns
  <2>3. \A b \in Collector \ {c} : Deleting(b, i) => Deleting(b, i)'
    BY <2>2 DEF Deleting
  <2>4. torn \subseteq torn'
    BY <1>4 DEF S!GCStep, S!StartGC, S!EndGC, S!SkipBranches, S!DeleteTrunkBranch,
                S!DeleteViewBranch, S!FailBranch, S!DeleteRow, S!Die, S!Keep, S!Condemn
  <2>5. ASSUME snaps2[i].live, ~snaps2[i].trunk PROVE \E b \in Collector : Deleting(b, i)
    BY <1>1, <1>2, <2>4, <2>5 DEF S!LiveOnTrunk, Deleting
  <2>6. gc[c] \in GCTypes /\ snaps2[i] \in SnapTypes
    BY <1>2 DEF CollectorsTyped
  <2>7. CASE S!DeleteTrunkBranch(c)
    <3>1. snaps2' = [snaps2 EXCEPT ![j].trunk = FALSE] /\ gc'[c] = [gc[c] EXCEPT !.pc = "view"]
          /\ ~Deleting(c, i)
      BY <2>7 DEF S!DeleteTrunkBranch, S!GoGC, CollectorsTyped, Deleting, S!At
    <3>2. CASE j = i
      BY <2>6, <3>1, <3>2 DEF Deleting, GCTypes
    <3>3. CASE j # i
      <4>1. snaps2'[i] = snaps2[i]
        BY <3>1, <3>3
      <4>. QED BY <1>1, <2>3, <2>5, <3>1, <4>1
    <3>. QED BY <3>2, <3>3
  <2>8. CASE S!DeleteViewBranch(c)
    <3>1. PICK x : x = [snaps2[i] EXCEPT !.local = FALSE]
      OBVIOUS
    <3>2. snaps2' = [snaps2 EXCEPT ![j].local = FALSE] /\ gc'[c] = [gc[c] EXCEPT !.pc = "row"]
      BY <2>8 DEF S!DeleteViewBranch, S!GoGC, CollectorsTyped
    <3>3. x.live = snaps2[i].live /\ x.trunk = snaps2[i].trunk
      BY <2>6, <3>1 DEF SnapTypes
    <3>4. snaps2'[i] = x \/ snaps2'[i] = snaps2[i]
      <4>1. PICK k : k = j
        OBVIOUS
      <4>2. snaps2' = [snaps2 EXCEPT ![k].local = FALSE]
        BY <3>2, <4>1
      <4>3. CASE k = i
        <5>1. snaps2' = [snaps2 EXCEPT ![i] = x]
          BY <3>1, <4>2, <4>3
        <5>. QED BY <1>2, <5>1
      <4>4. CASE k # i
        BY <4>2, <4>4
      <4>. QED BY <4>3, <4>4
    <3>5. Deleting(c, i) => Deleting(c, i)'
      BY <2>6, <3>2 DEF Deleting, GCTypes
    <3>. QED BY <1>1, <2>3, <2>5, <3>3, <3>4, <3>5
  <2>9. CASE S!DeleteRow(c)
    <3>1. snaps2' = [snaps2 EXCEPT ![j].live = FALSE]
      BY <2>9 DEF S!DeleteRow
    <3>2. j # i
      BY <1>1, <1>2, <2>6, <3>1 DEF SnapTypes
    <3>3. snaps2'[i] = snaps2[i] /\ ~Deleting(c, i)
      BY <3>1, <3>2 DEF Deleting
    <3>. QED BY <1>1, <2>3, <2>5, <3>3
  <2>10. CASE S!FailBranch(c)
    <3>1. snaps2' = snaps2 /\ gc'[c] = [gc[c] EXCEPT !.pc = "row"]
      BY <2>10 DEF S!FailBranch, S!GoGC, CollectorsTyped, S!stores
    <3>2. Deleting(c, i) => Deleting(c, i)'
      BY <2>6, <3>1 DEF Deleting, GCTypes
    <3>. QED BY <1>1, <2>3, <2>5, <3>1, <3>2
  <2>11. CASE S!Die(c)
    <3>1. snaps2' = snaps2 /\ ~Deleting(c, i)
      BY <1>1, <2>11 DEF S!Die, Deleting, S!At, S!stores
    <3>. QED BY <1>1, <2>3, <2>5, <3>1
  <2>12. CASE S!StartGC(c) \/ S!EndGC(c) \/ S!SkipBranches(c) \/ \E k \in S!Ids : S!Keep(c, k) \/ S!Condemn(c, k)
    <3>1. snaps2' = snaps2 /\ ~Deleting(c, i)
      BY <2>12 DEF S!StartGC, S!EndGC, S!SkipBranches, S!Keep, S!Condemn, Deleting,
                   S!At, S!stores
    <3>. QED BY <1>1, <2>3, <2>5, <3>1
  <2>. QED BY <1>4, <2>7, <2>8, <2>9, <2>10, <2>11, <2>12 DEF S!GCStep
<1>. QED BY <1>3, <1>4, GCAside

LEMMA StepKeptOK ==
    ASSUME KeptOK, [S!Next]_S!vars
    PROVE  KeptOK'
<1>1. CASE S!Next
  <2>1. S!Step
    BY <1>1 DEF S!Next
  <2>2. SnapsStep
    BY <2>1, SnapsMove DEF KeptOK
  <2>3. SnapsKeep
    BY <2>2, SnapsAreKept DEF KeptOK
  <2>4. WsStep /\ SugStep /\ DiskStep /\ DoneStep
    BY <2>1, <2>3, WsMoves, RestMoves DEF KeptOK
  <2>5. RowsTyped' /\ RequestsTyped' /\ CollectorsTyped' /\ NamesOK'
    BY <2>1, <2>2, <2>3, <2>4, RowsStayTyped, RequestsStayTyped, CollectorsStayTyped, NamesStay
       DEF KeptOK
  <2>6. Condemned' /\ S!UsedIsKept' /\ S!LiveOnTrunk'
    BY <1>1, <2>1, <2>2, <2>3, StepCondemned, StepUsedIsKept, StepLiveOnTrunk DEF KeptOK
  <2>. QED BY <2>5, <2>6 DEF KeptOK
<1>2. CASE UNCHANGED S!vars
  BY <1>2 DEF S!vars, KeptOK, RowsTyped, RequestsTyped, CollectorsTyped, NamesOK,
              Condemned, S!UsedIsKept, S!LiveOnTrunk, S!FoundInUse, S!Used, S!IsBase,
              S!InUse, S!Ids, Named, S!At
<1>. QED BY <1>1, <1>2

LEMMA InitKeptOK ==
    ASSUME S!Init
    PROVE  KeptOK
<1>1. PICK T \in SUBSET (Workspace2 \ {Original}) :
          /\ ws = [w \in Workspace2 |-> IF w \in T \union {Original} THEN S!Saved ELSE S!NoRow]
          /\ sug = [w \in Workspace2 |-> IF w \in T THEN [S!NoSug EXCEPT !.there = TRUE, !.base = 1]
                                                  ELSE S!NoSug]
  BY DEF S!Init
<1>2. PICK x : x = [ws |-> Original, work |-> {}, old |-> FALSE, live |-> TRUE,
                    trunk |-> TRUE, local |-> TRUE]
  OBVIOUS
<1>3. x \in SnapTypes /\ x.live /\ x.trunk
  BY <1>2, SuggestionsAssumption DEF SnapTypes
<1>4. snaps2 = Append(<<>>, x)
  BY <1>2 DEF S!Init, S!Taken
<1>5. snaps2 \in Seq(SnapTypes) /\ S!Ids = {1} /\ snaps2[1] = x
  BY <1>3, <1>4 DEF S!Ids
<1>6. PICK m : m = [S!NoSug EXCEPT !.there = TRUE, !.base = 1]
  OBVIOUS
<1>7. m \in SugTypes /\ m.base = 1
  BY <1>6, NothingIs DEF SugTypes
<1>8. /\ S!Saved \in WsTypes /\ S!Saved.latest = 1 /\ S!NoRow \in WsTypes /\ S!NoRow.latest = 0
  BY DEF S!Saved, S!NoRow, WsTypes
<1>9. /\ ws \in [Workspace2 -> WsTypes] /\ sug \in [Workspace2 -> SugTypes]
      /\ \A w \in Workspace2 : ws[w].latest \in {0, 1} /\ sug[w].base \in {0, 1}
  BY <1>1, <1>6, <1>7, <1>8, NothingIs
<1>10. RowsTyped
  BY <1>5, <1>9 DEF RowsTyped, S!Init
<1>11. RequestsTyped /\ CollectorsTyped
  BY NothingIs DEF S!Init, RequestsTyped, CollectorsTyped, Steps, S!At
<1>12. NamesOK
  BY <1>5, <1>9, NothingIs DEF S!Init, NamesOK, Named
<1>13. Condemned /\ S!UsedIsKept /\ S!LiveOnTrunk
  <2>1. \A c \in Collector : gc[c].cur = 0
    BY NothingIs DEF S!Init
  <2>. QED BY <1>3, <1>5, <2>1 DEF Condemned, S!UsedIsKept, S!LiveOnTrunk, S!FoundInUse
<1>. QED BY <1>10, <1>11, <1>12, <1>13 DEF KeptOK

-----------------------------------------------------------------------------
(* Requests and their tasks.                                               *)

LEMMA NoLocShape == Shape("idle", S!NoLoc) /\ S!NoLoc.kind \notin OnRow /\ S!NoLoc.kind # "suggest"
BY NothingIs DEF Shape, OnRow

SameTask(r, l) == l.kind = loc2[r].kind /\ l.d = loc2[r].d
RunTo(r) ==
    \E at \in Steps, l \in Holds :
       /\ Goes(r, at, l) /\ Shape(at, l)
       /\ (at = "idle" /\ l = S!NoLoc) \/ SameTask(r, l)

LEMMA DiffRead ==
    ASSUME RowsTyped, RequestsTyped, NamesOK, NEW r \in Request2, S!ReadDiff(r)
    PROVE  \E at \in {"patch", "record"}, l \in Holds :
              LET hunks == S!Diff(loc2[r].d) \intersect loc2[r].adds IN
              /\ Goes(r, at, l) /\ SameTask(r, l) /\ (at = "patch" <=> l.kind = "apply")
              /\ l.adds \union l.dels = hunks
              /\ l.row.base = loc2[r].row.base /\ l.row.there = loc2[r].row.there
              /\ l.row.applied =
                    IF l.kind = "apply"
                    THEN loc2[r].row.applied \union {S!Position(h, S!Diff(loc2[r].d)) : h \in hunks}
                    ELSE loc2[r].row.applied
<1>0. loc2[r] \in Holds /\ loc2[r].adds \in SUBSET Edit2 /\ loc2[r].d \in Workspace2
  BY DEF RequestsTyped, Holds
<1>1. PICK hunks \in SUBSET Edit2 : hunks = S!Diff(loc2[r].d) \intersect loc2[r].adds
  BY <1>0
<1>2. PICK N : N = {S!Position(h, S!Diff(loc2[r].d)) : h \in hunks}
  OBVIOUS
<1>3. N \subseteq Nat
  <2>1. \A h \in hunks : S!Position(h, S!Diff(loc2[r].d)) \in Nat
    BY <1>0, <1>1, DiffIs, PositionIs
  <2>. QED BY <1>2, <2>1
<1>4. PICK m \in SugTypes :
          /\ m = S!Noted(loc2[r], hunks) /\ m.base = loc2[r].row.base /\ m.there = loc2[r].row.there
          /\ m.applied = IF loc2[r].kind = "apply" THEN loc2[r].row.applied \union N
                         ELSE loc2[r].row.applied
  BY <1>0, <1>2, <1>3, NotedIs
<1>5. PICK x, y \in SUBSET Edit2 : /\ x = hunks \intersect S!Work(ws[loc2[r].d].latest)
                                   /\ y = hunks \ S!Work(ws[loc2[r].d].latest)
  OBVIOUS
<1>6. PICK i \in Nat, o \in BOOLEAN : i = ws[Original].latest /\ o = ws[Original].open
  BY SuggestionsAssumption DEF RowsTyped, WsTypes
<1>7. PICK l : l = [loc2[r] EXCEPT !.adds = x, !.dels = y, !.latest = i, !.open = o, !.row = m]
  OBVIOUS
<1>8. /\ l \in Holds /\ l.kind = loc2[r].kind /\ l.d = loc2[r].d /\ l.row = m
      /\ l.adds = x /\ l.dels = y
  BY <1>0, <1>6, <1>7 DEF Holds
<1>9. PICK at : at = IF loc2[r].kind = "apply" THEN "patch" ELSE "record"
  OBVIOUS
<1>10. Goes(r, at, l)
  BY <1>1, <1>4, <1>5, <1>6, <1>7, <1>9 DEF S!ReadDiff, S!Goto, Goes
<1>11. x \union y = hunks /\ at \in {"patch", "record"} /\ (at = "patch" <=> l.kind = "apply")
  BY <1>5, <1>8, <1>9
<1>. QED BY <1>1, <1>2, <1>4, <1>8, <1>10, <1>11 DEF SameTask

LEMMA SnapshotPatched ==
    ASSUME RowsTyped, RequestsTyped, NamesOK, NEW r \in Request2, S!PatchSnapshot(r)
    PROVE  \/ Goes(r, "idle", S!NoLoc) /\ done' = done
           \/ /\ \E l \in Holds : /\ Goes(r, "mark", l) /\ SameTask(r, l)
                                  /\ l.row = loc2[r].row
              /\ done' = [done EXCEPT ![loc2[r].d] = @ \union loc2[r].adds \union loc2[r].dels]
<1>0. loc2[r] \in Holds /\ S!Work(loc2[r].latest) \in SUBSET Edit2
  BY WorkIs DEF RequestsTyped, NamesOK
<1>1. CASE S!End(r) /\ done' = done
  BY <1>1, Ended
<1>2. CASE ~(S!End(r) /\ done' = done)
  <2>1. PICK i \in Nat : i = Len(snaps2) + 1
    BY DEF RowsTyped
  <2>2. /\ loc2' = [loc2 EXCEPT ![r].id = i, ![r].w = Original] /\ S!Goto(r, "mark")
        /\ done' = [done EXCEPT ![loc2[r].d] = @ \union S!Fitting(loc2[r], S!Work(loc2[r].latest))]
        /\ S!Blocked(loc2[r], S!Work(loc2[r].latest)) = {}
    BY <1>2, <2>1 DEF S!PatchSnapshot
  <2>3. PICK l : l = [loc2[r] EXCEPT !.id = i, !.w = Original]
    OBVIOUS
  <2>4. l \in Holds /\ l.kind = loc2[r].kind /\ l.d = loc2[r].d /\ l.row = loc2[r].row
    BY <1>0, <2>3, SuggestionsAssumption DEF Holds
  <2>5. Goes(r, "mark", l)
    BY <2>2, <2>3 DEF S!Goto, Goes, RequestsTyped
  <2>6. S!Fitting(loc2[r], S!Work(loc2[r].latest)) = loc2[r].adds \union loc2[r].dels
    BY <1>0, <2>2, PatchedIs
  <2>. QED BY <2>2, <2>4, <2>5, <2>6 DEF SameTask
<1>. QED BY <1>1, <1>2

LEMMA Runs ==
    ASSUME RowsTyped, RequestsTyped, NamesOK, NEW r \in Request2, Shape(pc2[r], loc2[r]), S!Run(r)
    PROVE  RunTo(r)
<1>. loc2[r] \in Holds /\ loc2[r].row \in SugTypes
  BY DEF RequestsTyped, Holds
<1>0. ASSUME Goes(r, "idle", S!NoLoc) PROVE RunTo(r)
  BY <1>0, NothingIs, NoLocShape DEF RunTo, Steps
<1>00. ASSUME NEW at \in Steps, Goes(r, at, loc2[r]), Shape(at, loc2[r]) PROVE RunTo(r)
  BY <1>00 DEF RunTo, SameTask
<1>1. CASE S!Take(r)
  <2>1. PICK i \in Nat : loc2' = [loc2 EXCEPT ![r].id = i]
    <3>1. ws[loc2[r].w].latest \in Nat /\ Len(snaps2) + 1 \in Nat
      BY DEF RowsTyped, WsTypes, Holds
    <3>. QED BY <1>1, <3>1 DEF S!Take
  <2>2. PICK l : l = [loc2[r] EXCEPT !.id = i]
    OBVIOUS
  <2>3. l \in Holds /\ l.kind = loc2[r].kind /\ l.d = loc2[r].d /\ l.row = loc2[r].row
    BY <2>2 DEF Holds
  <2>4. Goes(r, "mark", l)
    BY <1>1, <2>1, <2>2 DEF S!Take, S!Goto, Goes
  <2>5. Shape("mark", l)
    BY <1>1, <2>3 DEF S!Take, Shape
  <2>. QED BY <2>3, <2>4, <2>5 DEF RunTo, SameTask, Steps
<1>2. CASE S!Mark(r)
  <2>1. CASE loc2[r].kind = "suggest"
    <3>1. Goes(r, "link", loc2[r])
      BY <1>2, <2>1, Stayed DEF S!Mark
    <3>2. Shape("link", loc2[r])
      BY <2>1 DEF Shape, OnRow
    <3>. QED BY <3>1, <3>2, <1>00 DEF Steps
  <2>2. CASE loc2[r].kind = "apply"
    <3>1. Goes(r, "record", loc2[r])
      BY <1>2, <2>2, Stayed DEF S!Mark
    <3>2. Shape("record", loc2[r])
      BY <2>2 DEF Shape, OnRow
    <3>. QED BY <3>1, <3>2, <1>00 DEF Steps
  <2>3. CASE loc2[r].kind \notin {"suggest", "apply"}
    BY <1>2, <2>3, <1>0, Ended DEF S!Mark
  <2>. QED BY <2>1, <2>2, <2>3
<1>3. CASE S!NewWorkspace(r) \/ S!LinkSnapshot(r)
  <2>1. PICK at \in {"take", "link", "insert"} : Goes(r, at, loc2[r])
    BY <1>3, Stayed DEF S!NewWorkspace, S!LinkSnapshot
  <2>2. loc2[r].kind = "suggest"
    BY <1>3 DEF S!NewWorkspace, S!LinkSnapshot, Shape
  <2>3. Shape(at, loc2[r])
    BY <2>2 DEF Shape, OnRow
  <2>. QED BY <2>1, <2>3, <1>00 DEF Steps
<1>4. CASE S!ReadDiff(r)
  <2>1. PICK at \in {"patch", "record"}, l \in Holds :
            /\ Goes(r, at, l) /\ SameTask(r, l) /\ (at = "patch" <=> l.kind = "apply")
            /\ l.row.there = loc2[r].row.there
    BY <1>4, DiffRead
  <2>2. loc2[r].kind \in OnRow /\ loc2[r].row.there
    BY <1>4 DEF S!ReadDiff, Shape
  <2>3. Shape(at, l)
    BY <2>1, <2>2 DEF Shape, SameTask
  <2>. QED BY <2>1, <2>3 DEF RunTo, Steps
<1>5. CASE S!PatchView(r)
  <2>1. Goes(r, "record", loc2[r]) \/ Goes(r, "idle", S!NoLoc)
    BY <1>5, Stayed, Ended DEF S!PatchView
  <2>2. Shape("record", loc2[r])
    BY <1>5 DEF S!PatchView, Shape, OnRow
  <2>. QED BY <2>1, <2>2, <1>0, <1>00 DEF Steps
<1>6. CASE S!PatchSnapshot(r)
  <2>1. loc2[r].kind = "apply" /\ loc2[r].row.there
    BY <1>6 DEF S!PatchSnapshot, Shape, OnRow
  <2>2. CASE Goes(r, "idle", S!NoLoc)
    BY <2>2, <1>0
  <2>3. ASSUME NEW l \in Holds, Goes(r, "mark", l), SameTask(r, l), l.row = loc2[r].row
        PROVE  RunTo(r)
    <3>1. Shape("mark", l)
      BY <2>1, <2>3 DEF Shape, SameTask
    <3>. QED BY <2>3, <3>1 DEF RunTo, Steps
  <2>. QED BY <1>6, <2>2, <2>3, SnapshotPatched
<1>7. CASE S!RemoveInView(r)
  <2>1. Goes(r, "take", loc2[r]) \/ Goes(r, "idle", S!NoLoc)
    BY <1>7, Stayed, Ended DEF S!RemoveInView
  <2>2. Shape("take", loc2[r])
    BY <1>7 DEF S!RemoveInView, Shape, OnRow
  <2>. QED BY <2>1, <2>2, <1>0, <1>00 DEF Steps
<1>8. CASE S!Insert(r) \/ S!ReadDeleted(r) \/ S!Record(r) \/ S!FailRequest(r)
  BY <1>8, <1>0, Ended DEF S!Insert, S!ReadDeleted, S!Record, S!FailRequest
<1>. QED BY <1>1, <1>2, <1>3, <1>4, <1>5, <1>6, <1>7, <1>8 DEF S!Run

(* A request on the row of a suggestion begins with this row.              *)
BeginsOn(r, d) ==
    /\ sug[d].there /\ disturbed \subseteq disturbed'
    /\ d \notin disturbed' => \A q \in Request2 : ~HasRow(q, d)
    /\ \A e \in Workspace2 \ {d} : e \in disturbed' => e \in disturbed
Reads(r, d) ==
    \E at \in {"diff", "record"}, l \in Holds :
       /\ Goes(r, at, l) /\ l.kind \in OnRow /\ l.d = d
       /\ l.row.base = sug[d].base /\ l.row.there /\ l.row.applied = sug[d].applied
       /\ at = "diff" => l.row = sug[d]
Starts(r) ==
    /\ pc2[r] = "idle" /\ UNCHANGED <<ws, disk2, snaps2, sug, done>>
    /\ \/ \E d \in Workspace2 : BeginsOn(r, d) /\ Reads(r, d)
       \/ /\ disturbed' = disturbed
          /\ \E at \in Steps, l \in Holds :
                /\ Goes(r, at, l) /\ Shape(at, l) /\ l.kind \notin OnRow
                /\ l.kind = "suggest" =>
                      /\ ~ws[l.d].exists /\ at = "new"
                      /\ \A q \in Request2 : ~(Making(q) /\ loc2[q].d = l.d)

LEMMA StartsBegin ==
    ASSUME RowsTyped, NEW r \in Request2, S!StartRequest(r)
    PROVE  Starts(r)
<1>. /\ S!NoLoc \in Holds /\ S!NoLoc.kind = "none" /\ S!NoLoc.row = S!NoSug
  BY NothingIs
<1>. \A d \in Workspace2 : sug[d] \in SugTypes /\ ws[d] \in WsTypes
  BY DEF RowsTyped
<1>1. ASSUME NEW w \in Workspace2, S!StartSnapshot(r, w) PROVE Starts(r)
  <2>1. PICK l : l = [S!NoLoc EXCEPT !.kind = "snap", !.w = w]
    OBVIOUS
  <2>2. l \in Holds /\ l.kind = "snap"
    BY <2>1 DEF Holds
  <2>3. /\ Goes(r, "take", l) /\ pc2[r] = "idle" /\ UNCHANGED <<ws, disk2, snaps2, sug, done>>
        /\ disturbed' = disturbed
    BY <1>1, <2>1, Began DEF S!StartSnapshot, S!stores
  <2>4. Shape("take", l)
    BY <2>2 DEF Shape, OnRow
  <2>. QED BY <2>2, <2>3, <2>4 DEF Starts, Steps, OnRow
<1>2. ASSUME NEW w \in Workspace2, NEW d \in Workspace2, S!StartSuggestion(r, w, d)
      PROVE  Starts(r)
  <2>1. PICK l : l = [S!NoLoc EXCEPT !.kind = "suggest", !.w = w, !.d = d,
                                   !.latest = ws[w].latest, !.open = ws[w].open]
    OBVIOUS
  <2>2. l \in Holds /\ l.kind = "suggest" /\ l.d = d
    BY <2>1 DEF Holds, WsTypes
  <2>3. /\ Goes(r, "new", l) /\ pc2[r] = "idle" /\ UNCHANGED <<ws, disk2, snaps2, sug, done>>
        /\ disturbed' = disturbed
    BY <1>2, <2>1, Began DEF S!StartSuggestion, S!stores
  <2>4. Shape("new", l)
    BY <2>2 DEF Shape, OnRow
  <2>5. ~ws[d].exists /\ \A q \in Request2 : ~(Making(q) /\ loc2[q].d = d)
    BY <1>2 DEF S!StartSuggestion, Making
  <2>. QED BY <2>2, <2>3, <2>4, <2>5 DEF Starts, Steps, OnRow
<1>3. ASSUME NEW d \in Workspace2, S!StartDismiss(r, d) PROVE Starts(r)
  <2>1. PICK m : m = [sug[d] EXCEPT !.hidden = TRUE]
    OBVIOUS
  <2>2. m \in SugTypes /\ m.base = sug[d].base /\ m.there = sug[d].there
        /\ m.applied = sug[d].applied
    BY <2>1 DEF SugTypes
  <2>3. PICK l : l = [S!NoLoc EXCEPT !.kind = "dismiss", !.d = d, !.row = m]
    OBVIOUS
  <2>4. l \in Holds /\ l.kind = "dismiss" /\ l.d = d /\ l.row = m
    BY <2>2, <2>3 DEF Holds, OnRow
  <2>5. /\ Goes(r, "record", l) /\ pc2[r] = "idle" /\ UNCHANGED <<ws, disk2, snaps2, sug, done>>
    BY <1>3, <2>1, <2>3, Began DEF S!StartDismiss, S!BeginOn, S!stores
  <2>6. BeginsOn(r, d)
    BY <1>3 DEF S!StartDismiss, S!BeginOn, BeginsOn, HasRow, S!OnSuggestion, OnRow
  <2>. QED BY <2>2, <2>4, <2>5, <2>6 DEF Starts, Reads, BeginsOn, OnRow
<1>4. ASSUME NEW d \in Workspace2, S!StartActivity(r, d) PROVE Starts(r)
  <2>1. PICK m : m = [sug[d] EXCEPT !.hidden = FALSE, !.notified = TRUE]
    OBVIOUS
  <2>2. m \in SugTypes /\ m.base = sug[d].base /\ m.there = sug[d].there
        /\ m.applied = sug[d].applied
    BY <2>1 DEF SugTypes
  <2>3. PICK l : l = [S!NoLoc EXCEPT !.kind = "activity", !.d = d, !.row = m]
    OBVIOUS
  <2>4. l \in Holds /\ l.kind = "activity" /\ l.d = d /\ l.row = m
    BY <2>2, <2>3 DEF Holds, OnRow
  <2>5. /\ Goes(r, "record", l) /\ pc2[r] = "idle" /\ UNCHANGED <<ws, disk2, snaps2, sug, done>>
    BY <1>4, <2>1, <2>3, Began DEF S!StartActivity, S!BeginOn, S!stores
  <2>6. BeginsOn(r, d)
    BY <1>4 DEF S!StartActivity, S!BeginOn, BeginsOn, HasRow, S!OnSuggestion, OnRow
  <2>. QED BY <2>2, <2>4, <2>5, <2>6 DEF Starts, Reads, BeginsOn, OnRow
<1>5. ASSUME NEW d \in Workspace2, NEW hunks \in SUBSET Edit2,
             NEW kind \in {"apply", "dismissHunks"}, S!StartHunks(r, d, kind, hunks)
      PROVE  Starts(r)
  <2>1. PICK l : l = [S!NoLoc EXCEPT !.kind = kind, !.d = d, !.row = sug[d], !.adds = hunks]
    OBVIOUS
  <2>2. l \in Holds /\ l.kind = kind /\ l.d = d /\ l.row = sug[d]
    BY <2>1 DEF Holds, OnRow
  <2>3. /\ Goes(r, "diff", l) /\ pc2[r] = "idle" /\ UNCHANGED <<ws, disk2, snaps2, sug, done>>
    BY <1>5, <2>1, Began DEF S!StartHunks, S!BeginOn, S!stores
  <2>4. BeginsOn(r, d)
    BY <1>5 DEF S!StartHunks, S!BeginOn, BeginsOn, HasRow, S!OnSuggestion, OnRow
  <2>. QED BY <2>2, <2>3, <2>4 DEF Starts, Reads, BeginsOn, OnRow
<1>6. ASSUME NEW d \in Workspace2, NEW hunks \in SUBSET Edit2, S!RemovePatches(r, d, hunks)
      PROVE  Starts(r)
  <2>1. PICK x, y \in SUBSET Edit2 : /\ x = hunks \ S!Work(ws[d].latest)
                                     /\ y = hunks \intersect S!Work(ws[d].latest)
    OBVIOUS
  <2>2. PICK l : l = [S!NoLoc EXCEPT !.kind = "remove", !.w = d, !.adds = x, !.dels = y]
    OBVIOUS
  <2>3. l \in Holds /\ l.kind = "remove"
    BY <2>2 DEF Holds
  <2>4. /\ Goes(r, "undo", l) /\ pc2[r] = "idle" /\ UNCHANGED <<ws, disk2, snaps2, sug, done>>
        /\ disturbed' = disturbed
    BY <1>6, <2>1, <2>2, Began DEF S!RemovePatches, S!stores
  <2>5. Shape("undo", l)
    BY <2>3 DEF Shape, OnRow
  <2>. QED BY <2>3, <2>4, <2>5 DEF Starts, Steps, OnRow
<1>. QED BY <1>1, <1>2, <1>3, <1>4, <1>5, <1>6 DEF S!StartRequest

-----------------------------------------------------------------------------
(* Who makes suggestions, and what is there of them.                       *)

Rows == RowsTyped /\ RequestsTyped /\ NamesOK
Tasks == MakersOK /\ \A r \in Request2 : AtRow(r)

LEMMA SugGrows ==
    ASSUME Rows, Tasks, SnapsKeep, S!Step, NEW d \in Workspace2
    PROVE  /\ sug[d].there => sug'[d].there /\ (sug'[d].there => ws'[d].exists)
           /\ ~sug[d].there /\ sug'[d].there =>
                 \E r \in Request2 : S!Insert(r) /\ loc2[r].d = d
<1>0. WsStep /\ SugStep
  BY WsMoves, RestMoves DEF Rows
<1>1. ws[d].exists => ws'[d].exists
  BY <1>0 DEF WsStep, Rows, RowsTyped
<1>2. CASE sug' = sug
  BY <1>1, <1>2 DEF Tasks, MakersOK
<1>3. ASSUME NEW r \in Request2, S!Insert(r)
      PROVE  /\ sug[d].there => sug'[d].there /\ ws'[d].exists
             /\ ~sug[d].there /\ sug'[d].there => loc2[r].d = d
  <2>1. PICK m : m = [S!NoSug EXCEPT !.there = TRUE, !.base = loc2[r].latest]
    OBVIOUS
  <2>2. m.there
    BY <2>1, NothingIs DEF SugTypes
  <2>3. sug' = [sug EXCEPT ![loc2[r].d] = m]
    BY <1>3, <2>1 DEF S!Insert
  <2>4. d # loc2[r].d => sug'[d] = sug[d]
    BY <2>3
  <2>5. sug[d].there => ws[d].exists
    BY DEF Tasks, MakersOK
  <2>. QED BY <1>1, <2>2, <2>3, <2>4, <2>5 DEF Rows, RowsTyped
<1>4. ASSUME NEW r \in Request2, S!Record(r)
      PROVE  sug'[d].there = sug[d].there
  <2>1. loc2[r].row.there /\ sug[loc2[r].d].there
    BY <1>4 DEF S!Record, Tasks, AtRow, Shape
  <2>2. sug' = [sug EXCEPT ![loc2[r].d] = loc2[r].row]
    BY <1>4 DEF S!Record
  <2>. QED BY <2>1, <2>2 DEF Rows, RowsTyped
<1>. QED BY <1>0, <1>1, <1>2, <1>3, <1>4 DEF SugStep, Tasks, MakersOK

(* A suggestion that comes into being is there already as a workspace.     *)
LEMMA InsertedExists ==
    ASSUME Rows, Tasks, SnapsKeep, S!Step, NEW r \in Request2, S!Insert(r)
    PROVE  /\ ~sug[loc2[r].d].there /\ ws'[loc2[r].d].exists /\ Goes(r, "idle", S!NoLoc)
           /\ sug'[loc2[r].d].there /\ sug'[loc2[r].d].applied = {}
           /\ \A d \in Workspace2 \ {loc2[r].d} : sug'[d] = sug[d]
<1>1. Making(r) /\ loc2[r].d \in Workspace2
  BY DEF S!Insert, Tasks, AtRow, Shape, Making, Rows, RequestsTyped, Holds
<1>2. ~sug[loc2[r].d].there /\ ws[loc2[r].d].exists
  BY <1>1 DEF Tasks, MakersOK, S!Insert
<1>3. WsStep
  BY WsMoves DEF Rows
<1>4. ws'[loc2[r].d].exists
  BY <1>1, <1>2, <1>3 DEF WsStep, Rows, RowsTyped
<1>5. PICK m : m = [S!NoSug EXCEPT !.there = TRUE, !.base = loc2[r].latest]
  OBVIOUS
<1>6. m.there /\ m.applied = {}
  BY <1>5, NothingIs DEF SugTypes
<1>7. sug' = [sug EXCEPT ![loc2[r].d] = m]
  BY <1>5 DEF S!Insert
<1>8. sug'[loc2[r].d] = m /\ \A d \in Workspace2 \ {loc2[r].d} : sug'[d] = sug[d]
  BY <1>1, <1>7 DEF Rows, RowsTyped
<1>. QED BY <1>2, <1>4, <1>6, <1>8, Ended DEF S!Insert

LEMMA StepThere ==
    ASSUME Rows, Tasks, SnapsKeep, S!Step, NEW d \in Workspace2
    PROVE  /\ sug'[d].there => ws'[d].exists
           /\ ~sug'[d].there => done'[d] = {}
<1>1. sug'[d].there => ws'[d].exists
  BY SugGrows, InsertedExists
<1>2. ASSUME ~sug'[d].there PROVE done'[d] = {}
  <2>1. ~sug[d].there /\ done[d] = {}
    BY <1>2, SugGrows DEF Tasks, MakersOK
  <2>2. DoneStep
    BY RestMoves DEF Rows
  <2>3. ASSUME NEW r \in Request2, S!PatchView(r) \/ S!PatchSnapshot(r) PROVE loc2[r].d # d
    BY <2>1, <2>3 DEF S!PatchView, S!PatchSnapshot, Tasks, AtRow, Shape
  <2>. QED BY <2>1, <2>2, <2>3 DEF DoneStep, Rows, RowsTyped
<1>. QED BY <1>1, <1>2

(* What the step of a request may do to its task.                          *)
LEMMA TaskSteps ==
    ASSUME Rows, Tasks, S!Step
    PROVE  \/ UNCHANGED <<pc2, loc2>>
           \/ \E r \in Request2 : RunTo(r) /\ S!Run(r)
           \/ \E r \in Request2 : Starts(r)
<1>1. ASSUME NEW r \in Request2, S!StartRequest(r) PROVE Starts(r)
  BY <1>1, StartsBegin DEF Rows
<1>2. ASSUME NEW r \in Request2, S!Run(r) PROVE RunTo(r)
  BY <1>2, Runs DEF Rows, Tasks, AtRow
<1>. QED BY <1>1, <1>2, OthersAside DEF S!Step

LEMMA StepAtRow ==
    ASSUME Rows, Tasks, SnapsKeep, S!Step, NEW q \in Request2
    PROVE  AtRow(q)'
<1>0. AtRow(q) /\ loc2[q].d \in Workspace2
  BY DEF Tasks, Rows, RequestsTyped, Holds
<1>1. CASE pc2'[q] = pc2[q] /\ loc2'[q] = loc2[q]
  BY <1>0, <1>1, SugGrows DEF AtRow
<1>2. ASSUME NEW r \in Request2, RunTo(r) PROVE AtRow(q)'
  <2>1. PICK at \in Steps, l \in Holds :
            Goes(r, at, l) /\ Shape(at, l) /\ ((at = "idle" /\ l = S!NoLoc) \/ SameTask(r, l))
    BY <1>2 DEF RunTo
  <2>2. /\ pc2'[r] = at /\ loc2'[r] = l
        /\ q # r => pc2'[q] = pc2[q] /\ loc2'[q] = loc2[q]
    BY <2>1, Went DEF Rows
  <2>3. l.kind \in OnRow => sug'[l.d].there
    <3>1. CASE l = S!NoLoc
      BY <3>1, NoLocShape
    <3>2. CASE SameTask(r, l)
      BY <3>2, SugGrows DEF SameTask, Tasks, AtRow, Rows, RequestsTyped, Holds
    <3>. QED BY <2>1, <3>1, <3>2
  <2>4. CASE q = r
    BY <2>1, <2>2, <2>3, <2>4 DEF AtRow
  <2>. QED BY <1>1, <2>2, <2>4
<1>3. ASSUME NEW r \in Request2, Starts(r) PROVE AtRow(q)'
  <2>1. ASSUME NEW d \in Workspace2, BeginsOn(r, d), Reads(r, d) PROVE AtRow(q)'
    <3>1. PICK at \in {"diff", "record"}, l \in Holds :
              Goes(r, at, l) /\ l.kind \in OnRow /\ l.d = d /\ l.row.there
      BY <2>1 DEF Reads
    <3>2. /\ pc2'[r] = at /\ loc2'[r] = l
          /\ q # r => pc2'[q] = pc2[q] /\ loc2'[q] = loc2[q]
      BY <3>1, Went DEF Rows
    <3>3. Shape(at, l) /\ sug'[d].there
      BY <2>1, <3>1, SugGrows DEF Shape, BeginsOn
    <3>. QED BY <1>1, <3>1, <3>2, <3>3 DEF AtRow
  <2>2. ASSUME NEW at \in Steps, NEW l \in Holds, Goes(r, at, l), Shape(at, l), l.kind \notin OnRow
        PROVE  AtRow(q)'
    <3>1. /\ pc2'[r] = at /\ loc2'[r] = l
          /\ q # r => pc2'[q] = pc2[q] /\ loc2'[q] = loc2[q]
      BY <2>2, Went DEF Rows
    <3>. QED BY <1>1, <2>2, <3>1 DEF AtRow
  <2>. QED BY <1>3, <2>1, <2>2 DEF Starts
<1>. QED BY <1>1, <1>2, <1>3, TaskSteps

(* Making goes on with the same suggestion or begins with a new workspace. *)
LEMMA StepMaking ==
    ASSUME Rows, Tasks, SnapsKeep, S!Step, NEW r \in Request2, Making(r)'
    PROVE  \/ Making(r) /\ loc2'[r].d = loc2[r].d /\ (pc2'[r] = "new" \/ ws'[loc2[r].d].exists)
           \/ /\ ~ws[loc2'[r].d].exists /\ pc2'[r] = "new"
              /\ \A q \in Request2 : ~(Making(q) /\ loc2[q].d = loc2'[r].d)
              /\ \A q \in Request2 \ {r} : pc2'[q] = pc2[q] /\ loc2'[q] = loc2[q]
<1>. loc2[r].d \in Workspace2
  BY DEF Rows, RequestsTyped, Holds
<1>0. WsStep
  BY WsMoves DEF Rows
<1>1. CASE pc2'[r] = pc2[r] /\ loc2'[r] = loc2[r]
  <2>1. Making(r) /\ (pc2[r] = "new" \/ ws[loc2[r].d].exists)
    BY <1>1 DEF Making, Tasks, MakersOK
  <2>. QED BY <1>0, <1>1, <2>1 DEF WsStep, Rows, RowsTyped
<1>2. ASSUME NEW q \in Request2, RunTo(q), S!Run(q), loc2'[r] # loc2[r] \/ pc2'[r] # pc2[r]
      PROVE  Making(r) /\ loc2'[r].d = loc2[r].d /\ (pc2'[r] = "new" \/ ws'[loc2[r].d].exists)
  <2>1. PICK at \in Steps, l \in Holds :
            Goes(q, at, l) /\ Shape(at, l) /\ ((at = "idle" /\ l = S!NoLoc) \/ SameTask(q, l))
    BY <1>2 DEF RunTo
  <2>2. q = r /\ pc2'[r] = at /\ loc2'[r] = l
    BY <1>2, <2>1, Went DEF Rows
  <2>3. Making(r) /\ l.d = loc2[r].d
    BY <2>1, <2>2, NoLocShape DEF SameTask, Making
  <2>4. CASE ws[loc2[r].d].exists
    BY <1>0, <2>2, <2>3, <2>4 DEF WsStep, Rows, RowsTyped
  <2>5. CASE ~ws[loc2[r].d].exists
    <3>1. pc2[r] = "new"
      BY <2>3, <2>5 DEF Tasks, MakersOK
    <3>2. S!NewWorkspace(r) \/ S!FailRequest(r)
      BY <1>2, <2>2, <3>1 DEF S!Run, S!Take, S!Mark, S!LinkSnapshot, S!Insert,
                              S!ReadDiff, S!ReadDeleted, S!PatchView, S!PatchSnapshot,
                              S!Record, S!RemoveInView
    <3>3. ~S!FailRequest(r)
      <4>1. S!FailRequest(r) => loc2'[r] = S!NoLoc
        BY Ended, Went DEF S!FailRequest, Rows
      <4>. QED BY <4>1, NoLocShape DEF Making
    <3>4. ws'[loc2[r].d].exists
      <4>1. PICK m : m = [ws[loc2[r].d] EXCEPT !.exists = TRUE]
        OBVIOUS
      <4>2. m.exists /\ ws' = [ws EXCEPT ![loc2[r].d] = m]
        BY <3>2, <3>3, <4>1 DEF S!NewWorkspace, Rows, RowsTyped, WsTypes
      <4>. QED BY <4>2 DEF Rows, RowsTyped
    <3>. QED BY <2>2, <2>3, <3>4
  <2>. QED BY <2>4, <2>5
<1>3. ASSUME NEW q \in Request2, Starts(q), loc2'[r] # loc2[r] \/ pc2'[r] # pc2[r]
      PROVE  /\ ~ws[loc2'[r].d].exists /\ pc2'[r] = "new"
             /\ \A p \in Request2 : ~(Making(p) /\ loc2[p].d = loc2'[r].d)
             /\ \A p \in Request2 \ {r} : pc2'[p] = pc2[p] /\ loc2'[p] = loc2[p]
  <2>1. ASSUME NEW d \in Workspace2, Reads(q, d) PROVE FALSE
    <3>1. PICK at, l : Goes(q, at, l) /\ l.kind \in OnRow
      BY <2>1 DEF Reads
    <3>2. r = q /\ loc2'[r] = l
      BY <1>3, <3>1, Went DEF Rows
    <3>. QED BY <3>1, <3>2 DEF Making, OnRow
  <2>2. PICK at \in Steps, l \in Holds :
            /\ Goes(q, at, l)
            /\ l.kind = "suggest" => /\ ~ws[l.d].exists /\ at = "new"
                                     /\ \A p \in Request2 : ~(Making(p) /\ loc2[p].d = l.d)
    BY <1>3, <2>1 DEF Starts
  <2>3. r = q /\ loc2'[r] = l /\ pc2'[r] = at
        /\ \A p \in Request2 \ {r} : pc2'[p] = pc2[p] /\ loc2'[p] = loc2[p]
    BY <1>3, <2>2, Went DEF Rows
  <2>. QED BY <2>2, <2>3 DEF Making
<1>. QED BY <1>1, <1>2, <1>3, TaskSteps

LEMMA StepMakersOK ==
    ASSUME Rows, Tasks, SnapsKeep, S!Step
    PROVE  MakersOK'
<1>1. ASSUME NEW r \in Request2, Making(r)'
      PROVE  ~sug'[loc2'[r].d].there /\ (pc2'[r] # "new" => ws'[loc2'[r].d].exists)
  <2>. loc2[r].d \in Workspace2
    BY DEF Rows, RequestsTyped, Holds
  <2>1. CASE Making(r) /\ loc2'[r].d = loc2[r].d /\ (pc2'[r] = "new" \/ ws'[loc2[r].d].exists)
    <3>1. ~sug[loc2[r].d].there
      BY <2>1 DEF Tasks, MakersOK
    <3>2. ASSUME NEW q \in Request2, S!Insert(q), loc2[q].d = loc2[r].d PROVE FALSE
      <4>1. Making(q)
        BY <3>2 DEF S!Insert, Tasks, AtRow, Shape, Making
      <4>2. q = r
        BY <2>1, <3>2, <4>1 DEF Tasks, MakersOK
      <4>3. loc2'[r] = S!NoLoc
        BY <3>2, <4>2, InsertedExists, Went DEF Rows
      <4>. QED BY <1>1, <4>3, NoLocShape DEF Making
    <3>. QED BY <2>1, <3>1, <3>2, SugGrows
  <2>2. CASE ~ws[loc2'[r].d].exists /\ pc2'[r] = "new"
             /\ \A q \in Request2 : ~(Making(q) /\ loc2[q].d = loc2'[r].d)
    <3>1. PICK d : d = loc2'[r].d
      OBVIOUS
    <3>2. d \in Workspace2
      <4>1. \/ UNCHANGED <<pc2, loc2>>
            \/ \E q \in Request2, at \in Steps, l \in Holds : Goes(q, at, l)
        BY TaskSteps DEF RunTo, Starts, Reads, Steps
      <4>2. RequestsTyped'
        BY <4>1, Went DEF Rows, RequestsTyped
      <4>. QED BY <3>1, <4>2 DEF RequestsTyped, Holds
    <3>3. ~sug[d].there
      BY <2>2, <3>1, <3>2 DEF Tasks, MakersOK
    <3>4. ASSUME NEW q \in Request2, S!Insert(q), loc2[q].d = d PROVE FALSE
      BY <2>2, <3>1, <3>4 DEF S!Insert, Tasks, AtRow, Shape, Making
    <3>. QED BY <2>2, <3>1, <3>2, <3>3, <3>4, SugGrows
  <2>. QED BY <1>1, <2>1, <2>2, StepMaking
<1>2. ASSUME NEW q \in Request2, NEW r \in Request2, Making(q)', Making(r)', loc2'[q].d = loc2'[r].d
      PROVE  q = r
  <2>1. CASE Making(q) /\ loc2'[q].d = loc2[q].d /\ Making(r) /\ loc2'[r].d = loc2[r].d
    BY <1>2, <2>1 DEF Tasks, MakersOK
  <2>2. ASSUME NEW a \in Request2, NEW b \in Request2, Making(a)', Making(b)', a # b,
               loc2'[a].d = loc2'[b].d,
               \A p \in Request2 : ~(Making(p) /\ loc2[p].d = loc2'[a].d),
               \A p \in Request2 \ {a} : pc2'[p] = pc2[p] /\ loc2'[p] = loc2[p]
        PROVE  FALSE
    BY <2>2 DEF Making
  <2>. QED BY <1>2, <2>1, <2>2, StepMaking
<1>. QED BY <1>1, <1>2, StepThere DEF MakersOK

LEMMA StepTasks ==
    ASSUME Rows, Tasks, SnapsKeep, S!Step
    PROVE  Tasks'
BY StepMakersOK, StepAtRow DEF Tasks

-----------------------------------------------------------------------------
(* The marks of a suggestion that nobody disturbs.                         *)

LEMMA DisturbedGrows ==
    ASSUME Rows, S!Step
    PROVE  disturbed \subseteq disturbed'
<1>1. ASSUME NEW r \in Request2, S!StartRequest(r) PROVE disturbed \subseteq disturbed'
  BY <1>1, StartsBegin DEF Starts, BeginsOn, Rows
<1>2. ASSUME NEW r \in Request2, S!Run(r) PROVE disturbed \subseteq disturbed'
  BY <1>2 DEF S!Run, S!Take, S!Mark, S!NewWorkspace, S!LinkSnapshot, S!Insert,
              S!ReadDiff, S!ReadDeleted, S!PatchView, S!PatchSnapshot, S!Record,
              S!RemoveInView, S!FailRequest, S!Shifted, S!history
<1>3. S!UserStep => disturbed \subseteq disturbed'
  BY DEF S!UserStep, S!Open, S!Unarchive, S!Leave, S!SetSnapshot, S!Edits, S!Shifted,
         S!history
<1>4. S!Age => disturbed' = disturbed
  BY DEF S!Age, S!history
<1>5. ASSUME NEW c \in Collector, S!GCStep(c) PROVE disturbed' = disturbed
  BY <1>5 DEF S!GCStep, S!StartGC, S!EndGC, S!SkipBranches, S!DeleteTrunkBranch,
              S!DeleteViewBranch, S!FailBranch, S!DeleteRow, S!Die, S!Keep, S!Condemn,
              S!history
<1>. QED BY <1>1, <1>2, <1>3, <1>4, <1>5 DEF S!Step

LEMMA WorkKept ==
    ASSUME RowsTyped, SnapsKeep, NEW i \in Named
    PROVE  S!Work(i)' = S!Work(i)
BY IdsAre DEF SnapsKeep, Named, S!Work

LEMMA ShiftedIs ==
    ASSUME NEW w \in Workspace2, NEW work, sug[w].there, w \notin S!Shifted(w, work)
    PROVE  work = S!Work(ws[w].latest)
BY DEF S!Shifted

(* What the latest snapshot of an undisturbed suggestion contains stays.   *)
LEMMA LatestKept ==
    ASSUME Rows, Tasks, SnapsKeep, S!Step, NEW d \in Workspace2, sug[d].there, d \notin disturbed'
    PROVE  S!Work(ws[d].latest)' = S!Work(ws[d].latest)
<1>. /\ ws[d] \in WsTypes /\ ws[d].latest \in Named /\ ws \in [Workspace2 -> WsTypes]
  BY DEF Rows, RowsTyped, NamesOK
<1>0. ASSUME ws'[d].latest = ws[d].latest PROVE S!Work(ws[d].latest)' = S!Work(ws[d].latest)
  <2>1. PICK i \in Named : i = ws[d].latest
    OBVIOUS
  <2>. QED BY <1>0, <2>1, WorkKept DEF Rows
<1>00. ASSUME NEW i \in Named, NEW w \in Workspace2, ws' = [ws EXCEPT ![w].latest = i],
              disturbed' = S!Shifted(w, S!Work(i))
       PROVE  S!Work(ws[d].latest)' = S!Work(ws[d].latest)
  <2>1. CASE w = d
    <3>1. S!Work(i) = S!Work(ws[d].latest)
      BY <1>00, <2>1, ShiftedIs
    <3>2. ws'[d].latest = i
      BY <1>00, <2>1 DEF WsTypes
    <3>3. S!Work(ws[d].latest)' = S!Work(i)'
      BY <3>2
    <3>. QED BY <3>1, <3>3, WorkKept DEF Rows
  <2>2. CASE w # d
    BY <1>00, <2>2, <1>0
  <2>. QED BY <2>1, <2>2
<1>1. ASSUME NEW r \in Request2, S!Run(r) PROVE S!Work(ws[d].latest)' = S!Work(ws[d].latest)
  <2>. loc2[r].w \in Workspace2 /\ loc2[r].d \in Workspace2 /\ loc2[r].id \in Named
    BY DEF Rows, RequestsTyped, Holds, NamesOK
  <2>1. CASE S!Mark(r)
    <3>1. PICK i, w : i = loc2[r].id /\ w = loc2[r].w
      OBVIOUS
    <3>. QED BY <2>1, <3>1, <1>00 DEF S!Mark
  <2>2. CASE S!NewWorkspace(r)
    <3>1. ws' = [ws EXCEPT ![loc2[r].d].exists = TRUE]
      BY <2>2 DEF S!NewWorkspace
    <3>2. ws'[d].latest = ws[d].latest
      BY <3>1 DEF WsTypes
    <3>. QED BY <3>2, <1>0
  <2>3. CASE S!LinkSnapshot(r)
    <3>1. loc2[r].d # d
      BY <2>3 DEF S!LinkSnapshot, Tasks, AtRow, Shape, MakersOK, Making
    <3>2. ws'[d] = ws[d]
      BY <2>3, <3>1 DEF S!LinkSnapshot
    <3>. QED BY <3>2, <1>0
  <2>4. ~S!Mark(r) /\ ~S!NewWorkspace(r) /\ ~S!LinkSnapshot(r) => ws' = ws
    BY <1>1 DEF S!Run, S!Take, S!Insert, S!ReadDiff, S!ReadDeleted, S!PatchView,
                S!PatchSnapshot, S!Record, S!RemoveInView, S!FailRequest, S!stores
  <2>. QED BY <2>1, <2>2, <2>3, <2>4, <1>0
<1>2. CASE S!UserStep
  <2>1. ASSUME NEW w \in Workspace2, S!Open(w) PROVE S!Work(ws[d].latest)' = S!Work(ws[d].latest)
    <3>1. ws' = [ws EXCEPT ![w].open = TRUE]
      BY <2>1 DEF S!Open
    <3>2. ws'[d].latest = ws[d].latest
      BY <3>1 DEF WsTypes
    <3>. QED BY <3>2, <1>0
  <2>2. ASSUME NEW w \in Workspace2, S!Unarchive(w) PROVE S!Work(ws[d].latest)' = S!Work(ws[d].latest)
    <3>1. ws' = [ws EXCEPT ![w].archived = FALSE]
      BY <2>2 DEF S!Unarchive
    <3>2. ws'[d].latest = ws[d].latest
      BY <3>1 DEF WsTypes
    <3>. QED BY <3>2, <1>0
  <2>3. ASSUME NEW w \in Workspace2, NEW i \in S!Ids, S!SetSnapshot(w, i)
        PROVE  S!Work(ws[d].latest)' = S!Work(ws[d].latest)
    BY <2>3, <1>00 DEF S!SetSnapshot, Named
  <2>4. ASSUME NEW w \in Workspace2, NEW a \in BOOLEAN, S!Leave(w, a)
        PROVE  S!Work(ws[d].latest)' = S!Work(ws[d].latest)
    <3>1. PICK m \in WsTypes :
              /\ ws' = [ws EXCEPT ![w] = m] /\ m.latest \in Named'
              /\ m.latest = ws[w].latest
                 \/ (m.latest # 0 /\ snaps2'[m.latest].work = disk2[w] /\ ws[w].open)
      BY <2>4, LeaveSaves DEF Rows
    <3>2. CASE w # d \/ m.latest = ws[w].latest
      <4>1. ws'[d].latest = ws[d].latest
        BY <3>1, <3>2
      <4>. QED BY <4>1, <1>0
    <3>3. CASE w = d /\ m.latest # ws[w].latest
      <4>1. disturbed' = S!Shifted(d, disk2[d])
        BY <2>4, <3>1, <3>3 DEF S!Leave
      <4>2. disk2[d] = S!Work(ws[d].latest)
        BY <4>1, ShiftedIs
      <4>3. S!Work(ws[d].latest)' = disk2[d]
        BY <3>1, <3>3 DEF S!Work
      <4>. QED BY <4>2, <4>3
    <3>. QED BY <3>2, <3>3
  <2>5. ASSUME NEW w \in Workspace2, NEW e \in Edit2, S!Edits(w, e) PROVE ws' = ws
    BY <2>5 DEF S!Edits
  <2>. QED BY <1>2, <2>1, <2>2, <2>3, <2>4, <2>5, <1>0 DEF S!UserStep
<1>3. ASSUME NEW r \in Request2, S!StartRequest(r) PROVE ws' = ws
  BY <1>3, StartsBegin DEF Starts, Rows
<1>4. ASSUME NEW c \in Collector, S!GCStep(c) PROVE ws' = ws
  BY <1>4 DEF S!GCStep, S!StartGC, S!EndGC, S!SkipBranches, S!DeleteTrunkBranch,
              S!DeleteViewBranch, S!FailBranch, S!DeleteRow, S!Die, S!Keep, S!Condemn,
              S!stores
<1>5. S!Age => ws' = ws
  BY DEF S!Age
<1>. QED BY <1>0, <1>1, <1>2, <1>3, <1>4, <1>5 DEF S!Step

LEMMA DiffKept ==
    ASSUME Rows, Tasks, SnapsKeep, S!Step, NEW d \in Workspace2, sug[d].there, d \notin disturbed',
           sug'[d].base = sug[d].base
    PROVE  S!Diff(d)' = S!Diff(d)
<1>1. S!Work(ws[d].latest)' = S!Work(ws[d].latest)
  BY LatestKept
<1>2. PICK b \in Named : b = sug[d].base
  BY DEF Rows, NamesOK
<1>3. S!Work(sug[d].base)' = S!Work(sug[d].base)
  BY <1>2, WorkKept DEF Rows
<1>. QED BY <1>1, <1>3 DEF S!Diff

LEMMA ToldKept ==
    ASSUME NEW d, NEW P, S!Diff(d)' = S!Diff(d), done'[d] = done[d]
    PROVE  Told(d, P)' <=> Told(d, P)
BY DEF Told, S!Marked

(* More positions are more hunks.                                          *)
LEMMA MarkedMore ==
    ASSUME Rows, NEW d \in Workspace2, NEW P, NEW hunks \in SUBSET S!Diff(d)
    PROVE  S!Marked(d, P \union {S!Position(h, S!Diff(d)) : h \in hunks}) = S!Marked(d, P) \union hunks
<1>1. S!Diff(d) \in SUBSET Nat
  BY DiffIs DEF Rows
<1>2. \A h, k \in S!Diff(d) : S!Position(h, S!Diff(d)) = S!Position(k, S!Diff(d)) => h = k
  BY <1>1, OnePosition
<1>. QED BY <1>2 DEF S!Marked

LEMMA NobodyTold ==
    ASSUME NEW d
    PROVE  S!Marked(d, {}) = {}
BY DEF S!Marked

LEMMA CarefulFrame ==
    ASSUME NEW d \in Workspace2, Careful(d), sug'[d] = sug[d], done'[d] = done[d],
           S!Diff(d)' = S!Diff(d),
           \A q \in Request2 : HasRow(q, d)' <=> HasRow(q, d),
           \A q \in Request2 : HasRow(q, d) => pc2'[q] = pc2[q] /\ loc2'[q] = loc2[q]
    PROVE  Careful(d)'
<1>1. \A P : Told(d, P)' <=> Told(d, P)
  BY ToldKept
<1>2. ASSUME NEW q \in Request2, HasRow(q, d)' PROVE Pending(q, d)'
  <2>1. Pending(q, d) /\ pc2'[q] = pc2[q] /\ loc2'[q] = loc2[q]
    BY <1>2 DEF Careful
  <2>2. PICK l : l = loc2[q]
    OBVIOUS
  <2>3. Told(d, l.row.applied)' <=> Told(d, l.row.applied)
    BY <1>1
  <2>4. Told(d, sug[d].applied)' <=> Told(d, sug[d].applied)
    <3>1. PICK P : P = sug[d].applied
      OBVIOUS
    <3>. QED BY <1>1, <3>1
  <2>5. Told(d, loc2[q].row.applied)' <=> Told(d, loc2[q].row.applied)
    BY <2>1, <2>2, <2>3
  <2>. QED BY <2>1, <2>4, <2>5 DEF Pending
<1>3. Told(d, sug[d].applied)' <=> Told(d, sug[d].applied)
  <2>1. PICK P : P = sug[d].applied
    OBVIOUS
  <2>. QED BY <1>1, <2>1
<1>. QED BY <1>2, <1>3 DEF Careful

(* The request that has the row: alone, it holds what it has to.           *)
AloneOn(r, d) ==
    /\ HasRow(r, d) /\ Pending(r, d)
    /\ \A q \in Request2 : HasRow(q, d) => q = r

LEMMA NowAlone ==
    ASSUME Rows, NEW r \in Request2, NEW d \in Workspace2, AloneOn(r, d),
           NEW at, NEW l, Goes(r, at, l), l.d = d, l.kind \in OnRow, Pending(r, d)'
    PROVE  Careful(d)'
<1>1. \A q \in Request2 \ {r} : ~HasRow(q, d)'
  BY Went DEF Rows, AloneOn, HasRow
<1>2. HasRow(r, d)'
  BY Went DEF Rows, HasRow
<1>3. \A q \in Request2 : HasRow(q, d)' => q = r
  BY <1>1
<1>. QED BY <1>2, <1>3 DEF Careful

LEMMA NowFree ==
    ASSUME Rows, NEW r \in Request2, NEW d \in Workspace2, AloneOn(r, d),
           Goes(r, "idle", S!NoLoc), Told(d, sug[d].applied)'
    PROVE  Careful(d)'
<1>1. \A q \in Request2 : ~HasRow(q, d)'
  BY Went, NoLocShape DEF Rows, AloneOn, HasRow
<1>. QED BY <1>1 DEF Careful

LEMMA CarefulRun ==
    ASSUME Rows, Tasks, SnapsKeep, S!Step, NEW r \in Request2, S!Run(r), NEW d \in Workspace2,
           sug[d].there, d \notin disturbed', AloneOn(r, d)
    PROVE  Careful(d)'
<1>. DEFINE D == S!Diff(d)  hunks == loc2[r].adds \union loc2[r].dels
<1>. /\ loc2[r] \in Holds /\ loc2[r].d = d /\ Pending(r, d) /\ loc2[r].kind \in OnRow
     /\ loc2[r].row \in SugTypes /\ Shape(pc2[r], loc2[r])
  BY DEF Rows, RequestsTyped, Holds, AloneOn, HasRow, Tasks, AtRow
<1>0. ASSUME sug'[d].base = sug[d].base PROVE S!Diff(d)' = D
  BY <1>0, DiffKept
<1>1. CASE S!ReadDiff(r)
  <2>1. PICK at \in {"patch", "record"}, l \in Holds :
            LET read == D \intersect loc2[r].adds IN
            /\ Goes(r, at, l) /\ SameTask(r, l) /\ (at = "patch" <=> l.kind = "apply")
            /\ l.adds \union l.dels = read
            /\ l.row.base = loc2[r].row.base
            /\ l.row.applied = IF l.kind = "apply"
                               THEN loc2[r].row.applied \union {S!Position(h, D) : h \in read}
                               ELSE loc2[r].row.applied
    BY <1>1, DiffRead DEF Rows
  <2>2. sug' = sug /\ done' = done /\ pc2[r] = "diff"
    BY <1>1 DEF S!ReadDiff, S!stores, S!history
  <2>3. S!Diff(d)' = D /\ Told(d, sug[d].applied) /\ loc2[r].row = sug[d]
    BY <1>0, <2>2 DEF Pending
  <2>4. Told(d, sug[d].applied)'
    <3>1. PICK P : P = sug[d].applied
      OBVIOUS
    <3>. QED BY <2>2, <2>3, <3>1, ToldKept
  <2>5. pc2'[r] = at /\ loc2'[r] = l
    BY <2>1, Went DEF Rows
  <2>6. Pending(r, d)'
    BY <2>1, <2>2, <2>3, <2>4, <2>5 DEF Pending
  <2>. QED BY <2>1, <2>6, NowAlone DEF SameTask
<1>2. CASE S!PatchView(r) \/ S!PatchSnapshot(r)
  <2>1. /\ sug' = sug /\ pc2[r] = "patch" /\ S!Diff(d)' = D
        /\ hunks \subseteq D /\ Told(d, sug[d].applied) /\ loc2[r].row.base = sug[d].base
        /\ loc2[r].row.applied = sug[d].applied \union {S!Position(h, D) : h \in hunks}
    BY <1>0, <1>2 DEF S!PatchView, S!PatchSnapshot, Pending
  <2>2. S!Marked(d, loc2[r].row.applied) = done[d] \union hunks
    <3>1. PICK P, H : P = sug[d].applied /\ H = hunks
      OBVIOUS
    <3>2. H \in SUBSET S!Diff(d)
      BY <2>1, <3>1
    <3>3. S!Marked(d, P \union {S!Position(h, S!Diff(d)) : h \in H}) = S!Marked(d, P) \union H
      BY <3>2, MarkedMore DEF Rows
    <3>. QED BY <2>1, <3>1, <3>3 DEF Told
  <2>3. ASSUME done'[d] = done[d] \union hunks,
               NEW at \in {"record", "mark"}, NEW l, Goes(r, at, l), l.d = d,
               l.kind \in OnRow, l.row = loc2[r].row
        PROVE  Careful(d)'
    <3>1. PICK P : P = l.row.applied
      OBVIOUS
    <3>2. S!Marked(d, P)' = S!Marked(d, P)
      BY <2>1 DEF S!Marked
    <3>3. pc2'[r] = at /\ loc2'[r] = l
      BY <2>3, Went DEF Rows
    <3>4. Told(d, loc2[r].row.applied)'
      BY <2>2, <2>3, <3>1, <3>2, <3>3 DEF Told
    <3>5. Pending(r, d)'
      BY <2>1, <2>3, <3>3, <3>4 DEF Pending
    <3>. QED BY <2>3, <3>5, NowAlone
  <2>4. CASE S!PatchView(r)
    <3>0. Original \in Workspace2 /\ disk2[Original] \in SUBSET Edit2
      BY SuggestionsAssumption DEF Rows, RowsTyped
    <3>1. S!Blocked(loc2[r], disk2[Original]) = {}
      BY <2>4 DEF S!PatchView
    <3>2. /\ Goes(r, "record", loc2[r])
          /\ done' = [done EXCEPT ![d] = @ \union S!Fitting(loc2[r], disk2[Original])]
      BY <2>4, <3>1, Stayed DEF S!PatchView, Rows
    <3>3. S!Fitting(loc2[r], disk2[Original]) = hunks
      BY <3>0, <3>1, PatchedIs
    <3>4. done'[d] = done[d] \union hunks
      BY <3>2, <3>3 DEF Rows, RowsTyped
    <3>. QED BY <2>3, <3>2, <3>4
  <2>5. CASE S!PatchSnapshot(r)
    <3>1. CASE Goes(r, "idle", S!NoLoc) /\ done' = done
      <4>1. PICK P : P = sug[d].applied
        OBVIOUS
      <4>2. Told(d, sug[d].applied)'
        BY <2>1, <3>1, <4>1, ToldKept
      <4>. QED BY <3>1, <4>2, NowFree
    <3>2. ASSUME NEW l \in Holds, Goes(r, "mark", l), SameTask(r, l), l.row = loc2[r].row,
                 done' = [done EXCEPT ![d] = @ \union loc2[r].adds \union loc2[r].dels]
          PROVE  Careful(d)'
      <4>1. done'[d] = done[d] \union hunks
        BY <3>2 DEF Rows, RowsTyped
      <4>. QED BY <2>3, <3>2, <4>1 DEF SameTask
    <3>. QED BY <2>5, <3>1, <3>2, SnapshotPatched DEF Rows
  <2>. QED BY <1>2, <2>4, <2>5
<1>3. CASE S!Mark(r)
  <2>1. loc2[r].kind = "apply" /\ pc2[r] = "mark"
    BY <1>3 DEF S!Mark, Shape, OnRow
  <2>2. Goes(r, "record", loc2[r]) /\ sug' = sug /\ done' = done
    BY <1>3, <2>1, Stayed DEF S!Mark, Rows
  <2>3. Told(d, loc2[r].row.applied) /\ loc2[r].row.base = sug[d].base /\ S!Diff(d)' = D
    BY <1>0, <2>1, <2>2 DEF Pending
  <2>4. PICK P : P = loc2[r].row.applied
    OBVIOUS
  <2>5. Told(d, P)'
    BY <2>2, <2>3, <2>4, ToldKept
  <2>6. pc2'[r] = "record" /\ loc2'[r] = loc2[r]
    BY <2>2, Went DEF Rows
  <2>7. Told(d, loc2[r].row.applied)'
    BY <2>4, <2>5, <2>6
  <2>8. Pending(r, d)'
    BY <2>2, <2>3, <2>6, <2>7 DEF Pending
  <2>. QED BY <2>2, <2>8, NowAlone
<1>4. CASE S!Record(r)
  <2>1. /\ Goes(r, "idle", S!NoLoc) /\ sug' = [sug EXCEPT ![d] = loc2[r].row] /\ done' = done
        /\ pc2[r] = "record"
    BY <1>4, Ended DEF S!Record, S!history
  <2>2. sug'[d] = loc2[r].row
    BY <2>1 DEF Rows, RowsTyped
  <2>3. Told(d, loc2[r].row.applied) /\ loc2[r].row.base = sug[d].base /\ S!Diff(d)' = D
    BY <1>0, <2>1, <2>2 DEF Pending
  <2>4. PICK P : P = loc2[r].row.applied
    OBVIOUS
  <2>5. Told(d, P)'
    BY <2>1, <2>3, <2>4, ToldKept
  <2>6. Told(d, sug[d].applied)'
    BY <2>2, <2>4, <2>5
  <2>. QED BY <2>1, <2>6, NowFree
<1>5. CASE S!ReadDeleted(r)
  <2>1. /\ Goes(r, "idle", S!NoLoc) /\ sug' = sug /\ done' = done /\ pc2[r] = "diff"
    BY <1>5, Ended DEF S!ReadDeleted, S!stores, S!history
  <2>2. Told(d, sug[d].applied) /\ S!Diff(d)' = D
    BY <1>0, <2>1 DEF Pending
  <2>3. PICK P : P = sug[d].applied
    OBVIOUS
  <2>4. Told(d, sug[d].applied)'
    BY <2>1, <2>2, <2>3, ToldKept
  <2>. QED BY <2>1, <2>4, NowFree
<1>6. ~S!FailRequest(r)
  BY DEF S!FailRequest, S!OnSuggestion, OnRow
<1>7. /\ ~S!Take(r) /\ ~S!NewWorkspace(r) /\ ~S!LinkSnapshot(r) /\ ~S!Insert(r) /\ ~S!RemoveInView(r)
  BY DEF S!Take, S!NewWorkspace, S!LinkSnapshot, S!Insert, S!RemoveInView, Shape, OnRow
<1>. QED BY <1>1, <1>2, <1>3, <1>4, <1>5, <1>6, <1>7 DEF S!Run

(* A request that has not the row leaves it alone.                         *)
LEMMA CarefulAside ==
    ASSUME Rows, Tasks, SnapsKeep, S!Step, NEW r \in Request2, S!Run(r), NEW d \in Workspace2,
           sug[d].there, d \notin disturbed', Careful(d), ~HasRow(r, d)
    PROVE  Careful(d)'
<1>1. sug'[d] = sug[d]
  <2>1. CASE S!Record(r)
    <3>1. loc2[r].d # d
      BY <2>1 DEF S!Record, Tasks, AtRow, Shape, HasRow
    <3>. QED BY <2>1, <3>1 DEF S!Record, Rows, RowsTyped
  <2>2. CASE S!Insert(r)
    BY <2>2, InsertedExists
  <2>3. ~S!Record(r) /\ ~S!Insert(r) => sug' = sug
    BY DEF S!Run, S!Take, S!Mark, S!NewWorkspace, S!LinkSnapshot, S!ReadDiff,
           S!ReadDeleted, S!PatchView, S!PatchSnapshot, S!RemoveInView, S!FailRequest,
           S!stores
  <2>. QED BY <2>1, <2>2, <2>3
<1>2. done'[d] = done[d]
  <2>1. CASE S!PatchView(r) \/ S!PatchSnapshot(r)
    <3>1. loc2[r].d # d
      BY <2>1 DEF S!PatchView, S!PatchSnapshot, Tasks, AtRow, Shape, HasRow
    <3>2. done' = done \/ \E x : done' = [done EXCEPT ![loc2[r].d] = x]
      BY <2>1 DEF S!PatchView, S!PatchSnapshot
    <3>. QED BY <3>1, <3>2 DEF Rows, RowsTyped
  <2>2. ~S!PatchView(r) /\ ~S!PatchSnapshot(r) => done' = done
    BY DEF S!Run, S!Take, S!Mark, S!NewWorkspace, S!LinkSnapshot, S!Insert, S!ReadDiff,
           S!ReadDeleted, S!Record, S!RemoveInView, S!FailRequest, S!history
  <2>. QED BY <2>1, <2>2
<1>3. S!Diff(d)' = S!Diff(d)
  BY <1>1, DiffKept
<1>4. PICK at, l : Goes(r, at, l) /\ ((at = "idle" /\ l = S!NoLoc) \/ SameTask(r, l))
  BY Runs DEF Rows, Tasks, AtRow, RunTo
<1>5. /\ loc2'[r] = l /\ \A q \in Request2 \ {r} : pc2'[q] = pc2[q] /\ loc2'[q] = loc2[q]
  BY <1>4, Went DEF Rows
<1>6. ~HasRow(r, d)'
  BY <1>4, <1>5, NoLocShape DEF HasRow, SameTask
<1>7. \A q \in Request2 : HasRow(q, d)' <=> HasRow(q, d)
  BY <1>5, <1>6 DEF HasRow
<1>. QED BY <1>1, <1>2, <1>3, <1>5, <1>7, CarefulFrame

LEMMA CarefulStart ==
    ASSUME Rows, Tasks, SnapsKeep, S!Step, NEW r \in Request2, Starts(r), NEW d \in Workspace2,
           sug[d].there, d \notin disturbed', Careful(d)
    PROVE  Careful(d)'
<1>1. UNCHANGED <<ws, snaps2, sug, done>> /\ S!Diff(d)' = S!Diff(d) /\ pc2[r] = "idle"
  BY DiffKept DEF Starts
<1>2. ~HasRow(r, d)
  BY <1>1, NoLocShape DEF Tasks, AtRow, Shape, HasRow
<1>3. ASSUME BeginsOn(r, d), Reads(r, d) PROVE Careful(d)'
  <2>1. PICK at \in {"diff", "record"}, l \in Holds :
            /\ Goes(r, at, l) /\ l.kind \in OnRow /\ l.d = d
            /\ l.row.base = sug[d].base /\ l.row.applied = sug[d].applied
            /\ at = "diff" => l.row = sug[d]
    BY <1>3 DEF Reads
  <2>2. pc2'[r] = at /\ loc2'[r] = l /\ \A q \in Request2 \ {r} : loc2'[q] = loc2[q]
    BY <2>1, Went DEF Rows
  <2>3. \A q \in Request2 : ~HasRow(q, d)
    BY <1>3 DEF BeginsOn
  <2>4. \A q \in Request2 \ {r} : ~HasRow(q, d)'
    BY <2>2, <2>3 DEF HasRow
  <2>5. Told(d, sug[d].applied)
    BY <2>3 DEF Careful
  <2>6. PICK P : P = sug[d].applied
    OBVIOUS
  <2>7. Told(d, P)'
    BY <1>1, <2>5, <2>6, ToldKept
  <2>8. Told(d, sug[d].applied)' /\ Told(d, loc2[r].row.applied)'
    BY <1>1, <2>1, <2>2, <2>6, <2>7
  <2>9. Pending(r, d)'
    BY <1>1, <2>1, <2>2, <2>8 DEF Pending
  <2>. QED BY <2>4, <2>8, <2>9 DEF Careful
<1>4. ASSUME NEW at, NEW l, Goes(r, at, l), l.kind \notin OnRow \/ l.d # d PROVE Careful(d)'
  <2>1. /\ loc2'[r] = l /\ \A q \in Request2 \ {r} : pc2'[q] = pc2[q] /\ loc2'[q] = loc2[q]
    BY <1>4, Went DEF Rows
  <2>2. \A q \in Request2 : HasRow(q, d)' <=> HasRow(q, d)
    BY <1>2, <1>4, <2>1 DEF HasRow
  <2>. QED BY <1>1, <1>2, <2>1, <2>2, CarefulFrame
<1>. QED BY <1>3, <1>4 DEF Starts, Reads

LEMMA StepCareful ==
    ASSUME Rows, Tasks, SnapsKeep, S!Step, NEW d \in Workspace2, d \notin disturbed',
           sug[d].there => Careful(d), sug'[d].there
    PROVE  Careful(d)'
<1>1. CASE ~sug[d].there
  <2>1. PICK r \in Request2 : S!Insert(r) /\ loc2[r].d = d
    BY <1>1, SugGrows
  <2>2. Goes(r, "idle", S!NoLoc) /\ sug'[d].applied = {}
    BY <2>1, InsertedExists
  <2>3. done'[d] = {}
    BY <1>1, <2>1 DEF S!Insert, S!history, Tasks, MakersOK
  <2>4. \A q \in Request2 : ~HasRow(q, d)
    BY <1>1 DEF Tasks, AtRow, HasRow
  <2>5. \A q \in Request2 : ~HasRow(q, d)'
    BY <2>2, <2>4, Went, NoLocShape DEF Rows, HasRow
  <2>6. S!Marked(d, {})' = {}
    BY DEF S!Marked
  <2>7. Told(d, sug[d].applied)'
    BY <2>2, <2>3, <2>6 DEF Told
  <2>. QED BY <2>5, <2>7 DEF Careful
<1>2. CASE sug[d].there
  <2>1. ASSUME NEW r \in Request2, S!Run(r), HasRow(r, d) PROVE Careful(d)'
    <3>1. AloneOn(r, d)
      BY <1>2, <2>1 DEF Careful, AloneOn
    <3>. QED BY <1>2, <2>1, <3>1, CarefulRun
  <2>2. ASSUME NEW r \in Request2, S!Run(r), ~HasRow(r, d) PROVE Careful(d)'
    BY <1>2, <2>2, CarefulAside
  <2>3. ASSUME NEW r \in Request2, S!StartRequest(r) PROVE Careful(d)'
    BY <1>2, <2>3, StartsBegin, CarefulStart DEF Rows
  <2>4. CASE S!UserStep \/ S!Age \/ \E c \in Collector : S!GCStep(c)
    <3>1. UNCHANGED <<pc2, loc2>>
      BY <2>4, OthersAside
    <3>2. UNCHANGED <<sug, done>>
      BY <2>4 DEF S!UserStep, S!Open, S!Unarchive, S!Leave, S!SetSnapshot, S!Edits,
                  S!Age, S!GCStep, S!StartGC, S!EndGC, S!SkipBranches,
                  S!DeleteTrunkBranch, S!DeleteViewBranch, S!FailBranch, S!DeleteRow,
                  S!Die, S!Keep, S!Condemn, S!stores, S!history
    <3>3. S!Diff(d)' = S!Diff(d)
      BY <1>2, <3>2, DiffKept
    <3>. QED BY <1>2, <3>1, <3>2, <3>3, CarefulFrame DEF HasRow
  <2>. QED BY <2>1, <2>2, <2>3, <2>4 DEF S!Step
<1>. QED BY <1>1, <1>2

LEMMA StepMarksOK ==
    ASSUME KeptOK, MarksOK, [S!Next]_S!vars
    PROVE  MarksOK'
<1>1. CASE S!Next
  <2>1. S!Step /\ Rows /\ Tasks
    BY <1>1 DEF S!Next, KeptOK, MarksOK, Rows, Tasks
  <2>2. SnapsKeep
    BY <2>1, SnapsMove, SnapsAreKept DEF KeptOK
  <2>3. Tasks'
    BY <2>1, <2>2, StepTasks
  <2>4. ASSUME NEW d \in Workspace2, d \notin disturbed', sug'[d].there PROVE Careful(d)'
    <3>1. d \notin disturbed
      BY <2>1, <2>4, DisturbedGrows
    <3>. QED BY <2>1, <2>2, <2>4, <3>1, StepCareful DEF MarksOK
  <2>. QED BY <2>3, <2>4 DEF MarksOK, Tasks
<1>2. CASE UNCHANGED S!vars
  <2>0. UNCHANGED <<ws, snaps2, sug, pc2, loc2, done, disturbed>>
    BY <1>2 DEF S!vars
  <2>1. MakersOK'
    BY <2>0 DEF MarksOK, MakersOK, Making
  <2>2. \A r \in Request2 : AtRow(r)'
    BY <2>0 DEF MarksOK, AtRow
  <2>3. ASSUME NEW d \in Workspace2 \ disturbed, sug[d].there PROVE Careful(d)'
    <3>1. S!Diff(d)' = S!Diff(d)
      BY <2>0 DEF S!Diff, S!Work
    <3>2. Careful(d) /\ \A r \in Request2 : HasRow(r, d)' <=> HasRow(r, d)
      BY <2>0, <2>3 DEF MarksOK, HasRow
    <3>. QED BY <2>0, <3>1, <3>2, CarefulFrame
  <2>. QED BY <2>0, <2>1, <2>2, <2>3 DEF MarksOK
<1>. QED BY <1>1, <1>2

LEMMA InitMarksOK ==
    ASSUME S!Init
    PROVE  MarksOK
<1>0. Rows
  BY InitKeptOK DEF KeptOK, Rows
<1>1. PICK T \in SUBSET (Workspace2 \ {Original}) :
          /\ ws = [w \in Workspace2 |-> IF w \in T \union {Original} THEN S!Saved ELSE S!NoRow]
          /\ sug = [w \in Workspace2 |-> IF w \in T THEN [S!NoSug EXCEPT !.there = TRUE, !.base = 1]
                                                  ELSE S!NoSug]
  BY DEF S!Init
<1>2. PICK m : m = [S!NoSug EXCEPT !.there = TRUE, !.base = 1]
  OBVIOUS
<1>3. m.there /\ m.applied = {}
  BY <1>2, NothingIs DEF SugTypes
<1>4. \A d \in Workspace2 : /\ sug[d].there => d \in T
                            /\ sug[d].applied = {}
  BY <1>1, <1>2, <1>3, NothingIs
<1>5. \A d \in T : ws[d].exists
  BY <1>1 DEF S!Saved
<1>6. \A r \in Request2 : pc2[r] = "idle" /\ loc2[r] = S!NoLoc
  BY DEF S!Init
<1>7. MakersOK
  BY <1>4, <1>5, <1>6, NoLocShape DEF MakersOK, Making, S!Init
<1>8. \A r \in Request2 : AtRow(r) /\ \A d \in Workspace2 : ~HasRow(r, d)
  BY <1>6, NoLocShape DEF AtRow, HasRow
<1>9. ASSUME NEW d \in Workspace2 PROVE Careful(d)
  <2>1. Told(d, sug[d].applied)
    BY <1>4, NobodyTold DEF Told, S!Init
  <2>. QED BY <1>8, <2>1 DEF Careful
<1>. QED BY <1>7, <1>8, <1>9 DEF MarksOK

LEMMA CarefulTrue ==
    ASSUME MarksOK
    PROVE  S!MarksAreTrue
BY DEF MarksOK, S!MarksAreTrue, Careful, HasRow, Told, S!OnSuggestion, OnRow

(* Whatever moves, suggestions step as Suggestions says or not at all.     *)
LEMMA SuggestionsStep ==
    ASSUME [BothNext]_<<moves, vars, others>>
    PROVE  [S!Next]_S!vars
<1>1. CASE UNCHANGED others
  BY <1>1 DEF others, S!vars
<1>2. CASE UNCHANGED <<moves, vars, others>>
  BY <1>1, <1>2
<1>. QED BY <1>1, <1>2 DEF BothNext

(* Types, names, uses and marks of suggestions, their requests and the     *)
(* collectors, whatever moves.                                             *)
THEOREM SuggestionsKnown == BothSpec => [](KeptOK /\ MarksOK)
<1>1. BothInit => KeptOK /\ MarksOK
  BY InitKeptOK, InitMarksOK DEF BothInit
<1>2. KeptOK /\ MarksOK /\ [BothNext]_<<moves, vars, others>> => KeptOK' /\ MarksOK'
  BY SuggestionsStep, StepKeptOK, StepMarksOK
<1>. QED BY <1>1, <1>2, PTL DEF BothSpec

(* A snapshot that a workspace or a suggestion uses is kept, in the        *)
(* database and in trunk, through every run of every collector, unless the *)
(* use began after a collector had looked.                                 *)
THEOREM UsedSnapshotsKept == BothSpec => []UsedIsKept
<1>1. KeptOK => UsedIsKept
  BY DEF KeptOK, UsedIsKept
<1>. QED BY <1>1, SuggestionsKnown, PTL

(* A snapshot whose row is there can be checked out, except while a        *)
(* collector is at it and where one has died over it.                      *)
THEOREM LiveCheckedOut == BothSpec => []LiveOnTrunk
<1>1. KeptOK => LiveOnTrunk
  BY DEF KeptOK, LiveOnTrunk
<1>. QED BY <1>1, SuggestionsKnown, PTL

(* The hunks a suggestion shows as applied are those whose patches have    *)
(* reached the draft, while its requests come one by one, none fails half  *)
(* way and the suggesting workspace does not move on.                      *)
THEOREM MarksTold == BothSpec => []MarksAreTrue
<1>1. MarksOK => MarksAreTrue
  BY CarefulTrue DEF MarksAreTrue
<1>. QED BY <1>1, SuggestionsKnown, PTL
=============================================================================
