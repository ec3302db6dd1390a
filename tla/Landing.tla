------------------------------ MODULE Landing ------------------------------
(***************************************************************************)
(* How drafts become changes on trunk, and what is remembered about trunk: *)
(* LandChange (land/service, changes/service/land.go), the table of changes*)
(* and the codebase's cached head change (changes/service), each           *)
(* workspace's cached up_to_date_with_trunk, syncing a workspace with trunk*)
(* (sync/service) and pulling trunk from a remote (remote/enterprise).     *)
(*                                                                         *)
(* A request is a goroutine with copies of the rows it has read.  Between  *)
(* two of its accesses to the database or to the repository of trunk others*)
(* may run; what it does inside a view is one step, and the view stays     *)
(* locked until the executor returns.                                      *)
(*                                                                         *)
(* Abstractions: one codebase; a commit is a number, in the order of       *)
(* creation; a draft is clean or edited.  The draft belongs to the         *)
(* workspace: which view or snapshot holds it is the subject of Drafts.    *)
(* Statuses of external checks may allow or refuse any landing.            *)
(***************************************************************************)
EXTENDS Naturals, Sequences, FiniteSets

CONSTANTS Workspace, Request,
          none,         \* a NULL column, an unset pointer
          MaxCommits,   \* bound: commits ever made
          MaxRequests,  \* bound: requests that are started and that fail
          MaxFailures   \* bound: requests that end by an error or a crash

ASSUME LimitsAssumption ==
    MaxCommits \in Nat /\ MaxRequests \in Nat /\ MaxFailures \in Nat
ASSUME NobodyAssumption == none \notin Workspace

VARIABLES
    onto,      \* the parent of every commit
    trunk,     \* the commits on sturdytrunk on top of the root commit
    remote,    \* the commits on the tracked branch of the remote
    pushed,    \* each workspace's branch in the repository of trunk
    draft,     \* has the workspace edits that are not committed?
    changes,   \* the rows of changes, in the order of their creation
    codebase,  \* the codebase's cached head change and a setting
    row,       \* workspaces: view_id, up_to_date_with_trunk, change_id, ...
    pc, loc,   \* position of a request, its copies of rows
    started, failed,
    tracked,   \* a remote repository is connected to the codebase
    overlap    \* history: two requests have run at the same time

vars == <<onto, trunk, remote, pushed, draft, changes, codebase, row, pc, loc,
          started, failed, tracked, overlap>>
git  == <<onto, trunk, remote, pushed, draft>>

Root == 0      \* the root commit, which never is a change
NoChange == 0

Answer == {"null", "yes", "no"}

CodebaseType == [known : BOOLEAN, head : Nat]
LocType == [op : {"none", "land", "tracked", "pull", "head", "changelog",
                  "settings", "check", "sync", "archive"},
            w : Workspace \union {none}, open : BOOLEAN, commit : Nat,
            find : Nat, change : Nat, parent : Nat, cb : CodebaseType,
            answer : Answer]

NewCodebase == [known |-> FALSE, head |-> NoChange]
NoLoc == [op |-> "none", w |-> none, open |-> FALSE, commit |-> Root,
          find |-> Root, change |-> NoChange, parent |-> NoChange,
          cb |-> NewCodebase, answer |-> "null"]

PC == {"idle", "pull", "commit", "find", "import", "insert", "push",
       "pushBranch", "update", "unsetAll", "readCb", "unsetHead", "saveHead",
       "archive", "close", "pushTrunk", "headCommit", "setParent",
       "saveSettings", "compute", "answer", "syncBranch", "updated"}

TypeOK ==
    /\ onto \in Seq(Nat) /\ Len(onto) <= MaxCommits
    /\ trunk \in Seq(1..Len(onto)) /\ remote \in Seq(1..Len(onto))
    /\ pushed \in [Workspace -> 0..Len(onto)]
    /\ draft \in [Workspace -> BOOLEAN]
    /\ changes \in Seq([commit : 1..Len(onto), parent : 0..Len(changes),
                        ws : Workspace \union {none}])
    /\ codebase \in CodebaseType /\ codebase.head \in 0..Len(changes)
    /\ row \in [Workspace -> [open : BOOLEAN, upToDate : Answer,
                              change : 0..Len(changes), archived : BOOLEAN,
                              unarchived : BOOLEAN]]
    /\ pc \in [Request -> PC] /\ loc \in [Request -> LocType]
    /\ started \in 0..MaxRequests /\ failed \in 0..MaxFailures
    /\ tracked \in BOOLEAN /\ overlap \in BOOLEAN

(* A new codebase: the root commit, some workspaces open on views.         *)
Init ==
    /\ onto = <<>> /\ trunk = <<>> /\ remote = <<>>
    /\ pushed = [w \in Workspace |-> Root]
    /\ draft = [w \in Workspace |-> FALSE]
    /\ changes = <<>>
    /\ codebase = NewCodebase
    /\ row = [w \in Workspace |-> [open |-> TRUE, upToDate |-> "null",
                                   change |-> NoChange, archived |-> FALSE,
                                   unarchived |-> FALSE]]
    /\ pc = [a \in Request |-> "idle"]
    /\ loc = [a \in Request |-> NoLoc]
    /\ started = 0 /\ failed = 0
    /\ tracked \in BOOLEAN /\ overlap = FALSE

Commits(s)  == {s[i] : i \in DOMAIN s}
HeadOf(s)   == IF s = <<>> THEN Root ELSE s[Len(s)]
TrunkHead   == HeadOf(trunk)
Goto(a, to) == pc' = [pc EXCEPT ![a] = to]

(* The commits from c down to the root: every set that has c, and the      *)
(* parents of the commits it has, has them.                                *)
Ancestors(parents, c) ==
    LET all == 0..Len(parents) IN
    {d \in all : \A S \in SUBSET all :
                    c \in S /\ (\A e \in S \ {Root} : parents[e] \in S) => d \in S}

History(c) == Ancestors(onto, c)

(* vcs.UpToDateWithTrunk: the branch of the workspace has trunk's head.    *)
IsUpToDate(w) == TrunkHead \in History(pushed[w])

ChangeOf(c) == {i \in DOMAIN changes : changes[i].commit = c}

(* Under the lock of the view of w: a landing or a sync is at work in it.  *)
Held(w) ==
    \E a \in Request :
        /\ loc[a].w = w /\ loc[a].open
        /\ pc[a] \in {"find", "import", "insert", "push", "pushBranch",
                      "syncBranch", "updated"}

CanBegin(a) ==
    /\ pc[a] = "idle" /\ started + failed < MaxRequests
    /\ started' = started + 1

Begin(a, l, at) ==
    /\ CanBegin(a)
    /\ loc' = [loc EXCEPT ![a] = l]
    /\ Goto(a, at)
    /\ UNCHANGED <<git, changes, codebase, row, failed>>

Finish(a) ==
    /\ Goto(a, "idle")
    /\ loc' = [loc EXCEPT ![a] = NoLoc]

IsLanding(a) == loc[a].op \in {"land", "tracked"}

-----------------------------------------------------------------------------
(* LandChange: commit the draft on top of trunk inside the view (or in a   *)
(* temporary view, from the latest snapshot), record the change, push.     *)

(* The clients offer it for workspaces that are not archived, and for      *)
(* codebases without a remote; those with one have LandTracked.            *)
Land(a, w) ==
    /\ ~tracked /\ ~row[w].archived
    /\ Begin(a, [NoLoc EXCEPT !.op = "land", !.w = w, !.open = row[w].open],
             "commit")

(* LandOnSturdyAndPushTracked: pull, land, push trunk to the remote.       *)
LandTracked(a, w) ==
    /\ tracked /\ ~row[w].archived
    /\ Begin(a, [NoLoc EXCEPT !.op = "tracked", !.w = w, !.open = row[w].open],
             "pull")

(* Nothing to land.  (A view that has been taken from the workspace shows a*)
(* new workspace by now, without edits.)                                   *)
HasNoEdits(a) ==
    LET w == loc[a].w IN ~draft[w] \/ (loc[a].open /\ ~row[w].open)

CommitNothing(a) ==
    /\ pc[a] = "commit" /\ HasNoEdits(a)
    /\ Finish(a)
    /\ UNCHANGED <<git, changes, codebase, row, started, failed>>

(* CreateAndLandFromView: snapshot, commit, fetch trunk, cherry-pick, move *)
(* the branch of the workspace.  If one of these fails the view is restored*)
(* from the snapshot: then nothing has happened, see Fail.                 *)
Commit(a) ==
    LET w == loc[a].w
    IN  /\ pc[a] = "commit" /\ ~HasNoEdits(a)
        /\ loc[a].open => ~Held(w)
        /\ Len(onto) < MaxCommits
        /\ onto' = Append(onto, TrunkHead)
        /\ draft' = IF loc[a].open THEN [draft EXCEPT ![w] = FALSE] ELSE draft
        /\ loc' = [loc EXCEPT ![a].commit = Len(onto) + 1,
                              ![a].find = TrunkHead]
        /\ Goto(a, "find")
        /\ UNCHANGED <<trunk, remote, pushed, changes, codebase, row, started,
                       failed>>

(* getChangeFromCommit: the change of commit loc.find, imported from git if*)
(* it has no row; the caller goes on with it.  The root is not imported.   *)
Found(a, i) ==
    CASE IsLanding(a) ->
           /\ loc' = [loc EXCEPT ![a].parent = i]
           /\ Goto(a, "insert")
      [] loc[a].op = "head" ->
           /\ loc' = [loc EXCEPT ![a].change = i]
           /\ Goto(a, "saveHead")
      [] loc[a].op = "changelog" ->
           /\ loc' = [loc EXCEPT ![a].parent = i]
           /\ Goto(a, "setParent")

Find(a) ==
    /\ pc[a] = "find"
    /\ \/ loc[a].find = Root /\ Found(a, NoChange)
       \/ \E i \in ChangeOf(loc[a].find) : Found(a, i)
       \/ /\ loc[a].find # Root /\ ChangeOf(loc[a].find) = {}
          /\ Goto(a, "import")
          /\ UNCHANGED loc
    /\ UNCHANGED <<git, changes, codebase, row, started, failed>>

(* Insert: the index on (codebase_id, commit_id) is unique.                *)
CanInsert(c) == ChangeOf(c) = {}

Import(a) ==
    /\ pc[a] = "import"
    /\ IF CanInsert(loc[a].find)
       THEN /\ changes' = Append(changes, [commit |-> loc[a].find,
                                           parent |-> NoChange, ws |-> none])
            /\ Found(a, Len(changes) + 1)
       ELSE Finish(a) /\ UNCHANGED changes
    /\ UNCHANGED <<git, codebase, row, started, failed>>

(* Mutant: CreateOnTop, with trunk's head as the parent.                   *)
Insert_OnTop(a) ==
    /\ pc[a] = "insert"
    /\ changes' = Append(changes,
                         [commit |-> loc[a].commit,
                          parent |-> IF ChangeOf(TrunkHead) = {} THEN NoChange
                                     ELSE CHOOSE i \in ChangeOf(TrunkHead) : TRUE,
                          ws |-> loc[a].w])
    /\ loc' = [loc EXCEPT ![a].change = Len(changes) + 1]
    /\ Goto(a, "push")
    /\ UNCHANGED <<git, codebase, row, started, failed>>

(* CreateWithChangeAsParent: the row of the new change.                    *)
Insert(a) ==
    /\ pc[a] = "insert"
    /\ changes' = Append(changes, [commit |-> loc[a].commit,
                                   parent |-> loc[a].parent, ws |-> loc[a].w])
    /\ loc' = [loc EXCEPT ![a].change = Len(changes) + 1]
    /\ Goto(a, "push")
    /\ UNCHANGED <<git, codebase, row, started, failed>>

(* Mutant: trunk is force-pushed.                                          *)
Push_Forced(a) ==
    /\ pc[a] = "push"
    /\ trunk' = Append(SelectSeq(trunk, LAMBDA c : c \in History(loc[a].commit)),
                       loc[a].commit)
    /\ Goto(a, "pushBranch") /\ UNCHANGED loc
    /\ UNCHANGED <<onto, remote, pushed, draft, changes, codebase, row,
                   started, failed>>

(* Mutant: a refused push is not noticed.                                  *)
Push_Unchecked(a) ==
    /\ pc[a] = "push"
    /\ trunk' = IF onto[loc[a].commit] = TrunkHead
                THEN Append(trunk, loc[a].commit) ELSE trunk
    /\ Goto(a, "pushBranch") /\ UNCHANGED loc
    /\ UNCHANGED <<onto, remote, pushed, draft, changes, codebase, row,
                   started, failed>>

(* Push sturdytrunk: git takes it if it is a fast-forward.  If not, the    *)
(* landing ends with an error; the change and the commit in the view stay. *)
Push(a) ==
    /\ pc[a] = "push"
    /\ IF onto[loc[a].commit] = TrunkHead
       THEN /\ trunk' = Append(trunk, loc[a].commit)
            /\ Goto(a, "pushBranch") /\ UNCHANGED loc
       ELSE Finish(a) /\ UNCHANGED trunk
    /\ UNCHANGED <<onto, remote, pushed, draft, changes, codebase, row,
                   started, failed>>

(* Force-push the branch of the workspace; the view is unlocked.           *)
PushBranch(a) ==
    /\ pc[a] = "pushBranch"
    /\ pushed' = [pushed EXCEPT ![loc[a].w] = loc[a].commit]
    /\ Goto(a, "update")
    /\ UNCHANGED <<onto, trunk, remote, draft, changes, codebase, row, loc,
                   started, failed>>

Update(a) ==
    /\ pc[a] = "update"
    /\ row' = [row EXCEPT ![loc[a].w].change = loc[a].change]
    /\ Goto(a, "unsetAll")
    /\ UNCHANGED <<git, changes, codebase, loc, started, failed>>

(* Mutant: landing does not clear the caches of the workspaces.            *)
UnsetAll_PullOnly(a) ==
    /\ pc[a] = "unsetAll"
    /\ row' = IF loc[a].change # NoChange THEN row
              ELSE [w \in Workspace |-> [row[w] EXCEPT !.upToDate = "null"]]
    /\ CASE loc[a].change # NoChange -> Goto(a, "readCb") /\ UNCHANGED loc
         [] loc[a].op = "pull"       -> Finish(a)
         [] OTHER                    -> Goto(a, "commit") /\ UNCHANGED loc
    /\ UNCHANGED <<git, changes, codebase, started, failed>>

(* UnsetUpToDateWithTrunkForAllInCodebase, except the archived ones; then  *)
(* the landing or the pull goes on.                                        *)
UnsetAll(a) ==
    /\ pc[a] = "unsetAll"
    /\ row' = [w \in Workspace |->
                  IF row[w].archived THEN row[w]
                  ELSE [row[w] EXCEPT !.upToDate = "null"]]
    /\ CASE loc[a].change # NoChange -> Goto(a, "readCb") /\ UNCHANGED loc
         [] loc[a].op = "pull"       -> Finish(a)
         [] OTHER                    -> Goto(a, "commit") /\ UNCHANGED loc
    /\ UNCHANGED <<git, changes, codebase, started, failed>>

(* SetAsHeadChange and UnsetHeadChangeCache read the row of the codebase...*)
ReadCodebase(a) ==
    /\ pc[a] = "readCb"
    /\ loc' = [loc EXCEPT ![a].cb = codebase]
    /\ Goto(a, IF loc[a].change # NoChange THEN "saveHead" ELSE "unsetHead")
    /\ UNCHANGED <<git, changes, codebase, row, started, failed>>

(* ... and write all its columns.  So does HeadChange, with its caller's   *)
(* copy.                                                                   *)
SaveHead(a) ==
    /\ pc[a] = "saveHead"
    /\ codebase' = [loc[a].cb EXCEPT !.known = TRUE, !.head = loc[a].change]
    /\ IF IsLanding(a) THEN Goto(a, "archive") /\ UNCHANGED loc ELSE Finish(a)
    /\ UNCHANGED <<git, changes, row, started, failed>>

(* ArchiveWithChange; what is left of the draft is in a snapshot when the  *)
(* view goes to a new workspace.                                           *)
ArchiveLanded(a) ==
    /\ pc[a] = "archive"
    /\ row' = [row EXCEPT ![loc[a].w].archived = TRUE,
                          ![loc[a].w].unarchived = FALSE,
                          ![loc[a].w].change =
                              IF IsLanding(a) THEN loc[a].change ELSE @]
    /\ Goto(a, "close")
    /\ UNCHANGED <<git, changes, codebase, loc, started, failed>>

Close(a) ==
    /\ pc[a] = "close"
    /\ loc[a].open => ~Held(loc[a].w)
    /\ row' = IF loc[a].open THEN [row EXCEPT ![loc[a].w].open = FALSE] ELSE row
    /\ IF loc[a].op = "tracked" THEN Goto(a, "pushTrunk") /\ UNCHANGED loc
                                ELSE Finish(a)
    /\ UNCHANGED <<git, changes, codebase, started, failed>>

(* PushTrunk: not forced; the answer to the user is all that depends on it.*)
PushTrunk(a) ==
    /\ pc[a] = "pushTrunk"
    /\ remote' = IF HeadOf(remote) \in History(TrunkHead) THEN trunk ELSE remote
    /\ Finish(a)
    /\ UNCHANGED <<onto, trunk, pushed, draft, changes, codebase, row, started,
                   failed>>

LandStep(a) ==
    \/ CommitNothing(a) \/ Commit(a) \/ Find(a) \/ Import(a) \/ Insert(a)
    \/ Push(a) \/ PushBranch(a) \/ Update(a) \/ UnsetAll(a) \/ ReadCodebase(a)
    \/ SaveHead(a) \/ ArchiveLanded(a) \/ Close(a) \/ PushTrunk(a)

-----------------------------------------------------------------------------
(* Pull: fetch the tracked branch of the remote into sturdytrunk, by force.*)

PullRemote(a) == tracked /\ Begin(a, [NoLoc EXCEPT !.op = "pull"], "pull")

Pull(a) ==
    /\ pc[a] = "pull"
    /\ trunk' = remote
    /\ Goto(a, "readCb")
    /\ UNCHANGED <<onto, remote, pushed, draft, changes, codebase, row, loc,
                   started, failed>>

UnsetHead(a) ==
    /\ pc[a] = "unsetHead"
    /\ codebase' = [loc[a].cb EXCEPT !.known = FALSE, !.head = NoChange]
    /\ Goto(a, "unsetAll")
    /\ UNCHANGED <<git, changes, row, loc, started, failed>>

(* Somebody else commits to the tracked branch.                            *)
RemoteCommit ==
    /\ tracked /\ Len(onto) < MaxCommits
    /\ onto' = Append(onto, HeadOf(remote))
    /\ remote' = Append(remote, Len(onto) + 1)
    /\ UNCHANGED <<trunk, pushed, draft, changes, codebase, row, pc, loc,
                   started, failed>>

-----------------------------------------------------------------------------
(* Reading: HeadChange of a codebase, ParentChange along the changelog.    *)

(* HeadChange works on the row as its caller has read it.                  *)
HeadChange(a) ==
    /\ ~codebase.known
    /\ Begin(a, [NoLoc EXCEPT !.op = "head", !.cb = codebase], "headCommit")

HeadCommit(a) ==
    /\ pc[a] = "headCommit"
    /\ loc' = [loc EXCEPT ![a].find = TrunkHead]
    /\ Goto(a, "find")
    /\ UNCHANGED <<git, changes, codebase, row, started, failed>>

(* The parent of an imported change is looked up when somebody asks.       *)
ParentChange(a) ==
    \E i \in DOMAIN changes :
        /\ changes[i].parent = NoChange /\ onto[changes[i].commit] # Root
        /\ Begin(a, [NoLoc EXCEPT !.op = "changelog", !.change = i,
                                  !.find = onto[changes[i].commit]], "find")

SetParent(a) ==
    /\ pc[a] = "setParent"
    /\ changes' = [changes EXCEPT ![loc[a].change].parent = loc[a].parent]
    /\ Finish(a)
    /\ UNCHANGED <<git, codebase, row, started, failed>>

(* updateIsUpToDateWithTrunk: nothing to do if the row read has an answer. *)
CheckUpToDate(a, w) ==
    /\ row[w].upToDate = "null"
    /\ Begin(a, [NoLoc EXCEPT !.op = "check", !.w = w], "compute")

Compute(a) ==
    /\ pc[a] = "compute"
    /\ loc' = [loc EXCEPT ![a].answer = IF IsUpToDate(loc[a].w) THEN "yes"
                                                                ELSE "no"]
    /\ Goto(a, "answer")
    /\ UNCHANGED <<git, changes, codebase, row, started, failed>>

SaveAnswer(a) ==
    /\ pc[a] = "answer"
    /\ row' = [row EXCEPT ![loc[a].w].upToDate = loc[a].answer]
    /\ Finish(a)
    /\ UNCHANGED <<git, changes, codebase, started, failed>>

ReadStep(a) == HeadCommit(a) \/ SetParent(a) \/ Compute(a) \/ SaveAnswer(a)

-----------------------------------------------------------------------------
(* The other requests that touch these rows.                               *)

(* UpdateCodebase: read the row, write all its columns back; the setting   *)
(* that changes is not modelled.                                           *)
Settings(a) ==
    Begin(a, [NoLoc EXCEPT !.op = "settings", !.cb = codebase], "saveSettings")

SaveSettings(a) ==
    /\ pc[a] = "saveSettings"
    /\ codebase' = loc[a].cb
    /\ Finish(a)
    /\ UNCHANGED <<git, changes, row, started, failed>>

(* OnTrunk (without conflicts): rebase the uncommitted edits, and only     *)
(* them, onto trunk's head; the branch of the workspace moves there.       *)
Sync(a, w) ==
    /\ ~row[w].archived
    /\ row[w].open => ~Held(w)
    /\ Begin(a, [NoLoc EXCEPT !.op = "sync", !.w = w, !.open = row[w].open,
                              !.commit = TrunkHead], "syncBranch")

SyncBranch(a) ==
    /\ pc[a] = "syncBranch"
    /\ pushed' = [pushed EXCEPT ![loc[a].w] = loc[a].commit]
    /\ Goto(a, "updated")
    /\ UNCHANGED <<onto, trunk, remote, draft, changes, codebase, row, loc,
                   started, failed>>

(* meta.Updated, still inside the view.                                    *)
Updated(a) ==
    /\ pc[a] = "updated"
    /\ row' = [row EXCEPT ![loc[a].w].upToDate = "null"]
    /\ Finish(a)
    /\ UNCHANGED <<git, changes, codebase, started, failed>>

Archive(a, w) ==
    /\ ~row[w].archived
    /\ Begin(a, [NoLoc EXCEPT !.op = "archive", !.w = w, !.open = row[w].open],
             "archive")

Unarchive(a, w) ==
    /\ row[w].archived /\ ~row[w].unarchived
    /\ CanBegin(a)
    /\ row' = [row EXCEPT ![w].archived = FALSE, ![w].unarchived = TRUE,
                          ![w].open = FALSE, ![w].change = NoChange]
    /\ UNCHANGED <<git, changes, codebase, pc, loc, failed>>

(* The owner edits a file; see Drafts for how it gets there.               *)
Edit(w) ==
    /\ row[w].open /\ ~row[w].archived /\ ~Held(w) /\ ~draft[w]
    /\ draft' = [draft EXCEPT ![w] = TRUE]
    /\ UNCHANGED <<onto, trunk, remote, pushed, changes, codebase, row, pc,
                   loc, started, failed>>

OtherStep(a) ==
    Pull(a) \/ UnsetHead(a) \/ SaveSettings(a) \/ SyncBranch(a) \/ Updated(a)

(* A step fails, or the server dies: what has been written stays.          *)
Fail(a) ==
    /\ pc[a] # "idle" /\ failed < MaxFailures /\ started + failed < MaxRequests
    /\ failed' = failed + 1
    /\ Finish(a)
    /\ UNCHANGED <<git, changes, codebase, row, started>>

StartRequest(a) ==
    \/ PullRemote(a) \/ HeadChange(a) \/ ParentChange(a) \/ Settings(a)
    \/ \E w \in Workspace :
           \/ Land(a, w) \/ LandTracked(a, w) \/ CheckUpToDate(a, w)
           \/ Sync(a, w) \/ Archive(a, w) \/ Unarchive(a, w)

Run(a) == LandStep(a) \/ ReadStep(a) \/ OtherStep(a)

Environment == RemoteCommit \/ \E w \in Workspace : Edit(w)

NobodyRuns == \A a \in Request : pc[a] = "idle"

Busy == {a \in Request : pc[a] # "idle"}

Next ==
    /\ \/ \E a \in Request : StartRequest(a) \/ Run(a) \/ Fail(a)
       \/ Environment
    /\ overlap' = (overlap \/ Cardinality(Busy') > 1)
    /\ UNCHANGED tracked

Spec == Init /\ [][Next]_vars

-----------------------------------------------------------------------------
(* Properties.                                                             *)

(* Trunk, which every landing pushes without a common lock, never loses a  *)
(* commit and never changes below its head, unless a remote is pulled.     *)
TrunkOnlyGrows ==
    [][~tracked =>
       /\ Len(trunk') >= Len(trunk)
       /\ \A i \in DOMAIN trunk : trunk'[i] = trunk[i]]_vars

(* A workspace that says which change it has become, has become it: the    *)
(* commit is on trunk, whatever raced with the landing or failed.  (A pull *)
(* from a remote by force may take it off again.)                          *)
LandedIsOnTrunk ==
    ~tracked => \A w \in Workspace :
        row[w].change # NoChange =>
            changes[row[w].change].commit \in Commits(trunk)

OneChangePerCommit == \A i \in DOMAIN changes : ChangeOf(changes[i].commit) = {i}

ParentIsParentCommit ==
    \A i \in DOMAIN changes :
        changes[i].parent # NoChange =>
            changes[changes[i].parent].commit = onto[changes[i].commit]

(* Landings and readers that import the same commits create one change for *)
(* each of them, and parent_change_id is the change of the commit's parent *)
(* although trunk moves between the commit and the insert.                 *)
ChangesMirrorCommits == OneChangePerCommit /\ ParentIsParentCommit

(* The cached head change may be old (see HeadCacheRight), but it is a     *)
(* change on trunk: never one whose push was refused.                      *)
CachedHeadIsOnTrunk ==
    ~tracked /\ codebase.head # NoChange =>
        changes[codebase.head].commit \in Commits(trunk)

HeadCacheRight ==
    codebase.known => IF TrunkHead = Root THEN codebase.head = NoChange
                      ELSE codebase.head \in ChangeOf(TrunkHead)

(* An answer that is cached.  Not of a workspace that came back from the   *)
(* archive, which is not cleared.                                          *)
UpToDateRight ==
    \A w \in Workspace :
        \/ row[w].upToDate = "null" \/ row[w].archived \/ row[w].unarchived
        \/ row[w].upToDate = IF IsUpToDate(w) THEN "yes" ELSE "no"

(* codebase.go:39, "Use through ChangeService.HeadChange()", and           *)
(* land/service/service.go:245, "Clear 'up to date' cache for all          *)
(* workspaces": when no request runs, none failed and they came one by one,*)
(* the cached head change is that of trunk's head, and the cached answers  *)
(* whether workspaces are up to date are right.                            *)
CachesRight == NobodyRuns /\ ~overlap /\ failed = 0 => HeadCacheRight /\ UpToDateRight
=============================================================================
