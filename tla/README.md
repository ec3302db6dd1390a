# Formal models of Sturdy's server

Sturdy is a version control service: people work in *workspaces* (drafts that are
always in sync with the server), connect a *view* (a checkout on disk, synchronised
with their computer by mutagen) to one of them, and *land* a workspace as a *change*
on trunk. The Go server in `src/api` moves people's files between views, snapshots
and trunk without their asking for it, from many goroutines and several processes at
once, and keeps what they say about drafts, what builds say about them and what GitHub
says about them in line with that. This directory models that in TLA+, checks it with
TLC and proves what matters most with TLAPS.

1. [Inventory](#inventory) of the system
2. [Modules](#modules) and how they correspond to the code
3. [Runs](#runs): what each one checks, its bounds, fairness
4. [Findings](#findings) and [known failures](#known-failures)
5. [Proofs](#proofs)
6. [What is not covered](#what-is-not-covered)
7. [Plan](#plan)

`PROJECT.json` has the same in machine-readable form: the line of the source that every
definition models (`map`), the run and a mutant of the code for every property, and the
list of hazards with the properties that cover them.

## Inventory

Paths are relative to `src/api`.

| Component | State | Operations | Interacts with | Module |
|---|---|---|---|---|
| Lock of a view, `vcs/executor/flock.go`, `locker.go` | RWMutex, count of readers, flock(2) on `.git/sturdy.lock` | Lock, Unlock, RLock, RUnlock | executor; mutagen's agents (other processes) | FileLock |
| Executor, `vcs/executor/executor.go` | two locks per repository; the directory names of temporary views | scheduling functions by kind; ExecView, ExecTrunk, ExecTemporaryView | every service that touches a repository | Executor, TempViews |
| Views, `pkg/views` | row: `workspace_id`; the directory of the view | Create, OpenWorkspace, Repair | workspaces, snapshots, executor | Drafts |
| Snapshots, `pkg/snapshots` | rows; a branch per snapshot in trunk and in the view | Snapshot, Copy, diffs; the queue worker | views, workspaces, executor, queue | Drafts |
| Workspaces, `pkg/workspaces` | row: `view_id`, `latest_snapshot_id`, `archived_at`, `change_id`, `up_to_date_with_trunk` | Create, Archive, Unarchive, SetSnapshot, RemovePatches, up-to-date check | views, snapshots, landing | Drafts, Landing |
| Mutagen routes, `pkg/mutagen/routes` | - | validate a view, report synced files | views, snapshot queue | Drafts |
| Landing, `pkg/land` | - | LandChange, LandOnSturdyAndPushTracked | changes, workspaces, remotes, executor | Landing, Statuses |
| Changes, `pkg/changes` | rows with commit and parent; the codebase's cached head change | import of commits, HeadChange, ParentChange | executor (trunk), codebases | Landing |
| Sync, `pkg/sync` | the rebase in a view | OnTrunk, Resolve, Status | executor, snapshots, workspaces | Sync |
| Remotes, `pkg/remote/enterprise` | a remote repository | Pull, Push, PushTrunk | changes, workspaces, landing | Landing |
| Codebases, `pkg/codebases` | row with settings and cached head | UpdateCodebase | changes | Landing |
| Suggestions, `pkg/suggestions` | rows: positions of applied and dismissed hunks | Create, ApplyHunks, DismissHunks, Dismiss, notify | workspaces, snapshots, executor | Suggestions |
| GC, `pkg/gc` | - | deletes old snapshots and their branches | snapshots, workspaces, suggestions | Suggestions |
| GitHub, `pkg/github/enterprise` | rows of pull requests and of the repository | open, update, import, merge; webhooks of pull requests and pushes | GitHub, workspaces, changes, snapshots | PullRequests |
| CI, `pkg/ci`, `pkg/buildkite` | the ci repository, `ci_commits`, integrations | trigger builds of a draft or of a change; webhooks | queue, statuses, Buildkite | BuildQueue, Statuses |
| Statuses, `pkg/statuses`, `pkg/workspaces/statuses` | rows per commit and title | Set, the check before a landing | CI, landing | Statuses |
| Queues, `pkg/queue` | in-memory channels; SQS | Publish, Subscribe, Ack | snapshot worker, gc, CI, GitHub | BuildQueue |
| Comments, reviews, activity, notifications, watchers | rows | create, edit, resolve, delete, move on landing; ask for, give and dismiss a review; notify | landing, GitHub | Discussions |
| Events, `pkg/events`, `pkg/events/v2` | the queue of the first bus; the subscriptions of both | publish, subscribe, unsubscribe; the resolvers behind subscriptions | every service that changes something; the connections of clients | Events |
| The rest: accounts, authorisation, transport, mail, files, diffs, ... | | | see `PROJECT.json`, "components" | - |

What makes this hard:

* **Concurrency without transactions.** A request reads rows into Go structs, works for
  seconds in repositories, and writes rows back, many of them with all their columns.
  Other requests, the queue workers and mutagen's reports run in between. Nothing locks a
  workspace, a codebase, a suggestion or a pull request; only the repository of a view is
  locked, while one scheduled group of functions runs.
* **State in three places.** Whether a draft is safe depends on a database row
  (`view_id`, `latest_snapshot_id`), on what is checked out in a directory, and on a
  branch in the repository of trunk. No transaction spans them.
* **Messages.** Webhooks of GitHub and Buildkite come late, twice and out of order;
  messages of the queues are lost with the process (in memory) or come again (SQS).
* **Failure anywhere.** Every step may return an error or be the last of its process;
  the steps before it stay.
* **Two kinds of locks.** The lock of a view is a RWMutex in a process and a flock
  between processes, with an error path that gives up one and keeps the other.

What makes each component right:

* lock: a writer is alone, in and between processes; who waits is served; who has
  finished leaves nothing locked;
* views, snapshots, workspaces: no edit is lost; a workspace that has a view is the
  branch checked out there; a draft is changed by its owner only;
* executor: functions that write are alone with what they write, run in the state that was
  asserted, and nobody waits in a circle;
* temporary views: one job per view; no job sees the files of another; the pool is
  bounded; a view is given back;
* landing, changes: trunk only grows; a workspace that says it became a change has; one
  change per commit, with the right parent;
* caches (head change, up to date): right when nobody is at work, and never naming what
  is not on trunk;
* sync: the draft after it is what the user edited or chose, and takes nothing back that
  others have landed; nothing written is gone; a conflict can be got out of;
* suggestions: the hunks shown as applied are applied; the collector deletes nothing in use;
* pull requests: a draft becomes a change only by a merge; Sturdy and GitHub agree; one
  draft per pull request; trunk catches up;
* builds: what has landed is built; what lands under required statuses was built; the
  outcome of a build is shown;
* discussions: what was said goes with the change, stays deleted or resolved, and reaches
  those it concerns;
* events: what a client shows is the newest, no client holds up the server, and who has left
  is forgotten.

## Modules

```
RWLock     <--refines--  FileLock     <-- FileLockProofs       MCFileLock
DraftStore <--refines--  Drafts       <-- DraftsProofs         MCDrafts (and Suggestions), DraftsWatched
                         Landing      <-- LandingProofs        MCLanding (and PullRequests)
                         TempViews    <-- TempViewsProofs      MCTempViews (and Executor)
                         BuildQueue   <-- BuildQueueProofs     MCBuildQueue (and Events)
                         Sync         <-- SyncProofs           MCSync
                         Statuses     <-- StatusesProofs       MCStatuses
                         Discussions  <-- DiscussionsProofs    MCDiscussions
                         Suggestions  PullRequests  Executor  Events
```

`MC*` modules give the constants values, declare symmetry and put a second model beside the
first: the two share no state, and `moves`, chosen at the start, says which of them takes all
the steps, so that one run answers the questions about both. DraftsWatched adds a
history variable to Drafts. Each module takes a part of the system at full detail and what surrounds it
in single steps: opening and saving a workspace is one step in Suggestions and many in
Drafts, merging trunk one in PullRequests and many in Landing, a sync is two in Landing and
many in Sync, the way of a landed change to the builds is one in Statuses and many in
BuildQueue. They are not composed; where the abstraction of one leans on what another
shows, its header says so.

### FileLock, RWLock: the lock of a view

`RWLock` is what the executor's `lock` interface promises the threads of one process.
`FileLock` is `flock.go` statement by statement, with one thread per goroutine in any
number of processes. `pc` is the position in Lock, Unlock, RLock or RUnlock; `count` is
`FileLock.count`; `l` and `r` are the flags with which gofrs/flock remembers its locks;
`os` is what the kernel grants the process's descriptor; `exists` is whether the
directory of the view is there (the code ignores `ErrNotExist`). External parts, modelled
from how `flock.go` uses them: sync.RWMutex with its two phases (a writer that has
announced itself stops new readers; its departure admits all blocked ones), gofrs/flock,
and flock(2), whose conversion of a lock is not atomic. A flock call may fail; then Lock
returns without unlocking the mutex (`wstuck`), RLock without undoing its count (`rstuck`).

### Drafts, DraftStore: who holds the files of a workspace

`DraftStore` is what workspaces promise their owner: a draft is changed by edits and by
going back to a version of it, by nothing else. `Drafts` has the rows of workspaces, views
and snapshots, what is checked out in each view (`disk`), the reports of mutagen (`sync`),
the snapshot queue, and a goroutine per request and for the queue worker, with the copies
of rows it has read (`loc`) and its call of Snapshot (`snap`).

| Actions | Code |
|---|---|
| SnapRead, SnapExec, SnapSame, SnapSave | `snapshots/service` Snapshot, called from four places |
| Open, NewView, Lookup, Detach, Checkout, Link, LinkView | `views/service` OpenWorkspace and its callers |
| Archive, ArchiveRow, Replace, Unarchive | `workspaces/service` archive, Unarchive |
| SetSnapshot, RestoreOnView, SetLatest | `workspaces/service` SetSnapshot |
| MakeEdit, SyncRead, SyncWrite, WorkerTake | mutagen, `mutagen/routes/transition.go`, the snapshot worker |
| Fail, FailToMark | an error or a crash at any step |

Between two database accesses of a goroutine others may run; what runs under the lock of a
view is one step. Abstractions: the files of a view are the set of edits on top of trunk; a
snapshot id is its index. The clients' rules are guards: only a workspace that is archived
is unarchived.

`since` is a history variable: the edits synced to the target of an open since it looked
up the workspace open there. `OverwritesOnlyRacedEdits` needs it. `calm`, in DraftsWatched, is
another: the server has been calm so far when every request has started with everything else at
rest and edits came while no goroutine ran (CalmNext).

### Landing: drafts become changes

One codebase. A commit is a number; `onto` gives the parent of each, `trunk` and `remote`
are the two branches, `pushed` each workspace's branch in trunk's repository. `changes`,
`codebase` and `row` are the tables. A request is again a goroutine with copies (`loc`).

| Actions | Code |
|---|---|
| Land, LandTracked, Commit, CommitNothing, Push, PushBranch, Update, UnsetAll, ReadCodebase, SaveHead, ArchiveLanded, Close, PushTrunk | `land/service` LandChange, `changes/service/land.go`, `land/enterprise/service` |
| Find, Import, Insert | `changes/service` importCommitToChange, CreateWithCommitAsParent and the unique index on (codebase, commit) |
| PullRemote, Pull, UnsetHead | `remote/enterprise/service` Pull |
| HeadChange, HeadCommit, ParentChange, SetParent | `changes/service` HeadChange, ParentChange |
| CheckUpToDate, Compute, SaveAnswer, Updated | `workspaces/graphql/resolver.go`, `workspaces/meta/events.go` |
| Settings, SaveSettings | `codebases/graphql` UpdateCodebase: a whole-row update |
| Sync, SyncBranch | `sync/service` OnTrunk without conflicts |
| Archive, Unarchive, Edit, RemoteCommit | the rest of the world |

The commit inside the view is one step, and the view stays locked until the executor
returns (`Held`). The clients offer Land for codebases without a remote and LandTracked for
those with one, and neither for archived workspaces; the models follow them. `tracked` says
whether a remote is connected; it is chosen at the start. `overlap` is history: two requests
have run at the same time. Which view or
snapshot holds the draft is the subject of Drafts, not of Landing.

### Executor: what runs in a repository at a time

An execution schedules functions of several kinds (Write, Read, GitWrite, GitRead,
FileReadGitWrite, AssertBranchName, Schedule), and the kinds decide how it takes the lock of
the files and the lock in memory (`Mode`). The executions are fifteen of the program's own
(`openWorkspace` ... `welcomeMessage`), with their kinds, whether a rebase is allowed and what
they execute inside: a landing looks up a commit on trunk, the repair of a view takes a
snapshot. A goroutine has a `stack` of executions; each takes its locks (NoLock, RLock, Lock,
Locked), runs its functions (Check, AssertBranchName, Call, ExecInside, Return) and gives the
locks up in reverse (Unlock), however it ends. Both locks are readers-writer locks of one process;
what errors of flock and other processes do is the subject of FileLock.

### TempViews: the pool of temporary views

Work on a workspace that is open nowhere is done in a directory `tmp-<id>` which is renamed
to `using-tmp-<id>` while it is in use; the names are the whole state of the pool (`name`).
`repo` is the repository in the view: its branch, the snapshots that its `origin/` names, its
uncommitted edits. A process lists the free views (list), makes up a name (NewName) or picks
a free one (Pick) and renames it (MarkUsing, LoseRename), clones or reuses it (Clone, Reuse),
runs its job and gives the view back (Return). The jobs are the four shapes that the callers
of ExecTemporaryView have: copy a snapshot's patches onto a workspace (`Service.Copy`), change
or land the edits of a snapshot (RemovePatches, suggestions, LandChange), start a workspace
that reverts a change, pack the files of a commit. Two callers are left out: the import of a
GitHub branch, and the branch of `OnTrunk` for a workspace without a view, which its route
(it finds the workspace by its view) does not reach. A function may fail or panic (Fail), the
server may die (Die); a view whose user has died is `lost`.

### Sync: rebasing a draft on trunk

`pkg/sync`, with `vcs/git_rebase.go`, in one view, step by step: the files are committed on a
branch of their own (CommitUnsaved), trunk is checked out (CheckoutOnto), what cannot be
committed is stashed (Stash), the commit is picked (InitRebase, or InitRebaseFails when files
are in the way), conflicts leave the rebase on disk (`rb`) until the user's answers (Resolve,
ResolveFails) let Pick make the commit or find it empty, and `complete` moves the branch of the
workspace, takes the commit back to files, pushes and snapshots (CheckoutWorkspace, Reset, Push,
Snapshot). The view's write lock admits one request at a time (`op`); mutagen's edits (Edit),
trunk (TrunkMoves) and the death of the process (Die) come in between any two steps. Files are
whole: a conflict is a file that both sides changed to something else; `head` is what HEAD names,
attached to the workspace's branch or not. `mine` is history: what the user wants in a file,
by an edit or by an answer; `raced` are the files edited while a request was at work, `broken`
says that a request has ended halfway. What runs without a view (the branch of OnTrunk for a
workspace that is open nowhere) is not reached by its route and not modelled.

### Suggestions: suggestions and the collector of snapshots

A draft is one file and an edit its position in it, so that the code's way of remembering
hunks *by their index in the current diff* can go wrong as it does in the code. `sug` has
the rows, `snaps` the snapshots with the three places a snapshot is in: its row (`live`), trunk
(`trunk`), the view (`local`).

| Actions | Code |
|---|---|
| StartSuggestion, NewWorkspace, LinkSnapshot, Insert | `suggestions/service` Create, with the snapshot of the original and the new workspace |
| StartHunks, ReadDiff, ReadDeleted, PatchView, PatchSnapshot, Record | ApplyHunks (in the view or in a temporary view), DismissHunks |
| StartDismiss, StartActivity | Dismiss, RecordActivity with its notification |
| StartSnapshot, Take, Mark, RemovePatches, RemoveInView | the snapshots and undone hunks that change what a suggestion is about |
| StartGC, Keep, Condemn, SkipBranches, DeleteTrunkBranch, DeleteViewBranch, FailBranch, DeleteRow, EndGC, Die | `gc/service` work, gcSnapshot |
| Open, Leave, Unarchive, SetSnapshot, Edits, Age | the rest of the world in single steps |

History: `done` are the hunks whose patches have reached the draft, `disturbed` the suggestions
whose positions may have lost their meaning (two requests at a time, one that failed halfway,
the suggesting workspace moved on), `excused` the snapshots whose use began after the
collector had looked, or that an archived workspace names too, `torn` those over which a
collector died.

### PullRequests: a codebase whose source of truth is GitHub

`gh` and `remote` are GitHub's pull requests and its tracked branch; Act is what people do
there, and each act leaves a webhook in `inbox` or `pushes`. Two workers take webhooks in any
order (Receive, ReceivePush), a request opens or updates (StartCreate, PushBranch, Create, Get,
InsertOwn, UpdateOwn), imports (StartImport) or merges (StartMerge, SetMerging, Ask, MergeCall,
Rollback). An import is ImportPullRequest, FetchAndSnapshot, InsertImported, and ArchiveImported for
the draft of an import that found the row taken or failed; each of them is an access of its own, and
Fail may end the import before, between or instead of them. An update from a
webhook is Load, then Unarchive, Archive or the landing of a merge (MergePullRequest, FetchTrunk,
CreateChange, ArchiveWithChange), then Record; a push FetchTrunk, UnsetHead, UnsetUpToDate. Rows
are copied to `loc` and written back whole, as in the code. A pull request stands for the commit
its merge makes. History: `failed`; `stranded`: the drafts whose import was cut off while they were
open; and `disturbed`: the pull requests that were handled twice at a time, or out of order.

### BuildQueue: from a landing to the builds of its change

The channels in memory (`queue/inmemory.go`: look up the channel under the read lock, make
it under the write lock, send with a timeout) and SQS (visibility, redelivery, dead letters)
behind the one interface, chosen at the start; the publisher at the end of LandChange, the
subscriber, and the runner (`ci/workers/runner.go`) with its trigger of one integration after
another, its acknowledgement, its errors, its recovered panic and restarts. `split` is
history: the name has had two channels at a time.

### Statuses: builds, what they say, and the check before a landing

Triggers (TriggerWorkspace, the commit to the ci repository, its row, CreateBuild, SetPending)
of a draft and of the change it becomes; Buildkite (Run, Finish) and its webhooks in any order,
or lost (Webhook, LoseWebhook); integrations that come and go; and the first half of
LandChange (StartLand, Check, Land), which lists the statuses, finds out whether they are stale
and whether all are healthy, while the draft is edited and snapshotted. `shown` is the
newest row per commit and title, with the times that webhooks came; `disturbed` is
history: a row is newer than one about a later event.

### Discussions: what is said about a draft, and where a landing takes it

One statement on the database is a step; comments and reviews are written as whole rows from
a copy. Comments and replies (InsertComment, CommentActivity, CommentWatch, CommentTell),
their edits, resolution and deletion (ChangeComment, SaveComment), landings from Sturdy and
through GitHub, which move comments and activity in opposite orders (StartLanding, ListComments,
MoveComment, LandingActivity, SetChange, ArchiveWithChange), Unarchive, reviews
(CreateOrUpdateReview, RequestReview, Look, Replace, CreateReview, DismissReview), watchers,
activity marked as read, notifications. History: `raced` comments (written by two requests at
a time), `mixed` users (whose reviews were), `verdict` (the last that a user was asked or said),
`late` (what came after a landing had looked for it), `owed` (who must be told of which comment).

### Events: what clients are told

Two buses. The first (`pkg/events`) has a queue and one worker that calls a user's
subscriptions in turn (Take, Copy, Call, Deliver, Unreg); its events name what changed and the
subscription loads it. The second (`pkg/events/v2`) looks handlers up under a lock and calls each
in a goroutine (Pub, Spawn, Handle, Answer); its events carry what changed, or the resolver loads
it. A request changes a draft and then publishes (ChangeWorkspace, Publish); a connection
subscribes on one bus or on both (Subscribe, SubscribeUser, Sub), receives and leaves (Receive,
Leave, Leaving). Channels drop when they are full. Two places read a map of subscriptions without
its lock: there the runtime may end the process (Fatal). History: `base`, what was current when the
subscription began; `lost`, `mixed`, `late`: an event was dropped or could not be read, two
deliveries were on their way at once, the draft moved while the client subscribed.

## Runs

All state spaces are finite by the bounds in the cfg files, which count things that code
does not bound (requests, commits, jobs, edits, builds, failures). Every run has
`CHECK_DEADLOCK FALSE`: it may stop because its bounds are used up, or because a failed flock
call has left a lock taken.

| Run | Question | Instance |
|---|---|---|
| `file_lock` | Is a writer alone, in and between processes, whatever fails? Is everybody served? Does FileLock implement RWLock? | 2 processes with 2 and 1 threads, fairness |
| `drafts` | With one request at a time, is a workspace with a view what is checked out there? Does an open destroy only edits that raced it? | 3 workspaces, 2 views, 1 edit, 3 requests, 1 failure |
| | *Suggestions:* are the marked hunks those that were applied? Does the collector keep what is used, and is what can be found there? | 2 workspaces, 2 hunks, 2 requests at once, 4 in all, 2 snapshots, 1 collector, 1 failure |
| `drafts_watched` | Does every edit get into a snapshot? On a calm server, is every operation invisible in the drafts (Drafts implements DraftStore)? | 3 workspaces, 1 view, 1 edit, 3 requests, fairness |
| `drafts_move` | Does moving a workspace to another view keep its contents? *No.* | 2 workspaces, 2 views |
| `landing` | Does trunk only grow, do rows name as landed or as head only what is on it, is there one change per commit with the right parent? Are the caches right when requests come one by one? | 2 workspaces, 2 requests at once, 3 in all, with and without a remote, 2 commits, 1 failure |
| | *PullRequests:* do drafts become changes only by merges? One draft per pull request? Do Sturdy and GitHub agree, and does trunk catch up? | 2 pull requests, 2 workers, 1 request, 2 acts of people on GitHub or failures |
| `temp_views` | One job per view, views given back, a bounded pool, nothing left of earlier jobs? | 2 processes, 3 views, none or one of them free at the start, 2 jobs, 1 death or failed rename |
| | *Executor:* do the locks exclude, do functions run in the state that was asserted, does nobody wait in a circle? | 3 goroutines, 1 view and trunk, 2 branches, 11 executions |
| `executor_repair` | Does the repair of a view end? *No.* | 2 goroutines, 1 view, 2 executions, fairness |
| `sync` | After a sync, is the draft the user's edits and choices, and nothing else? Is anything written gone? Does a rebase end? | 2 files, 2 contents, 2 commits on trunk, 2 edits, 1 death, fairness |
| `build_queue` | Is a published change kept until its builds have started, and do they start? | 2 landings, 2 integrations, a channel of 1, 3 deliveries, 2 faults, fairness |
| | *Events:* do the buses move on whatever clients do, and are those who left forgotten? | 1 request, 1 connection at a time, 2 in all, 2 changes, a queue and a channel of 1, fairness |
| `statuses` | Was what lands built? Is the outcome of a build shown? | 2 triggers, 2 integrations, 2 builds, 2 versions, 1 fault |
| `discussions` | Does a landing take the discussion along? Is what is shown of a user the last he said? Who is told? Does anything come back? | 2 users, 2 requests at once, 3 in all, 2 landings, 1 failure |
| `events` | Does a client show the newest of what it has subscribed to? | 2 requests, 3 changes, 1 connection, 2 views, a queue and a channel of 1, 1 failed read or publication |

Why the bounds are enough to be interesting: two processes with a reader and a writer each
are needed for every exclusion property of the lock, and a third thread for the counter of
readers; the overlap of a request, the worker and mutagen needs one view for snapshots and
two for moves, and a third workspace to archive an open one (it is replaced by a new one);
a race of landings needs two requests, and a third commit to see a wrong parent; the pool is
at its limit with one free view and two processes; a conflict needs one file, and a second
one to be answered alone; positions of hunks shift with two; a message is out of order with two
workers; a channel is full with one place; a build is covered up by a second; a comment races
its landing with two requests and comes back with a second landing; two writers wait and a third
goroutine reads; an event overtakes another with two requests. The safety properties hold for all
values by the [proofs](#proofs). Larger instances than the runs' were checked once, with the
same outcome: Drafts with two requests at once (OverwritesOnlyRacedEdits, 3.5 million states),
Landing with 3 commits (1.1 million), TempViews with 3 jobs (2.8 million), Suggestions with 3
snapshots (0.5 million), Executor with all the executions but the repair (0.8 million; there
every execution also ends, under its fairness), Sync with 3 commits on trunk (11.2 million),
Events with 2 connections (5.0 million). Symmetry is used only for model values that the modules treat alike, and in no run with
a liveness property. MCSync starts with two of the trees a trunk of two files can have; the
others differ by names only, but for the empty one and the one with two contents.

**Serial and concurrent.** `drafts` and `drafts_watched` allow one *request* at a time, with
the queue worker, mutagen and edits in between: the module allows any number, and the
properties that then fail are listed under [known failures](#known-failures). All other runs have
several requests, workers or threads at once.

**Fairness.** `file_lock`: holders unlock and blocked threads are woken (weak fairness of
each step inside Lock, Unlock and RUnlock), strong fairness where a Go mutex hands over to a
waiter (LockAnnounce, and RUnlock's countMx), since Go's mutexes do not starve a waiter.
`drafts_watched`: goroutines run (weak fairness of each), mutagen posts what it has synced, the
worker reads its queue; no failures, since a crash loses the messages of the in-memory queue.
`sync`: a request that runs goes on, and a user who is in a conflict answers all of it in the end
(weak fairness of AnswerAll, which stays enabled: an answer for every file can be given).
`build_queue`: goroutines run, SQS delivers a visible message and makes one visible again; for
events, the worker, the goroutines of the second bus, publishers and those that end a connection
run on, while nothing is expected of clients. `executor_repair`: functions end, locks are handed
on (weak fairness of each goroutine, strong fairness of Lock, the mutex between writers, which
does not starve one). No fairness is assumed of other acts of users: nobody has to open, edit,
land or publish.

**History variables, and what the properties leave out.** Several properties say "unless two
requests had a copy at the same time", by a history variable (`raced`, `disturbed`, `mixed`,
`split`, `excused`, `torn`, `late`, `broken`, `overlap`). That is no convenience: the code has no
transactions, and there the property is false; [known failures](#known-failures) lists them.
What remains is what the code promises otherwise, with every other interleaving, failure and
order, and each has a mutant of the code that breaks it.

**Properties worth explaining.**

* `OverwritesOnlyRacedEdits`: a forced checkout in OpenWorkspace destroys files. The property
  says exactly which edits may be gone: those synced after the workspace open on the view was
  looked up; everything else is in a snapshot. It holds for any number of requests at once, also
  after a failed open or archive, as the proof shows.
* `ImplementsDraftStore`: the draft of a workspace is *where the code looks for it*: on its view,
  else in its latest snapshot, else empty. Opening, archiving, unarchiving and snapshots leave
  that value alone.
* `LandedIsOnTrunk`: `workspaces.change_id` is written after the push, in a separate step, with
  errors and other landings in between.
* `ChangesMirrorCommits`: CreateAndLandFromView looks the head of trunk up again after it has
  made its commit; trunk may have moved. Insert is guarded only by an index whose violation the
  code does not expect there.
* `FindsOwnEdits`: the code never cleans a temporary view at the end; that the next job finds no
  files of the last one rests on every path that leaves files also leaving another branch
  than trunk, whose forced checkout removes them.
* `DraftIsOwnEdits`: the commit of a sync is reset at its end only if the rebase has made it. If the
  answers leave exactly trunk's files there is none, and a reset would put the reverse of
  trunk's last commit into the draft.
* `UsedIsKept`: the collector looks twice, half a second apart, at the row of *one* workspace and
  at suggestions.
* `ArchivedWhenMerged`: holds in every order of webhooks, for every failure.
* `OneDraft`: two deliveries of one webhook each make a workspace; the unique index on the
  rows of pull requests decides, and the loser must archive what it made, as must an import that
  fails. The archive is a later access of its own (`service_import.go:254`, `:291`): only a draft whose
  own archive failed, or whose import was cut off before it, may stay open without a pull request
  (`stranded`). A failure elsewhere, or of another import, excuses nothing.
* `EnqueuedIsKept`: with SQS for every failure, with channels only without one.
* `DraftIsOwnEdits` counts as the user's an edit only as long as trunk has not got the same: a
  file that both have changed alike is trunk's when a sync is done (StillMine).
* `LandedWasBuilt`: about landings of the files of the latest snapshot; LandChange checks the
  statuses of the snapshot and lands the files of the view. The integrations are triggered in any
  order: the query that lists them has none.
* `NoCircularWait`: a landing holds the lock of a view and asks for one of trunk; a reader that comes
  behind a waiting writer waits for it. RepairView is left out: see the findings.
* `InExpectedState`: the checks and the functions are scheduled as separate functions; that nothing
  comes in between rests on the modes of both locks.
* `ShownIsCurrent`: a client that subscribes, then reads, then is told of changes through two buses
  ends up with the newest, also when the draft moved to another view; unless `lost`, `mixed` or
  `late`.

## Findings

Two runs show that the code does something else than its own comment says.

* `drafts_move`, `views/service/service.go:114`. Opening a workspace that is open on another
  view takes a snapshot, "also used to move the contents to the new view" (line 99), and then
  restores the snapshot named by the copy of the row that the caller had read before. What
  was edited since the previous snapshot is not on the new view. (The tests' in-memory
  repositories share pointers, so that the stale copy is updated by accident.)
* `executor_repair`, `views/graphql/viewResolver.go:335`. RepairView recreates a view in a scheduled
  function, that is under the write lock of the view, and "restore[s] the workspace afterwards"
  (line 264): for a view with a workspace that takes a snapshot which asks for the read lock of the
  same view. The goroutine waits for itself for ever, and everybody who uses the view with it.
  `codebase_github_integration_import.go:119` does the same.

## Known failures

Behaviours of the models, and of the code they translate, that break properties one might
expect. They have no run of their own; each line says where it is seen.

In Drafts, with more than one request at a time (`Request = {r1, r2}`):

* *Two opens on one view* interleave between Lookup and Link; both workspaces get the view:
  `\A v \in View : Cardinality(OpenOn(v)) <= 1` fails, and so does LinkedIsCheckedOut.
* *A queued snapshot of the wrong branch* (one request is enough): the worker takes a snapshot
  for the workspace that the view had when it was enqueued; the view shows another by now, no
  branch is asserted (`snapshots/service/service.go:401`), although the worker handles
  `ErrCantSnapshotWrongBranch`: `[][\A a : SnapExec(a) => disk[snap[a].view].branch = snap[a].ws]_vars`.
* *A report of synced files undoes an open* (one request is enough): SyncTransitions means to set
  `last_used_at` and writes all columns, `workspace_id` included
  (`mutagen/routes/transition.go:71`): `[][\A v : SyncWrite(v) => UNCHANGED viewWs]_vars`.
* *Two snapshots of one workspace* may be marked as the latest in the other order than
  they were taken (SnapExec and SnapSave are separate steps).

In Landing:

* *A refused push does not restore the view.* The deferred "if something went wrong, restore
  the view to how it was" (`changes/service/land.go:42`) has been passed over when the push is
  made (`land/service/service.go:174`): the draft stays committed in the view, the change stays
  in the table, and a retry finds nothing to land (Push ends with `~draft[w]`).
* *The cached head change* can be old for good: HeadChange writes what it computed before a
  landing set the new head (two requests, HeadCacheRight).
* *"Up to date" answers* can be wrong for good when the answer is computed before and saved
  after trunk moves (two requests, UpToDateRight), and for a workspace
  that was archived while another landed: landing clears the answers of workspaces that are not
  archived, Unarchive clears none (one request, the same without `unarchived`).
* *Settings of the codebase and the cached head* undo each other: both are saved by
  updates of the whole row. SaveSettings brings back the head it has read (two requests,
  HeadCacheRight); a setting that SaveHead brings back is not in the model.
* *A pull during a tracked landing* force-fetches the tracked branch and takes the landed commit
  off sturdytrunk before PushTrunk has pushed it (TrunkOnlyGrows without `~tracked`).

In TempViews: a view taken from the pool fetches only the head of trunk
(`views/vcs/vcs.go:62`, called at `vcs/executor/executor.go:367`), and CheckoutSnapshot fetches
nothing, so that a job about a snapshot younger than the view's clone fails, although
ExecTemporaryView documents "cloning it from the trunk". A server that dies in a job leaves a
`using-` directory that nothing ever finds again (`lost`).

In Sync:

* *A death between the commit of the rebased files and the reset*: AssertBranchName lets the
  detached HEAD pass, the next sync finds no changes and checks trunk out by force. The draft is
  empty; its files are on a branch nobody looks at (NothingGone holds by `kept`).
* *Edits during a sync*: files are checked out by force in several places; what mutagen writes
  between the commit and the checkout is gone (`raced`).
* *The stash is never dropped*: later syncs apply it again; one that does not fit fails that
  sync between the commit and the reset (PopFails).

In Suggestions:

* *Two requests on one suggestion*: the later whole-row update drops the hunks of the other.
* *Positions lose their meaning* when the suggesting workspace takes another snapshot.
* *The second check of the collector* ("skipping", `gc/service/service.go:229`) keeps the branch and
  returns no error: the caller deletes the row of a snapshot in use.
* *RemovePatches for a draft without a view* dereferences the view it has not got
  (`suggestions/service/service.go:417`).
* *Shared snapshots*: GetBySnapshotID returns one workspace; an archived one may hide the one
  in use.

In PullRequests:

* *A step of a merge fails after GitHub has merged* (`importing/pull_request.go:171`): the row stays
  "merging", webhooks are ignored and no request finds an open pull request any more.
* *A late "synchronize"* taken after the merge unarchives the merged draft and says open; *a
  close during a merge* is dropped, and the rollback writes "open" over it.
* *GitHub tells of a pull request before the request that made it has its row*: it is imported
  as a second draft, and the first loses it.
* *The merge commit was imported as a change before* (by a question for trunk's head): the
  draft is not archived although the row says merged.
* *An import fails and then its archive fails, or the server ends in between*
  (`service_import.go:255`, `:292`): an open draft without a pull request stays. The pull request is
  imported again with the next webhook, as another draft.
* *A failed handler acknowledges its webhook*: Sturdy keeps the older state until the next one.

In Executor:

* *Write and GitWrite do not exclude each other*: Write takes the lock of the files only, GitWrite
  and GitRead the one in memory only, so that both may change `.git` at once (LocksExclude says what
  does hold).
* *What has only the lock in memory* is checked for a rebase at its start, and a Write may start one
  before its function runs; InExpectedState is about functions that use the files.

In Events:

* *New comments are not told to those who look at the draft*: the resolver heeds the events that name
  another draft and skips its own (`comments/graphql/resolver.go:226`, `!=` for `==`).
* *A dismissed review* is published with its own id where readers expect the id of the draft
  (`review/graphql/root.go:316`).
* *A full channel drops the event*, and the last one may be the dropped one (`lost`).
* *The second bus reorders*: each handler is a goroutine, and an event carries or loads what was
  current when it was handled; an older value may arrive last (`mixed`).
* *The maps of subscriptions are read without the lock* in two places (Fatal): a concurrent write ends
  the process.
* *A draft that cannot be read again* leaves the subscription to its diffs without one; the next event
  panics, and the subscription is removed.
* *A draft that moves to another view while a client subscribes* to its diffs is followed on the old one
  until its next event (`late`).

In BuildQueue and Statuses:

* *Two channels of one name*: getChannel does not look again under the write lock, and what is
  published to the lost one waits for ever (`split`). *A full channel*: Publish gives up, and
  the landing only logs it. *A panic* ends the runner until the next restart.
* *A trigger stops at the first integration that fails*, and the healthy statuses of those before
  are enough to land.
* *Edits after the snapshot land unbuilt*: the statuses are about the latest snapshot, what
  lands are the files of the view some time later.
* *Late webhooks*, or a pending status set after the outcome came, cover up the outcome.

In Discussions:

* *Replies stay with the draft* when it lands (`comments/service/service.go:22` lists the comments
  without a parent only).
* *A comment that is deleted, edited or resolved while its draft lands* comes back as it was: the
  landing lists comments and writes them back whole.
* *A review is marked as replaced before its successor exists*: a failure in between leaves
  the user without a verdict, two at a time leave two.
* *Activity marked as read at the same time as a landing* meets the unique index on reads, and the
  landing fails after its push.

## Proofs

TLAPS proves the following for every value of the constants: any number of threads,
processes, workspaces, views, edits, requests, commits, messages and failures.

| Module | Theorem | Property |
|---|---|---|
| FileLockProofs | TypeCorrect, InProcess, CrossProcess, QuietProcess | TypeOK, InProcessExclusion, CrossProcessExclusion, QuietProcessHoldsNoFile |
| FileLockProofs | Refinement | ImplementsRWLock |
| DraftsProofs | TypeCorrect | TypeOK, under any number of concurrent requests |
| DraftsProofs | OverwritesRaced | OverwritesOnlyRacedEdits, for any number of requests |
| DraftsProofs | DraftsAreKept | ImplementsDraftStore: the refinement of DraftStore, for one view |
| DraftsProofs | SerialInvariant, CheckedOutWhileSerial | SerialInv, LinkedIsCheckedOut, for one request at a time |
| DraftsProofs | UsedSnapshotsKept, LiveCheckedOut, MarksTold | UsedIsKept, LiveOnTrunk, MarksAreTrue of Suggestions |
| LandingProofs | TypeCorrect, Mirror, Landed, CachedHead, TrunkGrows | TypeOK, ChangesMirrorCommits, LandedIsOnTrunk, CachedHeadIsOnTrunk, TrunkOnlyGrows |
| LandingProofs | Caches | CachesRight |
| LandingProofs | ArchivedOnlyWhenMerged, OneDraftEach, PushesCaughtUp, QuietMeansAgreed | ArchivedWhenMerged, OneDraft, TrunkCatchesUp, QuietAgrees of PullRequests |
| TempViewsProofs | TypeCorrect, HeldByOne, Bounded, OwnEdits | TypeOK, UsedByItsJob, PoolBounded, FindsOwnEdits |
| TempViewsProofs | Exclusive, Undisturbed, EverybodyGetsOn | LocksExclude, InExpectedState, NoCircularWait of Executor |
| BuildQueueProofs | TypeCorrect, Invariant, KeptUntilBuilt | TypeOK, IInv, EnqueuedIsKept |
| BuildQueueProofs | EventsKnown, ToldOfTheNewest | EventsOK, ShownIsCurrent of Events |
| SyncProofs | TypeCorrect, NothingIsGone, DraftIsOwn | TypeOK, NothingGone, DraftIsOwnEdits |
| StatusesProofs | TypeCorrect, LandedBuilt, OutcomeIsShown | TypeOK, LandedWasBuilt, OutcomeShown |
| DiscussionsProofs | TypeCorrect, LandingTakes, LastIsShown | TypeOK, LandingTakesAll, ShownIsLast |
| DiscussionsProofs | ConcernedTold, NothingIsTakenBack | ConcernedAreTold, NothingTakenBack |

**Assumptions.** The named ASSUMEs of the modules: finitely many threads, processes and views,
`none` is no workspace and no view, the worker is not a request, bounds are natural numbers,
the two marks of `sync` are no
workspaces, trunk is no workspace's branch, the placeholders of BuildQueue are no changes; trunk is no
view, at least one draft may exist (PullRequests begins with one), no branch has the name that stands
for none, what goroutines start is one of the program's executions; the original of suggestions is
a workspace, and hunks are numbers; in Events every connection has a user, `none` is no view and
no connection, and subscriptions are of the four kinds that are modelled.

**FileLock.** Exclusion alone is not inductive: whether a reader of another process may hold
the file depends on who dropped the shared lock, that on the count, and that on the mutex. `IInv`
relates them: the mutex excludes (MuExclusive), the counter is the number of readers between
RLock and RUnlock (CountIsReaders, by the cardinality theorems), an exclusive kernel lock is the
only one (KernelExclusive), holders have the lock of the file that they think they have
(HoldersHaveFile), and flags are set only while somebody uses the lock (FlagsHaveUsers). The
last two hold until a LOCK_UN fails, which is why the properties between processes are
conditional on that.

**Drafts.** That a linked workspace is checked out rests on the progress of the request that
opens it: between Detach and Checkout nobody may be open on the view, between Checkout and Link
the branch must stay. `SerialInv` adds that (OnlyCurrentIsOpen), that remembered ids and views
exist (KnownIds, ViewsExist), and that goroutines have the local variables their position
needs (Locals). "One request at a time" is a hypothesis of the theorem, about the model's
Request set; the worker, mutagen and failures are unrestricted.

OverwritesRaced has no such hypothesis. What OpenWorkspace is about to overwrite is followed from
its lookup to its checkout (`SavesIt`): the snapshot has taken it, or it is in a row of snapshots, or
it was synced since. Others may restore, open or write on the same view meanwhile, but whatever
they put there is in a snapshot already or is an edit (Puts), and no step deletes a snapshot.

DraftsAreKept is about behaviours that have been calm so far, with one view (OneView, a hypothesis: with
two, opening a workspace that is open on the other view does lose edits, see the findings). `CInv` says
where drafts are while a request moves them: what is committed is what is in the draft (TakesDraft), the
closed workspace has its draft in its latest snapshot when it is detached, nobody has the view when
it is checked out by force, and its files are the draft of the workspace that is linked next (OpensIt).
Between requests the row of the view agrees with those of the workspaces (Settled), so that reports and
messages are about the workspace that is open (Reports). With that each step is one of DraftStore
(MakeEdit writes, SnapSave remembers, RestoreOnView and SetLatest go back) or leaves all drafts and
versions as they are (Unseen).

**Suggestions.** Proved of the instance `S` that MCDrafts has of it, from two invariants
(SuggestionsKnown). `KeptOK` is about the collector. UsedIsKept is not inductive: a collector that has
condemned a snapshot will delete it whoever uses it by then. So `Condemned` says of every snapshot in
the hands of a collector that, if it is used, it is excused; a use that begins after that is excused by
definition, and one that was there when the collector looked would have been seen, unless an archived
workspace shares the snapshot (Overlooked). LiveOnTrunk rests on the order of the deletions: whoever
has taken a branch goes on to the row, also after an error. `MarksOK` is about
the marks. At most one request makes a suggestion (MakersOK), and a request is where its task can be
(AtRow). Of a suggestion that nothing disturbs, at most one request has the row, and it knows what
it is about to write (Pending): up to the patch the row is what it has read, which is true; after the
patch its copy has the positions of what has been applied. That these are the marks of just those hunks
needs that a hunk has one position and a position one hunk (OnePosition, by the cardinality
theorems), and that the difference stays the same meanwhile (DiffKept).

**Landing.** Any number of requests at once. The invariant says what a request knows at each of
its steps (KnownOK, PlaceOK): from the cherry-pick to the insert a landing has a commit on
the one it has looked up and no change; from the insert on, the change of its commit; a reader
of the changelog the parent commit of its change. The heart is FreshOK: a commit that its
landing has not recorded yet is known to nobody else; it is not on trunk or the remote, no commit is
made on it, no other request carries it. So nobody can import it, and the insert, which checks
nothing, makes no second change. With TrunkOK (without a remote, whoever is about to
store a change as landed or as head carries one whose commit was pushed, and so does every
copy of the codebase's row) StoredOK follows, which gives LandedIsOnTrunk and
CachedHeadIsOnTrunk whatever stale row is written last. Growth of trunk and of the table is a lemma
about every step (Grows); TrunkOnlyGrows needs that only a tracked codebase pulls.

CachesRight is about behaviours without overlapping requests, so its invariant (CachesOK) says: as long
as there was no overlap, the caches are right when nobody is at work, and otherwise one request is, and
AtWork says how far it is: which of head and answers it has still to write, and what its copies are worth
(HeadOK, AnswersOK, SaysOK). That an answer computed some steps ago is still right needs that
commits made since are not above those there were (AncestorsSame), which is why `History` in Landing is
the smallest set closed under parents and no recursive function.

**PullRequests.** Proved of the instance `P` that MCLanding has of it, from two invariants
(PullRequestsKnown). `PullsOK` holds with any failures and in any order. It says what whoever handles a pull
request knows at each place of it that nobody can take away (Knows): an importer has a draft, an updater
the draft of the row, who records a merge that GitHub has merged and that the commit is on trunk, who
archives that the change was made by this merge; that GitHub tells of a pull request nothing after its
merge (HubOK); and who still owes trunk a fetch, or a row its oblivion (CatchingUp). ArchivedWhenMerged and
OneDraft need no hypothesis about orders: the change of a draft is written only by the actor that has just
made this change, together with "archived", Unarchive takes back both, and an import has its draft in
hand until it has the row, has archived it, or is cut off there, which makes the draft stranded
(HandledStays). `InOrder` is the part about runs without failures and pull requests that are
handled one by one: with nobody at work, what Sturdy does not know waits in the inbox (Still); with one
at work, what it was told is the last there is to tell unless more waits (InHand, one predicate for
imports, one for openings, one for merges, one for updates). QuietAgrees says nothing of a draft that
two pull requests share, and that is needed: the update of the other one may unarchive it (Sole).

**TempViews.** The invariant has three parts. Nobody else holds the view that a process holds, and
it is not free (so no rename can take it); a view on trunk has no edits, what was checked out for
a job is still there when its work begins; and the pool's size, with the names that are claimed
and not cloned yet, is at most MinPool - 1 plus the number of processes. Only NewName makes
the pool larger; at that moment fewer than MinPool views are free, and every other view of the
pool has a holder, which is one process per view.

**Executor.** Proved of the instance `X` that MCTempViews has of it. `XInv`: whoever holds a lock or waits
for it is an execution that has not ended, uses that repository, needs the lock in that mode and is
not still at the other one (Uses); an execution that is past a lock and not giving up has it
(HasOK); a writer past it has it alone (LockOK). With what the kinds of the functions say about the
modes (Modes) that is LocksExclude. `ExpInv` is about functions after the first: what the
check or the assertion in front has found is still so, because only functions that write files change
it, and whoever returns from one holds the lock of the files alone (Alone). NoCircularWait rests on a
rank: a goroutine waits only for one of a higher rank (Upwards), since files come before memory, a view
before trunk, and a writer that has a lock is above those that wait for it; that a stack is at most two
deep, a landing in a view and its look-up in trunk, is NestInv. It is proved for `"repairView" \notin
Offered`: with it a goroutine waits for itself, which is what the run executor_repair shows.

**BuildQueue.** `IInv == TypeOK /\ RunnerBuilds /\ OneChannel /\ EnqueuedIsKept`: the runner has
started the builds before the one it is at, and all of them when it acknowledges
(RunnerBuilds); while the name has had one channel, who publishes or reads has that one
(OneChannel). A message is then at each step in the channel that is read, in the pipe or in
hand, and Ack takes it only from a change that is built.

**Events.** Proved of the instance `E` that MCBuildQueue has of it. ShownIsCurrent is about the end, when
everything has been delivered. `EventsOK` says what holds on the way: what a client has not been told
yet is owed by a request, in the queue, at the worker, or with a goroutine that has not read yet; or it
has been read and is being delivered; or it is the last value in its channel (Informed). Two values on
their way would make the last one arbitrary: unless the history `mixed` says so there is one (Alone), and
reviews, which events carry, are the newest (OneReview). An event of the second bus counts only for the
view that the subscription follows: it is the right one or will be replaced by an event that comes
(KnowsView). Each of them needs that a client is subscribed to what it hears, and that nothing goes on
about a name that is used again (Registered). TLC checked EventsOK before it was proved, with one
connection in full. One conjunct turned out too weak: that a subscription
which has reached the first bus only is of a kind that uses both.

**Sync.** Two invariants. SafeOK gives NothingGone: at every position of a request, what the user has
written is in the files, in the commit, in the stash, or on the branch that was kept. StagesOK gives
DraftIsOwnEdits: at every position it says what trunk, commit, index and files have to do with one
another, so that what Reset takes back is exactly what the user has made of the trunk that is checked out.
The first attempt at it failed for a good reason: the history `mine` counted an edit as the user's
when trunk had got the same content from elsewhere, which only three commits on trunk show; StillMine
is the correction.

**Statuses.** An integration that a trigger has passed has a row for its commit (Recorded), so has each
webhook (HooksOK); the newest row is that of the last build unless something disturbed it (ShownOK);
a landing that has checked has seen all rows of the snapshot it has read (LandOK, ToldOK). The list
of integrations is a set of those still to be triggered, since the query that reads it has no order.

**Discussions.** A request that writes a row back holds a copy, and what the copy lacks is what raced
(HoldsOK, CopiesOK); a landing has moved what it has listed and lists what is not raced or late
(TakenOK); who is concerned is either told or on the list of a request that has not failed (OwedOK);
and the reviews of a user that are not replaced are the last he has said or one that a request has in
hand (ReviewsOK).

**Only model-checked:** liveness (`EveryRequestServed`, `EditsReachASnapshot`, `RebaseEnds`,
`EnqueuedIsBuilt`, `BusesMoveOn`, `LeftIsForgotten`), which is out of the prover's
reach. Every invariant and action property of a passing run is proved; LinkedIsCheckedOut for one request
at a time, ImplementsDraftStore for one view, NoCircularWait without the repair of a view, as said above.

## What is not covered

* File contents, patches and hunks: a draft is a set of edits, or just "edited", or two files with
  two contents (Sync), or one file whose hunks are positions (Suggestions).
* What a view's repository does under its lock is one step (but for Sync, which has the steps of
  its git commands), so that a crash in the middle of a git operation is not modelled.
* Landing does not assert the branch of the view (`land/service/service.go:189`): after the view
  was given to another workspace it commits that one's edits. Landing takes such a view to show no
  edits; that needs Drafts and Landing composed.
* Unarchive of a workspace that was never archived (the clients do not offer it); removal of a
  repository from GitHub, and settings of its row that a push writes back; GitHub installations,
  tokens and cloning; the broadcast over SNS; git gc; jobs of a build, statuses from GitHub; the
  place of a comment in a file; preferences and mails.
* A webhook whose handler was cut off by the server's end counts as handled, as it is with the queue in
  memory (SQS would deliver it once more); the files that a failed fetch of a pull request has already
  saved in the draft that is archived for it.
* The parent of a merged pull request is the base commit that GitHub reports, which need not be the
  parent of the merge commit (`importing/pull_request.go:303`): PullRequests lets GitHub report any
  commit of the branch, and states nothing about parents.
* The authorisation of requests, the validation of inputs, mail, metrics, parsing
  of diffs, transport, accounts, the clients themselves: not about the state that the
  properties are about, or pure input and output. `PROJECT.json` "components" gives the reason
  for each. They are most of the repository's lines, which is why the map covers a small share
  of them: the resolvers, routes and repositories around the modelled services translate
  requests and rows and decide nothing.

## Plan

In this order; the first twenty-one are done.

1. FileLock, RWLock with proofs.
2. Drafts, DraftStore with proofs of the serial invariant.
3. Landing with proofs.
4. TempViews with proofs.
5. Sync with conflicts.
6. Suggestions and the collection of snapshots.
7. PullRequests.
8. BuildQueue with proofs.
9. Statuses.
10. Discussions.
11. LandingProofs.
12. Events, Executor.
13. Proofs for Discussions, Sync, Statuses.
14. LandingProofs: CachesRight.
15. DraftsProofs: OverwritesOnlyRacedEdits.
16. Runs that put two models side by side.
17. DraftsProofs: the refinement of DraftStore, for a calm server with one view.
18. Proofs for Executor: LocksExclude, InExpectedState, NoCircularWait.
19. Proofs for PullRequests: ArchivedWhenMerged, OneDraft, TrunkCatchesUp, QuietAgrees.
20. Proofs for Suggestions: UsedIsKept, LiveOnTrunk, MarksAreTrue.
21. Proofs for Events: ShownIsCurrent.
22. Composition of Drafts and Landing (whose edits are committed when the view changes hands during
    a landing), and of Drafts and TempViews (RemovePatches in a temporary view marks its snapshot as
    the latest while another request opens the workspace).
