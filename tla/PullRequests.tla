---------------------------- MODULE PullRequests ----------------------------
(***************************************************************************)
(* Pull requests of a codebase whose source of truth is GitHub             *)
(* (github/enterprise: webhooks, service and service/importing).           *)
(*                                                                         *)
(* GitHub tells about pull requests and pushes in webhooks, which wait in  *)
(* a queue until one of five workers takes them.  Requests of users open,  *)
(* update, import and merge pull requests.  Both work on copies of rows    *)
(* that they have read before they talked to GitHub, and write them back   *)
(* whole.                                                                  *)
(*                                                                         *)
(* A pull request stands for the commit that merging it makes; a version   *)
(* of its branch is a number.  Forks are left out, views are in Drafts,    *)
(* and how trunk and its cached answers are read is in Landing.            *)
(***************************************************************************)
EXTENDS Naturals, Sequences, FiniteSets

CONSTANTS PR,           \* pull requests of the repository
          NoPR,         \* none of them
          Worker,       \* workers of the webhook queue
          Request,      \* goroutines of the API servers
          MaxWorkspaces,\* bound: drafts
          MaxHead,      \* bound: versions of a branch
          MaxActs,      \* bound: acts of people on GitHub, and failures
          MaxRequests   \* bound: requests started

VARIABLES gh,       \* pull requests on GitHub
          remote,   \* merges on the tracked branch of GitHub
          inbox,    \* webhooks about a pull request that wait
          pushes,   \* and webhooks about pushes to the tracked branch
          row,      \* rows of github_pull_requests
          ws,       \* rows of workspaces
          change,   \* rows of changes, by their commits
          trunk,    \* how many of the merges Sturdy's trunk has
          known,    \* answers about trunk that rows remember
          pc, loc,  \* where workers and requests are, and their locals
          acts, started,
          failed,   \* history: a call has failed
          stranded, \* history: drafts whose import was cut off
          disturbed \* history: pull requests handled twice at a time,
                    \* or in another order than GitHub told

vars == <<gh, remote, inbox, pushes, row, ws, change, trunk, known, pc, loc,
          acts, started, failed, stranded, disturbed>>

hub     == <<gh, remote, acts>>
queues  == <<inbox, pushes>>
sturdy  == <<change, trunk, known>>
counts  == <<started, failed, stranded, disturbed>>

Actor == Worker \union Request
WsId  == 1..MaxWorkspaces
Unknown == MaxActs + MaxRequests + 1

(* branch: the draft the branch is named after; base: the commit it was   *)
(* merged onto.                                                            *)
NoGH   == [st |-> "none", head |-> 0, branch |-> 0, base |-> 0]
NoRow  == [ws |-> 0, st |-> "open", importing |-> FALSE, head |-> 0]
NoWs   == [there |-> FALSE, archived |-> FALSE, unarchived |-> FALSE,
           change |-> NoPR, files |-> 0]
NoApi  == [st |-> "none", head |-> 0]
NoLoc  == [op |-> "none", p |-> NoPR, api |-> NoApi, row |-> NoRow,
           ws |-> NoWs, w |-> 0]

(* At first there is one draft, and perhaps a pull request made of it.     *)
Init ==
    /\ \E own \in {{}} \union {{p} : p \in PR} :
          /\ gh = [p \in PR |-> IF p \in own
                       THEN [NoGH EXCEPT !.st = "open", !.head = 1, !.branch = 1]
                       ELSE NoGH]
          /\ row = [p \in PR |-> IF p \in own THEN [NoRow EXCEPT !.ws = 1, !.head = 1]
                                  ELSE NoRow]
    /\ remote = <<>>
    /\ inbox = [p \in PR |-> <<>>] /\ pushes = 0
    /\ ws = [w \in WsId |-> IF w = 1 THEN [NoWs EXCEPT !.there = TRUE] ELSE NoWs]
    /\ change = [p \in PR |-> "none"]
    /\ trunk = 0
    /\ known = [head |-> Unknown, upToDate |-> Unknown]
    /\ pc = [a \in Actor |-> "idle"] /\ loc = [a \in Actor |-> NoLoc]
    /\ acts = 0 /\ started = 0
    /\ failed = FALSE /\ stranded = {} /\ disturbed = {}

Api(p)     == [st |-> gh[p].st, head |-> gh[p].head]
OnTrunk(p) == \E i \in 1..trunk : remote[i] = p
On(p)      == {a \in Actor : pc[a] # "idle" /\ loc[a].p = p}

Goto(a, l) == pc' = [pc EXCEPT ![a] = l]
Done(a)    == Goto(a, "idle") /\ loc' = [loc EXCEPT ![a] = NoLoc]
At(a, l)   == pc[a] = l

-----------------------------------------------------------------------------
(* GitHub.                                                                 *)

Told(p, g) == inbox' = [inbox EXCEPT ![p] = Append(@, [st |-> g.st, head |-> g.head])]

Act(p, g) ==
    /\ acts < MaxActs /\ acts' = acts + 1
    /\ gh' = [gh EXCEPT ![p] = g] /\ Told(p, g)
    /\ UNCHANGED <<row, ws, sturdy, pc, loc, counts>>

Open(p)    == /\ gh[p].st = "none"
              /\ Act(p, [NoGH EXCEPT !.st = "open", !.head = 1])
              /\ UNCHANGED <<remote, pushes>>
PushTo(p)  == /\ gh[p].st = "open" /\ gh[p].head < MaxHead
              /\ Act(p, [gh[p] EXCEPT !.head = @ + 1])
              /\ UNCHANGED <<remote, pushes>>
Close(p)   == /\ gh[p].st = "open" /\ Act(p, [gh[p] EXCEPT !.st = "closed"])
              /\ UNCHANGED <<remote, pushes>>
Reopen(p)  == /\ gh[p].st = "closed" /\ Act(p, [gh[p] EXCEPT !.st = "open"])
              /\ UNCHANGED <<remote, pushes>>

(* The base that GitHub reports is some commit of the tracked branch.      *)
Merged(p, b) == [gh[p] EXCEPT !.st = "merged", !.base = b]
Merge(p)   == /\ gh[p].st = "open"
              /\ \E b \in 0..Len(remote) : Act(p, Merged(p, b))
              /\ remote' = Append(remote, p) /\ pushes' = pushes + 1

GitHub == \E p \in PR : Open(p) \/ PushTo(p) \/ Close(p) \/ Reopen(p) \/ Merge(p)

-----------------------------------------------------------------------------
(* Webhooks.                                                               *)

Without(s, i) == [j \in 1..(Len(s) - 1) |-> IF j < i THEN s[j] ELSE s[j + 1]]

(* Where HandlePullRequestEvent goes with the row it has found.            *)
Handling(p, api) ==
    IF row[p].ws = 0 THEN IF api.st = "merged" THEN "idle" ELSE "import"
    ELSE IF row[p].st = "merging" THEN "idle" ELSE "load"

(* Who else is at work on a pull request that a webhook tells of.  A merge *)
(* that GitHub has made knows by itself what the webhook would tell.       *)
Competing(p) == {a \in On(p) : ~(loc[a].op = "merge" /\ row[p].st = "merging"
                                 /\ gh[p].st = "merged" /\ ~At(a, "rollback")
                                 /\ ~At(a, "mergeCall"))}

(* The queue has no order among five workers.                              *)
Receive(k, p, i) ==
    /\ At(k, "idle") /\ i \in DOMAIN inbox[p]
    /\ inbox' = [inbox EXCEPT ![p] = Without(@, i)]
    /\ LET api == inbox[p][i]  to == Handling(p, api) IN
       /\ Goto(k, to)
       /\ loc' = IF to = "idle" THEN loc
                 ELSE [loc EXCEPT ![k] = [NoLoc EXCEPT !.op = "event", !.p = p,
                                             !.api = api, !.row = row[p]]]
       /\ disturbed' = IF i # 1 \/ Competing(p) # {} THEN disturbed \union {p}
                       ELSE disturbed
    /\ UNCHANGED <<hub, pushes, row, ws, sturdy, started, failed, stranded>>

(* HandlePushEvent: fetch over trunk, then forget what was known of it.    *)
ReceivePush(k) ==
    /\ At(k, "idle") /\ pushes > 0
    /\ pushes' = pushes - 1
    /\ loc' = [loc EXCEPT ![k] = [NoLoc EXCEPT !.op = "push"]]
    /\ Goto(k, "fetchTrunk")
    /\ UNCHANGED <<hub, inbox, row, ws, sturdy, counts>>

(* FetchTrackedToSturdytrunk.                                              *)
FetchTrunk(a) ==
    /\ pc[a] \in {"fetchTrunk", "pull"}
    /\ trunk' = Len(remote)
    /\ Goto(a, IF At(a, "pull") THEN "change" ELSE "unsetHead")
    /\ UNCHANGED <<hub, queues, row, ws, change, known, loc, counts>>

(* Mutant: the cached head change survives a push.                         *)
UnsetHead_Keeps(k) ==
    /\ At(k, "unsetHead") /\ Goto(k, "unsetUpToDate")
    /\ UNCHANGED <<hub, queues, row, ws, sturdy, loc, counts>>

UnsetHead(k) ==
    /\ At(k, "unsetHead")
    /\ known' = [known EXCEPT !.head = Unknown]
    /\ Goto(k, "unsetUpToDate")
    /\ UNCHANGED <<hub, queues, row, ws, change, trunk, loc, counts>>

UnsetUpToDate(k) ==
    /\ At(k, "unsetUpToDate")
    /\ known' = [known EXCEPT !.upToDate = Unknown]
    /\ Done(k)
    /\ UNCHANGED <<hub, queues, row, ws, change, trunk, counts>>

-----------------------------------------------------------------------------
(* Importing a pull request as a new draft.                                *)

(* ImportPullRequest looks for the row once more and makes the draft ...   *)
ImportPullRequest(a) ==
    /\ At(a, "import")
    /\ IF row[loc[a].p].ws # 0 THEN Done(a) /\ UNCHANGED ws
       ELSE \E w \in WsId :
              /\ ~ws[w].there /\ \A v \in 1..(w - 1) : ws[v].there
              /\ ws' = [ws EXCEPT ![w] = [NoWs EXCEPT !.there = TRUE]]
              /\ loc' = [loc EXCEPT ![a].w = w]
              /\ Goto(a, "fetchNew")
    /\ UNCHANGED <<hub, queues, row, sturdy, counts>>

(* ... fetches the head that the webhook told of and saves it as the       *)
(* files of the draft, whatever they were ...                              *)
FetchAndSnapshot(a) ==
    /\ pc[a] \in {"fetchNew", "fetch"}
    /\ ws' = [ws EXCEPT ![loc[a].w].files = loc[a].api.head]
    /\ Goto(a, IF At(a, "fetch") THEN "record" ELSE "insert")
    /\ UNCHANGED <<hub, queues, row, sturdy, loc, counts>>

(* Mutant: the draft of a pull request that is imported already stays.     *)
InsertImported_Keeps(a) ==
    /\ At(a, "insert") /\ Done(a)
    /\ row' = IF row[loc[a].p].ws # 0 THEN row
              ELSE [row EXCEPT ![loc[a].p] = [ws |-> loc[a].w, st |-> "open",
                                   importing |-> TRUE, head |-> loc[a].api.head]]
    /\ UNCHANGED <<hub, queues, ws, sturdy, counts>>

(* ... and inserts the row, which is unique; who comes late has a draft    *)
(* to archive ...                                                          *)
InsertImported(a) ==
    LET p == loc[a].p IN
    /\ At(a, "insert")
    /\ IF row[p].ws = 0
       THEN /\ row' = [row EXCEPT ![p] = [ws |-> loc[a].w, st |-> "open",
                                   importing |-> TRUE, head |-> loc[a].api.head]]
            /\ Done(a)
       ELSE Goto(a, "archiveNew") /\ UNCHANGED <<row, loc>>
    /\ UNCHANGED <<hub, queues, ws, sturdy, counts>>

(* ... which is another access, as it is after an error (the draft is new: *)
(* nobody has unarchived it).                                              *)
ArchiveImported(a) ==
    /\ At(a, "archiveNew") /\ Done(a)
    /\ ws' = [ws EXCEPT ![loc[a].w].archived = TRUE]
    /\ UNCHANGED <<hub, queues, row, sturdy, counts>>

(* Where an import has made its draft and is not over.                     *)
HasDraft == {"fetchNew", "insert", "archiveNew"}

-----------------------------------------------------------------------------
(* UpdatePullRequestFromGitHub: l.row is the row as it was read, l.api     *)
(* what GitHub has told, l.ws the draft as it was read.                    *)

AfterLoad(l) ==
    CASE l.api.st = "open" /\ l.row.importing   -> "unarchive"
      [] l.api.st = "closed" /\ l.row.importing -> "archive"
      [] l.api.st = "merged"                    -> "merge"
      [] OTHER                                  -> "record"

(* A merge writes what GitHub says now while older webhooks still wait.    *)
Ahead(a) == loc[a].op = "merge" /\ \E i \in DOMAIN inbox[loc[a].p] :
                                       inbox[loc[a].p][i].st # "merged"

Load(a) ==
    /\ At(a, "load")
    /\ loc' = [loc EXCEPT ![a].w = loc[a].row.ws, ![a].ws = ws[loc[a].row.ws]]
    /\ Goto(a, AfterLoad(loc[a]))
    /\ disturbed' = IF Ahead(a) THEN disturbed \union {loc[a].p} ELSE disturbed
    /\ UNCHANGED <<hub, queues, row, ws, sturdy, started, failed, stranded>>

Unarchive(a) ==
    /\ At(a, "unarchive") /\ Goto(a, "fetch")
    /\ ws' = IF loc[a].ws.unarchived THEN ws
             ELSE [ws EXCEPT ![loc[a].w].archived = FALSE,
                             ![loc[a].w].unarchived = TRUE,
                             ![loc[a].w].change = NoPR]
    /\ UNCHANGED <<hub, queues, row, sturdy, loc, counts>>

Archive(a) ==
    /\ At(a, "archive") /\ Goto(a, "record")
    /\ ws' = IF loc[a].ws.archived THEN ws
             ELSE [ws EXCEPT ![loc[a].w].archived = TRUE,
                             ![loc[a].w].unarchived = FALSE]
    /\ UNCHANGED <<hub, queues, row, sturdy, loc, counts>>

(* Mutant: the merge commit is not pulled before its change is made.       *)
MergePullRequest_NoPull(a) ==
    /\ At(a, "merge")
    /\ loc' = [loc EXCEPT ![a].ws = ws[loc[a].w]]
    /\ Goto(a, IF loc[a].row.st = "merged" /\ ws[loc[a].w].change # NoPR
               THEN "record" ELSE "change")
    /\ UNCHANGED <<hub, queues, row, ws, sturdy, counts>>

(* mergePullRequest reads the draft again.                                 *)
MergePullRequest(a) ==
    LET p == loc[a].p  now == ws[loc[a].w] IN
    /\ At(a, "merge")
    /\ loc' = [loc EXCEPT ![a].ws = now]
    /\ Goto(a, IF loc[a].row.st = "merged" /\ now.change # NoPR THEN "record"
               ELSE IF OnTrunk(p) THEN "change" ELSE "pull")
    /\ UNCHANGED <<hub, queues, row, ws, sturdy, counts>>

(* Looking up the change of the base imports it if nobody has made one.    *)
WithParent(p) ==
    LET b == gh[p].base IN
    IF b > 0 /\ change[remote[b]] = "none"
    THEN [change EXCEPT ![remote[b]] = "imported"] ELSE change

(* A commit has one change: the merge is over if there is one already.     *)
CreateChange(a) ==
    LET p == loc[a].p IN
    /\ At(a, "change")
    /\ change' = IF change[p] = "none" THEN [WithParent(p) EXCEPT ![p] = "merged"]
                 ELSE WithParent(p)
    /\ Goto(a, IF change[p] = "none" THEN "after" ELSE "record")
    /\ UNCHANGED <<hub, queues, row, ws, trunk, known, loc, counts>>

(* Up-to-date answers, activity and comments of the draft.                 *)
AfterChange(a) ==
    /\ At(a, "after") /\ Goto(a, "archiveWith")
    /\ known' = [known EXCEPT !.upToDate = Unknown]
    /\ UNCHANGED <<hub, queues, row, ws, change, trunk, loc, counts>>

ArchiveWithChange(a) ==
    /\ At(a, "archiveWith") /\ Goto(a, "record")
    /\ ws' = IF loc[a].ws.archived THEN ws
             ELSE [ws EXCEPT ![loc[a].w].archived = TRUE,
                             ![loc[a].w].unarchived = FALSE,
                             ![loc[a].w].change = loc[a].p]
    /\ UNCHANGED <<hub, queues, row, sturdy, loc, counts>>

(* Update writes these columns from the copy that was read at the start.   *)
Written(p, r) == [row EXCEPT ![p].st = r.st, ![p].head = r.head,
                             ![p].importing = r.importing]

(* Mutant: GetPRState does not ask GetMerged.                              *)
Record_NotMerged(a) ==
    /\ At(a, "record") /\ Done(a)
    /\ row' = Written(loc[a].p, [loc[a].row EXCEPT
                 !.st = IF loc[a].api.st = "merged" THEN "closed" ELSE loc[a].api.st])
    /\ UNCHANGED <<hub, queues, ws, sturdy, counts>>

(* UpdatePRFromGitHub.                                                     *)
Record(a) ==
    /\ At(a, "record") /\ Done(a)
    /\ row' = Written(loc[a].p, [loc[a].row EXCEPT !.st = loc[a].api.st])
    /\ UNCHANGED <<hub, queues, ws, sturdy, counts>>

UpdateStep(a) ==
    \/ ImportPullRequest(a) \/ FetchAndSnapshot(a) \/ InsertImported(a) \/ ArchiveImported(a)
    \/ Load(a) \/ Unarchive(a) \/ Archive(a) \/ MergePullRequest(a)
    \/ FetchTrunk(a) \/ CreateChange(a) \/ AfterChange(a)
    \/ ArchiveWithChange(a) \/ Record(a)

-----------------------------------------------------------------------------
(* Merging from Sturdy.                                                    *)

Begin(r, l, to) ==
    /\ At(r, "idle") /\ started < MaxRequests
    /\ started' = started + 1
    /\ loc' = [loc EXCEPT ![r] = l]
    /\ Goto(r, to)
    /\ disturbed' = IF l.p # NoPR /\ On(l.p) # {} THEN disturbed \union {l.p}
                    ELSE disturbed
    /\ UNCHANGED <<hub, queues, row, ws, sturdy, failed, stranded>>

Rows(w, S) == {p \in PR : row[p].ws = w /\ row[p].st \in S}

(* The draft must have exactly one open pull request.                      *)
StartMerge(r, w) ==
    /\ w # 0 /\ Cardinality(Rows(w, {"open"})) = 1
    /\ \E p \in Rows(w, {"open"}) :
          Begin(r, [NoLoc EXCEPT !.op = "merge", !.p = p, !.row = row[p], !.w = w],
                "setMerging")

(* "merging" is written to the row and to the request's copy of it.        *)
SetMerging(r) ==
    /\ At(r, "setMerging") /\ Goto(r, "ask")
    /\ loc' = [loc EXCEPT ![r].row.st = "merging"]
    /\ row' = Written(loc[r].p, [loc[r].row EXCEPT !.st = "merging"])
    /\ UNCHANGED <<hub, queues, ws, sturdy, counts>>

(* Is it merged already?                                                   *)
Ask(r) ==
    /\ At(r, "ask")
    /\ IF gh[loc[r].p].st = "merged"
       THEN Goto(r, "load") /\ loc' = [loc EXCEPT ![r].api = Api(loc[r].p)]
       ELSE Goto(r, "mergeCall") /\ UNCHANGED loc
    /\ UNCHANGED <<hub, queues, row, ws, sturdy, counts>>

(* GitHub merges, and tells everybody, or it refuses.                      *)
MergeCall(r) ==
    LET p == loc[r].p IN
    /\ At(r, "mergeCall")
    /\ \/ /\ gh[p].st = "open" /\ Goto(r, "get")
          /\ \E b \in 0..Len(remote) : /\ gh' = [gh EXCEPT ![p] = Merged(p, b)]
                                       /\ Told(p, Merged(p, b))
          /\ remote' = Append(remote, p) /\ pushes' = pushes + 1
       \/ Goto(r, "rollback") /\ UNCHANGED <<gh, remote, queues>>
    /\ UNCHANGED <<acts, row, ws, sturdy, loc, counts>>

(* The state that was open comes back.                                     *)
Rollback(r) ==
    /\ At(r, "rollback") /\ Done(r)
    /\ row' = Written(loc[r].p, [loc[r].row EXCEPT !.st = "open"])
    /\ UNCHANGED <<hub, queues, ws, sturdy, counts>>

Get(r) ==
    /\ At(r, "get") /\ Goto(r, "load")
    /\ loc' = [loc EXCEPT ![r].api = Api(loc[r].p)]
    /\ UNCHANGED <<hub, queues, row, ws, sturdy, counts>>

MergeStep(r) == SetMerging(r) \/ Ask(r) \/ MergeCall(r) \/ Rollback(r) \/ Get(r)

-----------------------------------------------------------------------------
(* CreateOrUpdatePullRequest: the request works on the primary pull        *)
(* request of the draft if it is open, and makes one if there is none.     *)

StartCreate(r, w) ==
    /\ ws[w].there
    /\ IF Rows(w, {"open"}) = {}
       THEN Begin(r, [NoLoc EXCEPT !.op = "create", !.w = w], "pushBranch")
       ELSE \E p \in Rows(w, {"open"}) :
              Begin(r, [NoLoc EXCEPT !.op = "create", !.p = p, !.row = row[p],
                                     !.w = w], "pushBranch")

(* The branch is pushed by force: onto the head of the pull request, or    *)
(* onto a branch named after the draft.                                    *)
Pushed(l) == {p \in PR : /\ gh[p].st = "open" /\ gh[p].head < MaxHead
                         /\ (p = l.p \/ (l.p = NoPR /\ gh[p].branch = l.w))}

PushBranch(r) ==
    /\ At(r, "pushBranch")
    /\ Goto(r, IF loc[r].p = NoPR THEN "create" ELSE "edit")
    /\ gh' = [p \in PR |-> IF p \in Pushed(loc[r]) THEN [gh[p] EXCEPT !.head = @ + 1]
                           ELSE gh[p]]
    /\ inbox' = [p \in PR |-> IF p \in Pushed(loc[r])
                    THEN Append(inbox[p], [st |-> gh'[p].st, head |-> gh'[p].head])
                    ELSE inbox[p]]
    /\ UNCHANGED <<remote, acts, pushes, row, ws, sturdy, loc, counts>>

(* GitHub refuses a second open pull request for a branch.                 *)
Create(r) ==
    LET w == loc[r].w
        taken == \E p \in PR : gh[p].st = "open" /\ gh[p].branch = w
    IN
    /\ At(r, "create")
    /\ IF taken \/ \A p \in PR : gh[p].st # "none"
       THEN Done(r) /\ UNCHANGED <<gh, inbox>>
       ELSE \E p \in {q \in PR : gh[q].st = "none"} :
              LET g == [NoGH EXCEPT !.st = "open", !.head = 1, !.branch = w] IN
              /\ gh' = [gh EXCEPT ![p] = g] /\ Told(p, g)
              /\ loc' = [loc EXCEPT ![r].p = p]
              /\ Goto(r, "insertOwn")
    /\ UNCHANGED <<remote, acts, pushes, row, ws, sturdy, counts>>

(* The webhook may have imported it before the request inserts its row.    *)
InsertOwn(r) ==
    LET p == loc[r].p IN
    /\ At(r, "insertOwn") /\ Done(r)
    /\ row' = IF row[p].ws # 0 THEN row
              ELSE [row EXCEPT ![p] = [ws |-> loc[r].w, st |-> "open",
                                       importing |-> FALSE, head |-> gh[p].head]]
    /\ UNCHANGED <<hub, queues, ws, sturdy, counts>>

(* Title and description are edited; the draft is Sturdy's from now on.    *)
UpdateOwn(r) ==
    LET p == loc[r].p IN
    /\ At(r, "edit") /\ Done(r)
    /\ row' = Written(p, [loc[r].row EXCEPT !.head = gh[p].head, !.importing = FALSE])
    /\ UNCHANGED <<hub, queues, ws, sturdy, counts>>

CreateStep(r) == PushBranch(r) \/ Create(r) \/ InsertOwn(r) \/ UpdateOwn(r)

(* ImportOpenPullRequestsByUser takes the open pull requests of a list one *)
(* after another, and ends with the first that fails: each stands for      *)
(* itself here.                                                            *)
StartImport(r, p) ==
    /\ gh[p].st = "open"
    /\ Begin(r, [NoLoc EXCEPT !.op = "import", !.p = p, !.api = Api(p)], "import")

-----------------------------------------------------------------------------
(* Questions about trunk whose answers rows remember until they are unset. *)

HeadChange ==
    /\ known.head = Unknown /\ trunk > 0
    /\ known' = [known EXCEPT !.head = trunk]
    /\ change' = [change EXCEPT ![remote[trunk]] = IF @ = "none" THEN "imported" ELSE @]
    /\ UNCHANGED <<hub, queues, row, ws, trunk, pc, loc, counts>>

UpToDateWithTrunk ==
    /\ known.upToDate = Unknown
    /\ known' = [known EXCEPT !.upToDate = trunk]
    /\ UNCHANGED <<hub, queues, row, ws, change, trunk, pc, loc, counts>>

-----------------------------------------------------------------------------
(* A call fails, the client of a request has gone, or the server ends:     *)
(* what was written stays, and the message is acknowledged nevertheless.   *)
(* An import that cannot fetch, or not insert, has its draft to archive;   *)
(* if that fails too, or is not reached, the draft is left as it is.  A    *)
(* merge that GitHub has made may look like a failure.                     *)
Fail(a) ==
    /\ ~At(a, "idle") /\ acts < MaxActs /\ acts' = acts + 1
    /\ failed' = TRUE
    /\ \/ Done(a) /\ UNCHANGED <<gh, remote, queues>>
       \/ /\ At(a, "fetchNew") \/ At(a, "insert")
          /\ Goto(a, "archiveNew") /\ UNCHANGED <<gh, remote, queues, loc>>
       \/ /\ At(a, "ask") /\ Goto(a, "mergeCall")
          /\ UNCHANGED <<gh, remote, queues, loc>>
       \/ /\ At(a, "mergeCall") /\ gh[loc[a].p].st = "open"
          /\ gh' = [gh EXCEPT ![loc[a].p] = Merged(loc[a].p, 0)]
          /\ Told(loc[a].p, Merged(loc[a].p, 0))
          /\ remote' = Append(remote, loc[a].p) /\ pushes' = pushes + 1
          /\ Goto(a, "rollback") /\ UNCHANGED loc
    /\ stranded' = IF pc[a] \in HasDraft /\ pc'[a] = "idle"
                   THEN stranded \union {loc[a].w} ELSE stranded
    /\ UNCHANGED <<row, ws, sturdy, started, disturbed>>

Receiving(k) == \/ ReceivePush(k)
                \/ \E p \in PR : \E i \in DOMAIN inbox[p] : Receive(k, p, i)

Step(a) == UpdateStep(a) \/ UnsetHead(a) \/ UnsetUpToDate(a) \/ MergeStep(a) \/ CreateStep(a)

Start(r) == \/ \E w \in WsId : StartMerge(r, w) \/ StartCreate(r, w)
            \/ \E p \in PR : StartImport(r, p)

Next == \/ GitHub \/ HeadChange \/ UpToDateWithTrunk
        \/ \E k \in Worker : Receiving(k)
        \/ \E r \in Request : Start(r)
        \/ \E a \in Actor : Step(a) \/ Fail(a)

Spec == Init /\ [][Next]_vars

-----------------------------------------------------------------------------
(* Properties.                                                             *)

(* A draft that says which change it became was merged: on GitHub, in      *)
(* Sturdy's trunk, and by a change made for it, however webhooks, requests *)
(* and failures interleave (ArchiveWithChange is the last of many steps).  *)
ArchivedWhenMerged ==
    \A w \in WsId : ws[w].change # NoPR =>
        /\ ws[w].archived /\ OnTrunk(ws[w].change)
        /\ change[ws[w].change] = "merged"

(* Two deliveries, or a webhook and an import, never leave two drafts for  *)
(* one pull request, and an import that failed leaves none: a draft made   *)
(* by an import has the row, is being imported, or is archived             *)
(* (service_import.go: ErrAlreadyExists, "archive the workspace that we    *)
(* created").  The one exception is a draft whose own import was cut off   *)
(* before the archive, or whose archive failed.                            *)
OneDraft ==
    \A w \in WsId \ {1} : ws[w].there /\ ~ws[w].archived =>
        \/ \E p \in PR : row[p].ws = w
        \/ \E a \in Actor : pc[a] \in HasDraft /\ loc[a].w = w
        \/ w \in stranded

(* When nobody handles a pull request, its webhooks are handled, in order  *)
(* and one by one, and nothing failed, Sturdy agrees with GitHub: it has   *)
(* the row, the row's state is GitHub's, and a draft of this pull request  *)
(* alone whose change Sturdy made is archived with it.                     *)
QuietAgrees ==
    \A p \in PR \ disturbed :
        (~failed /\ inbox[p] = <<>> /\ On(p) = {} /\ gh[p].st # "none") =>
            /\ row[p].ws = 0 => gh[p].st = "merged"
            /\ row[p].ws # 0 => row[p].st = gh[p].st
            /\ (row[p].ws # 0 /\ change[p] = "merged"
                /\ \A q \in PR \ {p} : row[q].ws # row[p].ws)
                    => ws[row[p].ws].archived

(* Once the webhooks of all pushes are handled, trunk is what GitHub has,  *)
(* and no row remembers an answer about an older trunk (a question takes   *)
(* no time here; Landing shows what one that takes longer can do).         *)
TrunkCatchesUp ==
    (~failed /\ pushes = 0 /\ \A a \in Actor : loc[a].op # "push") =>
        /\ trunk = Len(remote)
        /\ known.head \in {Unknown, trunk} /\ known.upToDate \in {Unknown, trunk}

=============================================================================
