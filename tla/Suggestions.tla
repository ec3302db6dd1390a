---------------------------- MODULE Suggestions ----------------------------
(***************************************************************************)
(* Suggestions, the snapshots they are made of, and the garbage collector  *)
(* of snapshots (suggestions/service, gc/service).                         *)
(*                                                                         *)
(* A suggestion is a workspace of its own that starts with the files of    *)
(* somebody's draft.  What it suggests is the difference between its       *)
(* latest snapshot and the snapshot it was made for.  Its row remembers by *)
(* their positions which hunks have been applied or dismissed, and every   *)
(* request writes back the whole row that it has read.  The collector      *)
(* deletes old snapshots that it believes nobody uses.                     *)
(*                                                                         *)
(* Opening, closing and saving a workspace are single steps here; Drafts   *)
(* has them in full.  A draft is one file; an edit is its position in it.  *)
(***************************************************************************)
EXTENDS Naturals, Sequences, FiniteSets

CONSTANTS Workspace,    \* workspaces
          Original,     \* one of them that is there, a draft of its author
          Request,      \* goroutines of the API servers
          Collector,    \* workers of the garbage collection queue
          Edit,         \* edits of the file, by position (a number)
          MaxSnapshots, \* bound: snapshots taken
          MaxRequests,  \* bound: requests started
          MaxPasses,    \* bound: runs of the collector
          MaxFailures   \* bound: requests, git calls and workers that fail

VARIABLES ws,        \* rows of workspaces
          disk,      \* edits in the view of an open workspace
          snaps,     \* snapshots in the order they were taken
          sug,       \* rows of suggestions, by the workspace that suggests
          pc, loc,   \* where a request is, and its local variables
          gc,        \* where a collector is
          recent,    \* a run of the collector is recorded in the last hour
          started, passes, failed,
          \* History:
          done,      \* hunks whose patches have reached the original
          disturbed, \* suggestions whose positions may have lost their meaning
          excused,   \* snapshots the collector cannot know to be used
          torn       \* snapshots a collector died over

vars == <<ws, disk, snaps, sug, pc, loc, gc, recent, started, passes, failed,
          done, disturbed, excused, torn>>

stores  == <<ws, disk, snaps, sug>>
rest    == <<gc, recent, passes, torn>>
history == <<done, disturbed>>

NoRow == [exists |-> FALSE, open |-> FALSE, archived |-> FALSE, latest |-> 0]

NoSug == [there |-> FALSE, base |-> 0, applied |-> {}, dismissed |-> {},
          hidden |-> FALSE, notified |-> FALSE]
NoLoc == [kind |-> "none", w |-> Original, d |-> Original, latest |-> 0,
          open |-> FALSE, row |-> NoSug, adds |-> {}, dels |-> {}, id |-> 0]
NoGC  == [pc |-> "idle", todo |-> {}, cur |-> 0]

(* Taken in a view that has w open, or in a temporary one, where the       *)
(* collector does not look (local); live: deleted_at is null; trunk: its    *)
(* branch is in trunk; old: it has the age to be collected.                *)
Taken(before, w, work, view) ==
    Append(before, [ws |-> w, work |-> work, old |-> FALSE, live |-> TRUE,
                    trunk |-> TRUE, local |-> view])

Saved == [exists |-> TRUE, open |-> TRUE, archived |-> FALSE, latest |-> 1]

(* What is there at first is the draft of the author, open and saved, and  *)
(* perhaps a suggestion that has nothing to suggest yet.                   *)
Init ==
    /\ \E S \in SUBSET (Workspace \ {Original}) :
          /\ ws = [w \in Workspace |-> IF w \in S \union {Original} THEN Saved ELSE NoRow]
          /\ sug = [w \in Workspace |-> IF w \in S THEN [NoSug EXCEPT !.there = TRUE, !.base = 1]
                                                  ELSE NoSug]
    /\ disk = [w \in Workspace |-> {}]
    /\ snaps = Taken(<<>>, Original, {}, TRUE)
    /\ pc = [r \in Request |-> "idle"]
    /\ loc = [r \in Request |-> NoLoc]
    /\ gc = [c \in Collector |-> NoGC]
    /\ recent = FALSE
    /\ started = 0 /\ passes = 0 /\ failed = 0
    /\ done = [w \in Workspace |-> {}]
    /\ disturbed = {} /\ excused = {} /\ torn = {}

Ids      == DOMAIN snaps
Live(i)  == i \in Ids /\ snaps[i].live
Work(i)  == IF i = 0 THEN {} ELSE snaps[i].work

(* What the rows make of a snapshot.                                       *)
InUse(w, i) == ws[w].exists /\ ~ws[w].archived /\ ws[w].latest = i
IsBase(i)   == \E d \in Workspace : sug[d].there /\ sug[d].base = i

-----------------------------------------------------------------------------
(* The hunks of a suggestion.                                              *)

Diff(d) == LET base == Work(sug[d].base)  own == Work(ws[d].latest)
           IN  (own \ base) \union (base \ own)

(* The index of a hunk in its file.                                        *)
Position(h, hunks) == Cardinality({x \in hunks : x < h})

(* The row with the hunks of a request written down.                       *)
Noted(l, hunks) ==
    LET new == {Position(h, Diff(l.d)) : h \in hunks}
    IN  IF l.kind = "apply" THEN [l.row EXCEPT !.applied = @ \union new]
        ELSE [l.row EXCEPT !.dismissed = @ \union new]

Marked(d, positions) == {h \in Diff(d) : Position(h, Diff(d)) \in positions}

(* ApplyPatchesToWorkdir applies one patch after another and stops at the  *)
(* first that does not fit; what it has applied stays.                     *)
Blocked(l, work) == {h \in l.adds \union l.dels : (h \in work) = (h \in l.adds)}
Fitting(l, work) == {h \in l.adds \union l.dels :
                       \A b \in Blocked(l, work) : h < b}
Patched(l, work) == LET F == Fitting(l, work)
                    IN  (work \union (F \intersect l.adds)) \ (F \intersect l.dels)

-----------------------------------------------------------------------------
(* Requests.                                                               *)

Goto(r, at) == pc' = [pc EXCEPT ![r] = at]
End(r)      == Goto(r, "idle") /\ loc' = [loc EXCEPT ![r] = NoLoc]

Begin(r, l, at) ==
    /\ pc[r] = "idle" /\ started < MaxRequests
    /\ started' = started + 1
    /\ loc' = [loc EXCEPT ![r] = l]
    /\ Goto(r, at)
    /\ UNCHANGED <<stores, rest, failed, done>>

OnSuggestion(r) == loc[r].kind \in {"apply", "dismissHunks", "dismiss", "activity"}

(* Two requests have read the row of one suggestion.                       *)
BeginOn(r, d, l, at) ==
    /\ sug[d].there
    /\ Begin(r, l, at)
    /\ disturbed' = IF \E q \in Request : OnSuggestion(q) /\ loc[q].d = d
                    THEN disturbed \union {d} ELSE disturbed

StartSnapshot(r, w) ==
    /\ ws[w].open
    /\ Begin(r, [NoLoc EXCEPT !.kind = "snap", !.w = w], "take")
    /\ UNCHANGED disturbed

(* A new latest snapshot moves the hunks of a suggestion.                  *)
Shifted(w, work) ==
    IF sug[w].there /\ work # Work(ws[w].latest) THEN disturbed \union {w}
    ELSE disturbed

SameAsBefore(w, work) == Live(ws[w].latest) /\ Work(ws[w].latest) = work

Take(r) ==
    LET w == loc[r].w
    IN  /\ pc[r] = "take" /\ ws[w].open
        /\ IF SameAsBefore(w, disk[w])
           THEN /\ loc' = [loc EXCEPT ![r].id = ws[w].latest]
                /\ UNCHANGED snaps
           ELSE /\ Len(snaps) < MaxSnapshots
                /\ snaps' = Taken(snaps, w, disk[w], TRUE)
                /\ loc' = [loc EXCEPT ![r].id = Len(snaps) + 1]
        /\ Goto(r, "mark")
        /\ UNCHANGED <<ws, disk, sug, rest, started, failed, history>>

Mark(r) ==
    LET l == loc[r]
    IN  /\ pc[r] = "mark"
        /\ disturbed' = Shifted(l.w, Work(l.id))
        /\ ws' = [ws EXCEPT ![l.w].latest = l.id]
        /\ CASE l.kind = "suggest" -> Goto(r, "link") /\ UNCHANGED loc
             [] l.kind = "apply"   -> Goto(r, "record") /\ UNCHANGED loc
             [] OTHER              -> End(r)
        /\ UNCHANGED <<disk, snaps, sug, rest, started, failed, done>>

(* The mutation createSuggestion reads the workspace ...                   *)
StartSuggestion(r, w, d) ==
    /\ ws[w].exists /\ ws[w].latest # 0 /\ ~ws[d].exists
    /\ \A q \in Request : loc[q].d # d \/ loc[q].kind # "suggest"
    /\ Begin(r, [NoLoc EXCEPT !.kind = "suggest", !.w = w, !.d = d,
                              !.latest = ws[w].latest, !.open = ws[w].open],
             "new")
    /\ UNCHANGED disturbed

NewWorkspace(r) ==
    /\ pc[r] = "new"
    /\ ws' = [ws EXCEPT ![loc[r].d].exists = TRUE]
    /\ Goto(r, IF loc[r].open THEN "take" ELSE "link")
    /\ UNCHANGED <<disk, snaps, sug, loc, rest, started, failed, history>>

(* ... CopyPatches gives the new workspace a snapshot of the view, or      *)
(* shares the one of the workspace as it has been read ...                 *)
LinkSnapshot(r) ==
    LET l == loc[r]
    IN  /\ pc[r] = "link"
        /\ ws' = [ws EXCEPT ![l.d].latest = IF l.open THEN l.id ELSE l.latest]
        /\ Goto(r, "insert")
        /\ UNCHANGED <<disk, snaps, sug, loc, rest, started, failed, history>>

(* ... and the suggestion is made for the snapshot that was read.          *)
Insert(r) ==
    /\ pc[r] = "insert"
    /\ sug' = [sug EXCEPT ![loc[r].d] = [NoSug EXCEPT !.there = TRUE,
                                                      !.base = loc[r].latest]]
    /\ End(r)
    /\ UNCHANGED <<ws, disk, snaps, rest, started, failed, history>>

(* applySuggestionHunks, dismissSuggestionHunks: GetByID reads the row.    *)
StartHunks(r, d, kind, hunks) ==
    /\ hunks \subseteq Diff(d) /\ hunks # {}
    /\ BeginOn(r, d, [NoLoc EXCEPT !.kind = kind, !.d = d, !.row = sug[d],
                                   !.adds = hunks], "diff")

(* The hunks that are still in the difference.  They need not be open.     *)
ReadDiff(r) ==
    LET l == loc[r]  hunks == Diff(l.d) \intersect l.adds  own == Work(ws[l.d].latest)
    IN  /\ pc[r] = "diff" /\ Live(ws[l.d].latest) /\ Live(sug[l.d].base)
        /\ loc' = [loc EXCEPT ![r] =
                      [l EXCEPT !.adds = hunks \intersect own, !.dels = hunks \ own,
                                !.latest = ws[Original].latest,
                                !.open = ws[Original].open,
                                !.row = Noted(l, hunks)]]
        /\ Goto(r, IF l.kind = "apply" THEN "patch" ELSE "record")
        /\ UNCHANGED <<stores, rest, started, failed, history>>

(* A snapshot that the difference needs has been deleted.                  *)
ReadDeleted(r) ==
    /\ pc[r] = "diff" /\ ~(Live(ws[loc[r].d].latest) /\ Live(sug[loc[r].d].base))
    /\ End(r)
    /\ UNCHANGED <<stores, rest, started, failed, history>>

(* Apply them to the view of the original, as it is: what fits before the  *)
(* first that does not stays there, but is not written down.               *)
PatchView(r) ==
    LET l == loc[r]
    IN  /\ pc[r] = "patch" /\ l.open /\ ws[Original].open
        /\ disk' = [disk EXCEPT ![Original] = Patched(l, @)]
        /\ done' = [done EXCEPT ![l.d] = @ \union Fitting(l, disk[Original])]
        /\ IF Blocked(l, disk[Original]) = {}
           THEN Goto(r, "record") /\ UNCHANGED <<loc, disturbed>>
           ELSE End(r) /\ disturbed' = disturbed \union {l.d}
        /\ UNCHANGED <<ws, snaps, sug, rest, started, failed>>

(* Or, in a temporary view, to its latest snapshot.                        *)
PatchSnapshot(r) ==
    LET l == loc[r]  work == Work(l.latest)
    IN  /\ pc[r] = "patch" /\ ~l.open
        /\ IF Live(l.latest) /\ Blocked(l, work) = {}
           THEN /\ Len(snaps) < MaxSnapshots
                /\ snaps' = Taken(snaps, Original, Patched(l, work), FALSE)
                /\ loc' = [loc EXCEPT ![r].id = Len(snaps) + 1, ![r].w = Original]
                /\ done' = [done EXCEPT ![l.d] = @ \union Fitting(l, work)]
                /\ Goto(r, "mark")
           ELSE End(r) /\ UNCHANGED <<snaps, done>>
        /\ UNCHANGED <<ws, disk, sug, rest, started, failed, disturbed>>

StartDismiss(r, d) ==
    BeginOn(r, d, [NoLoc EXCEPT !.kind = "dismiss", !.d = d,
                                !.row = [sug[d] EXCEPT !.hidden = TRUE]], "record")

(* RecordActivity, after a change in the view of the suggesting workspace: *)
(* tell the author once, and show a suggestion again that was dismissed.   *)
StartActivity(r, d) ==
    /\ ~sug[d].notified \/ sug[d].hidden
    /\ BeginOn(r, d, [NoLoc EXCEPT !.kind = "activity", !.d = d,
                         !.row = [sug[d] EXCEPT !.hidden = FALSE,
                                                !.notified = TRUE]], "record")

(* Mutant: the arrays are written by another statement, which was left out.*)
Record_NoArrays(r) ==
    LET l == loc[r]
    IN  /\ pc[r] = "record"
        /\ sug' = [sug EXCEPT ![l.d].hidden = l.row.hidden,
                              ![l.d].notified = l.row.notified]
        /\ End(r)
        /\ UNCHANGED <<ws, disk, snaps, rest, started, failed, history>>

(* Update writes all of the row.                                           *)
Record(r) ==
    /\ pc[r] = "record"
    /\ sug' = [sug EXCEPT ![loc[r].d] = loc[r].row]
    /\ End(r)
    /\ UNCHANGED <<ws, disk, snaps, rest, started, failed, history>>

(* RemovePatches undoes hunks in the view of the suggesting workspace and  *)
(* saves it.  (Without a view it dereferences the view's missing id.)      *)
RemovePatches(r, d, hunks) ==
    /\ sug[d].there /\ ws[d].open /\ hunks # {} /\ hunks \subseteq Diff(d)
    /\ Live(ws[d].latest) /\ Live(sug[d].base)
    /\ Begin(r, [NoLoc EXCEPT !.kind = "remove", !.w = d,
                   !.adds = hunks \ Work(ws[d].latest),
                   !.dels = hunks \intersect Work(ws[d].latest)], "undo")
    /\ UNCHANGED disturbed

RemoveInView(r) ==
    LET l == loc[r]
    IN  /\ pc[r] = "undo"
        /\ disk' = [disk EXCEPT ![l.w] = Patched(l, @)]
        /\ IF Blocked(l, disk[l.w]) = {} THEN Goto(r, "take") /\ UNCHANGED loc
                                         ELSE End(r)
        /\ UNCHANGED <<ws, snaps, sug, rest, started, failed, history>>

(* The request fails, or its server dies.                                  *)
FailRequest(r) ==
    /\ pc[r] # "idle" /\ failed < MaxFailures
    /\ failed' = failed + 1
    /\ disturbed' = IF OnSuggestion(r) THEN disturbed \union {loc[r].d} ELSE disturbed
    /\ End(r)
    /\ UNCHANGED <<stores, rest, started, done>>

Run(r) == \/ Take(r) \/ Mark(r) \/ NewWorkspace(r) \/ LinkSnapshot(r)
          \/ Insert(r) \/ ReadDiff(r) \/ ReadDeleted(r) \/ PatchView(r) \/ PatchSnapshot(r)
          \/ Record(r) \/ RemoveInView(r) \/ FailRequest(r)

-----------------------------------------------------------------------------
(* What Drafts has in full: the view of w is given to it, is taken from it *)
(* (which saves it), or is set to an earlier snapshot.                     *)

Now == started < MaxRequests /\ started' = started + 1

(* What happens in a view while it changes hands is in Drafts.             *)
Quiet(w) == \A r \in Request : pc[r] \in {"take", "patch", "undo"} => loc[r].w # w

Edits(w, e) ==
    /\ ws[w].open /\ e \notin disk[w] /\ Now
    /\ disk' = [disk EXCEPT ![w] = @ \union {e}]
    /\ UNCHANGED <<ws, snaps, sug, pc, loc, rest, failed, history>>

Open(w) ==
    /\ ws[w].exists /\ ~ws[w].open /\ ~ws[w].archived /\ Live(ws[w].latest)
    /\ Now
    /\ ws' = [ws EXCEPT ![w].open = TRUE]
    /\ disk' = [disk EXCEPT ![w] = Work(ws[w].latest)]
    /\ UNCHANGED <<snaps, sug, pc, loc, rest, failed, history>>

(* archived: the view is moved to a new workspace because w is archived.   *)
Leave(w, archived) ==
    /\ ws[w].exists /\ ~ws[w].archived /\ (archived \/ ws[w].open)
    /\ Quiet(w) /\ Now
    /\ IF ws[w].open /\ ~SameAsBefore(w, disk[w])
       THEN Len(snaps) < MaxSnapshots /\ snaps' = Taken(snaps, w, disk[w], TRUE)
       ELSE UNCHANGED snaps
    /\ ws' = [ws EXCEPT ![w].open = FALSE, ![w].archived = archived,
                        ![w].latest = IF snaps' = snaps THEN @ ELSE Len(snaps')]
    /\ disturbed' = IF ws[w].open THEN Shifted(w, disk[w]) ELSE disturbed
    /\ UNCHANGED <<disk, sug, pc, loc, rest, failed, done>>

Unarchive(w) ==
    /\ ws[w].archived /\ Now
    /\ ws' = [ws EXCEPT ![w].archived = FALSE]
    /\ UNCHANGED <<disk, snaps, sug, pc, loc, rest, failed, history>>

(* Undo and redo.                                                          *)
SetSnapshot(w, i) ==
    /\ ws[w].exists /\ Live(i) /\ snaps[i].ws = w /\ Now
    /\ ws' = [ws EXCEPT ![w].latest = i]
    /\ disk' = IF ws[w].open THEN [disk EXCEPT ![w] = Work(i)] ELSE disk
    /\ disturbed' = Shifted(w, Work(i))
    /\ UNCHANGED <<snaps, sug, pc, loc, rest, failed, done>>

(* Three hours pass.  No request lasts as long.                            *)
Age ==
    /\ \A r \in Request : pc[r] = "idle"
    /\ snaps' = [i \in Ids |-> [snaps[i] EXCEPT !.old = TRUE]]
    /\ recent' = FALSE
    /\ UNCHANGED <<ws, disk, sug, pc, loc, gc, started, passes, failed, history, torn>>

-----------------------------------------------------------------------------
(* The collector, one view at a time (there is one here).                  *)

NoRequest == <<pc, loc, started>>

At(c, at) == gc[c].pc = at
GoGC(c, at) == gc' = [gc EXCEPT ![c].pc = at]

Candidates == {i \in Ids : snaps[i].local /\ snaps[i].live /\ snaps[i].old}

(* Work: once an hour, list the branches of snapshots and their rows.      *)
StartGC(c) ==
    /\ At(c, "idle") /\ ~recent /\ passes < MaxPasses
    /\ passes' = passes + 1
    /\ gc' = [gc EXCEPT ![c] = [pc |-> "check", todo |-> Candidates, cur |-> 0]]
    /\ UNCHANGED <<stores, NoRequest, recent, failed, history, torn>>

(* GetBySnapshotID reads the row of one workspace that names the snapshot, *)
(* whichever comes first; an archived one does not count.                  *)
Holders(i) == {w \in Workspace : ws[w].exists /\ ws[w].latest = i}
MaySeeUnused(i) == Holders(i) = {} \/ \E w \in Holders(i) : ws[w].archived
MaySeeUsed(i)   == \E w \in Holders(i) : ~ws[w].archived

(* Mutant: only the workspace of the snapshot is looked at.                *)
PartOfSuggestion_ByWorkspace(i) ==
    LET s == sug[snaps[i].ws] IN s.there /\ s.base = i

(* A suggestion is made for it, dismissed or not.                          *)
PartOfSuggestion(i) == IsBase(i)

Keep(c, i) ==
    /\ At(c, "check") /\ i \in gc[c].todo
    /\ MaySeeUsed(i) \/ PartOfSuggestion(i)
    /\ gc' = [gc EXCEPT ![c].todo = @ \ {i}]
    /\ UNCHANGED <<stores, NoRequest, recent, passes, failed, history, torn>>

(* Half a second passes between the check and what follows.                *)
Condemn(c, i) ==
    /\ At(c, "check") /\ i \in gc[c].todo
    /\ MaySeeUnused(i) /\ ~PartOfSuggestion(i)
    /\ gc' = [gc EXCEPT ![c] = [pc |-> "again", todo |-> @.todo \ {i}, cur |-> i]]
    /\ UNCHANGED <<stores, NoRequest, recent, passes, failed, history, torn>>

(* Now a workspace uses it.  The branches are left alone, and the caller   *)
(* goes on to delete the row.                                              *)
SkipBranches(c) ==
    /\ At(c, "again") /\ MaySeeUsed(gc[c].cur)
    /\ GoGC(c, "row")
    /\ UNCHANGED <<stores, NoRequest, recent, passes, failed, history, torn>>

DeleteTrunkBranch(c) ==
    /\ At(c, "again") /\ MaySeeUnused(gc[c].cur)
    /\ snaps' = [snaps EXCEPT ![gc[c].cur].trunk = FALSE]
    /\ GoGC(c, "view")
    /\ UNCHANGED <<ws, disk, sug, NoRequest, recent, passes, failed, history, torn>>

DeleteViewBranch(c) ==
    /\ At(c, "view")
    /\ snaps' = [snaps EXCEPT ![gc[c].cur].local = FALSE]
    /\ GoGC(c, "row")
    /\ UNCHANGED <<ws, disk, sug, NoRequest, recent, passes, failed, history, torn>>

(* Mutant: the error goes to the caller, and the next branch is tried.     *)
FailBranch_Returns(c) ==
    /\ At(c, "view") \/ (At(c, "again") /\ MaySeeUnused(gc[c].cur))
    /\ failed < MaxFailures /\ failed' = failed + 1
    /\ gc' = [gc EXCEPT ![c].pc = "check", ![c].cur = 0]
    /\ UNCHANGED <<stores, NoRequest, recent, passes, history, torn>>

(* A branch cannot be deleted: that is logged, and the row deleted.        *)
FailBranch(c) ==
    /\ At(c, "view") \/ (At(c, "again") /\ MaySeeUnused(gc[c].cur))
    /\ failed < MaxFailures /\ failed' = failed + 1
    /\ GoGC(c, "row")
    /\ UNCHANGED <<stores, NoRequest, recent, passes, history, torn>>

DeleteRow(c) ==
    /\ At(c, "row")
    /\ snaps' = [snaps EXCEPT ![gc[c].cur].live = FALSE]
    /\ gc' = [gc EXCEPT ![c].pc = "check", ![c].cur = 0]
    /\ UNCHANGED <<ws, disk, sug, NoRequest, recent, passes, failed, history, torn>>

EndGC(c) ==
    /\ At(c, "check") /\ gc[c].todo = {}
    /\ recent' = TRUE
    /\ gc' = [gc EXCEPT ![c] = NoGC]
    /\ UNCHANGED <<stores, NoRequest, passes, failed, history, torn>>

(* Its server dies; the message is not given out again.                    *)
Die(c) ==
    /\ ~At(c, "idle") /\ failed < MaxFailures /\ failed' = failed + 1
    /\ torn' = IF At(c, "view") \/ At(c, "row") THEN torn \union {gc[c].cur} ELSE torn
    /\ gc' = [gc EXCEPT ![c] = NoGC]
    /\ UNCHANGED <<stores, NoRequest, recent, passes, history>>

GCStep(c) ==
    \/ StartGC(c) \/ EndGC(c) \/ SkipBranches(c) \/ DeleteTrunkBranch(c)
    \/ DeleteViewBranch(c) \/ FailBranch(c) \/ DeleteRow(c) \/ Die(c)
    \/ \E i \in Ids : Keep(c, i) \/ Condemn(c, i)

-----------------------------------------------------------------------------
StartRequest(r) ==
    \/ \E w \in Workspace : StartSnapshot(r, w)
    \/ \E w, d \in Workspace : StartSuggestion(r, w, d)
    \/ \E d \in Workspace : StartDismiss(r, d) \/ StartActivity(r, d)
    \/ \E d \in Workspace, hunks \in SUBSET Edit :
          \/ \E kind \in {"apply", "dismissHunks"} : StartHunks(r, d, kind, hunks)
          \/ RemovePatches(r, d, hunks)

UserStep ==
    \/ \E w \in Workspace : Open(w) \/ Unarchive(w) \/ Leave(w, FALSE) \/ Leave(w, TRUE)
    \/ \E w \in Workspace, i \in Ids : SetSnapshot(w, i)
    \/ \E w \in Workspace, e \in Edit : Edits(w, e)

Step == \/ \E r \in Request : StartRequest(r) \/ Run(r)
        \/ UserStep
        \/ Age
        \/ \E c \in Collector : GCStep(c)

(* The collector cannot know of a use that begins after it has looked, and *)
(* may overlook one that an archived workspace shares.                     *)
Used(i)     == IsBase(i) \/ \E w \in Workspace : InUse(w, i)
Looked(i)   == ~(snaps[i].live /\ snaps[i].trunk) \/ \E c \in Collector : gc[c].cur = i
Overlooked  == {i \in Ids : \E w \in Holders(i) : ws[w].archived}
FoundInUse  == {i \in Ids : Used(i)}

Next == /\ Step
        /\ excused' = excused \union Overlooked'
                        \union {i \in FoundInUse' \ FoundInUse : i \in Ids /\ Looked(i)}

Spec == Init /\ [][Next]_vars

-----------------------------------------------------------------------------
(* gc/service gcSnapshot: a snapshot that a workspace or a suggestion uses *)
(* is kept, in the database and in trunk, through every run of the         *)
(* collector, unless the use began after the collector had looked at it.   *)
UsedIsKept ==
    \A i \in FoundInUse \ excused : snaps[i].live /\ snaps[i].trunk

(* The row is deleted after the branch: a snapshot that can still be found *)
(* can be checked out, except while a collector is at it and where one     *)
(* has died over it.                                                       *)
LiveOnTrunk ==
    \A i \in Ids \ torn : snaps[i].live /\ ~snaps[i].trunk =>
        \E c \in Collector : gc[c].cur = i /\ gc[c].pc \in {"view", "row"}

(* suggestions/service: the hunks that are shown as applied are those whose*)
(* patches have reached the draft, while requests came one by one, did not *)
(* fail half way and the suggesting workspace has not moved on.            *)
MarksAreTrue ==
    \A d \in Workspace :
        \/ ~sug[d].there \/ d \in disturbed
        \/ \E r \in Request : OnSuggestion(r) /\ loc[r].d = d
        \/ Marked(d, sug[d].applied) = done[d]

=============================================================================
