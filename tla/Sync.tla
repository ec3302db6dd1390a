--------------------------------- MODULE Sync ---------------------------------
(***************************************************************************)
(* The sync of a draft with trunk (sync/service) in the view where it is   *)
(* open: the files are committed on a branch of their own, that commit is  *)
(* rebased on trunk, and the result becomes the files of the draft again.  *)
(* A conflict leaves the view in the middle of the rebase; the user edits  *)
(* files and answers, file by file, until the rebase can be finished.      *)
(*                                                                         *)
(* Every request holds the view's write lock (see FileLock), so one is at  *)
(* work at a time; mutagen writes the user's edits at any time, trunk      *)
(* moves, and the process may die.  Files are whole: git's merge of one    *)
(* file is a conflict when both sides have changed it to something else.   *)
(* Large files, statistics and the other workspaces are left out, and that *)
(* views.workspace_id is right is assumed (see Drafts).                    *)
(***************************************************************************)
EXTENDS Naturals, Sequences

CONSTANTS File,
          Content,   \* what a file can hold
          Absent,    \* the file is not there
          Marked,    \* the file holds conflict markers
          None,      \* no value
          FirstTree, \* trees trunk can start with
          MaxTrunk,  \* bound: commits on trunk
          MaxEdits,  \* bound: edits by the user
          MaxDeaths  \* bound: deaths of the process

ASSUME SyncAssumption ==
    /\ Absent # Marked /\ None \notin {Absent, Marked}
    /\ {Absent, Marked, None} \intersect Content = {}
    /\ FirstTree \subseteq [File -> Content \union {Absent}]
    /\ MaxTrunk \in Nat \ {0} /\ {MaxEdits, MaxDeaths} \subseteq Nat

VARIABLES trunk,   \* the trees of trunk's commits
          files,   \* the files in the view
          head,    \* what HEAD names, and its commit
          ws,      \* the branch of the workspace in the view
          pushed,  \* the branch of the workspace in trunk's repository
          latest,  \* the latest snapshot
          rb,      \* the rebase in progress
          kept,    \* trees of the commits on branches of syncs
          stashed, \* a stash was saved: it is applied, but never dropped
          op,      \* the request at work
          mine,    \* history: what the user wants in a file that is edited
          raced,   \* history: files edited while a request was at work
          broken,  \* history: a request has ended halfway
          edits, deaths

vars == <<trunk, files, head, ws, pushed, latest, rb, kept, stashed, op, mine,
          raced, broken, edits, deaths>>

branches == <<ws, pushed, latest>>
user     == <<mine, raced, edits>>

(* A commit of trunk, or one with unsaved files on top of it.              *)
NoTree   == [f \in File |-> None]
OnTrunk(t) == [on |-> t, wip |-> NoTree]
Unsaved(t, tree) == [on |-> t, wip |-> tree]
TreeOf(c) == IF c.wip = NoTree THEN trunk[c.on] ELSE c.wip

NoRebase == [on |-> 0, base |-> NoTree, theirs |-> NoTree, conf |-> {}]
Rebasing == rb.on # 0
Idle     == [pc |-> "idle", on |-> 0, base |-> NoTree, theirs |-> NoTree,
             reset |-> FALSE, parent |-> OnTrunk(1)]

Init ==
    /\ trunk \in {<<tree>> : tree \in FirstTree}
    /\ files = trunk[1]
    /\ head = [at |-> "ws", c |-> OnTrunk(1)]
    /\ ws = OnTrunk(1) /\ pushed = OnTrunk(1)
    /\ latest = [on |-> 1, tree |-> files]
    /\ rb = NoRebase /\ kept = {} /\ stashed = FALSE /\ op = Idle
    /\ mine = [f \in File |-> None] /\ raced = {} /\ broken = FALSE
    /\ edits = 0 /\ deaths = 0

-----------------------------------------------------------------------------
(* The world: somebody lands, the user edits.                              *)

TrunkMoves(f, v) ==
    /\ Len(trunk) < MaxTrunk /\ trunk[Len(trunk)][f] # v
    /\ trunk' = Append(trunk, [trunk[Len(trunk)] EXCEPT ![f] = v])
    /\ UNCHANGED <<files, head, branches, rb, kept, stashed, op, user, broken, deaths>>

(* A file that is edited back to what HEAD holds is not a change.          *)
Wanted(f, v) == IF v = TreeOf(head.c)[f] THEN None ELSE v

Edit(f, v) ==
    /\ edits < MaxEdits /\ files[f] # v
    /\ files' = [files EXCEPT ![f] = v] /\ edits' = edits + 1
    /\ mine' = [mine EXCEPT ![f] = Wanted(f, v)]
    /\ raced' = IF op.pc = "idle" THEN raced \ {f} ELSE raced \union {f}
    /\ UNCHANGED <<trunk, head, branches, rb, kept, stashed, op, broken, deaths>>

-----------------------------------------------------------------------------
(* OnTrunk.                                                                *)

(* AssertBranchName lets a detached HEAD pass.  Trunk is fetched, and a    *)
(* branch for the unsaved files is checked out.                            *)
Start ==
    /\ op.pc = "idle" /\ ~Rebasing /\ head.at \in {"ws", "detached"}
    /\ op' = [Idle EXCEPT !.pc = "tree", !.on = Len(trunk)]
    /\ head' = [head EXCEPT !.at = "unsaved"] /\ kept' = kept \union {TreeOf(head.c)}
    /\ UNCHANGED <<trunk, files, branches, rb, stashed, user, broken, deaths>>

(* Mutant: nobody looks whether there are changes.                         *)
NoChanges_Always ==
    /\ op.pc = "tree" /\ op' = [op EXCEPT !.pc = "discard"]
    /\ UNCHANGED <<trunk, files, head, branches, rb, kept, stashed, user, broken, deaths>>

NoChanges ==
    /\ op.pc = "tree" /\ files = TreeOf(head.c) /\ op' = [op EXCEPT !.pc = "discard"]
    /\ UNCHANGED <<trunk, files, head, branches, rb, kept, stashed, user, broken, deaths>>

Discard ==
    /\ op.pc = "discard" /\ op' = [op EXCEPT !.pc = "complete"]
    /\ files' = trunk[op.on] /\ head' = [at |-> "sync", c |-> OnTrunk(op.on)]
    /\ UNCHANGED <<trunk, branches, rb, kept, stashed, user, broken, deaths>>

CommitUnsaved ==
    /\ op.pc = "tree" /\ files # TreeOf(head.c)
    /\ head' = [head EXCEPT !.c = Unsaved(head.c.on, files)]
    /\ kept' = kept \union {files}
    /\ op' = [op EXCEPT !.pc = "onto", !.base = TreeOf(head.c), !.theirs = files]
    /\ UNCHANGED <<trunk, files, branches, rb, stashed, user, broken, deaths>>

(* git checkout -f: files that neither commit knows stay.                  *)
CheckoutOnto ==
    LET ours == trunk[op.on] IN
    /\ op.pc = "onto" /\ op' = [op EXCEPT !.pc = "stash"]
    /\ files' = [f \in File |-> IF op.theirs[f] = Absent /\ ours[f] = Absent
                                THEN files[f] ELSE ours[f]]
    /\ head' = [at |-> "sync", c |-> OnTrunk(op.on)]
    /\ UNCHANGED <<trunk, branches, rb, kept, stashed, user, broken, deaths>>

Dirty == {f \in File : files[f] # TreeOf(head.c)[f]}
Tracked == {f \in File : TreeOf(head.c)[f] # Absent}

Stash ==
    /\ op.pc = "stash" /\ op' = [op EXCEPT !.pc = "rebase"]
    /\ stashed' = (stashed \/ Dirty \intersect Tracked # {})
    /\ files' = [f \in File |-> IF f \in Tracked THEN TreeOf(head.c)[f] ELSE files[f]]
    /\ UNCHANGED <<trunk, head, branches, rb, kept, user, broken, deaths>>

(* git's merge of one file.                                                *)
Conflict(b, o, t) == t # b /\ o # b /\ o # t
Merge(b, o, t)    == IF t = b THEN o ELSE t
OnConflict(o, t)  == IF o = Absent THEN t ELSE IF t = Absent THEN o ELSE Marked

InConflict == {f \in File : Conflict(op.base[f], trunk[op.on][f], op.theirs[f])}
Merged(f)  == LET b == op.base[f]  o == trunk[op.on][f]  t == op.theirs[f] IN
              IF Conflict(b, o, t) THEN OnConflict(o, t) ELSE Merge(b, o, t)

(* A file that is in the way of the merge.                                 *)
InTheWay == {f \in Dirty \ Tracked : Merged(f) # Absent}

Detached == [head EXCEPT !.at = "detached"]
Rebase(conf) == [on |-> op.on, base |-> op.base, theirs |-> op.theirs, conf |-> conf]

InitRebase ==
    /\ op.pc = "rebase" /\ Dirty \intersect Tracked = {} /\ InTheWay = {}
    /\ head' = Detached /\ rb' = Rebase(InConflict)
    /\ files' = [f \in File |-> IF f \in Dirty THEN files[f] ELSE Merged(f)]
    /\ op' = IF InConflict = {} THEN [op EXCEPT !.pc = "pick"] ELSE Idle
    /\ UNCHANGED <<trunk, branches, kept, stashed, user, broken, deaths>>

(* Edits that came after the stash: the rebase does not start, or it stops *)
(* before it has merged anything.                                          *)
InitRebaseFails ==
    /\ op.pc = "rebase" /\ op' = Idle /\ broken' = TRUE
    /\ \/ Dirty \intersect Tracked # {} /\ UNCHANGED <<head, rb>>
       \/ /\ Dirty \intersect Tracked = {} /\ InTheWay # {}
          /\ head' = Detached /\ rb' = Rebase({})
    /\ UNCHANGED <<trunk, files, branches, kept, stashed, user, deaths>>

-----------------------------------------------------------------------------
(* Resolve.                                                                *)

Version == {"workspace", "trunk", "custom"}

Chosen(f, version) ==
    CASE version = "workspace" -> rb.theirs[f]
      [] version = "trunk"     -> trunk[rb.on][f]
      [] version = "custom"    -> files[f]

(* A file that is not there can neither be removed nor be added.           *)
CanResolve(f, version) ==
    /\ f \in rb.conf
    /\ version = "custom" \/ Chosen(f, version) = Absent => files[f] # Absent

Answered(answer, done) ==
    /\ files' = [f \in File |-> IF f \in done THEN Chosen(f, answer[f]) ELSE files[f]]
    /\ mine'  = [f \in File |-> IF f \in done THEN Wanted(f, Chosen(f, answer[f])) ELSE mine[f]]
    /\ raced' = raced \ done

(* Mutant: the index with the resolved conflicts is not written.           *)
Resolve_NotWritten(answer) ==
    /\ op.pc = "idle" /\ Rebasing
    /\ \A f \in DOMAIN answer : CanResolve(f, answer[f])
    /\ Answered(answer, DOMAIN answer)
    /\ op' = IF rb.conf = {} THEN [Idle EXCEPT !.pc = "pick", !.on = rb.on] ELSE Idle
    /\ UNCHANGED <<trunk, head, branches, rb, kept, stashed, broken, edits, deaths>>

(* With conflicts left the request fails; what it has resolved stays so.   *)
Resolve(answer) ==
    LET left == rb.conf \ DOMAIN answer IN
    /\ op.pc = "idle" /\ Rebasing
    /\ \A f \in DOMAIN answer : CanResolve(f, answer[f])
    /\ Answered(answer, DOMAIN answer)
    /\ rb' = [rb EXCEPT !.conf = left]
    /\ op' = IF left = {} THEN [Idle EXCEPT !.pc = "pick", !.on = rb.on] ELSE Idle
    /\ UNCHANGED <<trunk, head, branches, kept, stashed, broken, edits, deaths>>

(* One file cannot be resolved: the files before it have been written.     *)
ResolveFails(answer) ==
    /\ op.pc = "idle" /\ Rebasing
    /\ \E f \in DOMAIN answer : ~CanResolve(f, answer[f])
    /\ \E done \in SUBSET {f \in DOMAIN answer : CanResolve(f, answer[f])} : Answered(answer, done)
    /\ UNCHANGED <<trunk, head, branches, rb, kept, stashed, op, broken, edits, deaths>>

-----------------------------------------------------------------------------
(* The end of a rebase, and complete.                                      *)

(* Continue commits all that is in the view, on top of HEAD, which is      *)
(* trunk unless the process has died between Pick and Finish.  A commit    *)
(* without a change is not made, and must not be reset.                    *)
Pick ==
    LET noop == files = TreeOf(head.c) IN
    /\ op.pc = "pick"
    /\ op' = [op EXCEPT !.pc = "finish", !.reset = ~noop, !.parent = head.c]
    /\ head' = IF noop THEN head ELSE [head EXCEPT !.c = Unsaved(op.on, files)]
    /\ UNCHANGED <<trunk, files, branches, rb, kept, stashed, user, broken, deaths>>

Finish ==
    /\ op.pc = "finish" /\ rb' = NoRebase /\ op' = [op EXCEPT !.pc = "complete"]
    /\ UNCHANGED <<trunk, files, head, branches, kept, stashed, user, broken, deaths>>

(* A stash, of this sync or of an earlier one, cannot be applied.          *)
PopFails ==
    /\ op.pc = "finish" /\ stashed /\ rb' = NoRebase /\ op' = Idle /\ broken' = TRUE
    /\ UNCHANGED <<trunk, files, head, branches, kept, stashed, user, deaths>>

(* The branch of the workspace moves to HEAD and is checked out by force.  *)
CheckoutWorkspace ==
    /\ op.pc = "complete" /\ op' = [op EXCEPT !.pc = "reset"]
    /\ ws' = head.c /\ head' = [head EXCEPT !.at = "ws"] /\ files' = TreeOf(head.c)
    /\ UNCHANGED <<trunk, pushed, latest, rb, kept, stashed, user, broken, deaths>>

StillMine(c) == [f \in File |-> IF mine[f] = TreeOf(c)[f] THEN None ELSE mine[f]]

(* Mutant: HEAD is reset unless there were no changes at the start.        *)
Reset_Noop ==
    LET parent == IF head.c.wip # NoTree THEN OnTrunk(head.c.on)
                  ELSE IF op.base = NoTree \/ head.c.on = 1 THEN head.c
                  ELSE OnTrunk(head.c.on - 1) IN
    /\ op.pc = "reset" /\ op' = [op EXCEPT !.pc = "push"]
    /\ ws' = parent /\ head' = [head EXCEPT !.c = parent] /\ mine' = StillMine(parent)
    /\ UNCHANGED <<trunk, files, pushed, latest, rb, kept, stashed, raced, edits, broken, deaths>>

(* What trunk has got as well is no edit of the user any more.             *)
Reset ==
    LET parent == IF op.reset THEN op.parent ELSE head.c IN
    /\ op.pc = "reset" /\ op' = [op EXCEPT !.pc = "push"]
    /\ ws' = parent /\ head' = [head EXCEPT !.c = parent] /\ mine' = StillMine(parent)
    /\ UNCHANGED <<trunk, files, pushed, latest, rb, kept, stashed, raced, edits, broken, deaths>>

Push ==
    /\ op.pc = "push" /\ pushed' = ws /\ op' = [op EXCEPT !.pc = "snapshot"]
    /\ UNCHANGED <<trunk, files, head, ws, latest, rb, kept, stashed, user, broken, deaths>>

(* A snapshot with the files of the latest one is not made.                *)
Snapshot ==
    /\ op.pc = "snapshot" /\ op' = Idle
    /\ latest' = IF files = latest.tree THEN latest ELSE [on |-> head.c.on, tree |-> files]
    /\ UNCHANGED <<trunk, files, head, ws, pushed, rb, kept, stashed, user, broken, deaths>>

(* The process dies; what is in the view stays as it is.                   *)
Die ==
    /\ op.pc # "idle" /\ deaths < MaxDeaths /\ deaths' = deaths + 1
    /\ op' = Idle /\ broken' = TRUE
    /\ UNCHANGED <<trunk, files, head, branches, rb, kept, stashed, user>>

Step == \/ NoChanges \/ Discard \/ CommitUnsaved \/ CheckoutOnto \/ Stash
        \/ InitRebase \/ InitRebaseFails \/ Pick \/ Finish \/ PopFails
        \/ CheckoutWorkspace \/ Reset \/ Push \/ Snapshot

Answers(fs) == [fs -> Version]

(* Every conflict is answered with a version that can be taken.            *)
AnswerAll == \E answer \in Answers(rb.conf) : Resolve(answer)

Next == \/ \E f \in File, v \in Content \union {Absent} : TrunkMoves(f, v) \/ Edit(f, v)
        \/ Start \/ Step \/ Die
        \/ \E fs \in SUBSET File : \E answer \in Answers(fs) : Resolve(answer) \/ ResolveFails(answer)

(* A request that runs goes on, and the user answers conflicts in the end. *)
Fairness == WF_vars(Step) /\ WF_vars(AnswerAll)

Spec == Init /\ [][Next]_vars /\ Fairness

-----------------------------------------------------------------------------
(* Properties.                                                             *)

Tree      == [File -> Content \union {Absent, Marked}]
TrunkTree == [File -> Content \union {Absent}]
CommitOf(n) == [on : 1..n, wip : Tree \union {NoTree}]

PCs == {"idle", "tree", "discard", "onto", "stash", "rebase", "pick", "finish", "complete",
        "reset", "push", "snapshot"}

(* Every variable has its type, and a request has what it needs.           *)
TypeOK ==
    /\ trunk \in Seq(TrunkTree) /\ Len(trunk) > 0
    /\ files \in Tree
    /\ head \in [at : {"ws", "unsaved", "sync", "detached"}, c : CommitOf(Len(trunk))]
    /\ {ws, pushed} \subseteq CommitOf(Len(trunk))
    /\ latest \in [on : 1..Len(trunk), tree : Tree]
    /\ rb \in [on : 0..Len(trunk), base : Tree \union {NoTree}, theirs : Tree \union {NoTree},
               conf : SUBSET File]
    /\ Rebasing => rb.theirs \in Tree
    /\ kept \subseteq Tree /\ stashed \in BOOLEAN
    /\ op \in [pc : PCs, on : 0..Len(trunk), base : Tree \union {NoTree},
               theirs : Tree \union {NoTree}, reset : BOOLEAN, parent : CommitOf(Len(trunk))]
    /\ op.pc # "idle" => op.on # 0
    /\ op.pc \in {"onto", "stash", "rebase"} => op.base \in Tree /\ op.theirs \in Tree
    /\ mine \in [File -> Content \union {Absent, Marked, None}]
    /\ raced \subseteq File /\ broken \in BOOLEAN
    /\ edits \in Nat /\ deaths \in Nat

AtRest == op.pc = "idle" /\ ~Rebasing /\ ~broken

(* "The current work in progress will be added to a commit, that is        *)
(* rebased on top of the trunk.  After the syncing is done, the commit is  *)
(* reset, to restore it to the WIP" (OnTrunk): after a sync the draft is   *)
(* on trunk, it holds what the user has edited or has chosen in conflicts, *)
(* and it holds nothing else, so that it takes nothing back that others    *)
(* have landed.  Files that were edited while a request was at work are    *)
(* left out, and so is everything once a request has ended halfway.        *)
DraftIsOwnEdits ==
    AtRest =>
        /\ head.at = "ws" /\ head.c = ws /\ pushed = ws /\ ws.wip = NoTree
        /\ \A f \in File \ raced :
               files[f] = IF mine[f] = None THEN trunk[ws.on][f] ELSE mine[f]

(* Nothing that the user has written is gone, however a sync ends: it is   *)
(* in the view or in a commit on a branch.                                 *)
NothingGone ==
    \A f \in File \ raced :
        mine[f] = None \/ files[f] = mine[f] \/ \E tree \in kept : tree[f] = mine[f]

(* A user who answers conflicts gets out of the rebase, also after the     *)
(* process has died in the middle of it.                                   *)
RebaseEnds == Rebasing ~> ~Rebasing
=============================================================================
