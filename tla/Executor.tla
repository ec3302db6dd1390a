------------------------------- MODULE Executor -------------------------------
(***************************************************************************)
(* Executions of functions in the repository of a view or of trunk.  Each  *)
(* schedules functions of several kinds; the kinds decide which of the two *)
(* locks of the repository are taken, for reading or for writing: the one  *)
(* of the files, and one in memory for work in .git alone.  The functions  *)
(* run one after another, a function may execute others in another         *)
(* repository or, in one case, in its own.                                 *)
(*                                                                         *)
(* One process.  Both locks are readers-writer locks in which a writer who *)
(* waits keeps new readers out, and whose departure lets the readers in    *)
(* that have come meanwhile: sync.RWMutex, and the FileLock of the module  *)
(* of that name, which shows what its errors and other processes do.       *)
(* Temporary views are the subject of TempViews.                           *)
(***************************************************************************)
EXTENDS Naturals, Sequences, FiniteSets

CONSTANTS Thread,  \* goroutines of requests and of workers
          Trunk, View,
          Branch,  \* of workspaces, in views
          Offered  \* names of the executions that goroutines start

None == 0
Repo == View \union {Trunk}

VARIABLES stack,    \* of each goroutine: its executions, the innermost last
          lock,     \* of each repository, of its files and in memory
          branch,   \* what is checked out in each view
          rebasing  \* whether a view is in a rebase that has conflicts

vars == <<stack, lock, branch, rebasing>>

-----------------------------------------------------------------------------
(* What is executed, where: the kinds of the functions, whether a state in *)
(* a rebase is allowed, and what a function may execute in turn.           *)

Execution(in, fns, allow, calls) == [in |-> in, fns |-> fns, allow |-> allow, calls |-> calls]

openWorkspace  == Execution("view", <<"write", "write">>, FALSE, "none")
diffsFromView  == Execution("view", <<"assert", "read">>, TRUE, "none")
snapshotOnView == Execution("view", <<"read", "fileReadGitWrite">>, FALSE, "none")
syncOnTrunk    == Execution("view", <<"assert", "write">>, TRUE, "none")
syncResolve    == Execution("view", <<"write">>, TRUE, "none")
landChange     == Execution("view", <<"write">>, FALSE, "getCommit")
checkConflicts == Execution("view", <<"gitWrite">>, FALSE, "none")
deleteSnapshot == Execution("view", <<"gitWrite">>, TRUE, "none")
viewFs         == Execution("view", <<"gitRead">>, FALSE, "none")
repairView     == Execution("view", <<"schedule">>, FALSE, "snapshotOnView")
getCommit      == Execution("trunk", <<"gitRead">>, FALSE, "none")
pullRemote     == Execution("trunk", <<"gitWrite">>, FALSE, "none")
receivePack    == Execution("trunk", <<"write">>, FALSE, "none")
infoRefs       == Execution("trunk", <<"read">>, FALSE, "none")
welcomeMessage == Execution("trunk", <<"fileReadGitWrite">>, FALSE, "none")

Executed(s) ==
    CASE s = "openWorkspace" -> openWorkspace
      [] s = "diffsFromView" -> diffsFromView
      [] s = "snapshotOnView" -> snapshotOnView
      [] s = "syncOnTrunk" -> syncOnTrunk
      [] s = "syncResolve" -> syncResolve
      [] s = "landChange" -> landChange
      [] s = "checkConflicts" -> checkConflicts
      [] s = "deleteSnapshot" -> deleteSnapshot
      [] s = "viewFs" -> viewFs
      [] s = "repairView" -> repairView
      [] s = "getCommit" -> getCommit
      [] s = "pullRemote" -> pullRemote
      [] s = "receivePack" -> receivePack
      [] s = "infoRefs" -> infoRefs
      [] s = "welcomeMessage" -> welcomeMessage

Names == {"openWorkspace", "diffsFromView", "snapshotOnView", "syncOnTrunk", "syncResolve",
          "landChange", "checkConflicts", "deleteSnapshot", "viewFs", "repairView",
          "getCommit", "pullRemote", "receivePack", "infoRefs", "welcomeMessage"}

(* Mutant: CreateAndLandFromView forgets to pass on the repository it has, *)
(* and the snapshot executes in the view again.                            *)
Calls_Again(s) == IF s = "landChange" THEN "snapshotOnView" ELSE Executed(s).calls
Calls(s) == Executed(s).calls

(* Mutant: the list with the check in front is made and then forgotten.    *)
Functions_NoCheck(s) == Executed(s).fns

(* Unless it is allowed, the first function checks that there is no rebase. *)
Functions(s) == IF Executed(s).allow THEN Executed(s).fns ELSE <<"check">> \o Executed(s).fns

Kinds(s) == {Executed(s).fns[i] : i \in DOMAIN Executed(s).fns}

(* The kinds that take the lock of the files, or the one in memory, for    *)
(* writing, and those that take it for reading.                            *)
ForWriting == [file |-> {"write", "schedule"}, memory |-> {"gitWrite", "fileReadGitWrite"}]
ForReading == [file |-> {"read", "fileReadGitWrite"}, memory |-> {"gitRead", "assert"}]

(* Mutant: FileReadGitWrite asks for the lock in memory only.              *)
Mode_GitOnly(s, k) ==
    IF Kinds(s) \intersect ForWriting[k] # {} THEN "write"
    ELSE IF (Kinds(s) \ {"fileReadGitWrite"}) \intersect ForReading[k] # {} THEN "read"
    ELSE "none"

(* How a lock is taken.                                                    *)
Mode(s, k) ==
    IF Kinds(s) \intersect ForWriting[k] # {} THEN "write"
    ELSE IF Kinds(s) \intersect ForReading[k] # {} THEN "read"
    ELSE "none"

-----------------------------------------------------------------------------
(* Goroutines and locks.  Who holds a lock is an execution: a goroutine    *)
(* and the depth in its stack.                                             *)

Free == [writer |-> <<>>, readers |-> {}, waiting |-> {}]

Init == /\ stack = [t \in Thread |-> <<>>]
        /\ lock = [r \in Repo |-> [k \in {"file", "memory"} |-> Free]]
        /\ branch \in [View -> Branch] /\ rebasing = [v \in View |-> FALSE]

Me(t)  == <<t, Len(stack[t])>>
Top(t) == stack[t][Len(stack[t])]
At(t, pc) == stack[t] # <<>> /\ Top(t).pc = pc
L(t, k) == lock[Top(t).repo][k]

SetTop(t, e)     == stack' = [stack EXCEPT ![t][Len(stack[t])] = e]
Go(t, pc)        == SetTop(t, [Top(t) EXCEPT !.pc = pc])
GoOn(t)          == SetTop(t, [Top(t) EXCEPT !.pc = "run", !.i = @ + 1])
SetLock(t, k, l) == lock' = [lock EXCEPT ![Top(t).repo][k] = l]

(* The lock of the files comes first.                                      *)
After(k) == IF k = "file" THEN "memory" ELSE "run"

Started(s, r, b) == [what |-> s, repo |-> r, branch |-> b, pc |-> "file", i |-> 1]

Exec(t) ==
    /\ stack[t] = <<>>
    /\ \E s \in Offered : \E r \in IF Executed(s).in = "trunk" THEN {Trunk} ELSE View :
         \E b \in IF "assert" \in Kinds(s) THEN Branch ELSE {None} :
            stack' = [stack EXCEPT ![t] = <<Started(s, r, b)>>]
    /\ UNCHANGED <<lock, branch, rebasing>>

NoLock(t, k) ==
    /\ At(t, k) /\ Mode(Top(t).what, k) = "none" /\ Go(t, After(k))
    /\ UNCHANGED <<lock, branch, rebasing>>

(* A reader comes: behind a writer he waits.                               *)
RLock(t, k) ==
    /\ At(t, k) /\ Mode(Top(t).what, k) = "read"
    /\ Me(t) \notin L(t, k).readers \union L(t, k).waiting
    /\ IF L(t, k).writer = <<>>
       THEN SetLock(t, k, [L(t, k) EXCEPT !.readers = @ \union {Me(t)}])
       ELSE SetLock(t, k, [L(t, k) EXCEPT !.waiting = @ \union {Me(t)}])
    /\ UNCHANGED <<stack, branch, rebasing>>

(* A writer comes: one at a time.                                          *)
Lock(t, k) ==
    /\ At(t, k) /\ Mode(Top(t).what, k) = "write" /\ L(t, k).writer = <<>>
    /\ SetLock(t, k, [L(t, k) EXCEPT !.writer = Me(t)])
    /\ UNCHANGED <<stack, branch, rebasing>>

Locked(t, k) ==
    /\ At(t, k)
    /\ \/ Mode(Top(t).what, k) = "read" /\ Me(t) \in L(t, k).readers
       \/ Mode(Top(t).what, k) = "write" /\ L(t, k).writer = Me(t) /\ L(t, k).readers = {}
    /\ Go(t, After(k)) /\ UNCHANGED <<lock, branch, rebasing>>

-----------------------------------------------------------------------------
(* The functions of an execution.                                          *)

Function(t) == Functions(Top(t).what)[Top(t).i]
Rebasing(r) == r \in View /\ rebasing[r]

(* The error of a check ends the execution.                                *)
Check(t) ==
    /\ At(t, "run") /\ Function(t) = "check"
    /\ IF Rebasing(Top(t).repo) THEN Go(t, "unlock")
       ELSE GoOn(t)
    /\ UNCHANGED <<lock, branch, rebasing>>

AssertBranchName(t) ==
    /\ At(t, "run") /\ Function(t) = "assert"
    /\ IF ~Rebasing(Top(t).repo) /\ branch[Top(t).repo] # Top(t).branch THEN Go(t, "unlock")
       ELSE GoOn(t)
    /\ UNCHANGED <<lock, branch, rebasing>>

Call(t) ==
    /\ At(t, "run") /\ Function(t) \notin {"check", "assert"} /\ Go(t, "in")
    /\ UNCHANGED <<lock, branch, rebasing>>

(* A function executes others, in turn: a landing looks up a commit on     *)
(* trunk, the repair of a view takes a snapshot.                           *)
ExecInside(t) ==
    LET c == Calls(Top(t).what)
        r == IF Executed(c).in = "trunk" THEN Trunk ELSE Top(t).repo
    IN /\ At(t, "in") /\ Calls(Top(t).what) # "none"
       /\ stack' = [stack EXCEPT ![t] =
            Append([stack[t] EXCEPT ![Len(stack[t])].pc = "back"], Started(c, r, None))]
       /\ UNCHANGED <<lock, branch, rebasing>>

(* What a function has done to the view when it returns.                   *)
Effect(s, v) ==
    CASE s = "openWorkspace" -> /\ \E b \in Branch : branch' = [branch EXCEPT ![v] = b]
                                /\ UNCHANGED rebasing
      [] s \in {"syncOnTrunk", "syncResolve"} ->
            /\ \E b \in {s = "syncOnTrunk" \/ rebasing[v], FALSE} :
                  rebasing' = [rebasing EXCEPT ![v] = IF s = "syncOnTrunk" THEN @ \/ b ELSE b]
            /\ UNCHANGED branch
      [] OTHER -> UNCHANGED <<branch, rebasing>>

(* It returns, or returns an error, or panics.                             *)
Return(t) ==
    /\ At(t, "in") \/ At(t, "back")
    /\ Effect(Top(t).what, Top(t).repo)
    /\ \/ Top(t).i < Len(Functions(Top(t).what)) /\ GoOn(t)
       \/ Go(t, "unlock")
    /\ UNCHANGED lock

-----------------------------------------------------------------------------
Holds(t, k) == L(t, k).writer = Me(t) \/ Me(t) \in L(t, k).readers

Released(t, k) ==
    IF L(t, k).writer = Me(t)
    THEN [writer |-> <<>>, readers |-> L(t, k).waiting, waiting |-> {}]
    ELSE [L(t, k) EXCEPT !.readers = @ \ {Me(t)}]

(* However an execution ends, it gives up the lock in memory, then that of *)
(* the files.                                                              *)
Unlock(t) ==
    /\ At(t, "unlock") /\ UNCHANGED <<branch, rebasing>>
    /\ \/ \E k \in {"file", "memory"} :
             /\ Holds(t, k) /\ (k = "file" => ~Holds(t, "memory"))
             /\ SetLock(t, k, Released(t, k)) /\ UNCHANGED stack
       \/ /\ ~Holds(t, "file") /\ ~Holds(t, "memory")
          /\ stack' = [stack EXCEPT ![t] = SubSeq(stack[t], 1, Len(stack[t]) - 1)] /\ UNCHANGED lock

Step(t) ==
    \/ \E k \in {"file", "memory"} : NoLock(t, k) \/ RLock(t, k) \/ Locked(t, k)
    \/ Check(t) \/ AssertBranchName(t) \/ Call(t) \/ ExecInside(t) \/ Return(t) \/ Unlock(t)

Next == \E t \in Thread : \/ Exec(t) \/ Step(t)
                          \/ \E k \in {"file", "memory"} : Lock(t, k)

(* Functions end.  The mutex between writers starves none of them.         *)
Fairness == \A t \in Thread :
    /\ WF_vars(Step(t))
    /\ \A k \in {"file", "memory"} : SF_vars(Lock(t, k))

Spec == Init /\ [][Next]_vars
FairSpec == Spec /\ Fairness

-----------------------------------------------------------------------------
Executions == UNION {{<<t, d>> : d \in DOMAIN stack[t]} : t \in Thread}
E(x) == stack[x[1]][x[2]]
Users(l) == l.readers \union l.waiting \union (IF l.writer = <<>> THEN {} ELSE {l.writer})

Running(x, kinds) == E(x).pc \in {"in", "back"} /\ Functions(E(x).what)[E(x).i] \in kinds

WritesFiles == {"write", "schedule"}
ReadsFiles  == {"read", "fileReadGitWrite"}
WritesGit   == {"gitWrite", "fileReadGitWrite"}
ReadsGit    == {"gitRead"}

(* While a function writes the files of a repository, no other execution   *)
(* reads or writes them; while one writes only .git, no other reads or     *)
(* writes only .git.                                                       *)
LocksExclude == \A x, y \in Executions : x # y /\ E(x).repo = E(y).repo =>
    /\ Running(x, WritesFiles) => ~Running(y, WritesFiles \union ReadsFiles)
    /\ Running(x, WritesGit) => ~Running(y, WritesGit \union ReadsGit)

(* "In an expected state": a function that reads or writes files runs in a *)
(* view that is not in a rebase, unless that is allowed, and on the branch *)
(* that was asserted, unless in a rebase.  Checks and functions are steps  *)
(* of their own; other executions start and end rebases and change the     *)
(* branch.                                                                 *)
InExpectedState == \A x \in Executions :
    Running(x, WritesFiles \union ReadsFiles) /\ E(x).repo \in View =>
        /\ rebasing[E(x).repo] => Executed(E(x).what).allow
        /\ E(x).branch \in {None, branch[E(x).repo]} \/ rebasing[E(x).repo]

(* Executions whose end x waits for.                                       *)
WaitsFor(x) ==
    LET e == E(x)
        l == lock[e.repo][e.pc]
    IN IF e.pc \notin {"file", "memory"} THEN {}
       ELSE CASE Mode(e.what, e.pc) = "read"  -> IF x \in l.waiting THEN {l.writer} ELSE {}
              [] Mode(e.what, e.pc) = "write" -> IF l.writer = x THEN l.readers
                                                 ELSE Users(l) \ l.waiting
              [] OTHER -> {}

Waiting(t) == IF stack[t] = <<>> THEN {} ELSE {x[1] : x \in WaitsFor(Me(t))}

(* No goroutines wait for each other in a circle, nor one for itself, with *)
(* the locks of views and trunk nested as landings nest them; nor for an   *)
(* execution that has ended: whether a function returns, fails or panics,  *)
(* nothing is left locked (the deferred unlocks of exec).                  *)
NoCircularWait ==
    /\ \A ts \in (SUBSET Thread) \ {{}} : \E t \in ts : Waiting(t) \intersect ts = {}
    /\ \A r \in Repo, k \in {"file", "memory"} : Users(lock[r][k]) \subseteq Executions

(* "This view is the authoritative view of a workspace, restore the        *)
(* workspace afterwards" (RepairView): a repair comes to its end.          *)
RestoredAfterwards == \A t \in Thread :
    stack[t] # <<>> /\ stack[t][1].what = "repairView" ~> stack[t] = <<>>
=============================================================================
