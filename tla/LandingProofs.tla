--------------------------- MODULE LandingProofs ---------------------------
(***************************************************************************)
(* What landing, importing and reading keep, for any number of workspaces, *)
(* requests, commits and failures.                                         *)
(*                                                                         *)
(* The inductive invariant says what a request knows at each of its steps: *)
(* its commit, the change it has recorded for it, the parent it has found. *)
(* What nobody else can know is the commit of a landing that has not been  *)
(* recorded yet (FreshOK): so nobody imports it before the landing inserts *)
(* it, although Insert is not guarded.                                     *)
(*                                                                         *)
(* For the caches, CachesOK says at which steps of a request that runs     *)
(* alone they may be behind trunk (AtWork), and what the request has read  *)
(* of trunk by then, so that they are right again when it ends.            *)
(***************************************************************************)
EXTENDS MCLanding, SequenceTheorems, FiniteSetTheorems, TLAPS

(* What a request may be about at each of its steps.                       *)
OpsAt(at) ==
    CASE at = "idle" -> {"none"}
      [] at = "pull" -> {"tracked", "pull"}
      [] at \in {"find", "import"} -> {"land", "tracked", "head", "changelog"}
      [] at \in {"commit", "insert", "push", "pushBranch", "update"} -> {"land", "tracked"}
      [] at \in {"unsetAll", "readCb", "unsetHead"} -> {"land", "tracked", "pull"}
      [] at = "saveHead" -> {"land", "tracked", "head"}
      [] at \in {"archive", "close"} -> {"land", "tracked", "archive"}
      [] at = "pushTrunk" -> {"tracked"}
      [] at = "headCommit" -> {"head"}
      [] at = "setParent" -> {"changelog"}
      [] at = "saveSettings" -> {"settings"}
      [] at \in {"compute", "answer"} -> {"check"}
      [] at \in {"syncBranch", "updated"} -> {"sync"}

(* Change i is the one of commit c, if it is one.                          *)
IsChangeOf(i, c) == i # NoChange => changes[i].commit = c

(* What a request knows, wherever it is: commits and changes that exist, a *)
(* landing the change of its commit, a reader of the changelog the commit  *)
(* on which the one of its change is made.                                 *)
KnownOK(a) ==
    /\ loc[a].op \in {"land", "tracked", "check", "sync", "archive"} => loc[a].w \in Workspace
    /\ loc[a].op \in {"tracked", "pull"} => tracked
    /\ loc[a].op = "pull" => loc[a].change = NoChange
    /\ loc[a].commit \in 0..Len(onto) /\ loc[a].find \in 0..Len(onto)
    /\ loc[a].change \in 0..Len(changes) /\ loc[a].parent \in 0..Len(changes)
    /\ loc[a].cb.head \in 0..Len(changes)
    /\ IsLanding(a) => IsChangeOf(loc[a].change, loc[a].commit)
    /\ loc[a].op = "changelog" =>
          /\ loc[a].change # NoChange
          /\ onto[changes[loc[a].change].commit] = loc[a].find

Unrecorded == {"find", "import", "insert"}

(* What it knows at some of its steps.                                     *)
PlaceOK(a) ==
    /\ loc[a].op \in OpsAt(pc[a])
    /\ IsLanding(a) =>
          /\ pc[a] \in Unrecorded \union {"push"} => loc[a].commit # Root
          /\ pc[a] \in Unrecorded => onto[loc[a].commit] = loc[a].find
          /\ pc[a] \in Unrecorded \union {"pull", "commit"} => loc[a].change = NoChange
    /\ pc[a] = "import" => loc[a].find # Root
    /\ pc[a] \in {"insert", "setParent"} => IsChangeOf(loc[a].parent, loc[a].find)

ActorOK(a) == KnownOK(a) /\ PlaceOK(a)

(* A commit that is not recorded is known to its landing alone.            *)
Unknown(a, c) ==
    /\ c \notin Commits(trunk) /\ c \notin Commits(remote) /\ ChangeOf(c) = {}
    /\ \A i \in DOMAIN onto : onto[i] # c
    /\ \A b \in Request : loc[b].find # c /\ (b # a => loc[b].commit # c)

FreshOK(a) == IsLanding(a) /\ pc[a] \in Unrecorded => Unknown(a, loc[a].commit)

OnTrunk(i) == i # NoChange => changes[i].commit \in Commits(trunk)

(* Without a remote, whoever is to store a change as landed or as the head *)
(* has one whose commit was pushed; and trunk keeps it.                    *)
TrunkOK(a) ==
    ~tracked =>
        /\ OnTrunk(loc[a].cb.head)
        /\ IsLanding(a) /\ pc[a] # "push" => OnTrunk(loc[a].change)
        /\ loc[a].op = "head" =>
              /\ OnTrunk(loc[a].change)
              /\ pc[a] \in {"find", "import"} => loc[a].find \in {Root} \union Commits(trunk)

StoredOK ==
    ~tracked => OnTrunk(codebase.head) /\ \A w \in Workspace : OnTrunk(row[w].change)

(* Commits are made on older ones.                                         *)
Rooted == \A i \in DOMAIN onto : onto[i] < i

RequestsOK == \A a \in Request : ActorOK(a)

IInv ==
    /\ TypeOK /\ Rooted /\ RequestsOK /\ \A a \in Request : FreshOK(a) /\ TrunkOK(a)
    /\ StoredOK /\ ChangesMirrorCommits

-----------------------------------------------------------------------------
(* While requests come one by one and none fails, the caches are behind    *)
(* trunk only between the steps of the request that moves it.              *)

Alone == ~overlap /\ failed = 0

IsHead(i)  == IF TrunkHead = Root THEN i = NoChange ELSE i \in ChangeOf(TrunkHead)
AnswerOf(w) == IF IsUpToDate(w) THEN "yes" ELSE "no"
AnswerRight(w) ==
    \/ row[w].upToDate = "null" \/ row[w].archived \/ row[w].unarchived
    \/ row[w].upToDate = AnswerOf(w)

HasPulled(a) == pc[a] \in {"readCb", "unsetHead"} /\ loc[a].change = NoChange
HasPushed(a) == pc[a] \in {"pushBranch", "update", "unsetAll", "readCb", "saveHead"}
                /\ IsLanding(a) /\ loc[a].change # NoChange

HeadOK(a)    == HasPulled(a) \/ HasPushed(a) \/ HeadCacheRight
AnswersOK(a) ==
    \/ HasPulled(a) \/ pc[a] \in {"pushBranch", "update", "unsetAll"}
    \/ \A w \in Workspace : AnswerRight(w) \/ (pc[a] = "updated" /\ w = loc[a].w)

(* What the request at work has got to say of trunk.                       *)
SaysOK(a) ==
    /\ IsLanding(a) /\ pc[a] \in {"push", "pushBranch", "update", "saveHead"}
          => loc[a].change # NoChange
    /\ pc[a] = "unsetHead" => loc[a].change = NoChange
    /\ HasPushed(a) => TrunkHead = loc[a].commit
    /\ loc[a].op = "head" =>
          /\ pc[a] \in {"find", "import"} => loc[a].find = TrunkHead
          /\ pc[a] = "saveHead" => IsHead(loc[a].change)
    /\ pc[a] = "saveSettings" => loc[a].cb = codebase
    /\ pc[a] = "answer" => loc[a].answer = AnswerOf(loc[a].w)

AtWork(a) == HeadOK(a) /\ AnswersOK(a) /\ SaysOK(a)

CachesOK ==
    /\ IsFiniteSet(Busy)
    /\ Alone => /\ NobodyRuns => HeadCacheRight /\ UpToDateRight
                /\ \A a, b \in Busy : a = b
                /\ \A a \in Busy : AtWork(a)

-----------------------------------------------------------------------------
(* Sequences.                                                              *)

LEMMA SeqWiden ==
    ASSUME NEW S, NEW T, S \subseteq T, NEW s \in Seq(S)
    PROVE  s \in Seq(T)
  OBVIOUS

LEMMA AppendIn ==
    ASSUME NEW S, NEW s \in Seq(S), NEW x \in S
    PROVE  /\ Append(s, x) \in Seq(S) /\ Len(Append(s, x)) = Len(s) + 1
           /\ Len(s) \in Nat /\ DOMAIN s = 1..Len(s)
           /\ \A i \in 1..Len(s) : Append(s, x)[i] = s[i]
           /\ Append(s, x)[Len(s) + 1] = x
  OBVIOUS

LEMMA ExceptIn ==
    ASSUME NEW S, NEW s \in Seq(S), NEW i \in 1..Len(s), NEW x \in S
    PROVE  /\ [s EXCEPT ![i] = x] \in Seq(S)
           /\ Len([s EXCEPT ![i] = x]) = Len(s)
  BY ExceptSeq

(* What is appended to a sequence of commits is on it, and nothing is lost.*)
LEMMA AppendCommits ==
    ASSUME NEW S, NEW s \in Seq(S), NEW x \in S
    PROVE  Commits(Append(s, x)) = Commits(s) \union {x}
<1>1. /\ DOMAIN Append(s, x) = 1..(Len(s) + 1) /\ DOMAIN s = 1..Len(s)
      /\ \A i \in 1..Len(s) : Append(s, x)[i] = s[i]
      /\ Append(s, x)[Len(s) + 1] = x /\ Len(s) \in Nat
  BY AppendIn
<1>2. Commits(Append(s, x)) = {Append(s, x)[i] : i \in 1..(Len(s) + 1)}
  BY <1>1 DEF Commits
<1>3. Commits(s) = {s[i] : i \in 1..Len(s)}
  BY <1>1 DEF Commits
<1>4. 1..(Len(s) + 1) = 1..Len(s) \union {Len(s) + 1}
  BY <1>1
<1>. QED BY <1>1, <1>2, <1>3, <1>4

(* The head of a sequence is on it.                                        *)
LEMMA HeadFacts ==
    ASSUME NEW n \in Nat, NEW s \in Seq(1..n)
    PROVE  /\ HeadOf(s) \in 0..n
           /\ HeadOf(s) # Root => HeadOf(s) \in Commits(s)
           /\ Root \notin Commits(s)
<1>1. DOMAIN s = 1..Len(s) /\ Len(s) \in Nat /\ \A i \in 1..Len(s) : s[i] \in 1..n
  OBVIOUS
<1>2. CASE s = <<>>
  BY <1>1, <1>2 DEF HeadOf, Root, Commits
<1>3. CASE s # <<>>
  <2>1. Len(s) \in 1..Len(s) /\ HeadOf(s) = s[Len(s)]
    BY <1>1, <1>3 DEF HeadOf
  <2>. QED BY <1>1, <2>1 DEF Root, Commits
<1>. QED BY <1>2, <1>3

-----------------------------------------------------------------------------
(* Which steps write what.                                                 *)

Step(a) == StartRequest(a) \/ Run(a) \/ Fail(a)

(* A request that is started, or that fails, writes one row at most.       *)
LEMMA StartFrame ==
    ASSUME NEW a \in Request, StartRequest(a) \/ Fail(a)
    PROVE  /\ UNCHANGED <<git, changes, codebase>>
           /\ row' = row \/ \E w \in Workspace : Unarchive(a, w)
  BY DEF StartRequest, Fail, PullRemote, HeadChange, ParentChange, Settings, Land,
         LandTracked, CheckUpToDate, Sync, Archive, Unarchive, Begin, git

LEMMA RunFrame ==
    ASSUME NEW a \in Request, Run(a)
    PROVE  /\ onto' = onto \/ Commit(a)
           /\ trunk' = trunk \/ Push(a) \/ Pull(a)
           /\ remote' = remote \/ PushTrunk(a)
           /\ pushed' = pushed \/ PushBranch(a) \/ SyncBranch(a)
           /\ draft' = draft \/ Commit(a)
           /\ changes' = changes \/ Import(a) \/ Insert(a) \/ SetParent(a)
           /\ codebase' = codebase \/ SaveHead(a) \/ UnsetHead(a) \/ SaveSettings(a)
           /\ \/ row' = row \/ Update(a) \/ UnsetAll(a) \/ ArchiveLanded(a)
              \/ Close(a) \/ SaveAnswer(a) \/ Updated(a)
           /\ started' = started /\ failed' = failed
<1>1. CASE LandStep(a)
  BY <1>1 DEF LandStep, CommitNothing, Commit, Find, Import, Insert, Push, PushBranch,
         Update, UnsetAll, ReadCodebase, SaveHead, ArchiveLanded, Close, PushTrunk, git
<1>2. CASE ReadStep(a) \/ OtherStep(a)
  BY <1>2 DEF ReadStep, OtherStep, HeadCommit, SetParent, Compute, SaveAnswer, Pull,
         UnsetHead, SaveSettings, SyncBranch, Updated, git
<1>. QED BY <1>1, <1>2 DEF Run

LEMMA EnvironmentFrame ==
    ASSUME Environment
    PROVE  /\ UNCHANGED <<trunk, pushed, changes, codebase, row, pc, loc, started, failed>>
           /\ \/ RemoteCommit /\ draft' = draft
              \/ onto' = onto /\ remote' = remote /\ \E w \in Workspace : Edit(w)
<1>1. CASE RemoteCommit
  BY <1>1 DEF RemoteCommit
<1>2. ASSUME NEW w \in Workspace, Edit(w)
      PROVE  UNCHANGED <<onto, trunk, remote, pushed, changes, codebase, row, pc, loc,
                         started, failed>>
  BY <1>2 DEF Edit
<1>3. CASE \E w \in Workspace : Edit(w)
  BY <1>2, <1>3
<1>. QED BY <1>1, <1>3 DEF Environment

(* A step of a request leaves the others alone.                            *)
LEMMA Others ==
    ASSUME TypeOK, RequestsOK, NEW a \in Request, Step(a), NEW b \in Request, b # a
    PROVE  pc'[b] = pc[b] /\ loc'[b] = loc[b]
<1>. USE DEF TypeOK, Goto, Finish
<1>1. CASE StartRequest(a) \/ Fail(a)
  BY <1>1 DEF StartRequest, Fail, PullRemote, HeadChange, ParentChange, Settings, Land,
         LandTracked, CheckUpToDate, Sync, Archive, Unarchive, Begin
<1>2. CASE Find(a) \/ Import(a)
  <2>1. loc[a].op \in {"land", "tracked", "head", "changelog"}
    BY <1>2 DEF Find, Import, RequestsOK, ActorOK, PlaceOK, OpsAt
  <2>2. ASSUME NEW i, Found(a, i) PROVE pc'[b] = pc[b] /\ loc'[b] = loc[b]
    BY <2>1, <2>2 DEF Found, IsLanding
  <2>. QED BY <1>2, <2>2 DEF Find, Import
<1>3. CASE UnsetAll(a) \/ SaveHead(a) \/ Close(a) \/ Push(a)
  BY <1>3 DEF UnsetAll, SaveHead, Close, Push
<1>4. CASE LandStep(a)
  BY <1>2, <1>3, <1>4 DEF LandStep, CommitNothing, Commit, Insert, PushBranch, Update,
         ReadCodebase, ArchiveLanded, PushTrunk
<1>5. CASE ReadStep(a) \/ OtherStep(a)
  BY <1>5 DEF ReadStep, OtherStep, HeadCommit, SetParent, Compute, SaveAnswer, Pull,
         UnsetHead, SaveSettings, SyncBranch, Updated
<1>. QED BY <1>1, <1>4, <1>5 DEF Step, Run
-----------------------------------------------------------------------------
(* What a step never takes back.                                           *)

Grows ==
    /\ tracked' = tracked
    /\ Len(onto) \in Nat /\ Len(onto') \in Nat /\ Len(onto) <= Len(onto')
    /\ \A i \in 1..Len(onto) : onto'[i] = onto[i]
    /\ Len(changes) \in Nat /\ Len(changes') \in Nat /\ Len(changes) <= Len(changes')
    /\ \A i \in 1..Len(changes) : changes'[i].commit = changes[i].commit
    /\ ~tracked => Commits(trunk) \subseteq Commits(trunk')

(* The head of trunk and of the remote are commits.                        *)
LEMMA Heads ==
    ASSUME TypeOK
    PROVE  /\ Len(onto) \in Nat
           /\ TrunkHead \in 0..Len(onto) /\ HeadOf(remote) \in 0..Len(onto)
           /\ TrunkHead # Root => TrunkHead \in Commits(trunk)
           /\ HeadOf(remote) # Root => HeadOf(remote) \in Commits(remote)
<1>1. /\ Len(onto) \in Nat /\ trunk \in Seq(1..Len(onto)) /\ remote \in Seq(1..Len(onto))
  BY DEF TypeOK
<1>. QED BY <1>1, HeadFacts DEF TrunkHead

LEMMA OntoNext ==
    ASSUME TypeOK, [Next]_vars
    PROVE  /\ onto' \in Seq(Nat) /\ Len(onto') <= MaxCommits
           /\ Len(onto) <= Len(onto') /\ Len(onto) \in Nat /\ Len(onto') \in Nat
           /\ \A i \in 1..Len(onto) : onto'[i] = onto[i]
<1>1. onto \in Seq(Nat) /\ Len(onto) <= MaxCommits /\ Len(onto) \in Nat
  BY DEF TypeOK
<1>2. CASE onto' = onto
  BY <1>1, <1>2
<1>3. ASSUME NEW c \in Nat, onto' = Append(onto, c), Len(onto) < MaxCommits
      PROVE  onto' \in Seq(Nat) /\ Len(onto') = Len(onto) + 1 /\ Len(onto') <= MaxCommits
             /\ \A i \in 1..Len(onto) : onto'[i] = onto[i]
  BY <1>1, <1>3, AppendIn, LimitsAssumption
<1>4. CASE RemoteCommit
  BY <1>1, <1>3, <1>4, Heads DEF RemoteCommit
<1>5. ASSUME NEW a \in Request, Commit(a)
      PROVE  onto' = Append(onto, TrunkHead) /\ Len(onto) < MaxCommits
  BY <1>5 DEF Commit
<1>6. onto' = onto \/ RemoteCommit \/ \E a \in Request : Commit(a)
  BY StartFrame, RunFrame, EnvironmentFrame DEF Next, vars, git
<1>. QED BY <1>1, <1>2, <1>3, <1>4, <1>5, <1>6, Heads

LEMMA TrunkNext ==
    ASSUME TypeOK, RequestsOK, [Next]_vars
    PROVE  /\ trunk' \in Seq(1..Len(onto')) /\ remote' \in Seq(1..Len(onto'))
           /\ tracked' = tracked
           /\ ~tracked => Commits(trunk) \subseteq Commits(trunk')
<1>1. /\ trunk \in Seq(1..Len(onto)) /\ remote \in Seq(1..Len(onto))
      /\ Len(onto) \in Nat /\ Len(onto') \in Nat /\ Len(onto) <= Len(onto')
  BY OntoNext DEF TypeOK
<1>2. 1..Len(onto) \subseteq 1..Len(onto')
  BY <1>1
<1>3. trunk \in Seq(1..Len(onto')) /\ remote \in Seq(1..Len(onto'))
  BY <1>1, <1>2, SeqWiden
<1>4. ASSUME NEW a \in Request, Push(a)
      PROVE  trunk' \in Seq(1..Len(onto')) /\ Commits(trunk) \subseteq Commits(trunk')
  <2>1. loc[a].commit \in 1..Len(onto)
    <3>1. pc[a] = "push" /\ KnownOK(a) /\ PlaceOK(a)
      BY <1>4 DEF Push, RequestsOK, ActorOK
    <3>2. IsLanding(a)
      BY <3>1 DEF PlaceOK, OpsAt, IsLanding
    <3>. QED BY <1>1, <3>1, <3>2 DEF KnownOK, PlaceOK, Root
  <2>2. CASE trunk' = Append(trunk, loc[a].commit)
    <3>1. Append(trunk, loc[a].commit) \in Seq(1..Len(onto))
      BY <1>1, <2>1, AppendIn
    <3>2. Append(trunk, loc[a].commit) \in Seq(1..Len(onto'))
      BY <1>2, <3>1, SeqWiden
    <3>3. Commits(Append(trunk, loc[a].commit)) = Commits(trunk) \union {loc[a].commit}
      BY <1>1, <2>1, AppendCommits
    <3>. QED BY <2>2, <3>2, <3>3
  <2>3. CASE trunk' = trunk
    BY <1>3, <2>3
  <2>. QED BY <1>4, <2>2, <2>3 DEF Push
<1>5. ASSUME NEW a \in Request, Pull(a)
      PROVE  trunk' \in Seq(1..Len(onto')) /\ tracked
  <2>1. pc[a] = "pull" /\ KnownOK(a) /\ PlaceOK(a)
    BY <1>5 DEF Pull, RequestsOK, ActorOK
  <2>. QED BY <1>3, <1>5, <2>1 DEF Pull, KnownOK, PlaceOK, OpsAt
<1>6. ASSUME NEW a \in Request, PushTrunk(a) PROVE remote' \in Seq(1..Len(onto'))
  BY <1>3, <1>6 DEF PushTrunk
<1>7. ASSUME RemoteCommit PROVE remote' \in Seq(1..Len(onto'))
  <2>1. onto' = Append(onto, HeadOf(remote)) /\ remote' = Append(remote, Len(onto) + 1)
    BY <1>7 DEF RemoteCommit
  <2>2. HeadOf(remote) \in Nat /\ onto \in Seq(Nat)
    BY Heads DEF TypeOK
  <2>3. Len(onto') = Len(onto) + 1
    BY <2>1, <2>2, AppendIn
  <2>4. Len(onto) + 1 \in 1..Len(onto')
    BY <1>1, <2>3
  <2>. QED BY <1>3, <2>1, <2>4, AppendIn
<1>8. trunk' = trunk \/ \E a \in Request : Push(a) \/ Pull(a)
  BY StartFrame, RunFrame, EnvironmentFrame DEF Next, vars, git
<1>9. remote' = remote \/ RemoteCommit \/ \E a \in Request : PushTrunk(a)
  BY StartFrame, RunFrame, EnvironmentFrame DEF Next, vars, git
<1>10. tracked' = tracked
  BY DEF Next, vars
<1>11. trunk' \in Seq(1..Len(onto')) /\ (~tracked => Commits(trunk) \subseteq Commits(trunk'))
  BY <1>3, <1>4, <1>5, <1>8
<1>12. remote' \in Seq(1..Len(onto'))
  BY <1>3, <1>6, <1>7, <1>9
<1>. QED BY <1>10, <1>11, <1>12
-----------------------------------------------------------------------------
(* The table of changes.                                                   *)

ChangeRow(commits, rows) ==
    [commit : 1..commits, parent : 0..rows, ws : Workspace \union {none}]

(* What holds of the table after a step.                                   *)
ChangesKept ==
    /\ changes' \in Seq(ChangeRow(Len(onto'), Len(changes')))
    /\ Len(changes) \in Nat /\ Len(changes') \in Nat /\ Len(changes) <= Len(changes')
    /\ \A i \in 1..Len(changes) : changes'[i].commit = changes[i].commit
    /\ ChangesMirrorCommits'

LEMMA ChangeFacts ==
    ASSUME TypeOK
    PROVE  /\ Len(changes) \in Nat /\ DOMAIN changes = 1..Len(changes)
           /\ changes \in Seq(ChangeRow(Len(onto), Len(changes)))
           /\ \A i \in 1..Len(changes) :
                 /\ changes[i] \in ChangeRow(Len(onto), Len(changes))
                 /\ changes[i].commit \in 1..Len(onto)
                 /\ changes[i].parent \in 0..Len(changes)
           /\ Len(onto) \in Nat /\ DOMAIN onto = 1..Len(onto)
<1>1. changes \in Seq(ChangeRow(Len(onto), Len(changes))) /\ onto \in Seq(Nat)
  BY DEF TypeOK, ChangeRow
<1>2. \A i \in 1..Len(changes) : changes[i] \in ChangeRow(Len(onto), Len(changes))
  BY <1>1, ElementOfSeq
<1>3. \A i \in 1..Len(changes) : /\ changes[i].commit \in 1..Len(onto)
                                 /\ changes[i].parent \in 0..Len(changes)
  BY <1>2 DEF ChangeRow
<1>. QED BY <1>1, <1>2, <1>3, LenProperties

LEMMA OneChange ==
    OneChangePerCommit <=>
        \A i, j \in DOMAIN changes : changes[i].commit = changes[j].commit => i = j
  BY DEF OneChangePerCommit, ChangeOf

LEMMA ChangesSame ==
    ASSUME TypeOK, ChangesMirrorCommits, changes' = changes, [Next]_vars
    PROVE  ChangesKept
<1>1. /\ Len(onto) <= Len(onto') /\ Len(onto) \in Nat /\ Len(onto') \in Nat
      /\ \A i \in 1..Len(onto) : onto'[i] = onto[i]
  BY OntoNext
<1>2. ChangeRow(Len(onto), Len(changes)) \subseteq ChangeRow(Len(onto'), Len(changes))
  BY <1>1 DEF ChangeRow
<1>3. changes' \in Seq(ChangeRow(Len(onto'), Len(changes')))
  BY <1>2, ChangeFacts, SeqWiden
<1>4. OneChangePerCommit'
  BY DEF ChangesMirrorCommits, OneChangePerCommit, ChangeOf
<1>5. ParentIsParentCommit'
  BY <1>1, ChangeFacts DEF ChangesMirrorCommits, ParentIsParentCommit
<1>. QED BY <1>3, <1>4, <1>5, ChangeFacts DEF ChangesKept, ChangesMirrorCommits

(* A change of a commit that has none, with the change of its parent.      *)
LEMMA ChangeAdded ==
    ASSUME TypeOK, ChangesMirrorCommits, onto' = onto,
           NEW c \in 1..Len(onto), ChangeOf(c) = {},
           NEW p \in 0..Len(changes), IsChangeOf(p, onto[c]),
           NEW w \in Workspace \union {none},
           changes' = Append(changes, [commit |-> c, parent |-> p, ws |-> w])
    PROVE  /\ ChangesKept /\ Len(changes') = Len(changes) + 1
           /\ changes'[Len(changes) + 1].commit = c
<1>. DEFINE new == [commit |-> c, parent |-> p, ws |-> w]  n == Len(changes)
<1>1. /\ n \in Nat /\ DOMAIN changes = 1..n
      /\ changes \in Seq(ChangeRow(Len(onto), n))
      /\ \A i \in 1..n : changes[i].commit \in 1..Len(onto) /\ changes[i].parent \in 0..n
  BY ChangeFacts
<1>2. /\ ChangeRow(Len(onto), n) \subseteq ChangeRow(Len(onto), n + 1)
      /\ new \in ChangeRow(Len(onto), n + 1)
  BY <1>1 DEF ChangeRow
<1>3. changes \in Seq(ChangeRow(Len(onto), n + 1))
  BY <1>1, <1>2, SeqWiden
<1>. HIDE DEF new
<1>4. /\ changes' \in Seq(ChangeRow(Len(onto), n + 1)) /\ Len(changes') = n + 1
      /\ \A i \in 1..n : changes'[i] = changes[i]
      /\ changes'[n + 1] = new
  BY <1>2, <1>3, AppendIn DEF new
<1>5. DOMAIN changes' = 1..(n + 1)
  BY <1>4, LenProperties
<1>6. new.commit = c /\ new.parent = p
  BY DEF new
<1>7. \A i \in 1..n : changes[i].commit # c
  BY <1>1 DEF ChangeOf
<1>8. \A i, j \in DOMAIN changes' : changes'[i].commit = changes'[j].commit => i = j
  <2>1. \A i, j \in 1..n : changes[i].commit = changes[j].commit => i = j
    BY <1>1, OneChange DEF ChangesMirrorCommits
  <2>. QED BY <1>1, <1>4, <1>5, <1>6, <1>7, <2>1
<1>9. OneChangePerCommit'
  BY <1>8 DEF OneChangePerCommit, ChangeOf
<1>10. ParentIsParentCommit'
  <2>1. ASSUME NEW i \in 1..(n + 1), changes'[i].parent # NoChange
        PROVE  changes'[changes'[i].parent].commit = onto'[changes'[i].commit]
    <3>1. CASE i \in 1..n
      <4>1. changes[i].parent \in 1..n /\ changes'[i] = changes[i]
        BY <1>1, <1>4, <2>1, <3>1 DEF NoChange
      <4>2. changes[changes[i].parent].commit = onto[changes[i].commit]
        BY <1>1, <2>1, <3>1, <4>1 DEF ChangesMirrorCommits, ParentIsParentCommit
      <4>. QED BY <1>4, <4>1, <4>2
    <3>2. CASE i = n + 1
      <4>1. p \in 1..n /\ changes[p].commit = onto[c]
        BY <1>1, <1>4, <1>6, <2>1, <3>2 DEF IsChangeOf, NoChange
      <4>. QED BY <1>4, <1>6, <3>2, <4>1
    <3>3. i \in 1..n \/ i = n + 1
      BY <1>1
    <3>. QED BY <3>1, <3>2, <3>3
  <2>. QED BY <1>5, <2>1 DEF ParentIsParentCommit
<1>. QED BY <1>1, <1>4, <1>6, <1>9, <1>10 DEF ChangesKept, ChangesMirrorCommits

(* The parent that is set is the change of the commit's parent.            *)
LEMMA ParentSet ==
    ASSUME TypeOK, ChangesMirrorCommits, onto' = onto,
           NEW k \in 1..Len(changes), NEW p \in 0..Len(changes),
           IsChangeOf(p, onto[changes[k].commit]),
           changes' = [changes EXCEPT ![k].parent = p]
    PROVE  ChangesKept
<1>. DEFINE n == Len(changes)  new == [changes[k] EXCEPT !.parent = p]
<1>1. /\ n \in Nat /\ DOMAIN changes = 1..n
      /\ changes \in Seq(ChangeRow(Len(onto), n))
      /\ changes[k] \in ChangeRow(Len(onto), n)
      /\ \A i \in 1..n : changes[i].commit \in 1..Len(onto) /\ changes[i].parent \in 0..n
  BY ChangeFacts
<1>2. new \in ChangeRow(Len(onto), n) /\ new.commit = changes[k].commit /\ new.parent = p
  BY <1>1 DEF ChangeRow
<1>3. changes' = [changes EXCEPT ![k] = new]
  OBVIOUS
<1>. HIDE DEF new
<1>4. /\ changes' \in Seq(ChangeRow(Len(onto), n)) /\ Len(changes') = n
      /\ \A i \in 1..n : changes'[i] = IF i = k THEN new ELSE changes[i]
  BY <1>1, <1>2, <1>3, ExceptSeq
<1>5. DOMAIN changes' = 1..n /\ \A i \in 1..n : changes'[i].commit = changes[i].commit
  BY <1>2, <1>4, LenProperties
<1>6. OneChangePerCommit'
  <2>1. \A i, j \in 1..n : changes[i].commit = changes[j].commit => i = j
    BY <1>1, OneChange DEF ChangesMirrorCommits
  <2>2. \A i, j \in DOMAIN changes' : changes'[i].commit = changes'[j].commit => i = j
    BY <1>5, <2>1
  <2>. QED BY <2>2 DEF OneChangePerCommit, ChangeOf
<1>7. ParentIsParentCommit'
  <2>1. ASSUME NEW i \in 1..n, changes'[i].parent # NoChange
        PROVE  changes'[changes'[i].parent].commit = onto'[changes'[i].commit]
    <3>1. CASE i # k
      <4>1. changes[i].parent \in 1..n /\ changes'[i] = changes[i]
        BY <1>1, <1>4, <2>1, <3>1 DEF NoChange
      <4>2. changes[changes[i].parent].commit = onto[changes[i].commit]
        BY <1>1, <2>1, <3>1, <4>1 DEF ChangesMirrorCommits, ParentIsParentCommit
      <4>. QED BY <1>5, <4>1, <4>2
    <3>2. CASE i = k
      <4>1. p \in 1..n /\ changes[p].commit = onto[changes[k].commit] /\ changes'[i].parent = p
        BY <1>1, <1>2, <1>4, <2>1, <3>2 DEF IsChangeOf, NoChange
      <4>. QED BY <1>5, <3>2, <4>1
    <3>. QED BY <3>1, <3>2
  <2>. QED BY <1>5, <2>1 DEF ParentIsParentCommit
<1>. QED BY <1>1, <1>4, <1>5, <1>6, <1>7 DEF ChangesKept, ChangesMirrorCommits
(* A landing has the commit it records for itself until it has recorded it.*)
LEMMA FreshFacts ==
    ASSUME NEW a \in Request, FreshOK(a), ActorOK(a), pc[a] = "insert"
    PROVE  /\ IsLanding(a) /\ loc[a].commit \in 1..Len(onto)
           /\ ChangeOf(loc[a].commit) = {} /\ onto[loc[a].commit] = loc[a].find
           /\ loc[a].w \in Workspace /\ loc[a].change = NoChange
<1>1. IsLanding(a) /\ loc[a].w \in Workspace
  BY DEF ActorOK, KnownOK, PlaceOK, OpsAt, IsLanding
<1>2. loc[a].commit \in 0..Len(onto) /\ loc[a].commit # 0
  BY <1>1 DEF ActorOK, KnownOK, PlaceOK, Unrecorded, Root
<1>. QED BY <1>1, <1>2 DEF FreshOK, Unknown, ActorOK, PlaceOK, Unrecorded

LEMMA ChangesNext ==
    ASSUME TypeOK, RequestsOK, ChangesMirrorCommits, [Next]_vars,
           \A a \in Request : FreshOK(a)
    PROVE  ChangesKept
<1>1. ASSUME NEW a \in Request, Import(a) PROVE ChangesKept
  <2>1. CASE changes' = changes
    BY <2>1, ChangesSame
  <2>2. CASE changes' # changes
    <3>1. /\ ChangeOf(loc[a].find) = {} /\ onto' = onto
          /\ changes' = Append(changes, [commit |-> loc[a].find, parent |-> NoChange,
                                         ws |-> none])
      BY <1>1, <2>2 DEF Import, CanInsert, git
    <3>2. loc[a].find \in 1..Len(onto)
      <4>1. ActorOK(a) /\ pc[a] = "import"
        BY <1>1 DEF Import, RequestsOK
      <4>2. loc[a].find \in 0..Len(onto) /\ loc[a].find # 0
        BY <4>1 DEF ActorOK, KnownOK, PlaceOK, Root
      <4>. QED BY <4>2
    <3>3. NoChange \in 0..Len(changes) /\ IsChangeOf(NoChange, onto[loc[a].find])
      BY ChangeFacts DEF NoChange, IsChangeOf
    <3>. QED BY <3>1, <3>2, <3>3, ChangeAdded
  <2>. QED BY <2>1, <2>2
<1>2. ASSUME NEW a \in Request, Insert(a) PROVE ChangesKept
  <2>1. /\ pc[a] = "insert" /\ onto' = onto
        /\ changes' = Append(changes, [commit |-> loc[a].commit,
                                       parent |-> loc[a].parent, ws |-> loc[a].w])
    BY <1>2 DEF Insert, git
  <2>2. ActorOK(a) /\ FreshOK(a)
    BY DEF RequestsOK
  <2>3. /\ loc[a].commit \in 1..Len(onto) /\ ChangeOf(loc[a].commit) = {}
        /\ onto[loc[a].commit] = loc[a].find /\ loc[a].w \in Workspace \union {none}
    BY <2>1, <2>2, FreshFacts
  <2>4. loc[a].parent \in 0..Len(changes) /\ IsChangeOf(loc[a].parent, onto[loc[a].commit])
    BY <2>1, <2>2, <2>3 DEF ActorOK, KnownOK, PlaceOK
  <2>. QED BY <2>1, <2>3, <2>4, ChangeAdded
<1>3. ASSUME NEW a \in Request, SetParent(a) PROVE ChangesKept
  <2>1. /\ pc[a] = "setParent" /\ onto' = onto
        /\ changes' = [changes EXCEPT ![loc[a].change].parent = loc[a].parent]
    BY <1>3 DEF SetParent, git
  <2>2. ActorOK(a)
    BY DEF RequestsOK
  <2>3. loc[a].op = "changelog"
    BY <2>1, <2>2 DEF ActorOK, PlaceOK, OpsAt
  <2>4. loc[a].change \in 0..Len(changes) /\ loc[a].change # 0
    BY <2>2, <2>3 DEF ActorOK, KnownOK, NoChange
  <2>5. loc[a].change \in 1..Len(changes)
    BY <2>4, ChangeFacts
  <2>6. /\ loc[a].parent \in 0..Len(changes)
        /\ IsChangeOf(loc[a].parent, onto[changes[loc[a].change].commit])
    BY <2>1, <2>2, <2>3 DEF ActorOK, KnownOK, PlaceOK
  <2>. QED BY <2>1, <2>5, <2>6, ParentSet
<1>4. changes' = changes \/ \E a \in Request : Import(a) \/ Insert(a) \/ SetParent(a)
  BY StartFrame, RunFrame, EnvironmentFrame DEF Next, vars
<1>. QED BY <1>1, <1>2, <1>3, <1>4, ChangesSame

LEMMA Growth ==
    ASSUME TypeOK, RequestsOK, ChangesMirrorCommits, [Next]_vars,
           \A a \in Request : FreshOK(a)
    PROVE  Grows
  BY OntoNext, TrunkNext, ChangesNext DEF Grows, ChangesKept
-----------------------------------------------------------------------------
(* What a request knows, after its own step and after those of others.     *)

(* What a request knows stays true.                                        *)
LEMMA KnownKept ==
    ASSUME TypeOK, Grows, NEW a \in Request, KnownOK(a), loc'[a] = loc[a]
    PROVE  /\ KnownOK(a)' /\ IsLanding(a)' = IsLanding(a)
           /\ IsChangeOf(loc[a].parent, loc[a].find)
                 => IsChangeOf(loc[a].parent, loc[a].find)'
           /\ loc[a].commit # Root => onto'[loc[a].commit] = onto[loc[a].commit]
<1>1. /\ Len(onto) \in Nat /\ Len(onto') \in Nat /\ Len(onto) <= Len(onto')
      /\ Len(changes) \in Nat /\ Len(changes') \in Nat /\ Len(changes) <= Len(changes')
      /\ \A i \in 1..Len(onto) : onto'[i] = onto[i]
      /\ \A i \in 1..Len(changes) : changes'[i].commit = changes[i].commit
      /\ tracked' = tracked
  BY DEF Grows
<1>2. \A i \in 1..Len(changes) : changes[i].commit \in 1..Len(onto)
  BY ChangeFacts
<1>3. /\ loc[a].commit \in 0..Len(onto') /\ loc[a].find \in 0..Len(onto')
      /\ loc[a].change \in 0..Len(changes') /\ loc[a].parent \in 0..Len(changes')
      /\ loc[a].cb.head \in 0..Len(changes')
  <2>1. /\ loc[a].commit \in 0..Len(onto) /\ loc[a].find \in 0..Len(onto)
        /\ loc[a].change \in 0..Len(changes) /\ loc[a].parent \in 0..Len(changes)
        /\ loc[a].cb.head \in 0..Len(changes)
    BY DEF KnownOK
  <2>. QED BY <1>1, <2>1
<1>4. ASSUME NEW i \in 0..Len(changes), NEW c, IsChangeOf(i, c)
      PROVE  i # NoChange => changes'[i].commit = c
  BY <1>1, <1>4 DEF IsChangeOf, NoChange
<1>5. loc[a].commit \in 0..Len(onto) /\ loc[a].change \in 0..Len(changes)
      /\ loc[a].parent \in 0..Len(changes)
  BY DEF KnownOK
<1>6. loc[a].op = "changelog" => onto'[changes'[loc[a].change].commit] = loc[a].find
  <2>1. SUFFICES ASSUME loc[a].op = "changelog"
                 PROVE  onto'[changes'[loc[a].change].commit] = loc[a].find
    OBVIOUS
  <2>2. loc[a].change \in 1..Len(changes)
    BY <1>1, <1>5, <2>1 DEF KnownOK, NoChange
  <2>3. onto[changes[loc[a].change].commit] = loc[a].find
    BY <2>1 DEF KnownOK
  <2>. QED BY <1>1, <1>2, <2>2, <2>3
<1>7. IsLanding(a)' = IsLanding(a)
  BY DEF IsLanding
<1>10. IsLanding(a) => IsChangeOf(loc[a].change, loc[a].commit)'
  <2>1. IsLanding(a) => IsChangeOf(loc[a].change, loc[a].commit)
    BY DEF KnownOK
  <2>. QED BY <1>4, <1>5, <2>1 DEF IsChangeOf
<1>8. KnownOK(a)'
  BY <1>1, <1>3, <1>6, <1>7, <1>10 DEF KnownOK
<1>9. loc[a].commit # Root => onto'[loc[a].commit] = onto[loc[a].commit]
  BY <1>1, <1>5 DEF Root
<1>. QED BY <1>4, <1>5, <1>7, <1>8, <1>9 DEF IsChangeOf

(* A request that does not move knows what it knew.                        *)
LEMMA ActorKept ==
    ASSUME TypeOK, Grows, NEW a \in Request, ActorOK(a), loc'[a] = loc[a], pc'[a] = pc[a]
    PROVE  ActorOK(a)'
<1>1. KnownOK(a)
  BY DEF ActorOK
<1>2. /\ KnownOK(a)' /\ IsLanding(a)' = IsLanding(a)
      /\ IsChangeOf(loc[a].parent, loc[a].find) => IsChangeOf(loc[a].parent, loc[a].find)'
      /\ loc[a].commit # Root => onto'[loc[a].commit] = onto[loc[a].commit]
  BY <1>1, KnownKept
<1>. QED BY <1>2 DEF ActorOK, KnownOK, PlaceOK, Unrecorded

(* A request that is at step at with the copies l.                         *)
Becomes(a, at, l) ==
    pc' = [pc EXCEPT ![a] = at] /\ loc' = [loc EXCEPT ![a] = l]

LEMMA BecomesTyped ==
    ASSUME TypeOK, NEW a \in Request, NEW at \in PC, NEW l \in LocType, Becomes(a, at, l)
    PROVE  /\ pc' \in [Request -> PC] /\ loc' \in [Request -> LocType]
           /\ pc'[a] = at /\ loc'[a] = l
  BY DEF Becomes, TypeOK

(* It ends, or goes on with what it knows.                                 *)
LEMMA Finished ==
    ASSUME TypeOK, Grows, NEW a \in Request, Finish(a)
    PROVE  /\ pc' \in [Request -> PC] /\ loc' \in [Request -> LocType] /\ ActorOK(a)'
           /\ pc'[a] = "idle" /\ loc'[a] = NoLoc
<1>1. NoLoc \in LocType /\ "idle" \in PC /\ Becomes(a, "idle", NoLoc)
  BY DEF NoLoc, LocType, PC, Becomes, Finish, Goto, NewCodebase, CodebaseType, Answer,
         Root, NoChange
<1>2. /\ pc' \in [Request -> PC] /\ loc' \in [Request -> LocType]
      /\ pc'[a] = "idle" /\ loc'[a] = NoLoc
  BY <1>1, BecomesTyped
<1>. QED BY <1>2 DEF ActorOK, KnownOK, PlaceOK, IsLanding, NoLoc, OpsAt,
                     NewCodebase, Root, NoChange, Grows

LEMMA WentOn ==
    ASSUME TypeOK, Grows, NEW a \in Request, ActorOK(a), Goto(a, pc'[a]), loc' = loc,
           pc'[a] \in PC,
           pc'[a] \notin Unrecorded \union {"pull", "commit", "push", "setParent"},
           loc[a].op \in OpsAt(pc'[a])
    PROVE  /\ pc' \in [Request -> PC] /\ loc' \in [Request -> LocType] /\ ActorOK(a)'
<1>1. KnownOK(a)' /\ IsLanding(a)' = IsLanding(a)
  BY KnownKept DEF ActorOK
<1>2. pc' \in [Request -> PC] /\ loc' \in [Request -> LocType]
  BY DEF Goto, TypeOK
<1>3. PlaceOK(a)'
  BY DEF PlaceOK, Unrecorded
<1>. QED BY <1>1, <1>2, <1>3 DEF ActorOK
(* A request that has just begun has read nothing but a row.               *)
LEMMA Began ==
    ASSUME TypeOK, Grows, NEW a \in Request, NEW l \in LocType, NEW at \in PC,
           Begin(a, l, at), l.commit \in 0..Len(onto), l.find \in 0..Len(onto),
           l.change \in 0..Len(changes), l.parent = NoChange,
           l.cb.head \in 0..Len(changes), l.op \in OpsAt(at),
           l.op \in {"land", "tracked", "check", "sync", "archive"} => l.w \in Workspace,
           l.op \in {"tracked", "pull"} => tracked, l.op = "pull" => l.change = NoChange,
           l.op \in {"land", "tracked"} => at \in {"pull", "commit"} /\ l.change = NoChange,
           at \notin {"import", "insert", "setParent"},
           l.op = "changelog" => l.change # NoChange
                                 /\ onto[changes[l.change].commit] = l.find
    PROVE  /\ pc' \in [Request -> PC] /\ loc' \in [Request -> LocType] /\ ActorOK(a)'
           /\ pc'[a] = at /\ loc'[a] = l
<1>1. Becomes(a, at, l)
  BY DEF Begin, Becomes, Goto
<1>2. /\ pc' \in [Request -> PC] /\ loc' \in [Request -> LocType]
      /\ pc'[a] = at /\ loc'[a] = l
  BY <1>1, BecomesTyped
<1>3. onto' = onto /\ changes' = changes /\ tracked' = tracked
  BY DEF Begin, git, Grows
<1>4. KnownOK(a)'
  BY <1>2, <1>3, ChangeFacts DEF KnownOK, IsLanding, IsChangeOf, NoChange
<1>5. PlaceOK(a)'
  BY <1>2, <1>3 DEF PlaceOK, IsLanding, Unrecorded
<1>. QED BY <1>2, <1>4, <1>5 DEF ActorOK

LEMMA NoLocTyped ==
    /\ NoLoc \in LocType /\ NoLoc.op = "none" /\ NoLoc.commit = 0 /\ NoLoc.find = 0
    /\ NoLoc.change = 0 /\ NoLoc.parent = 0 /\ NoLoc.cb = NewCodebase /\ NewCodebase.head = 0
  BY DEF NoLoc, LocType, NewCodebase, CodebaseType, Answer, Root, NoChange

ActorNext(a) ==
    pc' \in [Request -> PC] /\ loc' \in [Request -> LocType] /\ ActorOK(a)'

LEMMA ActorStart ==
    ASSUME TypeOK, Rooted, Grows, RequestsOK, NEW a \in Request, StartRequest(a)
    PROVE  ActorNext(a)
<1>. USE NoLocTyped DEF ActorNext
<1>0. codebase \in CodebaseType /\ codebase.head \in 0..Len(changes)
      /\ \A w \in Workspace : row[w].open \in BOOLEAN
  BY DEF TypeOK
<1>1. /\ Len(changes) \in Nat /\ Len(onto) \in Nat /\ codebase \in CodebaseType
      /\ codebase.head \in 0..Len(changes) /\ TrunkHead \in 0..Len(onto)
      /\ \A i \in 1..Len(changes) : changes[i].commit \in 1..Len(onto)
      /\ \A w \in Workspace : row[w].open \in BOOLEAN
      /\ 0 \in 0..Len(changes) /\ 0 \in 0..Len(onto) /\ TrunkHead \in Nat
  BY <1>0, ChangeFacts, Heads
<1>2. CASE PullRemote(a)
  <2>. DEFINE l == [NoLoc EXCEPT !.op = "pull"]
  <2>1. l \in LocType /\ "pull" \in PC /\ Begin(a, l, "pull") /\ tracked
    BY <1>2 DEF PullRemote, LocType, NoLoc, PC
  <2>2. l.op = "pull" /\ l.commit = 0 /\ l.find = 0 /\ l.change = 0 /\ l.parent = 0
        /\ l.cb.head = 0
    BY DEF NoLoc, LocType
  <2>. HIDE DEF l
  <2>. QED BY <1>1, <2>1, <2>2, Began DEF OpsAt, NoChange
<1>3. CASE HeadChange(a) \/ Settings(a)
  <2>1. PICK o \in {"head", "settings"} :
           Begin(a, [NoLoc EXCEPT !.op = o, !.cb = codebase],
                 IF o = "head" THEN "headCommit" ELSE "saveSettings")
    BY <1>3 DEF HeadChange, Settings
  <2>. DEFINE l == [NoLoc EXCEPT !.op = o, !.cb = codebase]
              at == IF o = "head" THEN "headCommit" ELSE "saveSettings"
  <2>2. l \in LocType /\ at \in PC
    BY <1>1 DEF LocType, NoLoc, PC
  <2>3. l.op = o /\ l.commit = 0 /\ l.find = 0 /\ l.change = 0 /\ l.parent = 0
        /\ l.cb = codebase
    BY DEF NoLoc, LocType
  <2>4. o \in OpsAt(at) /\ at \notin {"import", "insert", "setParent"}
    BY DEF OpsAt
  <2>5. Begin(a, l, at)
    BY <2>1
  <2>. HIDE DEF l, at
  <2>. QED BY <1>1, <2>2, <2>3, <2>4, <2>5, Began DEF NoChange
<1>4. CASE ParentChange(a)
  <2>1. PICK i \in 1..Len(changes) :
           /\ onto[changes[i].commit] # Root
           /\ Begin(a, [NoLoc EXCEPT !.op = "changelog", !.change = i,
                                     !.find = onto[changes[i].commit]], "find")
    BY <1>4, ChangeFacts DEF ParentChange
  <2>2. onto[changes[i].commit] \in 0..Len(onto) /\ onto[changes[i].commit] \in Nat
    <3>1. changes[i].commit \in 1..Len(onto) /\ onto \in Seq(Nat)
      BY <1>1 DEF TypeOK
    <3>2. onto[changes[i].commit] \in Nat /\ onto[changes[i].commit] < changes[i].commit
      BY <3>1 DEF Rooted
    <3>. QED BY <1>1, <3>1, <3>2
  <2>. DEFINE l == [NoLoc EXCEPT !.op = "changelog", !.change = i,
                                 !.find = onto[changes[i].commit]]
  <2>3. l \in LocType /\ "find" \in PC
    <3>1. i \in Nat
      BY <1>1
    <3>. QED BY <2>2, <3>1 DEF LocType, NoLoc, PC
  <2>4. l.op = "changelog" /\ l.commit = 0 /\ l.find = onto[changes[i].commit]
        /\ l.change = i /\ l.parent = 0 /\ l.cb.head = 0
    BY DEF NoLoc, LocType
  <2>5. Begin(a, l, "find")
    BY <2>1
  <2>. HIDE DEF l
  <2>6. l.op \in OpsAt("find")
    BY <2>4 DEF OpsAt
  <2>. QED BY <1>1, <2>2, <2>3, <2>4, <2>5, <2>6, Began DEF NoChange
<1>5. ASSUME NEW w \in Workspace, Land(a, w) \/ LandTracked(a, w) \/ Archive(a, w)
      PROVE  ActorNext(a)
  <2>1. PICK o \in {"land", "tracked", "archive"} :
           /\ Begin(a, [NoLoc EXCEPT !.op = o, !.w = w, !.open = row[w].open],
                    CASE o = "land" -> "commit" [] o = "tracked" -> "pull"
                      [] o = "archive" -> "archive")
           /\ o = "tracked" => tracked
    BY <1>5 DEF Land, LandTracked, Archive
  <2>. DEFINE l == [NoLoc EXCEPT !.op = o, !.w = w, !.open = row[w].open]
              at == CASE o = "land" -> "commit" [] o = "tracked" -> "pull"
                      [] o = "archive" -> "archive"
  <2>2. l \in LocType /\ at \in PC
    BY <1>1 DEF LocType, NoLoc, PC
  <2>3. l.op = o /\ l.commit = 0 /\ l.find = 0 /\ l.change = 0 /\ l.parent = 0
        /\ l.cb.head = 0 /\ l.w = w
    BY DEF NoLoc, LocType
  <2>4. o \in OpsAt(at) /\ at \notin {"import", "insert", "setParent"}
        /\ (o \in {"land", "tracked"} => at \in {"pull", "commit"})
    BY DEF OpsAt
  <2>5. Begin(a, l, at)
    BY <2>1
  <2>. HIDE DEF l, at
  <2>. QED BY <1>1, <2>1, <2>2, <2>3, <2>4, <2>5, Began DEF NoChange
<1>8. ASSUME NEW w \in Workspace, CheckUpToDate(a, w) PROVE ActorNext(a)
  <2>. DEFINE l == [NoLoc EXCEPT !.op = "check", !.w = w]
  <2>1. l \in LocType /\ "compute" \in PC /\ Begin(a, l, "compute")
    BY <1>8 DEF CheckUpToDate, LocType, NoLoc, PC
  <2>2. l.op = "check" /\ l.commit = 0 /\ l.find = 0 /\ l.change = 0
        /\ l.parent = 0 /\ l.cb.head = 0 /\ l.w = w
    BY DEF NoLoc, LocType
  <2>. HIDE DEF l
  <2>. QED BY <1>1, <2>1, <2>2, Began DEF OpsAt, NoChange
<1>6. ASSUME NEW w \in Workspace, Sync(a, w) PROVE ActorNext(a)
  <2>. DEFINE l == [NoLoc EXCEPT !.op = "sync", !.w = w, !.open = row[w].open,
                                 !.commit = TrunkHead]
  <2>1. Begin(a, l, "syncBranch") /\ "syncBranch" \in PC
    BY <1>6 DEF Sync, PC
  <2>3. l \in LocType
    BY <1>1 DEF LocType, NoLoc
  <2>2. l.op = "sync" /\ l.commit = TrunkHead /\ l.find = 0 /\ l.change = 0
        /\ l.parent = 0 /\ l.cb.head = 0 /\ l.w = w
    BY DEF NoLoc, LocType
  <2>. HIDE DEF l
  <2>. QED BY <1>1, <2>1, <2>2, <2>3, Began DEF OpsAt, NoChange
<1>7. ASSUME NEW w \in Workspace, Unarchive(a, w) PROVE ActorNext(a)
  <2>1. pc' = pc /\ loc' = loc
    BY <1>7 DEF Unarchive
  <2>. QED BY <2>1, ActorKept DEF RequestsOK, TypeOK
<1>. QED BY <1>2, <1>3, <1>4, <1>5, <1>6, <1>7, <1>8 DEF StartRequest
LEMMA GrownFacts ==
    ASSUME TypeOK, Grows
    PROVE  /\ \A c \in 0..Len(onto) :
                 c \in 0..Len(onto') /\ (c # Root => onto'[c] = onto[c])
           /\ \A i \in 0..Len(changes) :
                 /\ i \in 0..Len(changes') /\ i \in Nat
                 /\ i # NoChange =>
                       /\ changes'[i].commit = changes[i].commit
                       /\ onto'[changes[i].commit] = onto[changes[i].commit]
           /\ tracked' = tracked /\ NoChange \in 0..Len(changes')
<1>1. /\ Len(onto) \in Nat /\ Len(onto') \in Nat /\ Len(onto) <= Len(onto')
      /\ Len(changes) \in Nat /\ Len(changes') \in Nat /\ Len(changes) <= Len(changes')
      /\ \A i \in 1..Len(onto) : onto'[i] = onto[i]
      /\ \A i \in 1..Len(changes) : changes'[i].commit = changes[i].commit
      /\ tracked' = tracked
  BY DEF Grows
<1>2. \A i \in 1..Len(changes) : changes[i].commit \in 1..Len(onto)
  BY ChangeFacts
<1>. QED BY <1>1, <1>2 DEF Root, NoChange

(* The change that a request has found, or nothing for the root.           *)
LEMMA FoundNext ==
    ASSUME TypeOK, Grows, NEW a \in Request, ActorOK(a), pc[a] \in {"find", "import"},
           NEW i \in 0..Len(changes'),
           i # NoChange => changes'[i].commit = loc[a].find, Found(a, i)
    PROVE  ActorNext(a)
<1>1. loc[a].op \in {"land", "tracked", "head", "changelog"}
  BY DEF ActorOK, PlaceOK, OpsAt
<1>2. i \in Nat /\ loc[a] \in LocType
  BY DEF Grows, TypeOK
<1>3. CASE IsLanding(a)
  <2>. DEFINE l == [loc[a] EXCEPT !.parent = i]
  <2>1. Becomes(a, "insert", l)
    BY <1>3 DEF Found, Becomes, Goto, TypeOK, IsLanding
  <2>2. l \in LocType /\ "insert" \in PC
    BY <1>2 DEF LocType, PC
  <2>3. /\ l.op = loc[a].op /\ l.w = loc[a].w /\ l.commit = loc[a].commit
        /\ l.find = loc[a].find /\ l.change = loc[a].change /\ l.cb = loc[a].cb
        /\ l.parent = i
    BY <1>2 DEF LocType
  <2>. HIDE DEF l
  <2>4. /\ pc' \in [Request -> PC] /\ loc' \in [Request -> LocType]
        /\ pc'[a] = "insert" /\ loc'[a] = l
    BY <2>1, <2>2, BecomesTyped
  <2>7. loc[a].change = NoChange
    BY <1>3 DEF ActorOK, PlaceOK, Unrecorded
  <2>5. KnownOK(a)'
    BY <1>3, <2>3, <2>4, <2>7, GrownFacts DEF ActorOK, KnownOK, IsLanding, IsChangeOf
  <2>8. /\ loc[a].commit # Root /\ onto[loc[a].commit] = loc[a].find
        /\ loc[a].commit \in 0..Len(onto)
    BY <1>3 DEF ActorOK, KnownOK, PlaceOK, Unrecorded
  <2>9. onto'[loc[a].commit] = loc[a].find
    BY <2>8, GrownFacts
  <2>6. PlaceOK(a)'
    BY <1>3, <2>3, <2>4, <2>7, <2>8, <2>9
    DEF PlaceOK, IsLanding, IsChangeOf, OpsAt, Unrecorded
  <2>. QED BY <2>4, <2>5, <2>6 DEF ActorNext, ActorOK
<1>4. CASE loc[a].op = "head"
  <2>. DEFINE l == [loc[a] EXCEPT !.change = i]
  <2>1. Becomes(a, "saveHead", l)
    BY <1>4 DEF Found, Becomes, Goto, TypeOK, IsLanding
  <2>2. l \in LocType /\ "saveHead" \in PC
    BY <1>2 DEF LocType, PC
  <2>3. /\ l.op = loc[a].op /\ l.w = loc[a].w /\ l.commit = loc[a].commit
        /\ l.find = loc[a].find /\ l.parent = loc[a].parent /\ l.cb = loc[a].cb
        /\ l.change = i
    BY <1>2 DEF LocType
  <2>. HIDE DEF l
  <2>4. /\ pc' \in [Request -> PC] /\ loc' \in [Request -> LocType]
        /\ pc'[a] = "saveHead" /\ loc'[a] = l
    BY <2>1, <2>2, BecomesTyped
  <2>5. KnownOK(a)'
    BY <1>4, <2>3, <2>4, GrownFacts DEF ActorOK, KnownOK, IsLanding
  <2>6. PlaceOK(a)'
    BY <1>4, <2>3, <2>4 DEF PlaceOK, IsLanding, OpsAt
  <2>. QED BY <2>4, <2>5, <2>6 DEF ActorNext, ActorOK
<1>5. CASE loc[a].op = "changelog"
  <2>. DEFINE l == [loc[a] EXCEPT !.parent = i]
  <2>1. Becomes(a, "setParent", l)
    BY <1>5 DEF Found, Becomes, Goto, TypeOK, IsLanding
  <2>2. l \in LocType /\ "setParent" \in PC
    BY <1>2 DEF LocType, PC
  <2>3. /\ l.op = loc[a].op /\ l.w = loc[a].w /\ l.commit = loc[a].commit
        /\ l.find = loc[a].find /\ l.change = loc[a].change /\ l.cb = loc[a].cb
        /\ l.parent = i
    BY <1>2 DEF LocType
  <2>. HIDE DEF l
  <2>4. /\ pc' \in [Request -> PC] /\ loc' \in [Request -> LocType]
        /\ pc'[a] = "setParent" /\ loc'[a] = l
    BY <2>1, <2>2, BecomesTyped
  <2>5. KnownOK(a)'
    BY <1>5, <2>3, <2>4, GrownFacts DEF ActorOK, KnownOK, IsLanding
  <2>6. PlaceOK(a)'
    BY <1>5, <2>3, <2>4 DEF PlaceOK, IsLanding, IsChangeOf, OpsAt
  <2>. QED BY <2>4, <2>5, <2>6 DEF ActorNext, ActorOK
<1>. QED BY <1>1, <1>3, <1>4, <1>5 DEF IsLanding
LEMMA FindNext ==
    ASSUME TypeOK, Grows, ChangesKept, NEW a \in Request, ActorOK(a), Find(a) \/ Import(a)
    PROVE  ActorNext(a)
<1>1. Len(changes') \in Nat /\ NoChange \in 0..Len(changes')
  BY GrownFacts DEF Grows
<1>2. CASE Find(a) /\ loc[a].find = Root /\ Found(a, NoChange)
  BY <1>1, <1>2, FoundNext DEF Find
<1>3. ASSUME Find(a), NEW i \in ChangeOf(loc[a].find), Found(a, i) PROVE ActorNext(a)
  <2>1. i \in 0..Len(changes') /\ changes'[i].commit = loc[a].find
    <3>1. changes' = changes /\ i \in 1..Len(changes) /\ changes[i].commit = loc[a].find
      BY <1>3, ChangeFacts DEF Find, ChangeOf
    <3>. QED BY <1>1, <3>1
  <2>. QED BY <1>3, <2>1, FoundNext DEF Find
<1>4. CASE Find(a) /\ loc[a].find # Root /\ Goto(a, "import") /\ loc' = loc
  <2>1. /\ pc' \in [Request -> PC] /\ loc' \in [Request -> LocType]
        /\ pc[a] = "find" /\ pc'[a] = "import" /\ loc'[a] = loc[a]
    BY <1>4 DEF Find, Goto, TypeOK, PC
  <2>2. /\ KnownOK(a)' /\ IsLanding(a)' = IsLanding(a)
        /\ loc[a].commit # Root => onto'[loc[a].commit] = onto[loc[a].commit]
    BY <2>1, KnownKept DEF ActorOK
  <2>3. PlaceOK(a)'
    BY <1>4, <2>1, <2>2 DEF ActorOK, PlaceOK, OpsAt, Unrecorded
  <2>. QED BY <2>1, <2>2, <2>3 DEF ActorNext, ActorOK
<1>5. CASE Import(a) /\ Found(a, Len(changes) + 1)
                     /\ changes' = Append(changes, [commit |-> loc[a].find,
                                                    parent |-> NoChange, ws |-> none])
  <2>. DEFINE i == Len(changes) + 1
              new == [commit |-> loc[a].find, parent |-> NoChange, ws |-> none]
  <2>1. changes' = Append(changes, new) /\ changes \in Seq(ChangeRow(Len(onto), Len(changes)))
        /\ new.commit = loc[a].find /\ Found(a, i) /\ pc[a] = "import" /\ Len(changes) \in Nat
    BY <1>5, ChangeFacts DEF Import
  <2>. HIDE DEF new
  <2>2. changes'[i] = new /\ Len(changes') = i
    <3>1. changes \in Seq(ChangeRow(Len(onto), Len(changes)) \union {new})
      BY <2>1, SeqWiden
    <3>. QED BY <2>1, <3>1, AppendIn
  <2>3. i \in 0..Len(changes') /\ changes'[i].commit = loc[a].find
    BY <2>1, <2>2
  <2>. HIDE DEF i
  <2>. QED BY <2>1, <2>3, FoundNext
<1>6. CASE Import(a) /\ Finish(a)
  BY <1>6, Finished DEF ActorNext
<1>. QED BY <1>2, <1>3, <1>4, <1>5, <1>6 DEF Find, Import

(* Steps at whose end a request is done, or goes on with what it knows.    *)
LEMMA PlainNext ==
    ASSUME TypeOK, Grows, NEW a \in Request, ActorOK(a),
           \/ CommitNothing(a) \/ Push(a) \/ PushBranch(a) \/ Update(a) \/ SaveHead(a)
           \/ ArchiveLanded(a) \/ Close(a) \/ PushTrunk(a) \/ SetParent(a) \/ SaveAnswer(a)
           \/ Pull(a) \/ UnsetHead(a) \/ SaveSettings(a) \/ SyncBranch(a) \/ Updated(a)
           \/ Fail(a)
    PROVE  ActorNext(a)
<1>1. CASE Finish(a)
  BY <1>1, Finished DEF ActorNext
<1>2. loc[a].op \in OpsAt(pc[a])
  BY DEF ActorOK, PlaceOK
<1>3. ASSUME NEW at \in {"pushBranch", "update", "unsetAll", "archive", "close", "pushTrunk",
                         "readCb", "updated"},
             Goto(a, at), loc' = loc, loc[a].op \in OpsAt(at)
      PROVE  ActorNext(a)
  <2>1. pc'[a] = at /\ at \in PC /\ Goto(a, pc'[a])
    BY <1>3 DEF Goto, TypeOK, PC
  <2>2. pc'[a] \notin Unrecorded \union {"pull", "commit", "push", "setParent"}
    BY <2>1 DEF Unrecorded
  <2>. QED BY <1>3, <2>1, <2>2, WentOn DEF ActorNext
<1>4. CASE Push(a) \/ PushBranch(a) \/ Update(a)
  BY <1>1, <1>2, <1>3, <1>4 DEF Push, PushBranch, Update, OpsAt
<1>5. CASE SaveHead(a) \/ ArchiveLanded(a) \/ Close(a)
  BY <1>1, <1>2, <1>3, <1>5 DEF SaveHead, ArchiveLanded, Close, OpsAt, IsLanding
<1>6. CASE Pull(a) \/ UnsetHead(a) \/ SyncBranch(a)
  BY <1>1, <1>2, <1>3, <1>6 DEF Pull, UnsetHead, SyncBranch, OpsAt
<1>7. CASE \/ CommitNothing(a) \/ PushTrunk(a) \/ SetParent(a) \/ SaveAnswer(a)
           \/ SaveSettings(a) \/ Updated(a) \/ Fail(a)
  BY <1>1, <1>7 DEF CommitNothing, PushTrunk, SetParent, SaveAnswer, SaveSettings,
         Updated, Fail
<1>. QED BY <1>4, <1>5, <1>6, <1>7
(* A commit is made on trunk's head, and the landing knows both.           *)
LEMMA CommitNext ==
    ASSUME TypeOK, Grows, NEW a \in Request, ActorOK(a), Commit(a)
    PROVE  /\ ActorNext(a) /\ pc'[a] = "find" /\ IsLanding(a)' /\ loc'[a].op = loc[a].op
           /\ loc'[a].commit = Len(onto) + 1 /\ loc'[a].find = TrunkHead
           /\ loc'[a].cb = loc[a].cb /\ loc'[a].change = NoChange
<1>. DEFINE l == [loc[a] EXCEPT !.commit = Len(onto) + 1, !.find = TrunkHead]
<1>1. /\ Len(onto) \in Nat /\ TrunkHead \in 0..Len(onto) /\ TrunkHead \in Nat
      /\ Len(onto) + 1 \in Nat /\ onto \in Seq(Nat)
  BY Heads DEF TypeOK
<1>2. IsLanding(a) /\ loc[a] \in LocType /\ pc[a] = "commit" /\ loc[a].change = NoChange
  BY DEF Commit, ActorOK, PlaceOK, OpsAt, IsLanding, TypeOK
<1>3. Becomes(a, "find", l)
  BY DEF Commit, Becomes, Goto, TypeOK
<1>4. l \in LocType /\ "find" \in PC
  BY <1>1, <1>2 DEF LocType, PC
<1>5. /\ l.op = loc[a].op /\ l.w = loc[a].w /\ l.commit = Len(onto) + 1
      /\ l.find = TrunkHead /\ l.change = loc[a].change /\ l.cb = loc[a].cb
      /\ l.parent = loc[a].parent
  BY <1>2 DEF LocType
<1>. HIDE DEF l
<1>6. /\ pc' \in [Request -> PC] /\ loc' \in [Request -> LocType]
      /\ pc'[a] = "find" /\ loc'[a] = l
  BY <1>3, <1>4, BecomesTyped
<1>7. onto' = Append(onto, TrunkHead)
  BY DEF Commit
<1>8. Len(onto') = Len(onto) + 1 /\ onto'[Len(onto) + 1] = TrunkHead
  BY <1>1, <1>7, AppendIn
<1>9. Len(onto) + 1 \in 0..Len(onto') /\ TrunkHead \in 0..Len(onto') /\ Len(onto) + 1 # Root
  BY <1>1, <1>8 DEF Root
<1>10. KnownOK(a)'
  BY <1>2, <1>5, <1>6, <1>9, GrownFacts DEF ActorOK, KnownOK, IsLanding, IsChangeOf
<1>11. PlaceOK(a)'
  BY <1>2, <1>5, <1>6, <1>8, <1>9 DEF PlaceOK, IsLanding, OpsAt, Unrecorded
<1>. QED BY <1>2, <1>5, <1>6, <1>10, <1>11 DEF ActorNext, ActorOK, IsLanding

LEMMA InsertNext ==
    ASSUME TypeOK, Grows, NEW a \in Request, ActorOK(a), Insert(a)
    PROVE  /\ ActorNext(a) /\ pc'[a] = "push" /\ loc'[a].op = loc[a].op
           /\ loc'[a].commit = loc[a].commit /\ loc'[a].find = loc[a].find
           /\ loc'[a].cb = loc[a].cb
<1>. DEFINE n == Len(changes)  l == [loc[a] EXCEPT !.change = n + 1]
            new == [commit |-> loc[a].commit, parent |-> loc[a].parent, ws |-> loc[a].w]
<1>1. n \in Nat /\ n + 1 \in Nat /\ changes \in Seq(ChangeRow(Len(onto), n))
  BY ChangeFacts
<1>2. IsLanding(a) /\ loc[a] \in LocType /\ pc[a] = "insert"
      /\ loc[a].commit # Root
  BY DEF Insert, ActorOK, PlaceOK, OpsAt, IsLanding, TypeOK, Unrecorded
<1>3. Becomes(a, "push", l) /\ changes' = Append(changes, new)
  BY DEF Insert, Becomes, Goto, TypeOK
<1>4. l \in LocType /\ "push" \in PC
  BY <1>1, <1>2 DEF LocType, PC
<1>5. /\ l.op = loc[a].op /\ l.w = loc[a].w /\ l.commit = loc[a].commit
      /\ l.find = loc[a].find /\ l.change = n + 1 /\ l.cb = loc[a].cb
      /\ l.parent = loc[a].parent /\ new.commit = loc[a].commit
  BY <1>2 DEF LocType
<1>. HIDE DEF l, new
<1>6. /\ pc' \in [Request -> PC] /\ loc' \in [Request -> LocType]
      /\ pc'[a] = "push" /\ loc'[a] = l
  BY <1>3, <1>4, BecomesTyped
<1>7. Len(changes') = n + 1 /\ changes'[n + 1] = new
  <2>1. changes \in Seq(ChangeRow(Len(onto), n) \union {new})
    BY <1>1, SeqWiden
  <2>. QED BY <1>3, <2>1, AppendIn
<1>8. n + 1 \in 0..Len(changes')
  BY <1>1, <1>7
<1>10. KnownOK(a)'
  BY <1>2, <1>5, <1>6, <1>7, <1>8, GrownFacts DEF ActorOK, KnownOK, IsLanding, IsChangeOf
<1>11. PlaceOK(a)'
  BY <1>2, <1>5, <1>6 DEF PlaceOK, IsLanding, OpsAt, Unrecorded
<1>. QED BY <1>5, <1>6, <1>10, <1>11 DEF ActorNext, ActorOK

LEMMA UnsetAllNext ==
    ASSUME TypeOK, Grows, NEW a \in Request, ActorOK(a), UnsetAll(a)
    PROVE  ActorNext(a)
<1>1. CASE Finish(a)
  BY <1>1, Finished DEF ActorNext
<1>2. loc[a].op \in {"land", "tracked", "pull"}
  BY DEF UnsetAll, ActorOK, PlaceOK, OpsAt
<1>3. CASE Goto(a, "readCb") /\ loc' = loc
  <2>1. pc'[a] = "readCb" /\ pc'[a] \in PC /\ loc[a].op \in OpsAt(pc'[a])
    BY <1>2, <1>3 DEF Goto, TypeOK, PC, OpsAt
  <2>. QED BY <1>3, <2>1, WentOn DEF ActorNext, Unrecorded
<1>4. CASE Goto(a, "commit") /\ loc' = loc /\ loc[a].change = NoChange /\ loc[a].op # "pull"
  <2>1. /\ pc' \in [Request -> PC] /\ loc' \in [Request -> LocType]
        /\ pc'[a] = "commit" /\ loc'[a] = loc[a]
    BY <1>4 DEF Goto, TypeOK, PC
  <2>2. KnownOK(a)' /\ IsLanding(a)' = IsLanding(a)
    BY <2>1, KnownKept DEF ActorOK
  <2>3. PlaceOK(a)'
    BY <1>2, <1>4, <2>1 DEF PlaceOK, OpsAt, Unrecorded
  <2>. QED BY <2>1, <2>2, <2>3 DEF ActorNext, ActorOK
<1>. QED BY <1>1, <1>3, <1>4 DEF UnsetAll

(* Steps that read the codebase, trunk's head, or whether one is up to date*)
LEMMA ReadDone ==
    ASSUME TypeOK, Grows, NEW a \in Request, ActorOK(a), NEW l \in LocType,
           NEW at \in {"saveHead", "unsetHead", "find", "answer"},
           Becomes(a, at, l), loc[a].op \in OpsAt(at), at = "find" => loc[a].op = "head",
           l.op = loc[a].op, l.w = loc[a].w, l.commit = loc[a].commit,
           l.change = loc[a].change, l.parent = loc[a].parent,
           l.cb = loc[a].cb \/ l.cb = codebase,
           l.find = loc[a].find \/ (at = "find" /\ l.find = TrunkHead)
    PROVE  ActorNext(a)
<1>1. codebase.head \in 0..Len(changes) /\ TrunkHead \in 0..Len(onto) /\ at \in PC
  BY Heads DEF TypeOK, PC
<1>2. /\ pc' \in [Request -> PC] /\ loc' \in [Request -> LocType]
      /\ pc'[a] = at /\ loc'[a] = l
  BY <1>1, BecomesTyped
<1>3. /\ KnownOK(a) /\ (loc[a].op = "changelog" => l.find = loc[a].find)
  BY DEF ActorOK
<1>4. l.find \in 0..Len(onto) /\ l.cb.head \in 0..Len(changes)
  BY <1>1, <1>3 DEF KnownOK
<1>5. KnownOK(a)'
  BY <1>2, <1>3, <1>4, GrownFacts DEF KnownOK, IsLanding, IsChangeOf
<1>6. PlaceOK(a)'
  BY <1>2 DEF PlaceOK, IsLanding, Unrecorded
<1>. QED BY <1>2, <1>5, <1>6 DEF ActorNext, ActorOK

LEMMA ReadNext ==
    ASSUME TypeOK, Grows, NEW a \in Request, ActorOK(a),
           ReadCodebase(a) \/ HeadCommit(a) \/ Compute(a)
    PROVE  ActorNext(a)
<1>. USE DEF Becomes, Goto
<1>1. loc[a] \in LocType /\ codebase \in CodebaseType /\ codebase.head \in 0..Len(changes)
      /\ TrunkHead \in Nat /\ TrunkHead \in 0..Len(onto) /\ pc \in [Request -> PC]
      /\ loc \in [Request -> LocType]
  BY Heads DEF TypeOK
<1>2. CASE ReadCodebase(a)
  <2>. DEFINE l == [loc[a] EXCEPT !.cb = codebase]
              at == IF loc[a].change # NoChange THEN "saveHead" ELSE "unsetHead"
  <2>1. Becomes(a, at, l) /\ at \in {"saveHead", "unsetHead"}
    BY <1>1, <1>2 DEF ReadCodebase
  <2>2. l \in LocType
    BY <1>1 DEF LocType
  <2>3. loc[a].op \in OpsAt(at)
    <3>1. /\ loc[a].op \in {"land", "tracked", "pull"}
          /\ loc[a].op = "pull" => loc[a].change = NoChange
      BY <1>2 DEF ReadCodebase, ActorOK, KnownOK, PlaceOK, OpsAt
    <3>. QED BY <3>1 DEF OpsAt
  <2>4. /\ l.op = loc[a].op /\ l.w = loc[a].w /\ l.commit = loc[a].commit
        /\ l.change = loc[a].change /\ l.parent = loc[a].parent
        /\ l.cb = codebase /\ l.find = loc[a].find
    BY <1>1 DEF LocType
  <2>5. at \in {"saveHead", "unsetHead", "find", "answer"} /\ at # "find"
    BY <2>1
  <2>. HIDE DEF l, at, Becomes
  <2>. QED BY <2>1, <2>2, <2>3, <2>4, <2>5, ReadDone
<1>3. CASE HeadCommit(a)
  <2>. DEFINE l == [loc[a] EXCEPT !.find = TrunkHead]
  <2>1. Becomes(a, "find", l)
    BY <1>1, <1>3 DEF HeadCommit
  <2>2. l \in LocType
    BY <1>1 DEF LocType
  <2>3. loc[a].op = "head" /\ loc[a].op \in OpsAt("find")
    BY <1>3 DEF HeadCommit, ActorOK, PlaceOK, OpsAt
  <2>4. /\ l.op = loc[a].op /\ l.w = loc[a].w /\ l.commit = loc[a].commit
        /\ l.change = loc[a].change /\ l.parent = loc[a].parent
        /\ l.cb = loc[a].cb /\ l.find = TrunkHead
    BY <1>1 DEF LocType
  <2>. HIDE DEF l, Becomes
  <2>. QED BY <2>1, <2>2, <2>3, <2>4, ReadDone
<1>4. CASE Compute(a)
  <2>. DEFINE l == [loc[a] EXCEPT !.answer = IF IsUpToDate(loc[a].w) THEN "yes" ELSE "no"]
  <2>1. Becomes(a, "answer", l)
    BY <1>1, <1>4 DEF Compute
  <2>2. l \in LocType
    BY <1>1 DEF LocType, Answer
  <2>3. loc[a].op \in OpsAt("answer")
    BY <1>4 DEF Compute, ActorOK, PlaceOK, OpsAt
  <2>4. /\ l.op = loc[a].op /\ l.w = loc[a].w /\ l.commit = loc[a].commit
        /\ l.change = loc[a].change /\ l.parent = loc[a].parent
        /\ l.cb = loc[a].cb /\ l.find = loc[a].find
    BY <1>1 DEF LocType
  <2>. DEFINE at == "answer"
  <2>5. at \in {"saveHead", "unsetHead", "find", "answer"} /\ at # "find"
    OBVIOUS
  <2>. HIDE DEF l, Becomes
  <2>. QED BY <2>1, <2>2, <2>3, <2>4, <2>5, ReadDone
<1>. QED BY <1>2, <1>3, <1>4

-----------------------------------------------------------------------------
(* Every request knows what it has to know, after every step.              *)
LEMMA StepRequests ==
    ASSUME TypeOK, Rooted, RequestsOK, ChangesMirrorCommits, [Next]_vars,
           \A a \in Request : FreshOK(a)
    PROVE  /\ RequestsOK' /\ pc' \in [Request -> PC] /\ loc' \in [Request -> LocType]
<1>1. Grows /\ ChangesKept
  BY Growth, ChangesNext
<1>2. CASE pc' = pc /\ loc' = loc
  BY <1>1, <1>2, ActorKept DEF RequestsOK, TypeOK
<1>3. ASSUME NEW a \in Request, Step(a)
      PROVE  /\ RequestsOK' /\ pc' \in [Request -> PC] /\ loc' \in [Request -> LocType]
  <2>1. ActorOK(a)
    BY DEF RequestsOK
  <2>2. ActorNext(a)
    <3>1. CASE StartRequest(a)
      BY <1>1, <3>1, ActorStart
    <3>2. CASE LandStep(a)
      BY <1>1, <2>1, <3>2, CommitNext, FindNext, PlainNext, InsertNext, UnsetAllNext, ReadNext
      DEF LandStep
    <3>3. CASE ReadStep(a) \/ OtherStep(a) \/ Fail(a)
      BY <1>1, <2>1, <3>3, PlainNext, ReadNext DEF ReadStep, OtherStep
    <3>. QED BY <1>3, <3>1, <3>2, <3>3 DEF Step, Run
  <2>3. ASSUME NEW b \in Request PROVE ActorOK(b)'
    <3>1. CASE b = a
      BY <2>2, <3>1 DEF ActorNext
    <3>2. CASE b # a
      BY <1>1, <1>3, <3>2, Others, ActorKept DEF RequestsOK
    <3>. QED BY <3>1, <3>2
  <2>. QED BY <2>2, <2>3 DEF ActorNext, RequestsOK
<1>4. (pc' = pc /\ loc' = loc) \/ \E a \in Request : Step(a)
  BY EnvironmentFrame DEF Next, Step, vars
<1>. QED BY <1>2, <1>3, <1>4
-----------------------------------------------------------------------------
(* Types.                                                                  *)

LEMMA RootedNext ==
    ASSUME TypeOK, Rooted, [Next]_vars
    PROVE  Rooted'
<1>1. /\ onto \in Seq(Nat) /\ Len(onto) \in Nat /\ DOMAIN onto = 1..Len(onto)
      /\ TrunkHead \in 0..Len(onto) /\ HeadOf(remote) \in 0..Len(onto)
  BY Heads DEF TypeOK
<1>2. CASE onto' = onto
  BY <1>2 DEF Rooted
<1>3. ASSUME NEW c \in 0..Len(onto), onto' = Append(onto, c) PROVE Rooted'
  <2>1. /\ DOMAIN onto' = 1..(Len(onto) + 1)
        /\ \A i \in 1..Len(onto) : onto'[i] = onto[i]
        /\ onto'[Len(onto) + 1] = c
    <3>1. c \in Nat
      BY <1>1, <1>3
    <3>. QED BY <1>1, <1>3, <3>1, AppendIn
  <2>2. ASSUME NEW i \in 1..(Len(onto) + 1) PROVE onto'[i] < i
    <3>1. CASE i \in 1..Len(onto)
      BY <1>1, <2>1, <3>1 DEF Rooted
    <3>2. CASE i = Len(onto) + 1
      BY <1>1, <1>3, <2>1, <3>2
    <3>3. i \in 1..Len(onto) \/ i = Len(onto) + 1
      BY <1>1
    <3>. QED BY <3>1, <3>2, <3>3
  <2>. QED BY <2>1, <2>2 DEF Rooted
<1>4. \/ onto' = onto \/ onto' = Append(onto, HeadOf(remote))
      \/ onto' = Append(onto, TrunkHead)
  BY StartFrame, RunFrame, EnvironmentFrame DEF Next, vars, git, RemoteCommit, Commit
<1>. QED BY <1>1, <1>2, <1>3, <1>4

LEMMA CodebaseNext ==
    ASSUME TypeOK, RequestsOK, ChangesMirrorCommits, [Next]_vars,
           \A a \in Request : FreshOK(a)
    PROVE  codebase' \in CodebaseType /\ codebase'.head \in 0..Len(changes')
<1>1. \A i \in 0..Len(changes) : i \in 0..Len(changes') /\ i \in Nat
  BY Growth, GrownFacts
<1>2. CASE codebase' = codebase
  BY <1>1, <1>2 DEF TypeOK
<1>3. ASSUME NEW a \in Request, SaveHead(a) \/ UnsetHead(a) \/ SaveSettings(a)
      PROVE  codebase' \in CodebaseType /\ codebase'.head \in 0..Len(changes')
  <2>1. /\ loc[a].change \in 0..Len(changes) /\ loc[a].cb.head \in 0..Len(changes)
        /\ loc[a].cb \in CodebaseType /\ 0 \in 0..Len(changes)
    BY ChangeFacts DEF RequestsOK, ActorOK, KnownOK, TypeOK, LocType
  <2>2. CASE SaveSettings(a)
    BY <1>1, <2>1, <2>2 DEF SaveSettings
  <2>3. CASE SaveHead(a) \/ UnsetHead(a)
    BY <1>1, <2>1, <2>3 DEF SaveHead, UnsetHead, CodebaseType, NoChange
  <2>. QED BY <1>3, <2>2, <2>3
<1>4. codebase' = codebase
      \/ \E a \in Request : SaveHead(a) \/ UnsetHead(a) \/ SaveSettings(a)
  BY StartFrame, RunFrame, EnvironmentFrame DEF Next, vars
<1>. QED BY <1>2, <1>3, <1>4

RowType(rows) ==
    [open : BOOLEAN, upToDate : Answer, change : 0..rows, archived : BOOLEAN,
     unarchived : BOOLEAN]

LEMMA RowNext ==
    ASSUME TypeOK, RequestsOK, ChangesMirrorCommits, [Next]_vars,
           \A a \in Request : FreshOK(a)
    PROVE  row' \in [Workspace -> RowType(Len(changes'))]
<1>1. \A i \in 0..Len(changes) : i \in 0..Len(changes')
  BY Growth, GrownFacts
<1>2. row \in [Workspace -> RowType(Len(changes'))]
  <2>1. RowType(Len(changes)) \subseteq RowType(Len(changes'))
    BY <1>1 DEF RowType
  <2>. QED BY <2>1 DEF TypeOK, RowType
<1>3. ASSUME NEW a \in Request,
             \/ Update(a) \/ UnsetAll(a) \/ ArchiveLanded(a) \/ Close(a) \/ SaveAnswer(a)
             \/ Updated(a) \/ \E w \in Workspace : Unarchive(a, w)
      PROVE  row' \in [Workspace -> RowType(Len(changes'))]
  <2>1. /\ loc[a].change \in 0..Len(changes') /\ loc[a].answer \in Answer
        /\ 0 \in 0..Len(changes')
    BY <1>1, ChangeFacts DEF RequestsOK, ActorOK, KnownOK, TypeOK, LocType
  <2>5. CASE Update(a)
    BY <1>2, <2>1, <2>5 DEF Update, RowType
  <2>6. CASE ArchiveLanded(a)
    <3>. DEFINE w == loc[a].w
                i == IF IsLanding(a) THEN loc[a].change ELSE row[w].change
                r == [row[w] EXCEPT !.archived = TRUE, !.unarchived = FALSE, !.change = i]
    <3>1. row' = [row EXCEPT ![w] = r]
      BY <2>6 DEF ArchiveLanded
    <3>2. w \in Workspace => r \in RowType(Len(changes'))
      BY <1>2, <2>1 DEF RowType
    <3>. HIDE DEF r, w
    <3>. QED BY <1>2, <3>1, <3>2
  <2>7. CASE Close(a)
    BY <1>2, <2>7 DEF Close, RowType
  <2>2. CASE Update(a) \/ ArchiveLanded(a) \/ Close(a)
    BY <2>2, <2>5, <2>6, <2>7
  <2>3. CASE UnsetAll(a) \/ SaveAnswer(a) \/ Updated(a)
    BY <1>2, <2>1, <2>3 DEF UnsetAll, SaveAnswer, Updated, RowType, Answer
  <2>4. ASSUME NEW w \in Workspace, Unarchive(a, w)
        PROVE  row' \in [Workspace -> RowType(Len(changes'))]
    BY <1>2, <2>1, <2>4 DEF Unarchive, RowType, NoChange
  <2>. QED BY <1>3, <2>2, <2>3, <2>4
<1>4. row' = row
      \/ \E a \in Request :
            \/ Update(a) \/ UnsetAll(a) \/ ArchiveLanded(a) \/ Close(a) \/ SaveAnswer(a)
            \/ Updated(a) \/ \E w \in Workspace : Unarchive(a, w)
  BY StartFrame, RunFrame, EnvironmentFrame DEF Next, vars
<1>. QED BY <1>2, <1>3, <1>4

LEMMA CountNext ==
    ASSUME TypeOK, [Next]_vars
    PROVE  started' \in 0..MaxRequests /\ failed' \in 0..MaxFailures
<1>. USE LimitsAssumption
<1>1. started \in 0..MaxRequests /\ failed \in 0..MaxFailures
  BY DEF TypeOK
<1>2. ASSUME NEW a \in Request, StartRequest(a)
      PROVE  started' = started + 1 /\ started + failed < MaxRequests /\ failed' = failed
  BY <1>2 DEF StartRequest, PullRemote, HeadChange, ParentChange, Settings, Land,
         LandTracked, CheckUpToDate, Sync, Archive, Unarchive, Begin, CanBegin
<1>3. ASSUME NEW a \in Request, Fail(a)
      PROVE  failed' = failed + 1 /\ failed < MaxFailures /\ started' = started
  BY <1>3 DEF Fail
<1>. QED BY <1>1, <1>2, <1>3, RunFrame, EnvironmentFrame DEF Next, vars

LEMMA BranchNext ==
    ASSUME TypeOK, RequestsOK, [Next]_vars
    PROVE  pushed' \in [Workspace -> 0..Len(onto')] /\ draft' \in [Workspace -> BOOLEAN]
<1>1. \A c \in 0..Len(onto) : c \in 0..Len(onto')
  BY OntoNext
<1>2. pushed \in [Workspace -> 0..Len(onto')] /\ draft \in [Workspace -> BOOLEAN]
  BY <1>1 DEF TypeOK
<1>3. ASSUME NEW a \in Request, PushBranch(a) \/ SyncBranch(a)
      PROVE  pushed' \in [Workspace -> 0..Len(onto')]
  <2>1. loc[a].commit \in 0..Len(onto')
    BY <1>1 DEF RequestsOK, ActorOK, KnownOK
  <2>. QED BY <1>2, <1>3, <2>1 DEF PushBranch, SyncBranch
<1>4. pushed' = pushed \/ \E a \in Request : PushBranch(a) \/ SyncBranch(a)
  BY StartFrame, RunFrame, EnvironmentFrame DEF Next, vars, git
<1>5. \/ draft' = draft
      \/ \E a \in Request : Commit(a)
      \/ \E w \in Workspace : Edit(w)
  BY StartFrame, RunFrame, EnvironmentFrame DEF Next, vars, git
<1>6. draft' \in [Workspace -> BOOLEAN]
  BY <1>2, <1>5 DEF Commit, Edit
<1>. QED BY <1>2, <1>3, <1>4, <1>6

LEMMA StepTypeOK ==
    ASSUME TypeOK, Rooted, RequestsOK, ChangesMirrorCommits, [Next]_vars,
           \A a \in Request : FreshOK(a)
    PROVE  TypeOK'
<1>1. overlap' \in BOOLEAN /\ tracked' \in BOOLEAN
  BY Zenon DEF TypeOK, Next, vars
<1>2. changes' \in Seq(ChangeRow(Len(onto'), Len(changes')))
  BY ChangesNext DEF ChangesKept
<1>. QED BY <1>1, <1>2, OntoNext, TrunkNext, BranchNext, CodebaseNext, RowNext, CountNext,
            StepRequests DEF TypeOK, ChangeRow, RowType
-----------------------------------------------------------------------------
(* A commit that its landing has not recorded.                             *)

(* The commits that a request comes to know by a step.                     *)
LEMMA Learns ==
    ASSUME TypeOK, RequestsOK, NEW a \in Request, Step(a)
    PROVE  /\ \/ loc'[a].find \in {loc[a].find, Root, TrunkHead}
              \/ \E i \in 1..Len(changes) : loc'[a].find = onto[changes[i].commit]
           /\ \/ loc'[a].commit \in {loc[a].commit, Root, TrunkHead}
              \/ Commit(a) /\ loc'[a].commit = Len(onto) + 1
<1>1. loc \in [Request -> LocType] /\ loc[a] \in LocType /\ NoLoc.find = Root
      /\ NoLoc.commit = Root
  BY DEF TypeOK, NoLoc
<1>2. CASE Finish(a) \/ loc' = loc
  BY <1>1, <1>2 DEF Finish
<1>. USE DEF Finish
<1>3. CASE StartRequest(a)
  <2>1. CASE ParentChange(a)
    BY <1>1, <2>1, ChangeFacts DEF ParentChange, Begin, NoLoc
  <2>2. CASE PullRemote(a) \/ HeadChange(a) \/ Settings(a)
    BY <1>1, <2>2 DEF PullRemote, HeadChange, Settings, Begin, NoLoc
  <2>3. ASSUME NEW w \in Workspace,
               Land(a, w) \/ LandTracked(a, w) \/ CheckUpToDate(a, w) \/ Archive(a, w)
        PROVE  loc'[a].find = Root /\ loc'[a].commit = Root
    BY <1>1, <2>3 DEF Land, LandTracked, CheckUpToDate, Archive, Begin, NoLoc
  <2>4. ASSUME NEW w \in Workspace, Sync(a, w)
        PROVE  loc'[a].find = Root /\ loc'[a].commit = TrunkHead
    BY <1>1, <2>4 DEF Sync, Begin, NoLoc
  <2>5. ASSUME NEW w \in Workspace, Unarchive(a, w) PROVE loc' = loc
    BY <2>5 DEF Unarchive
  <2>. QED BY <1>2, <1>3, <2>1, <2>2, <2>3, <2>4, <2>5 DEF StartRequest
<1>4. CASE Find(a) \/ Import(a)
  <2>1. loc[a].op \in {"land", "tracked", "head", "changelog"}
    BY <1>4 DEF Find, Import, RequestsOK, ActorOK, PlaceOK, OpsAt
  <2>2. ASSUME NEW i, Found(a, i)
        PROVE  loc'[a].find = loc[a].find /\ loc'[a].commit = loc[a].commit
    BY <1>1, <2>1, <2>2 DEF Found, IsLanding, LocType
  <2>. QED BY <1>2, <1>4, <2>2 DEF Find, Import
<1>5. CASE Commit(a)
  BY <1>1, <1>5 DEF Commit, LocType
<1>6. CASE \/ Insert(a) \/ ReadCodebase(a) \/ HeadCommit(a) \/ Compute(a)
  BY <1>1, <1>6 DEF Insert, ReadCodebase, HeadCommit, Compute, LocType
<1>7. CASE \/ CommitNothing(a) \/ Push(a) \/ PushBranch(a) \/ Update(a) \/ UnsetAll(a)
           \/ SaveHead(a) \/ ArchiveLanded(a) \/ Close(a) \/ PushTrunk(a)
  BY <1>2, <1>7 DEF CommitNothing, Push, PushBranch, Update, UnsetAll, SaveHead,
         ArchiveLanded, Close, PushTrunk
<1>8. CASE \/ SetParent(a) \/ SaveAnswer(a) \/ OtherStep(a) \/ Fail(a)
  BY <1>2, <1>8 DEF SetParent, SaveAnswer, OtherStep, Pull, UnsetHead, SaveSettings,
         SyncBranch, Updated, Fail
<1>. QED BY <1>3, <1>4, <1>5, <1>6, <1>7, <1>8 DEF Step, Run, LandStep, ReadStep

(* Nothing that exists is, or is made on, a commit that is not made yet.   *)
LEMMA NotYet ==
    ASSUME TypeOK, Rooted, RequestsOK
    PROVE  LET c == Len(onto) + 1
           IN  /\ c \notin Commits(trunk) /\ c \notin Commits(remote) /\ ChangeOf(c) = {}
               /\ c # Root /\ c # TrunkHead /\ c # HeadOf(remote)
               /\ \A i \in 1..Len(onto) : onto[i] # c
               /\ \A b \in Request : loc[b].find # c /\ loc[b].commit # c
<1>. DEFINE c == Len(onto) + 1
<1>1. /\ Len(onto) \in Nat /\ onto \in Seq(Nat) /\ DOMAIN onto = 1..Len(onto)
      /\ TrunkHead \in 0..Len(onto) /\ HeadOf(remote) \in 0..Len(onto)
  BY Heads DEF TypeOK
<1>2. ASSUME NEW s \in Seq(1..Len(onto)) PROVE c \notin Commits(s)
  <2>1. \A i \in DOMAIN s : s[i] \in 1..Len(onto)
    BY <1>2
  <2>. QED BY <1>1, <2>1 DEF Commits
<1>3. c \notin Commits(trunk) /\ c \notin Commits(remote)
  BY <1>2 DEF TypeOK
<1>4. ChangeOf(c) = {}
  BY <1>1, ChangeFacts DEF ChangeOf
<1>5. \A i \in 1..Len(onto) : onto[i] # c
  BY <1>1 DEF Rooted
<1>6. \A b \in Request : loc[b].find # c /\ loc[b].commit # c
  BY <1>1 DEF RequestsOK, ActorOK, KnownOK
<1>. QED BY <1>1, <1>3, <1>4, <1>5, <1>6 DEF Root

(* A change that a step adds is that of the commit that was looked for, or *)
(* of the one that is landed.                                              *)
LEMMA NewChange ==
    ASSUME TypeOK, RequestsOK, ChangesMirrorCommits, [Next]_vars,
           \A b \in Request : FreshOK(b), NEW i \in DOMAIN changes', i \notin DOMAIN changes
    PROVE  \E b \in Request : \/ Import(b) /\ changes'[i].commit = loc[b].find
                              \/ Insert(b) /\ changes'[i].commit = loc[b].commit
<1>1. Len(changes) \in Nat /\ DOMAIN changes = 1..Len(changes)
      /\ changes \in Seq(ChangeRow(Len(onto), Len(changes)))
  BY ChangeFacts
<1>2. ASSUME NEW r, changes' = Append(changes, r) PROVE changes'[i] = r
  <2>1. changes \in Seq(ChangeRow(Len(onto), Len(changes)) \union {r})
    BY <1>1, SeqWiden
  <2>2. /\ changes' \in Seq(ChangeRow(Len(onto), Len(changes)) \union {r})
        /\ Len(changes') = Len(changes) + 1 /\ changes'[Len(changes) + 1] = r
    BY <1>2, <2>1, AppendIn
  <2>3. DOMAIN changes' = 1..(Len(changes) + 1)
    BY <2>2
  <2>4. i = Len(changes) + 1
    BY <1>1, <2>3
  <2>. QED BY <2>2, <2>4
<1>3. ASSUME NEW b \in Request, Import(b) PROVE changes'[i].commit = loc[b].find
  <2>1. changes' = Append(changes, [commit |-> loc[b].find, parent |-> NoChange, ws |-> none])
    BY <1>3 DEF Import
  <2>. QED BY <1>2, <2>1
<1>4. ASSUME NEW b \in Request, Insert(b) PROVE changes'[i].commit = loc[b].commit
  <2>1. changes' = Append(changes, [commit |-> loc[b].commit, parent |-> loc[b].parent,
                                    ws |-> loc[b].w])
    BY <1>4 DEF Insert
  <2>. QED BY <1>2, <2>1
<1>5. ASSUME NEW b \in Request, SetParent(b) PROVE FALSE
  BY <1>5 DEF SetParent
<1>6. changes' = changes \/ \E b \in Request : Import(b) \/ Insert(b) \/ SetParent(b)
  BY StartFrame, RunFrame, EnvironmentFrame DEF Next, vars
<1>. QED BY <1>3, <1>4, <1>5, <1>6

(* A commit that its landing a has not recorded stays unknown to others.   *)
LEMMA UnknownKept ==
    ASSUME TypeOK, Rooted, RequestsOK, ChangesMirrorCommits, [Next]_vars,
           \A b \in Request : FreshOK(b),
           NEW a \in Request, IsLanding(a), pc[a] \in Unrecorded, ~Insert(a),
           NEW c, c = loc[a].commit
    PROVE  Unknown(a, c)'
<1>1. Unknown(a, c) /\ ActorOK(a) /\ c \in 1..Len(onto) /\ Len(onto) \in Nat
  <2>1. Unknown(a, c) /\ ActorOK(a)
    BY DEF FreshOK, RequestsOK
  <2>2. c \in 0..Len(onto) /\ c # 0 /\ Len(onto) \in Nat
    BY <2>1, Heads DEF ActorOK, KnownOK, PlaceOK, Root
  <2>. QED BY <2>1, <2>2
<1>2. /\ c # Root /\ c # TrunkHead /\ c # HeadOf(remote) /\ c # Len(onto) + 1
  <2>1. c # Root /\ c # Len(onto) + 1
    BY <1>1 DEF Root
  <2>. QED BY <1>1, <2>1, Heads DEF Unknown
<1>3. c \notin Commits(trunk')
  <2>1. ASSUME NEW b \in Request, Push(b) PROVE c \notin Commits(trunk')
    <3>1. b # a /\ loc[b].commit # c
      BY <1>1, <2>1 DEF Push, Unknown, Unrecorded
    <3>2. loc[b].commit \in 1..Len(onto)
      <4>1. ActorOK(b) /\ IsLanding(b) /\ pc[b] = "push"
        BY <2>1 DEF Push, RequestsOK, ActorOK, PlaceOK, OpsAt, IsLanding
      <4>2. loc[b].commit \in 0..Len(onto) /\ loc[b].commit # 0
        BY <4>1 DEF ActorOK, KnownOK, PlaceOK, Root
      <4>. QED BY <1>1, <4>2
    <3>4. trunk \in Seq(1..Len(onto))
      BY DEF TypeOK
    <3>3. Commits(Append(trunk, loc[b].commit)) = Commits(trunk) \union {loc[b].commit}
      BY <3>2, <3>4, AppendCommits
    <3>. QED BY <1>1, <2>1, <3>1, <3>3 DEF Push, Unknown
  <2>2. ASSUME NEW b \in Request, Pull(b) PROVE c \notin Commits(trunk')
    BY <1>1, <2>2 DEF Pull, Unknown
  <2>3. trunk' = trunk \/ \E b \in Request : Push(b) \/ Pull(b)
    BY StartFrame, RunFrame, EnvironmentFrame DEF Next, vars, git
  <2>. QED BY <1>1, <2>1, <2>2, <2>3 DEF Unknown
<1>4. c \notin Commits(remote')
  <2>1. CASE RemoteCommit
    <3>1. remote \in Seq(Nat)
      BY <1>1, SeqWiden DEF TypeOK
    <3>2. Commits(Append(remote, Len(onto) + 1)) = Commits(remote) \union {Len(onto) + 1}
      BY <1>1, <3>1, AppendCommits
    <3>. QED BY <1>1, <1>2, <2>1, <3>2 DEF RemoteCommit, Unknown
  <2>2. ASSUME NEW b \in Request, PushTrunk(b) PROVE c \notin Commits(remote')
    BY <1>1, <2>2 DEF PushTrunk, Unknown
  <2>3. remote' = remote \/ RemoteCommit \/ \E b \in Request : PushTrunk(b)
    BY StartFrame, RunFrame, EnvironmentFrame DEF Next, vars, git
  <2>. QED BY <1>1, <2>1, <2>2, <2>3 DEF Unknown
<1>5. ChangeOf(c)' = {}
  <2>1. ASSUME NEW i \in DOMAIN changes' PROVE changes'[i].commit # c
    <3>1. CASE i \in DOMAIN changes
      <4>1. changes'[i].commit = changes[i].commit
        BY <3>1, ChangeFacts, ChangesNext DEF ChangesKept
      <4>2. changes[i].commit # c
        BY <1>1, <3>1 DEF Unknown, ChangeOf
      <4>. QED BY <4>1, <4>2
    <3>2. CASE i \notin DOMAIN changes
      <4>1. PICK b \in Request : \/ Import(b) /\ changes'[i].commit = loc[b].find
                                 \/ Insert(b) /\ changes'[i].commit = loc[b].commit
        BY <3>2, NewChange
      <4>2. Insert(b) => b # a
        OBVIOUS
      <4>. QED BY <1>1, <4>1, <4>2 DEF Unknown
    <3>. QED BY <3>1, <3>2
  <2>. QED BY <2>1 DEF ChangeOf
<1>6. \A i \in DOMAIN onto' : onto'[i] # c
  <2>1. onto \in Seq(Nat) /\ DOMAIN onto = 1..Len(onto) /\ Len(onto) \in Nat
    BY Heads DEF TypeOK
  <2>2. ASSUME NEW h \in {TrunkHead, HeadOf(remote)}, onto' = Append(onto, h)
        PROVE  \A i \in DOMAIN onto' : onto'[i] # c
    <3>1. h \in Nat /\ h # c
      BY <1>2, Heads
    <3>2. /\ DOMAIN onto' = 1..(Len(onto) + 1)
          /\ \A i \in 1..Len(onto) : onto'[i] = onto[i]
          /\ onto'[Len(onto) + 1] = h
      BY <2>1, <2>2, <3>1, AppendIn
    <3>3. \A i \in 1..Len(onto) : onto'[i] # c
      BY <1>1, <2>1, <3>2 DEF Unknown
    <3>4. \A i \in DOMAIN onto' : i \in 1..Len(onto) \/ i = Len(onto) + 1
      BY <2>1, <3>2
    <3>. QED BY <3>1, <3>2, <3>3, <3>4
  <2>3. \/ onto' = onto \/ onto' = Append(onto, HeadOf(remote))
        \/ onto' = Append(onto, TrunkHead)
    BY StartFrame, RunFrame, EnvironmentFrame DEF Next, vars, git, RemoteCommit, Commit
  <2>. QED BY <1>1, <2>2, <2>3 DEF Unknown
<1>7. ASSUME NEW b \in Request PROVE loc'[b].find # c /\ (b # a => loc'[b].commit # c)
  <2>1. loc[b].find # c /\ (b # a => loc[b].commit # c)
        /\ \A i \in DOMAIN onto : onto[i] # c
    BY <1>1 DEF Unknown
  <2>2. CASE loc'[b] = loc[b]
    BY <2>1, <2>2
  <2>3. CASE Step(b)
    <3>1. \A i \in 1..Len(changes) : onto[changes[i].commit] # c
      BY <2>1, ChangeFacts
    <3>. QED BY <1>2, <2>1, <2>3, <3>1, Learns
  <2>4. loc'[b] = loc[b] \/ Step(b)
    <3>1. (loc' = loc) \/ \E d \in Request : Step(d)
      BY EnvironmentFrame DEF Next, Step, vars
    <3>. QED BY <3>1, Others
  <2>. QED BY <2>2, <2>3, <2>4
<1>. QED BY <1>3, <1>4, <1>5, <1>6, <1>7 DEF Unknown
(* A new commit is known to its landing alone.                             *)
LEMMA NewCommitUnknown ==
    ASSUME TypeOK, Rooted, RequestsOK, [Next]_vars, NEW a \in Request, Commit(a),
           NEW c, c = Len(onto) + 1
    PROVE  Unknown(a, c)'
<1>1. /\ c \notin Commits(trunk) /\ c \notin Commits(remote) /\ ChangeOf(c) = {}
      /\ c # Root /\ c # TrunkHead
      /\ \A i \in 1..Len(onto) : onto[i] # c
      /\ \A b \in Request : loc[b].find # c /\ loc[b].commit # c
  BY NotYet
<1>2. /\ trunk' = trunk /\ remote' = remote /\ changes' = changes
      /\ onto' = Append(onto, TrunkHead)
  BY DEF Commit
<1>3. /\ onto \in Seq(Nat) /\ Len(onto) \in Nat /\ TrunkHead \in Nat
      /\ DOMAIN onto = 1..Len(onto)
  BY Heads DEF TypeOK
<1>4. \A i \in DOMAIN onto' : onto'[i] # c
  <2>1. /\ DOMAIN onto' = 1..(Len(onto) + 1)
        /\ \A i \in 1..Len(onto) : onto'[i] = onto[i]
        /\ onto'[Len(onto) + 1] = TrunkHead
    BY <1>2, <1>3, AppendIn
  <2>2. \A i \in DOMAIN onto' : i \in 1..Len(onto) \/ i = Len(onto) + 1
    BY <1>3, <2>1
  <2>. QED BY <1>1, <2>1, <2>2
<1>5. ASSUME NEW b \in Request PROVE loc'[b].find # c /\ (b # a => loc'[b].commit # c)
  <2>1. CASE b # a
    BY <1>1, <2>1, Others DEF Step, Run, LandStep
  <2>2. CASE b = a
    <3>1. \A i \in 1..Len(changes) : onto[changes[i].commit] # c
      BY <1>1, ChangeFacts
    <3>. QED BY <1>1, <2>2, <3>1, Learns DEF Step, Run, LandStep
  <2>. QED BY <2>1, <2>2
<1>6. ChangeOf(c)' = {}
  BY <1>1, <1>2 DEF ChangeOf
<1>. QED BY <1>1, <1>2, <1>4, <1>5, <1>6 DEF Unknown

(* A landing is at work on a commit that it has not recorded: it has made  *)
(* it by this step, or it has it still.                                    *)
LEMMA UnrecordedStep ==
    ASSUME TypeOK, RequestsOK, NEW a \in Request, Step(a),
           IsLanding(a)', pc'[a] \in Unrecorded
    PROVE  \/ Commit(a) /\ loc'[a].commit = Len(onto) + 1
           \/ /\ IsLanding(a) /\ pc[a] \in Unrecorded /\ ~Insert(a)
              /\ loc'[a].commit = loc[a].commit
<1>1. /\ loc \in [Request -> LocType] /\ pc \in [Request -> PC] /\ loc[a] \in LocType
      /\ loc[a].op \in OpsAt(pc[a])
  BY DEF TypeOK, RequestsOK, ActorOK, PlaceOK
<1>. USE DEF Unrecorded, Goto, IsLanding
<1>2. CASE Finish(a)
  BY <1>1, <1>2 DEF Finish
<1>3. CASE StartRequest(a)
  <2>1. ASSUME NEW w \in Workspace, Unarchive(a, w)
        PROVE  pc' = pc /\ loc' = loc /\ pc[a] = "idle"
    BY <2>1 DEF Unarchive, CanBegin
  <2>2. CASE \E w \in Workspace : Unarchive(a, w)
    BY <1>1, <2>1, <2>2 DEF OpsAt
  <2>3. CASE PullRemote(a) \/ HeadChange(a) \/ Settings(a)
    BY <1>1, <2>3 DEF PullRemote, HeadChange, Settings, Begin
  <2>5. CASE ParentChange(a)
    <3>1. PICK i : loc' = [loc EXCEPT ![a] = [NoLoc EXCEPT !.op = "changelog", !.change = i,
                                              !.find = onto[changes[i].commit]]]
      BY <2>5 DEF ParentChange, Begin
    <3>2. loc'[a].op = "changelog"
      BY <1>1, <3>1 DEF NoLoc
    <3>. QED BY <1>1, <3>2
  <2>4. ASSUME NEW w \in Workspace,
               \/ Land(a, w) \/ LandTracked(a, w) \/ CheckUpToDate(a, w) \/ Sync(a, w)
               \/ Archive(a, w)
        PROVE  pc'[a] \notin Unrecorded
    BY <1>1, <2>4 DEF Land, LandTracked, CheckUpToDate, Sync, Archive, Begin
  <2>. QED BY <1>3, <2>2, <2>3, <2>4, <2>5 DEF StartRequest
<1>4. CASE Find(a) \/ Import(a)
  <2>1. loc[a].op \in {"land", "tracked", "head", "changelog"} /\ pc[a] \in Unrecorded
        /\ ~Insert(a)
    BY <1>1, <1>4 DEF Find, Import, OpsAt, Insert
  <2>2. ASSUME NEW i, Found(a, i)
        PROVE  loc'[a].op = loc[a].op /\ loc'[a].commit = loc[a].commit
    <3>1. \/ loc' = [loc EXCEPT ![a].parent = i]
          \/ loc' = [loc EXCEPT ![a].change = i]
      BY <2>1, <2>2 DEF Found
    <3>. QED BY <1>1, <3>1 DEF LocType
  <2>. QED BY <1>2, <1>4, <2>1, <2>2 DEF Find, Import
<1>5. CASE Commit(a)
  BY <1>1, <1>5 DEF Commit, LocType
<1>6. CASE HeadCommit(a)
  BY <1>1, <1>6 DEF HeadCommit, LocType, OpsAt
<1>7. CASE \/ Insert(a) \/ Push(a) \/ PushBranch(a) \/ Update(a) \/ UnsetAll(a)
           \/ ReadCodebase(a) \/ SaveHead(a) \/ ArchiveLanded(a) \/ Close(a)
  <2>1. Finish(a) \/ pc'[a] \notin Unrecorded
    BY <1>1, <1>7 DEF Insert, Push, PushBranch, Update, UnsetAll, ReadCodebase, SaveHead,
           ArchiveLanded, Close
  <2>. QED BY <1>2, <2>1
<1>8. CASE \/ CommitNothing(a) \/ PushTrunk(a) \/ SetParent(a) \/ Compute(a) \/ SaveAnswer(a)
           \/ OtherStep(a) \/ Fail(a)
  <2>1. Finish(a) \/ pc'[a] \notin Unrecorded
    BY <1>1, <1>8 DEF CommitNothing, PushTrunk, SetParent, Compute, SaveAnswer, OtherStep,
           Pull, UnsetHead, SaveSettings, SyncBranch, Updated, Fail
  <2>. QED BY <1>2, <2>1
<1>. QED BY <1>3, <1>4, <1>5, <1>6, <1>7, <1>8 DEF Step, Run, LandStep, ReadStep

LEMMA StepFresh ==
    ASSUME TypeOK, Rooted, RequestsOK, ChangesMirrorCommits, [Next]_vars,
           \A b \in Request : FreshOK(b), NEW a \in Request
    PROVE  FreshOK(a)'
<1>1. SUFFICES ASSUME IsLanding(a)', pc'[a] \in Unrecorded
               PROVE  Unknown(a, loc[a].commit)'
  BY DEF FreshOK
<1>2. CASE pc'[a] = pc[a] /\ loc'[a] = loc[a] /\ ~Insert(a)
  <2>1. \A c : c = loc[a].commit => Unknown(a, c)'
    BY <1>1, <1>2, UnknownKept DEF IsLanding
  <2>. QED BY <1>2, <2>1
<1>3. CASE Step(a)
  <2>1. \A c : c = Len(onto) + 1 /\ Commit(a) => Unknown(a, c)'
    BY NewCommitUnknown
  <2>2. \A c : c = loc[a].commit /\ IsLanding(a) /\ pc[a] \in Unrecorded /\ ~Insert(a)
                  => Unknown(a, c)'
    BY UnknownKept
  <2>. QED BY <1>1, <1>3, <2>1, <2>2, UnrecordedStep
<1>4. Step(a) \/ (pc'[a] = pc[a] /\ loc'[a] = loc[a] /\ ~Insert(a))
  <2>1. (pc' = pc /\ loc' = loc) \/ \E d \in Request : Step(d)
    BY EnvironmentFrame DEF Next, Step, vars
  <2>2. Insert(a) => Step(a)
    BY DEF Step, Run, LandStep
  <2>. QED BY <2>1, <2>2, Others
<1>. QED BY <1>2, <1>3, <1>4
-----------------------------------------------------------------------------
(* What is stored as landed, or as the head, is on trunk.                  *)

(* Changes that are on trunk stay on it.                                   *)
LEMMA OnTrunkKept ==
    ASSUME TypeOK, Grows, ~tracked
    PROVE  \A i \in 0..Len(changes) : OnTrunk(i) => OnTrunk(i)'
<1>1. \A i \in 0..Len(changes) : i # NoChange => changes'[i].commit = changes[i].commit
  BY GrownFacts
<1>2. Commits(trunk) \subseteq Commits(trunk')
  BY DEF Grows
<1>. QED BY <1>1, <1>2 DEF OnTrunk

(* A landing that has been pushed has a change on trunk.                   *)
LEMMA PushedOnTrunk ==
    ASSUME TypeOK, Grows, RequestsOK, NEW a \in Request, Push(a), pc'[a] = "pushBranch"
    PROVE  OnTrunk(loc[a].change)'
<1>1. ActorOK(a) /\ pc[a] = "push" /\ trunk' = Append(trunk, loc[a].commit) /\ loc' = loc
  <2>1. CASE Finish(a)
    BY <2>1 DEF Finish, Goto, TypeOK
  <2>. QED BY <2>1 DEF Push, RequestsOK
<1>2. IsLanding(a) /\ Len(onto) \in Nat
  BY <1>1, Heads DEF ActorOK, PlaceOK, OpsAt, IsLanding
<1>3. loc[a].commit \in 1..Len(onto)
  <2>1. loc[a].commit \in 0..Len(onto) /\ loc[a].commit # 0
    BY <1>1, <1>2 DEF ActorOK, KnownOK, PlaceOK, Root
  <2>. QED BY <1>2, <2>1
<1>4. loc[a].commit \in Commits(trunk')
  <2>1. trunk \in Seq(1..Len(onto))
    BY DEF TypeOK
  <2>2. Commits(Append(trunk, loc[a].commit)) = Commits(trunk) \union {loc[a].commit}
    BY <1>3, <2>1, AppendCommits
  <2>. QED BY <1>1, <2>2
<1>5. loc[a].change # NoChange => changes'[loc[a].change].commit = loc[a].commit
  <2>1. loc[a].change \in 0..Len(changes) /\ IsChangeOf(loc[a].change, loc[a].commit)
    BY <1>1, <1>2 DEF ActorOK, KnownOK
  <2>. QED BY <2>1, GrownFacts DEF IsChangeOf
<1>. QED BY <1>1, <1>4, <1>5 DEF OnTrunk

(* A request that keeps its copies, or has none, keeps them right.         *)
LEMMA TrunkPlain ==
    ASSUME TypeOK, Grows, RequestsOK, NEW a \in Request, TrunkOK(a), ~tracked,
           \/ loc'[a] = NoLoc
           \/ /\ loc'[a] = loc[a] /\ (pc[a] = "push" => pc'[a] = "push")
              /\ loc[a].op = "head" /\ pc'[a] \in {"find", "import"}
                    => pc[a] \in {"find", "import"}
    PROVE  TrunkOK(a)'
<1>1. CASE loc'[a] = NoLoc
  BY <1>1 DEF TrunkOK, OnTrunk, NoLoc, NewCodebase, IsLanding
<1>2. CASE loc'[a] # NoLoc
  <2>1. /\ loc[a].change \in 0..Len(changes) /\ loc[a].cb.head \in 0..Len(changes)
        /\ Commits(trunk) \subseteq Commits(trunk')
    BY DEF RequestsOK, ActorOK, KnownOK, Grows
  <2>2. /\ OnTrunk(loc[a].change) => OnTrunk(loc[a].change)'
        /\ OnTrunk(loc[a].cb.head) => OnTrunk(loc[a].cb.head)'
    <3>1. loc'[a] = loc[a]
      BY <1>2
    <3>. QED BY <2>1, <3>1, OnTrunkKept DEF OnTrunk
  <2>. QED BY <1>2, <2>1, <2>2 DEF TrunkOK, IsLanding
<1>. QED BY <1>1, <1>2

LEMMA TrunkStart ==
    ASSUME TypeOK, Grows, RequestsOK, NEW a \in Request, TrunkOK(a), StoredOK, ~tracked,
           StartRequest(a)
    PROVE  TrunkOK(a)'
<1>1. /\ loc \in [Request -> LocType] /\ codebase.head \in 0..Len(changes)
  BY DEF TypeOK
<1>2. ASSUME loc'[a].change = NoChange \/ loc'[a].op \notin {"land", "tracked", "head"},
             loc'[a].op = "head" => pc'[a] \notin {"find", "import"},
             loc'[a].cb \in {NewCodebase, codebase}
      PROVE  TrunkOK(a)'
  <2>2. codebase' = codebase
    BY StartFrame
  <2>1. OnTrunk(codebase.head)'
    BY <1>1, <2>2, OnTrunkKept DEF StoredOK, OnTrunk
  <2>. QED BY <1>2, <2>1, <2>2 DEF TrunkOK, OnTrunk, IsLanding, NewCodebase
<1>3. CASE PullRemote(a)
  BY <1>1, <1>2, <1>3 DEF PullRemote, Begin, NoLoc
<1>7. CASE ParentChange(a)
  <2>1. PICK i : loc' = [loc EXCEPT ![a] = [NoLoc EXCEPT !.op = "changelog", !.change = i,
                                            !.find = onto[changes[i].commit]]]
    BY <1>7 DEF ParentChange, Begin
  <2>2. loc'[a].op = "changelog" /\ loc'[a].cb = NewCodebase
    BY <1>1, <2>1 DEF NoLoc
  <2>. QED BY <1>2, <2>2
<1>4. CASE HeadChange(a) \/ Settings(a)
  <2>1. pc'[a] \notin {"find", "import"}
    BY <1>4 DEF HeadChange, Settings, Begin, Goto, TypeOK
  <2>. QED BY <1>1, <1>2, <1>4, <2>1 DEF HeadChange, Settings, Begin, NoLoc
<1>5. ASSUME NEW w \in Workspace,
             \/ Land(a, w) \/ LandTracked(a, w) \/ CheckUpToDate(a, w) \/ Sync(a, w)
             \/ Archive(a, w)
      PROVE  TrunkOK(a)'
  <2>1. /\ loc'[a].change = NoChange /\ loc'[a].cb = NewCodebase /\ loc'[a].op # "head"
    BY <1>1, <1>5 DEF Land, LandTracked, CheckUpToDate, Sync, Archive, Begin, NoLoc
  <2>. QED BY <1>2, <2>1
<1>6. ASSUME NEW w \in Workspace, Unarchive(a, w) PROVE TrunkOK(a)'
  BY <1>6, TrunkPlain DEF Unarchive
<1>. QED BY <1>3, <1>4, <1>5, <1>6, <1>7 DEF StartRequest

LEMMA TrunkFind ==
    ASSUME TypeOK, Grows, ChangesKept, RequestsOK, NEW a \in Request, TrunkOK(a), ~tracked,
           Find(a) \/ Import(a)
    PROVE  TrunkOK(a)'
<1>1. /\ loc \in [Request -> LocType] /\ loc[a] \in LocType /\ ActorOK(a)
      /\ loc[a].op \in {"land", "tracked", "head", "changelog"}
  BY DEF Find, Import, RequestsOK, ActorOK, PlaceOK, OpsAt, TypeOK
<1>2. /\ loc[a].cb.head \in 0..Len(changes) /\ Len(changes) \in Nat /\ Len(changes') \in Nat
      /\ Commits(trunk) \subseteq Commits(trunk')
  BY <1>1 DEF ActorOK, KnownOK, Grows
<1>3. OnTrunk(loc[a].cb.head) /\ \A c : c = loc[a].cb.head => OnTrunk(c)'
  <2>1. OnTrunk(loc[a].cb.head)
    BY DEF TrunkOK
  <2>. QED BY <1>2, <2>1, OnTrunkKept
<1>4. ASSUME NEW i, Found(a, i), i # NoChange => changes'[i].commit = loc[a].find,
             i = NoChange \/ loc[a].find # Root
      PROVE  TrunkOK(a)'
  <2>1. \/ loc' = [loc EXCEPT ![a].parent = i] /\ loc[a].op # "head"
        \/ loc' = [loc EXCEPT ![a].change = i] /\ loc[a].op = "head"
    BY <1>1, <1>4 DEF Found, IsLanding
  <2>2. CASE loc[a].op # "head"
    <3>1. /\ loc'[a].change = loc[a].change /\ loc'[a].cb = loc[a].cb
          /\ loc'[a].op = loc[a].op
      BY <1>1, <2>1, <2>2 DEF LocType
    <3>2. IsLanding(a) => loc[a].change = NoChange
      BY <1>1 DEF Find, Import, ActorOK, PlaceOK, Unrecorded
    <3>. QED BY <1>3, <2>2, <3>1, <3>2 DEF TrunkOK, OnTrunk, IsLanding
  <2>3. CASE loc[a].op = "head"
    <3>1. /\ loc'[a].change = i /\ loc'[a].cb = loc[a].cb /\ loc'[a].op = "head"
          /\ loc'[a].find = loc[a].find
      BY <1>1, <2>1, <2>3 DEF LocType
    <3>2. loc[a].find \in {Root} \union Commits(trunk)
      BY <2>3 DEF TrunkOK, Find, Import
    <3>3. OnTrunk(i)'
      BY <1>2, <1>4, <3>2 DEF OnTrunk
    <3>4. pc'[a] \notin {"find", "import"}
      BY <1>4, <2>3 DEF Found, IsLanding, Goto, TypeOK
    <3>. QED BY <1>3, <3>1, <3>3, <3>4 DEF TrunkOK, OnTrunk, IsLanding
  <2>. QED BY <2>2, <2>3
<1>5. CASE Find(a) /\ loc[a].find = Root /\ Found(a, NoChange)
  BY <1>4, <1>5
<1>6. ASSUME Find(a), NEW i \in ChangeOf(loc[a].find), Found(a, i) PROVE TrunkOK(a)'
  <2>1. changes' = changes /\ changes[i].commit = loc[a].find /\ i \in DOMAIN changes
    BY <1>6 DEF Find, ChangeOf
  <2>2. loc[a].find # Root
    BY <2>1, ChangeFacts DEF Root
  <2>. QED BY <1>4, <1>6, <2>1, <2>2
<1>7. CASE Find(a) /\ loc' = loc /\ Goto(a, "import")
  <2>1. pc'[a] = "import" /\ pc[a] = "find" /\ loc'[a] = loc[a]
    BY <1>7 DEF Find, Goto, TypeOK
  <2>. QED BY <2>1, TrunkPlain
<1>8. CASE Import(a) /\ Finish(a)
  BY <1>1, <1>8, TrunkPlain DEF Finish
<1>9. CASE Import(a) /\ Found(a, Len(changes) + 1)
                     /\ changes' = Append(changes, [commit |-> loc[a].find,
                                                    parent |-> NoChange, ws |-> none])
  <2>. DEFINE new == [commit |-> loc[a].find, parent |-> NoChange, ws |-> none]
  <2>1. changes \in Seq(ChangeRow(Len(onto), Len(changes)) \union {new})
    BY ChangeFacts, SeqWiden
  <2>2. changes'[Len(changes) + 1] = new /\ new.commit = loc[a].find
    <3>. HIDE DEF new
    <3>1. changes' = Append(changes, new)
      BY <1>9 DEF new
    <3>2. changes'[Len(changes) + 1] = new
      BY <2>1, <3>1, AppendIn
    <3>. QED BY <3>2 DEF new
  <2>3. loc[a].find # Root
    BY <1>1, <1>9 DEF Import, ActorOK, PlaceOK
  <2>. HIDE DEF new
  <2>. QED BY <1>4, <1>9, <2>2, <2>3
<1>. QED BY <1>5, <1>6, <1>7, <1>8, <1>9 DEF Find, Import
(* Steps that take a new copy of something, without finding a change.      *)
LEMMA TrunkCopies ==
    ASSUME TypeOK, Grows, RequestsOK, NEW a \in Request, TrunkOK(a), StoredOK, ~tracked,
           Commit(a) \/ Insert(a) \/ ReadCodebase(a) \/ HeadCommit(a) \/ Compute(a)
    PROVE  TrunkOK(a)'
<1>1. /\ loc \in [Request -> LocType] /\ loc[a] \in LocType /\ ActorOK(a)
      /\ loc[a].cb.head \in 0..Len(changes) /\ loc[a].change \in 0..Len(changes)
      /\ codebase.head \in 0..Len(changes) /\ Commits(trunk) \subseteq Commits(trunk')
      /\ pc \in [Request -> PC]
  BY DEF RequestsOK, ActorOK, KnownOK, TypeOK, Grows
<1>2. \A i \in 0..Len(changes) : OnTrunk(i) => OnTrunk(i)'
  BY OnTrunkKept
<1>3. /\ OnTrunk(codebase.head) /\ OnTrunk(loc[a].cb.head)
      /\ \A i : i = codebase.head => OnTrunk(i)'
      /\ \A i : i = loc[a].cb.head => OnTrunk(i)'
  BY <1>1, <1>2 DEF TrunkOK, StoredOK
<1>4. CASE Commit(a)
  <2>1. /\ loc'[a].cb = loc[a].cb /\ loc'[a].change = NoChange /\ IsLanding(a)'
    BY <1>1, <1>4, CommitNext
  <2>. QED BY <1>3, <2>1 DEF TrunkOK, OnTrunk, IsLanding
<1>5. CASE Insert(a)
  <2>1. /\ loc'[a].cb = loc[a].cb /\ pc'[a] = "push" /\ loc'[a].op = loc[a].op
    BY <1>1, <1>5, InsertNext
  <2>2. loc[a].op # "head"
    BY <1>1, <1>5 DEF Insert, ActorOK, PlaceOK, OpsAt
  <2>. QED BY <1>3, <2>1, <2>2 DEF TrunkOK, OnTrunk, IsLanding
<1>6. CASE ReadCodebase(a)
  <2>1. /\ loc'[a].cb = codebase /\ loc'[a].change = loc[a].change
        /\ loc'[a].op = loc[a].op
    BY <1>1, <1>6 DEF ReadCodebase, LocType
  <2>2. loc[a].op # "head" /\ pc[a] # "push"
    BY <1>1, <1>6 DEF ReadCodebase, ActorOK, PlaceOK, OpsAt
  <2>3. IsLanding(a) => \A i : i = loc[a].change => OnTrunk(i)'
    BY <1>1, <1>2, <2>2 DEF TrunkOK
  <2>. QED BY <1>3, <2>1, <2>2, <2>3 DEF TrunkOK, OnTrunk, IsLanding
<1>7. CASE HeadCommit(a)
  <2>1. /\ loc'[a].cb = loc[a].cb /\ loc'[a].change = loc[a].change
        /\ loc'[a].op = loc[a].op /\ loc'[a].find = TrunkHead
    BY <1>1, <1>7 DEF HeadCommit, LocType
  <2>2. loc[a].op = "head"
    BY <1>1, <1>7 DEF HeadCommit, ActorOK, PlaceOK, OpsAt
  <2>3. \A i : i = loc[a].change => OnTrunk(i)'
    BY <1>1, <1>2, <2>2 DEF TrunkOK
  <2>4. TrunkHead \in {Root} \union Commits(trunk')
    BY <1>1, Heads
  <2>. QED BY <1>3, <2>1, <2>2, <2>3, <2>4 DEF TrunkOK, OnTrunk, IsLanding
<1>8. CASE Compute(a)
  <2>1. /\ loc'[a].cb = loc[a].cb /\ loc'[a].op = loc[a].op
    BY <1>1, <1>8 DEF Compute, LocType
  <2>2. loc[a].op = "check"
    BY <1>1, <1>8 DEF Compute, ActorOK, PlaceOK, OpsAt
  <2>. QED BY <1>3, <2>1, <2>2 DEF TrunkOK, OnTrunk, IsLanding
<1>. QED BY <1>4, <1>5, <1>6, <1>7, <1>8

(* A push that trunk takes.                                                *)
LEMMA TrunkPush ==
    ASSUME TypeOK, Grows, RequestsOK, NEW a \in Request, TrunkOK(a), ~tracked, Push(a)
    PROVE  TrunkOK(a)'
<1>1. CASE Finish(a)
  BY <1>1, TrunkPlain DEF Finish, TypeOK
<1>2. CASE Goto(a, "pushBranch") /\ loc' = loc
  <2>1. pc'[a] = "pushBranch" /\ loc'[a] = loc[a] /\ pc[a] = "push"
    BY <1>2 DEF Push, Goto, TypeOK
  <2>2. OnTrunk(loc[a].change)'
    BY <2>1, PushedOnTrunk
  <2>3. loc[a].op # "head" /\ loc[a].cb.head \in 0..Len(changes)
    BY <2>1 DEF RequestsOK, ActorOK, KnownOK, PlaceOK, OpsAt
  <2>4. \A i : i = loc[a].cb.head => OnTrunk(i)'
    BY <2>3, OnTrunkKept DEF TrunkOK
  <2>. QED BY <2>1, <2>2, <2>3, <2>4 DEF TrunkOK, OnTrunk, IsLanding
<1>. QED BY <1>1, <1>2 DEF Push

LEMMA StepTrunk ==
    ASSUME TypeOK, Rooted, RequestsOK, ChangesMirrorCommits, StoredOK, [Next]_vars,
           \A b \in Request : FreshOK(b), \A b \in Request : TrunkOK(b)
    PROVE  \A b \in Request : TrunkOK(b)'
<1>1. Grows /\ ChangesKept
  BY Growth, ChangesNext
<1>2. CASE tracked
  BY <1>1, <1>2 DEF Grows, TrunkOK
<1>3. ASSUME ~tracked, NEW a \in Request, Step(a) PROVE TrunkOK(a)'
  <2>1. CASE StartRequest(a)
    BY <1>1, <1>3, <2>1, TrunkStart
  <2>2. CASE Find(a) \/ Import(a)
    BY <1>1, <1>3, <2>2, TrunkFind
  <2>3. CASE Commit(a) \/ Insert(a) \/ ReadCodebase(a) \/ HeadCommit(a) \/ Compute(a)
    BY <1>1, <1>3, <2>3, TrunkCopies
  <2>4. CASE Push(a)
    BY <1>1, <1>3, <2>4, TrunkPush
  <2>5. CASE Finish(a)
    BY <1>1, <1>3, <2>5, TrunkPlain DEF Finish, TypeOK
  <2>6. CASE /\ loc' = loc /\ pc[a] # "push"
             /\ \E at \in {"update", "unsetAll", "readCb", "commit", "archive", "close",
                           "pushTrunk", "updated"} : Goto(a, at)
    <3>1. pc'[a] \notin {"find", "import"}
      BY <2>6 DEF Goto, TypeOK
    <3>. QED BY <1>1, <1>3, <2>6, <3>1, TrunkPlain
  <2>7. CASE \/ CommitNothing(a) \/ PushBranch(a) \/ Update(a) \/ UnsetAll(a) \/ SaveHead(a)
             \/ ArchiveLanded(a) \/ Close(a) \/ PushTrunk(a)
    BY <2>5, <2>6, <2>7 DEF CommitNothing, PushBranch, Update, UnsetAll, SaveHead,
           ArchiveLanded, Close, PushTrunk
  <2>8. CASE SetParent(a) \/ SaveAnswer(a) \/ OtherStep(a) \/ Fail(a)
    BY <2>5, <2>6, <2>8 DEF SetParent, SaveAnswer, OtherStep, Pull, UnsetHead, SaveSettings,
           SyncBranch, Updated, Fail
  <2>. QED BY <1>3, <2>1, <2>2, <2>3, <2>4, <2>7, <2>8 DEF Step, Run, LandStep, ReadStep
<1>4. ASSUME ~tracked, NEW b \in Request, loc'[b] = loc[b], pc'[b] = pc[b]
      PROVE  TrunkOK(b)'
  BY <1>1, <1>4, TrunkPlain
<1>5. (pc' = pc /\ loc' = loc) \/ \E d \in Request : Step(d)
  BY EnvironmentFrame DEF Next, Step, vars
<1>. QED BY <1>2, <1>3, <1>4, <1>5, Others

LEMMA StepStored ==
    ASSUME TypeOK, Rooted, RequestsOK, ChangesMirrorCommits, StoredOK, [Next]_vars,
           \A b \in Request : FreshOK(b), \A b \in Request : TrunkOK(b)
    PROVE  StoredOK'
<1>1. Grows
  BY Growth
<1>2. CASE tracked
  BY <1>1, <1>2 DEF Grows, StoredOK
<1>3. CASE ~tracked
  <2>1. \A i \in 0..Len(changes) : OnTrunk(i) => OnTrunk(i)'
    BY <1>1, <1>3, OnTrunkKept
  <2>2. NoChange \in 0..Len(changes) /\ OnTrunk(NoChange)
    BY ChangeFacts DEF NoChange, OnTrunk
  <2>3. ASSUME NEW a \in Request
        PROVE  /\ loc[a].change \in 0..Len(changes) /\ loc[a].cb.head \in 0..Len(changes)
               /\ OnTrunk(loc[a].cb.head) /\ loc[a].op \in OpsAt(pc[a])
               /\ IsLanding(a) /\ pc[a] # "push" => OnTrunk(loc[a].change)
               /\ loc[a].op = "head" => OnTrunk(loc[a].change)
    BY <1>3 DEF RequestsOK, ActorOK, KnownOK, PlaceOK, TrunkOK
  <2>4. OnTrunk(codebase.head)'
    <3>1. codebase'.head \in 0..Len(changes) /\ OnTrunk(codebase'.head)
      <4>1. codebase.head \in 0..Len(changes) /\ OnTrunk(codebase.head)
            /\ codebase \in CodebaseType /\ \A a \in Request : loc[a].cb \in CodebaseType
        BY <1>3 DEF TypeOK, LocType, StoredOK
      <4>2. ASSUME NEW a \in Request, SaveHead(a)
            PROVE  codebase'.head = loc[a].change /\ OnTrunk(loc[a].change)
        BY <2>3, <4>1, <4>2 DEF SaveHead, CodebaseType, OpsAt, IsLanding
      <4>3. ASSUME NEW a \in Request, UnsetHead(a) \/ SaveSettings(a)
            PROVE  codebase'.head \in {NoChange, loc[a].cb.head}
        BY <4>1, <4>3 DEF UnsetHead, SaveSettings, CodebaseType
      <4>4. codebase' = codebase
            \/ \E a \in Request : SaveHead(a) \/ UnsetHead(a) \/ SaveSettings(a)
        BY StartFrame, RunFrame, EnvironmentFrame DEF Next, vars
      <4>. QED BY <2>2, <2>3, <4>1, <4>2, <4>3, <4>4
    <3>. QED BY <2>1, <3>1 DEF OnTrunk
  <2>5. ASSUME NEW w \in Workspace PROVE OnTrunk(row[w].change)'
    <3>1. row'[w].change \in 0..Len(changes) /\ OnTrunk(row'[w].change)
      <4>1. /\ row[w].change \in 0..Len(changes) /\ OnTrunk(row[w].change)
            /\ row \in [Workspace -> RowType(Len(changes))]
        BY <1>3 DEF TypeOK, StoredOK, RowType
      <4>2. ASSUME NEW a \in Request, Update(a)
            PROVE  /\ row'[w].change \in {row[w].change, loc[a].change}
                   /\ OnTrunk(loc[a].change)
        BY <2>3, <4>1, <4>2 DEF Update, RowType, OpsAt, IsLanding
      <4>3. ASSUME NEW a \in Request, ArchiveLanded(a)
            PROVE  \/ row'[w].change = row[w].change
                   \/ row'[w].change = loc[a].change /\ OnTrunk(loc[a].change)
        BY <2>3, <4>1, <4>3 DEF ArchiveLanded, RowType
      <4>4. ASSUME NEW a \in Request,
                   UnsetAll(a) \/ Close(a) \/ SaveAnswer(a) \/ Updated(a)
            PROVE  row'[w].change = row[w].change
        <5>1. CASE UnsetAll(a)
          BY <4>1, <5>1 DEF UnsetAll, RowType
        <5>2. CASE Close(a)
          <6>1. row' = [row EXCEPT ![loc[a].w].open = FALSE] \/ row' = row
            BY <5>2 DEF Close
          <6>. QED BY <4>1, <6>1 DEF RowType
        <5>3. CASE SaveAnswer(a) \/ Updated(a)
          BY <4>1, <5>3 DEF SaveAnswer, Updated, RowType
        <5>. QED BY <4>4, <5>1, <5>2, <5>3
      <4>5. ASSUME NEW a \in Request, NEW v \in Workspace, Unarchive(a, v)
            PROVE  row'[w].change \in {row[w].change, NoChange}
        BY <4>1, <4>5 DEF Unarchive, RowType
      <4>6. row' = row
            \/ \E a \in Request :
                  \/ Update(a) \/ UnsetAll(a) \/ ArchiveLanded(a) \/ Close(a)
                  \/ SaveAnswer(a) \/ Updated(a) \/ \E v \in Workspace : Unarchive(a, v)
        BY StartFrame, RunFrame, EnvironmentFrame DEF Next, vars
      <4>. QED BY <2>2, <2>3, <4>1, <4>2, <4>3, <4>4, <4>5, <4>6
    <3>. QED BY <2>1, <3>1 DEF OnTrunk
  <2>. QED BY <2>4, <2>5 DEF StoredOK
<1>. QED BY <1>2, <1>3
-----------------------------------------------------------------------------
(* The theorems.                                                           *)

LEMMA InitIInv == Init => IInv
<1>. SUFFICES ASSUME Init PROVE IInv
  OBVIOUS
<1>. USE DEF Init
<1>1. /\ Len(onto) = 0 /\ Len(changes) = 0 /\ 0..0 = {0}
      /\ DOMAIN onto = {} /\ DOMAIN changes = {}
  OBVIOUS
<1>2. TypeOK
  <2>1. NewCodebase \in CodebaseType /\ NoLoc \in LocType
    BY DEF NewCodebase, CodebaseType, NoLoc, LocType, Answer, NoChange, Root
  <2>2. pc \in [Request -> PC] /\ loc \in [Request -> LocType]
    BY <2>1 DEF PC
  <2>3. /\ onto \in Seq(Nat) /\ trunk \in Seq(1..Len(onto)) /\ remote \in Seq(1..Len(onto))
        /\ changes \in Seq([commit : 1..Len(onto), parent : 0..Len(changes),
                            ws : Workspace \union {none}])
    OBVIOUS
  <2>4. /\ pushed \in [Workspace -> 0..Len(onto)] /\ draft \in [Workspace -> BOOLEAN]
        /\ row \in [Workspace -> [open : BOOLEAN, upToDate : Answer,
                                  change : 0..Len(changes), archived : BOOLEAN,
                                  unarchived : BOOLEAN]]
    BY <1>1 DEF Root, NoChange, Answer
  <2>5. codebase.head \in 0..Len(changes) /\ codebase \in CodebaseType
    BY <1>1, <2>1 DEF NewCodebase, NoChange
  <2>6. /\ started \in 0..MaxRequests /\ failed \in 0..MaxFailures
        /\ Len(onto) <= MaxCommits
    BY <1>1, LimitsAssumption
  <2>. QED BY <2>2, <2>3, <2>4, <2>5, <2>6 DEF TypeOK
<1>3. Rooted
  BY <1>1 DEF Rooted
<1>4. ASSUME NEW a \in Request PROVE ActorOK(a) /\ FreshOK(a) /\ TrunkOK(a)
  <2>1. pc[a] = "idle" /\ loc[a] = NoLoc
    OBVIOUS
  <2>2. KnownOK(a)
    BY <1>1, <2>1 DEF KnownOK, NoLoc, NewCodebase, NoChange, Root, IsLanding
  <2>. QED BY <2>1, <2>2 DEF ActorOK, PlaceOK, FreshOK, TrunkOK, NoLoc, NewCodebase,
              IsLanding, OpsAt, OnTrunk, Unrecorded
<1>5. StoredOK
  BY DEF StoredOK, OnTrunk, NewCodebase
<1>6. ChangesMirrorCommits
  BY <1>1 DEF ChangesMirrorCommits, OneChangePerCommit, ParentIsParentCommit
<1>. QED BY <1>2, <1>3, <1>4, <1>5, <1>6 DEF IInv, RequestsOK

LEMMA StepIInv == IInv /\ [Next]_vars => IInv'
<1>. SUFFICES ASSUME IInv, [Next]_vars PROVE IInv'
  OBVIOUS
<1>1. /\ TypeOK /\ Rooted /\ RequestsOK /\ StoredOK /\ ChangesMirrorCommits
      /\ \A a \in Request : FreshOK(a)
      /\ \A a \in Request : TrunkOK(a)
  BY DEF IInv
<1>2. TypeOK' /\ Rooted' /\ RequestsOK'
  BY <1>1, StepTypeOK, RootedNext, StepRequests
<1>3. \A a \in Request : FreshOK(a)'
  BY <1>1, StepFresh
<1>4. \A a \in Request : TrunkOK(a)'
  BY <1>1, StepTrunk
<1>5. StoredOK' /\ ChangesMirrorCommits'
  BY <1>1, StepStored, ChangesNext DEF ChangesKept
<1>. QED BY <1>2, <1>3, <1>4, <1>5 DEF IInv

LEMMA Invariant == Spec => []IInv
<1>1. Init => IInv
  BY InitIInv
<1>2. IInv /\ [Next]_vars => IInv'
  BY StepIInv
<1>. QED BY <1>1, <1>2, PTL DEF Spec

(* Every column and every copy of a row has a value of its type; what they *)
(* name exists: no request is about a commit or a change that is not there.*)
THEOREM TypeCorrect == Spec => []TypeOK
<1>1. IInv => TypeOK
  BY DEF IInv
<1>. QED BY <1>1, Invariant, PTL

(* Landings and readers that import commits make one change for each of    *)
(* them, whose parent is the change of the commit's parent, although the   *)
(* insert of a landing checks neither.                                     *)
THEOREM Mirror == Spec => []ChangesMirrorCommits
<1>1. IInv => ChangesMirrorCommits
  BY DEF IInv
<1>. QED BY <1>1, Invariant, PTL

(* Without a remote, a workspace that says which change it has become has  *)
(* its commit on trunk: no refused push and no failure leaves another.     *)
THEOREM Landed == Spec => []LandedIsOnTrunk
<1>1. IInv => LandedIsOnTrunk
  BY DEF IInv, StoredOK, OnTrunk, LandedIsOnTrunk
<1>. QED BY <1>1, Invariant, PTL

(* Without a remote, the codebase's cached head change is one on trunk,    *)
(* whichever stale copy of the row was written last.                       *)
THEOREM CachedHead == Spec => []CachedHeadIsOnTrunk
<1>1. IInv => CachedHeadIsOnTrunk
  BY DEF IInv, StoredOK, OnTrunk, CachedHeadIsOnTrunk
<1>. QED BY <1>1, Invariant, PTL

(* Without a remote, no push and no race of pushes takes a commit off      *)
(* trunk or changes one below its head.                                    *)
THEOREM TrunkGrows == Spec => TrunkOnlyGrows
<1>1. ASSUME IInv, [Next]_vars, ~tracked
      PROVE  /\ Len(trunk') >= Len(trunk)
             /\ \A i \in DOMAIN trunk : trunk'[i] = trunk[i]
  <2>1. /\ trunk \in Seq(1..Len(onto)) /\ Len(trunk) \in Nat
        /\ DOMAIN trunk = 1..Len(trunk) /\ Len(onto) \in Nat
    BY <1>1 DEF IInv, TypeOK
  <2>2. CASE trunk' = trunk
    BY <2>1, <2>2
  <2>3. ASSUME NEW a \in Request, Push(a), trunk' # trunk
        PROVE  trunk' = Append(trunk, loc[a].commit) /\ loc[a].commit \in 1..Len(onto)
    <3>1. ActorOK(a) /\ pc[a] = "push" /\ trunk' = Append(trunk, loc[a].commit)
      BY <1>1, <2>3 DEF Push, IInv, RequestsOK
    <3>2. loc[a].commit \in 0..Len(onto) /\ loc[a].commit # 0
      BY <3>1 DEF ActorOK, KnownOK, PlaceOK, OpsAt, IsLanding, Root
    <3>. QED BY <2>1, <3>1, <3>2
  <2>4. ASSUME NEW a \in Request, Pull(a) PROVE FALSE
    <3>1. pc[a] = "pull" /\ ActorOK(a)
      BY <1>1, <2>4 DEF Pull, IInv, RequestsOK
    <3>. QED BY <1>1, <3>1 DEF ActorOK, KnownOK, PlaceOK, OpsAt
  <2>5. trunk' = trunk \/ \E a \in Request : Push(a) \/ Pull(a)
    BY <1>1, StartFrame, RunFrame, EnvironmentFrame DEF Next, vars, git
  <2>6. CASE \E a \in Request : Push(a) /\ trunk' # trunk
    <3>1. PICK a \in Request : Push(a) /\ trunk' # trunk
      BY <2>6
    <3>. QED BY <2>1, <2>3, <3>1, AppendIn
  <2>. QED BY <2>2, <2>4, <2>5, <2>6
<1>2. IInv /\ [Next]_vars =>
         [~tracked => /\ Len(trunk') >= Len(trunk)
                      /\ \A i \in DOMAIN trunk : trunk'[i] = trunk[i]]_vars
  BY <1>1
<1>. QED BY <1>2, Invariant, PTL DEF Spec, TrunkOnlyGrows
-----------------------------------------------------------------------------
(* The caches.                                                             *)

(* Commits that are made later are above none of those there are.          *)
LEMMA AncestorsSame ==
    ASSUME NEW p, NEW q, Len(p) \in Nat, Len(q) \in Nat, Len(p) <= Len(q),
           \A i \in 1..Len(p) : q[i] = p[i] /\ p[i] \in 0..Len(p),
           NEW c \in 0..Len(p)
    PROVE  Ancestors(p, c) = Ancestors(q, c)
<1>. DEFINE n == Len(p)  m == Len(q)
            Closed(f, S) == c \in S /\ \A e \in S \ {Root} : f[e] \in S
<1>1. /\ Ancestors(p, c) = {d \in 0..n : \A S \in SUBSET (0..n) : Closed(p, S) => d \in S}
      /\ Ancestors(q, c) = {d \in 0..m : \A S \in SUBSET (0..m) : Closed(q, S) => d \in S}
  BY DEF Ancestors
<1>2. 0..n \subseteq 0..m /\ \A e \in (0..n) \ {Root} : q[e] = p[e] /\ p[e] \in 0..n
  BY DEF Root
<1>3. ASSUME NEW d \in Ancestors(p, c) PROVE d \in Ancestors(q, c)
  <2>1. d \in 0..m
    BY <1>1, <1>2, <1>3
  <2>2. ASSUME NEW S \in SUBSET (0..m), Closed(q, S) PROVE d \in S
    <3>1. Closed(p, S \cap (0..n)) /\ S \cap (0..n) \in SUBSET (0..n)
      BY <1>2, <2>2
    <3>. QED BY <1>1, <1>3, <3>1
  <2>. HIDE DEF Closed
  <2>. QED BY <1>1, <2>1, <2>2
<1>4. ASSUME NEW d \in Ancestors(q, c) PROVE d \in Ancestors(p, c)
  <2>1. ASSUME NEW S \in SUBSET (0..n), Closed(p, S) PROVE d \in S
    <3>1. Closed(q, S) /\ S \in SUBSET (0..m)
      BY <1>2, <2>1
    <3>. QED BY <1>1, <1>4, <3>1
  <2>2. Closed(p, 0..n) /\ 0..n \in SUBSET (0..n)
    BY <1>2
  <2>3. d \in 0..n
    BY <2>1, <2>2
  <2>. HIDE DEF Closed
  <2>. QED BY <1>1, <2>1, <2>3
<1>. QED BY <1>3, <1>4

(* So the answer for a workspace changes with trunk and its branch only.   *)
LEMMA AnswerSame ==
    ASSUME TypeOK, Rooted, Grows, TrunkHead' = TrunkHead,
           NEW w \in Workspace, pushed'[w] = pushed[w]
    PROVE  AnswerOf(w)' = AnswerOf(w)
<1>1. /\ onto \in Seq(Nat) /\ Len(onto) \in Nat /\ DOMAIN onto = 1..Len(onto)
      /\ pushed[w] \in 0..Len(onto)
  BY DEF TypeOK
<1>2. ASSUME NEW i \in 1..Len(onto) PROVE onto'[i] = onto[i] /\ onto[i] \in 0..Len(onto)
  <2>1. onto[i] \in Nat /\ onto[i] < i
    BY <1>1 DEF Rooted
  <2>. QED BY <1>1, <2>1 DEF Grows
<1>3. Ancestors(onto, pushed[w]) = Ancestors(onto', pushed[w])
  BY <1>1, <1>2, AncestorsSame DEF Grows
<1>. QED BY <1>3 DEF AnswerOf, IsUpToDate, History

(* The row of a workspace has no other answer than before.                 *)
SameAnswer(w) ==
    \/ row'[w].upToDate = "null" \/ row'[w].archived \/ row'[w].unarchived
    \/ /\ row'[w].upToDate = row[w].upToDate
       /\ ~row[w].archived /\ ~row[w].unarchived

LEMMA AnswerKept ==
    ASSUME TypeOK, Rooted, Grows, TrunkHead' = TrunkHead,
           NEW w \in Workspace, pushed'[w] = pushed[w], SameAnswer(w), AnswerRight(w)
    PROVE  AnswerRight(w)'
<1>1. AnswerOf(w)' = AnswerOf(w)
  BY AnswerSame
<1>. QED BY <1>1 DEF SameAnswer, AnswerRight

LEMMA HeadKept ==
    ASSUME TypeOK, ChangesKept, TrunkHead' = TrunkHead, NEW i \in Nat
    PROVE  IsHead(i) => IsHead(i)'
<1>1. /\ DOMAIN changes = 1..Len(changes) /\ Len(changes) \in Nat
      /\ DOMAIN changes' = 1..Len(changes')
  BY ChangeFacts DEF ChangesKept
<1>2. ASSUME NEW c, i \in ChangeOf(c) PROVE i \in {j \in DOMAIN changes' : changes'[j].commit = c}
  BY <1>1, <1>2 DEF ChangeOf, ChangesKept
<1>. QED BY <1>2 DEF IsHead, ChangeOf

(* A change is that of trunk's head if its commit is.                      *)
LEMMA HeadsChange ==
    ASSUME TypeOK, NEW i \in 1..Len(changes), changes[i].commit = TrunkHead
    PROVE  IsHead(i)
  BY ChangeFacts DEF IsHead, ChangeOf, Root


(* A step that moves neither trunk, a branch nor the codebase's row, and   *)
(* stores no answer, leaves right what is right.                           *)
LEMMA CachesKept ==
    ASSUME TypeOK, Rooted, Grows, ChangesKept, trunk' = trunk, pushed' = pushed
    PROVE  /\ TrunkHead' = TrunkHead
           /\ codebase' = codebase /\ HeadCacheRight => HeadCacheRight'
           /\ \A w \in Workspace : SameAnswer(w) /\ AnswerRight(w) => AnswerRight(w)'
<1>1. TrunkHead' = TrunkHead
  BY DEF TrunkHead
<1>2. codebase.head \in Nat
  BY DEF TypeOK, CodebaseType
<1>3. \A i \in Nat : IsHead(i) => IsHead(i)'
  BY <1>1, HeadKept
<1>4. codebase' = codebase /\ HeadCacheRight => HeadCacheRight'
  BY <1>2, <1>3 DEF HeadCacheRight, IsHead
<1>. QED BY <1>1, <1>4, AnswerKept

(* Where the caches are right before a step, and after it.                 *)
Behind == {"pushBranch", "update", "unsetAll", "readCb", "unsetHead", "saveHead", "updated"}

LEMMA RightHere ==
    ASSUME NEW a \in Request, AtWork(a), pc[a] \notin Behind
    PROVE  HeadCacheRight /\ \A w \in Workspace : AnswerRight(w)
  BY DEF Behind, AtWork, HeadOK, AnswersOK, HasPulled, HasPushed

LEMMA RightThere ==
    ASSUME NEW a \in Request, HeadCacheRight', \A w \in Workspace : AnswerRight(w)',
           pc'[a] \notin Behind \union {"push", "saveSettings", "answer"},
           loc'[a].op = "head" => pc'[a] \notin {"find", "import"}
    PROVE  AtWork(a)'
  BY DEF Behind, AtWork, HeadOK, AnswersOK, SaysOK, HasPushed

(* A request that starts, or is only the unarchiving of a workspace.       *)
LEMMA StartRows ==
    ASSUME TypeOK, NEW a \in Request, StartRequest(a)
    PROVE  /\ trunk' = trunk /\ pushed' = pushed /\ codebase' = codebase
           /\ pc[a] = "idle" /\ \A w \in Workspace : SameAnswer(w)
<1>1. trunk' = trunk /\ pushed' = pushed /\ codebase' = codebase
  BY StartFrame DEF git
<1>2. row' = row => \A w \in Workspace : SameAnswer(w)
  BY DEF SameAnswer
<1>3. ASSUME NEW v \in Workspace, Unarchive(a, v) PROVE \A w \in Workspace : SameAnswer(w)
  BY <1>3 DEF Unarchive, SameAnswer, TypeOK
<1>4. pc[a] = "idle"
  BY DEF StartRequest, PullRemote, HeadChange, ParentChange, Settings, Land, LandTracked,
         CheckUpToDate, Sync, Archive, Unarchive, Begin, CanBegin
<1>. QED BY <1>1, <1>2, <1>3, <1>4, StartFrame

LEMMA StartCaches ==
    ASSUME TypeOK, Rooted, Grows, ChangesKept, NEW a \in Request, StartRequest(a), AtWork(a)
    PROVE  AtWork(a)'
<1>1. /\ trunk' = trunk /\ pushed' = pushed /\ codebase' = codebase
      /\ pc[a] = "idle" /\ \A w \in Workspace : SameAnswer(w)
  BY StartRows
<1>4. HeadCacheRight' /\ \A w \in Workspace : AnswerRight(w)'
  BY <1>1, RightHere, CachesKept DEF Behind
<1>5. CASE Settings(a)
  <2>1. pc'[a] = "saveSettings" /\ loc'[a].cb = codebase' /\ loc'[a].op = "settings"
    BY <1>1, <1>5 DEF Settings, Begin, Goto, TypeOK, NoLoc
  <2>. QED BY <1>4, <2>1 DEF AtWork, HeadOK, AnswersOK, SaysOK, HasPushed
<1>6. CASE \/ PullRemote(a) \/ HeadChange(a) \/ ParentChange(a)
           \/ \E w \in Workspace :
                 \/ Land(a, w) \/ LandTracked(a, w) \/ CheckUpToDate(a, w)
                 \/ Sync(a, w) \/ Archive(a, w) \/ Unarchive(a, w)
  <2>1. /\ pc'[a] \in {"idle", "pull", "headCommit", "find", "commit", "compute",
                       "syncBranch", "archive"}
        /\ pc'[a] = "find" => loc'[a].op = "changelog"
    <3>1. ASSUME NEW l, NEW at, Begin(a, l, at) PROVE pc'[a] = at /\ loc'[a] = l
      BY <3>1 DEF Begin, Goto, TypeOK
    <3>2. CASE PullRemote(a) \/ HeadChange(a)
      BY <3>1, <3>2 DEF PullRemote, HeadChange
    <3>3. CASE ParentChange(a)
      <4>1. PICK i \in DOMAIN changes :
               Begin(a, [NoLoc EXCEPT !.op = "changelog", !.change = i,
                                      !.find = onto[changes[i].commit]], "find")
        BY <3>3 DEF ParentChange
      <4>. DEFINE l == [NoLoc EXCEPT !.op = "changelog", !.change = i,
                                     !.find = onto[changes[i].commit]]
      <4>2. l.op = "changelog"
        BY DEF NoLoc
      <4>. HIDE DEF l
      <4>. QED BY <3>1, <4>1, <4>2 DEF l
    <3>4. ASSUME NEW w \in Workspace,
                 Land(a, w) \/ LandTracked(a, w) \/ CheckUpToDate(a, w)
                 \/ Sync(a, w) \/ Archive(a, w)
          PROVE  pc'[a] \in {"commit", "pull", "compute", "syncBranch", "archive"}
      BY <3>1, <3>4 DEF Land, LandTracked, CheckUpToDate, Sync, Archive
    <3>5. ASSUME NEW w \in Workspace, Unarchive(a, w) PROVE pc'[a] = "idle"
      BY <1>1, <3>5 DEF Unarchive
    <3>. QED BY <1>6, <3>2, <3>3, <3>4, <3>5
  <2>. QED BY <1>4, <2>1, RightThere DEF Behind
<1>. QED BY <1>5, <1>6 DEF StartRequest


(* Steps at which the caches are right before and after, and that say      *)
(* nothing new of trunk.                                                   *)
LEMMA PlainCaches ==
    ASSUME TypeOK, Rooted, Grows, ChangesKept, NEW a \in Request, ActorOK(a), AtWork(a),
           \/ CommitNothing(a) \/ Commit(a) \/ ArchiveLanded(a) \/ Close(a) \/ PushTrunk(a)
           \/ SetParent(a) \/ SaveSettings(a) \/ (Push(a) /\ Finish(a))
           \/ (Find(a) \/ Import(a)) /\ loc[a].op # "head"
    PROVE  AtWork(a)'
<1>. USE DEF TypeOK
<1>1. loc[a].op \in OpsAt(pc[a]) /\ (pc[a] = "saveSettings" => loc[a].cb = codebase)
  BY DEF ActorOK, PlaceOK, AtWork, SaysOK
<1>2. ASSUME Finish(a) PROVE pc'[a] = "idle" /\ loc'[a].op = "none"
  BY <1>2 DEF Finish, Goto, NoLoc
<1>3. trunk' = trunk /\ pushed' = pushed /\ pc[a] \notin Behind
  BY <1>2 DEF Behind, CommitNothing, Commit, ArchiveLanded, Close, PushTrunk, SetParent,
         SaveSettings, Push, Find, Import, git, Goto, Finish
<1>4. \A w \in Workspace : SameAnswer(w)
  <2>1. CASE row' = row
    BY <2>1 DEF SameAnswer
  <2>2. CASE ArchiveLanded(a)
    BY <2>2 DEF ArchiveLanded, SameAnswer
  <2>3. CASE Close(a)
    <3>1. row' = row \/ row' = [row EXCEPT ![loc[a].w].open = FALSE]
      BY <2>3 DEF Close
    <3>2. row \in [Workspace -> RowType(Len(changes))]
      BY DEF RowType
    <3>3. \A w \in Workspace :
             /\ row'[w].upToDate = row[w].upToDate /\ row'[w].archived = row[w].archived
             /\ row'[w].unarchived = row[w].unarchived
      BY ONLY <3>1, <3>2 DEF RowType
    <3>. QED BY <3>3 DEF SameAnswer
  <2>4. CASE \/ CommitNothing(a) \/ Commit(a) \/ PushTrunk(a) \/ SetParent(a)
             \/ SaveSettings(a) \/ Push(a) \/ Find(a) \/ Import(a)
    BY <2>1, <2>4 DEF CommitNothing, Commit, PushTrunk, SetParent, SaveSettings, Push, Find,
           Import
  <2>. QED BY <2>2, <2>3, <2>4
<1>5. codebase' = codebase
  BY <1>1 DEF CommitNothing, Commit, ArchiveLanded, Close, PushTrunk, SetParent,
         SaveSettings, Push, Find, Import
<1>6. HeadCacheRight' /\ \A w \in Workspace : AnswerRight(w)'
  BY <1>3, <1>4, <1>5, RightHere, CachesKept
<1>7. /\ pc'[a] \notin Behind \union {"push", "saveSettings", "answer"}
      /\ loc'[a].op = "head" => pc'[a] \notin {"find", "import"}
  <2>1. CASE Finish(a)
    BY <1>2, <2>1 DEF Behind
  <2>2. CASE Commit(a)
    <3>1. pc'[a] = "find" /\ loc'[a].op = loc[a].op /\ loc[a].op # "head"
      BY <1>1, <2>2, CommitNext DEF Commit, OpsAt
    <3>. QED BY <3>1 DEF Behind
  <2>3. CASE (Find(a) \/ Import(a)) /\ loc[a].op # "head"
    <3>1. loc[a].op \in {"land", "tracked", "changelog"}
      BY <1>1, <2>3 DEF Find, Import, OpsAt
    <3>2. ASSUME NEW i, Found(a, i)
          PROVE  pc'[a] \in {"insert", "setParent"} /\ loc'[a].op = loc[a].op
      <4>1. loc[a] \in LocType /\ loc \in [Request -> LocType] /\ pc \in [Request -> PC]
        OBVIOUS
      <4>2. \/ loc' = [loc EXCEPT ![a].parent = i] /\ Goto(a, "insert")
            \/ loc' = [loc EXCEPT ![a].parent = i] /\ Goto(a, "setParent")
        BY <3>1, <3>2 DEF Found, IsLanding
      <4>. QED BY ONLY <4>1, <4>2, a \in Request DEF Goto, LocType
    <3>3. (Goto(a, "import") /\ loc' = loc) \/ Finish(a) \/ \E i : Found(a, i)
      BY <2>3 DEF Find, Import
    <3>4. CASE Goto(a, "import") /\ loc' = loc
      BY <3>1, <3>4 DEF Goto, Behind
    <3>. QED BY <2>1, <3>1, <3>2, <3>3, <3>4 DEF Behind
  <2>4. CASE ArchiveLanded(a) \/ Close(a)
    <3>1. CASE Goto(a, "close") \/ Goto(a, "pushTrunk")
      BY <3>1 DEF Goto, Behind
    <3>. QED BY <2>1, <2>4, <3>1 DEF ArchiveLanded, Close
  <2>. QED BY <2>1, <2>2, <2>3, <2>4 DEF CommitNothing, PushTrunk, SetParent, SaveSettings
<1>. QED BY <1>6, <1>7, RightThere

(* HeadChange: from trunk's head to its change.                            *)
LEMMA HeadCaches ==
    ASSUME TypeOK, Rooted, Grows, ChangesKept, NEW a \in Request, ActorOK(a), AtWork(a),
           HeadCommit(a) \/ ((Find(a) \/ Import(a)) /\ loc[a].op = "head")
    PROVE  AtWork(a)'
<1>. USE DEF TypeOK
<1>1. /\ loc[a].op = "head" /\ pc[a] \notin Behind
      /\ pc[a] \in {"find", "import"} => loc[a].find = TrunkHead
      /\ pc[a] = "import" => loc[a].find # Root
  BY DEF ActorOK, PlaceOK, AtWork, SaysOK, HeadCommit, Find, Import, OpsAt, Behind
<1>2. trunk' = trunk /\ pushed' = pushed /\ codebase' = codebase /\ row' = row
  BY DEF HeadCommit, Find, Import, git
<1>3. TrunkHead' = TrunkHead /\ HeadCacheRight' /\ \A w \in Workspace : AnswerRight(w)'
  BY <1>1, <1>2, RightHere, CachesKept DEF SameAnswer
<1>4. CASE pc'[a] \in {"find", "import"} /\ loc'[a].find = TrunkHead
  BY <1>3, <1>4 DEF AtWork, HeadOK, AnswersOK, SaysOK, HasPushed
<1>5. ASSUME NEW i \in Nat, Found(a, i), IsHead(i)' PROVE AtWork(a)'
  <2>1. pc'[a] = "saveHead" /\ loc'[a].change = i /\ loc'[a].op = "head"
    BY <1>1, <1>5 DEF Found, IsLanding, Goto, LocType
  <2>2. IsHead(loc[a].change)'
    BY <1>5, <2>1 DEF IsHead
  <2>. QED BY <1>3, <2>1, <2>2 DEF AtWork, HeadOK, AnswersOK, SaysOK, HasPushed, IsLanding
<1>6. CASE HeadCommit(a)
  <2>1. pc'[a] = "find" /\ loc'[a].find = TrunkHead
    BY <1>6 DEF HeadCommit, Goto, LocType
  <2>. QED BY <1>4, <2>1
<1>7. CASE Find(a)
  <2>1. CASE loc[a].find = Root /\ Found(a, NoChange)
    <3>1. TrunkHead' = Root /\ NoChange \in Nat
      BY <1>1, <1>3, <1>7, <2>1 DEF Find, NoChange
    <3>2. IsHead(NoChange)'
      BY <3>1 DEF IsHead
    <3>. QED BY <1>5, <2>1, <3>1, <3>2
  <2>2. ASSUME NEW i \in ChangeOf(loc[a].find), Found(a, i) PROVE AtWork(a)'
    <3>1. i \in DOMAIN changes /\ changes[i].commit = loc[a].find /\ loc[a].find = TrunkHead
      BY <1>1, <1>7, <2>2 DEF Find, ChangeOf
    <3>2. i \in 1..Len(changes) /\ i \in Nat
      <4>1. DOMAIN changes = 1..Len(changes) /\ Len(changes) \in Nat
        BY ChangeFacts
      <4>. QED BY ONLY <3>1, <4>1
    <3>3. IsHead(i)'
      BY <1>3, <3>1, <3>2, HeadsChange, HeadKept
    <3>. QED BY <1>5, <2>2, <3>2, <3>3
  <2>3. CASE Goto(a, "import") /\ loc' = loc
    BY <1>1, <1>4, <1>7, <2>3 DEF Find, Goto
  <2>. QED BY <1>7, <2>1, <2>2, <2>3 DEF Find
<1>8. CASE Import(a)
  <2>1. CASE Finish(a)
    <3>1. pc'[a] = "idle"
      BY <2>1 DEF Finish, Goto
    <3>. QED BY <1>3, <3>1, RightThere DEF Behind
  <2>2. CASE CanInsert(loc[a].find)
    <3>. DEFINE new == [commit |-> loc[a].find, parent |-> NoChange, ws |-> none]
    <3>0. PICK n \in Nat : n = Len(changes)
      BY ChangeFacts
    <3>1. changes' = Append(changes, new) /\ Found(a, n + 1) /\ n + 1 \in Nat
      BY <1>8, <2>2, <3>0 DEF Import
    <3>. HIDE DEF new
    <3>2. changes \in Seq(ChangeRow(Len(onto), n) \union {new})
      <4>1. changes \in Seq(ChangeRow(Len(onto), n))
        BY <3>0, ChangeFacts
      <4>. QED BY <4>1, SeqWiden
    <3>3. /\ DOMAIN changes' = 1..Len(changes') /\ Len(changes') = n + 1
          /\ changes'[n + 1] = new
      BY <3>0, <3>1, <3>2, AppendIn DEF ChangesKept
    <3>4. n + 1 \in ChangeOf(TrunkHead)'
      BY <1>1, <1>3, <1>8, <3>0, <3>1, <3>3 DEF Import, ChangeOf, new
    <3>5. IsHead(n + 1)'
      BY <1>1, <1>3, <1>8, <3>4 DEF Import, IsHead
    <3>. QED BY <1>5, <3>1, <3>5
  <2>. QED BY <1>8, <2>1, <2>2 DEF Import
<1>. QED BY <1>6, <1>7, <1>8


(* Asking whether a workspace is up to date.                               *)
LEMMA AnswerCaches ==
    ASSUME TypeOK, Rooted, Grows, ChangesKept, NEW a \in Request, ActorOK(a), AtWork(a),
           Compute(a) \/ SaveAnswer(a)
    PROVE  AtWork(a)'
<1>. USE DEF TypeOK
<1>1. /\ loc[a].op = "check" /\ pc[a] \notin Behind /\ loc[a].w \in Workspace
      /\ pc[a] = "answer" => loc[a].answer = AnswerOf(loc[a].w)
  BY DEF ActorOK, KnownOK, PlaceOK, AtWork, SaysOK, Compute, SaveAnswer, OpsAt, Behind
<1>2. trunk' = trunk /\ pushed' = pushed /\ codebase' = codebase
  BY DEF Compute, SaveAnswer, git
<1>3. PICK w \in Workspace : w = loc[a].w
  BY <1>1
<1>4. TrunkHead' = TrunkHead /\ HeadCacheRight' /\ AnswerOf(w)' = AnswerOf(w)
  BY <1>1, <1>2, RightHere, CachesKept, AnswerSame
<1>5. CASE Compute(a)
  <2>1. /\ pc'[a] = "answer" /\ loc'[a].answer = AnswerOf(w) /\ loc'[a].w = w
        /\ loc'[a].op = "check" /\ row' = row
    BY <1>1, <1>3, <1>5 DEF Compute, Goto, LocType, AnswerOf
  <2>2. \A v \in Workspace : AnswerRight(v)'
    BY <1>1, <1>2, <2>1, RightHere, CachesKept DEF SameAnswer
  <2>3. loc'[a].answer = AnswerOf(loc[a].w)'
    BY <1>4, <2>1 DEF AnswerOf
  <2>. QED BY <1>4, <2>1, <2>2, <2>3 DEF AtWork, HeadOK, AnswersOK, SaysOK, HasPushed
<1>6. CASE SaveAnswer(a)
  <2>1. pc'[a] = "idle" /\ row' = [row EXCEPT ![w].upToDate = loc[a].answer]
    BY <1>3, <1>6 DEF SaveAnswer, Finish, Goto
  <2>2. row \in [Workspace -> RowType(Len(changes))]
    BY DEF RowType
  <2>3. /\ row'[w].upToDate = loc[a].answer
        /\ \A v \in Workspace : v # w => row'[v] = row[v]
    BY <2>1, <2>2 DEF RowType
  <2>4. AnswerRight(w)'
    BY <1>1, <1>3, <1>4, <1>6, <2>3 DEF AnswerRight, SaveAnswer
  <2>5. ASSUME NEW v \in Workspace, v # w PROVE AnswerRight(v)'
    BY <1>1, <1>2, <2>3, <2>5, RightHere, CachesKept DEF SameAnswer
  <2>. QED BY <1>4, <2>1, <2>4, <2>5, RightThere DEF Behind
<1>. QED BY <1>5, <1>6

(* A sync moves the branch, and clears the answer before it ends.          *)
LEMMA SyncCaches ==
    ASSUME TypeOK, Rooted, Grows, ChangesKept, NEW a \in Request, ActorOK(a), AtWork(a),
           SyncBranch(a) \/ Updated(a)
    PROVE  AtWork(a)'
<1>. USE DEF TypeOK
<1>1. PICK w \in Workspace : w = loc[a].w
  BY DEF ActorOK, KnownOK, PlaceOK, SyncBranch, Updated, OpsAt
<1>2. trunk' = trunk /\ TrunkHead' = TrunkHead /\ codebase' = codebase /\ changes' = changes
  BY DEF SyncBranch, Updated, git, TrunkHead
<1>3. HeadCacheRight /\ \A v \in Workspace : v # w => AnswerRight(v)
  BY <1>1 DEF AtWork, HeadOK, AnswersOK, HasPulled, HasPushed, SyncBranch, Updated
<1>4. HeadCacheRight'
  BY <1>2, <1>3 DEF HeadCacheRight, ChangeOf
<1>5. \A v \in Workspace : v # w => SameAnswer(v) /\ pushed'[v] = pushed[v]
  BY <1>1 DEF SyncBranch, Updated, SameAnswer, git
<1>6. \A v \in Workspace : v # w => AnswerRight(v)'
  BY <1>2, <1>3, <1>5, AnswerKept
<1>7. CASE SyncBranch(a)
  <2>1. pc'[a] = "updated" /\ loc'[a].w = w /\ loc'[a].op = "sync"
    BY <1>1, <1>7 DEF SyncBranch, Goto, ActorOK, PlaceOK, OpsAt
  <2>. QED BY <1>4, <1>6, <2>1 DEF AtWork, HeadOK, AnswersOK, SaysOK, HasPushed
<1>8. CASE Updated(a)
  <2>1. pc'[a] = "idle" /\ row'[w].upToDate = "null"
    BY <1>1, <1>8 DEF Updated, Finish, Goto
  <2>2. AnswerRight(w)'
    BY <2>1 DEF AnswerRight
  <2>. QED BY <1>4, <1>6, <2>1, <2>2, RightThere DEF Behind
<1>. QED BY <1>7, <1>8


(* A landing from the insert to the archive.                               *)
LEMMA LandCaches ==
    ASSUME TypeOK, Rooted, Grows, ChangesKept, NEW a \in Request, ActorOK(a), AtWork(a),
           \/ Insert(a) \/ (Push(a) /\ ~Finish(a)) \/ PushBranch(a) \/ Update(a)
    PROVE  AtWork(a)'
<1>. USE DEF TypeOK
<1>1. IsLanding(a) /\ (pc[a] # "insert" => loc[a].change # NoChange)
  BY DEF ActorOK, PlaceOK, AtWork, SaysOK, Insert, Push, PushBranch, Update, OpsAt, IsLanding
<1>2. CASE Insert(a)
  <2>1. trunk' = trunk /\ pushed' = pushed /\ codebase' = codebase /\ row' = row
    BY <1>2 DEF Insert, git
  <2>2. HeadCacheRight' /\ \A w \in Workspace : AnswerRight(w)'
    BY <1>2, <2>1, RightHere, CachesKept DEF Insert, Behind, SameAnswer
  <2>3. pc'[a] = "push" /\ loc'[a].op = loc[a].op /\ loc'[a].change # NoChange
    <3>1. Len(changes) \in Nat /\ loc' = [loc EXCEPT ![a].change = Len(changes) + 1]
      BY <1>2, ChangeFacts DEF Insert
    <3>2. loc[a] \in LocType /\ loc \in [Request -> LocType]
      OBVIOUS
    <3>3. loc'[a].op = loc[a].op /\ loc'[a].change = Len(changes) + 1
      BY ONLY <3>1, <3>2, a \in Request DEF LocType
    <3>4. pc'[a] = "push"
      BY <1>2 DEF Insert, Goto
    <3>. QED BY <3>1, <3>3, <3>4 DEF NoChange
  <2>. QED BY <1>1, <2>2, <2>3 DEF AtWork, HeadOK, AnswersOK, SaysOK, HasPushed, IsLanding
<1>3. CASE Push(a) /\ ~Finish(a)
  <2>1. /\ trunk' = Append(trunk, loc[a].commit) /\ loc' = loc /\ pc[a] = "push"
        /\ pc'[a] = "pushBranch"
    BY <1>3 DEF Push, Goto
  <2>2. loc[a].commit \in 1..Len(onto)
    BY <1>1, <2>1 DEF ActorOK, KnownOK, PlaceOK, Root, Unrecorded
  <2>3. TrunkHead' = loc[a].commit
    <3>1. trunk \in Seq(1..Len(onto))
      OBVIOUS
    <3>2. /\ Len(trunk') = Len(trunk) + 1 /\ trunk'[Len(trunk) + 1] = loc[a].commit
          /\ Len(trunk) \in Nat
      BY <2>1, <2>2, <3>1, AppendIn
    <3>3. trunk' # <<>>
      BY <3>2
    <3>. QED BY <3>2, <3>3 DEF TrunkHead, HeadOf
  <2>. QED BY <1>1, <2>1, <2>3
       DEF AtWork, HeadOK, AnswersOK, SaysOK, HasPushed, IsLanding
<1>4. CASE PushBranch(a) \/ Update(a)
  <2>1. /\ trunk' = trunk /\ loc' = loc /\ pc[a] \in {"pushBranch", "update"}
        /\ pc'[a] \in {"update", "unsetAll"}
    BY <1>4 DEF PushBranch, Update, Goto, git
  <2>2. TrunkHead' = TrunkHead /\ TrunkHead = loc[a].commit
    BY <1>1, <2>1 DEF TrunkHead, AtWork, SaysOK, HasPushed
  <2>. QED BY <1>1, <2>1, <2>2
       DEF AtWork, HeadOK, AnswersOK, SaysOK, HasPushed, IsLanding
<1>. QED BY <1>2, <1>3, <1>4

(* Clearing the answers; the row of the codebase is read.                  *)
LEMMA ClearCaches ==
    ASSUME TypeOK, Rooted, Grows, ChangesKept, NEW a \in Request, ActorOK(a), AtWork(a),
           UnsetAll(a) \/ ReadCodebase(a)
    PROVE  AtWork(a)'
<1>. USE DEF TypeOK
<1>1. loc[a].op \in {"land", "tracked", "pull"} /\ (loc[a].op = "pull" => loc[a].change = NoChange)
  BY DEF ActorOK, KnownOK, PlaceOK, UnsetAll, ReadCodebase, OpsAt
<1>2. /\ trunk' = trunk /\ pushed' = pushed /\ codebase' = codebase /\ changes' = changes
      /\ TrunkHead' = TrunkHead
  BY DEF UnsetAll, ReadCodebase, git, TrunkHead
<1>3. HeadCacheRight => HeadCacheRight'
  BY <1>2, CachesKept
<1>4. loc[a].change # NoChange =>
         /\ IsLanding(a) /\ TrunkHead = loc[a].commit
  BY <1>1 DEF IsLanding, AtWork, SaysOK, HasPushed, UnsetAll, ReadCodebase
<1>5. CASE UnsetAll(a)
  <2>1. \A w \in Workspace : AnswerRight(w)'
    <3>1. row \in [Workspace -> RowType(Len(changes))]
      BY DEF RowType
    <3>2. row' = [w \in Workspace |-> IF row[w].archived THEN row[w]
                                      ELSE [row[w] EXCEPT !.upToDate = "null"]]
      BY <1>5 DEF UnsetAll
    <3>3. \A w \in Workspace : row'[w].archived \/ row'[w].upToDate = "null"
      BY ONLY <3>1, <3>2 DEF RowType
    <3>. QED BY <3>3 DEF AnswerRight
  <2>2. CASE loc[a].change # NoChange
    <3>1. pc'[a] = "readCb" /\ loc' = loc
      BY <1>1, <1>5, <2>2 DEF UnsetAll, Goto
    <3>. QED BY <1>2, <1>4, <2>1, <2>2, <3>1
         DEF AtWork, HeadOK, AnswersOK, SaysOK, HasPushed, HasPulled, IsLanding
  <2>3. CASE loc[a].change = NoChange
    <3>1. HeadCacheRight'
      BY <1>3, <1>5, <2>3 DEF AtWork, HeadOK, HasPushed, HasPulled, UnsetAll
    <3>2. pc'[a] \in {"idle", "commit"}
      BY <1>1, <1>5, <2>3 DEF UnsetAll, Goto, Finish
    <3>. QED BY <2>1, <3>1, <3>2, RightThere DEF Behind
  <2>. QED BY <2>2, <2>3
<1>6. CASE ReadCodebase(a)
  <2>1. /\ pc[a] = "readCb" /\ row' = row
        /\ pc'[a] = IF loc[a].change # NoChange THEN "saveHead" ELSE "unsetHead"
        /\ loc'[a].op = loc[a].op /\ loc'[a].change = loc[a].change
        /\ loc'[a].commit = loc[a].commit
    BY <1>6 DEF ReadCodebase, Goto, LocType
  <2>2. CASE loc[a].change # NoChange
    <3>1. \A w \in Workspace : AnswerRight(w)'
      <4>1. \A w \in Workspace : AnswerRight(w)
        BY <2>1, <2>2 DEF AtWork, AnswersOK, HasPulled
      <4>. QED BY <1>2, <2>1, <4>1, CachesKept DEF SameAnswer
    <3>2. loc[a].op # "head"
      BY <1>1
    <3>. QED BY <1>2, <1>4, <2>1, <2>2, <3>1, <3>2
         DEF AtWork, HeadOK, AnswersOK, SaysOK, HasPushed, HasPulled, IsLanding
  <2>3. CASE loc[a].change = NoChange
    BY <1>1, <2>1, <2>3
    DEF AtWork, HeadOK, AnswersOK, SaysOK, HasPushed, HasPulled, IsLanding
  <2>. QED BY <2>2, <2>3
<1>. QED BY <1>5, <1>6

(* The codebase's row is written; trunk is pulled.                         *)
LEMMA RowCaches ==
    ASSUME TypeOK, Rooted, Grows, ChangesKept, NEW a \in Request, ActorOK(a), AtWork(a),
           SaveHead(a) \/ UnsetHead(a) \/ Pull(a)
    PROVE  AtWork(a)'
<1>. USE DEF TypeOK
<1>1. CASE SaveHead(a)
  <2>1. /\ trunk' = trunk /\ pushed' = pushed /\ row' = row /\ changes' = changes
        /\ pc[a] = "saveHead" /\ TrunkHead' = TrunkHead
        /\ codebase'.head = loc[a].change
    BY <1>1 DEF SaveHead, git, TrunkHead, LocType, CodebaseType
  <2>2. \A w \in Workspace : AnswerRight(w)'
    <3>1. \A w \in Workspace : AnswerRight(w)
      BY <2>1 DEF AtWork, AnswersOK, HasPulled
    <3>. QED BY <2>1, <3>1, CachesKept DEF SameAnswer
  <2>3. loc[a].op \in {"land", "tracked", "head"}
    BY <2>1 DEF ActorOK, PlaceOK, OpsAt
  <2>4. IsHead(loc[a].change)
    <3>1. CASE loc[a].op = "head"
      BY <2>1, <3>1 DEF AtWork, SaysOK
    <3>2. CASE IsLanding(a)
      <4>1. loc[a].change # NoChange /\ TrunkHead = loc[a].commit
        BY <2>1, <3>2 DEF AtWork, SaysOK, HasPushed
      <4>2. loc[a].change \in 0..Len(changes) /\ changes[loc[a].change].commit = loc[a].commit
        BY <3>2, <4>1 DEF ActorOK, KnownOK, IsChangeOf
      <4>3. loc[a].change \in 1..Len(changes)
        BY <4>1, <4>2, ChangeFacts DEF NoChange
      <4>. QED BY <4>1, <4>2, <4>3, HeadsChange
    <3>. QED BY <2>3, <3>1, <3>2 DEF IsLanding
  <2>5. HeadCacheRight'
    BY <2>1, <2>4 DEF HeadCacheRight, IsHead, ChangeOf
  <2>6. pc'[a] \in {"idle", "archive"}
    BY <1>1 DEF SaveHead, Goto, Finish
  <2>. QED BY <2>2, <2>5, <2>6, RightThere DEF Behind
<1>2. CASE UnsetHead(a)
  <2>1. /\ pc'[a] = "unsetAll" /\ loc' = loc /\ codebase'.known = FALSE
        /\ loc[a].op # "head" /\ loc[a].change = NoChange
    BY <1>2 DEF UnsetHead, Goto, LocType, CodebaseType, AtWork, SaysOK, ActorOK, PlaceOK, OpsAt
  <2>2. HeadCacheRight'
    BY <2>1 DEF HeadCacheRight
  <2>. QED BY <2>1, <2>2 DEF AtWork, HeadOK, AnswersOK, SaysOK, HasPushed
<1>3. CASE Pull(a)
  <2>1. pc'[a] = "readCb" /\ loc' = loc /\ loc[a].change = NoChange
    BY <1>3 DEF Pull, Goto, ActorOK, KnownOK, PlaceOK, OpsAt, IsLanding
  <2>. QED BY <2>1 DEF AtWork, HeadOK, AnswersOK, SaysOK, HasPushed, HasPulled
<1>. QED BY <1>1, <1>2, <1>3


-----------------------------------------------------------------------------
(* One request at a time.                                                  *)

(* A step makes one request busy at most.                                  *)
LEMMA BusyNext ==
    ASSUME TypeOK, RequestsOK, [Next]_vars, IsFiniteSet(Busy)
    PROVE  /\ IsFiniteSet(Busy')
           /\ \A a \in Request : Step(a) => Busy' \subseteq Busy \union {a}
           /\ pc' = pc \/ \E a \in Request : Step(a)
<1>1. ASSUME NEW a \in Request, Step(a) PROVE Busy' \subseteq Busy \union {a}
  BY <1>1, Others DEF Busy
<1>2. pc' = pc \/ \E a \in Request : Step(a)
  BY EnvironmentFrame DEF Next, Step, vars
<1>3. CASE pc' = pc
  <2>1. Busy' = Busy
    BY <1>3 DEF Busy
  <2>. QED BY <1>1, <1>2, <2>1
<1>4. ASSUME NEW a \in Request, Step(a) PROVE IsFiniteSet(Busy')
  <2>1. IsFiniteSet(Busy \union {a})
    BY FS_AddElement
  <2>. QED BY <1>1, <1>4, <2>1, FS_Subset
<1>. QED BY <1>1, <1>2, <1>3, <1>4

(* If nobody has overlapped after a step nobody had before it, and the     *)
(* step has left one request busy, or none.                                *)
LEMMA AloneNext ==
    ASSUME TypeOK, RequestsOK, [Next]_vars, IsFiniteSet(Busy), Alone'
    PROVE  /\ Alone /\ \A a \in Request : ~Fail(a)
           /\ vars' # vars => \A a, b \in Busy' : a = b
<1>1. failed \in Nat /\ overlap \in BOOLEAN /\ overlap' = FALSE /\ failed' = 0
  BY LimitsAssumption DEF TypeOK, Alone
<1>2. failed = 0 /\ \A a \in Request : ~Fail(a)
  <2>1. ASSUME NEW a \in Request, Fail(a) PROVE FALSE
    BY <1>1, <2>1 DEF Fail
  <2>2. failed' = failed \/ \E a \in Request : Fail(a)
    <3>1. ASSUME NEW a \in Request, StartRequest(a) PROVE failed' = failed
      BY <3>1 DEF StartRequest, PullRemote, HeadChange, ParentChange, Settings, Land,
             LandTracked, CheckUpToDate, Sync, Archive, Unarchive, Begin
    <3>. QED BY <3>1, RunFrame, EnvironmentFrame DEF Next, vars
  <2>. QED BY <1>1, <2>1, <2>2
<1>3. CASE vars' = vars
  BY <1>1, <1>2, <1>3 DEF vars, Alone
<1>4. CASE Next
  <2>1. overlap = FALSE /\ ~(Cardinality(Busy') > 1)
    BY <1>1, <1>4 DEF Next
  <2>2. IsFiniteSet(Busy')
    BY BusyNext
  <2>3. ASSUME NEW a \in Busy', NEW b \in Busy', a # b PROVE FALSE
    <3>1. IsFiniteSet({a}) /\ Cardinality({a}) = 1
      BY FS_Singleton
    <3>2. IsFiniteSet({a} \union {b}) /\ Cardinality({a} \union {b}) = 2
      <4>1. b \notin {a}
        BY <2>3
      <4>2. IsFiniteSet({a} \union {b}) /\ Cardinality({a} \union {b}) = Cardinality({a}) + 1
        BY <3>1, <4>1, FS_AddElement
      <4>. QED BY <3>1, <4>2
    <3>3. Cardinality({a} \union {b}) <= Cardinality(Busy')
      BY <2>2, FS_Subset
    <3>4. Cardinality(Busy') \in Nat
      BY <2>2, FS_CardinalityType
    <3>. QED BY <2>1, <3>2, <3>3, <3>4
  <2>. QED BY <1>2, <2>1, <2>3 DEF Alone
<1>. QED BY <1>3, <1>4

(* A request that is busy alone keeps its word.                            *)
LEMMA RunCaches ==
    ASSUME IInv, [Next]_vars, NEW a \in Request, StartRequest(a) \/ Run(a), AtWork(a)
    PROVE  AtWork(a)'
<1>1. TypeOK /\ Rooted /\ ActorOK(a) /\ Grows /\ ChangesKept
  BY Growth, ChangesNext DEF IInv, RequestsOK
<1>2. CASE LandStep(a)
  <2>1. CASE Find(a) \/ Import(a)
    BY <1>1, <2>1, PlainCaches, HeadCaches
  <2>2. CASE Push(a)
    BY <1>1, <2>2, PlainCaches, LandCaches
  <2>3. CASE UnsetAll(a) \/ ReadCodebase(a) \/ SaveHead(a)
    BY <1>1, <2>3, ClearCaches, RowCaches
  <2>4. CASE Insert(a) \/ PushBranch(a) \/ Update(a)
    BY <1>1, <2>4, LandCaches
  <2>5. CASE CommitNothing(a) \/ Commit(a) \/ ArchiveLanded(a) \/ Close(a) \/ PushTrunk(a)
    BY <1>1, <2>5, PlainCaches
  <2>. QED BY <1>2, <2>1, <2>2, <2>3, <2>4, <2>5 DEF LandStep
<1>3. CASE HeadCommit(a) \/ SetParent(a)
  <2>1. CASE HeadCommit(a)
    BY <1>1, <2>1, HeadCaches
  <2>2. CASE SetParent(a)
    BY <1>1, <2>2, PlainCaches
  <2>. QED BY <1>3, <2>1, <2>2
<1>4. CASE Compute(a) \/ SaveAnswer(a)
  BY <1>1, <1>4, AnswerCaches
<1>5. CASE Pull(a) \/ UnsetHead(a) \/ SaveSettings(a)
  BY <1>1, <1>5, RowCaches, PlainCaches
<1>6. CASE SyncBranch(a) \/ Updated(a)
  BY <1>1, <1>6, SyncCaches
<1>7. CASE StartRequest(a)
  BY <1>1, <1>7, StartCaches
<1>. QED BY <1>2, <1>3, <1>4, <1>5, <1>6, <1>7 DEF Run, ReadStep, OtherStep

(* Whoever is at rest finds the caches right, and leaves them so.          *)
LEMMA AtRest ==
    ASSUME NEW a \in Request, pc[a] = "idle"
    PROVE  AtWork(a) <=> HeadCacheRight /\ UpToDateRight
  BY DEF AtWork, HeadOK, AnswersOK, SaysOK, HasPulled, HasPushed, UpToDateRight, AnswerRight,
         AnswerOf

LEMMA AtRestNext ==
    ASSUME NEW a \in Request, pc'[a] = "idle", AtWork(a)'
    PROVE  (HeadCacheRight /\ UpToDateRight)'
  BY DEF AtWork, HeadOK, AnswersOK, SaysOK, HasPulled, HasPushed, UpToDateRight, AnswerRight,
         AnswerOf


(* A request that does nothing while the caches stay as they are.          *)
LEMMA Aside ==
    ASSUME IInv, [Next]_vars, NEW b \in Request, AtWork(b),
           trunk' = trunk, pushed' = pushed, codebase' = codebase,
           \A w \in Workspace : SameAnswer(w), pc'[b] = pc[b], loc'[b] = loc[b]
    PROVE  AtWork(b)'
<1>1. TypeOK /\ Rooted /\ ActorOK(b) /\ Grows /\ ChangesKept
  BY Growth, ChangesNext DEF IInv, RequestsOK
<1>2. /\ TrunkHead' = TrunkHead /\ (HeadCacheRight => HeadCacheRight')
      /\ \A w \in Workspace : AnswerRight(w) => AnswerRight(w)'
  BY <1>1, CachesKept
<1>3. IsLanding(b)' = IsLanding(b) /\ HasPulled(b)' = HasPulled(b) /\ HasPushed(b)' = HasPushed(b)
  BY DEF IsLanding, HasPulled, HasPushed
<1>4. HeadOK(b)' /\ AnswersOK(b)'
  BY <1>2, <1>3 DEF AtWork, HeadOK, AnswersOK
<1>5. IsHead(loc[b].change) => IsHead(loc[b].change)'
  <2>1. PICK i \in Nat : i = loc[b].change
    BY <1>1 DEF ActorOK, KnownOK, TypeOK, LocType
  <2>2. IsHead(i) => IsHead(i)'
    BY <1>1, <1>2, HeadKept
  <2>. QED BY <2>1, <2>2 DEF IsHead
<1>6. pc[b] = "answer" => AnswerOf(loc[b].w)' = AnswerOf(loc[b].w)
  <2>1. ASSUME pc[b] = "answer" PROVE loc[b].w \in Workspace
    BY <1>1, <2>1 DEF ActorOK, KnownOK, PlaceOK, OpsAt
  <2>2. \A w \in Workspace : AnswerOf(w)' = AnswerOf(w)
    BY <1>1, <1>2, AnswerSame
  <2>. QED BY <2>1, <2>2 DEF AnswerOf, IsUpToDate
<1>7. SaysOK(b)'
  BY <1>2, <1>3, <1>5, <1>6 DEF AtWork, SaysOK
<1>. QED BY <1>4, <1>7 DEF AtWork

LEMMA RunsBusy ==
    ASSUME NEW a \in Request, Run(a)
    PROVE  pc[a] # "idle"
<1>1. CASE LandStep(a)
  BY <1>1 DEF LandStep, CommitNothing, Commit, Find, Import, Insert, Push, PushBranch,
         Update, UnsetAll, ReadCodebase, SaveHead, ArchiveLanded, Close, PushTrunk
<1>2. CASE ReadStep(a) \/ OtherStep(a)
  BY <1>2 DEF ReadStep, OtherStep, HeadCommit, SetParent, Compute, SaveAnswer, Pull,
         UnsetHead, SaveSettings, SyncBranch, Updated
<1>. QED BY <1>1, <1>2 DEF Run

Rest == HeadCacheRight /\ UpToDateRight

LEMMA StepCaches ==
    ASSUME IInv, CachesOK, [Next]_vars
    PROVE  CachesOK'
<1>1. /\ TypeOK /\ Rooted /\ RequestsOK /\ Grows /\ ChangesKept /\ IsFiniteSet(Busy)
  BY Growth, ChangesNext DEF IInv, CachesOK
<1>2. IsFiniteSet(Busy') /\ \A a \in Request : Step(a) => Busy' \subseteq Busy \union {a}
  BY <1>1, BusyNext
<1>. SUFFICES ASSUME Alone'
              PROVE  /\ NobodyRuns' => Rest'
                     /\ \A a, b \in Busy' : a = b
                     /\ \A a \in Request : a \in Busy' => AtWork(a)'
  BY <1>2 DEF CachesOK, Rest, Busy
<1>3. /\ NobodyRuns => Rest
      /\ \A a, b \in Busy : a = b
      /\ \A a \in Busy : AtWork(a)
      /\ \A a \in Request : ~Fail(a)
      /\ vars' # vars => \A a, b \in Busy' : a = b
  BY <1>1, AloneNext DEF CachesOK, Rest
<1>4. CASE pc' = pc /\ loc' = loc /\ row' = row
           /\ trunk' = trunk /\ pushed' = pushed /\ codebase' = codebase
  <2>1. Busy' = Busy /\ NobodyRuns' = NobodyRuns /\ \A w \in Workspace : SameAnswer(w)
    BY <1>4 DEF Busy, NobodyRuns, SameAnswer
  <2>2. \A a \in Request : a \in Busy => AtWork(a)'
    BY <1>3, <1>4, <2>1, Aside
  <2>3. Rest => Rest'
    <3>1. ASSUME UpToDateRight PROVE \A w \in Workspace : AnswerRight(w)'
      BY <1>1, <1>4, <2>1, <3>1, CachesKept DEF UpToDateRight, AnswerRight, AnswerOf
    <3>2. HeadCacheRight => HeadCacheRight'
      BY <1>1, <1>4, CachesKept
    <3>. QED BY <3>1, <3>2 DEF Rest, UpToDateRight, AnswerRight, AnswerOf
  <2>. QED BY <1>3, <2>1, <2>2, <2>3
<1>5. ASSUME NEW a \in Request, StartRequest(a) \/ Run(a), Busy \subseteq {a},
             vars' # vars
      PROVE  /\ NobodyRuns' => Rest'
             /\ \A c, b \in Busy' : c = b
             /\ \A b \in Request : b \in Busy' => AtWork(b)'
  <2>1. AtWork(a)
    <3>1. CASE pc[a] = "idle"
      <4>1. NobodyRuns
        BY <1>5, <3>1 DEF NobodyRuns, Busy
      <4>. QED BY <1>3, <3>1, <4>1, AtRest DEF Rest
    <3>2. CASE pc[a] # "idle"
      BY <1>3, <3>2 DEF Busy
    <3>. QED BY <3>1, <3>2
  <2>2. AtWork(a)'
    BY <1>5, <2>1, RunCaches
  <2>3. Busy' \subseteq {a}
    BY <1>2, <1>5 DEF Step
  <2>4. NobodyRuns' => Rest'
    BY <2>2, AtRestNext DEF NobodyRuns, Rest
  <2>. QED BY <2>2, <2>3, <2>4
<1>6. ASSUME NEW a \in Request, StartRequest(a), NEW b \in Busy, b # a, vars' # vars
      PROVE  /\ NobodyRuns' => Rest'
             /\ \A c, d \in Busy' : c = d
             /\ \A c \in Request : c \in Busy' => AtWork(c)'
  <2>1. b \in Request /\ pc'[b] = pc[b] /\ loc'[b] = loc[b]
    BY <1>1, <1>6, Others DEF Step, Busy
  <2>2. b \in Busy' /\ ~NobodyRuns'
    BY <2>1 DEF Busy, NobodyRuns
  <2>3. AtWork(b)'
    BY <1>1, <1>3, <1>6, <2>1, StartRows, Aside
  <2>. QED BY <1>3, <1>6, <2>2, <2>3
<1>7. ASSUME NEW a \in Request, StartRequest(a) \/ Run(a), vars' # vars
      PROVE  /\ NobodyRuns' => Rest'
             /\ \A c, b \in Busy' : c = b
             /\ \A b \in Request : b \in Busy' => AtWork(b)'
  <2>1. CASE Busy \subseteq {a}
    BY <1>5, <1>7, <2>1
  <2>2. ASSUME NEW b \in Busy, b # a PROVE StartRequest(a)
    <3>1. a \notin Busy
      BY <1>3, <2>2
    <3>. QED BY <1>7, <3>1, RunsBusy DEF Busy
  <2>. QED BY <1>6, <1>7, <2>1, <2>2
<1>8. \/ vars' = vars \/ (Environment /\ vars' # vars)
      \/ vars' # vars /\ \E a \in Request : StartRequest(a) \/ Run(a)
  BY <1>3 DEF Next
<1>9. vars' = vars \/ Environment => pc' = pc /\ loc' = loc /\ row' = row
           /\ trunk' = trunk /\ pushed' = pushed /\ codebase' = codebase
  BY EnvironmentFrame DEF vars
<1>. QED BY <1>4, <1>7, <1>8, <1>9

(* When no request runs and none has failed or overlapped with another, the*)
(* cached head change and the cached answers are those of trunk.           *)
THEOREM Caches == Spec => []CachesRight
<1>1. Init => CachesOK
  <2>. SUFFICES ASSUME Init PROVE CachesOK
    OBVIOUS
  <2>1. Busy = {} /\ IsFiniteSet({})
    BY FS_EmptySet DEF Init, Busy
  <2>2. HeadCacheRight /\ UpToDateRight
    BY DEF Init, HeadCacheRight, UpToDateRight, NewCodebase
  <2>. QED BY <2>1, <2>2 DEF CachesOK
<1>2. IInv /\ CachesOK /\ [Next]_vars => CachesOK'
  BY StepCaches
<1>3. CachesOK => CachesRight
  BY DEF CachesOK, CachesRight, Alone
<1>. QED BY <1>1, <1>2, <1>3, Invariant, PTL DEF Spec

-----------------------------------------------------------------------------
(***************************************************************************)
(* Pull requests (PullRequests, instance P of MCLanding), for any number   *)
(* of pull requests, drafts, workers, requests and failures.               *)
(*                                                                         *)
(* PullsOK says what each worker and each request knows at each place of   *)
(* the pull request it handles, which nobody else can take away (Knows),   *)
(* and who still owes trunk a fetch (CatchingUp).  InOrder says, of a pull *)
(* request that is handled one by one and in order, what the one who       *)
(* handles it has still to do (InHand), and that what Sturdy does not know *)
(* waits in the inbox when nobody handles it (Still).                      *)
(***************************************************************************)
(* What is read of GitHub, and what a request or a worker may hold.        *)
States     == {"none", "open", "closed", "merged", "merging"}
ApiTypes   == [st : States, head : Nat]
DraftTypes == [there : BOOLEAN, archived : BOOLEAN, unarchived : BOOLEAN,
               change : PR \union {NoPR}, files : Nat]
RowTypes   == [ws : 0..MaxWorkspaces, st : States, importing : BOOLEAN, head : Nat]
LocTypes   == [op : {"none", "event", "push", "merge", "create", "import"},
               p : PR \union {NoPR}, api : ApiTypes, row : RowTypes,
               ws : DraftTypes, w : 0..MaxWorkspaces]

Pushing   == {"fetchTrunk", "unsetHead", "unsetUpToDate"}
Importing == {"import", "fetchNew", "insert"}
Merging   == {"setMerging", "ask", "mergeCall", "rollback", "get"}
Creating  == {"pushBranch", "create", "insertOwn", "edit"}
Changing  == {"change", "after", "archiveWith"}
OfDraft   == {"unarchive", "fetch", "archive", "merge", "pull"} \union Changing
Updating  == {"load", "record"} \union OfDraft
Places    == {"idle", "archiveNew"} \union Pushing \union Importing \union Merging \union Creating
             \union Updating

HubTyped ==
    /\ gh \in [PR -> [st : States \ {"merging"}, head : Nat, branch : Nat, base : Nat]]
    /\ remote2 \in Seq(PR)
    /\ inbox \in [PR -> Seq(ApiTypes)]
    /\ pushes \in Nat

StoresTyped ==
    /\ ws \in [P!WsId -> DraftTypes]
    /\ row2 \in [PR -> RowTypes]
    /\ change \in [PR -> {"none", "imported", "merged"}]
    /\ trunk2 \in 0..Len(remote2)
    /\ known \in [head : Nat, upToDate : Nat]

ActorsTyped == pc2 \in [P!Actor -> Places] /\ loc2 \in [P!Actor -> LocTypes]

InRemote(p) == \E i \in 1..Len(remote2) : remote2[i] = p

(* GitHub tells everything of a pull request, and nothing once it is merged. *)
HubOK(p) ==
    /\ gh[p].base \in 0..Len(remote2)
    /\ gh[p].st = "merged" <=> InRemote(p)
    /\ gh[p].st = "none" => inbox[p] = <<>> /\ row2[p].ws = 0
    /\ \A i \in 1..Len(inbox[p]) :
          /\ inbox[p][i].st \in {"open", "closed", "merged"}
          /\ inbox[p][i].st = "merged" => gh[p].st = "merged" /\ i = Len(inbox[p])
    /\ change[p] = "merged" => P!OnTrunk(p)

(* What somebody who handles pull request p knows of it at each place.     *)
Knows(at, l) ==
    LET p == l.p IN
    /\ at = "idle" => l = P!NoLoc
    /\ l.op = "push" <=> at \in Pushing
    /\ p \in PR => gh[p].st # "none"
    /\ at \in Importing \union {"archiveNew"} => p \in PR /\ l.op \in {"event", "import"}
    /\ at \in {"fetchNew", "insert", "archiveNew"} => l.w \in P!WsId /\ ws[l.w].there
    /\ at \in Creating => l.w \in P!WsId /\ ws[l.w].there /\ l.op = "create"
    /\ at \in Creating => l.api.st = "none"
    /\ at = "create" => p = NoPR
    /\ at = "insertOwn" => p \in PR
    /\ at \in Merging => l.op = "merge"
    /\ at \in Updating => l.op \in {"event", "merge"}
    /\ at \in Updating \union Merging \union {"edit"} \/ (at = "pushBranch" /\ p # NoPR) =>
          p \in PR /\ row2[p].ws # 0 /\ l.row.ws = row2[p].ws
    /\ at \in OfDraft => l.w = row2[p].ws
    /\ at \in {"load", "record"} \union OfDraft => l.api.st \in {"open", "closed", "merged"}
    /\ at \in {"merge", "pull"} \union Changing => l.api.st = "merged"
    /\ p \in PR /\ l.api.st = "merged" => gh[p].st = "merged"
    /\ at = "unarchive" => l.api.st = "open"
    /\ at \in Changing => P!OnTrunk(p)
    /\ at \in {"after", "archiveWith"} => change[p] = "merged"

ActorKnows(a) == Knows(pc2[a], loc2[a])

DraftsThere == \A p \in PR : row2[p].ws # 0 => ws[row2[p].ws].there

(* Whoever owes trunk a fetch, or a row its oblivion.                      *)
Owes(at) == pushes > 0 \/ \E a \in P!Actor : pc2[a] \in at
CatchingUp ==
    ~failed2 =>
        /\ trunk2 # Len(remote2) => Owes({"fetchTrunk"})
        /\ known.head \notin {P!Unknown, trunk2} => Owes({"fetchTrunk", "unsetHead"})
        /\ known.upToDate \notin {P!Unknown, trunk2} => Owes(Pushing)

(* The inductive invariant of everything that happens to pull requests.    *)
PullsOK ==
    /\ HubTyped /\ StoresTyped /\ ActorsTyped
    /\ \A p \in PR : HubOK(p)
    /\ \A a \in P!Actor : ActorKnows(a)
    /\ DraftsThere /\ P!ArchivedWhenMerged /\ P!OneDraft /\ CatchingUp

-----------------------------------------------------------------------------
(* Pull requests that are handled one by one, in order.                    *)

Sole(p)    == \A q \in PR \ {p} : row2[q].ws # row2[p].ws
AllMerged(p) == \A i \in 1..Len(inbox[p]) : inbox[p][i].st = "merged"
ToldAll(p) == inbox[p] = <<>>

(* Nobody handles it: what Sturdy does not know is in the inbox.           *)
Still(p) ==
    /\ row2[p].ws = 0 /\ gh[p].st # "none" => ~ToldAll(p) /\ inbox[p][1].st = "open"
    /\ row2[p].ws # 0 /\ ToldAll(p) => row2[p].st = gh[p].st
    /\ change[p] = "merged" =>
          /\ row2[p].ws # 0 /\ row2[p].st = "merged" /\ AllMerged(p)
          /\ Sole(p) => ws[row2[p].ws].archived

(* Somebody imports it: it has no draft yet when a webhook asks for one.   *)
ImportOK(p, a) ==
    /\ pc2[a] \in Importing /\ change[p] # "merged" /\ row2[p].st # "merging"
    /\ loc2[a].op = "event" => loc2[a].api.st = "open"
    /\ ToldAll(p) => gh[p].st = "open"
    /\ pc2[a] \in {"fetchNew", "insert"} \/ loc2[a].op = "event" => row2[p].ws = 0
    /\ row2[p].ws # 0 /\ ToldAll(p) => row2[p].st = "open"

(* A request opens it, or pushes to it: it stays open meanwhile.           *)
CreateOK(p, a) ==
    /\ pc2[a] \in Creating /\ change[p] # "merged"
    /\ pc2[a] = "insertOwn" => row2[p].ws = 0 /\ ~ToldAll(p)
    /\ pc2[a] # "insertOwn" => /\ loc2[a].row.st = "open" /\ row2[p].st = "open"
                               /\ ToldAll(p) => gh[p].st = "open"

(* A request merges it: the row says so until the answer is recorded.      *)
MergeOK(p, a) ==
    /\ pc2[a] \in Merging /\ change[p] # "merged"
    /\ row2[p].st = IF pc2[a] = "setMerging" THEN "open" ELSE "merging"
    /\ ToldAll(p) => gh[p].st = "open" \/ (pc2[a] \in {"ask", "get"} /\ gh[p].st = "merged")
    /\ pc2[a] = "get" => gh[p].st = "merged"

(* An update: what it was told is the last there is to tell, and the draft *)
(* is archived by the time the change is on record.                        *)
UpdateOK(p, a) ==
    LET l == loc2[a] IN
    /\ pc2[a] \in Updating
    /\ l.op = "merge" => /\ l.api.st = "merged" /\ row2[p].st = "merging"
                         /\ pc2[a] # "load" => AllMerged(p)
                         /\ pc2[a] = "load" => change[p] # "merged"
    /\ l.op = "event" => /\ row2[p].st # "merging"
                         /\ ToldAll(p) => l.api.st = gh[p].st
                         /\ l.api.st = "merged" => AllMerged(p)
    /\ change[p] = "merged" =>
          /\ l.api.st = "merged"
          /\ Sole(p) => pc2[a] \in {"after", "archiveWith"} \/ ws[row2[p].ws].archived
    /\ pc2[a] \in {"pull"} \union Changing /\ Sole(p) /\ l.ws.archived => ws[l.w].archived

InHand(p, a) == ImportOK(p, a) \/ CreateOK(p, a) \/ MergeOK(p, a) \/ UpdateOK(p, a)

Orderly(p) ==
    /\ ~ToldAll(p) => inbox[p][Len(inbox[p])].st = gh[p].st
    /\ \A a, b \in P!On(p) : a = b
    /\ P!On(p) = {} => Still(p) /\ row2[p].st # "merging"
    /\ \A a \in P!On(p) : InHand(p, a)

(* An undisturbed pull request has at most one handler, who has in hand    *)
(* what Sturdy does not know yet; without one it waits in the inbox.       *)
InOrder == ~failed2 => \A p \in PR \ disturbed : Orderly(p)

-----------------------------------------------------------------------------
(* What a step may do to GitHub and to the webhooks.                       *)

GhTypes == [st : States \ {"merging"}, head : Nat, branch : Nat, base : Nat]

Tells(p) ==
    /\ gh[p].st # "merged" /\ gh'[p] \in GhTypes
    /\ gh[p].st = "none" => gh'[p].st = "open"
    /\ gh'[p].st \in {"open", "closed", "merged"} /\ gh'[p].base \in 0..Len(remote2)
    /\ inbox'[p] = Append(inbox[p], [st |-> gh'[p].st, head |-> gh'[p].head])
Hears(p) ==
    /\ gh'[p] = gh[p]
    /\ \E i \in DOMAIN inbox[p] : /\ inbox'[p] = P!Without(inbox[p], i)
                                  /\ \E k \in Worker : P!Receive(k, p, i)
Moves(p) ==
    (gh'[p] = gh[p] /\ inbox'[p] = inbox[p]) \/ Tells(p) \/ Hears(p)

SameMerges(p) == gh'[p].st = "merged" <=> gh[p].st = "merged"
Grown ==
    \/ remote2' = remote2 /\ pushes' \in Nat /\ \A p \in PR : SameMerges(p)
    \/ /\ pushes' = pushes + 1
       /\ \E p \in PR : /\ remote2' = Append(remote2, p) /\ gh'[p].st = "merged"
                        /\ \A q \in PR \ {p} : SameMerges(q)

HubMoves ==
    /\ DOMAIN gh' = PR /\ gh' = [p \in PR |-> gh'[p]]
    /\ inbox' = [p \in PR |-> inbox'[p]]
    /\ \A p \in PR : Moves(p)
    /\ Grown

LEMMA ToldMoves ==
    ASSUME HubTyped, NEW p \in PR, NEW g \in GhTypes, gh[p].st # "merged",
           g.st \in {"open", "closed", "merged"}, g.base \in 0..Len(remote2),
           gh[p].st = "none" => g.st = "open",
           gh' = [gh EXCEPT ![p] = g], P!Told(p, g),
           \/ g.st # "merged" /\ remote2' = remote2 /\ pushes' = pushes
           \/ g.st = "merged" /\ remote2' = Append(remote2, p) /\ pushes' = pushes + 1
    PROVE  HubMoves
<1>1. gh' = [q \in PR |-> IF q = p THEN g ELSE gh[q]]
  BY DEF HubTyped
<1>2. inbox' = [q \in PR |-> IF q = p THEN Append(inbox[p], [st |-> g.st, head |-> g.head])
                             ELSE inbox[q]]
  BY DEF HubTyped, P!Told
<1>3. \A q \in PR : Moves(q)
  BY <1>1, <1>2 DEF Moves, Tells
<1>4. \A q \in PR \ {p} : SameMerges(q)
  BY <1>1 DEF SameMerges
<1>5. Grown
  BY <1>1, <1>4 DEF Grown, SameMerges, HubTyped
<1>. QED BY <1>1, <1>2, <1>3, <1>5 DEF HubMoves

LEMMA SameHub ==
    ASSUME HubTyped, UNCHANGED <<gh, remote2, inbox>>, pushes' \in Nat
    PROVE  HubMoves
BY DEF HubTyped, HubMoves, Moves, Grown, SameMerges

LEMMA MergedTyped ==
    ASSUME HubTyped, NEW p \in PR, NEW b \in 0..Len(remote2)
    PROVE  /\ P!Merged(p, b) \in GhTypes /\ P!Merged(p, b).st = "merged"
           /\ P!Merged(p, b).base = b
<1>1. gh[p] \in GhTypes /\ b \in Nat
  BY DEF HubTyped, GhTypes
<1>. QED BY <1>1 DEF P!Merged, GhTypes, States

LEMMA ActMoves ==
    ASSUME HubTyped, \A p \in PR : HubOK(p), NEW p \in PR,
           P!Open(p) \/ P!PushTo(p) \/ P!Close(p) \/ P!Reopen(p) \/ P!Merge(p)
    PROVE  HubMoves
<1>. gh[p] \in GhTypes /\ gh[p].base \in 0..Len(remote2) /\ Len(remote2) \in Nat
  BY DEF HubTyped, GhTypes, HubOK
<1>0. 0 \in 0..Len(remote2)
  OBVIOUS
<1>1. CASE P!Open(p)
  <2>1. PICK g : g = [P!NoGH EXCEPT !.st = "open", !.head = 1]
    OBVIOUS
  <2>2. g \in GhTypes /\ g.st = "open" /\ g.base = 0
    BY <2>1 DEF P!NoGH, GhTypes, States
  <2>3. /\ gh' = [gh EXCEPT ![p] = g] /\ P!Told(p, g) /\ remote2' = remote2 /\ pushes' = pushes
        /\ gh[p].st = "none"
    BY <1>1, <2>1 DEF P!Open, P!Act
  <2>. QED BY <1>0, <2>2, <2>3, ToldMoves
<1>2. CASE P!PushTo(p)
  <2>1. PICK g : g = [gh[p] EXCEPT !.head = @ + 1]
    OBVIOUS
  <2>2. g \in GhTypes /\ g.st = gh[p].st /\ g.base = gh[p].base
    BY <2>1 DEF GhTypes
  <2>3. /\ gh' = [gh EXCEPT ![p] = g] /\ P!Told(p, g) /\ remote2' = remote2 /\ pushes' = pushes
        /\ gh[p].st = "open"
    BY <1>2, <2>1 DEF P!PushTo, P!Act
  <2>. QED BY <2>2, <2>3, ToldMoves
<1>3. CASE P!Close(p)
  <2>1. PICK g : g = [gh[p] EXCEPT !.st = "closed"]
    OBVIOUS
  <2>2. g \in GhTypes /\ g.st = "closed" /\ g.base = gh[p].base
    BY <2>1 DEF GhTypes, States
  <2>3. /\ gh' = [gh EXCEPT ![p] = g] /\ P!Told(p, g) /\ remote2' = remote2 /\ pushes' = pushes
        /\ gh[p].st = "open"
    BY <1>3, <2>1 DEF P!Close, P!Act
  <2>. QED BY <2>2, <2>3, ToldMoves
<1>4. CASE P!Reopen(p)
  <2>1. PICK g : g = [gh[p] EXCEPT !.st = "open"]
    OBVIOUS
  <2>2. g \in GhTypes /\ g.st = "open" /\ g.base = gh[p].base
    BY <2>1 DEF GhTypes, States
  <2>3. /\ gh' = [gh EXCEPT ![p] = g] /\ P!Told(p, g) /\ remote2' = remote2 /\ pushes' = pushes
        /\ gh[p].st = "closed"
    BY <1>4, <2>1 DEF P!Reopen, P!Act
  <2>. QED BY <2>2, <2>3, ToldMoves
<1>5. CASE P!Merge(p)
  <2>1. PICK b \in 0..Len(remote2) : P!Act(p, P!Merged(p, b))
    BY <1>5 DEF P!Merge
  <2>2. PICK g : g = P!Merged(p, b)
    OBVIOUS
  <2>3. g \in GhTypes /\ g.st = "merged" /\ g.base = b
    BY <2>2, MergedTyped
  <2>4. gh' = [gh EXCEPT ![p] = g] /\ P!Told(p, g) /\ gh[p].st = "open"
    BY <1>5, <2>1, <2>2 DEF P!Merge, P!Act
  <2>5. remote2' = Append(remote2, p) /\ pushes' = pushes + 1
    BY <1>5 DEF P!Merge
  <2>. QED BY <2>3, <2>4, <2>5, ToldMoves
<1>. QED BY <1>1, <1>2, <1>3, <1>4, <1>5

LEMMA CallMoves ==
    ASSUME HubTyped, NEW p \in PR, NEW b \in 0..Len(remote2), gh[p].st = "open",
           gh' = [gh EXCEPT ![p] = P!Merged(p, b)], P!Told(p, P!Merged(p, b)),
           remote2' = Append(remote2, p), pushes' = pushes + 1
    PROVE  HubMoves
BY MergedTyped, ToldMoves

LEMMA PushMoves ==
    ASSUME HubTyped, \A p \in PR : HubOK(p), NEW r \in P!Actor, P!PushBranch(r)
    PROVE  /\ HubMoves /\ remote2' = remote2 /\ pushes' = pushes
           /\ \A p \in PR : p \in P!Pushed(loc2[r]) => gh'[p].st = gh[p].st
           /\ \A p \in PR : p \notin P!Pushed(loc2[r]) => gh'[p] = gh[p] /\ inbox'[p] = inbox[p]
<1>1. gh' = [p \in PR |-> IF p \in P!Pushed(loc2[r]) THEN [gh[p] EXCEPT !.head = @ + 1]
                          ELSE gh[p]]
  BY DEF P!PushBranch
<1>2. inbox' = [p \in PR |-> IF p \in P!Pushed(loc2[r])
                    THEN Append(inbox[p], [st |-> gh'[p].st, head |-> gh'[p].head])
                    ELSE inbox[p]]
  BY DEF P!PushBranch
<1>3. remote2' = remote2 /\ pushes' = pushes
  BY DEF P!PushBranch
<1>4. ASSUME NEW p \in PR
      PROVE  /\ gh[p] \in GhTypes /\ gh[p].base \in 0..Len(remote2)
             /\ p \in P!Pushed(loc2[r]) => /\ gh[p].st = "open"
                                           /\ gh'[p] = [gh[p] EXCEPT !.head = @ + 1]
             /\ p \notin P!Pushed(loc2[r]) => gh'[p] = gh[p] /\ inbox'[p] = inbox[p]
  BY <1>1, <1>2 DEF HubTyped, GhTypes, HubOK, P!Pushed
<1>5. ASSUME NEW p \in PR, p \in P!Pushed(loc2[r])
      PROVE  gh'[p] \in GhTypes /\ gh'[p].st = "open" /\ gh'[p].base = gh[p].base
  <2>1. PICK g : g = gh[p]
    OBVIOUS
  <2>2. PICK h : h = [g EXCEPT !.head = @ + 1]
    OBVIOUS
  <2>3. h \in GhTypes /\ h.st = g.st /\ h.base = g.base
    BY <1>4, <2>1, <2>2 DEF GhTypes
  <2>4. gh'[p] = h /\ g.st = "open"
    BY <1>4, <1>5, <2>1, <2>2
  <2>. QED BY <2>1, <2>3, <2>4
<1>6. ASSUME NEW p \in PR PROVE Moves(p) /\ SameMerges(p)
  BY <1>2, <1>4, <1>5 DEF Moves, Tells, SameMerges
<1>7. Grown
  BY <1>3, <1>6 DEF Grown, HubTyped
<1>8. DOMAIN gh' = PR /\ gh' = [p \in PR |-> gh'[p]] /\ inbox' = [p \in PR |-> inbox'[p]]
  BY <1>1, <1>2
<1>9. \A p \in PR : p \in P!Pushed(loc2[r]) => gh'[p].st = gh[p].st
  BY <1>4, <1>5
<1>. QED BY <1>3, <1>4, <1>6, <1>7, <1>8, <1>9 DEF HubMoves

LEMMA CreateMoves ==
    ASSUME HubTyped, NEW r \in P!Actor, P!Create(r), loc2[r].w \in Nat
    PROVE  HubMoves
<1>1. CASE UNCHANGED <<gh, inbox>>
  BY <1>1, SameHub DEF P!Create, HubTyped
<1>2. CASE \E p \in {q \in PR : gh[q].st = "none"} :
              LET g == [P!NoGH EXCEPT !.st = "open", !.head = 1, !.branch = loc2[r].w] IN
              gh' = [gh EXCEPT ![p] = g] /\ P!Told(p, g)
  <2>1. PICK p \in {q \in PR : gh[q].st = "none"} :
              LET g == [P!NoGH EXCEPT !.st = "open", !.head = 1, !.branch = loc2[r].w] IN
              gh' = [gh EXCEPT ![p] = g] /\ P!Told(p, g)
    BY <1>2
  <2>2. PICK g : g = [P!NoGH EXCEPT !.st = "open", !.head = 1, !.branch = loc2[r].w]
    OBVIOUS
  <2>3. g \in GhTypes /\ g.st = "open" /\ g.base = 0
    BY <2>2 DEF P!NoGH, GhTypes, States
  <2>4. gh' = [gh EXCEPT ![p] = g] /\ P!Told(p, g) /\ p \in PR /\ gh[p].st = "none"
    BY <2>1, <2>2
  <2>5. remote2' = remote2 /\ pushes' = pushes /\ 0 \in 0..Len(remote2)
    BY DEF P!Create, HubTyped
  <2>. QED BY <2>3, <2>4, <2>5, ToldMoves
<1>. QED BY <1>1, <1>2 DEF P!Create

-----------------------------------------------------------------------------
(* What the steps leave alone.                                             *)

LEMMA GitHubFrame ==
    ASSUME P!GitHub
    PROVE  UNCHANGED <<row2, ws, change, trunk2, known, pc2, loc2, started2, failed2, stranded,
                       disturbed>>
BY DEF P!GitHub, P!Open, P!PushTo, P!Close, P!Reopen, P!Merge, P!Act, P!sturdy, P!counts

LEMMA QuestionFrame ==
    ASSUME P!HeadChange \/ P!UpToDateWithTrunk
    PROVE  UNCHANGED <<gh, remote2, inbox, pushes, row2, ws, trunk2, pc2, loc2, started2,
                       failed2, stranded, disturbed>>
BY DEF P!HeadChange, P!UpToDateWithTrunk, P!hub, P!queues, P!counts

LEMMA ReceiveFrame ==
    ASSUME NEW k \in Worker, P!Receiving(k)
    PROVE  UNCHANGED <<gh, remote2, row2, ws, change, trunk2, known, failed2, stranded>>
BY DEF P!Receiving, P!ReceivePush, P!Receive, P!hub, P!sturdy, P!counts

LEMMA StartsFrame ==
    ASSUME NEW r \in Request2, P!Start(r)
    PROVE  UNCHANGED <<gh, remote2, inbox, pushes, row2, ws, change, trunk2, known, failed2,
                       stranded>>
BY DEF P!Start, P!StartMerge, P!StartCreate, P!StartImport, P!Begin, P!hub, P!queues, P!sturdy

RowSteps(a) == \/ P!InsertImported(a) \/ P!Record(a) \/ P!SetMerging(a) \/ P!Rollback(a)
               \/ P!InsertOwn(a) \/ P!UpdateOwn(a)
WsSteps(a)  == \/ P!ImportPullRequest(a) \/ P!FetchAndSnapshot(a) \/ P!ArchiveImported(a)
               \/ P!Unarchive(a) \/ P!Archive(a) \/ P!ArchiveWithChange(a)
HubSteps(a) == P!MergeCall(a) \/ P!PushBranch(a) \/ P!Create(a)
KnownSteps(a) == P!UnsetHead(a) \/ P!UnsetUpToDate(a) \/ P!AfterChange(a)

StepKeeps(a) ==
    /\ pc2[a] # "idle" /\ UNCHANGED <<started2, failed2, stranded>>
    /\ row2' = row2 \/ RowSteps(a)
    /\ ws' = ws \/ WsSteps(a)
    /\ change' = change \/ P!CreateChange(a)
    /\ trunk2' = trunk2 \/ P!FetchTrunk(a)
    /\ known' = known \/ KnownSteps(a)
    /\ UNCHANGED <<gh, remote2, inbox, pushes>> \/ HubSteps(a)
    /\ disturbed' = disturbed \/ P!Load(a)

LEMMA ImportKeeps ==
    ASSUME NEW a \in P!Actor, \/ P!ImportPullRequest(a) \/ P!FetchAndSnapshot(a)
                             \/ P!InsertImported(a) \/ P!ArchiveImported(a)
    PROVE  StepKeeps(a)
BY DEF P!ImportPullRequest, P!FetchAndSnapshot, P!InsertImported, P!ArchiveImported, StepKeeps,
       RowSteps, WsSteps,
       P!hub, P!queues, P!sturdy, P!counts, P!At

LEMMA DraftKeeps ==
    ASSUME NEW a \in P!Actor, P!Load(a) \/ P!Unarchive(a) \/ P!Archive(a) \/ P!MergePullRequest(a)
    PROVE  StepKeeps(a)
BY DEF P!Load, P!Unarchive, P!Archive, P!MergePullRequest, StepKeeps, WsSteps,
       P!hub, P!queues, P!sturdy, P!counts, P!At

LEMMA TrunkKeeps ==
    ASSUME NEW a \in P!Actor, P!FetchTrunk(a) \/ P!CreateChange(a) \/ P!AfterChange(a)
                            \/ P!UnsetHead(a) \/ P!UnsetUpToDate(a)
    PROVE  StepKeeps(a)
BY DEF P!FetchTrunk, P!CreateChange, P!AfterChange, P!UnsetHead, P!UnsetUpToDate, StepKeeps,
   KnownSteps,
       P!hub, P!queues, P!sturdy, P!counts, P!At

LEMMA RecordKeeps ==
    ASSUME NEW a \in P!Actor, P!ArchiveWithChange(a) \/ P!Record(a)
    PROVE  StepKeeps(a)
BY DEF P!ArchiveWithChange, P!Record, StepKeeps, RowSteps, WsSteps,
       P!hub, P!queues, P!sturdy, P!counts, P!At

LEMMA MergeKeeps ==
    ASSUME NEW a \in P!Actor, P!MergeStep(a)
    PROVE  StepKeeps(a)
BY DEF P!MergeStep, P!SetMerging, P!Ask, P!MergeCall, P!Rollback, P!Get, StepKeeps, RowSteps,
   HubSteps,
       P!hub, P!queues, P!sturdy, P!counts, P!At

LEMMA CreateKeeps ==
    ASSUME NEW a \in P!Actor, P!CreateStep(a)
    PROVE  StepKeeps(a)
BY DEF P!CreateStep, P!PushBranch, P!Create, P!InsertOwn, P!UpdateOwn, StepKeeps, RowSteps,
   HubSteps,
       P!hub, P!queues, P!sturdy, P!counts, P!At

LEMMA StepFrame ==
    ASSUME NEW a \in P!Actor, P!Step(a)
    PROVE  StepKeeps(a)
BY ImportKeeps, DraftKeeps, TrunkKeeps, RecordKeeps, MergeKeeps, CreateKeeps
   DEF P!Step, P!UpdateStep

FailsIn(a) ==
    \/ UNCHANGED <<gh, remote2, inbox, pushes>>
    \/ /\ P!At(a, "mergeCall") /\ gh[loc2[a].p].st = "open"
       /\ gh' = [gh EXCEPT ![loc2[a].p] = P!Merged(loc2[a].p, 0)]
       /\ P!Told(loc2[a].p, P!Merged(loc2[a].p, 0))
       /\ remote2' = Append(remote2, loc2[a].p) /\ pushes' = pushes + 1

LEMMA FailFrame ==
    ASSUME NEW a \in P!Actor, P!Fail(a)
    PROVE  /\ pc2[a] # "idle" /\ failed2' = TRUE /\ FailsIn(a) /\ stranded \subseteq stranded'
           /\ UNCHANGED <<row2, ws, change, trunk2, known, started2, disturbed>>
BY DEF P!Fail, FailsIn, P!sturdy, P!queues, P!At

LEMMA Cases ==
    ASSUME P!Next
    PROVE  \/ P!GitHub \/ P!HeadChange \/ P!UpToDateWithTrunk
           \/ \E a \in P!Actor : \/ P!Step(a) \/ P!Fail(a)
                                 \/ (a \in Worker /\ P!Receiving(a))
                                 \/ (a \in Request2 /\ P!Start(a))
<1>1. CASE \E k \in Worker : P!Receiving(k)
  BY <1>1 DEF P!Actor
<1>2. CASE \E r \in Request2 : P!Start(r)
  BY <1>2 DEF P!Actor
<1>. QED BY <1>1, <1>2 DEF P!Next

(* An actor goes somewhere else; the others stay where they are.           *)
Turned(a, at, l) == pc2' = [pc2 EXCEPT ![a] = at] /\ loc2' = [loc2 EXCEPT ![a] = l]

LEMMA Went ==
    ASSUME ActorsTyped, NEW a \in P!Actor, NEW at, NEW l, Turned(a, at, l)
    PROVE  /\ pc2'[a] = at /\ loc2'[a] = l
           /\ \A b \in P!Actor \ {a} : pc2'[b] = pc2[b] /\ loc2'[b] = loc2[b]
           /\ at \in Places /\ l \in LocTypes => ActorsTyped'
BY DEF ActorsTyped, Turned

LEMMA Stayed ==
    ASSUME ActorsTyped, NEW a \in P!Actor, NEW at, pc2' = [pc2 EXCEPT ![a] = at], loc2' = loc2
    PROVE  Turned(a, at, loc2[a])
BY DEF ActorsTyped, Turned

-----------------------------------------------------------------------------
(* GitHub and the webhooks after a step.                                   *)

LEMMA WithoutIs ==
    ASSUME NEW S, NEW s \in Seq(S), NEW i \in DOMAIN s
    PROVE  /\ P!Without(s, i) \in Seq(S) /\ Len(P!Without(s, i)) = Len(s) - 1
           /\ \A j \in 1..Len(P!Without(s, i)) :
                 P!Without(s, i)[j] = IF j < i THEN s[j] ELSE s[j + 1]
<1>1. Len(s) \in Nat /\ i \in 1..Len(s) /\ \A j \in 1..Len(s) : s[j] \in S
  BY LenProperties, ElementOfSeq
<1>2. PICK n \in Nat : n = Len(s) - 1
  BY <1>1
<1>3. P!Without(s, i) = [j \in 1..n |-> IF j < i THEN s[j] ELSE s[j + 1]]
  BY <1>2 DEF P!Without
<1>4. \A j \in 1..n : (IF j < i THEN s[j] ELSE s[j + 1]) \in S
  BY <1>1, <1>2
<1>5. P!Without(s, i) \in [1..n -> S]
  BY <1>3, <1>4
<1>6. P!Without(s, i) \in Seq(S)
  BY <1>2, <1>5
<1>7. Len(P!Without(s, i)) = n
  BY <1>2, <1>3, <1>6, LenProperties
<1>. QED BY <1>2, <1>3, <1>6, <1>7

(* Everything that is about one step only: who moves is a.                 *)
LEMMA SomebodyMoves ==
    ASSUME PullsOK, [P!Next]_P!vars
    PROVE  HubMoves
<1>. HubTyped /\ (\A p \in PR : HubOK(p)) /\ ActorsTyped
  BY DEF PullsOK
<1>1. CASE UNCHANGED P!vars
  BY <1>1, SameHub DEF P!vars, HubTyped
<1>2. CASE P!GitHub
  BY <1>2, ActMoves DEF P!GitHub
<1>3. CASE P!HeadChange \/ P!UpToDateWithTrunk
  BY <1>3, QuestionFrame, SameHub DEF HubTyped
<1>4. ASSUME NEW k \in Worker, P!Receiving(k) PROVE HubMoves
  <2>1. gh' = gh /\ remote2' = remote2
    BY <1>4, ReceiveFrame
  <2>2. CASE P!ReceivePush(k)
    <3>1. UNCHANGED inbox /\ pushes' \in Nat
      BY <2>2 DEF P!ReceivePush, HubTyped
    <3>. QED BY <2>1, <3>1, SameHub
  <2>3. ASSUME NEW p \in PR, NEW i \in DOMAIN inbox[p], P!Receive(k, p, i) PROVE HubMoves
    <3>1. inbox' = [q \in PR |-> IF q = p THEN P!Without(inbox[p], i) ELSE inbox[q]]
      BY <2>3 DEF P!Receive, HubTyped
    <3>2. \A q \in PR : Moves(q)
      <4>1. gh'[p] = gh[p] /\ inbox'[p] = P!Without(inbox[p], i)
        BY <2>1, <3>1
      <4>2. \A q \in PR \ {p} : gh'[q] = gh[q] /\ inbox'[q] = inbox[q]
        BY <2>1, <3>1
      <4>. QED BY <2>3, <4>1, <4>2 DEF Moves, Hears
    <3>3. pushes' = pushes
      BY <2>3 DEF P!Receive
    <3>4. Grown
      BY <2>1, <3>3 DEF Grown, SameMerges, HubTyped
    <3>. QED BY <2>1, <3>1, <3>2, <3>4 DEF HubMoves, HubTyped
  <2>. QED BY <1>4, <2>2, <2>3 DEF P!Receiving
<1>5. ASSUME NEW r \in Request2, P!Start(r) PROVE HubMoves
  BY <1>5, StartsFrame, SameHub DEF HubTyped
<1>6. ASSUME NEW a \in P!Actor, P!Step(a) PROVE HubMoves
  <2>1. CASE UNCHANGED <<gh, remote2, inbox, pushes>>
    BY <2>1, SameHub DEF HubTyped
  <2>2. CASE P!MergeCall(a)
    <3>1. CASE P!Goto(a, "rollback") /\ UNCHANGED <<gh, remote2, P!queues>>
      BY <3>1, SameHub DEF HubTyped, P!queues
    <3>2. ASSUME gh[loc2[a].p].st = "open",
                 \E b \in 0..Len(remote2) : /\ gh' = [gh EXCEPT ![loc2[a].p] = P!Merged(loc2[a].p, b)]
                                            /\ P!Told(loc2[a].p, P!Merged(loc2[a].p, b)),
                 remote2' = Append(remote2, loc2[a].p), pushes' = pushes + 1
          PROVE  HubMoves
      <4>1. loc2[a].p \in PR
        BY <2>2 DEF PullsOK, ActorKnows, Knows, P!MergeCall, P!At, Merging
      <4>. QED BY <3>2, <4>1, CallMoves
    <3>. QED BY <2>2, <3>1, <3>2 DEF P!MergeCall
  <2>3. CASE P!PushBranch(a)
    BY <2>3, PushMoves
  <2>4. CASE P!Create(a)
    <3>1. loc2[a] \in LocTypes
      BY DEF ActorsTyped
    <3>2. loc2[a].w \in Nat
      BY <3>1, PullRequestsAssumption DEF LocTypes
    <3>. QED BY <2>4, <3>2, CreateMoves
  <2>. QED BY <1>6, <2>1, <2>2, <2>3, <2>4, StepFrame DEF StepKeeps, HubSteps
<1>7. ASSUME NEW a \in P!Actor, P!Fail(a) PROVE HubMoves
  <2>1. CASE UNCHANGED <<gh, remote2, inbox, pushes>>
    BY <2>1, SameHub DEF HubTyped
  <2>2. ASSUME P!At(a, "mergeCall"), gh[loc2[a].p].st = "open",
               gh' = [gh EXCEPT ![loc2[a].p] = P!Merged(loc2[a].p, 0)],
               P!Told(loc2[a].p, P!Merged(loc2[a].p, 0)),
               remote2' = Append(remote2, loc2[a].p), pushes' = pushes + 1
        PROVE  HubMoves
    <3>1. loc2[a].p \in PR
      BY <2>2 DEF PullsOK, ActorKnows, Knows, P!At, Merging
    <3>2. 0 \in 0..Len(remote2)
      BY DEF HubTyped
    <3>. QED BY <2>2, <3>1, <3>2, CallMoves
  <2>. QED BY <1>7, <2>1, <2>2, FailFrame DEF FailsIn
<1>. QED BY <1>1, <1>2, <1>3, <1>4, <1>5, <1>6, <1>7, Cases

LEMMA HubNext ==
    ASSUME PullsOK, [P!Next]_P!vars
    PROVE  /\ HubTyped'
           /\ Len(remote2) \in Nat /\ Len(remote2') \in Nat /\ Len(remote2) <= Len(remote2')
           /\ \A i \in 1..Len(remote2) : remote2'[i] = remote2[i]
           /\ \A p \in PR : /\ gh[p].st # "none" => gh'[p].st # "none"
                            /\ gh[p].st = "merged" => gh'[p] = gh[p]
<1>1. HubMoves /\ HubTyped
  BY SomebodyMoves DEF PullsOK
<1>2. ASSUME NEW p \in PR
      PROVE  /\ gh'[p] \in GhTypes
             /\ inbox'[p] \in Seq(ApiTypes)
             /\ gh[p].st # "none" => gh'[p].st # "none"
             /\ gh[p].st = "merged" => gh'[p] = gh[p]
  <2>1. gh[p] \in GhTypes /\ inbox[p] \in Seq(ApiTypes) /\ Moves(p)
    BY <1>1 DEF HubMoves, HubTyped, GhTypes
  <2>2. CASE Tells(p)
    <3>1. [st |-> gh'[p].st, head |-> gh'[p].head] \in ApiTypes
      BY <2>2 DEF Tells, GhTypes, ApiTypes
    <3>2. inbox'[p] \in Seq(ApiTypes)
      BY <2>1, <2>2, <3>1, AppendProperties DEF Tells
    <3>. QED BY <2>2, <3>2 DEF Tells
  <2>3. CASE Hears(p)
    BY <2>1, <2>3, WithoutIs DEF Hears
  <2>. QED BY <2>1, <2>2, <2>3 DEF Moves
<1>3. gh' \in [PR -> GhTypes] /\ inbox' \in [PR -> Seq(ApiTypes)]
  BY <1>1, <1>2 DEF HubMoves
<1>4. /\ remote2' \in Seq(PR) /\ pushes' \in Nat
      /\ Len(remote2) \in Nat /\ Len(remote2') \in Nat /\ Len(remote2) <= Len(remote2')
      /\ \A i \in 1..Len(remote2) : remote2'[i] = remote2[i]
  <2>1. CASE remote2' = remote2 /\ pushes' \in Nat
    BY <1>1, <2>1 DEF HubTyped
  <2>2. ASSUME NEW p \in PR, remote2' = Append(remote2, p), pushes' = pushes + 1
        PROVE  /\ remote2' \in Seq(PR) /\ pushes' \in Nat
               /\ Len(remote2) \in Nat /\ Len(remote2') \in Nat /\ Len(remote2) <= Len(remote2')
               /\ \A i \in 1..Len(remote2) : remote2'[i] = remote2[i]
    <3>1. remote2 \in Seq(PR) /\ pushes \in Nat
      BY <1>1 DEF HubTyped
    <3>. QED BY <2>2, <3>1, AppendProperties
  <2>. QED BY <1>1, <2>1, <2>2 DEF HubMoves, Grown
<1>5. HubTyped'
  BY <1>3, <1>4 DEF HubTyped, GhTypes
<1>. QED BY <1>2, <1>4, <1>5

-----------------------------------------------------------------------------
(* The rows and trunk after a step.                                        *)

LEMMA LocIs ==
    ASSUME PullsOK, NEW a \in P!Actor
    PROVE  /\ loc2[a] \in LocTypes /\ loc2[a].p \in PR \union {NoPR} /\ loc2[a].w \in 0..MaxWorkspaces
           /\ loc2[a].api \in ApiTypes /\ loc2[a].row \in RowTypes /\ loc2[a].ws \in DraftTypes
           /\ pc2[a] \in Places /\ ActorKnows(a)
  BY DEF PullsOK, ActorsTyped, LocTypes

LEMMA WrittenIs ==
    ASSUME row2 \in [PR -> RowTypes], NEW p \in PR, NEW r \in RowTypes
    PROVE  /\ P!Written(p, r) \in [PR -> RowTypes]
           /\ \A q \in PR \ {p} : P!Written(p, r)[q] = row2[q]
           /\ P!Written(p, r)[p].ws = row2[p].ws /\ P!Written(p, r)[p].st = r.st
<1>1. P!Written(p, r) = [row2 EXCEPT ![p] = [row2[p] EXCEPT !.st = r.st, !.head = r.head,
                                               !.importing = r.importing]]
  BY DEF P!Written
<1>2. PICK x : x = [row2[p] EXCEPT !.st = r.st, !.head = r.head, !.importing = r.importing]
  OBVIOUS
<1>3. x \in RowTypes /\ x.ws = row2[p].ws /\ x.st = r.st
  BY <1>2 DEF RowTypes
<1>. QED BY <1>1, <1>2, <1>3

(* A row that is there stays; one that is new is of a draft that is there. *)
RowMoves ==
    /\ row2' \in [PR -> RowTypes]
    /\ \A p \in PR : /\ row2[p].ws # 0 => row2'[p].ws = row2[p].ws
                     /\ row2'[p].ws # row2[p].ws =>
                           /\ row2'[p].ws \in P!WsId /\ ws[row2'[p].ws].there
                           /\ row2'[p].st = "open"
                           /\ \E a \in P!Actor : loc2[a].p = p /\ loc2[a].w = row2'[p].ws

LEMMA NewRow ==
    ASSUME PullsOK, NEW a \in P!Actor, NEW p \in PR, loc2[a].p = p, loc2[a].w \in P!WsId,
           ws[loc2[a].w].there, row2[p].ws = 0, NEW r \in RowTypes,
           r.ws = loc2[a].w, r.st = "open", row2' = [row2 EXCEPT ![p] = r]
    PROVE  RowMoves
<1>1. row2 \in [PR -> RowTypes]
  BY DEF PullsOK, StoresTyped
<1>2. row2' \in [PR -> RowTypes] /\ row2'[p] = r /\ \A q \in PR \ {p} : row2'[q] = row2[q]
  BY <1>1
<1>. QED BY <1>2 DEF RowMoves

LEMMA RowsNext ==
    ASSUME PullsOK, [P!Next]_P!vars
    PROVE  RowMoves
<1>1. row2 \in [PR -> RowTypes]
  BY DEF PullsOK, StoresTyped
<1>2. CASE row2' = row2
  BY <1>1, <1>2 DEF RowMoves
<1>3. ASSUME NEW a \in P!Actor, RowSteps(a) PROVE RowMoves
  <2>1. /\ loc2[a].row \in RowTypes /\ loc2[a].api \in ApiTypes /\ ActorKnows(a)
        /\ loc2[a].p \in PR => gh[loc2[a].p] \in GhTypes
    BY LocIs DEF PullsOK, HubTyped, GhTypes
  <2>2. ASSUME NEW r \in RowTypes, NEW p \in PR, row2' = P!Written(p, r) PROVE RowMoves
    BY <1>1, <2>2, WrittenIs DEF RowMoves
  <2>3. CASE P!InsertImported(a)
    <3>1. loc2[a].p \in PR /\ loc2[a].w \in P!WsId /\ ws[loc2[a].w].there
      BY <2>1, <2>3 DEF P!InsertImported, P!At, ActorKnows, Knows, Importing
    <3>2. CASE row2' = row2
      BY <1>2, <3>2
    <3>3. CASE row2[loc2[a].p].ws = 0
      <4>1. PICK r : r = [ws |-> loc2[a].w, st |-> "open", importing |-> TRUE,
                          head |-> loc2[a].api.head]
        OBVIOUS
      <4>2. r \in RowTypes /\ r.ws = loc2[a].w /\ r.st = "open"
        BY <2>1, <3>1, <4>1 DEF RowTypes, States, ApiTypes, P!WsId
      <4>3. row2' = [row2 EXCEPT ![loc2[a].p] = r]
        BY <2>3, <3>3, <4>1 DEF P!InsertImported
      <4>. QED BY <3>1, <3>3, <4>2, <4>3, NewRow
    <3>. QED BY <2>3, <3>2, <3>3 DEF P!InsertImported
  <2>4. CASE P!InsertOwn(a)
    <3>1. loc2[a].p \in PR /\ loc2[a].w \in P!WsId /\ ws[loc2[a].w].there
      BY <2>1, <2>4 DEF P!InsertOwn, P!At, ActorKnows, Knows, Creating
    <3>2. CASE row2' = row2
      BY <1>2, <3>2
    <3>3. CASE row2[loc2[a].p].ws = 0
      <4>1. PICK r : r = [ws |-> loc2[a].w, st |-> "open", importing |-> FALSE,
                          head |-> gh[loc2[a].p].head]
        OBVIOUS
      <4>2. r \in RowTypes /\ r.ws = loc2[a].w /\ r.st = "open"
        BY <2>1, <3>1, <4>1 DEF RowTypes, States, GhTypes, P!WsId
      <4>3. row2' = [row2 EXCEPT ![loc2[a].p] = r]
        BY <2>4, <3>3, <4>1 DEF P!InsertOwn
      <4>. QED BY <3>1, <3>3, <4>2, <4>3, NewRow
    <3>. QED BY <2>4, <3>2, <3>3 DEF P!InsertOwn
  <2>5. CASE P!Record(a)
    <3>1. PICK r : r = [loc2[a].row EXCEPT !.st = loc2[a].api.st]
      OBVIOUS
    <3>2. r \in RowTypes
      BY <2>1, <3>1 DEF RowTypes, ApiTypes
    <3>3. loc2[a].p \in PR /\ row2' = P!Written(loc2[a].p, r)
      BY <2>1, <2>5, <3>1 DEF P!Record, P!At, ActorKnows, Knows, Updating
    <3>. QED BY <2>2, <3>2, <3>3
  <2>6. CASE P!SetMerging(a)
    <3>1. PICK r : r = [loc2[a].row EXCEPT !.st = "merging"]
      OBVIOUS
    <3>2. r \in RowTypes
      BY <2>1, <3>1 DEF RowTypes, States
    <3>3. loc2[a].p \in PR /\ row2' = P!Written(loc2[a].p, r)
      BY <2>1, <2>6, <3>1 DEF P!SetMerging, P!At, ActorKnows, Knows, Merging
    <3>. QED BY <2>2, <3>2, <3>3
  <2>7. CASE P!Rollback(a)
    <3>1. PICK r : r = [loc2[a].row EXCEPT !.st = "open"]
      OBVIOUS
    <3>2. r \in RowTypes
      BY <2>1, <3>1 DEF RowTypes, States
    <3>3. loc2[a].p \in PR /\ row2' = P!Written(loc2[a].p, r)
      BY <2>1, <2>7, <3>1 DEF P!Rollback, P!At, ActorKnows, Knows, Merging
    <3>. QED BY <2>2, <3>2, <3>3
  <2>8. CASE P!UpdateOwn(a)
    <3>0. loc2[a].p \in PR
      BY <2>1, <2>8 DEF P!UpdateOwn, P!At, ActorKnows, Knows
    <3>1. PICK r : r = [loc2[a].row EXCEPT !.head = gh[loc2[a].p].head, !.importing = FALSE]
      OBVIOUS
    <3>2. r \in RowTypes
      BY <2>1, <3>0, <3>1 DEF RowTypes, GhTypes
    <3>3. row2' = P!Written(loc2[a].p, r)
      BY <2>8, <3>1 DEF P!UpdateOwn
    <3>. QED BY <2>2, <3>0, <3>2, <3>3
  <2>. QED BY <1>3, <2>3, <2>4, <2>5, <2>6, <2>7, <2>8 DEF RowSteps
<1>. QED BY <1>2, <1>3, Cases, GitHubFrame, QuestionFrame, ReceiveFrame, StartsFrame, StepFrame,
            FailFrame DEF StepKeeps, P!vars

(* What becomes of a draft.                                                *)
DraftMoves(w) ==
    /\ ws[w].there => ws'[w].there
    /\ ws'[w].change # NoPR =>
          \/ ws'[w].change = ws[w].change /\ (ws[w].archived => ws'[w].archived)
          \/ ws'[w].archived /\ P!OnTrunk(ws'[w].change) /\ change[ws'[w].change] = "merged"
    /\ ws[w].there /\ ws[w].archived /\ ~ws'[w].archived =>
          \E a \in P!Actor : P!Unarchive(a) /\ loc2[a].w = w
    /\ ws'[w].there /\ ~ws[w].there =>
          \E a \in P!Actor : P!At(a, "import") /\ pc2'[a] = "fetchNew" /\ loc2'[a].w = w

WsMoves == ws' \in [P!WsId -> DraftTypes] /\ \A w \in P!WsId : DraftMoves(w)

LEMMA DraftsSame ==
    ASSUME PullsOK, ws' = ws
    PROVE  WsMoves
BY DEF PullsOK, StoresTyped, WsMoves, DraftMoves

LEMMA OneMoves ==
    ASSUME PullsOK, NEW w \in P!WsId, NEW d \in DraftTypes, ws' = [ws EXCEPT ![w] = d],
           DraftMoves(w)
    PROVE  WsMoves
BY DEF PullsOK, StoresTyped, WsMoves, DraftMoves

LEMMA ArchivesOne ==
    ASSUME PullsOK, NEW w \in P!WsId, ws' = [ws EXCEPT ![w].archived = TRUE]
    PROVE  WsMoves
<1>1. PICK e : e = ws[w]
  OBVIOUS
<1>2. PICK d : d = [e EXCEPT !.archived = TRUE]
  OBVIOUS
<1>3. e \in DraftTypes /\ ws \in [P!WsId -> DraftTypes]
  BY <1>1 DEF PullsOK, StoresTyped
<1>4. d \in DraftTypes /\ d.archived /\ d.there = e.there /\ d.change = e.change
  BY <1>2, <1>3 DEF DraftTypes
<1>5. ws' = [ws EXCEPT ![w] = d] /\ ws'[w] = d
  BY <1>1, <1>2, <1>3
<1>6. DraftMoves(w)
  BY <1>1, <1>4, <1>5 DEF DraftMoves
<1>. QED BY <1>4, <1>5, <1>6, OneMoves

LEMMA WsNext ==
    ASSUME PullsOK, [P!Next]_P!vars
    PROVE  WsMoves
<1>0. ws \in [P!WsId -> DraftTypes] /\ row2 \in [PR -> RowTypes] /\ loc2 \in [P!Actor -> LocTypes]
      /\ pc2 \in [P!Actor -> Places]
  BY DEF PullsOK, StoresTyped, ActorsTyped
<1>1. CASE ws' = ws
  BY <1>1, DraftsSame
<1>2. ASSUME NEW a \in P!Actor, WsSteps(a) PROVE WsMoves
  <2>1. /\ loc2[a].ws \in DraftTypes /\ loc2[a].api \in ApiTypes /\ ActorKnows(a)
        /\ loc2[a].w \in 0..MaxWorkspaces
    BY LocIs
  <2>2. pc2[a] \in OfDraft => loc2[a].w \in P!WsId
    <3>1. pc2[a] \in OfDraft => loc2[a].p \in PR /\ row2[loc2[a].p].ws # 0
                               /\ loc2[a].w = row2[loc2[a].p].ws
      BY <2>1 DEF ActorKnows, Knows, Updating
    <3>. QED BY <2>1, <3>1, PullRequestsAssumption DEF P!WsId
  <2>3. CASE P!ImportPullRequest(a)
    <3>1. CASE UNCHANGED ws
      BY <3>1, <1>1
    <3>2. ASSUME NEW w \in P!WsId, ~ws[w].there,
                 ws' = [ws EXCEPT ![w] = [P!NoWs EXCEPT !.there = TRUE]],
                 loc2' = [loc2 EXCEPT ![a].w = w], P!Goto(a, "fetchNew")
          PROVE  WsMoves
      <4>1. PICK d : d = [P!NoWs EXCEPT !.there = TRUE]
        OBVIOUS
      <4>2. d \in DraftTypes /\ d.there /\ d.change = NoPR /\ ~d.archived
        BY <4>1, PullRequestsAssumption DEF P!NoWs, DraftTypes
      <4>3. ws' = [ws EXCEPT ![w] = d] /\ ws'[w] = d
        BY <1>0, <3>2, <4>1
      <4>4. P!At(a, "import") /\ pc2'[a] = "fetchNew" /\ loc2'[a].w = w
        <5>1. loc2[a] \in LocTypes
          BY <1>0
        <5>2. loc2'[a] = [loc2[a] EXCEPT !.w = w]
          BY <1>0, <3>2
        <5>3. loc2'[a].w = w
          BY <5>1, <5>2 DEF LocTypes
        <5>. QED BY <1>0, <2>3, <3>2, <5>3 DEF P!ImportPullRequest, P!Goto
      <4>5. DraftMoves(w)
        BY <3>2, <4>2, <4>3, <4>4 DEF DraftMoves
      <4>. QED BY <4>2, <4>3, <4>5, OneMoves
    <3>. QED BY <2>3, <3>1, <3>2 DEF P!ImportPullRequest
  <2>4. CASE P!FetchAndSnapshot(a)
    <3>1. loc2[a].w \in P!WsId
      BY <2>1, <2>2, <2>4 DEF P!FetchAndSnapshot, ActorKnows, Knows, OfDraft
    <3>2. PICK w : w = loc2[a].w
      OBVIOUS
    <3>3. PICK e, n : e = ws[w] /\ n = loc2[a].api.head
      OBVIOUS
    <3>4. PICK d : d = [e EXCEPT !.files = n]
      OBVIOUS
    <3>5. e \in DraftTypes /\ n \in Nat /\ w \in P!WsId
      BY <1>0, <2>1, <3>1, <3>2, <3>3 DEF ApiTypes
    <3>6. d \in DraftTypes /\ d.there = e.there /\ d.change = e.change /\ d.archived = e.archived
      BY <3>4, <3>5 DEF DraftTypes
    <3>7. ws' = [ws EXCEPT ![w] = d] /\ ws'[w] = d
      BY <1>0, <2>4, <3>2, <3>3, <3>4, <3>5 DEF P!FetchAndSnapshot
    <3>8. DraftMoves(w)
      BY <3>3, <3>6, <3>7 DEF DraftMoves
    <3>. QED BY <3>5, <3>6, <3>7, <3>8, OneMoves
  <2>5. CASE P!ArchiveImported(a)
    <3>1. loc2[a].w \in P!WsId
      BY <2>1, <2>5 DEF P!ArchiveImported, P!At, ActorKnows, Knows
    <3>. QED BY <2>5, <3>1, ArchivesOne DEF P!ArchiveImported
  <2>6. CASE P!Unarchive(a)
    <3>1. loc2[a].w \in P!WsId
      BY <2>2, <2>6 DEF P!Unarchive, P!At, OfDraft
    <3>2. CASE ws' = [ws EXCEPT ![loc2[a].w].archived = FALSE,
                                ![loc2[a].w].unarchived = TRUE, ![loc2[a].w].change = NoPR]
      <4>1. PICK w : w = loc2[a].w
        OBVIOUS
      <4>2. PICK e : e = ws[w]
        OBVIOUS
      <4>3. PICK d : d = [e EXCEPT !.archived = FALSE, !.unarchived = TRUE, !.change = NoPR]
        OBVIOUS
      <4>4. e \in DraftTypes /\ w \in P!WsId
        BY <1>0, <3>1, <4>1, <4>2
      <4>5. d \in DraftTypes /\ d.there = e.there /\ d.change = NoPR
        BY <4>3, <4>4 DEF DraftTypes
      <4>6. ws' = [ws EXCEPT ![w] = d] /\ ws'[w] = d
        BY <1>0, <3>2, <4>1, <4>2, <4>3, <4>4
      <4>7. DraftMoves(w)
        BY <2>6, <4>1, <4>2, <4>5, <4>6 DEF DraftMoves
      <4>. QED BY <4>4, <4>5, <4>6, <4>7, OneMoves
    <3>. QED BY <1>1, <2>6, <3>2 DEF P!Unarchive
  <2>7. CASE P!Archive(a)
    <3>1. loc2[a].w \in P!WsId
      BY <2>2, <2>7 DEF P!Archive, P!At, OfDraft
    <3>2. CASE ws' = [ws EXCEPT ![loc2[a].w].archived = TRUE, ![loc2[a].w].unarchived = FALSE]
      <4>1. PICK w : w = loc2[a].w
        OBVIOUS
      <4>2. PICK e : e = ws[w]
        OBVIOUS
      <4>3. PICK d : d = [e EXCEPT !.archived = TRUE, !.unarchived = FALSE]
        OBVIOUS
      <4>4. e \in DraftTypes /\ w \in P!WsId
        BY <1>0, <3>1, <4>1, <4>2
      <4>5. d \in DraftTypes /\ d.there = e.there /\ d.change = e.change /\ d.archived
        BY <4>3, <4>4 DEF DraftTypes
      <4>6. ws' = [ws EXCEPT ![w] = d] /\ ws'[w] = d
        BY <1>0, <3>2, <4>1, <4>2, <4>3, <4>4
      <4>7. DraftMoves(w)
        BY <4>2, <4>5, <4>6 DEF DraftMoves
      <4>. QED BY <4>4, <4>5, <4>6, <4>7, OneMoves
    <3>. QED BY <1>1, <2>7, <3>2 DEF P!Archive
  <2>8. CASE P!ArchiveWithChange(a)
    <3>1. /\ loc2[a].w \in P!WsId /\ loc2[a].p \in PR /\ P!OnTrunk(loc2[a].p)
          /\ change[loc2[a].p] = "merged"
      BY <2>1, <2>2, <2>8
         DEF P!ArchiveWithChange, P!At, OfDraft, Updating, Changing, ActorKnows, Knows
    <3>2. CASE ws' = [ws EXCEPT ![loc2[a].w].archived = TRUE,
                                ![loc2[a].w].unarchived = FALSE, ![loc2[a].w].change = loc2[a].p]
      <4>1. PICK w, p : w = loc2[a].w /\ p = loc2[a].p
        OBVIOUS
      <4>2. PICK e : e = ws[w]
        OBVIOUS
      <4>3. PICK d : d = [e EXCEPT !.archived = TRUE, !.unarchived = FALSE, !.change = p]
        OBVIOUS
      <4>4. e \in DraftTypes /\ w \in P!WsId /\ p \in PR
        BY <1>0, <3>1, <4>1, <4>2
      <4>5. d \in DraftTypes /\ d.there = e.there /\ d.change = p /\ d.archived
        BY <4>3, <4>4 DEF DraftTypes
      <4>6. ws' = [ws EXCEPT ![w] = d] /\ ws'[w] = d
        BY <1>0, <3>2, <4>1, <4>2, <4>3, <4>4
      <4>7. DraftMoves(w)
        BY <3>1, <4>1, <4>2, <4>5, <4>6 DEF DraftMoves
      <4>. QED BY <4>4, <4>5, <4>6, <4>7, OneMoves
    <3>. QED BY <1>1, <2>8, <3>2 DEF P!ArchiveWithChange
  <2>. QED BY <1>2, <2>3, <2>4, <2>5, <2>6, <2>7, <2>8 DEF WsSteps
<1>. QED BY <1>1, <1>2, Cases, GitHubFrame, QuestionFrame, ReceiveFrame, StartsFrame,
            StepFrame, FailFrame DEF StepKeeps, P!vars

(* A change that is made for a merge stays.                                *)
ChangeMoves ==
    /\ change' \in [PR -> {"none", "imported", "merged"}]
    /\ \A p \in PR : /\ change[p] = "merged" => change'[p] = "merged"
                     /\ change'[p] = "merged" /\ change[p] # "merged" =>
                           \E a \in P!Actor : /\ P!CreateChange(a) /\ loc2[a].p = p
                                              /\ change[p] = "none"

LEMMA WithParentIs ==
    ASSUME PullsOK, NEW p \in PR
    PROVE  /\ P!WithParent(p) \in [PR -> {"none", "imported", "merged"}]
           /\ \A q \in PR : P!WithParent(p)[q] = change[q]
                            \/ (change[q] = "none" /\ P!WithParent(p)[q] = "imported")
<1>1. /\ change \in [PR -> {"none", "imported", "merged"}] /\ remote2 \in Seq(PR)
      /\ gh[p].base \in 0..Len(remote2) /\ Len(remote2) \in Nat
  BY DEF PullsOK, StoresTyped, HubTyped, HubOK
<1>2. CASE gh[p].base > 0 /\ change[remote2[gh[p].base]] = "none"
  <2>1. PICK b : b = gh[p].base
    OBVIOUS
  <2>2. b \in 1..Len(remote2)
    BY <1>1, <1>2, <2>1
  <2>3. remote2[b] \in PR
    BY <1>1, <2>2, ElementOfSeq
  <2>4. P!WithParent(p) = [change EXCEPT ![remote2[b]] = "imported"] /\ change[remote2[b]] = "none"
    BY <1>2, <2>1 DEF P!WithParent
  <2>. QED BY <1>1, <2>3, <2>4
<1>3. CASE ~(gh[p].base > 0 /\ change[remote2[gh[p].base]] = "none")
  BY <1>1, <1>3 DEF P!WithParent
<1>. QED BY <1>2, <1>3

LEMMA ChangeNext ==
    ASSUME PullsOK, [P!Next]_P!vars
    PROVE  ChangeMoves
<1>0. change \in [PR -> {"none", "imported", "merged"}]
  BY DEF PullsOK, StoresTyped
<1>1. CASE change' = change
  BY <1>0, <1>1 DEF ChangeMoves
<1>2. ASSUME NEW a \in P!Actor, P!CreateChange(a) PROVE ChangeMoves
  <2>1. PICK p : p = loc2[a].p
    OBVIOUS
  <2>2. p \in PR
    BY <1>2, <2>1, LocIs DEF ActorKnows, Knows, P!CreateChange, P!At, Updating, OfDraft, Changing
  <2>3. change' = IF change[p] = "none" THEN [P!WithParent(p) EXCEPT ![p] = "merged"]
                  ELSE P!WithParent(p)
    BY <1>2, <2>1 DEF P!CreateChange
  <2>4. /\ P!WithParent(p) \in [PR -> {"none", "imported", "merged"}]
        /\ \A q \in PR : P!WithParent(p)[q] = change[q]
                         \/ (change[q] = "none" /\ P!WithParent(p)[q] = "imported")
    BY <2>2, WithParentIs
  <2>5. change' \in [PR -> {"none", "imported", "merged"}]
    BY <2>2, <2>3, <2>4
  <2>6. ASSUME NEW q \in PR
        PROVE  /\ change[q] = "merged" => change'[q] = "merged"
               /\ change'[q] = "merged" /\ change[q] # "merged" => q = p /\ change[p] = "none"
    BY <2>2, <2>3, <2>4
  <2>. QED BY <1>2, <2>1, <2>5, <2>6 DEF ChangeMoves
<1>3. CASE P!HeadChange
  <2>1. trunk2 \in Nat /\ trunk2 <= Len(remote2) /\ trunk2 > 0 /\ remote2 \in Seq(PR)
    BY <1>3 DEF P!HeadChange, PullsOK, StoresTyped, HubTyped
  <2>2. remote2[trunk2] \in PR
    BY <2>1, ElementOfSeq
  <2>3. change' = [change EXCEPT ![remote2[trunk2]] = IF @ = "none" THEN "imported" ELSE @]
    BY <1>3 DEF P!HeadChange
  <2>. QED BY <1>0, <2>2, <2>3 DEF ChangeMoves
<1>4. CASE P!UpToDateWithTrunk
  BY <1>1, <1>4 DEF P!UpToDateWithTrunk
<1>. QED BY <1>1, <1>2, <1>3, <1>4, Cases, GitHubFrame, ReceiveFrame, StartsFrame,
            StepFrame, FailFrame DEF StepKeeps, P!vars

LEMMA TrunkIs ==
    ASSUME PullsOK, [P!Next]_P!vars
    PROVE  /\ trunk2' \in 0..Len(remote2') /\ trunk2 \in Nat /\ trunk2 <= trunk2'
           /\ known' \in [head : Nat, upToDate : Nat]
<1>1. /\ trunk2 \in 0..Len(remote2) /\ Len(remote2) \in Nat /\ Len(remote2') \in Nat
      /\ Len(remote2) <= Len(remote2')
  BY HubNext DEF PullsOK, StoresTyped
<1>2. trunk2' = trunk2 \/ \E a \in P!Actor : P!FetchTrunk(a)
  BY Cases, GitHubFrame, QuestionFrame, ReceiveFrame, StartsFrame, StepFrame, FailFrame
     DEF StepKeeps, P!vars
<1>3. ASSUME NEW a \in P!Actor, P!FetchTrunk(a)
      PROVE  trunk2' = Len(remote2) /\ remote2' = remote2
  BY <1>3 DEF P!FetchTrunk, P!hub
<1>4. known \in [head : Nat, upToDate : Nat] /\ P!Unknown \in Nat /\ trunk2 \in Nat
  BY <1>1, PullRequestsAssumption DEF PullsOK, StoresTyped, P!Unknown
<1>5. known' = known \/ P!HeadChange \/ P!UpToDateWithTrunk \/ \E a \in P!Actor : KnownSteps(a)
  BY Cases, GitHubFrame, ReceiveFrame, StartsFrame, StepFrame, FailFrame DEF StepKeeps, P!vars
<1>6. known' \in [head : Nat, upToDate : Nat]
  BY <1>4, <1>5 DEF P!HeadChange, P!UpToDateWithTrunk, KnownSteps, P!UnsetHead, P!UnsetUpToDate,
     P!AfterChange
<1>. QED BY <1>1, <1>2, <1>3, <1>6

(* What everybody may rely on while others move.                           *)
PullsGrowth ==
    /\ \A p \in PR : /\ gh[p].st # "none" => gh'[p].st # "none"
                     /\ gh[p].st = "merged" => gh'[p].st = "merged"
                     /\ row2[p].ws # 0 => row2'[p].ws = row2[p].ws
                     /\ change[p] = "merged" => change'[p] = "merged"
                     /\ P!OnTrunk(p) => P!OnTrunk(p)'
    /\ \A w \in P!WsId : ws[w].there => ws'[w].there

LEMMA PullsGrow ==
    ASSUME PullsOK, [P!Next]_P!vars
    PROVE  PullsGrowth
<1>1. ASSUME NEW p \in PR, P!OnTrunk(p) PROVE P!OnTrunk(p)'
  <2>1. PICK i \in 1..trunk2 : remote2[i] = p
    BY <1>1 DEF P!OnTrunk
  <2>2. trunk2 \in Nat /\ trunk2 <= Len(remote2) /\ Len(remote2) \in Nat
    BY HubNext DEF PullsOK, StoresTyped
  <2>3. i \in 1..Len(remote2) /\ remote2'[i] = p /\ i \in 1..trunk2'
    BY <2>1, <2>2, HubNext, TrunkIs
  <2>. QED BY <2>3 DEF P!OnTrunk
<1>. QED BY <1>1, HubNext, RowsNext, ChangeNext, WsNext
         DEF PullsGrowth, RowMoves, ChangeMoves, WsMoves, DraftMoves

LEMMA StandsAside ==
    ASSUME PullsOK, [P!Next]_P!vars, NEW l \in LocTypes, NEW at \in Places, Knows(at, l)
    PROVE  Knows(at, l)'
<1>1. l.p \in PR \union {NoPR} /\ PullsGrowth
  BY PullsGrow DEF LocTypes
<1>2. l.w \in P!WsId => (ws[l.w].there => ws'[l.w].there)
  BY <1>1 DEF PullsGrowth
<1>3. CASE l.p \in PR
  <2>1. PICK p : p = l.p
    OBVIOUS
  <2>2. /\ gh[p].st # "none" => gh'[p].st # "none"
        /\ gh[p].st = "merged" => gh'[p].st = "merged"
        /\ row2[p].ws # 0 => row2'[p].ws = row2[p].ws
        /\ change[p] = "merged" => change'[p] = "merged"
        /\ P!OnTrunk(p) => P!OnTrunk(p)'
    BY <1>1, <1>3, <2>1 DEF PullsGrowth
  <2>3. at \in Changing => P!OnTrunk(p) /\ P!OnTrunk(l.p)'
    BY <2>1, <2>2 DEF Knows
  <2>4. /\ at \in {"fetchNew", "insert", "archiveNew"} => l.w \in P!WsId /\ ws'[l.w].there
        /\ at \in Creating => l.w \in P!WsId /\ ws'[l.w].there /\ l.op = "create"
        /\ l.p \in PR => gh'[l.p].st # "none"
        /\ l.p \in PR /\ l.api.st = "merged" => gh'[l.p].st = "merged"
        /\ at \in {"after", "archiveWith"} => change'[l.p] = "merged"
    BY <1>2, <1>3, <2>1, <2>2 DEF Knows
  <2>5. at \in Updating \union Merging \union {"edit"} \/ (at = "pushBranch" /\ l.p # NoPR) =>
           l.p \in PR /\ row2'[l.p].ws # 0 /\ l.row.ws = row2'[l.p].ws
    BY <1>3, <2>1, <2>2 DEF Knows
  <2>6. at \in OfDraft => l.w = row2'[l.p].ws
    BY <1>3, <2>1, <2>2 DEF Knows, Updating
  <2>. QED BY <2>3, <2>4, <2>5, <2>6 DEF Knows
<1>4. CASE l.p \notin PR
  <2>1. /\ at \notin Importing /\ at # "archiveNew" /\ at # "insertOwn"
        /\ at \notin Updating /\ at \notin Merging /\ at # "edit" /\ l.p = NoPR
    BY <1>1, <1>4 DEF Knows
  <2>2. at \notin OfDraft /\ at \notin {"load", "record"} /\ at \notin Changing
    BY <2>1 DEF Updating, OfDraft
  <2>3. at \notin {"after", "archiveWith"} /\ at \notin {"merge", "pull"}
        /\ at \notin {"fetchNew", "insert", "archiveNew"} /\ at # "unarchive"
    BY <2>1, <2>2 DEF OfDraft, Changing, Importing
  <2>. QED BY <1>2, <1>4, <2>1, <2>2, <2>3 DEF Knows
<1>. QED BY <1>3, <1>4

-----------------------------------------------------------------------------
(* Where an actor goes, it knows what it needs to know there.              *)

Arrives(a, at, l) == /\ at \in Places /\ l \in LocTypes /\ Turned(a, at, l)
                     /\ Knows(at, l)'
GoesOn(a) == \E at \in Places : \E l \in LocTypes : Arrives(a, at, l)

LEMMA NoLocIs ==
    /\ P!NoLoc \in LocTypes /\ P!NoLoc.p = NoPR /\ P!NoLoc.api.st = "none" /\ P!NoLoc.op = "none"
    /\ P!NoLoc.w = 0
BY PullRequestsAssumption
   DEF P!NoLoc, LocTypes, P!NoApi, ApiTypes, States, P!NoRow, RowTypes, P!NoWs, DraftTypes

LEMMA Ends ==
    ASSUME ActorsTyped, NEW a \in P!Actor, P!Done(a)
    PROVE  GoesOn(a)
<1>1. Turned(a, "idle", P!NoLoc) /\ "idle" \in Places
  BY DEF P!Done, P!Goto, Turned, Places
<1>2. Knows("idle", P!NoLoc)'
  BY NoLocIs, PullRequestsAssumption DEF Knows, Pushing, Importing, Creating, Merging, Updating,
     OfDraft, Changing
<1>. QED BY <1>1, <1>2, NoLocIs DEF GoesOn, Arrives

(* What it knew before it still knows.                                     *)
Sees(a, at, l) == /\ l = loc2[a] /\ pc2[a] = at /\ l \in LocTypes /\ Knows(at, l)
                  /\ l.api \in ApiTypes /\ l.row \in RowTypes /\ l.ws \in DraftTypes
                  /\ l.p \in PR \union {NoPR} /\ l.w \in 0..MaxWorkspaces
                  /\ l.op \in {"none", "event", "push", "merge", "create", "import"}

LEMMA Starts ==
    ASSUME PullsOK, [P!Next]_P!vars, NEW a \in P!Actor, NEW at, pc2[a] = at
    PROVE  \E l \in LocTypes : Sees(a, at, l) /\ Knows(at, l)'
<1>1. PICK l : l = loc2[a]
  OBVIOUS
<1>2. l \in LocTypes /\ at \in Places /\ Knows(at, l)
  BY <1>1, LocIs DEF ActorKnows
<1>3. Knows(at, l)'
  BY <1>2, StandsAside
<1>. QED BY <1>1, <1>2, <1>3 DEF LocTypes, Sees

(* It goes on with the same locals, or with other ones.                    *)
LEMMA Walks ==
    ASSUME ActorsTyped, NEW a \in P!Actor, NEW at, NEW l, Sees(a, at, l), NEW to \in Places,
           P!Goto(a, to), loc2' = loc2, Knows(to, l)'
    PROVE  GoesOn(a)
<1>1. Turned(a, to, l) /\ l \in LocTypes
  BY Stayed DEF Sees, P!Goto
<1>. QED BY <1>1 DEF GoesOn, Arrives

LEMMA Turns ==
    ASSUME NEW a \in P!Actor, NEW to \in Places, NEW m \in LocTypes,
           P!Goto(a, to), loc2' = [loc2 EXCEPT ![a] = m], Knows(to, m)'
    PROVE  GoesOn(a)
BY DEF GoesOn, Arrives, Turned, P!Goto

LEMMA ImportGoesOn ==
    ASSUME PullsOK, [P!Next]_P!vars, NEW a \in P!Actor, P!ImportPullRequest(a)
    PROVE  GoesOn(a)
<1>0. ActorsTyped
  BY DEF PullsOK
<1>1. PICK l \in LocTypes : Sees(a, "import", l) /\ Knows("import", l)'
  BY Starts DEF P!ImportPullRequest, P!At
<1>2. ASSUME NEW w \in P!WsId, ws' = [ws EXCEPT ![w] = [P!NoWs EXCEPT !.there = TRUE]],
             loc2' = [loc2 EXCEPT ![a].w = w], P!Goto(a, "fetchNew")
      PROVE  GoesOn(a)
  <2>1. PICK m : m = [l EXCEPT !.w = w]
    OBVIOUS
  <2>2. m \in LocTypes /\ m.p = l.p /\ m.op = l.op /\ m.api = l.api /\ m.w = w
    BY <1>1, <2>1 DEF LocTypes, P!WsId
  <2>3. loc2' = [loc2 EXCEPT ![a] = m]
    BY <1>1, <1>2, <2>1 DEF Sees
  <2>4. ws'[w].there
    BY <1>2 DEF PullsOK, StoresTyped, P!NoWs
  <2>5. Knows("fetchNew", m)'
    BY <1>1, <2>2, <2>4 DEF Knows, Pushing, Importing, Creating, Merging, Updating, OfDraft,
       Changing
  <2>. QED BY <1>2, <2>2, <2>3, <2>5, Turns DEF Places, Importing
<1>. QED BY <1>0, <1>2, Ends DEF P!ImportPullRequest

LEMMA FetchGoesOn ==
    ASSUME PullsOK, [P!Next]_P!vars, NEW a \in P!Actor, P!FetchAndSnapshot(a)
    PROVE  GoesOn(a)
<1>0. ActorsTyped /\ loc2' = loc2
  BY DEF PullsOK, P!FetchAndSnapshot
<1>1. CASE pc2[a] = "fetchNew"
  <2>1. PICK l \in LocTypes : Sees(a, "fetchNew", l) /\ Knows("fetchNew", l)'
    BY <1>1, Starts
  <2>2. P!Goto(a, "insert")
    BY <1>1 DEF P!FetchAndSnapshot, P!At
  <2>3. Knows("insert", l)'
    BY <2>1 DEF Knows, Pushing, Importing, Creating, Merging, Updating, OfDraft, Changing
  <2>. QED BY <1>0, <2>1, <2>2, <2>3, Walks DEF Places, Importing
<1>2. CASE pc2[a] = "fetch"
  <2>1. PICK l \in LocTypes : Sees(a, "fetch", l) /\ Knows("fetch", l)'
    BY <1>2, Starts
  <2>2. P!Goto(a, "record")
    BY <1>2 DEF P!FetchAndSnapshot, P!At
  <2>3. Knows("record", l)'
    BY <2>1 DEF Knows, Pushing, Importing, Creating, Merging, Updating, OfDraft, Changing
  <2>. QED BY <1>0, <2>1, <2>2, <2>3, Walks DEF Places, Updating
<1>. QED BY <1>1, <1>2 DEF P!FetchAndSnapshot

LEMMA InsertGoesOn ==
    ASSUME PullsOK, [P!Next]_P!vars, NEW a \in P!Actor, P!InsertImported(a)
    PROVE  GoesOn(a)
<1>0. ActorsTyped
  BY DEF PullsOK
<1>1. CASE P!Done(a)
  BY <1>0, <1>1, Ends
<1>2. CASE P!Goto(a, "archiveNew") /\ loc2' = loc2
  <2>1. PICK l \in LocTypes : Sees(a, "insert", l) /\ Knows("insert", l)'
    BY Starts DEF P!InsertImported, P!At
  <2>2. Knows("archiveNew", l)'
    BY <2>1 DEF Knows, Pushing, Importing, Creating, Merging, Updating, OfDraft, Changing
  <2>. QED BY <1>0, <1>2, <2>1, <2>2, Walks DEF Places
<1>. QED BY <1>1, <1>2 DEF P!InsertImported

LEMMA LoadGoesOn ==
    ASSUME PullsOK, [P!Next]_P!vars, NEW a \in P!Actor, P!Load(a)
    PROVE  GoesOn(a)
<1>1. PICK l \in LocTypes : Sees(a, "load", l) /\ Knows("load", l)'
  BY Starts DEF P!Load, P!At
<1>2. l.row.ws \in P!WsId /\ ws[l.row.ws] \in DraftTypes /\ l.row.ws \in 0..MaxWorkspaces
  <2>1. l.row.ws \in 0..MaxWorkspaces /\ l.row.ws # 0
    BY <1>1 DEF Sees, RowTypes, Knows, Updating
  <2>2. l.row.ws \in P!WsId
    BY <2>1, PullRequestsAssumption DEF P!WsId
  <2>. QED BY <2>1, <2>2 DEF PullsOK, StoresTyped
<1>3. PICK d, w : d = ws[l.row.ws] /\ w = l.row.ws
  OBVIOUS
<1>4. PICK m : m = [l EXCEPT !.w = w, !.ws = d]
  OBVIOUS
<1>5. /\ m \in LocTypes /\ m.p = l.p /\ m.op = l.op /\ m.api = l.api /\ m.w = w /\ m.row = l.row
  BY <1>1, <1>2, <1>3, <1>4 DEF LocTypes
<1>6. loc2' = [loc2 EXCEPT ![a] = m]
  BY <1>1, <1>3, <1>4 DEF P!Load, Sees
<1>7. PICK to : to = P!AfterLoad(l)
  OBVIOUS
<1>8. /\ to \in {"unarchive", "archive", "merge", "record"}
      /\ to = "unarchive" => l.api.st = "open"
  BY <1>7 DEF P!AfterLoad
<1>9. P!Goto(a, to) /\ to \in Places
  BY <1>1, <1>7, <1>8 DEF P!Load, Sees, Places, Updating, OfDraft
<1>10. to = "merge" => l.api.st = "merged"
  BY <1>7 DEF P!AfterLoad
<1>11. Knows(to, m)'
  BY <1>1, <1>3, <1>5, <1>8, <1>10 DEF Knows, Pushing, Importing, Creating, Merging, Updating,
     OfDraft, Changing
<1>. QED BY <1>5, <1>6, <1>9, <1>11, Turns

LEMMA ArchiveGoesOn ==
    ASSUME PullsOK, [P!Next]_P!vars, NEW a \in P!Actor, P!Unarchive(a) \/ P!Archive(a) \/ P!ArchiveWithChange(a)
    PROVE  GoesOn(a)
<1>0. ActorsTyped /\ loc2' = loc2
  BY DEF PullsOK, P!Unarchive, P!Archive, P!ArchiveWithChange
<1>1. CASE P!Unarchive(a)
  <2>1. PICK l \in LocTypes : Sees(a, "unarchive", l) /\ Knows("unarchive", l)'
    BY <1>1, Starts DEF P!Unarchive, P!At
  <2>2. P!Goto(a, "fetch")
    BY <1>1 DEF P!Unarchive
  <2>3. Knows("fetch", l)'
    BY <2>1 DEF Knows, Pushing, Importing, Creating, Merging, Updating, OfDraft, Changing
  <2>. QED BY <1>0, <2>1, <2>2, <2>3, Walks DEF Places, Updating, OfDraft
<1>2. CASE P!Archive(a)
  <2>1. PICK l \in LocTypes : Sees(a, "archive", l) /\ Knows("archive", l)'
    BY <1>2, Starts DEF P!Archive, P!At
  <2>2. P!Goto(a, "record")
    BY <1>2 DEF P!Archive
  <2>3. Knows("record", l)'
    BY <2>1 DEF Knows, Pushing, Importing, Creating, Merging, Updating, OfDraft, Changing
  <2>. QED BY <1>0, <2>1, <2>2, <2>3, Walks DEF Places, Updating
<1>3. CASE P!ArchiveWithChange(a)
  <2>1. PICK l \in LocTypes : Sees(a, "archiveWith", l) /\ Knows("archiveWith", l)'
    BY <1>3, Starts DEF P!ArchiveWithChange, P!At
  <2>2. P!Goto(a, "record")
    BY <1>3 DEF P!ArchiveWithChange
  <2>3. Knows("record", l)'
    BY <2>1 DEF Knows, Pushing, Importing, Creating, Merging, Updating, OfDraft, Changing
  <2>. QED BY <1>0, <2>1, <2>2, <2>3, Walks DEF Places, Updating
<1>. QED BY <1>1, <1>2, <1>3

LEMMA MergeGoesOn ==
    ASSUME PullsOK, [P!Next]_P!vars, NEW a \in P!Actor, P!MergePullRequest(a)
    PROVE  GoesOn(a)
<1>1. PICK l \in LocTypes : Sees(a, "merge", l) /\ Knows("merge", l)'
  BY Starts DEF P!MergePullRequest, P!At
<1>2. l.p \in PR /\ row2[l.p].ws # 0 /\ l.w = row2[l.p].ws
  BY <1>1 DEF Sees, Knows, OfDraft, Updating
<1>3. l.w \in P!WsId /\ ws[l.w] \in DraftTypes
  <2>1. l.w \in P!WsId
    BY <1>1, <1>2, PullRequestsAssumption DEF Sees, P!WsId
  <2>. QED BY <2>1 DEF PullsOK, StoresTyped
<1>4. PICK d : d = ws[l.w]
  OBVIOUS
<1>5. PICK m : m = [l EXCEPT !.ws = d]
  OBVIOUS
<1>6. /\ m \in LocTypes /\ m.p = l.p /\ m.op = l.op /\ m.api = l.api /\ m.w = l.w /\ m.row = l.row
  BY <1>1, <1>3, <1>4, <1>5 DEF LocTypes
<1>7. loc2' = [loc2 EXCEPT ![a] = m]
  BY <1>1, <1>4, <1>5 DEF P!MergePullRequest, Sees
<1>8. PICK to : /\ to \in {"record", "change", "pull"}
                /\ P!Goto(a, to)
                /\ to = "change" => P!OnTrunk(l.p)
  BY <1>1 DEF P!MergePullRequest, Sees
<1>9. to = "change" => P!OnTrunk(l.p)'
  <2>1. PICK p : p = l.p
    OBVIOUS
  <2>2. P!OnTrunk(p) => P!OnTrunk(p)'
    BY <1>2, <2>1, PullsGrow DEF PullsGrowth
  <2>. QED BY <1>8, <2>1, <2>2
<1>10. Knows(to, m)'
  BY <1>1, <1>6, <1>8, <1>9 DEF Knows, Pushing, Importing, Creating, Merging, Updating,
     OfDraft, Changing
<1>. QED BY <1>6, <1>7, <1>8, <1>10, Turns DEF Places, Updating, OfDraft, Changing

LEMMA MergedOnTrunk ==
    ASSUME PullsOK, NEW p \in PR, gh[p].st = "merged", trunk2' = Len(remote2), remote2' = remote2
    PROVE  P!OnTrunk(p)'
BY DEF PullsOK, HubOK, InRemote, P!OnTrunk

LEMMA TrunkGoesOn ==
    ASSUME PullsOK, [P!Next]_P!vars, NEW a \in P!Actor, P!FetchTrunk(a)
    PROVE  GoesOn(a)
<1>0. ActorsTyped /\ loc2' = loc2 /\ remote2' = remote2 /\ trunk2' = Len(remote2)
  BY DEF PullsOK, P!FetchTrunk, P!hub
<1>1. CASE pc2[a] = "pull"
  <2>1. PICK l \in LocTypes : Sees(a, "pull", l) /\ Knows("pull", l)'
    BY <1>1, Starts
  <2>2. P!Goto(a, "change")
    BY <1>1 DEF P!FetchTrunk, P!At
  <2>3. PICK p : p = l.p
    OBVIOUS
  <2>4. p \in PR /\ gh[p].st = "merged"
    BY <2>1, <2>3 DEF Sees, Knows, Updating, OfDraft
  <2>5. P!OnTrunk(p)'
    BY <1>0, <2>4, MergedOnTrunk
  <2>6. Knows("change", l)'
    BY <2>1, <2>3, <2>5 DEF Knows, Pushing, Importing, Creating, Merging, Updating, OfDraft,
       Changing
  <2>. QED BY <1>0, <2>1, <2>2, <2>6, Walks DEF Places, Updating, OfDraft, Changing
<1>2. CASE pc2[a] = "fetchTrunk"
  <2>1. PICK l \in LocTypes : Sees(a, "fetchTrunk", l) /\ Knows("fetchTrunk", l)'
    BY <1>2, Starts
  <2>2. P!Goto(a, "unsetHead")
    BY <1>2 DEF P!FetchTrunk, P!At
  <2>3. Knows("unsetHead", l)'
    BY <2>1 DEF Knows, Pushing, Importing, Creating, Merging, Updating, OfDraft, Changing
  <2>. QED BY <1>0, <2>1, <2>2, <2>3, Walks DEF Places, Pushing
<1>. QED BY <1>1, <1>2 DEF P!FetchTrunk

LEMMA ChangeGoesOn ==
    ASSUME PullsOK, [P!Next]_P!vars, NEW a \in P!Actor, P!CreateChange(a) \/ P!AfterChange(a)
    PROVE  GoesOn(a)
<1>0. ActorsTyped /\ loc2' = loc2
  BY DEF PullsOK, P!CreateChange, P!AfterChange
<1>1. CASE P!CreateChange(a)
  <2>1. PICK l \in LocTypes : Sees(a, "change", l) /\ Knows("change", l)'
    BY <1>1, Starts DEF P!CreateChange, P!At
  <2>2. PICK p : p = l.p
    OBVIOUS
  <2>3. p \in PR /\ loc2[a].p = p
    BY <2>1, <2>2 DEF Sees, Knows, Updating, OfDraft, Changing
  <2>4. PICK to : to \in {"after", "record"} /\ P!Goto(a, to) /\ (to = "after" => change[p] = "none")
    BY <1>1, <2>3 DEF P!CreateChange
  <2>5. to = "after" => change'[p] = "merged"
    <3>1. P!WithParent(p) \in [PR -> {"none", "imported", "merged"}]
      BY <2>3, WithParentIs
    <3>. QED BY <1>1, <2>3, <2>4, <3>1 DEF P!CreateChange
  <2>6. Knows(to, l)'
    BY <2>1, <2>2, <2>4, <2>5 DEF Knows, Pushing, Importing, Creating, Merging, Updating,
       OfDraft, Changing
  <2>. QED BY <1>0, <2>1, <2>4, <2>6, Walks DEF Places, Updating, OfDraft, Changing
<1>2. CASE P!AfterChange(a)
  <2>1. PICK l \in LocTypes : Sees(a, "after", l) /\ Knows("after", l)'
    BY <1>2, Starts DEF P!AfterChange, P!At
  <2>2. P!Goto(a, "archiveWith")
    BY <1>2 DEF P!AfterChange
  <2>3. Knows("archiveWith", l)'
    BY <2>1 DEF Knows, Pushing, Importing, Creating, Merging, Updating, OfDraft, Changing
  <2>. QED BY <1>0, <2>1, <2>2, <2>3, Walks DEF Places, Updating, OfDraft, Changing
<1>. QED BY <1>1, <1>2

LEMMA EndingsGoOn ==
    ASSUME PullsOK, [P!Next]_P!vars, NEW a \in P!Actor,
           P!ArchiveImported(a) \/ P!Record(a) \/ P!UnsetUpToDate(a) \/ P!Rollback(a) \/ P!InsertOwn(a)
           \/ P!UpdateOwn(a)
    PROVE  GoesOn(a)
<1>1. ActorsTyped /\ P!Done(a)
  BY DEF PullsOK, P!ArchiveImported, P!Record, P!UnsetUpToDate, P!Rollback, P!InsertOwn,
     P!UpdateOwn
<1>. QED BY <1>1, Ends

LEMMA HeadGoesOn ==
    ASSUME PullsOK, [P!Next]_P!vars, NEW a \in P!Actor, P!UnsetHead(a)
    PROVE  GoesOn(a)
<1>0. ActorsTyped /\ loc2' = loc2 /\ P!Goto(a, "unsetUpToDate")
  BY DEF PullsOK, P!UnsetHead
<1>1. PICK l \in LocTypes : Sees(a, "unsetHead", l) /\ Knows("unsetHead", l)'
  BY Starts DEF P!UnsetHead, P!At
<1>2. Knows("unsetUpToDate", l)'
  BY <1>1 DEF Knows, Pushing, Importing, Creating, Merging, Updating, OfDraft, Changing
<1>. QED BY <1>0, <1>1, <1>2, Walks DEF Places, Pushing

LEMMA MergingGoesOn ==
    ASSUME PullsOK, [P!Next]_P!vars, NEW a \in P!Actor, P!SetMerging(a) \/ P!Ask(a) \/ P!MergeCall(a) \/ P!Get(a)
    PROVE  GoesOn(a)
<1>0. ActorsTyped
  BY DEF PullsOK
<1>1. CASE P!SetMerging(a)
  <2>1. PICK l \in LocTypes : Sees(a, "setMerging", l) /\ Knows("setMerging", l)'
    BY <1>1, Starts DEF P!SetMerging, P!At
  <2>2. PICK x : x = [l.row EXCEPT !.st = "merging"]
    OBVIOUS
  <2>3. PICK m : m = [l EXCEPT !.row = x]
    OBVIOUS
  <2>4. x \in RowTypes /\ x.ws = l.row.ws
    BY <2>1, <2>2 DEF Sees, RowTypes, States
  <2>5. /\ m \in LocTypes /\ m.p = l.p /\ m.op = l.op /\ m.api = l.api /\ m.w = l.w /\ m.row = x
    BY <2>1, <2>3, <2>4 DEF LocTypes
  <2>6. loc2' = [loc2 EXCEPT ![a] = m] /\ P!Goto(a, "ask")
    BY <1>1, <2>1, <2>2, <2>3 DEF P!SetMerging, Sees
  <2>7. Knows("ask", m)'
    BY <2>1, <2>4, <2>5 DEF Knows, Pushing, Importing, Creating, Merging, Updating, OfDraft,
       Changing
  <2>. QED BY <2>5, <2>6, <2>7, Turns DEF Places, Merging
<1>2. ASSUME NEW at \in {"ask", "get"}, pc2[a] = at, P!Goto(a, "load"),
             loc2' = [loc2 EXCEPT ![a].api = P!Api(loc2[a].p)], gh[loc2[a].p].st = "merged" \/ at = "get",
             gh' = gh
      PROVE  GoesOn(a)
  <2>1. PICK l \in LocTypes : Sees(a, at, l) /\ Knows(at, l)'
    BY <1>2, Starts
  <2>2. PICK x : x = P!Api(l.p)
    OBVIOUS
  <2>3. PICK m : m = [l EXCEPT !.api = x]
    OBVIOUS
  <2>4. l.p \in PR /\ gh[l.p] \in GhTypes /\ gh[l.p].st # "none"
    BY <2>1 DEF Sees, Knows, Merging, PullsOK, HubTyped, GhTypes
  <2>5. x \in ApiTypes /\ x.st = gh[l.p].st /\ x.st # "none"
    BY <2>2, <2>4 DEF P!Api, ApiTypes, GhTypes
  <2>6. /\ m \in LocTypes /\ m.p = l.p /\ m.op = l.op /\ m.api = x /\ m.w = l.w /\ m.row = l.row
    BY <2>1, <2>3, <2>5 DEF LocTypes
  <2>7. loc2' = [loc2 EXCEPT ![a] = m]
    BY <1>2, <2>1, <2>2, <2>3 DEF Sees
  <2>8. x.st \in {"open", "closed", "merged"}
    BY <2>4, <2>5 DEF PullsOK, HubOK, GhTypes, States
  <2>9. Knows("load", m)'
    BY <1>2, <2>1, <2>4, <2>5, <2>6, <2>8 DEF Knows, Pushing, Importing, Creating, Merging,
       Updating, OfDraft, Changing
  <2>. QED BY <1>2, <2>6, <2>7, <2>9, Turns DEF Places, Updating
<1>3. ASSUME NEW at \in {"ask", "mergeCall"}, pc2[a] = at, loc2' = loc2,
             NEW to \in {"mergeCall", "rollback", "get"}, P!Goto(a, to)
      PROVE  GoesOn(a)
  <2>1. PICK l \in LocTypes : Sees(a, at, l) /\ Knows(at, l)'
    BY <1>3, Starts
  <2>2. Knows(to, l)'
    BY <1>3, <2>1 DEF Knows, Pushing, Importing, Creating, Merging, Updating, OfDraft, Changing
  <2>. QED BY <1>0, <1>3, <2>1, <2>2, Walks DEF Places, Merging
<1>4. CASE P!Ask(a)
  BY <1>2, <1>3, <1>4 DEF P!Ask, P!At, P!hub
<1>5. CASE P!MergeCall(a)
  BY <1>3, <1>5 DEF P!MergeCall, P!At
<1>6. CASE P!Get(a)
  BY <1>2, <1>6 DEF P!Get, P!At, P!hub
<1>. QED BY <1>1, <1>4, <1>5, <1>6

LEMMA CreatingGoesOn ==
    ASSUME PullsOK, [P!Next]_P!vars, NEW a \in P!Actor, P!PushBranch(a) \/ P!Create(a)
    PROVE  GoesOn(a)
<1>0. ActorsTyped
  BY DEF PullsOK
<1>1. CASE P!PushBranch(a)
  <2>1. PICK l \in LocTypes : Sees(a, "pushBranch", l) /\ Knows("pushBranch", l)'
    BY <1>1, Starts DEF P!PushBranch, P!At
  <2>2. PICK to \in {"create", "edit"} : P!Goto(a, to) /\ (to = "create" <=> l.p = NoPR)
    BY <1>1, <2>1 DEF P!PushBranch, Sees
  <2>3. loc2' = loc2
    BY <1>1 DEF P!PushBranch
  <2>4. Knows(to, l)'
    BY <2>1, <2>2 DEF Knows, Pushing, Importing, Creating, Merging, Updating, OfDraft, Changing
  <2>. QED BY <1>0, <2>1, <2>2, <2>3, <2>4, Walks DEF Places, Creating
<1>2. CASE P!Create(a)
  <2>1. PICK l \in LocTypes : Sees(a, "create", l) /\ Knows("create", l)'
    BY <1>2, Starts DEF P!Create, P!At
  <2>2. ASSUME NEW p \in PR, gh'[p].st = "open", loc2' = [loc2 EXCEPT ![a].p = p],
               P!Goto(a, "insertOwn")
        PROVE  GoesOn(a)
    <3>1. PICK m : m = [l EXCEPT !.p = p]
      OBVIOUS
    <3>2. /\ m \in LocTypes /\ m.p = p /\ m.op = l.op /\ m.api = l.api /\ m.w = l.w
          /\ m.row = l.row
      BY <2>1, <3>1 DEF LocTypes
    <3>3. loc2' = [loc2 EXCEPT ![a] = m]
      BY <2>1, <2>2, <3>1 DEF Sees
    <3>4. l.api.st = "none"
      BY <2>1 DEF Knows, Creating
    <3>5. Knows("insertOwn", m)'
      BY <2>1, <2>2, <3>2, <3>4 DEF Knows, Pushing, Importing, Creating, Merging, Updating,
         OfDraft, Changing
    <3>. QED BY <2>2, <3>2, <3>3, <3>5, Turns DEF Places, Creating
  <2>3. ASSUME NEW p \in PR, gh' = [gh EXCEPT ![p] = [P!NoGH EXCEPT !.st = "open", !.head = 1,
                                                             !.branch = loc2[a].w]]
        PROVE  gh'[p].st = "open"
    BY <2>3 DEF PullsOK, HubTyped, P!NoGH
  <2>. QED BY <1>0, <1>2, <2>2, <2>3, Ends DEF P!Create
<1>. QED BY <1>1, <1>2

LEMMA MergeStarts ==
    ASSUME PullsOK, [P!Next]_P!vars, NEW r \in Request2, NEW w \in P!WsId, P!StartMerge(r, w)
    PROVE  GoesOn(r)
<1>0. ActorsTyped /\ r \in P!Actor
  BY DEF PullsOK, P!Actor
<1>1. PICK p \in P!Rows(w, {"open"}) :
          P!Begin(r, [P!NoLoc EXCEPT !.op = "merge", !.p = p, !.row = row2[p], !.w = w], "setMerging")
  BY DEF P!StartMerge
<1>2. p \in PR /\ row2[p].ws = w /\ row2[p] \in RowTypes /\ w # 0 /\ w \in 0..MaxWorkspaces
  BY PullRequestsAssumption DEF P!Rows, PullsOK, StoresTyped, P!WsId
<1>3. PICK x : x = row2[p]
  OBVIOUS
<1>4. PICK m : m = [P!NoLoc EXCEPT !.op = "merge", !.p = p, !.row = x, !.w = w]
  OBVIOUS
<1>5. /\ m \in LocTypes /\ m.op = "merge" /\ m.p = p /\ m.row = x /\ m.w = w /\ m.api.st = "none"
  BY <1>2, <1>3, <1>4, NoLocIs DEF LocTypes
<1>6. loc2' = [loc2 EXCEPT ![r] = m] /\ P!Goto(r, "setMerging")
  BY <1>1, <1>3, <1>4 DEF P!Begin
<1>7. gh[p].st # "none" /\ row2'[p].ws = w /\ gh'[p].st # "none"
  <2>1. gh[p].st # "none"
    BY <1>2 DEF PullsOK, HubOK
  <2>. QED BY <1>2, <2>1, PullsGrow DEF PullsGrowth
<1>8. Knows("setMerging", m)'
  BY <1>2, <1>3, <1>5, <1>7 DEF Knows, Pushing, Importing, Creating, Merging, Updating, OfDraft,
     Changing
<1>. QED BY <1>0, <1>5, <1>6, <1>8, Turns DEF Places, Merging

LEMMA CreateStarts ==
    ASSUME PullsOK, [P!Next]_P!vars, NEW r \in Request2, NEW w \in P!WsId, P!StartCreate(r, w)
    PROVE  GoesOn(r)
<1>0. r \in P!Actor /\ w \in 0..MaxWorkspaces /\ w # 0 /\ ws'[w].there
  <2>1. ws[w].there
    BY DEF P!StartCreate
  <2>2. ws'[w].there
    BY <2>1, PullsGrow DEF PullsGrowth
  <2>. QED BY <2>2, PullRequestsAssumption DEF P!Actor, P!WsId
<1>1. CASE P!Begin(r, [P!NoLoc EXCEPT !.op = "create", !.w = w], "pushBranch")
  <2>1. PICK m : m = [P!NoLoc EXCEPT !.op = "create", !.w = w]
    OBVIOUS
  <2>2. m \in LocTypes /\ m.op = "create" /\ m.p = NoPR /\ m.w = w /\ m.api.st = "none"
    BY <1>0, <2>1, NoLocIs DEF LocTypes
  <2>3. loc2' = [loc2 EXCEPT ![r] = m] /\ P!Goto(r, "pushBranch")
    BY <1>1, <2>1 DEF P!Begin
  <2>4. Knows("pushBranch", m)'
    BY <1>0, <2>2, PullRequestsAssumption
       DEF Knows, Pushing, Importing, Creating, Merging, Updating,
       OfDraft, Changing
  <2>. QED BY <1>0, <2>2, <2>3, <2>4, Turns DEF Places, Creating
<1>2. ASSUME NEW p \in P!Rows(w, {"open"}),
             P!Begin(r, [P!NoLoc EXCEPT !.op = "create", !.p = p, !.row = row2[p], !.w = w],
                   "pushBranch")
      PROVE  GoesOn(r)
  <2>1. p \in PR /\ row2[p].ws = w /\ row2[p] \in RowTypes
    BY DEF P!Rows, PullsOK, StoresTyped
  <2>2. PICK x : x = row2[p]
    OBVIOUS
  <2>3. PICK m : m = [P!NoLoc EXCEPT !.op = "create", !.p = p, !.row = x, !.w = w]
    OBVIOUS
  <2>4. /\ m \in LocTypes /\ m.op = "create" /\ m.p = p /\ m.row = x /\ m.w = w
        /\ m.api.st = "none"
    BY <1>0, <2>1, <2>2, <2>3, NoLocIs DEF LocTypes
  <2>5. loc2' = [loc2 EXCEPT ![r] = m] /\ P!Goto(r, "pushBranch")
    BY <1>2, <2>2, <2>3 DEF P!Begin
  <2>6. row2'[p].ws = w /\ gh'[p].st # "none"
    <3>1. gh[p].st # "none"
      BY <1>0, <2>1 DEF PullsOK, HubOK
    <3>. QED BY <1>0, <2>1, <3>1, PullsGrow DEF PullsGrowth
  <2>7. Knows("pushBranch", m)'
    BY <1>0, <2>1, <2>2, <2>4, <2>6 DEF Knows, Pushing, Importing, Creating, Merging, Updating,
       OfDraft, Changing
  <2>. QED BY <1>0, <2>4, <2>5, <2>7, Turns DEF Places, Creating
<1>. QED BY <1>1, <1>2 DEF P!StartCreate

LEMMA ImportStarts ==
    ASSUME PullsOK, [P!Next]_P!vars, NEW r \in Request2, NEW p \in PR, P!StartImport(r, p)
    PROVE  GoesOn(r)
<1>1. PICK x : x = P!Api(p)
  OBVIOUS
<1>2. gh[p] \in GhTypes /\ gh[p].st = "open" /\ r \in P!Actor
  BY DEF PullsOK, HubTyped, GhTypes, P!StartImport, P!Actor
<1>3. x \in ApiTypes /\ x.st = "open"
  BY <1>1, <1>2 DEF P!Api, ApiTypes, GhTypes, States
<1>4. PICK m : m = [P!NoLoc EXCEPT !.op = "import", !.p = p, !.api = x]
  OBVIOUS
<1>5. m \in LocTypes /\ m.op = "import" /\ m.p = p /\ m.api = x
  BY <1>3, <1>4, NoLocIs DEF LocTypes
<1>6. loc2' = [loc2 EXCEPT ![r] = m] /\ P!Goto(r, "import")
  BY <1>1, <1>4 DEF P!StartImport, P!Begin
<1>7. gh'[p].st # "none"
  BY <1>2, PullsGrow DEF PullsGrowth
<1>8. Knows("import", m)'
  BY <1>3, <1>5, <1>7 DEF Knows, Pushing, Importing, Creating, Merging, Updating, OfDraft,
     Changing
<1>. QED BY <1>2, <1>5, <1>6, <1>8, Turns DEF Places, Importing

LEMMA Webhook ==
    ASSUME PullsOK, NEW p \in PR, NEW i \in DOMAIN inbox[p]
    PROVE  /\ inbox[p][i] \in ApiTypes /\ inbox[p][i].st \in {"open", "closed", "merged"}
           /\ inbox[p][i].st = "merged" => gh[p].st = "merged"
           /\ gh[p].st # "none" /\ i \in 1..Len(inbox[p])
<1>1. inbox[p] \in Seq(ApiTypes) /\ HubOK(p)
  BY DEF PullsOK, HubTyped
<1>2. i \in 1..Len(inbox[p]) /\ inbox[p][i] \in ApiTypes /\ inbox[p] # <<>>
  BY <1>1, ElementOfSeq
<1>. QED BY <1>1, <1>2 DEF HubOK

LEMMA ReceiveGoesOn ==
    ASSUME PullsOK, [P!Next]_P!vars, NEW k \in Worker, NEW p \in PR, NEW i \in DOMAIN inbox[p],
           P!Receive(k, p, i)
    PROVE  GoesOn(k)
<1>0. ActorsTyped /\ k \in P!Actor /\ pc2[k] = "idle" /\ row2[p] \in RowTypes
  BY DEF PullsOK, P!Actor, P!Receive, P!At, StoresTyped
<1>1. PICK x, y : x = inbox[p][i] /\ y = row2[p]
  OBVIOUS
<1>2. /\ x \in ApiTypes /\ x.st \in {"open", "closed", "merged"}
      /\ x.st = "merged" => gh'[p].st = "merged"
      /\ gh'[p].st # "none"
  BY <1>1, Webhook, PullsGrow DEF PullsGrowth
<1>3. PICK to : to = P!Handling(p, x)
  OBVIOUS
<1>4. to \in {"idle", "import", "load"} /\ (to = "load" => row2[p].ws # 0)
  BY <1>3 DEF P!Handling
<1>5. CASE to = "idle"
  <2>1. P!Goto(k, "idle") /\ loc2' = loc2
    BY <1>1, <1>3, <1>5 DEF P!Receive
  <2>2. PICK l \in LocTypes : Sees(k, "idle", l) /\ Knows("idle", l)'
    BY <1>0, Starts
  <2>. QED BY <1>0, <2>1, <2>2, Walks DEF Places
<1>6. CASE to # "idle"
  <2>1. PICK m : m = [P!NoLoc EXCEPT !.op = "event", !.p = p, !.api = x, !.row = y]
    OBVIOUS
  <2>2. /\ m \in LocTypes /\ m.op = "event" /\ m.p = p /\ m.api = x /\ m.row = y
    BY <1>0, <1>1, <1>2, <2>1, NoLocIs DEF LocTypes
  <2>3. loc2' = [loc2 EXCEPT ![k] = m] /\ P!Goto(k, to)
    BY <1>1, <1>3, <1>6, <2>1 DEF P!Receive
  <2>4. to = "load" => row2'[p].ws # 0 /\ m.row.ws = row2'[p].ws
    BY <1>1, <1>4, <2>2, PullsGrow DEF PullsGrowth
  <2>5. Knows(to, m)'
    BY <1>2, <1>4, <1>6, <2>2, <2>4 DEF Knows, Pushing, Importing, Creating, Merging,
       Updating, OfDraft, Changing
  <2>. QED BY <1>0, <1>4, <2>2, <2>3, <2>5, Turns DEF Places, Importing, Updating
<1>. QED BY <1>5, <1>6

LEMMA PushGoesOn ==
    ASSUME PullsOK, [P!Next]_P!vars, NEW k \in Worker, P!ReceivePush(k)
    PROVE  GoesOn(k)
<1>1. PICK m : m = [P!NoLoc EXCEPT !.op = "push"]
  OBVIOUS
<1>2. m \in LocTypes /\ m.op = "push" /\ m.p = NoPR
  BY <1>1, NoLocIs DEF LocTypes
<1>3. loc2' = [loc2 EXCEPT ![k] = m] /\ P!Goto(k, "fetchTrunk") /\ k \in P!Actor
  BY <1>1 DEF P!ReceivePush, P!Actor
<1>4. Knows("fetchTrunk", m)'
  BY <1>2, PullRequestsAssumption
     DEF Knows, Pushing, Importing, Creating, Merging, Updating, OfDraft,
     Changing
<1>. QED BY <1>2, <1>3, <1>4, Turns DEF Places, Pushing

LEMMA FailGoesOn ==
    ASSUME PullsOK, [P!Next]_P!vars, NEW a \in P!Actor, P!Fail(a)
    PROVE  GoesOn(a)
<1>0. ActorsTyped
  BY DEF PullsOK
<1>1. CASE P!Done(a)
  BY <1>0, <1>1, Ends
<1>2. ASSUME NEW at \in {"ask", "mergeCall"}, pc2[a] = at, loc2' = loc2,
             NEW to \in {"mergeCall", "rollback"}, P!Goto(a, to)
      PROVE  GoesOn(a)
  <2>1. PICK l \in LocTypes : Sees(a, at, l) /\ Knows(at, l)'
    BY <1>2, Starts
  <2>2. Knows(to, l)'
    BY <1>2, <2>1 DEF Knows, Pushing, Importing, Creating, Merging, Updating, OfDraft, Changing
  <2>. QED BY <1>0, <1>2, <2>1, <2>2, Walks DEF Places, Merging
<1>3. ASSUME NEW at \in {"fetchNew", "insert"}, pc2[a] = at, loc2' = loc2,
             P!Goto(a, "archiveNew")
      PROVE  GoesOn(a)
  <2>1. PICK l \in LocTypes : Sees(a, at, l) /\ Knows(at, l)'
    BY <1>3, Starts
  <2>2. Knows("archiveNew", l)'
    BY <1>3, <2>1 DEF Knows, Pushing, Importing, Creating, Merging, Updating, OfDraft, Changing
  <2>. QED BY <1>0, <1>3, <2>1, <2>2, Walks DEF Places
<1>4. \/ P!Done(a)
      \/ /\ P!At(a, "fetchNew") \/ P!At(a, "insert")
         /\ P!Goto(a, "archiveNew") /\ loc2' = loc2
      \/ P!At(a, "ask") /\ P!Goto(a, "mergeCall") /\ loc2' = loc2
      \/ P!At(a, "mergeCall") /\ P!Goto(a, "rollback") /\ loc2' = loc2
  BY DEF P!Fail
<1>. QED BY <1>1, <1>2, <1>3, <1>4 DEF P!At

LEMMA StepGoesOn ==
    ASSUME PullsOK, [P!Next]_P!vars, NEW a \in P!Actor, P!Step(a)
    PROVE  GoesOn(a)
BY ImportGoesOn, FetchGoesOn, InsertGoesOn, LoadGoesOn, ArchiveGoesOn, MergeGoesOn, TrunkGoesOn,
   ChangeGoesOn, EndingsGoOn, HeadGoesOn, MergingGoesOn, CreatingGoesOn
   DEF P!Step, P!UpdateStep, P!MergeStep, P!CreateStep

(* Somebody moves, or nobody does.                                         *)
Mover(a) == \/ P!Step(a) \/ P!Fail(a) \/ (a \in Worker /\ P!Receiving(a))
            \/ (a \in Request2 /\ P!Start(a))
LEMMA MoverGoesOn ==
    ASSUME PullsOK, [P!Next]_P!vars, NEW a \in P!Actor, Mover(a)
    PROVE  GoesOn(a)
<1>1. CASE P!Step(a)
  BY <1>1, StepGoesOn
<1>2. CASE P!Fail(a)
  BY <1>2, FailGoesOn
<1>3. CASE a \in Worker /\ P!Receiving(a)
  BY <1>3, ReceiveGoesOn, PushGoesOn DEF P!Receiving
<1>4. CASE a \in Request2 /\ P!Start(a)
  BY <1>4, MergeStarts, CreateStarts, ImportStarts DEF P!Start
<1>. QED BY <1>1, <1>2, <1>3, <1>4 DEF Mover

LEMMA ActorsNext ==
    ASSUME PullsOK, [P!Next]_P!vars
    PROVE  /\ ActorsTyped' /\ \A a \in P!Actor : ActorKnows(a)'
           /\ \A a \in P!Actor : Mover(a) => \A b \in P!Actor \ {a} : pc2'[b] = pc2[b] /\ loc2'[b] = loc2[b]
           /\ (\A a \in P!Actor : ~Mover(a)) => pc2' = pc2 /\ loc2' = loc2
<1>1. ActorsTyped
  BY DEF PullsOK
<1>2. ASSUME NEW a \in P!Actor, pc2'[a] = pc2[a], loc2'[a] = loc2[a]
      PROVE  ActorKnows(a)'
  <2>1. PICK l, at : l = loc2[a] /\ at = pc2[a]
    OBVIOUS
  <2>2. l \in LocTypes /\ at \in Places /\ Knows(at, l)
    BY <2>1, LocIs DEF ActorKnows
  <2>3. Knows(at, l)'
    BY <2>2, StandsAside
  <2>. QED BY <1>2, <2>1, <2>3 DEF ActorKnows
<1>3. CASE pc2' = pc2 /\ loc2' = loc2
  BY <1>1, <1>2, <1>3 DEF ActorsTyped
<1>4. ASSUME NEW a \in P!Actor, Mover(a)
      PROVE  /\ ActorsTyped' /\ \A b \in P!Actor : ActorKnows(b)'
             /\ \A b \in P!Actor \ {a} : pc2'[b] = pc2[b] /\ loc2'[b] = loc2[b]
  <2>1. PICK at \in Places, l \in LocTypes : Arrives(a, at, l)
    BY <1>4, MoverGoesOn DEF GoesOn
  <2>2. /\ pc2'[a] = at /\ loc2'[a] = l /\ ActorsTyped'
        /\ \A b \in P!Actor \ {a} : pc2'[b] = pc2[b] /\ loc2'[b] = loc2[b]
    BY <1>1, <2>1, Went DEF Arrives
  <2>3. ActorKnows(a)'
    BY <2>1, <2>2 DEF Arrives, ActorKnows
  <2>. QED BY <1>2, <2>2, <2>3
<1>5. (\A a \in P!Actor : ~Mover(a)) => pc2' = pc2 /\ loc2' = loc2
  BY Cases, GitHubFrame, QuestionFrame DEF Mover, P!vars
<1>. QED BY <1>3, <1>4, <1>5

-----------------------------------------------------------------------------
(* The invariant after a step.                                             *)

LEMMA HubStays ==
    ASSUME PullsOK, [P!Next]_P!vars, NEW p \in PR
    PROVE  HubOK(p)'
<1>0. /\ HubOK(p) /\ gh[p] \in GhTypes /\ inbox[p] \in Seq(ApiTypes) /\ remote2 \in Seq(PR)
      /\ Len(remote2) \in Nat /\ Len(remote2') \in Nat /\ Len(remote2) <= Len(remote2')
      /\ \A i \in 1..Len(remote2) : remote2'[i] = remote2[i]
      /\ HubTyped' /\ Moves(p) /\ Grown /\ PullsGrowth
  BY HubNext, SomebodyMoves, PullsGrow DEF PullsOK, HubTyped, GhTypes, HubMoves
<1>1. gh'[p].base \in 0..Len(remote2')
  BY <1>0 DEF HubOK, Moves, Tells, Hears
<1>2. gh'[p].st = "merged" <=> InRemote(p)'
  <2>1. CASE remote2' = remote2 /\ SameMerges(p)
    BY <1>0, <2>1 DEF HubOK, InRemote, SameMerges
  <2>2. ASSUME NEW q \in PR, remote2' = Append(remote2, q), gh'[q].st = "merged",
               p # q => SameMerges(p)
        PROVE  gh'[p].st = "merged" <=> InRemote(p)'
    <3>1. remote2' = Append(remote2, q) /\ Len(remote2') = Len(remote2) + 1
          /\ remote2'[Len(remote2) + 1] = q
      BY <1>0, <2>2
    <3>2. CASE p = q
      BY <1>0, <2>2, <3>1, <3>2 DEF InRemote
    <3>3. CASE p # q
      <4>1. InRemote(p)' <=> InRemote(p)
        BY <1>0, <3>1, <3>3 DEF InRemote
      <4>. QED BY <1>0, <2>2, <3>3, <4>1 DEF HubOK, SameMerges
    <3>. QED BY <3>2, <3>3
  <2>. QED BY <1>0, <2>1, <2>2 DEF Grown
<1>3. gh'[p].st = "none" => inbox'[p] = <<>> /\ row2'[p].ws = 0
  <2>1. ASSUME gh'[p].st = "none" PROVE inbox'[p] = <<>> /\ row2'[p].ws = 0
    <3>1. gh[p].st = "none"
      BY <1>0, <2>1, HubNext
    <3>2. inbox[p] = <<>> /\ row2[p].ws = 0
      BY <1>0, <3>1 DEF HubOK
    <3>3. DOMAIN inbox[p] = {}
      BY <3>2
    <3>4. inbox'[p] = <<>>
      BY <1>0, <2>1, <3>2, <3>3 DEF Moves, Tells, Hears
    <3>5. row2'[p].ws = 0
      <4>1. \A a \in P!Actor : loc2[a].p # p
        BY <3>1, LocIs DEF ActorKnows, Knows
      <4>. QED BY <3>2, <4>1, RowsNext DEF RowMoves
    <3>. QED BY <3>4, <3>5
  <2>. QED BY <2>1
<1>4. \A i \in 1..Len(inbox'[p]) :
          /\ inbox'[p][i].st \in {"open", "closed", "merged"}
          /\ inbox'[p][i].st = "merged" => gh'[p].st = "merged" /\ i = Len(inbox'[p])
  <2>1. CASE gh'[p] = gh[p] /\ inbox'[p] = inbox[p]
    BY <1>0, <2>1 DEF HubOK
  <2>2. CASE Tells(p)
    <3>1. PICK x : x = [st |-> gh'[p].st, head |-> gh'[p].head]
      OBVIOUS
    <3>2. x.st = gh'[p].st
      BY <3>1
    <3>3. inbox'[p] = Append(inbox[p], x)
      BY <2>2, <3>1 DEF Tells
    <3>4. /\ Len(inbox'[p]) = Len(inbox[p]) + 1 /\ Len(inbox[p]) \in Nat
          /\ inbox'[p][Len(inbox[p]) + 1] = x
          /\ \A i \in 1..Len(inbox[p]) : inbox'[p][i] = inbox[p][i]
      BY <1>0, <3>3, AppendProperties
    <3>5. \A i \in 1..Len(inbox[p]) : inbox[p][i].st \in {"open", "closed"}
      BY <1>0, <2>2 DEF HubOK, Tells
    <3>. QED BY <2>2, <3>2, <3>4, <3>5 DEF Tells
  <2>3. CASE Hears(p)
    <3>1. PICK i \in DOMAIN inbox[p] : inbox'[p] = P!Without(inbox[p], i)
      BY <2>3 DEF Hears
    <3>2. PICK s, t, n : s = inbox[p] /\ t = inbox'[p] /\ n = Len(inbox[p])
      OBVIOUS
    <3>3. s \in Seq(ApiTypes) /\ i \in DOMAIN s /\ t = P!Without(s, i) /\ n \in Nat /\ n = Len(s)
      BY <1>0, <3>1, <3>2
    <3>4. /\ Len(t) = n - 1 /\ i \in 1..n
          /\ \A j \in 1..(n - 1) : t[j] = IF j < i THEN s[j] ELSE s[j + 1]
      <4>1. PICK S : S = ApiTypes
        OBVIOUS
      <4>2. s \in Seq(S) /\ i \in DOMAIN s
        BY <3>3, <4>1
      <4>3. /\ Len(P!Without(s, i)) = Len(s) - 1
            /\ \A j \in 1..Len(P!Without(s, i)) :
                  P!Without(s, i)[j] = IF j < i THEN s[j] ELSE s[j + 1]
        BY <4>2, WithoutIs
      <4>4. i \in 1..n /\ Len(t) = n - 1
        BY <3>3, <4>3
      <4>. QED BY <3>3, <4>3, <4>4
    <3>5. gh'[p] = gh[p]
      BY <2>3 DEF Hears
    <3>6. \A j \in 1..n : /\ s[j].st \in {"open", "closed", "merged"}
                          /\ s[j].st = "merged" => gh[p].st = "merged" /\ j = n
      BY <1>0, <3>2 DEF HubOK
    <3>7. ASSUME NEW j \in 1..(n - 1)
          PROVE  /\ t[j].st \in {"open", "closed", "merged"}
                 /\ t[j].st = "merged" => gh[p].st = "merged" /\ j = n - 1
      <4>1. j \in 1..n /\ j + 1 \in 1..n /\ (j = n => FALSE)
        BY <3>3
      <4>. QED BY <3>3, <3>4, <3>6, <4>1
    <3>. QED BY <3>2, <3>4, <3>5, <3>7
  <2>. QED BY <1>0, <2>1, <2>2, <2>3 DEF Moves
<1>5. change'[p] = "merged" => P!OnTrunk(p)'
  <2>1. CASE change[p] = "merged"
    BY <1>0, <2>1 DEF HubOK, PullsGrowth
  <2>2. CASE change'[p] = "merged" /\ change[p] # "merged"
    <3>1. PICK a \in P!Actor : P!CreateChange(a) /\ loc2[a].p = p
      BY <2>2, ChangeNext DEF ChangeMoves
    <3>2. P!OnTrunk(p)
      BY <3>1, LocIs DEF ActorKnows, Knows, P!CreateChange, P!At, Changing
    <3>. QED BY <1>0, <3>2 DEF PullsGrowth
  <2>. QED BY <2>1, <2>2
<1>. QED BY <1>1, <1>2, <1>3, <1>4, <1>5 DEF HubOK

LEMMA StoresNext ==
    ASSUME PullsOK, [P!Next]_P!vars
    PROVE  StoresTyped'
BY RowsNext, WsNext, ChangeNext, TrunkIs DEF RowMoves, WsMoves, ChangeMoves, StoresTyped, P!WsId

LEMMA ThereStays ==
    ASSUME PullsOK, [P!Next]_P!vars
    PROVE  DraftsThere'
<1>1. ASSUME NEW p \in PR, row2'[p].ws # 0 PROVE ws'[row2'[p].ws].there
  <2>1. PICK w : w = row2'[p].ws
    OBVIOUS
  <2>2. row2[p] \in RowTypes /\ RowMoves /\ PullsGrowth
    BY RowsNext, PullsGrow DEF PullsOK, StoresTyped
  <2>3. CASE row2[p].ws = w
    <3>1. ws[w].there /\ w \in P!WsId
      BY <1>1, <2>1, <2>2, <2>3, PullRequestsAssumption DEF PullsOK, DraftsThere, RowTypes, P!WsId
    <3>. QED BY <2>1, <2>2, <3>1 DEF PullsGrowth
  <2>4. CASE row2[p].ws # w
    BY <2>1, <2>2, <2>4 DEF RowMoves, PullsGrowth
  <2>. QED BY <2>3, <2>4
<1>. QED BY <1>1 DEF DraftsThere

LEMMA ArchivedStays ==
    ASSUME PullsOK, [P!Next]_P!vars
    PROVE  P!ArchivedWhenMerged'
<1>1. ASSUME NEW w \in P!WsId, NEW p, p = ws'[w].change, p # NoPR
      PROVE  ws'[w].archived /\ P!OnTrunk(p)' /\ change'[p] = "merged"
  <2>1. /\ ws[w] \in DraftTypes /\ ws' \in [P!WsId -> DraftTypes] /\ DraftMoves(w) /\ PullsGrowth
        /\ P!ArchivedWhenMerged
    BY WsNext, PullsGrow DEF PullsOK, StoresTyped, WsMoves
  <2>2. p \in PR
    BY <1>1, <2>1 DEF DraftTypes
  <2>3. ws'[w].archived /\ P!OnTrunk(p) /\ change[p] = "merged"
    BY <1>1, <2>1 DEF DraftMoves, P!ArchivedWhenMerged
  <2>. QED BY <2>1, <2>2, <2>3 DEF PullsGrowth
<1>2. ASSUME NEW w \in P!WsId, ws'[w].change # NoPR
      PROVE  ws'[w].archived /\ P!OnTrunk(ws[w].change)' /\ change'[ws'[w].change] = "merged"
  <2>1. PICK p : p = ws'[w].change
    OBVIOUS
  <2>2. ws'[w].archived /\ P!OnTrunk(p)' /\ change'[p] = "merged"
    BY <1>1, <1>2, <2>1
  <2>. QED BY <2>1, <2>2 DEF P!OnTrunk
<1>. QED BY <1>2 DEF P!ArchivedWhenMerged, P!OnTrunk

LEMMA StrandedGrows ==
    ASSUME [P!Next]_P!vars
    PROVE  stranded \subseteq stranded'
<1>1. ASSUME NEW a \in P!Actor, P!Step(a) PROVE stranded' = stranded
  BY <1>1, StepFrame DEF StepKeeps
<1>. QED BY <1>1, Cases, GitHubFrame, QuestionFrame, ReceiveFrame, StartsFrame, FailFrame
         DEF P!vars

(* A draft that an import has made is in its hands until it has the row,   *)
(* is archived, or is stranded.                                            *)
LEMMA HandledStays ==
    ASSUME PullsOK, [P!Next]_P!vars, NEW a \in P!Actor, pc2[a] \in P!HasDraft,
           NEW w \in P!WsId, loc2[a].w = w
    PROVE  \/ \E p \in PR : row2'[p].ws = w
           \/ pc2'[a] \in P!HasDraft /\ loc2'[a].w = w
           \/ w \in stranded' \/ ws'[w].archived
<1>0. ActorsTyped /\ ws \in [P!WsId -> DraftTypes]
  BY DEF PullsOK, StoresTyped
<1>1. ASSUME NEW at \in P!HasDraft, P!Goto(a, at), loc2' = loc2
      PROVE  pc2'[a] \in P!HasDraft /\ loc2'[a].w = w
  BY <1>0, <1>1 DEF P!Goto, ActorsTyped
<1>2. CASE ~Mover(a)
  BY <1>2, ActorsNext
<1>3. CASE P!FetchAndSnapshot(a)
  BY <1>1, <1>3 DEF P!FetchAndSnapshot, P!At, P!HasDraft
<1>4. CASE P!InsertImported(a)
  <2>1. CASE row2[loc2[a].p].ws = 0
    <3>1. loc2[a].p \in PR
      BY <1>4, LocIs DEF P!InsertImported, P!At, ActorKnows, Knows, Importing
    <3>2. PICK p, r : p = loc2[a].p /\ r = [ws |-> loc2[a].w, st |-> "open", importing |-> TRUE,
                                           head |-> loc2[a].api.head]
      OBVIOUS
    <3>3. row2' = [row2 EXCEPT ![p] = r] /\ r.ws = w
      BY <1>4, <2>1, <3>2 DEF P!InsertImported
    <3>4. row2'[p].ws = w /\ p \in PR
      BY <3>1, <3>2, <3>3 DEF PullsOK, StoresTyped
    <3>. QED BY <3>4
  <2>2. CASE row2[loc2[a].p].ws # 0
    BY <1>1, <1>4, <2>2 DEF P!InsertImported, P!HasDraft
  <2>. QED BY <2>1, <2>2
<1>5. CASE P!ArchiveImported(a)
  <2>1. ws' = [ws EXCEPT ![w].archived = TRUE]
    BY <1>5 DEF P!ArchiveImported
  <2>. QED BY <1>0, <2>1 DEF DraftTypes
<1>6. CASE P!Fail(a)
  <2>1. CASE P!Done(a)
    <3>1. pc2'[a] = "idle"
      BY <1>0, <2>1 DEF P!Done, P!Goto, ActorsTyped
    <3>. QED BY <1>6, <3>1 DEF P!Fail
  <2>2. ~P!Done(a) => P!Goto(a, "archiveNew") /\ loc2' = loc2
    BY <1>6 DEF P!Fail, P!At, P!HasDraft
  <2>. QED BY <1>1, <2>1, <2>2 DEF P!HasDraft
<1>7. CASE P!Step(a)
  BY <1>3, <1>4, <1>5, <1>7
     DEF P!HasDraft, P!Step, P!UpdateStep, P!ImportPullRequest, P!Load, P!Unarchive, P!Archive,
     P!MergePullRequest, P!FetchTrunk, P!CreateChange, P!AfterChange, P!ArchiveWithChange, P!Record,
     P!UnsetHead, P!UnsetUpToDate, P!MergeStep, P!SetMerging, P!Ask, P!MergeCall, P!Rollback, P!Get,
     P!CreateStep, P!PushBranch, P!Create, P!InsertOwn, P!UpdateOwn, P!At
<1>8. ~P!Receiving(a) /\ ~P!Start(a)
  BY DEF P!HasDraft, P!Receiving, P!ReceivePush, P!Receive, P!Start, P!StartMerge, P!StartCreate,
     P!StartImport, P!Begin, P!At
<1>. QED BY <1>2, <1>6, <1>7, <1>8 DEF Mover

LEMMA OneDraftStays ==
    ASSUME PullsOK, [P!Next]_P!vars
    PROVE  P!OneDraft'
<1>0. ActorsTyped' /\ RowMoves /\ P!OneDraft /\ DraftsThere
  BY ActorsNext, RowsNext DEF PullsOK
<1>1. SUFFICES ASSUME NEW w \in P!WsId \ {1}, ws'[w].there, ~ws'[w].archived
               PROVE  \/ \E p \in PR : row2'[p].ws = w
                      \/ \E a \in P!Actor : pc2'[a] \in P!HasDraft /\ loc2'[a].w = w
                      \/ w \in stranded'
  BY DEF P!OneDraft
<1>2. DraftMoves(w)
  BY WsNext DEF WsMoves
<1>3. CASE ~ws[w].there
  BY <1>1, <1>2, <1>3 DEF DraftMoves, P!HasDraft
<1>4. CASE \E p \in PR : row2[p].ws = w
  BY <1>0, <1>4 DEF RowMoves, P!WsId
<1>5. CASE ws[w].there /\ ws[w].archived
  <2>1. PICK a \in P!Actor : P!Unarchive(a) /\ loc2[a].w = w
    BY <1>1, <1>2, <1>5 DEF DraftMoves
  <2>2. loc2[a].p \in PR /\ row2[loc2[a].p].ws = w
    BY <2>1, LocIs DEF P!Unarchive, P!At, ActorKnows, Knows, Updating, OfDraft
  <2>. QED BY <1>4, <2>2
<1>6. CASE \E a \in P!Actor : pc2[a] \in P!HasDraft /\ loc2[a].w = w
  BY <1>1, <1>6, HandledStays
<1>7. CASE w \in stranded
  BY <1>7, StrandedGrows
<1>. QED BY <1>0, <1>3, <1>4, <1>5, <1>6, <1>7 DEF P!OneDraft

(* A debt stays until somebody pays it.                                    *)
LEMMA Owing ==
    ASSUME PullsOK, [P!Next]_P!vars, ~failed2', NEW S \in SUBSET Pushing, "fetchTrunk" \in S, Owes(S)
    PROVE  \/ Owes(S)'
           \/ \E a \in P!Actor : P!FetchTrunk(a) /\ pc2[a] = "fetchTrunk" /\ pc2'[a] = "unsetHead"
           \/ \E a \in P!Actor : P!UnsetHead(a) /\ pc2'[a] = "unsetUpToDate"
           \/ \E a \in P!Actor : P!UnsetUpToDate(a)
<1>0. ActorsTyped /\ pushes \in Nat /\ pushes' \in Nat
  BY HubNext DEF PullsOK, HubTyped
<1>1. CASE pushes > 0
  <2>1. CASE pushes' >= pushes
    BY <1>0, <1>1, <2>1 DEF Owes
  <2>2. ASSUME NEW k \in Worker, P!ReceivePush(k) PROVE Owes(S)'
    <3>1. k \in P!Actor /\ pc2'[k] = "fetchTrunk"
      BY <1>0, <2>2 DEF P!ReceivePush, P!Goto, P!Actor, ActorsTyped
    <3>. QED BY <3>1 DEF Owes
  <2>3. pushes' >= pushes \/ \E k \in Worker : P!ReceivePush(k)
    <3>1. CASE pushes' = pushes
      BY <1>0, <3>1
    <3>2. CASE pushes' = pushes + 1
      BY <1>0, <3>2
    <3>3. CASE P!GitHub
      BY <3>1, <3>2, <3>3 DEF P!GitHub, P!Open, P!PushTo, P!Close, P!Reopen, P!Merge
    <3>4. CASE P!HeadChange \/ P!UpToDateWithTrunk
      BY <3>1, <3>4, QuestionFrame
    <3>5. ASSUME NEW k \in Worker, P!Receiving(k), ~P!ReceivePush(k) PROVE pushes' = pushes
      BY <3>5 DEF P!Receiving, P!Receive
    <3>6. ASSUME NEW r \in Request2, P!Start(r) PROVE pushes' = pushes
      BY <3>6, StartsFrame
    <3>7. ASSUME NEW a \in P!Actor, P!Step(a) PROVE pushes' = pushes \/ pushes' = pushes + 1
      BY <3>7, StepFrame DEF StepKeeps, HubSteps, P!MergeCall, P!PushBranch, P!Create, P!queues
    <3>8. ASSUME NEW a \in P!Actor, P!Fail(a) PROVE FALSE
      BY <3>8, FailFrame
    <3>. QED BY <3>1, <3>2, <3>3, <3>4, <3>5, <3>6, <3>7, <3>8, Cases DEF P!vars
  <2>. QED BY <2>1, <2>2, <2>3
<1>2. ASSUME NEW a \in P!Actor, pc2[a] \in S
      PROVE  \/ pc2'[a] \in S
             \/ P!FetchTrunk(a) /\ pc2[a] = "fetchTrunk" /\ pc2'[a] = "unsetHead"
             \/ P!UnsetHead(a) /\ pc2'[a] = "unsetUpToDate"
             \/ P!UnsetUpToDate(a)
  <2>0. pc2[a] \in Pushing
    BY <1>2
  <2>1. CASE ~Mover(a)
    BY <1>2, <2>1, ActorsNext
  <2>2. CASE P!Step(a)
    <3>1. P!FetchTrunk(a) \/ P!UnsetHead(a) \/ P!UnsetUpToDate(a)
      BY <2>0, <2>2 DEF Pushing, P!Step, P!UpdateStep, P!ImportPullRequest, P!FetchAndSnapshot,
         P!InsertImported, P!ArchiveImported, P!Load, P!Unarchive, P!Archive, P!MergePullRequest, P!CreateChange, P!AfterChange,
         P!ArchiveWithChange, P!Record, P!MergeStep, P!SetMerging, P!Ask, P!MergeCall, P!Rollback, P!Get,
         P!CreateStep, P!PushBranch, P!Create, P!InsertOwn, P!UpdateOwn, P!At
    <3>2. P!FetchTrunk(a) => pc2[a] = "fetchTrunk" /\ pc2'[a] = "unsetHead"
      BY <1>0, <2>0 DEF P!FetchTrunk, Pushing, P!Goto, P!At, ActorsTyped
    <3>3. P!UnsetHead(a) => pc2'[a] = "unsetUpToDate"
      BY <1>0 DEF P!UnsetHead, P!Goto, ActorsTyped
    <3>. QED BY <3>1, <3>2, <3>3
  <2>3. ~P!Fail(a)
    BY FailFrame
  <2>4. ~P!Receiving(a) /\ ~P!Start(a)
    BY <2>0 DEF Pushing, P!Receiving, P!ReceivePush, P!Receive, P!Start, P!StartMerge,
       P!StartCreate,
       P!StartImport, P!Begin, P!At
  <2>. QED BY <2>1, <2>2, <2>3, <2>4 DEF Mover
<1>. QED BY <1>1, <1>2 DEF Owes

LEMMA CatchingUpStays ==
    ASSUME PullsOK, [P!Next]_P!vars
    PROVE  CatchingUp'
<1>1. SUFFICES ASSUME ~failed2'
               PROVE  /\ trunk2' # Len(remote2') => Owes({"fetchTrunk"})'
                      /\ known'.head \notin {P!Unknown, trunk2'} => Owes({"fetchTrunk", "unsetHead"})'
                      /\ known'.upToDate \notin {P!Unknown, trunk2'} => Owes(Pushing)'
  <2>1. P!Unknown' = P!Unknown
    BY DEF P!Unknown
  <2>. QED BY <2>1 DEF CatchingUp
<1>2. ~failed2
  <2>1. failed2' = failed2 \/ failed2' = TRUE
    BY Cases, GitHubFrame, QuestionFrame, ReceiveFrame, StartsFrame, StepFrame, FailFrame
       DEF StepKeeps, P!vars
  <2>. QED BY <1>1, <2>1
<1>3. /\ trunk2 # Len(remote2) => Owes({"fetchTrunk"})
      /\ known.head \notin {P!Unknown, trunk2} => Owes({"fetchTrunk", "unsetHead"})
      /\ known.upToDate \notin {P!Unknown, trunk2} => Owes(Pushing)
  BY <1>2 DEF PullsOK, CatchingUp
<1>4. /\ {"fetchTrunk"} \in SUBSET Pushing /\ {"fetchTrunk", "unsetHead"} \in SUBSET Pushing
      /\ "fetchTrunk" \in Pushing
  BY DEF Pushing
<1>5. Owes({"fetchTrunk"}) => Owes({"fetchTrunk", "unsetHead"}) /\ Owes(Pushing)
  BY <1>4 DEF Owes
<1>6. trunk2' = trunk2 \/ \E a \in P!Actor : P!FetchTrunk(a)
  BY Cases, GitHubFrame, QuestionFrame, ReceiveFrame, StartsFrame, StepFrame, FailFrame
     DEF StepKeeps, P!vars
<1>7. ASSUME NEW a \in P!Actor, P!FetchTrunk(a)
      PROVE  trunk2' = Len(remote2) /\ remote2' = remote2 /\ known' = known
  BY <1>7 DEF P!FetchTrunk, P!hub
<1>8. remote2' = remote2 \/ pushes' > 0
  BY SomebodyMoves, HubNext DEF HubMoves, Grown, PullsOK, HubTyped
<1>9. ASSUME trunk2' # Len(remote2') PROVE Owes({"fetchTrunk"})'
  <2>1. CASE pushes' > 0
    BY <2>1 DEF Owes
  <2>2. CASE remote2' = remote2 /\ trunk2' = trunk2
    <3>1. Owes({"fetchTrunk"})
      BY <1>3, <1>9, <2>2
    <3>2. ASSUME NEW a \in P!Actor, P!UnsetHead(a) \/ P!UnsetUpToDate(a), pushes' = 0
          PROVE  Owes({"fetchTrunk"})'
      <4>1. PICK b \in P!Actor : pc2[b] = "fetchTrunk"
        BY <3>1, <3>2 DEF Owes, P!UnsetHead, P!UnsetUpToDate, P!queues
      <4>2. b # a
        BY <3>2, <4>1 DEF P!UnsetHead, P!UnsetUpToDate, P!At
      <4>3. pc2'[b] = "fetchTrunk"
        BY <3>2, <4>1, <4>2, ActorsNext DEF Mover, P!Step
      <4>. QED BY <4>1, <4>3 DEF Owes
    <3>3. pushes' \in Nat
      BY HubNext DEF HubTyped
    <3>. QED BY <1>1, <1>4, <1>7, <1>9, <2>1, <3>1, <3>2, <3>3, Owing
  <2>. QED BY <1>6, <1>7, <1>8, <1>9, <2>1, <2>2
<1>10. ASSUME known'.head \notin {P!Unknown, trunk2'} PROVE Owes({"fetchTrunk", "unsetHead"})'
  <2>1. known'.head = known.head
    <3>1. known \in [head : Nat, upToDate : Nat]
      BY DEF PullsOK, StoresTyped
    <3>2. CASE P!HeadChange
      <4>1. known'.head = trunk2 /\ trunk2' = trunk2
        BY <3>1, <3>2, QuestionFrame DEF P!HeadChange
      <4>. QED BY <1>10, <4>1
    <3>3. CASE P!UpToDateWithTrunk
      BY <3>1, <3>3 DEF P!UpToDateWithTrunk
    <3>4. ASSUME NEW a \in P!Actor, KnownSteps(a) PROVE known'.head = known.head
      BY <1>10, <3>1, <3>4 DEF KnownSteps, P!UnsetHead, P!UnsetUpToDate, P!AfterChange
    <3>. QED BY <3>2, <3>3, <3>4, Cases, GitHubFrame, ReceiveFrame, StartsFrame, StepFrame,
                FailFrame DEF StepKeeps, P!vars
  <2>2. Owes({"fetchTrunk", "unsetHead"})
    BY <1>3, <1>5, <1>6, <1>7, <1>10, <2>1
  <2>3. ASSUME NEW a \in P!Actor, P!UnsetHead(a) PROVE FALSE
    BY <1>10, <2>3 DEF P!UnsetHead, PullsOK, StoresTyped
  <2>4. ASSUME NEW a \in P!Actor, P!FetchTrunk(a), pc2'[a] = "unsetHead"
        PROVE  Owes({"fetchTrunk", "unsetHead"})'
    BY <2>4 DEF Owes
  <2>5. ASSUME NEW a \in P!Actor, P!UnsetUpToDate(a), ~(pushes' > 0)
        PROVE  Owes({"fetchTrunk", "unsetHead"})'
    <3>1. PICK b \in P!Actor : pc2[b] \in {"fetchTrunk", "unsetHead"}
      BY <2>2, <2>5 DEF Owes, P!UnsetUpToDate, P!queues
    <3>2. b # a
      BY <2>5, <3>1 DEF P!UnsetUpToDate, P!At
    <3>3. pc2'[b] = pc2[b]
      BY <2>5, <3>1, <3>2, ActorsNext DEF Mover, P!Step
    <3>. QED BY <3>1, <3>3 DEF Owes
  <2>6. pushes' > 0 => Owes({"fetchTrunk", "unsetHead"})'
    BY DEF Owes
  <2>. QED BY <1>1, <1>4, <2>2, <2>3, <2>4, <2>5, <2>6, Owing
<1>11. ASSUME known'.upToDate \notin {P!Unknown, trunk2'} PROVE Owes(Pushing)'
  <2>1. known'.upToDate = known.upToDate
    <3>1. known \in [head : Nat, upToDate : Nat]
      BY DEF PullsOK, StoresTyped
    <3>2. CASE P!HeadChange
      BY <3>1, <3>2 DEF P!HeadChange
    <3>3. CASE P!UpToDateWithTrunk
      <4>1. known'.upToDate = trunk2 /\ trunk2' = trunk2
        BY <3>1, <3>3, QuestionFrame DEF P!UpToDateWithTrunk
      <4>. QED BY <1>11, <4>1
    <3>4. ASSUME NEW a \in P!Actor, KnownSteps(a) PROVE known'.upToDate = known.upToDate
      BY <1>11, <3>1, <3>4 DEF KnownSteps, P!UnsetHead, P!UnsetUpToDate, P!AfterChange
    <3>. QED BY <3>2, <3>3, <3>4, Cases, GitHubFrame, ReceiveFrame, StartsFrame, StepFrame,
                FailFrame DEF StepKeeps, P!vars
  <2>2. Owes(Pushing)
    BY <1>3, <1>5, <1>6, <1>7, <1>11, <2>1
  <2>3. ASSUME NEW a \in P!Actor, P!UnsetUpToDate(a) PROVE FALSE
    BY <1>11, <2>3 DEF P!UnsetUpToDate, PullsOK, StoresTyped
  <2>4. ASSUME NEW a \in P!Actor, pc2'[a] = "unsetHead" \/ pc2'[a] = "unsetUpToDate"
        PROVE  Owes(Pushing)'
    BY <2>4 DEF Owes, Pushing
  <2>. QED BY <1>1, <1>4, <2>2, <2>3, <2>4, Owing
<1>. QED BY <1>9, <1>10, <1>11

-----------------------------------------------------------------------------
(* The invariant.                                                          *)

LEMMA InitPullsOK ==
    ASSUME P!Init
    PROVE  PullsOK
<1>0. 1 \in P!WsId /\ 0 \in 0..MaxWorkspaces /\ 1 \in 0..MaxWorkspaces
  BY PullRequestsAssumption DEF P!WsId
<1>1. PICK own \in {{}} \union {{p} : p \in PR} :
          /\ gh = [p \in PR |-> IF p \in own
                       THEN [P!NoGH EXCEPT !.st = "open", !.head = 1, !.branch = 1]
                       ELSE P!NoGH]
          /\ row2 = [p \in PR |-> IF p \in own THEN [P!NoRow EXCEPT !.ws = 1, !.head = 1]
                                  ELSE P!NoRow]
  BY DEF P!Init
<1>2. PICK g, r, d : /\ g = [P!NoGH EXCEPT !.st = "open", !.head = 1, !.branch = 1]
                     /\ r = [P!NoRow EXCEPT !.ws = 1, !.head = 1]
                     /\ d = [P!NoWs EXCEPT !.there = TRUE]
  OBVIOUS
<1>3. /\ g \in GhTypes /\ g.st = "open" /\ g.base = 0
      /\ P!NoGH \in GhTypes /\ P!NoGH.st = "none" /\ P!NoGH.base = 0
  BY <1>2 DEF P!NoGH, GhTypes, States
<1>4. /\ r \in RowTypes /\ r.ws = 1 /\ P!NoRow \in RowTypes /\ P!NoRow.ws = 0
  BY <1>0, <1>2 DEF P!NoRow, RowTypes, States
<1>5. /\ d \in DraftTypes /\ d.there /\ d.change = NoPR
      /\ P!NoWs \in DraftTypes /\ ~P!NoWs.there /\ P!NoWs.change = NoPR
  BY <1>2 DEF P!NoWs, DraftTypes
<1>6. gh = [p \in PR |-> IF p \in own THEN g ELSE P!NoGH]
  BY <1>1, <1>2
<1>7. row2 = [p \in PR |-> IF p \in own THEN r ELSE P!NoRow]
  BY <1>1, <1>2
<1>8. ws = [w \in P!WsId |-> IF w = 1 THEN d ELSE P!NoWs]
  BY <1>2 DEF P!Init
<1>9. /\ remote2 = <<>> /\ inbox = [p \in PR |-> <<>>] /\ pushes = 0 /\ trunk2 = 0
      /\ change = [p \in PR |-> "none"] /\ known = [head |-> P!Unknown, upToDate |-> P!Unknown]
      /\ pc2 = [a \in P!Actor |-> "idle"] /\ loc2 = [a \in P!Actor |-> P!NoLoc]
  BY DEF P!Init
<1>10. HubTyped
  <2>1. <<>> \in Seq(PR) /\ <<>> \in Seq(ApiTypes) /\ Len(remote2) = 0
    BY <1>9
  <2>. QED BY <1>3, <1>6, <1>9, <2>1 DEF HubTyped, GhTypes
<1>11. StoresTyped
  <2>1. P!Unknown \in Nat
    BY PullRequestsAssumption DEF P!Unknown
  <2>2. trunk2 \in 0..Len(remote2)
    BY <1>9
  <2>. QED BY <1>4, <1>5, <1>7, <1>8, <1>9, <2>1, <2>2 DEF StoresTyped
<1>12. ActorsTyped
  BY <1>9, NoLocIs DEF ActorsTyped, Places
<1>13. ASSUME NEW p \in PR PROVE HubOK(p)
  <2>1. gh[p].base = 0 /\ gh[p].st \in {"open", "none"} /\ inbox[p] = <<>> /\ change[p] = "none"
    BY <1>3, <1>6, <1>9
  <2>2. gh[p].st = "none" => row2[p].ws = 0
    BY <1>3, <1>4, <1>6, <1>7
  <2>. QED BY <1>9, <2>1, <2>2 DEF HubOK, InRemote
<1>14. ASSUME NEW a \in P!Actor PROVE ActorKnows(a)
  <2>1. pc2[a] = "idle" /\ loc2[a] = P!NoLoc
    BY <1>9
  <2>. QED BY <2>1, NoLocIs, PullRequestsAssumption DEF ActorKnows, Knows, Pushing, Importing, Creating,
           Merging, Updating, OfDraft, Changing
<1>15. DraftsThere
  BY <1>0, <1>4, <1>5, <1>7, <1>8 DEF DraftsThere
<1>16. P!ArchivedWhenMerged /\ P!OneDraft
  BY <1>5, <1>8 DEF P!ArchivedWhenMerged, P!OneDraft
<1>17. CatchingUp
  BY <1>9 DEF CatchingUp
<1>. QED BY <1>10, <1>11, <1>12, <1>13, <1>14, <1>15, <1>16, <1>17 DEF PullsOK

LEMMA StepPullsOK ==
    ASSUME PullsOK, [P!Next]_P!vars
    PROVE  PullsOK'
<1>1. HubTyped' /\ StoresTyped' /\ ActorsTyped' /\ \A a \in P!Actor : ActorKnows(a)'
  BY HubNext, StoresNext, ActorsNext
<1>2. (\A p \in PR : HubOK(p))' /\ (\A a \in P!Actor : ActorKnows(a))'
  BY <1>1, HubStays
<1>3. DraftsThere' /\ P!ArchivedWhenMerged' /\ P!OneDraft' /\ CatchingUp'
  BY ThereStays, ArchivedStays, OneDraftStays, CatchingUpStays
<1>. QED BY <1>1, <1>2, <1>3 DEF PullsOK

LEMMA CaughtUp ==
    ASSUME PullsOK
    PROVE  P!TrunkCatchesUp
<1>1. SUFFICES ASSUME ~failed2, pushes = 0, \A a \in P!Actor : loc2[a].op # "push"
               PROVE  /\ trunk2 = Len(remote2)
                      /\ known.head \in {P!Unknown, trunk2} /\ known.upToDate \in {P!Unknown, trunk2}
  BY DEF P!TrunkCatchesUp
<1>2. \A a \in P!Actor : pc2[a] \notin Pushing
  BY <1>1 DEF PullsOK, ActorKnows, Knows
<1>3. ~Owes(Pushing) /\ ~Owes({"fetchTrunk"}) /\ ~Owes({"fetchTrunk", "unsetHead"})
  BY <1>1, <1>2 DEF Owes, Pushing
<1>. QED BY <1>1, <1>3 DEF PullsOK, CatchingUp

-----------------------------------------------------------------------------
(* What a step does to a pull request that the one who moves is not on.    *)

Touched(p) ==
    \/ \E a \in P!On(p) : P!Step(a)
    \/ \E k \in Worker : \E i \in DOMAIN inbox[p] : P!Receive(k, p, i)
    \/ \E a \in P!Actor \ P!On(p) : pc2'[a] # "idle" /\ loc2'[a].p = p

(* A draft of this pull request alone stays archived if nobody on the      *)
(* pull request opens it.                                                  *)
KeepsArchived(p) ==
    row2[p].ws # 0 /\ Sole(p)' => /\ Sole(p)
                                  /\ ws[row2[p].ws].archived => ws'[row2[p].ws].archived

ToldOrSame(p) == (gh'[p] = gh[p] /\ inbox'[p] = inbox[p]) \/ Tells(p)

LEMMA SoleWas ==
    ASSUME PullsOK, [P!Next]_P!vars, NEW p \in PR, row2[p].ws # 0, Sole(p)'
    PROVE  Sole(p)
<1>1. row2'[p].ws = row2[p].ws /\ \A q \in PR : row2[q].ws # 0 => row2'[q].ws = row2[q].ws
  BY RowsNext DEF RowMoves
<1>2. \A q \in PR \ {p} : row2'[q].ws # row2'[p].ws
  BY DEF Sole
<1>. QED BY <1>1, <1>2 DEF Sole

LEMMA ArchivedKept ==
    ASSUME PullsOK, [P!Next]_P!vars, NEW p \in PR, \A a \in P!On(p) : ~P!Unarchive(a)
    PROVE  KeepsArchived(p)
<1>1. SUFFICES ASSUME row2[p].ws # 0, Sole(p)', ws[row2[p].ws].archived
               PROVE  ws'[row2[p].ws].archived
  BY SoleWas DEF KeepsArchived
<1>2. PICK w : w = row2[p].ws
  OBVIOUS
<1>3. w \in P!WsId /\ ws[w].there
  BY <1>1, <1>2, PullRequestsAssumption DEF PullsOK, StoresTyped, RowTypes, P!WsId, DraftsThere
<1>4. DraftMoves(w)
  BY <1>3, WsNext DEF WsMoves
<1>5. ASSUME NEW a \in P!Actor, P!Unarchive(a), loc2[a].w = w
      PROVE  FALSE
  <2>1. loc2[a].p \in PR /\ row2[loc2[a].p].ws = w /\ pc2[a] # "idle"
    BY <1>5, LocIs DEF ActorKnows, Knows, P!Unarchive, P!At, OfDraft, Updating
  <2>2. loc2[a].p = p
    BY <1>1, <1>2, <2>1, SoleWas DEF Sole
  <2>. QED BY <1>5, <2>1, <2>2 DEF P!On
<1>. QED BY <1>1, <1>2, <1>3, <1>4, <1>5 DEF DraftMoves

LEMMA RowOfOthers ==
    ASSUME PullsOK, [P!Next]_P!vars, ~failed2', NEW p \in PR, \A a \in P!On(p) : ~P!Step(a)
    PROVE  row2'[p] = row2[p]
<1>1. CASE row2' = row2
  BY <1>1
<1>2. ASSUME NEW a \in P!Actor, P!Step(a), RowSteps(a), pc2[a] # "idle" PROVE row2'[p] = row2[p]
  <2>1. loc2[a].p # p
    BY <1>2 DEF P!On
  <2>2. row2 \in [PR -> RowTypes]
    BY DEF PullsOK, StoresTyped
  <2>3. PICK q : q = loc2[a].p
    OBVIOUS
  <2>4. \A r : P!Written(q, r)[p] = row2[p]
    BY <2>1, <2>2, <2>3 DEF P!Written
  <2>. QED BY <1>2, <2>1, <2>2, <2>3, <2>4
           DEF RowSteps, P!InsertImported, P!Record, P!SetMerging, P!Rollback, P!InsertOwn, P!UpdateOwn
<1>. QED BY <1>1, <1>2, Cases, GitHubFrame, QuestionFrame, ReceiveFrame, StartsFrame, StepFrame,
            FailFrame DEF StepKeeps, P!vars

LEMMA ChangeOfOthers ==
    ASSUME PullsOK, [P!Next]_P!vars, NEW p \in PR, \A a \in P!On(p) : ~P!Step(a)
    PROVE  change'[p] = "merged" => change[p] = "merged"
<1>1. ASSUME NEW a \in P!Actor, P!CreateChange(a), loc2[a].p = p PROVE FALSE
  <2>1. pc2[a] # "idle" /\ P!Step(a)
    BY <1>1 DEF P!CreateChange, P!At, P!Step, P!UpdateStep
  <2>. QED BY <1>1, <2>1 DEF P!On
<1>. QED BY <1>1, ChangeNext DEF ChangeMoves

LEMMA HubOfOthers ==
    ASSUME PullsOK, [P!Next]_P!vars, NEW p \in PR,
           \A k \in Worker : \A i \in DOMAIN inbox[p] : ~P!Receive(k, p, i)
    PROVE  ToldOrSame(p)
BY SomebodyMoves DEF HubMoves, Moves, Hears, ToldOrSame

Elsewhere(p) ==
    /\ row2'[p] = row2[p]
    /\ change'[p] = "merged" => change[p] = "merged"
    /\ KeepsArchived(p) /\ ToldOrSame(p)
    /\ P!On(p)' = P!On(p)
    /\ \A a \in P!On(p) : pc2'[a] = pc2[a] /\ loc2'[a] = loc2[a]

LEMMA Untouched ==
    ASSUME PullsOK, [P!Next]_P!vars, ~failed2', NEW p \in PR, ~Touched(p)
    PROVE  Elsewhere(p)
<1>1. \A a \in P!On(p) : ~P!Step(a)
  BY DEF Touched
<1>2. \A a \in P!On(p) : ~P!Unarchive(a)
  BY <1>1 DEF P!Step, P!UpdateStep
<1>3. \A k \in Worker : \A i \in DOMAIN inbox[p] : ~P!Receive(k, p, i)
  BY DEF Touched
<1>4. ASSUME NEW a \in P!On(p) PROVE ~Mover(a)
  <2>1. a \in P!Actor /\ pc2[a] # "idle"
    BY <1>4 DEF P!On
  <2>2. ~P!Receiving(a)
    BY <2>1 DEF P!Receiving, P!ReceivePush, P!Receive, P!At
  <2>3. ~P!Start(a)
    BY <2>1 DEF P!Start, P!StartMerge, P!StartCreate, P!StartImport, P!Begin, P!At
  <2>4. ~P!Fail(a)
    BY <2>1, FailFrame
  <2>. QED BY <1>1, <2>2, <2>3, <2>4 DEF Mover
<1>5. ASSUME NEW a \in P!On(p) PROVE pc2'[a] = pc2[a] /\ loc2'[a] = loc2[a]
  BY <1>4, <1>5, ActorsNext DEF P!On
<1>6. P!On(p)' = P!On(p)
  <2>1. \A a \in P!Actor \ P!On(p) : pc2'[a] = "idle" \/ loc2'[a].p # p
    BY DEF Touched
  <2>2. \A a \in P!Actor : a \in P!On(p) <=> (pc2'[a] # "idle" /\ loc2'[a].p = p)
    BY <1>5, <2>1 DEF P!On
  <2>3. P!On(p)' = {a \in P!Actor : pc2'[a] # "idle" /\ loc2'[a].p = p}
    BY DEF P!On
  <2>. QED BY <2>2, <2>3 DEF P!On
<1>. QED BY <1>1, <1>2, <1>3, <1>5, <1>6, ArchivedKept, RowOfOthers, ChangeOfOthers, HubOfOthers
         DEF Elsewhere

LEMMA Telling ==
    ASSUME PullsOK, NEW p \in PR, Tells(p)
    PROVE  /\ ~ToldAll(p)' /\ inbox'[p][Len(inbox'[p])].st = gh'[p].st
           /\ ~ToldAll(p) => inbox'[p][1] = inbox[p][1]
           /\ ToldAll(p) => inbox'[p][1].st = gh'[p].st
<1>1. PICK x : x = [st |-> gh'[p].st, head |-> gh'[p].head]
  OBVIOUS
<1>2. x \in ApiTypes /\ x.st = gh'[p].st /\ inbox[p] \in Seq(ApiTypes)
  BY <1>1 DEF Tells, GhTypes, ApiTypes, PullsOK, HubTyped
<1>3. inbox'[p] = Append(inbox[p], x)
  BY <1>1 DEF Tells
<1>4. PICK s, t : s = inbox[p] /\ t = Append(s, x)
  OBVIOUS
<1>5. s \in Seq(ApiTypes) /\ t \in Seq(ApiTypes) /\ Len(t) = Len(s) + 1 /\ Len(s) \in Nat
      /\ t[Len(s) + 1] = x /\ \A i \in 1..Len(s) : t[i] = s[i]
  BY <1>2, <1>4, AppendProperties
<1>6. t # <<>> /\ t[Len(t)] = x
  BY <1>5
<1>7. s = <<>> => t[1] = x
  BY <1>5
<1>8. s # <<>> => t[1] = s[1]
  BY <1>5
<1>. QED BY <1>2, <1>3, <1>4, <1>6, <1>7, <1>8 DEF ToldAll

(* What is merged has been told, to the last.                              *)
LEMMA MergedIsTold ==
    ASSUME PullsOK, NEW p \in PR
    PROVE  /\ change[p] = "merged" => gh[p].st = "merged"
           /\ \A a \in P!Actor : loc2[a].p = p /\ loc2[a].api.st = "merged" => gh[p].st = "merged"
           /\ gh[p].st = "merged" => ~Tells(p)
<1>1. change[p] = "merged" => gh[p].st = "merged"
  BY DEF PullsOK, HubOK, P!OnTrunk, InRemote, StoresTyped
<1>2. \A a \in P!Actor : loc2[a].p = p /\ loc2[a].api.st = "merged" => gh[p].st = "merged"
  BY DEF PullsOK, ActorKnows, Knows
<1>. QED BY <1>1, <1>2 DEF Tells

LastTold(p) == ~ToldAll(p) => inbox[p][Len(inbox[p])].st = gh[p].st

LEMMA LastOfOthers ==
    ASSUME PullsOK, NEW p \in PR, LastTold(p), ToldOrSame(p)
    PROVE  LastTold(p)'
BY Telling DEF LastTold, ToldOrSame, ToldAll

LEMMA StillOfOthers ==
    ASSUME PullsOK, [P!Next]_P!vars, NEW p \in PR, Elsewhere(p), Still(p), row2[p].st # "merging"
    PROVE  Still(p)' /\ row2'[p].st # "merging"
<1>1. row2'[p] = row2[p] /\ ToldOrSame(p) /\ KeepsArchived(p)
  BY DEF Elsewhere
<1>2. ASSUME row2[p].ws = 0, gh'[p].st # "none" PROVE ~ToldAll(p)' /\ inbox'[p][1].st = "open"
  <2>1. CASE gh'[p] = gh[p] /\ inbox'[p] = inbox[p]
    BY <1>2, <2>1 DEF Still, ToldAll
  <2>2. CASE Tells(p)
    <3>1. CASE ToldAll(p)
      <4>1. gh[p].st = "none"
        BY <1>2, <3>1 DEF Still
      <4>. QED BY <2>2, <3>1, <4>1, Telling DEF Tells
    <3>2. CASE ~ToldAll(p)
      <4>1. gh[p].st # "none"
        BY <3>2 DEF PullsOK, HubOK, ToldAll
      <4>. QED BY <1>2, <2>2, <3>2, <4>1, Telling DEF Still
    <3>. QED BY <3>1, <3>2
  <2>. QED BY <1>1, <2>1, <2>2 DEF ToldOrSame
<1>3. ASSUME row2[p].ws # 0, ToldAll(p)' PROVE row2[p].st = gh'[p].st
  <2>1. gh'[p] = gh[p] /\ inbox'[p] = inbox[p]
    BY <1>1, <1>3, Telling DEF ToldOrSame
  <2>. QED BY <1>3, <2>1 DEF Still, ToldAll
<1>4. ASSUME change'[p] = "merged"
      PROVE  /\ row2[p].ws # 0 /\ row2[p].st = "merged" /\ AllMerged(p)'
             /\ Sole(p)' => ws'[row2[p].ws].archived
  <2>1. change[p] = "merged"
    BY <1>4 DEF Elsewhere
  <2>2. gh'[p] = gh[p] /\ inbox'[p] = inbox[p]
    BY <1>1, <2>1, MergedIsTold DEF ToldOrSame
  <2>. QED BY <1>1, <2>1, <2>2 DEF Still, AllMerged, KeepsArchived
<1>. QED BY <1>1, <1>2, <1>3, <1>4 DEF Still

LEMMA HandOfOthers ==
    ASSUME PullsOK, [P!Next]_P!vars, NEW p \in PR, NEW a \in P!On(p), Elsewhere(p), InHand(p, a)
    PROVE  InHand(p, a)'
<1>0. /\ row2'[p] = row2[p] /\ ToldOrSame(p) /\ KeepsArchived(p) /\ a \in P!Actor /\ loc2[a].p = p
      /\ pc2'[a] = pc2[a] /\ loc2'[a] = loc2[a]
      /\ change'[p] = "merged" => change[p] = "merged"
  BY DEF Elsewhere, P!On
<1>1. ToldAll(p)' => ToldAll(p) /\ gh'[p] = gh[p]
  BY <1>0, Telling DEF ToldOrSame, ToldAll
<1>2. gh[p].st = "merged" => gh'[p] = gh[p] /\ inbox'[p] = inbox[p]
  BY <1>0, MergedIsTold DEF ToldOrSame
<1>3. ~ToldAll(p) => ~ToldAll(p)'
  BY <1>1
<1>4. CASE ImportOK(p, a)
  <2>1. ImportOK(p, a)'
    BY <1>0, <1>1, <1>4 DEF ImportOK
  <2>. QED BY <2>1 DEF InHand
<1>5. CASE CreateOK(p, a)
  <2>1. CreateOK(p, a)'
    BY <1>0, <1>1, <1>3, <1>5 DEF CreateOK
  <2>. QED BY <2>1 DEF InHand
<1>6. CASE MergeOK(p, a)
  <2>1. MergeOK(p, a)'
    BY <1>0, <1>1, <1>2, <1>6 DEF MergeOK
  <2>. QED BY <2>1 DEF InHand
<1>7. CASE UpdateOK(p, a)
  <2>1. pc2[a] \in Updating => row2[p].ws # 0
    BY <1>0, LocIs DEF ActorKnows, Knows
  <2>2. pc2[a] \in {"pull"} \union Changing => loc2[a].w = row2[p].ws
    BY <1>0, LocIs DEF ActorKnows, Knows, OfDraft
  <2>3. loc2[a].api.st = "merged" => gh[p].st = "merged"
    BY <1>0, MergedIsTold
  <2>4. AllMerged(p) /\ gh[p].st = "merged" => AllMerged(p)'
    BY <1>2 DEF AllMerged
  <2>5. pc2[a] \in Updating /\ Sole(p)' => Sole(p) /\ (ws[row2[p].ws].archived => ws'[row2[p].ws].archived)
    BY <1>0, <2>1 DEF KeepsArchived
  <2>6. UpdateOK(p, a)'
    BY <1>0, <1>1, <1>7, <2>2, <2>3, <2>4, <2>5 DEF UpdateOK
  <2>. QED BY <2>6 DEF InHand
<1>. QED BY <1>4, <1>5, <1>6, <1>7 DEF InHand

LEMMA OrderlyOfOthers ==
    ASSUME PullsOK, [P!Next]_P!vars, NEW p \in PR, Elsewhere(p), Orderly(p)
    PROVE  Orderly(p)'
<1>1. LastTold(p) /\ ToldOrSame(p) /\ P!On(p)' = P!On(p)
  BY DEF Orderly, Elsewhere, LastTold
<1>2. LastTold(p)'
  BY <1>1, LastOfOthers
<1>3. P!On(p) = {} => Still(p)' /\ row2'[p].st # "merging"
  BY StillOfOthers DEF Orderly
<1>4. \A a \in P!On(p) : InHand(p, a)'
  BY HandOfOthers DEF Orderly
<1>5. \A a, b \in P!On(p) : a = b
  BY DEF Orderly
<1>. QED BY <1>1, <1>2, <1>3, <1>4, <1>5 DEF Orderly, LastTold

-----------------------------------------------------------------------------
(* Somebody comes to a pull request that nobody handles.                   *)

LEMMA OnGoes ==
    ASSUME ActorsTyped, NEW p \in PR, NEW a \in P!Actor, NEW at, NEW l, Turned(a, at, l),
           P!On(p) \subseteq {a}
    PROVE  /\ at # "idle" /\ l.p = p => P!On(p)' = {a}
           /\ at = "idle" => P!On(p)' = {}
           /\ pc2'[a] = at /\ loc2'[a] = l
<1>1. /\ pc2'[a] = at /\ loc2'[a] = l
      /\ \A b \in P!Actor \ {a} : pc2'[b] = pc2[b] /\ loc2'[b] = loc2[b]
  BY Went
<1>2. P!On(p)' = {b \in P!Actor : pc2'[b] # "idle" /\ loc2'[b].p = p}
  BY DEF P!On
<1>3. \A b \in P!Actor \ {a} : ~(pc2[b] # "idle" /\ loc2[b].p = p)
  BY DEF P!On
<1>. QED BY <1>1, <1>2, <1>3

LEMMA TakenUp ==
    ASSUME NEW p \in PR, NEW a, LastTold(p)', P!On(p)' = {a}, InHand(p, a)'
    PROVE  Orderly(p)'
BY DEF Orderly, LastTold

LEMMA PutDown ==
    ASSUME NEW p \in PR, LastTold(p)', P!On(p)' = {}, Still(p)', row2'[p].st # "merging"
    PROVE  Orderly(p)'
BY DEF Orderly, LastTold

LEMMA Begins ==
    ASSUME ActorsTyped, NEW p \in PR, p \notin disturbed', Orderly(p), NEW r \in P!Actor,
           NEW l, l.p = p, NEW to, to # "idle", P!Begin(r, l, to)
    PROVE  /\ Still(p) /\ row2[p].st # "merging" /\ LastTold(p)'
           /\ P!On(p)' = {r} /\ pc2'[r] = to /\ loc2'[r] = l
           /\ UNCHANGED <<gh, inbox, row2, ws, change>>
<1>1. P!On(p) = {}
  <2>1. p # NoPR
    BY PullRequestsAssumption
  <2>. QED BY <2>1 DEF P!Begin
<1>2. Turned(r, to, l) /\ UNCHANGED <<gh, inbox, row2, ws, change>>
  BY DEF P!Begin, Turned, P!Goto, P!hub, P!queues, P!sturdy
<1>. QED BY <1>1, <1>2, OnGoes DEF Orderly, LastTold, ToldAll

LEMMA StartOrderly ==
    ASSUME PullsOK, [P!Next]_P!vars, NEW p \in PR, p \notin disturbed', Orderly(p),
           NEW r \in Request2, P!Start(r), pc2'[r] # "idle", loc2'[r].p = p
    PROVE  Orderly(p)'
<1>0. ActorsTyped /\ r \in P!Actor /\ row2[p] \in RowTypes /\ (change[p] = "merged" => gh[p].st = "merged")
  BY MergedIsTold DEF PullsOK, P!Actor, StoresTyped
<1>1. ASSUME NEW w \in P!WsId, P!StartMerge(r, w) PROVE Orderly(p)'
  <2>1. PICK q \in P!Rows(w, {"open"}) :
          P!Begin(r, [P!NoLoc EXCEPT !.op = "merge", !.p = q, !.row = row2[q], !.w = w], "setMerging")
    BY <1>1 DEF P!StartMerge
  <2>2. q \in PR /\ row2[q].ws = w /\ row2[q].st = "open" /\ w # 0
    BY <1>1, PullRequestsAssumption DEF P!Rows, P!WsId
  <2>3. PICK m : m = [P!NoLoc EXCEPT !.op = "merge", !.p = q, !.row = row2[q], !.w = w]
    OBVIOUS
  <2>4. m.p = q /\ m.op = "merge"
    BY <2>3 DEF P!NoLoc
  <2>5. P!Begin(r, m, "setMerging")
    BY <2>1, <2>3
  <2>6. loc2'[r] = m
    BY <1>0, <2>5 DEF P!Begin, ActorsTyped
  <2>7. q = p
    BY <2>4, <2>6, <1>1
  <2>8. /\ Still(p) /\ LastTold(p)' /\ P!On(p)' = {r} /\ pc2'[r] = "setMerging" /\ loc2'[r] = m
        /\ UNCHANGED <<gh, inbox, row2, ws, change>>
    BY <1>0, <2>4, <2>5, <2>7, Begins
  <2>9. MergeOK(p, r)'
    BY <2>2, <2>7, <2>8 DEF MergeOK, Merging, Still, ToldAll
  <2>. QED BY <2>8, <2>9, TakenUp DEF InHand
<1>2. ASSUME NEW w \in P!WsId, P!StartCreate(r, w) PROVE Orderly(p)'
  <2>1. CASE P!Begin(r, [P!NoLoc EXCEPT !.op = "create", !.w = w], "pushBranch")
    <3>1. loc2'[r] = [P!NoLoc EXCEPT !.op = "create", !.w = w]
      BY <1>0, <2>1 DEF P!Begin, ActorsTyped
    <3>2. loc2'[r].p = NoPR
      BY <3>1 DEF P!NoLoc
    <3>. QED BY <3>2, PullRequestsAssumption
  <2>2. ASSUME NEW q \in P!Rows(w, {"open"}),
               P!Begin(r, [P!NoLoc EXCEPT !.op = "create", !.p = q, !.row = row2[q], !.w = w],
                     "pushBranch")
        PROVE  Orderly(p)'
    <3>1. q \in PR /\ row2[q].ws = w /\ row2[q].st = "open" /\ w # 0
      BY PullRequestsAssumption DEF P!Rows, P!WsId
    <3>2. PICK m : m = [P!NoLoc EXCEPT !.op = "create", !.p = q, !.row = row2[q], !.w = w]
      OBVIOUS
    <3>3. m.p = q /\ m.row = row2[q]
      BY <3>2 DEF P!NoLoc
    <3>4. P!Begin(r, m, "pushBranch")
      BY <2>2, <3>2
    <3>5. loc2'[r] = m
      BY <1>0, <3>4 DEF P!Begin, ActorsTyped
    <3>6. q = p
      BY <3>3, <3>5
    <3>7. /\ Still(p) /\ LastTold(p)' /\ P!On(p)' = {r} /\ pc2'[r] = "pushBranch" /\ loc2'[r] = m
          /\ UNCHANGED <<gh, inbox, row2, ws, change>>
      BY <1>0, <3>3, <3>4, <3>6, Begins
    <3>8. CreateOK(p, r)'
      BY <3>1, <3>3, <3>6, <3>7 DEF CreateOK, Creating, Still, ToldAll
    <3>. QED BY <3>7, <3>8, TakenUp DEF InHand
  <2>. QED BY <1>2, <2>1, <2>2 DEF P!StartCreate
<1>3. ASSUME NEW q \in PR, P!StartImport(r, q) PROVE Orderly(p)'
  <2>1. PICK m : m = [P!NoLoc EXCEPT !.op = "import", !.p = q, !.api = P!Api(q)]
    OBVIOUS
  <2>2. m.p = q /\ m.op = "import"
    BY <2>1 DEF P!NoLoc
  <2>3. P!Begin(r, m, "import") /\ gh[q].st = "open"
    BY <1>3, <2>1 DEF P!StartImport
  <2>4. loc2'[r] = m
    BY <1>0, <2>3 DEF P!Begin, ActorsTyped
  <2>5. q = p
    BY <2>2, <2>4
  <2>6. /\ Still(p) /\ row2[p].st # "merging" /\ LastTold(p)' /\ P!On(p)' = {r}
        /\ pc2'[r] = "import" /\ loc2'[r] = m
        /\ UNCHANGED <<gh, inbox, row2, ws, change>>
    BY <1>0, <2>2, <2>3, <2>5, Begins
  <2>7. ImportOK(p, r)'
    BY <1>0, <2>2, <2>3, <2>5, <2>6 DEF ImportOK, Importing, Still, ToldAll
  <2>. QED BY <2>6, <2>7, TakenUp DEF InHand
<1>. QED BY <1>1, <1>2, <1>3 DEF P!Start

LEMMA CreateOrderly ==
    ASSUME PullsOK, [P!Next]_P!vars, NEW p \in PR, NEW r \in P!Actor, r \notin P!On(p), P!Create(r),
           pc2'[r] # "idle", loc2'[r].p = p
    PROVE  Orderly(p)'
<1>0. ActorsTyped /\ pc2[r] = "create" /\ loc2[r] \in LocTypes
  BY LocIs DEF PullsOK, P!Create, P!At
<1>1. ~P!Done(r)
  BY <1>0 DEF P!Done, P!Goto, ActorsTyped
<1>2. PICK q \in {x \in PR : gh[x].st = "none"} :
              LET g == [P!NoGH EXCEPT !.st = "open", !.head = 1, !.branch = loc2[r].w] IN
              /\ gh' = [gh EXCEPT ![q] = g] /\ P!Told(q, g)
              /\ loc2' = [loc2 EXCEPT ![r].p = q]
              /\ P!Goto(r, "insertOwn")
  BY <1>1 DEF P!Create
<1>3. PICK g, m : g = [P!NoGH EXCEPT !.st = "open", !.head = 1, !.branch = loc2[r].w]
                  /\ m = [loc2[r] EXCEPT !.p = q]
  OBVIOUS
<1>4. m.p = q /\ g.st = "open"
  BY <1>0, <1>3 DEF LocTypes, P!NoGH
<1>5. /\ gh' = [gh EXCEPT ![q] = g] /\ P!Told(q, g) /\ loc2' = [loc2 EXCEPT ![r] = m]
      /\ P!Goto(r, "insertOwn")
  BY <1>0, <1>2, <1>3 DEF ActorsTyped
<1>6. loc2'[r] = m /\ q = p
  BY <1>0, <1>4, <1>5 DEF ActorsTyped
<1>7. /\ gh'[p].st = "open" /\ gh[p].st = "none" /\ UNCHANGED <<row2, change>>
      /\ row2[p].ws = 0 /\ change[p] # "merged" /\ ToldAll(p)
  BY <1>2, <1>4, <1>5, <1>6, MergedIsTold
     DEF PullsOK, HubTyped, HubOK, P!Create, P!sturdy, ToldAll
<1>8. Tells(p)
  <2>1. HubMoves /\ inbox'[p] # inbox[p]
    BY <1>5, <1>6, <1>7, SomebodyMoves DEF P!Told, ToldAll, PullsOK, HubTyped
  <2>2. gh'[p] # gh[p]
    BY <1>7
  <2>. QED BY <2>1, <2>2 DEF HubMoves, Moves, Hears
<1>9. P!On(p) = {}
  BY <1>7, LocIs DEF P!On, ActorKnows, Knows
<1>10. Turned(r, "insertOwn", m)
  BY <1>5 DEF Turned, P!Goto
<1>11. P!On(p)' = {r} /\ pc2'[r] = "insertOwn" /\ loc2'[r] = m
  BY <1>0, <1>4, <1>6, <1>9, <1>10, OnGoes
<1>12. LastTold(p)' /\ ~ToldAll(p)'
  BY <1>8, Telling DEF LastTold
<1>13. CreateOK(p, r)'
  BY <1>7, <1>11, <1>12 DEF CreateOK, Creating
<1>. QED BY <1>11, <1>12, <1>13, TakenUp DEF InHand

-----------------------------------------------------------------------------
(* The first webhook of a pull request is taken.                           *)

LEMMA FirstTaken ==
    ASSUME PullsOK, NEW p \in PR, LastTold(p), inbox[p] # <<>>,
           inbox'[p] = P!Without(inbox[p], 1), gh'[p] = gh[p]
    PROVE  /\ LastTold(p)'
           /\ AllMerged(p) => AllMerged(p)'
           /\ ToldAll(p)' => inbox[p][1].st = gh[p].st
           /\ inbox[p][1].st = "merged" => ToldAll(p)'
<1>1. PICK s, t : s = inbox[p] /\ t = P!Without(s, 1)
  OBVIOUS
<1>2. s \in Seq(ApiTypes) /\ s # <<>> /\ 1 \in DOMAIN s /\ Len(s) \in Nat
  BY <1>1 DEF PullsOK, HubTyped
<1>3. t \in Seq(ApiTypes) /\ Len(t) = Len(s) - 1 /\ \A j \in 1..Len(t) : t[j] = s[j + 1]
  <2>1. /\ t \in Seq(ApiTypes) /\ Len(t) = Len(s) - 1
        /\ \A j \in 1..Len(t) : t[j] = IF j < 1 THEN s[j] ELSE s[j + 1]
    BY <1>1, <1>2, WithoutIs
  <2>2. Len(t) \in Nat
    BY <1>2, <2>1
  <2>. QED BY <2>1, <2>2
<1>30. Len(s) >= 1 /\ Len(t) \in Nat /\ (t = <<>> <=> Len(t) = 0)
  BY <1>2, <1>3, EmptySeq
<1>4. t # <<>> => t[Len(t)] = s[Len(s)]
  <2>1. ASSUME t # <<>> PROVE Len(t) \in 1..Len(t) /\ Len(t) + 1 = Len(s)
    BY <1>2, <1>3, <1>30, <2>1
  <2>. QED BY <1>3, <2>1
<1>5. t = <<>> => s[1] = s[Len(s)]
  <2>1. ASSUME t = <<>> PROVE Len(s) = 1
    BY <1>2, <1>3, <1>30, <2>1
  <2>. QED BY <2>1
<1>6. (\A i \in 1..Len(s) : s[i].st = "merged") => \A i \in 1..Len(t) : t[i].st = "merged"
  BY <1>2, <1>3
<1>7. s[1].st = "merged" => t = <<>>
  <2>1. 1 \in 1..Len(s)
    BY <1>2, <1>30
  <2>2. s[1].st = "merged" => 1 = Len(s)
    <3>1. \A i \in 1..Len(s) : s[i].st = "merged" => i = Len(s)
      BY <1>1 DEF PullsOK, HubOK
    <3>. QED BY <2>1, <3>1
  <2>. QED BY <1>2, <1>3, <1>30, <2>2
<1>8. inbox'[p] = t /\ s[Len(s)].st = gh[p].st
  BY <1>1, <1>2 DEF LastTold, ToldAll
<1>. QED BY <1>1, <1>4, <1>5, <1>6, <1>7, <1>8 DEF LastTold, ToldAll, AllMerged

LEMMA ReceiveOrderly ==
    ASSUME PullsOK, [P!Next]_P!vars, NEW p \in PR, p \notin disturbed', Orderly(p),
           NEW k \in Worker, NEW i \in DOMAIN inbox[p], P!Receive(k, p, i)
    PROVE  Orderly(p)'
<1>0. ActorsTyped /\ k \in P!Actor /\ row2[p] \in RowTypes /\ pc2[k] = "idle" /\ k \notin P!On(p)
  BY DEF PullsOK, P!Actor, StoresTyped, P!Receive, P!At, P!On
<1>1. i = 1 /\ P!Competing(p) = {}
  BY DEF P!Receive
<1>2. PICK x, y : x = inbox[p][1] /\ y = row2[p]
  OBVIOUS
<1>3. /\ x.st \in {"open", "closed", "merged"} /\ gh[p].st # "none" /\ inbox[p] # <<>>
      /\ x.st = "merged" => gh[p].st = "merged"
  BY <1>1, <1>2, Webhook
<1>4. PICK to : to = P!Handling(p, x)
  OBVIOUS
<1>5. P!Goto(k, to) /\ UNCHANGED <<gh, row2, ws, change>> /\ inbox'[p] = P!Without(inbox[p], 1)
  BY <1>1, <1>2, <1>4 DEF P!Receive, P!hub, P!sturdy, PullsOK, HubTyped
<1>6. /\ LastTold(p)'
      /\ ToldAll(p)' => x.st = gh[p].st
      /\ x.st = "merged" => ToldAll(p)'
  BY <1>2, <1>3, <1>5, FirstTaken DEF Orderly, LastTold
<1>61. AllMerged(p) => AllMerged(p)'
  BY <1>2, <1>3, <1>5, FirstTaken DEF Orderly, LastTold
<1>62. ToldAll(p)' => AllMerged(p)'
  BY DEF ToldAll, AllMerged
<1>7. CASE P!On(p) = {}
  <2>1. Still(p) /\ row2[p].st # "merging"
    BY <1>7 DEF Orderly
  <2>2. to = IF row2[p].ws = 0 THEN "import" ELSE "load"
    <3>1. row2[p].ws = 0 => x.st = "open"
      BY <1>2, <1>3, <2>1 DEF Still
    <3>. QED BY <1>4, <2>1, <3>1 DEF P!Handling
  <2>3. PICK m : m = [P!NoLoc EXCEPT !.op = "event", !.p = p, !.api = x, !.row = y]
    OBVIOUS
  <2>4. m.op = "event" /\ m.p = p /\ m.api = x
    BY <2>3 DEF P!NoLoc
  <2>5. Turned(k, to, m)
    BY <1>1, <1>2, <1>4, <1>5, <2>2, <2>3 DEF P!Receive, Turned, P!Goto
  <2>6. P!On(p)' = {k} /\ pc2'[k] = to /\ loc2'[k] = m
    BY <1>0, <1>7, <2>2, <2>4, <2>5, OnGoes
  <2>7. CASE row2[p].ws = 0
    <3>1. x.st = "open" /\ change[p] # "merged"
      BY <1>2, <1>3, <2>1, <2>7 DEF Still
    <3>2. ImportOK(p, k)'
      BY <1>5, <1>6, <2>1, <2>2, <2>4, <2>6, <2>7, <3>1 DEF ImportOK, Importing
    <3>. QED BY <1>6, <2>6, <3>2, TakenUp DEF InHand
  <2>8. CASE row2[p].ws # 0
    <3>1. change[p] = "merged" => x.st = "merged" /\ (Sole(p) => ws[row2[p].ws].archived)
      <4>1. 1 \in 1..Len(inbox[p])
        BY <1>1
      <4>. QED BY <1>2, <2>1, <4>1 DEF Still, AllMerged
    <3>2. Sole(p)' <=> Sole(p)
      BY <1>5 DEF Sole
    <3>3. UpdateOK(p, k)'
      BY <1>5, <1>6, <1>62, <2>1, <2>2, <2>4, <2>6, <2>8, <3>1, <3>2
         DEF UpdateOK, Updating, Changing
    <3>. QED BY <1>6, <2>6, <3>3, TakenUp DEF InHand
  <2>. QED BY <2>7, <2>8
<1>8. CASE P!On(p) # {}
  <2>1. PICK a \in P!On(p) : TRUE
    BY <1>8
  <2>2. /\ P!On(p) = {a} /\ a \in P!Actor /\ a # k /\ loc2[a].p = p /\ pc2[a] # "idle" /\ InHand(p, a)
        /\ loc2[a].op = "merge" /\ row2[p].st = "merging" /\ gh[p].st = "merged"
        /\ pc2[a] \notin {"rollback", "mergeCall"}
    BY <1>0, <1>1, <2>1 DEF Orderly, P!Competing, P!At, P!On
  <2>3. MergeOK(p, a) \/ UpdateOK(p, a)
    <3>1. pc2[a] \notin Importing /\ pc2[a] \notin Creating
      BY <2>2, LocIs DEF ActorKnows, Knows
    <3>. QED BY <2>2, <3>1 DEF InHand, ImportOK, CreateOK
  <2>4. row2[p].ws # 0
    <3>1. pc2[a] \in Updating \union Merging
      BY <2>3 DEF MergeOK, UpdateOK
    <3>. QED BY <2>2, <3>1, LocIs DEF ActorKnows, Knows
  <2>5. to = "idle"
    BY <1>4, <2>2, <2>4 DEF P!Handling
  <2>6. loc2' = loc2 /\ pc2' = pc2
    BY <1>0, <1>1, <1>2, <1>4, <1>5, <2>5 DEF P!Receive, P!Goto, ActorsTyped
  <2>7. P!On(p)' = {a}
    BY <2>2, <2>6 DEF P!On
  <2>8. CASE MergeOK(p, a)
    <3>1. pc2[a] \in {"ask", "get"}
      BY <2>2, <2>8 DEF MergeOK, Merging
    <3>2. MergeOK(p, a)'
      BY <1>5, <2>2, <2>6, <2>8, <3>1 DEF MergeOK
    <3>. QED BY <1>6, <2>7, <3>2, TakenUp DEF InHand
  <2>9. CASE UpdateOK(p, a)
    <3>1. Sole(p)' <=> Sole(p)
      BY <1>5 DEF Sole
    <3>2. UpdateOK(p, a)'
      BY <1>5, <1>61, <2>2, <2>6, <2>9, <3>1 DEF UpdateOK
    <3>. QED BY <1>6, <2>7, <3>2, TakenUp DEF InHand
  <2>. QED BY <2>3, <2>8, <2>9
<1>. QED BY <1>7, <1>8

-----------------------------------------------------------------------------
(* The one who handles a pull request takes a step.                        *)

LEMMA Working ==
    ASSUME PullsOK, NEW p \in PR, NEW a \in P!On(p), Orderly(p)
    PROVE  /\ ActorsTyped /\ a \in P!Actor /\ loc2[a].p = p /\ pc2[a] # "idle" /\ P!On(p) \subseteq {a}
           /\ LastTold(p) /\ row2[p] \in RowTypes /\ loc2[a] \in LocTypes /\ ActorKnows(a)
           /\ change[p] = "merged" => gh[p].st = "merged"
           /\ pc2[a] \in Importing => ImportOK(p, a)
           /\ pc2[a] \in Creating => CreateOK(p, a)
           /\ pc2[a] \in Merging => MergeOK(p, a)
           /\ pc2[a] \in Updating => UpdateOK(p, a)
           /\ pc2[a] \in Importing \union Creating \union Merging \union Updating
<1>1. /\ ActorsTyped /\ a \in P!Actor /\ loc2[a].p = p /\ pc2[a] # "idle" /\ P!On(p) \subseteq {a}
      /\ LastTold(p) /\ row2[p] \in RowTypes /\ loc2[a] \in LocTypes /\ ActorKnows(a) /\ InHand(p, a)
  BY DEF Orderly, LastTold, P!On, PullsOK, StoresTyped, ActorsTyped
<1>2. change[p] = "merged" => gh[p].st = "merged"
  BY MergedIsTold
<1>3. ImportOK(p, a) => pc2[a] \in Importing
  BY DEF ImportOK
<1>4. CreateOK(p, a) => pc2[a] \in Creating
  BY DEF CreateOK
<1>5. MergeOK(p, a) => pc2[a] \in Merging
  BY DEF MergeOK
<1>6. UpdateOK(p, a) => pc2[a] \in Updating
  BY DEF UpdateOK
<1>7. /\ Importing \intersect (Creating \union Merging \union Updating) = {}
      /\ Creating \intersect (Merging \union Updating) = {} /\ Merging \intersect Updating = {}
  BY DEF Importing, Creating, Merging, Updating, OfDraft, Changing
<1>8. ImportOK(p, a) \/ CreateOK(p, a) \/ MergeOK(p, a) \/ UpdateOK(p, a)
  BY <1>1 DEF InHand
<1>. QED BY <1>1, <1>2, <1>3, <1>4, <1>5, <1>6, <1>7, <1>8

LEMMA Leaves ==
    ASSUME ActorsTyped, NEW p \in PR, NEW a \in P!Actor, P!On(p) \subseteq {a}, P!Done(a)
    PROVE  P!On(p)' = {}
<1>1. Turned(a, "idle", P!NoLoc)
  BY DEF P!Done, P!Goto, Turned
<1>. QED BY <1>1, OnGoes

LEMMA SoleSame ==
    ASSUME NEW p \in PR, row2' = row2
    PROVE  Sole(p)' <=> Sole(p)
BY DEF Sole

LEMMA ImportOrderly ==
    ASSUME PullsOK, [P!Next]_P!vars, NEW p \in PR, NEW a \in P!On(p), Orderly(p), P!ImportPullRequest(a)
    PROVE  Orderly(p)'
<1>0. /\ ActorsTyped /\ a \in P!Actor /\ loc2[a].p = p /\ P!On(p) \subseteq {a} /\ LastTold(p)
      /\ pc2[a] = "import" /\ loc2[a] \in LocTypes /\ ImportOK(p, a) /\ ActorKnows(a)
  BY Working DEF P!ImportPullRequest, P!At, Importing
<1>1. UNCHANGED <<gh, inbox, row2, change>>
  BY DEF P!ImportPullRequest, P!hub, P!queues, P!sturdy
<1>2. LastTold(p)'
  BY <1>0, <1>1 DEF LastTold, ToldAll
<1>3. CASE row2[p].ws # 0
  <2>1. P!Done(a) /\ loc2[a].op = "import"
    BY <1>0, <1>3 DEF P!ImportPullRequest, ImportOK, ActorKnows, Knows, Importing
  <2>2. P!On(p)' = {}
    BY <1>0, <2>1, Leaves
  <2>3. Still(p)' /\ row2'[p].st # "merging"
    BY <1>0, <1>1, <1>3 DEF ImportOK, Still, ToldAll
  <2>. QED BY <1>2, <2>2, <2>3, PutDown
<1>4. CASE row2[p].ws = 0
  <2>1. PICK w \in P!WsId : loc2' = [loc2 EXCEPT ![a].w = w] /\ P!Goto(a, "fetchNew")
    BY <1>0, <1>4 DEF P!ImportPullRequest
  <2>2. PICK m : m = [loc2[a] EXCEPT !.w = w]
    OBVIOUS
  <2>3. m.p = p /\ m.op = loc2[a].op /\ m.api = loc2[a].api
    BY <1>0, <2>2 DEF LocTypes
  <2>4. Turned(a, "fetchNew", m)
    BY <1>0, <2>1, <2>2 DEF Turned, P!Goto, ActorsTyped
  <2>5. P!On(p)' = {a} /\ pc2'[a] = "fetchNew" /\ loc2'[a] = m
    BY <1>0, <2>3, <2>4, OnGoes
  <2>6. ImportOK(p, a)'
    BY <1>0, <1>1, <1>4, <2>3, <2>5 DEF ImportOK, Importing, ToldAll
  <2>. QED BY <1>2, <2>5, <2>6, TakenUp DEF InHand
<1>. QED BY <1>3, <1>4, <1>0 DEF RowTypes

LEMMA FetchNewOrderly ==
    ASSUME PullsOK, [P!Next]_P!vars, NEW p \in PR, NEW a \in P!On(p), Orderly(p), P!FetchAndSnapshot(a),
           pc2[a] = "fetchNew"
    PROVE  Orderly(p)'
<1>0. /\ ActorsTyped /\ a \in P!Actor /\ loc2[a].p = p /\ P!On(p) \subseteq {a} /\ LastTold(p)
      /\ ImportOK(p, a)
  BY Working DEF Importing
<1>1. UNCHANGED <<gh, inbox, row2, change>> /\ P!Goto(a, "insert") /\ loc2' = loc2
  BY DEF P!FetchAndSnapshot, P!At, P!hub, P!queues, P!sturdy
<1>2. Turned(a, "insert", loc2[a])
  BY <1>0, <1>1, Stayed DEF P!Goto
<1>3. P!On(p)' = {a} /\ pc2'[a] = "insert" /\ loc2'[a] = loc2[a]
  BY <1>0, <1>2, OnGoes
<1>4. ImportOK(p, a)'
  BY <1>0, <1>1, <1>3 DEF ImportOK, Importing, ToldAll
<1>5. LastTold(p)'
  BY <1>0, <1>1 DEF LastTold, ToldAll
<1>. QED BY <1>3, <1>4, <1>5, TakenUp DEF InHand

LEMMA InsertOrderly ==
    ASSUME PullsOK, [P!Next]_P!vars, NEW p \in PR, NEW a \in P!On(p), Orderly(p), P!InsertImported(a)
    PROVE  Orderly(p)'
<1>0. /\ ActorsTyped /\ a \in P!Actor /\ loc2[a].p = p /\ P!On(p) \subseteq {a} /\ LastTold(p)
      /\ pc2[a] = "insert" /\ ImportOK(p, a) /\ ActorKnows(a)
  BY Working DEF P!InsertImported, P!At, Importing
<1>1. row2[p].ws = 0 /\ loc2[a].w # 0
  BY <1>0 DEF ImportOK, ActorKnows, Knows, P!WsId
<1>2. UNCHANGED <<gh, inbox, change>> /\ P!Done(a)
  BY <1>0, <1>1 DEF P!InsertImported, P!hub, P!queues, P!sturdy
<1>3. PICK r : r = [ws |-> loc2[a].w, st |-> "open", importing |-> TRUE, head |-> loc2[a].api.head]
  OBVIOUS
<1>4. row2' = [row2 EXCEPT ![p] = r]
  BY <1>0, <1>1, <1>3 DEF P!InsertImported
<1>5. row2'[p] = r
  BY <1>4 DEF PullsOK, StoresTyped
<1>6. Still(p)' /\ row2'[p].st # "merging"
  BY <1>0, <1>1, <1>2, <1>3, <1>5 DEF Still, ToldAll, ImportOK
<1>7. LastTold(p)'
  BY <1>0, <1>2 DEF LastTold, ToldAll
<1>. QED BY <1>0, <1>2, <1>6, <1>7, Leaves, PutDown

LEMMA Onward ==
    ASSUME PullsOK, [P!Next]_P!vars, NEW p \in PR, NEW a \in P!On(p), Orderly(p), pc2[a] \in Updating,
           NEW to \in Updating \ {"load"}, NEW m, Turned(a, to, m),
           m.p = p, m.op = loc2[a].op, m.api = loc2[a].api, UNCHANGED <<gh, inbox, row2>>,
           loc2[a].op = "merge" => AllMerged(p),
           change'[p] = "merged" => loc2[a].api.st = "merged",
           change'[p] = "merged" /\ Sole(p) =>
               to \in {"after", "archiveWith"} \/ ws'[row2[p].ws].archived,
           to \in {"pull"} \union Changing /\ Sole(p) /\ m.ws.archived => ws'[m.w].archived
    PROVE  Orderly(p)'
<1>0. /\ ActorsTyped /\ a \in P!Actor /\ loc2[a].p = p /\ P!On(p) \subseteq {a} /\ LastTold(p)
      /\ UpdateOK(p, a)
  BY Working
<1>1. to # "idle"
  BY DEF Updating, OfDraft, Changing
<1>2. P!On(p)' = {a} /\ pc2'[a] = to /\ loc2'[a] = m
  BY <1>0, <1>1, OnGoes
<1>3. (Sole(p)' <=> Sole(p)) /\ (AllMerged(p)' <=> AllMerged(p)) /\ (ToldAll(p)' <=> ToldAll(p))
  BY SoleSame DEF AllMerged, ToldAll
<1>4. UpdateOK(p, a)'
  BY <1>0, <1>2, <1>3 DEF UpdateOK
<1>5. LastTold(p)'
  BY <1>0 DEF LastTold, ToldAll
<1>. QED BY <1>2, <1>4, <1>5, TakenUp DEF InHand

LEMMA InUpdating ==
    /\ Updating \ {"load"} = {"record", "unarchive", "fetch", "archive", "merge", "pull",
                              "change", "after", "archiveWith"}
    /\ Changing = {"change", "after", "archiveWith"} /\ "load" \in Updating
BY DEF Updating, OfDraft, Changing

(* What who updates a draft of this pull request alone knows of it.        *)
LEMMA AtUpdate ==
    ASSUME PullsOK, [P!Next]_P!vars, NEW p \in PR, NEW a \in P!On(p), Orderly(p), pc2[a] \in Updating
    PROVE  /\ ActorsTyped /\ a \in P!Actor /\ loc2[a].p = p /\ UpdateOK(p, a) /\ loc2[a] \in LocTypes
           /\ row2[p].ws \in P!WsId /\ row2[p].ws # 0 /\ loc2[a].op \in {"event", "merge"}
           /\ loc2[a].api.st \in {"open", "closed", "merged"} /\ ActorKnows(a)
           /\ change[p] = "merged" => loc2[a].api.st = "merged"
           /\ pc2[a] # "load" /\ loc2[a].op = "merge" => AllMerged(p)
           /\ pc2[a] \in OfDraft => loc2[a].w = row2[p].ws
           /\ ~P!Unarchive(a) /\ row2' = row2 /\ Sole(p) /\ ws[row2[p].ws].archived =>
                  ws'[row2[p].ws].archived
           /\ LastTold(p) /\ P!On(p) \subseteq {a}
<1>1. /\ ActorsTyped /\ a \in P!Actor /\ loc2[a].p = p /\ UpdateOK(p, a) /\ loc2[a] \in LocTypes
      /\ P!On(p) \subseteq {a} /\ LastTold(p) /\ ActorKnows(a) /\ row2[p] \in RowTypes
  BY Working
<1>2. row2[p].ws \in P!WsId /\ row2[p].ws # 0
  BY <1>1, PullRequestsAssumption DEF ActorKnows, Knows, RowTypes, P!WsId
<1>3. ~P!Unarchive(a) => KeepsArchived(p)
  BY <1>1, ArchivedKept
<1>4. ~P!Unarchive(a) /\ row2' = row2 /\ Sole(p) /\ ws[row2[p].ws].archived => ws'[row2[p].ws].archived
  BY <1>2, <1>3, SoleSame DEF KeepsArchived
<1>5. loc2[a].op \in {"event", "merge"} /\ loc2[a].api.st \in {"open", "closed", "merged"}
      /\ (pc2[a] \in OfDraft => loc2[a].w = row2[p].ws)
  BY <1>1 DEF ActorKnows, Knows, Updating
<1>. QED BY <1>1, <1>2, <1>4, <1>5 DEF UpdateOK

LEMMA LoadOrderly ==
    ASSUME PullsOK, [P!Next]_P!vars, NEW p \in PR, p \notin disturbed', NEW a \in P!On(p), Orderly(p), P!Load(a)
    PROVE  Orderly(p)'
<1>0. pc2[a] = "load" /\ pc2[a] \in Updating
  BY InUpdating DEF P!Load, P!At
<1>1. /\ ActorsTyped /\ a \in P!Actor /\ loc2[a].p = p /\ UpdateOK(p, a) /\ loc2[a] \in LocTypes
      /\ loc2[a].api.st \in {"open", "closed", "merged"}
      /\ change[p] = "merged" => loc2[a].api.st = "merged"
  BY <1>0, AtUpdate
<1>11. ~P!Unarchive(a) /\ row2' = row2 /\ Sole(p) /\ ws[row2[p].ws].archived => ws'[row2[p].ws].archived
  BY <1>0, AtUpdate
<1>2. PICK to : to = P!AfterLoad(loc2[a])
  OBVIOUS
<1>3. to \in {"unarchive", "archive", "merge", "record"}
  BY <1>1, <1>2 DEF P!AfterLoad
<1>4. PICK d, w : d = ws[loc2[a].row.ws] /\ w = loc2[a].row.ws
  OBVIOUS
<1>5. PICK m : m = [loc2[a] EXCEPT !.w = w, !.ws = d]
  OBVIOUS
<1>6. m.p = p /\ m.op = loc2[a].op /\ m.api = loc2[a].api
  BY <1>1, <1>5 DEF LocTypes
<1>7. Turned(a, to, m)
  BY <1>1, <1>2, <1>4, <1>5 DEF P!Load, Turned, P!Goto, ActorsTyped
<1>8. UNCHANGED <<gh, inbox, row2, change>>
  BY DEF P!Load, P!hub, P!queues, P!sturdy
<1>9. loc2[a].op = "merge" => AllMerged(p)
  <2>1. ~P!Ahead(a)
    BY <1>1 DEF P!Load
  <2>2. DOMAIN inbox[p] = 1..Len(inbox[p])
    BY DEF PullsOK, HubTyped
  <2>. QED BY <1>1, <2>1, <2>2 DEF P!Ahead, AllMerged
<1>10. change'[p] = "merged" /\ Sole(p) => ws'[row2[p].ws].archived
  BY <1>0, <1>11, <1>1, <1>8 DEF UpdateOK, P!Unarchive, P!At
<1>. QED BY <1>0, <1>1, <1>3, <1>6, <1>7, <1>8, <1>9, <1>10, InUpdating, Onward

LEMMA OpensOrderly ==
    ASSUME PullsOK, [P!Next]_P!vars, NEW p \in PR, NEW a \in P!On(p), Orderly(p),
           \/ P!Unarchive(a) \/ P!Archive(a)
           \/ P!FetchAndSnapshot(a) /\ pc2[a] = "fetch"
           \/ P!FetchTrunk(a) /\ pc2[a] = "pull"
           \/ P!AfterChange(a) \/ P!ArchiveWithChange(a)
    PROVE  Orderly(p)'
<1>0. /\ pc2[a] \in Updating /\ pc2[a] # "load" /\ pc2[a] \in OfDraft
      /\ loc2' = loc2 /\ UNCHANGED <<gh, inbox, row2, change>>
  BY InUpdating DEF P!Unarchive, P!Archive, P!FetchAndSnapshot, P!FetchTrunk, P!AfterChange,
     P!ArchiveWithChange, P!At, P!hub, P!queues, P!sturdy, OfDraft, Changing
<1>1. /\ ActorsTyped /\ a \in P!Actor /\ loc2[a].p = p /\ UpdateOK(p, a) /\ ActorKnows(a)
      /\ row2[p].ws \in P!WsId /\ loc2[a].w = row2[p].ws
      /\ change[p] = "merged" => loc2[a].api.st = "merged"
      /\ loc2[a].op = "merge" => AllMerged(p)
  BY <1>0, AtUpdate
<1>2. ~P!Unarchive(a) /\ Sole(p) /\ ws[row2[p].ws].archived => ws'[row2[p].ws].archived
  BY <1>0, AtUpdate
<1>3. PICK to \in Updating \ {"load"} :
          /\ P!Goto(a, to)
          /\ to \in {"pull"} \union Changing => pc2[a] \in {"pull"} \union Changing /\ pc2[a] # "archiveWith"
          /\ to \notin {"after", "archiveWith"} /\ pc2[a] \in {"after", "archiveWith"} =>
                 P!ArchiveWithChange(a)
  BY InUpdating DEF P!Unarchive, P!Archive, P!FetchAndSnapshot, P!FetchTrunk, P!AfterChange,
     P!ArchiveWithChange, P!At
<1>4. Turned(a, to, loc2[a])
  BY <1>0, <1>1, <1>3, Stayed DEF P!Goto
<1>5. P!Unarchive(a) => loc2[a].api.st = "open"
  BY <1>1 DEF ActorKnows, Knows, P!Unarchive, P!At
<1>6. pc2[a] \in {"pull"} \union Changing /\ Sole(p) /\ loc2[a].ws.archived => ws'[loc2[a].w].archived
  <2>1. pc2[a] \in {"pull"} \union Changing => ~P!Unarchive(a)
    BY InUpdating DEF P!Unarchive, P!At
  <2>. QED BY <1>1, <1>2, <2>1 DEF UpdateOK
<1>7. P!ArchiveWithChange(a) /\ Sole(p) => ws'[row2[p].ws].archived
  <2>1. SUFFICES ASSUME P!ArchiveWithChange(a), Sole(p), ~loc2[a].ws.archived
                 PROVE  ws'[row2[p].ws].archived
    BY <1>1, <1>6, InUpdating DEF P!ArchiveWithChange, P!At
  <2>2. PICK w, e, q : w = loc2[a].w /\ e = ws[w] /\ q = loc2[a].p
    OBVIOUS
  <2>3. PICK d : d = [e EXCEPT !.archived = TRUE, !.unarchived = FALSE, !.change = q]
    OBVIOUS
  <2>4. w \in P!WsId /\ e \in DraftTypes /\ ws \in [P!WsId -> DraftTypes]
    BY <1>1, <2>2 DEF PullsOK, StoresTyped
  <2>5. d.archived
    BY <2>3, <2>4 DEF DraftTypes
  <2>6. ws' = [ws EXCEPT ![w] = d]
    BY <2>1, <2>2, <2>3, <2>4 DEF P!ArchiveWithChange
  <2>. QED BY <1>1, <2>2, <2>4, <2>5, <2>6
<1>8. change'[p] = "merged" => loc2[a].api.st = "merged"
  BY <1>0, <1>1
<1>9. change'[p] = "merged" /\ Sole(p) => to \in {"after", "archiveWith"} \/ ws'[row2[p].ws].archived
  BY <1>0, <1>1, <1>2, <1>3, <1>5, <1>7 DEF UpdateOK
<1>10. to \in {"pull"} \union Changing /\ Sole(p) /\ loc2[a].ws.archived => ws'[loc2[a].w].archived
  BY <1>3, <1>6
<1>. QED BY <1>0, <1>1, <1>4, <1>8, <1>9, <1>10, Onward

LEMMA MergeReads ==
    ASSUME PullsOK, [P!Next]_P!vars, NEW p \in PR, NEW a \in P!On(p), Orderly(p), P!MergePullRequest(a)
    PROVE  Orderly(p)'
<1>0. /\ pc2[a] = "merge" /\ pc2[a] \in Updating /\ pc2[a] # "load" /\ pc2[a] \in OfDraft
      /\ UNCHANGED <<gh, inbox, row2, change, ws>>
  BY InUpdating DEF P!MergePullRequest, P!At, P!hub, P!queues, P!sturdy, OfDraft, Changing
<1>1. /\ ActorsTyped /\ a \in P!Actor /\ loc2[a].p = p /\ UpdateOK(p, a) /\ loc2[a] \in LocTypes
      /\ row2[p].ws \in P!WsId /\ loc2[a].w = row2[p].ws
      /\ change[p] = "merged" => loc2[a].api.st = "merged"
      /\ loc2[a].op = "merge" => AllMerged(p)
  BY <1>0, AtUpdate
<1>2. PICK d, w : w = loc2[a].w /\ d = ws[w]
  OBVIOUS
<1>3. PICK m : m = [loc2[a] EXCEPT !.ws = d]
  OBVIOUS
<1>4. m.p = p /\ m.op = loc2[a].op /\ m.api = loc2[a].api /\ m.w = w /\ m.ws = d
  BY <1>1, <1>2, <1>3 DEF LocTypes
<1>5. PICK to \in {"record", "change", "pull"} : P!Goto(a, to)
  BY DEF P!MergePullRequest
<1>6. Turned(a, to, m)
  BY <1>1, <1>2, <1>3, <1>5 DEF P!MergePullRequest, Turned, P!Goto, ActorsTyped
<1>7. change'[p] = "merged" /\ Sole(p) => ws'[row2[p].ws].archived
  BY <1>0, <1>1 DEF UpdateOK
<1>8. m.ws.archived => ws'[m.w].archived
  BY <1>0, <1>2, <1>4
<1>9. to \in Updating \ {"load"}
  BY <1>5, InUpdating
<1>. QED BY <1>0, <1>1, <1>4, <1>6, <1>7, <1>8, <1>9, Onward

LEMMA ChangeOrderly ==
    ASSUME PullsOK, [P!Next]_P!vars, NEW p \in PR, NEW a \in P!On(p), Orderly(p), P!CreateChange(a)
    PROVE  Orderly(p)'
<1>0. /\ pc2[a] = "change" /\ pc2[a] \in Updating /\ pc2[a] # "load" /\ pc2[a] \in OfDraft
      /\ UNCHANGED <<gh, inbox, row2, ws, loc2>>
  BY InUpdating DEF P!CreateChange, P!At, P!hub, P!queues, OfDraft, Changing
<1>1. /\ ActorsTyped /\ a \in P!Actor /\ loc2[a].p = p /\ UpdateOK(p, a) /\ ActorKnows(a)
      /\ row2[p].ws \in P!WsId /\ loc2[a].w = row2[p].ws
      /\ change[p] = "merged" => loc2[a].api.st = "merged"
      /\ loc2[a].op = "merge" => AllMerged(p)
  BY <1>0, AtUpdate
<1>2. loc2[a].api.st = "merged"
  BY <1>0, <1>1 DEF ActorKnows, Knows, Changing
<1>3. PICK to \in {"after", "record"} : /\ P!Goto(a, to)
                                        /\ to = "record" => change[p] # "none"
  BY <1>1 DEF P!CreateChange
<1>4. Turned(a, to, loc2[a])
  BY <1>0, <1>1, <1>3, Stayed DEF P!Goto
<1>5. to = "record" /\ change'[p] = "merged" => change[p] = "merged"
  BY <1>3, ChangeNext DEF ChangeMoves
<1>6. change'[p] = "merged" /\ Sole(p) => to \in {"after", "archiveWith"} \/ ws'[row2[p].ws].archived
  BY <1>0, <1>1, <1>3, <1>5 DEF UpdateOK
<1>7. pc2[a] \in Changing /\ (Sole(p) /\ loc2[a].ws.archived => ws'[loc2[a].w].archived)
  BY <1>0, <1>1, InUpdating DEF UpdateOK
<1>8. to \in Updating \ {"load"}
  BY <1>3, InUpdating
<1>. QED BY <1>0, <1>1, <1>2, <1>4, <1>6, <1>7, <1>8, Onward

(* The row is written and the pull request put down.                       *)
LEMMA RowWritten ==
    ASSUME PullsOK, NEW p \in PR, NEW r, row2' = P!Written(p, r)
    PROVE  row2'[p].ws = row2[p].ws /\ row2'[p].st = r.st /\ \A q \in PR \ {p} : row2'[q] = row2[q]
<1>1. row2 \in [PR -> RowTypes]
  BY DEF PullsOK, StoresTyped
<1>2. PICK x : x = row2[p]
  OBVIOUS
<1>3. PICK y : y = [x EXCEPT !.st = r.st, !.head = r.head, !.importing = r.importing]
  OBVIOUS
<1>4. row2' = [row2 EXCEPT ![p] = y]
  BY <1>1, <1>2, <1>3 DEF P!Written
<1>5. y.ws = x.ws /\ y.st = r.st
  BY <1>1, <1>2, <1>3 DEF RowTypes
<1>. QED BY <1>1, <1>2, <1>4, <1>5

LEMMA RecordOrderly ==
    ASSUME PullsOK, [P!Next]_P!vars, NEW p \in PR, NEW a \in P!On(p), Orderly(p), P!Record(a)
    PROVE  Orderly(p)'
<1>0. /\ pc2[a] = "record" /\ pc2[a] \in Updating /\ pc2[a] # "load"
      /\ UNCHANGED <<gh, inbox, ws, change>> /\ P!Done(a)
  BY InUpdating DEF P!Record, P!At, P!hub, P!queues, P!sturdy
<1>1. /\ ActorsTyped /\ a \in P!Actor /\ loc2[a].p = p /\ UpdateOK(p, a) /\ ActorKnows(a)
      /\ row2[p].ws # 0 /\ loc2[a].op \in {"event", "merge"}
      /\ loc2[a].api.st \in {"open", "closed", "merged"} /\ loc2[a] \in LocTypes
      /\ change[p] = "merged" => loc2[a].api.st = "merged"
      /\ loc2[a].op = "merge" => AllMerged(p)
      /\ LastTold(p) /\ P!On(p) \subseteq {a}
  BY <1>0, AtUpdate
<1>2. PICK r : r = [loc2[a].row EXCEPT !.st = loc2[a].api.st]
  OBVIOUS
<1>3. r.st = loc2[a].api.st
  <2>1. loc2[a].row \in RowTypes
    BY <1>1 DEF LocTypes
  <2>. QED BY <1>2, <2>1 DEF RowTypes
<1>4. row2'[p].ws = row2[p].ws /\ row2'[p].st = loc2[a].api.st
  <2>1. row2' = P!Written(p, r)
    BY <1>1, <1>2 DEF P!Record
  <2>. QED BY <1>3, <2>1, RowWritten
<1>5. loc2[a].api.st = "merged" => gh[p].st = "merged" /\ AllMerged(p)
  <2>1. loc2[a].api.st = "merged" => gh[p].st = "merged"
    BY <1>1, MergedIsTold
  <2>. QED BY <1>1, <2>1 DEF UpdateOK
<1>6. ToldAll(p) => loc2[a].api.st = gh[p].st
  BY <1>1, <1>5 DEF UpdateOK
<1>7. change[p] = "merged" /\ Sole(p) => ws[row2[p].ws].archived
  BY <1>0, <1>1 DEF UpdateOK
<1>8. Sole(p)' => Sole(p)
  BY <1>1, SoleWas
<1>9. Still(p)' /\ row2'[p].st # "merging"
  BY <1>0, <1>1, <1>4, <1>5, <1>6, <1>7, <1>8 DEF Still, ToldAll, AllMerged
<1>10. LastTold(p)' /\ P!On(p)' = {}
  BY <1>0, <1>1, Leaves DEF LastTold, ToldAll
<1>. QED BY <1>9, <1>10, PutDown

LEMMA UpdateOrderly ==
    ASSUME PullsOK, [P!Next]_P!vars, NEW p \in PR, p \notin disturbed', NEW a \in P!On(p), Orderly(p),
           P!UpdateStep(a)
    PROVE  Orderly(p)'
<1>1. pc2[a] # "fetchTrunk"
  <2>1. pc2[a] \in Importing \union Creating \union Merging \union Updating
    BY Working
  <2>. QED BY <2>1 DEF Importing, Creating, Merging, Updating, OfDraft, Changing
<1>2. P!FetchTrunk(a) => pc2[a] = "pull"
  BY <1>1 DEF P!FetchTrunk
<1>3. P!FetchAndSnapshot(a) => pc2[a] \in {"fetch", "fetchNew"}
  BY DEF P!FetchAndSnapshot
<1>4. ~P!ArchiveImported(a)
  <2>1. pc2[a] \in Importing \union Creating \union Merging \union Updating
    BY Working
  <2>. QED BY <2>1 DEF P!ArchiveImported, P!At, Importing, Creating, Merging, Updating, OfDraft,
              Changing
<1>. QED BY <1>2, <1>3, <1>4, ImportOrderly, FetchNewOrderly, InsertOrderly, LoadOrderly, OpensOrderly,
            MergeReads, ChangeOrderly, RecordOrderly DEF P!UpdateStep

LEMMA MergingOrderly ==
    ASSUME PullsOK, [P!Next]_P!vars, NEW p \in PR, NEW a \in P!On(p), Orderly(p), P!MergeStep(a)
    PROVE  Orderly(p)'
<1>0. pc2[a] \in Merging
  BY DEF P!MergeStep, P!SetMerging, P!Ask, P!MergeCall, P!Rollback, P!Get, P!At, Merging
<1>1. /\ ActorsTyped /\ a \in P!Actor /\ loc2[a].p = p /\ MergeOK(p, a) /\ ActorKnows(a)
      /\ loc2[a] \in LocTypes /\ P!On(p) \subseteq {a} /\ LastTold(p)
      /\ change[p] = "merged" => gh[p].st = "merged"
  BY <1>0, Working
<1>2. row2[p].ws # 0 /\ loc2[a].op = "merge" /\ loc2[a].row \in RowTypes
  BY <1>0, <1>1 DEF ActorKnows, Knows, LocTypes
<1>3. UNCHANGED <<ws, change>>
  BY DEF P!MergeStep, P!SetMerging, P!Ask, P!MergeCall, P!Rollback, P!Get, P!sturdy
<1>4. CASE P!SetMerging(a)
  <2>1. pc2[a] = "setMerging" /\ UNCHANGED <<gh, inbox>> /\ P!Goto(a, "ask")
    BY <1>4 DEF P!SetMerging, P!At, P!hub, P!queues
  <2>2. PICK r : r = [loc2[a].row EXCEPT !.st = "merging"]
    OBVIOUS
  <2>3. PICK m : m = [loc2[a] EXCEPT !.row = r]
    OBVIOUS
  <2>4. r.st = "merging"
    BY <1>2, <2>2 DEF RowTypes
  <2>5. m.p = p
    BY <1>1, <2>3 DEF LocTypes
  <2>6. row2' = P!Written(p, r)
    BY <1>1, <1>4, <2>2 DEF P!SetMerging
  <2>7. row2'[p].st = "merging"
    BY <2>4, <2>6, RowWritten
  <2>8. loc2' = [loc2 EXCEPT ![a] = m]
    BY <1>1, <1>4, <2>2, <2>3 DEF P!SetMerging, ActorsTyped
  <2>9. P!On(p)' = {a} /\ pc2'[a] = "ask" /\ loc2'[a] = m
    <3>1. Turned(a, "ask", m)
      BY <2>1, <2>8 DEF Turned, P!Goto
    <3>. QED BY <1>1, <2>5, <3>1, OnGoes
  <2>10. MergeOK(p, a)'
    BY <1>1, <1>3, <2>1, <2>7, <2>9 DEF MergeOK, Merging, ToldAll
  <2>11. LastTold(p)'
    BY <1>1, <2>1 DEF LastTold, ToldAll
  <2>. QED BY <2>9, <2>10, <2>11, TakenUp DEF InHand
<1>5. CASE P!Ask(a) \/ P!Get(a)
  <2>1. UNCHANGED <<gh, inbox, row2>> /\ pc2[a] \in {"ask", "get"}
    BY <1>5 DEF P!Ask, P!Get, P!At, P!hub, P!queues
  <2>2. LastTold(p)'
    BY <1>1, <2>1 DEF LastTold, ToldAll
  <2>3. CASE gh[p].st = "merged"
    <3>1. PICK m, x : x = P!Api(p) /\ m = [loc2[a] EXCEPT !.api = x]
      OBVIOUS
    <3>2. x.st = "merged"
      BY <2>3, <3>1 DEF P!Api
    <3>3. m.p = p /\ m.op = "merge" /\ m.api = x
      BY <1>1, <1>2, <3>1 DEF LocTypes
    <3>4. Turned(a, "load", m)
      BY <1>1, <1>5, <2>3, <3>1 DEF P!Ask, P!Get, Turned, P!Goto, ActorsTyped
    <3>5. P!On(p)' = {a} /\ pc2'[a] = "load" /\ loc2'[a] = m
      BY <1>1, <3>3, <3>4, OnGoes
    <3>6. row2[p].st = "merging" /\ change[p] # "merged"
      BY <1>1, <2>1 DEF MergeOK
    <3>7. UpdateOK(p, a)'
      BY <1>3, <2>1, <3>2, <3>3, <3>5, <3>6, InUpdating DEF UpdateOK
    <3>. QED BY <2>2, <3>5, <3>7, TakenUp DEF InHand
  <2>4. CASE gh[p].st # "merged"
    <3>1. pc2[a] = "ask" /\ P!Goto(a, "mergeCall") /\ loc2' = loc2
      BY <1>1, <1>5, <2>4 DEF P!Ask, P!Get, P!At, MergeOK
    <3>2. P!On(p)' = {a} /\ pc2'[a] = "mergeCall" /\ loc2'[a] = loc2[a]
      BY <1>1, <3>1, Stayed, OnGoes DEF P!Goto
    <3>3. MergeOK(p, a)'
      BY <1>1, <1>3, <2>1, <2>4, <3>1, <3>2 DEF MergeOK, Merging, ToldAll
    <3>. QED BY <2>2, <3>2, <3>3, TakenUp DEF InHand
  <2>. QED BY <2>3, <2>4
<1>6. CASE P!MergeCall(a)
  <2>1. pc2[a] = "mergeCall" /\ row2' = row2 /\ loc2' = loc2
    BY <1>6 DEF P!MergeCall, P!At
  <2>2. CASE P!Goto(a, "rollback") /\ UNCHANGED <<gh, remote2, P!queues>>
    <3>1. UNCHANGED <<gh, inbox>>
      BY <2>2 DEF P!queues
    <3>2. P!On(p)' = {a} /\ pc2'[a] = "rollback" /\ loc2'[a] = loc2[a]
      BY <1>1, <2>1, <2>2, Stayed, OnGoes DEF P!Goto
    <3>3. MergeOK(p, a)'
      BY <1>1, <1>3, <2>1, <3>1, <3>2 DEF MergeOK, Merging, ToldAll
    <3>4. LastTold(p)'
      BY <1>1, <3>1 DEF LastTold, ToldAll
    <3>. QED BY <3>2, <3>3, <3>4, TakenUp DEF InHand
  <2>3. CASE gh[p].st = "open" /\ P!Goto(a, "get")
             /\ \E b \in 0..Len(remote2) : gh' = [gh EXCEPT ![p] = P!Merged(p, b)]
    <3>1. PICK b \in 0..Len(remote2) : gh' = [gh EXCEPT ![p] = P!Merged(p, b)]
      BY <2>3
    <3>2. P!Merged(p, b).st = "merged"
      BY MergedTyped DEF PullsOK
    <3>3. gh'[p].st = "merged"
      BY <3>1, <3>2 DEF PullsOK, HubTyped
    <3>4. Tells(p)
      BY <2>3, <3>3, SomebodyMoves DEF HubMoves, Moves, Hears
    <3>5. LastTold(p)' /\ ~ToldAll(p)'
      BY <3>4, Telling DEF LastTold
    <3>6. P!On(p)' = {a} /\ pc2'[a] = "get" /\ loc2'[a] = loc2[a]
      BY <1>1, <2>1, <2>3, Stayed, OnGoes DEF P!Goto
    <3>7. MergeOK(p, a)'
      BY <1>1, <1>3, <2>1, <3>3, <3>5, <3>6 DEF MergeOK, Merging
    <3>. QED BY <3>5, <3>6, <3>7, TakenUp DEF InHand
  <2>. QED BY <1>1, <1>6, <2>2, <2>3 DEF P!MergeCall
<1>7. CASE P!Rollback(a)
  <2>1. pc2[a] = "rollback" /\ UNCHANGED <<gh, inbox>> /\ P!Done(a)
    BY <1>7 DEF P!Rollback, P!At, P!hub, P!queues
  <2>2. PICK r : r = [loc2[a].row EXCEPT !.st = "open"]
    OBVIOUS
  <2>3. r.st = "open"
    BY <1>2, <2>2 DEF RowTypes
  <2>4. row2'[p].st = "open" /\ row2'[p].ws = row2[p].ws
    BY <1>1, <1>7, <2>2, <2>3, RowWritten DEF P!Rollback
  <2>5. Still(p)' /\ row2'[p].st # "merging"
    BY <1>1, <1>2, <1>3, <2>1, <2>4 DEF Still, MergeOK, ToldAll
  <2>6. LastTold(p)' /\ P!On(p)' = {}
    BY <1>1, <2>1, Leaves DEF LastTold, ToldAll
  <2>. QED BY <2>5, <2>6, PutDown
<1>. QED BY <1>4, <1>5, <1>6, <1>7 DEF P!MergeStep

LEMMA CreatingOrderly ==
    ASSUME PullsOK, [P!Next]_P!vars, NEW p \in PR, NEW a \in P!On(p), Orderly(p), P!CreateStep(a)
    PROVE  Orderly(p)'
<1>0. pc2[a] \in Creating
  BY DEF P!CreateStep, P!PushBranch, P!Create, P!InsertOwn, P!UpdateOwn, P!At, Creating
<1>1. /\ ActorsTyped /\ a \in P!Actor /\ loc2[a].p = p /\ CreateOK(p, a) /\ ActorKnows(a)
      /\ loc2[a] \in LocTypes /\ P!On(p) \subseteq {a} /\ LastTold(p)
      /\ change[p] = "merged" => gh[p].st = "merged"
  BY <1>0, Working
<1>2. ~P!Create(a) /\ p # NoPR /\ loc2[a].w # 0
  BY <1>0, <1>1, PullRequestsAssumption DEF ActorKnows, Knows, P!Create, P!At, P!WsId
<1>3. UNCHANGED <<ws, change>>
  BY DEF P!CreateStep, P!PushBranch, P!Create, P!InsertOwn, P!UpdateOwn, P!sturdy
<1>4. CASE P!PushBranch(a)
  <2>1. pc2[a] = "pushBranch" /\ P!Goto(a, "edit") /\ loc2' = loc2 /\ row2' = row2
    BY <1>1, <1>2, <1>4 DEF P!PushBranch, P!At
  <2>2. gh'[p].st = gh[p].st /\ HubMoves
        /\ (p \notin P!Pushed(loc2[a]) => gh'[p] = gh[p] /\ inbox'[p] = inbox[p])
    BY <1>1, <1>4, PushMoves DEF PullsOK
  <2>3. ToldOrSame(p)
    <3>1. \A k \in Worker : \A i \in DOMAIN inbox[p] : ~P!Receive(k, p, i)
      <4>1. SUFFICES ASSUME NEW k \in Worker, NEW i \in DOMAIN inbox[p], P!Receive(k, p, i)
                     PROVE  FALSE
        OBVIOUS
      <4>2. k # a /\ pc2' = [pc2 EXCEPT ![k] = P!Handling(p, inbox[p][i])]
        BY <2>1, <4>1 DEF P!Receive, P!Goto, P!At
      <4>3. pc2'[a] = pc2[a]
        BY <1>1, <4>2 DEF ActorsTyped
      <4>. QED BY <1>1, <2>1, <4>3 DEF P!Goto, ActorsTyped
    <3>. QED BY <3>1, HubOfOthers
  <2>4. LastTold(p)'
    BY <1>1, <2>3, LastOfOthers
  <2>5. ToldAll(p)' => ToldAll(p)
    BY <2>3, Telling DEF ToldOrSame, ToldAll
  <2>6. P!On(p)' = {a} /\ pc2'[a] = "edit" /\ loc2'[a] = loc2[a]
    BY <1>1, <2>1, Stayed, OnGoes DEF P!Goto
  <2>7. CreateOK(p, a)'
    BY <1>1, <1>3, <2>1, <2>2, <2>5, <2>6 DEF CreateOK, Creating
  <2>. QED BY <2>4, <2>6, <2>7, TakenUp DEF InHand
<1>5. CASE P!InsertOwn(a)
  <2>1. pc2[a] = "insertOwn" /\ UNCHANGED <<gh, inbox>> /\ P!Done(a)
    BY <1>5 DEF P!InsertOwn, P!At, P!hub, P!queues
  <2>2. row2[p].ws = 0 /\ ~ToldAll(p)
    BY <1>1, <2>1 DEF CreateOK
  <2>3. PICK r : r = [ws |-> loc2[a].w, st |-> "open", importing |-> FALSE, head |-> gh[p].head]
    OBVIOUS
  <2>4. row2' = [row2 EXCEPT ![p] = r]
    BY <1>1, <1>5, <2>2, <2>3 DEF P!InsertOwn
  <2>5. row2'[p] = r
    BY <2>4 DEF PullsOK, StoresTyped
  <2>6. Still(p)' /\ row2'[p].st # "merging"
    BY <1>1, <1>2, <1>3, <2>1, <2>2, <2>3, <2>5 DEF Still, CreateOK, ToldAll
  <2>7. LastTold(p)' /\ P!On(p)' = {}
    BY <1>1, <2>1, Leaves DEF LastTold, ToldAll
  <2>. QED BY <2>6, <2>7, PutDown
<1>6. CASE P!UpdateOwn(a)
  <2>1. pc2[a] = "edit" /\ UNCHANGED <<gh, inbox>> /\ P!Done(a)
    BY <1>6 DEF P!UpdateOwn, P!At, P!hub, P!queues
  <2>2. PICK r : r = [loc2[a].row EXCEPT !.head = gh[p].head, !.importing = FALSE]
    OBVIOUS
  <2>3. loc2[a].row.st = "open" /\ loc2[a].row \in RowTypes /\ row2[p].ws # 0
    BY <1>1, <2>1 DEF CreateOK, LocTypes, ActorKnows, Knows
  <2>4. r.st = "open"
    BY <2>2, <2>3 DEF RowTypes
  <2>5. row2'[p].st = "open" /\ row2'[p].ws = row2[p].ws
    BY <1>1, <1>6, <2>2, <2>4, RowWritten DEF P!UpdateOwn
  <2>6. Still(p)' /\ row2'[p].st # "merging"
    BY <1>1, <1>3, <2>1, <2>3, <2>5 DEF Still, CreateOK, ToldAll
  <2>7. LastTold(p)' /\ P!On(p)' = {}
    BY <1>1, <2>1, Leaves DEF LastTold, ToldAll
  <2>. QED BY <2>6, <2>7, PutDown
<1>. QED BY <1>2, <1>4, <1>5, <1>6 DEF P!CreateStep

-----------------------------------------------------------------------------
(* The pull requests that are handled one by one, in order.                *)

LEMMA StepOrderly ==
    ASSUME PullsOK, [P!Next]_P!vars, NEW p \in PR, p \notin disturbed', NEW a \in P!On(p), Orderly(p),
           P!Step(a)
    PROVE  Orderly(p)'
<1>1. ~P!UnsetHead(a) /\ ~P!UnsetUpToDate(a)
  <2>1. pc2[a] \in Importing \union Creating \union Merging \union Updating
    BY Working
  <2>. QED BY <2>1 DEF P!UnsetHead, P!UnsetUpToDate, P!At, Importing, Creating, Merging, Updating,
              OfDraft, Changing
<1>. QED BY <1>1, UpdateOrderly, MergingOrderly, CreatingOrderly DEF P!Step

(* Who goes on works on the pull request it has worked on, except Create.  *)
LEMMA KeepsAt ==
    ASSUME PullsOK, NEW a \in P!Actor, P!Step(a), pc2'[a] # "idle", loc2'[a].p # loc2[a].p
    PROVE  P!Create(a)
<1>1. /\ loc2 \in [P!Actor -> LocTypes] /\ pc2 \in [P!Actor -> Places] /\ loc2[a] \in LocTypes
      /\ loc2[a].row \in RowTypes
  BY LocIs DEF PullsOK, ActorsTyped
<1>2. ~P!Done(a)
  BY <1>1 DEF P!Done, P!Goto
<1>3. loc2' # loc2
  BY <1>1
<1>4. ASSUME NEW m, loc2' = [loc2 EXCEPT ![a] = m], m.p = loc2[a].p PROVE FALSE
  BY <1>1, <1>4
<1>5. ~P!ImportPullRequest(a)
  <2>1. SUFFICES ASSUME NEW w \in P!WsId, loc2' = [loc2 EXCEPT ![a].w = w] PROVE FALSE
    BY <1>2 DEF P!ImportPullRequest
  <2>2. loc2'[a] = [loc2[a] EXCEPT !.w = w]
    BY <1>1, <2>1
  <2>. QED BY <1>1, <2>2 DEF LocTypes
<1>6. ~P!Load(a)
  <2>1. SUFFICES ASSUME loc2' = [loc2 EXCEPT ![a].w = loc2[a].row.ws, ![a].ws = ws[loc2[a].row.ws]]
                 PROVE  FALSE
    BY DEF P!Load
  <2>2. loc2'[a] = [loc2[a] EXCEPT !.w = loc2[a].row.ws, !.ws = ws[loc2[a].row.ws]]
    BY <1>1, <2>1
  <2>. QED BY <1>1, <2>2 DEF LocTypes
<1>7. ~P!MergePullRequest(a)
  <2>1. SUFFICES ASSUME loc2' = [loc2 EXCEPT ![a].ws = ws[loc2[a].w]] PROVE FALSE
    BY DEF P!MergePullRequest
  <2>2. loc2'[a] = [loc2[a] EXCEPT !.ws = ws[loc2[a].w]]
    BY <1>1, <2>1
  <2>. QED BY <1>1, <2>2 DEF LocTypes
<1>8. ~P!SetMerging(a)
  <2>1. SUFFICES ASSUME loc2' = [loc2 EXCEPT ![a].row.st = "merging"] PROVE FALSE
    BY DEF P!SetMerging
  <2>2. loc2'[a] = [loc2[a] EXCEPT !.row = [loc2[a].row EXCEPT !.st = "merging"]]
    BY <1>1, <2>1
  <2>. QED BY <1>1, <2>2 DEF LocTypes
<1>9. ~P!Ask(a) /\ ~P!Get(a)
  <2>1. SUFFICES ASSUME loc2' = [loc2 EXCEPT ![a].api = P!Api(loc2[a].p)] PROVE FALSE
    BY <1>3 DEF P!Ask, P!Get
  <2>2. loc2'[a] = [loc2[a] EXCEPT !.api = P!Api(loc2[a].p)]
    BY <1>1, <2>1
  <2>. QED BY <1>1, <2>2 DEF LocTypes
<1>10. /\ ~P!FetchAndSnapshot(a) /\ ~P!InsertImported(a) /\ ~P!ArchiveImported(a)
       /\ ~P!Unarchive(a) /\ ~P!Archive(a)
       /\ ~P!FetchTrunk(a) /\ ~P!CreateChange(a) /\ ~P!AfterChange(a) /\ ~P!ArchiveWithChange(a)
       /\ ~P!Record(a) /\ ~P!UnsetHead(a) /\ ~P!UnsetUpToDate(a) /\ ~P!MergeCall(a) /\ ~P!Rollback(a)
       /\ ~P!PushBranch(a) /\ ~P!InsertOwn(a) /\ ~P!UpdateOwn(a)
  BY <1>2, <1>3
     DEF P!FetchAndSnapshot, P!InsertImported, P!ArchiveImported, P!Unarchive, P!Archive,
     P!FetchTrunk, P!CreateChange,
     P!AfterChange, P!ArchiveWithChange, P!Record, P!UnsetHead, P!UnsetUpToDate, P!MergeCall, P!Rollback,
     P!PushBranch, P!InsertOwn, P!UpdateOwn
<1>. QED BY <1>5, <1>6, <1>7, <1>8, <1>9, <1>10 DEF P!Step, P!UpdateStep, P!MergeStep, P!CreateStep

LEMMA TouchedOrderly ==
    ASSUME PullsOK, [P!Next]_P!vars, ~failed2', NEW p \in PR, p \notin disturbed', Orderly(p), Touched(p)
    PROVE  Orderly(p)'
<1>1. CASE \E a \in P!On(p) : P!Step(a)
  BY <1>1, StepOrderly
<1>2. CASE \E k \in Worker : \E i \in DOMAIN inbox[p] : P!Receive(k, p, i)
  BY <1>2, ReceiveOrderly
<1>3. ASSUME NEW a \in P!Actor \ P!On(p), pc2'[a] # "idle", loc2'[a].p = p,
             ~(\E k \in Worker : \E i \in DOMAIN inbox[p] : P!Receive(k, p, i))
      PROVE  Orderly(p)'
  <2>1. Mover(a)
    <3>1. pc2'[a] # pc2[a] \/ loc2'[a] # loc2[a]
      BY <1>3 DEF P!On
    <3>2. ASSUME NEW b \in P!Actor, Mover(b) PROVE b = a
      BY <1>3, <3>1, <3>2, ActorsNext
    <3>3. \E b \in P!Actor : Mover(b)
      BY <3>1, ActorsNext
    <3>. QED BY <3>2, <3>3
  <2>2. ActorsTyped /\ a \in P!Actor
    BY DEF PullsOK
  <2>3. CASE P!Step(a)
    <3>1. loc2[a].p # p
      BY <1>3, <2>2, <2>3, StepFrame DEF P!On, StepKeeps
    <3>2. P!Create(a)
      BY <1>3, <2>2, <2>3, <3>1, KeepsAt
    <3>. QED BY <1>3, <2>2, <3>2, CreateOrderly
  <2>4. CASE a \in Worker /\ P!Receiving(a)
    <3>1. CASE P!ReceivePush(a)
      <4>1. PICK m : m = [P!NoLoc EXCEPT !.op = "push"]
        OBVIOUS
      <4>2. m.p = NoPR
        BY <4>1 DEF P!NoLoc
      <4>3. loc2'[a] = m
        BY <2>2, <3>1, <4>1 DEF P!ReceivePush, ActorsTyped
      <4>. QED BY <1>3, <4>2, <4>3, PullRequestsAssumption
    <3>2. ASSUME NEW q \in PR, NEW i \in DOMAIN inbox[q], P!Receive(a, q, i)
          PROVE  Orderly(p)'
      <4>1. q # p
        BY <1>3, <2>4, <3>2
      <4>2. PICK m, x, y : /\ x = inbox[q][i] /\ y = row2[q]
                           /\ m = [P!NoLoc EXCEPT !.op = "event", !.p = q, !.api = x, !.row = y]
        OBVIOUS
      <4>3. m.p = q
        BY <4>2 DEF P!NoLoc
      <4>4. P!Handling(q, x) # "idle"
        BY <1>3, <2>2, <3>2, <4>2 DEF P!Receive, P!Goto, ActorsTyped
      <4>5. loc2'[a] = m
        BY <2>2, <3>2, <4>2, <4>4 DEF P!Receive, ActorsTyped
      <4>. QED BY <1>3, <4>1, <4>3, <4>5
    <3>. QED BY <2>4, <3>1, <3>2 DEF P!Receiving
  <2>5. CASE a \in Request2 /\ P!Start(a)
    BY <1>3, <2>5, StartOrderly
  <2>6. ~P!Fail(a)
    BY FailFrame
  <2>. QED BY <2>1, <2>3, <2>4, <2>5, <2>6 DEF Mover
<1>. QED BY <1>1, <1>2, <1>3 DEF Touched

LEMMA HistoryGrows ==
    ASSUME [P!Next]_P!vars
    PROVE  (failed2 => failed2') /\ disturbed \subseteq disturbed'
<1>1. CASE UNCHANGED P!vars
  BY <1>1 DEF P!vars
<1>2. CASE P!GitHub \/ P!HeadChange \/ P!UpToDateWithTrunk
  BY <1>2, GitHubFrame, QuestionFrame
<1>3. ASSUME NEW a \in P!Actor, P!Step(a) PROVE (failed2 => failed2') /\ disturbed \subseteq disturbed'
  BY <1>3, StepFrame DEF StepKeeps, P!Load
<1>4. ASSUME NEW a \in P!Actor, P!Fail(a) PROVE (failed2 => failed2') /\ disturbed \subseteq disturbed'
  BY <1>4, FailFrame
<1>5. ASSUME NEW k \in Worker, P!Receiving(k) PROVE (failed2 => failed2') /\ disturbed \subseteq disturbed'
  <2>1. failed2' = failed2
    BY <1>5, ReceiveFrame
  <2>2. disturbed \subseteq disturbed'
    <3>1. CASE P!ReceivePush(k)
      BY <3>1 DEF P!ReceivePush, P!counts
    <3>2. ASSUME NEW p \in PR, NEW i \in DOMAIN inbox[p], P!Receive(k, p, i)
          PROVE  disturbed \subseteq disturbed'
      BY <3>2 DEF P!Receive
    <3>. QED BY <1>5, <3>1, <3>2 DEF P!Receiving
  <2>. QED BY <2>1, <2>2
<1>6. ASSUME NEW r \in Request2, P!Start(r) PROVE (failed2 => failed2') /\ disturbed \subseteq disturbed'
  <2>1. failed2' = failed2
    BY <1>6, StartsFrame
  <2>2. ASSUME NEW l, NEW to, P!Begin(r, l, to) PROVE disturbed \subseteq disturbed'
    BY <2>2 DEF P!Begin
  <2>3. \E l, to : P!Begin(r, l, to)
    BY <1>6 DEF P!Start, P!StartMerge, P!StartCreate, P!StartImport
  <2>. QED BY <2>1, <2>2, <2>3
<1>. QED BY <1>1, <1>2, <1>3, <1>4, <1>5, <1>6, Cases

LEMMA StepInOrder ==
    ASSUME PullsOK, InOrder, [P!Next]_P!vars
    PROVE  InOrder'
<1>1. SUFFICES ASSUME ~failed2', NEW p \in PR, p \notin disturbed'
               PROVE  Orderly(p)'
  BY DEF InOrder
<1>2. Orderly(p)
  BY <1>1, HistoryGrows DEF InOrder
<1>3. CASE Touched(p)
  BY <1>1, <1>2, <1>3, TouchedOrderly
<1>4. CASE ~Touched(p)
  BY <1>1, <1>2, <1>4, Untouched, OrderlyOfOthers
<1>. QED BY <1>3, <1>4

LEMMA InitInOrder ==
    ASSUME P!Init
    PROVE  InOrder
<1>1. SUFFICES ASSUME NEW p \in PR PROVE Orderly(p)
  BY DEF InOrder
<1>2. PullsOK
  BY InitPullsOK
<1>3. inbox[p] = <<>> /\ change[p] = "none" /\ P!On(p) = {}
  BY DEF P!Init, P!On
<1>4. PICK own \in {{}} \union {{q} : q \in PR} :
          /\ gh = [q \in PR |-> IF q \in own
                       THEN [P!NoGH EXCEPT !.st = "open", !.head = 1, !.branch = 1]
                       ELSE P!NoGH]
          /\ row2 = [q \in PR |-> IF q \in own THEN [P!NoRow EXCEPT !.ws = 1, !.head = 1]
                                  ELSE P!NoRow]
  BY DEF P!Init
<1>5. PICK g, r : /\ g = [P!NoGH EXCEPT !.st = "open", !.head = 1, !.branch = 1]
                  /\ r = [P!NoRow EXCEPT !.ws = 1, !.head = 1]
  OBVIOUS
<1>6. g.st = "open" /\ r.st = "open" /\ r.ws = 1 /\ P!NoRow.st = "open" /\ P!NoRow.ws = 0 /\ P!NoGH.st = "none"
  BY <1>5 DEF P!NoGH, P!NoRow
<1>7. \/ gh[p].st = "open" /\ row2[p].st = "open" /\ row2[p].ws = 1
      \/ gh[p].st = "none" /\ row2[p].st = "open" /\ row2[p].ws = 0
  <2>1. gh[p] = (IF p \in own THEN g ELSE P!NoGH) /\ row2[p] = (IF p \in own THEN r ELSE P!NoRow)
    BY <1>4, <1>5
  <2>. QED BY <1>6, <2>1
<1>8. Still(p)
  BY <1>3, <1>7 DEF Still, ToldAll
<1>. QED BY <1>3, <1>7, <1>8 DEF Orderly, ToldAll

LEMMA Agrees ==
    ASSUME PullsOK, InOrder
    PROVE  P!QuietAgrees
<1>1. SUFFICES ASSUME NEW p \in PR \ disturbed, ~failed2, inbox[p] = <<>>, P!On(p) = {},
                      gh[p].st # "none"
               PROVE  /\ row2[p].ws = 0 => gh[p].st = "merged"
                      /\ row2[p].ws # 0 => row2[p].st = gh[p].st
                      /\ (row2[p].ws # 0 /\ change[p] = "merged"
                          /\ \A q \in PR \ {p} : row2[q].ws # row2[p].ws)
                              => ws[row2[p].ws].archived
  BY DEF P!QuietAgrees
<1>2. Still(p)
  BY <1>1 DEF InOrder, Orderly
<1>. QED BY <1>1, <1>2 DEF Still, ToldAll, Sole

(* Whatever moves, pull requests step as PullRequests says or not at all.  *)
LEMMA PullsStep ==
    ASSUME [BothNext]_<<moves, vars, others>>
    PROVE  [P!Next]_P!vars
<1>1. CASE UNCHANGED others
  BY <1>1 DEF others, P!vars
<1>2. CASE UNCHANGED <<moves, vars, others>>
  BY <1>1, <1>2
<1>. QED BY <1>1, <1>2 DEF BothNext

(* What everybody knows of pull requests (PullsOK), and the order in which *)
(* what GitHub tells of an undisturbed one is handled (InOrder), hold      *)
(* throughout.                                                             *)
THEOREM PullRequestsKnown == BothSpec => [](PullsOK /\ InOrder)
<1>1. BothInit => PullsOK /\ InOrder
  BY InitPullsOK, InitInOrder DEF BothInit
<1>2. PullsOK /\ InOrder /\ [BothNext]_<<moves, vars, others>> => PullsOK' /\ InOrder'
  BY PullsStep, StepPullsOK, StepInOrder
<1>. QED BY <1>1, <1>2, PTL DEF BothSpec

(* A draft that says which change it became was merged: on GitHub, in      *)
(* Sturdy's trunk, and by a change made for it.                            *)
THEOREM ArchivedOnlyWhenMerged == BothSpec => []ArchivedWhenMerged
<1>1. PullsOK => ArchivedWhenMerged
  BY DEF PullsOK, ArchivedWhenMerged
<1>. QED BY <1>1, PullRequestsKnown, PTL

(* Two deliveries, or a webhook and an import, never leave two drafts for  *)
(* one pull request, and a failed import leaves none: only a draft whose   *)
(* own archive failed, or whose import was cut off, stays open without a   *)
(* row (service_import.go, ImportPullRequest).                             *)
THEOREM OneDraftEach == BothSpec => []OneDraft
<1>1. PullsOK => OneDraft
  BY DEF PullsOK, OneDraft
<1>. QED BY <1>1, PullRequestsKnown, PTL

(* Once the webhooks of all pushes are handled, trunk is what GitHub has,  *)
(* and no row remembers an answer about an older trunk.                    *)
THEOREM PushesCaughtUp == BothSpec => []TrunkCatchesUp
<1>1. PullsOK => TrunkCatchesUp
  BY CaughtUp DEF TrunkCatchesUp
<1>. QED BY <1>1, PullRequestsKnown, PTL

(* When nobody handles a pull request, its webhooks are handled, in order  *)
(* and one by one, and nothing failed, Sturdy agrees with GitHub about it. *)
THEOREM QuietMeansAgreed == BothSpec => []QuietAgrees
<1>1. PullsOK /\ InOrder => QuietAgrees
  BY Agrees DEF QuietAgrees
<1>. QED BY <1>1, PullRequestsKnown, PTL
=============================================================================
