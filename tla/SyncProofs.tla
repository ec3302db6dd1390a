------------------------------ MODULE SyncProofs ------------------------------
(***************************************************************************)
(* What a sync keeps, for any files and contents, any trunk, and any       *)
(* number of edits, syncs and deaths of the process.                       *)
(*                                                                         *)
(* SafeOK says what of the user's files is in a commit at each step, also  *)
(* after a request has ended halfway; StagesOK says, while none has, where *)
(* HEAD and the branches are at each step, and which files the view has.   *)
(***************************************************************************)
EXTENDS Sync, SequenceTheorems, TLAPS

-----------------------------------------------------------------------------
(* Files nobody has edited since the request began are as HEAD has them.   *)
Clean == \A f \in File \ raced : files[f] = TreeOf(head.c)[f]

Kept(f, v) == \E tree \in kept : tree[f] = v

(* What is in the view is in a commit before it is written over.           *)
SafeOK ==
    /\ op.pc \in {"tree", "discard"} => TreeOf(head.c) \in kept
    /\ op.pc \in {"discard", "stash", "rebase", "finish", "complete"} => Clean
    /\ op.pc = "onto" => op.theirs \in kept /\ \A f \in File \ raced : files[f] = op.theirs[f]
    /\ op.pc \in {"stash", "rebase"} =>
          /\ head.c = OnTrunk(op.on)
          /\ \A f \in File \ raced : mine[f] = None \/ Kept(f, mine[f])

-----------------------------------------------------------------------------
(* The user's own edits, on top of a tree; an edit differs from it.        *)
Own(f, tree)     == files[f] = IF mine[f] = None THEN tree[f] ELSE mine[f]
Changed(f, tree) == mine[f] # tree[f]

Quiet(at) == head = [at |-> at, c |-> ws] /\ pushed = ws /\ ws.wip = NoTree

(* In the middle of a rebase: conflicts are left to the user.              *)
Stopped ==
    /\ head = [at |-> "detached", c |-> OnTrunk(rb.on)]
    /\ \A f \in File \ (raced \union rb.conf) : Own(f, trunk[rb.on])

(* HEAD of a rebase that is done: its commit is reset, if there is one.    *)
Done ==
    /\ head.c.on = op.on
    /\ IF op.reset THEN op.parent = OnTrunk(op.on) ELSE head.c = OnTrunk(op.on)

AllOwn(tree) == \A f \in File \ raced : Own(f, tree)
AllChanged(tree) == \A f \in File \ raced : Changed(f, tree)

Stage ==
    /\ op.pc = "idle" /\ ~Rebasing =>
          Quiet("ws") /\ AllOwn(trunk[ws.on]) /\ AllChanged(trunk[ws.on])
    /\ op.pc = "idle" /\ Rebasing => Stopped
    /\ op.pc \in {"tree", "discard"} =>
          /\ Quiet("unsaved") /\ ~op.reset
          /\ AllOwn(trunk[ws.on]) /\ AllChanged(trunk[ws.on])
    /\ op.pc \in {"onto", "stash", "rebase"} =>
          \A f \in File \ raced :
              /\ op.theirs[f] = IF mine[f] = None THEN op.base[f] ELSE mine[f]
              /\ mine[f] # op.base[f]
    /\ op.pc = "pick" => head = [at |-> "detached", c |-> OnTrunk(op.on)] /\ AllOwn(trunk[op.on])
    /\ op.pc \in {"finish", "complete", "reset"} => Done /\ AllOwn(trunk[op.on])
    /\ op.pc = "reset" => head.at = "ws" /\ ws = head.c
    /\ op.pc \in {"push", "snapshot"} =>
          /\ head = [at |-> "ws", c |-> ws] /\ ws.wip = NoTree
          /\ AllOwn(trunk[ws.on]) /\ AllChanged(trunk[ws.on])
    /\ op.pc = "snapshot" => pushed = ws
    /\ op.pc \notin {"idle", "pick", "finish"} => ~Rebasing

StagesOK == broken \/ Stage
-----------------------------------------------------------------------------
(* Trees and commits.                                                      *)

LEMMA Trees ==
    ASSUME TypeOK
    PROVE  /\ TrunkTree \subseteq Tree
           /\ Len(trunk) \in Nat /\ DOMAIN trunk = 1..Len(trunk)
           /\ \A i \in 1..Len(trunk) : trunk[i] \in TrunkTree
           /\ \A c \in CommitOf(Len(trunk)) : c.on \in 1..Len(trunk) /\ TreeOf(c) \in Tree
           /\ \A i \in 1..Len(trunk) :
                 OnTrunk(i) \in CommitOf(Len(trunk)) /\ TreeOf(OnTrunk(i)) = trunk[i]
           /\ \A i \in 1..Len(trunk), tree \in Tree : Unsaved(i, tree) \in CommitOf(Len(trunk))
<1>1. TrunkTree \subseteq Tree
  BY DEF TrunkTree, Tree
<1>2. Len(trunk) \in Nat /\ DOMAIN trunk = 1..Len(trunk) /\ \A i \in 1..Len(trunk) : trunk[i] \in TrunkTree
  BY DEF TypeOK
<1>3. \A c \in CommitOf(Len(trunk)) : c.on \in 1..Len(trunk) /\ TreeOf(c) \in Tree
  BY <1>1, <1>2 DEF CommitOf, TreeOf
<1>4. \A i \in 1..Len(trunk) :
        OnTrunk(i) \in CommitOf(Len(trunk)) /\ TreeOf(OnTrunk(i)) = trunk[i]
  BY DEF OnTrunk, CommitOf, TreeOf
<1>5. \A i \in 1..Len(trunk), tree \in Tree : Unsaved(i, tree) \in CommitOf(Len(trunk))
  BY DEF Unsaved, CommitOf
<1>. QED BY <1>1, <1>2, <1>3, <1>4, <1>5

(* A commit with unsaved files has those files.                            *)
LEMMA UnsavedTree ==
    ASSUME NEW i, NEW tree \in Tree, NEW f \in File
    PROVE  TreeOf(Unsaved(i, tree))[f] = tree[f]
<1>1. tree[f] # None /\ NoTree[f] = None
  BY SyncAssumption DEF Tree, NoTree
<1>. QED BY <1>1 DEF TreeOf, Unsaved

(* Trunk only grows.                                                       *)
LEMMA TrunkStays ==
    ASSUME TypeOK, [Next]_vars
    PROVE  /\ trunk' \in Seq(TrunkTree) /\ Len(trunk) <= Len(trunk') /\ Len(trunk') \in Nat
           /\ \A i \in 1..Len(trunk) : trunk'[i] = trunk[i]
           /\ \A c \in CommitOf(Len(trunk)) : TreeOf(c)' = TreeOf(c)
<1>1. /\ trunk' \in Seq(TrunkTree) /\ Len(trunk) <= Len(trunk') /\ Len(trunk') \in Nat
      /\ \A i \in 1..Len(trunk) : trunk'[i] = trunk[i]
  <2>1. CASE trunk' = trunk
    BY <2>1 DEF TypeOK
  <2>2. ASSUME NEW f \in File, NEW v \in Content \union {Absent}, TrunkMoves(f, v)
        PROVE  /\ trunk' \in Seq(TrunkTree) /\ Len(trunk) <= Len(trunk') /\ Len(trunk') \in Nat
               /\ \A i \in 1..Len(trunk) : trunk'[i] = trunk[i]
    <3>. DEFINE new == [trunk[Len(trunk)] EXCEPT ![f] = v]
    <3>1. new \in TrunkTree
      BY Trees DEF TypeOK, TrunkTree
    <3>2. trunk' = Append(trunk, new)
      BY <2>2 DEF TrunkMoves
    <3>. HIDE DEF new
    <3>. QED BY <3>1, <3>2 DEF TypeOK
  <2>3. trunk' = trunk \/ \E f \in File, v \in Content \union {Absent} : TrunkMoves(f, v)
    BY DEF Next, vars, Step, Edit, Start, Die, NoChanges, Discard, CommitUnsaved, CheckoutOnto,
           Stash, InitRebase, InitRebaseFails, Pick, Finish, PopFails, CheckoutWorkspace, Reset,
           Push, Snapshot, Resolve, ResolveFails
  <2>. QED BY <2>1, <2>2, <2>3
<1>2. ASSUME NEW c \in CommitOf(Len(trunk)) PROVE TreeOf(c)' = TreeOf(c)
  <2>1. c.on \in 1..Len(trunk)
    BY Trees
  <2>. QED BY <1>1, <2>1 DEF TreeOf
<1>. QED BY <1>1, <1>2

-----------------------------------------------------------------------------
(* Types.                                                                  *)

LEMMA Fields ==
    ASSUME TypeOK
    PROVE  /\ Len(trunk) \in Nat \ {0} /\ files \in Tree
           /\ head.c \in CommitOf(Len(trunk)) /\ head.c.on \in 1..Len(trunk)
           /\ head = [at |-> head.at, c |-> head.c]
           /\ head.at \in {"ws", "unsaved", "sync", "detached"}
           /\ TreeOf(head.c) \in Tree
           /\ rb.on \in 0..Len(trunk) /\ rb.conf \subseteq File
           /\ Rebasing => rb.on \in 1..Len(trunk) /\ rb.theirs \in Tree
           /\ op.pc \in PCs /\ op.parent \in CommitOf(Len(trunk))
           /\ op.base \in Tree \union {NoTree} /\ op.theirs \in Tree \union {NoTree}
           /\ op.reset \in BOOLEAN /\ op.on \in 0..Len(trunk)
           /\ op.pc # "idle" => op.on \in 1..Len(trunk) /\ trunk[op.on] \in TrunkTree
                                /\ trunk[op.on] \in Tree
           /\ op.pc \in {"onto", "stash", "rebase"} => op.base \in Tree /\ op.theirs \in Tree
<1>1. /\ Len(trunk) \in Nat \ {0} /\ files \in Tree
      /\ head.c \in CommitOf(Len(trunk)) /\ head = [at |-> head.at, c |-> head.c]
      /\ head.at \in {"ws", "unsaved", "sync", "detached"}
      /\ rb.on \in 0..Len(trunk) /\ rb.conf \subseteq File
      /\ Rebasing => rb.theirs \in Tree
  BY DEF TypeOK
<1>2. /\ op.pc \in PCs /\ op.parent \in CommitOf(Len(trunk))
      /\ op.base \in Tree \union {NoTree} /\ op.theirs \in Tree \union {NoTree}
      /\ op.reset \in BOOLEAN /\ op.on \in 0..Len(trunk)
      /\ op.pc # "idle" => op.on # 0
      /\ op.pc \in {"onto", "stash", "rebase"} => op.base \in Tree /\ op.theirs \in Tree
  BY DEF TypeOK
<1>3. op.pc # "idle" => op.on \in 1..Len(trunk)
  BY <1>1, <1>2
<1>4. Rebasing => rb.on \in 1..Len(trunk)
  BY <1>1 DEF Rebasing
<1>. QED BY <1>1, <1>2, <1>3, <1>4, Trees

LEMMA IdleOp ==
    ASSUME TypeOK, NEW n \in 0..Len(trunk), NEW pc \in PCs
    PROVE  /\ [Idle EXCEPT !.pc = pc, !.on = n] \in
                 [pc : PCs, on : 0..Len(trunk), base : Tree \union {NoTree},
                  theirs : Tree \union {NoTree}, reset : BOOLEAN, parent : CommitOf(Len(trunk))]
           /\ Idle \in [pc : PCs, on : 0..Len(trunk), base : Tree \union {NoTree},
                        theirs : Tree \union {NoTree}, reset : BOOLEAN,
                        parent : CommitOf(Len(trunk))]
<1>1. Len(trunk) \in Nat \ {0}
  BY Fields
<1>2. OnTrunk(1) \in CommitOf(Len(trunk)) /\ 0 \in 0..Len(trunk)
  BY <1>1, Trees
<1>3. "idle" \in PCs /\ FALSE \in BOOLEAN /\ NoTree \in Tree \union {NoTree}
  BY DEF PCs
<1>. QED BY <1>2, <1>3 DEF Idle

(* A request goes on.                                                      *)
LEMMA OpGoes ==
    ASSUME TypeOK, NEW pc \in PCs, op.pc # "idle",
           pc \in {"onto", "stash", "rebase"} => op.pc \in {"onto", "stash", "rebase"},
           op' = [op EXCEPT !.pc = pc]
    PROVE  /\ op' \in [pc : PCs, on : 0..Len(trunk), base : Tree \union {NoTree},
                       theirs : Tree \union {NoTree}, reset : BOOLEAN,
                       parent : CommitOf(Len(trunk))]
           /\ op'.pc = pc /\ op'.on = op.on /\ op'.base = op.base /\ op'.theirs = op.theirs
           /\ op'.reset = op.reset /\ op'.parent = op.parent
           /\ op'.pc # "idle" => op'.on # 0
           /\ op'.pc \in {"onto", "stash", "rebase"} => op'.base \in Tree /\ op'.theirs \in Tree
  BY DEF TypeOK

LEMMA Merging ==
    ASSUME TypeOK, op.pc \in {"onto", "stash", "rebase"}, NEW f \in File
    PROVE  Merged(f) \in Content \union {Absent, Marked}
<1>1. /\ trunk[op.on][f] \in Content \union {Absent, Marked}
      /\ op.theirs[f] \in Content \union {Absent, Marked}
  BY Fields DEF Tree
<1>. QED BY <1>1 DEF Merged, OnConflict, Merge

LEMMA Choosing ==
    ASSUME TypeOK, Rebasing, NEW f \in File, NEW version \in Version
    PROVE  Chosen(f, version) \in Content \union {Absent, Marked}
<1>1. /\ trunk[rb.on][f] \in Content \union {Absent, Marked}
      /\ rb.theirs[f] \in Content \union {Absent, Marked}
      /\ files[f] \in Content \union {Absent, Marked}
  BY Fields, Trees DEF Tree
<1>2. Chosen(f, "workspace") = rb.theirs[f]
  BY DEF Chosen
<1>3. Chosen(f, "trunk") = trunk[rb.on][f]
  BY DEF Chosen
<1>4. Chosen(f, "custom") = files[f]
  BY DEF Chosen
<1>. QED BY <1>1, <1>2, <1>3, <1>4 DEF Version

LEMMA AnsweredType ==
    ASSUME TypeOK, Rebasing, NEW fs \in SUBSET File, NEW answer \in Answers(fs),
           NEW done \in SUBSET fs, Answered(answer, done)
    PROVE  /\ files' \in Tree /\ mine' \in [File -> Content \union {Absent, Marked, None}]
           /\ raced' \subseteq File
<1>1. \A f \in done : /\ f \in File /\ Chosen(f, answer[f]) \in Content \union {Absent, Marked}
                      /\ Wanted(f, Chosen(f, answer[f])) \in Content \union {Absent, Marked, None}
  BY Choosing DEF Answers, Wanted
<1>2. \A f \in File : /\ files[f] \in Content \union {Absent, Marked}
                      /\ mine[f] \in Content \union {Absent, Marked, None}
  BY DEF TypeOK, Tree
<1>. QED BY <1>1, <1>2 DEF Answered, Tree, TypeOK

LEMMA TypeNext ==
    ASSUME TypeOK, [Next]_vars
    PROVE  TypeOK'
<1>. USE DEF branches, user
<1>1. CASE UNCHANGED vars
  BY <1>1 DEF TypeOK, vars, Rebasing
<1>2. ASSUME NEW f \in File, NEW v \in Content \union {Absent}, TrunkMoves(f, v)
      PROVE  TypeOK'
  <2>1. trunk' \in Seq(TrunkTree) /\ Len(trunk) <= Len(trunk') /\ Len(trunk') \in Nat
    BY TrunkStays
  <2>2. Len(trunk) \in Nat \ {0}
    BY Fields
  <2>3. /\ 1..Len(trunk) \subseteq 1..Len(trunk') /\ 0..Len(trunk) \subseteq 0..Len(trunk')
        /\ Len(trunk') > 0
    BY <2>1, <2>2
  <2>4. CommitOf(Len(trunk)) \subseteq CommitOf(Len(trunk'))
    BY <2>3 DEF CommitOf
  <2>5. UNCHANGED <<files, head, branches, rb, kept, stashed, op, user, broken, deaths>>
    BY <1>2 DEF TrunkMoves
  <2>6. /\ head \in [at : {"ws", "unsaved", "sync", "detached"}, c : CommitOf(Len(trunk'))]
        /\ {ws, pushed} \subseteq CommitOf(Len(trunk'))
        /\ latest \in [on : 1..Len(trunk'), tree : Tree]
        /\ rb \in [on : 0..Len(trunk'), base : Tree \union {NoTree},
                   theirs : Tree \union {NoTree}, conf : SUBSET File]
        /\ op \in [pc : PCs, on : 0..Len(trunk'), base : Tree \union {NoTree},
                   theirs : Tree \union {NoTree}, reset : BOOLEAN, parent : CommitOf(Len(trunk'))]
    BY <2>3, <2>4 DEF TypeOK
  <2>. QED BY <2>1, <2>3, <2>5, <2>6 DEF TypeOK, Rebasing
<1>3. ASSUME NEW f \in File, NEW v \in Content \union {Absent}, Edit(f, v)
      PROVE  TypeOK'
  <2>1. files' \in Tree
    BY <1>3 DEF Edit, TypeOK, Tree
  <2>2. mine' \in [File -> Content \union {Absent, Marked, None}] /\ raced' \subseteq File
    BY <1>3 DEF Edit, TypeOK, Wanted
  <2>3. edits' \in Nat
    BY <1>3 DEF Edit, TypeOK
  <2>. QED BY <1>3, <2>1, <2>2, <2>3 DEF Edit, TypeOK, Rebasing
<1>4. CASE Start
  <2>1. TreeOf(head.c) \in Tree /\ Len(trunk) \in 0..Len(trunk) /\ Len(trunk) # 0
    BY Fields
  <2>2. op'.on # 0 /\ op'.pc = "tree"
    BY <1>4, <2>1 DEF Start, Idle
  <2>3. op' \in [pc : PCs, on : 0..Len(trunk), base : Tree \union {NoTree},
                 theirs : Tree \union {NoTree}, reset : BOOLEAN, parent : CommitOf(Len(trunk))]
    BY <1>4, <2>1, IdleOp DEF Start, PCs
  <2>4. head' \in [at : {"ws", "unsaved", "sync", "detached"}, c : CommitOf(Len(trunk))]
    BY <1>4 DEF Start, TypeOK
  <2>5. kept' \subseteq Tree
    BY <1>4, <2>1 DEF Start, TypeOK
  <2>. QED BY <1>4, <2>2, <2>3, <2>4, <2>5 DEF Start, TypeOK, Rebasing
<1>5. CASE NoChanges
  BY <1>5, OpGoes DEF NoChanges, TypeOK, PCs, Rebasing
<1>6. CASE Discard
  <2>1. /\ op.pc # "idle" /\ "complete" \in PCs
        /\ op' = [op EXCEPT !.pc = "complete"]
    BY <1>6 DEF Discard, PCs
  <2>2. files' \in Tree /\ OnTrunk(op.on) \in CommitOf(Len(trunk))
    BY <1>6, <2>1, Fields, Trees DEF Discard
  <2>3. head' \in [at : {"ws", "unsaved", "sync", "detached"}, c : CommitOf(Len(trunk))]
    BY <1>6, <2>2 DEF Discard
  <2>. QED BY <1>6, <2>1, <2>2, <2>3, OpGoes DEF Discard, TypeOK, Rebasing
<1>7. CASE CommitUnsaved
  <2>1. /\ head.c.on \in 1..Len(trunk) /\ files \in Tree /\ TreeOf(head.c) \in Tree
        /\ op.pc = "tree" /\ op' = [op EXCEPT !.pc = "onto", !.base = TreeOf(head.c), !.theirs = files]
    BY <1>7, Fields DEF CommitUnsaved
  <2>2. Unsaved(head.c.on, files) \in CommitOf(Len(trunk))
    BY <2>1, Trees
  <2>3. head' \in [at : {"ws", "unsaved", "sync", "detached"}, c : CommitOf(Len(trunk))]
    BY <1>7, <2>2 DEF CommitUnsaved, TypeOK
  <2>4. /\ op' \in [pc : PCs, on : 0..Len(trunk), base : Tree \union {NoTree},
                    theirs : Tree \union {NoTree}, reset : BOOLEAN, parent : CommitOf(Len(trunk))]
        /\ op'.base \in Tree /\ op'.theirs \in Tree /\ op'.on # 0
    BY <2>1 DEF TypeOK, PCs
  <2>. QED BY <1>7, <2>1, <2>3, <2>4 DEF CommitUnsaved, TypeOK, Rebasing
<1>8. CASE CheckoutOnto
  <2>1. /\ op.pc = "onto" /\ op' = [op EXCEPT !.pc = "stash"] /\ "stash" \in PCs
        /\ trunk[op.on] \in Tree /\ op.on \in 1..Len(trunk)
    BY <1>8, Fields DEF CheckoutOnto, PCs
  <2>2. files' \in Tree
    BY <1>8, <2>1 DEF CheckoutOnto, TypeOK, Tree
  <2>3. head' \in [at : {"ws", "unsaved", "sync", "detached"}, c : CommitOf(Len(trunk))]
    BY <1>8, <2>1, Trees DEF CheckoutOnto
  <2>. QED BY <1>8, <2>1, <2>2, <2>3, OpGoes DEF CheckoutOnto, TypeOK, Rebasing
<1>9. CASE Stash
  <2>1. op.pc = "stash" /\ op' = [op EXCEPT !.pc = "rebase"] /\ "rebase" \in PCs
    BY <1>9 DEF Stash, PCs
  <2>2. files' \in Tree
    BY <1>9, Fields DEF Stash, Tree
  <2>3. stashed' \in BOOLEAN
    BY <1>9 DEF Stash, TypeOK
  <2>. QED BY <1>9, <2>1, <2>2, <2>3, OpGoes DEF Stash, TypeOK, Rebasing
<1>10. ASSUME op.pc = "rebase", NEW conf \in SUBSET File, rb' = Rebase(conf)
       PROVE  /\ rb' \in [on : 0..Len(trunk), base : Tree \union {NoTree},
                          theirs : Tree \union {NoTree}, conf : SUBSET File]
              /\ rb'.theirs \in Tree
  BY <1>10, Fields DEF Rebase
<1>11. Detached \in [at : {"ws", "unsaved", "sync", "detached"}, c : CommitOf(Len(trunk))]
  BY DEF Detached, TypeOK
<1>12. CASE InitRebase
  <2>1. op.pc = "rebase" /\ InConflict \in SUBSET File
    BY <1>12 DEF InitRebase, InConflict
  <2>2. /\ rb' \in [on : 0..Len(trunk), base : Tree \union {NoTree},
                    theirs : Tree \union {NoTree}, conf : SUBSET File]
        /\ rb'.theirs \in Tree
    BY <1>10, <1>12, <2>1 DEF InitRebase
  <2>3. files' \in Tree
    BY <1>12, <2>1, Merging DEF InitRebase, TypeOK, Tree
  <2>4. /\ op' \in [pc : PCs, on : 0..Len(trunk), base : Tree \union {NoTree},
                    theirs : Tree \union {NoTree}, reset : BOOLEAN, parent : CommitOf(Len(trunk))]
        /\ op'.pc # "idle" => op'.on # 0
        /\ op'.pc \notin {"onto", "stash", "rebase"}
    <3>1. CASE op' = [op EXCEPT !.pc = "pick"]
      BY <2>1, <3>1, OpGoes DEF PCs
    <3>2. CASE op' = Idle
      <4>1. op'.pc = "idle"
        BY <3>2 DEF Idle
      <4>. QED BY <3>2, <4>1, IdleOp DEF PCs, TypeOK
    <3>. QED BY <1>12, <3>1, <3>2 DEF InitRebase
  <2>. QED BY <1>11, <1>12, <2>2, <2>3, <2>4 DEF InitRebase, TypeOK, Rebasing
<1>13. ASSUME op' = Idle
       PROVE  /\ op' \in [pc : PCs, on : 0..Len(trunk), base : Tree \union {NoTree},
                          theirs : Tree \union {NoTree}, reset : BOOLEAN, parent : CommitOf(Len(trunk))]
              /\ op'.pc = "idle"
  <2>1. "idle" \in PCs /\ 0 \in 0..Len(trunk)
    BY Fields DEF PCs
  <2>. QED BY <1>13, <2>1, IdleOp DEF Idle
<1>14. CASE InitRebaseFails
  <2>1. op' = Idle /\ broken' = TRUE
    BY <1>14 DEF InitRebaseFails
  <2>2. CASE UNCHANGED <<head, rb>>
    BY <1>13, <1>14, <2>1, <2>2 DEF InitRebaseFails, TypeOK, Rebasing
  <2>3. CASE head' = Detached /\ rb' = Rebase({})
    <3>1. op.pc = "rebase" /\ {} \in SUBSET File
      BY <1>14 DEF InitRebaseFails
    <3>2. /\ rb' \in [on : 0..Len(trunk), base : Tree \union {NoTree},
                      theirs : Tree \union {NoTree}, conf : SUBSET File]
          /\ rb'.theirs \in Tree
      BY <1>10, <2>3, <3>1
    <3>. QED BY <1>11, <1>13, <1>14, <2>1, <2>3, <3>2 DEF InitRebaseFails, TypeOK, Rebasing
  <2>. QED BY <1>14, <2>2, <2>3 DEF InitRebaseFails
<1>15. ASSUME NEW fs \in SUBSET File, NEW answer \in Answers(fs), Resolve(answer)
       PROVE  TypeOK'
  <2>1. Rebasing /\ Answered(answer, fs) /\ fs \in SUBSET fs
    BY <1>15 DEF Resolve, Answers
  <2>2. /\ files' \in Tree /\ mine' \in [File -> Content \union {Absent, Marked, None}]
        /\ raced' \subseteq File
    BY <2>1, AnsweredType
  <2>3. /\ op' \in [pc : PCs, on : 0..Len(trunk), base : Tree \union {NoTree},
                    theirs : Tree \union {NoTree}, reset : BOOLEAN, parent : CommitOf(Len(trunk))]
        /\ op'.pc # "idle" => op'.on # 0
        /\ op'.pc \notin {"onto", "stash", "rebase"}
    <3>1. CASE op' = Idle
      BY <1>13, <3>1
    <3>2. CASE op' = [Idle EXCEPT !.pc = "pick", !.on = rb.on]
      <4>1. rb.on \in 0..Len(trunk) /\ rb.on # 0 /\ "pick" \in PCs
        BY <2>1, Fields DEF Rebasing, PCs
      <4>2. op'.pc = "pick" /\ op'.on = rb.on
        BY <3>2 DEF Idle
      <4>. QED BY <3>2, <4>1, <4>2, IdleOp
    <3>. QED BY <1>15, <3>1, <3>2 DEF Resolve
  <2>4. /\ rb' \in [on : 0..Len(trunk), base : Tree \union {NoTree},
                    theirs : Tree \union {NoTree}, conf : SUBSET File]
        /\ rb'.theirs \in Tree
    <3>1. rb' = [rb EXCEPT !.conf = rb.conf \ DOMAIN answer]
      BY <1>15 DEF Resolve
    <3>. QED BY <2>1, <3>1 DEF TypeOK
  <2>. QED BY <1>15, <2>2, <2>3, <2>4 DEF Resolve, TypeOK, Rebasing
<1>16. ASSUME NEW fs \in SUBSET File, NEW answer \in Answers(fs), ResolveFails(answer)
       PROVE  TypeOK'
  <2>1. Rebasing /\ \E done \in SUBSET fs : Answered(answer, done)
    BY <1>16 DEF ResolveFails, Answers
  <2>2. /\ files' \in Tree /\ mine' \in [File -> Content \union {Absent, Marked, None}]
        /\ raced' \subseteq File
    BY <2>1, AnsweredType
  <2>. QED BY <1>16, <2>2 DEF ResolveFails, TypeOK, Rebasing
<1>17. CASE Pick
  <2>1. /\ op.pc = "pick" /\ head.c \in CommitOf(Len(trunk)) /\ op.on \in 1..Len(trunk)
        /\ files \in Tree
    BY <1>17, Fields DEF Pick
  <2>2. head' \in [at : {"ws", "unsaved", "sync", "detached"}, c : CommitOf(Len(trunk))]
    <3>1. Unsaved(op.on, files) \in CommitOf(Len(trunk))
      BY <2>1, Trees
    <3>. QED BY <1>17, <3>1 DEF Pick, TypeOK
  <2>3. /\ op' \in [pc : PCs, on : 0..Len(trunk), base : Tree \union {NoTree},
                    theirs : Tree \union {NoTree}, reset : BOOLEAN, parent : CommitOf(Len(trunk))]
        /\ op'.pc = "finish" /\ op'.on # 0
    BY <1>17, <2>1 DEF Pick, TypeOK, PCs
  <2>. QED BY <1>17, <2>2, <2>3 DEF Pick, TypeOK, Rebasing
<1>18. NoRebase \in [on : 0..Len(trunk), base : Tree \union {NoTree},
                     theirs : Tree \union {NoTree}, conf : SUBSET File]
       /\ NoRebase.on = 0
  BY Fields DEF NoRebase
<1>19. CASE Finish
  <2>1. op.pc = "finish" /\ op' = [op EXCEPT !.pc = "complete"] /\ "complete" \in PCs
    BY <1>19 DEF Finish, PCs
  <2>. QED BY <1>18, <1>19, <2>1, OpGoes DEF Finish, TypeOK, Rebasing
<1>20. CASE PopFails
  BY <1>13, <1>18, <1>20 DEF PopFails, TypeOK, Rebasing
<1>21. CASE CheckoutWorkspace
  <2>1. op.pc = "complete" /\ op' = [op EXCEPT !.pc = "reset"] /\ "reset" \in PCs
    BY <1>21 DEF CheckoutWorkspace, PCs
  <2>2. files' \in Tree /\ ws' \in CommitOf(Len(trunk))
    BY <1>21, Fields DEF CheckoutWorkspace
  <2>3. head' \in [at : {"ws", "unsaved", "sync", "detached"}, c : CommitOf(Len(trunk))]
    BY <1>21 DEF CheckoutWorkspace, TypeOK
  <2>. QED BY <1>21, <2>1, <2>2, <2>3, OpGoes DEF CheckoutWorkspace, TypeOK, Rebasing
<1>22. CASE Reset
  <2>. DEFINE parent == IF op.reset THEN op.parent ELSE head.c
  <2>1. /\ op.pc = "reset" /\ op' = [op EXCEPT !.pc = "push"] /\ "push" \in PCs
        /\ ws' = parent /\ head' = [head EXCEPT !.c = parent] /\ mine' = StillMine(parent)
    BY <1>22 DEF Reset, PCs
  <2>2. parent \in CommitOf(Len(trunk))
    BY Fields
  <2>. HIDE DEF parent
  <2>3. head' \in [at : {"ws", "unsaved", "sync", "detached"}, c : CommitOf(Len(trunk))]
    BY <2>1, <2>2 DEF TypeOK
  <2>4. mine' \in [File -> Content \union {Absent, Marked, None}]
    BY <2>1 DEF StillMine, TypeOK
  <2>. QED BY <1>22, <2>1, <2>2, <2>3, <2>4, OpGoes DEF Reset, TypeOK, Rebasing
<1>23. CASE Push
  <2>1. op.pc = "push" /\ op' = [op EXCEPT !.pc = "snapshot"] /\ "snapshot" \in PCs
    BY <1>23 DEF Push, PCs
  <2>. QED BY <1>23, <2>1, OpGoes DEF Push, TypeOK, Rebasing
<1>24. CASE Snapshot
  <2>1. op' = Idle
    BY <1>24 DEF Snapshot
  <2>2. latest' \in [on : 1..Len(trunk), tree : Tree]
    BY <1>24, Fields DEF Snapshot, TypeOK
  <2>. QED BY <1>13, <1>24, <2>1, <2>2 DEF Snapshot, TypeOK, Rebasing
<1>25. CASE Die
  BY <1>13, <1>25 DEF Die, TypeOK, Rebasing
<1>. QED BY <1>1, <1>2, <1>3, <1>4, <1>5, <1>6, <1>7, <1>8, <1>9, <1>12, <1>14, <1>15, <1>16,
            <1>17, <1>19, <1>20, <1>21, <1>22, <1>23, <1>24, <1>25 DEF Next, Step

(* Every variable has its type, and a request has what it needs.           *)
THEOREM TypeCorrect == Spec => []TypeOK
<1>1. Init => TypeOK
  <2>. SUFFICES ASSUME Init PROVE TypeOK
    OBVIOUS
  <2>1. PICK tree \in FirstTree : trunk = <<tree>>
    BY DEF Init
  <2>2. tree \in TrunkTree /\ tree \in Tree
    BY SyncAssumption DEF TrunkTree, Tree
  <2>3. trunk \in Seq(TrunkTree) /\ Len(trunk) = 1 /\ trunk[1] = tree /\ files = tree
    BY <2>1, <2>2 DEF Init
  <2>4. OnTrunk(1) \in CommitOf(Len(trunk)) /\ NoTree \in Tree \union {NoTree}
    BY <2>3 DEF OnTrunk, CommitOf
  <2>5. op \in [pc : PCs, on : 0..Len(trunk), base : Tree \union {NoTree},
                theirs : Tree \union {NoTree}, reset : BOOLEAN, parent : CommitOf(Len(trunk))]
        /\ op.pc = "idle"
    BY <2>3, <2>4 DEF Init, Idle, PCs
  <2>6. /\ rb \in [on : 0..Len(trunk), base : Tree \union {NoTree}, theirs : Tree \union {NoTree},
                   conf : SUBSET File]
        /\ ~Rebasing
    BY <2>3 DEF Init, NoRebase, Rebasing
  <2>7. /\ head \in [at : {"ws", "unsaved", "sync", "detached"}, c : CommitOf(Len(trunk))]
        /\ {ws, pushed} \subseteq CommitOf(Len(trunk))
        /\ latest \in [on : 1..Len(trunk), tree : Tree]
    BY <2>2, <2>3, <2>4 DEF Init
  <2>8. /\ kept \subseteq Tree /\ stashed \in BOOLEAN /\ raced \subseteq File /\ broken \in BOOLEAN
        /\ edits \in Nat /\ deaths \in Nat
        /\ mine \in [File -> Content \union {Absent, Marked, None}]
    BY DEF Init
  <2>. QED BY <2>2, <2>3, <2>5, <2>6, <2>7, <2>8 DEF TypeOK
<1>2. TypeOK /\ [Next]_vars => TypeOK'
  BY TypeNext
<1>. QED BY <1>1, <1>2, PTL DEF Spec

-----------------------------------------------------------------------------
(* Nothing is gone.                                                        *)

Gone(f) == ~(mine[f] = None \/ files[f] = mine[f] \/ Kept(f, mine[f]))

(* A file may be written over if what it held is in a commit, or if that   *)
(* is so of what the user wants in it.                                     *)
LEMMA NotGone ==
    ASSUME NEW f \in File, ~Gone(f), kept \subseteq kept', mine'[f] \in {mine[f], None},
           \/ files'[f] = files[f] \/ \E tree \in kept' : tree[f] = files[f]
           \/ mine[f] = None \/ Kept(f, mine[f])
    PROVE  ~Gone(f)'
<1>1. CASE mine'[f] = None
  BY <1>1 DEF Gone
<1>2. CASE mine'[f] = mine[f]
  <2>1. \/ mine[f] = None \/ files'[f] = mine[f]
        \/ \E tree \in kept' : tree[f] = mine[f]
    BY DEF Gone, Kept
  <2>. QED BY <1>2, <2>1 DEF Gone, Kept
<1>. QED BY <1>1, <1>2

LEMMA NoneGone == NothingGone <=> \A f \in File \ raced : ~Gone(f)
  BY DEF NothingGone, Gone, Kept

LEMMA AnsweredOwn ==
    ASSUME TypeOK, Rebasing, NEW fs \in SUBSET File, NEW answer \in Answers(fs),
           NEW done \in SUBSET fs, Answered(answer, done)
    PROVE  /\ raced' = raced \ done
           /\ \A f \in File \ done : files'[f] = files[f] /\ mine'[f] = mine[f]
           /\ \A f \in done : \/ mine'[f] = files'[f]
                              \/ mine'[f] = None /\ files'[f] = TreeOf(head.c)[f]
  BY DEF Answered, Wanted, TypeOK

LEMMA SafeNext ==
    ASSUME TypeOK, SafeOK, NothingGone, [Next]_vars
    PROVE  SafeOK' /\ NothingGone'
<1>. USE DEF branches, user
<1>1. \A f \in File \ raced : ~Gone(f)
  BY NoneGone
<1>2. TreeOf(head.c)' = TreeOf(head.c) \/ head' # head
  BY TrunkStays, Fields
<1>3. ASSUME kept \subseteq kept', raced \subseteq raced',
             \A f \in File : mine'[f] \in {mine[f], None},
             \A f \in File \ raced :
                \/ files'[f] = files[f] \/ \E tree \in kept' : tree[f] = files[f]
                \/ mine[f] = None \/ Kept(f, mine[f])
      PROVE  NothingGone'
  <2>1. \A f \in File \ raced' : ~Gone(f)'
    BY <1>1, <1>3, NotGone
  <2>. QED BY <2>1 DEF NothingGone, Gone, Kept
<1>4. ASSUME op'.pc \in {"idle", "pick", "reset", "push", "snapshot"} PROVE SafeOK'
  BY <1>4 DEF SafeOK
<1>5. CASE UNCHANGED vars
  <2>1. SafeOK'
    BY <1>2, <1>5 DEF vars, SafeOK, Clean, Kept
  <2>. QED BY <1>3, <1>5, <2>1 DEF vars
<1>6. ASSUME NEW f \in File, NEW v \in Content \union {Absent}, TrunkMoves(f, v)
      PROVE  SafeOK' /\ NothingGone'
  <2>1. UNCHANGED <<files, head, branches, rb, kept, stashed, op, user, broken, deaths>>
    BY <1>6 DEF TrunkMoves
  <2>2. SafeOK'
    BY <1>2, <2>1 DEF SafeOK, Clean, Kept
  <2>. QED BY <1>3, <2>1, <2>2
<1>7. ASSUME NEW f \in File, NEW v \in Content \union {Absent}, Edit(f, v)
      PROVE  SafeOK' /\ NothingGone'
  <2>1. /\ UNCHANGED <<trunk, head, kept, op>>
        /\ \A g \in File : g # f => files'[g] = files[g] /\ mine'[g] = mine[g]
        /\ files'[f] = v /\ mine'[f] \in {v, None}
        /\ raced' = IF op.pc = "idle" THEN raced \ {f} ELSE raced \union {f}
    BY <1>7 DEF Edit, Wanted, TypeOK, Tree
  <2>2. SafeOK'
    <3>1. CASE op.pc = "idle"
      BY <1>4, <2>1, <3>1
    <3>2. CASE op.pc # "idle"
      <4>1. File \ raced' \subseteq (File \ raced) \ {f} /\ TreeOf(head.c)' = TreeOf(head.c)
        BY <1>2, <2>1, <3>2
      <4>. QED BY <2>1, <4>1 DEF SafeOK, Clean, Kept
    <3>. QED BY <3>1, <3>2
  <2>3. \A g \in File \ raced' : ~Gone(g)'
    <3>1. ~Gone(f)'
      BY <2>1 DEF Gone
    <3>2. ASSUME NEW g \in File \ raced, g # f PROVE ~Gone(g)'
      BY <1>1, <2>1, <3>2, NotGone
    <3>. QED BY <2>1, <3>1, <3>2
  <2>. QED BY <2>2, <2>3 DEF NothingGone, Gone, Kept
<1>8. CASE Start
  <2>1. /\ head'.c = head.c /\ kept' = kept \union {TreeOf(head.c)} /\ op'.pc = "tree"
        /\ UNCHANGED <<trunk, files, mine, raced>>
    BY <1>8 DEF Start, Idle, TypeOK
  <2>2. TreeOf(head.c)' = TreeOf(head.c)
    BY <2>1, TrunkStays, Fields DEF TreeOf
  <2>. QED BY <1>3, <2>1, <2>2 DEF SafeOK
<1>9. CASE NoChanges
  <2>1. /\ files = TreeOf(head.c) /\ op.pc = "tree" /\ op'.pc = "discard"
        /\ UNCHANGED <<trunk, files, head, kept, mine, raced>>
    BY <1>9 DEF NoChanges, TypeOK
  <2>. QED BY <1>2, <1>3, <2>1 DEF SafeOK, Clean
<1>10. CASE Discard
  <2>1. /\ op.pc = "discard" /\ op'.pc = "complete" /\ files' = trunk[op.on]
        /\ head' = [at |-> "sync", c |-> OnTrunk(op.on)]
        /\ UNCHANGED <<trunk, kept, mine, raced>>
    BY <1>10 DEF Discard, TypeOK
  <2>2. SafeOK'
    <3>1. TreeOf(head.c)' = trunk[op.on]
      BY <2>1, Fields, Trees, TrunkStays
    <3>. QED BY <2>1, <3>1 DEF SafeOK, Clean
  <2>3. \A f \in File \ raced : \E tree \in kept' : tree[f] = files[f]
    BY <2>1 DEF SafeOK, Clean
  <2>. QED BY <1>3, <2>1, <2>2, <2>3
<1>11. CASE CommitUnsaved
  <2>1. /\ op'.pc = "onto" /\ op'.theirs = files /\ kept' = kept \union {files}
        /\ UNCHANGED <<files, mine, raced>>
    BY <1>11 DEF CommitUnsaved, TypeOK
  <2>. QED BY <1>3, <2>1 DEF SafeOK
<1>12. CASE CheckoutOnto
  <2>. DEFINE ours == trunk[op.on]
  <2>1. /\ op.pc = "onto" /\ op'.pc = "stash" /\ op'.on = op.on
        /\ head' = [at |-> "sync", c |-> OnTrunk(op.on)]
        /\ UNCHANGED <<trunk, kept, mine, raced>>
    BY <1>12 DEF CheckoutOnto, TypeOK
  <2>2. \A f \in File : files'[f] = IF op.theirs[f] = Absent /\ ours[f] = Absent
                                    THEN files[f] ELSE ours[f]
    BY <1>12 DEF CheckoutOnto
  <2>3. TreeOf(head.c)' = ours
    BY <2>1, Fields, Trees, TrunkStays
  <2>4. op.theirs \in kept /\ \A f \in File \ raced : files[f] = op.theirs[f]
    BY <2>1 DEF SafeOK
  <2>5. \A f \in File \ raced : files'[f] = ours[f]
    BY <2>2, <2>4
  <2>6. \A f \in File \ raced : mine[f] = None \/ Kept(f, mine[f])
    BY <1>1, <2>4 DEF Gone, Kept
  <2>7. SafeOK'
    BY <2>1, <2>3, <2>5, <2>6 DEF SafeOK, Clean, Kept
  <2>. QED BY <1>3, <2>1, <2>6, <2>7
<1>13. CASE Stash
  <2>1. /\ op.pc = "stash" /\ op'.pc = "rebase" /\ op'.on = op.on
        /\ UNCHANGED <<trunk, head, kept, mine, raced>>
        /\ \A f \in File : files'[f] = IF f \in Tracked THEN TreeOf(head.c)[f] ELSE files[f]
    BY <1>13 DEF Stash, TypeOK
  <2>2. \A f \in File \ raced : files'[f] = files[f] /\ files[f] = TreeOf(head.c)[f]
    BY <2>1 DEF SafeOK, Clean
  <2>3. SafeOK'
    BY <1>2, <2>1, <2>2 DEF SafeOK, Clean, Kept
  <2>. QED BY <1>3, <2>1, <2>2, <2>3
<1>14. CASE InitRebase
  <2>1. /\ op.pc = "rebase" /\ op'.pc \in {"pick", "idle"}
        /\ UNCHANGED <<kept, mine, raced>>
    BY <1>14 DEF InitRebase, TypeOK, Idle
  <2>2. \A f \in File \ raced : mine[f] = None \/ Kept(f, mine[f])
    BY <2>1 DEF SafeOK
  <2>. QED BY <1>3, <1>4, <2>1, <2>2
<1>15. CASE InitRebaseFails \/ PopFails \/ Snapshot \/ Die
  <2>1. op'.pc = "idle" /\ UNCHANGED <<files, kept, mine, raced>>
    BY <1>15 DEF InitRebaseFails, PopFails, Snapshot, Die, Idle
  <2>. QED BY <1>3, <1>4, <2>1
<1>16. ASSUME NEW fs \in SUBSET File, NEW answer \in Answers(fs), NEW done \in SUBSET fs,
              Rebasing, Answered(answer, done), kept' = kept
       PROVE  NothingGone'
  <2>1. /\ raced' = raced \ done
        /\ \A f \in File \ done : files'[f] = files[f] /\ mine'[f] = mine[f]
        /\ \A f \in done : mine'[f] = files'[f] \/ mine'[f] = None
    BY <1>16, AnsweredOwn
  <2>2. \A f \in File \ raced' : ~Gone(f)'
    <3>1. ASSUME NEW f \in File \ raced', f \in done PROVE ~Gone(f)'
      BY <2>1, <3>1 DEF Gone
    <3>2. ASSUME NEW f \in File \ raced', f \notin done PROVE ~Gone(f)'
      BY <1>1, <1>16, <2>1, <3>2, NotGone
    <3>. QED BY <3>1, <3>2
  <2>. QED BY <2>2 DEF NothingGone, Gone, Kept
<1>17. ASSUME NEW fs \in SUBSET File, NEW answer \in Answers(fs), Resolve(answer)
       PROVE  SafeOK' /\ NothingGone'
  <2>1. /\ Rebasing /\ Answered(answer, fs) /\ fs \in SUBSET fs /\ kept' = kept
        /\ op'.pc \in {"idle", "pick"}
    BY <1>17 DEF Resolve, Answers, Idle
  <2>. QED BY <1>4, <1>16, <2>1
<1>18. ASSUME NEW fs \in SUBSET File, NEW answer \in Answers(fs), ResolveFails(answer)
       PROVE  SafeOK' /\ NothingGone'
  <2>1. /\ Rebasing /\ kept' = kept /\ op'.pc = "idle"
        /\ \E done \in SUBSET fs : Answered(answer, done)
    BY <1>18 DEF ResolveFails, Answers
  <2>. QED BY <1>4, <1>16, <2>1
<1>19. CASE Pick
  <2>1. /\ op.pc = "pick" /\ op'.pc = "finish" /\ UNCHANGED <<trunk, files, kept, mine, raced>>
        /\ \/ files = TreeOf(head.c) /\ head' = head
           \/ head'.c = Unsaved(op.on, files)
    BY <1>19 DEF Pick, TypeOK
  <2>2. Clean'
    <3>1. CASE files = TreeOf(head.c) /\ head' = head
      BY <1>2, <2>1, <3>1 DEF Clean
    <3>2. CASE head'.c = Unsaved(op.on, files)
      <4>1. Unsaved(op.on, files) \in CommitOf(Len(trunk))
        BY <2>1, Fields, Trees
      <4>2. TreeOf(head.c)' = TreeOf(Unsaved(op.on, files))
        BY <3>2, <4>1, TrunkStays
      <4>. QED BY <2>1, <4>2, UnsavedTree, Fields DEF Clean
    <3>. QED BY <2>1, <3>1, <3>2
  <2>. QED BY <1>3, <2>1, <2>2 DEF SafeOK
<1>20. CASE Finish
  <2>1. /\ op.pc = "finish" /\ op'.pc = "complete"
        /\ UNCHANGED <<trunk, files, head, kept, mine, raced>>
    BY <1>20 DEF Finish, TypeOK
  <2>2. SafeOK'
    BY <1>2, <2>1 DEF SafeOK, Clean
  <2>. QED BY <1>3, <2>1, <2>2
<1>21. CASE CheckoutWorkspace
  <2>1. /\ op.pc = "complete" /\ op'.pc = "reset" /\ files' = TreeOf(head.c)
        /\ UNCHANGED <<kept, mine, raced>>
    BY <1>21 DEF CheckoutWorkspace, TypeOK
  <2>2. \A f \in File \ raced : files'[f] = files[f]
    BY <2>1 DEF SafeOK, Clean
  <2>. QED BY <1>3, <1>4, <2>1, <2>2
<1>22. CASE Reset
  <2>1. op'.pc = "push" /\ UNCHANGED <<files, kept, raced>>
    BY <1>22 DEF Reset, TypeOK
  <2>2. \A f \in File : mine'[f] \in {mine[f], None}
    BY <1>22 DEF Reset, StillMine
  <2>. QED BY <1>3, <1>4, <2>1, <2>2
<1>23. CASE Push
  <2>1. op'.pc = "snapshot" /\ UNCHANGED <<files, kept, mine, raced>>
    BY <1>23 DEF Push, TypeOK
  <2>. QED BY <1>3, <1>4, <2>1
<1>. QED BY <1>5, <1>6, <1>7, <1>8, <1>9, <1>10, <1>11, <1>12, <1>13, <1>14, <1>15, <1>17, <1>18,
            <1>19, <1>20, <1>21, <1>22, <1>23 DEF Next, Step

(* Nothing that the user has written is gone, however a sync ends.         *)
THEOREM NothingIsGone == Spec => []NothingGone
<1>1. Init => SafeOK /\ NothingGone
  BY DEF Init, Idle, SafeOK, NothingGone
<1>2. TypeOK /\ SafeOK /\ NothingGone /\ [Next]_vars => SafeOK' /\ NothingGone'
  BY SafeNext
<1>. QED BY <1>1, <1>2, TypeCorrect, PTL DEF Spec

-----------------------------------------------------------------------------
(* The draft holds the user's own edits.                                   *)

(* What is no conflict is merged to the user's own, if there is any.       *)
LEMMA MergedOwn ==
    ASSUME NEW f \in File \ InConflict, mine[f] # op.base[f],
           op.theirs[f] = IF mine[f] = None THEN op.base[f] ELSE mine[f]
    PROVE  Merged(f) = IF mine[f] = None THEN trunk[op.on][f] ELSE mine[f]
  BY DEF Merged, Merge, InConflict, Conflict

LEMMA BranchTree ==
    ASSUME TypeOK
    PROVE  /\ ws \in CommitOf(Len(trunk)) /\ ws.on \in 1..Len(trunk)
           /\ \A i \in 1..Len(trunk) : trunk[i] \in Tree
           /\ ws.wip = NoTree => TreeOf(ws) = trunk[ws.on] /\ ws = OnTrunk(ws.on)
           /\ op.pc # "idle" => op.on \in 1..Len(trunk)
           /\ Rebasing => rb.on \in 1..Len(trunk)
<1>1. ws \in CommitOf(Len(trunk)) /\ ws.on \in 1..Len(trunk)
  BY Trees DEF TypeOK
<1>2. \A i \in 1..Len(trunk) : trunk[i] \in Tree
  BY Trees
<1>3. ws.wip = NoTree => TreeOf(ws) = trunk[ws.on] /\ ws = OnTrunk(ws.on)
  BY <1>1 DEF TreeOf, OnTrunk, CommitOf
<1>. QED BY <1>1, <1>2, <1>3, Fields

LEMMA StagesNext ==
    ASSUME TypeOK, SafeOK, StagesOK, [Next]_vars
    PROVE  StagesOK'
<1>. USE DEF branches, user
<1>. DEFINE Rest(f) == files'[f] = files[f] /\ mine'[f] = mine[f]
<1>1. SUFFICES ASSUME Stage, ~broken, ~broken' PROVE Stage'
  <2>1. broken => broken'
    BY DEF Next, Step, vars, TrunkMoves, Edit, Start, NoChanges, Discard, CommitUnsaved,
           CheckoutOnto, Stash, InitRebase, InitRebaseFails, Pick, Finish, PopFails,
           CheckoutWorkspace, Reset, Push, Snapshot, Die, Resolve, ResolveFails
  <2>. QED BY <2>1 DEF StagesOK
<1>2. \A i \in 1..Len(trunk) : trunk'[i] = trunk[i] /\ trunk[i] \in Tree
  BY TrunkStays, BranchTree
<1>3. ASSUME UNCHANGED <<head, ws, pushed, rb, op>>, raced \subseteq raced',
             \A f \in File \ raced' : Rest(f)
      PROVE  Stage'
  <2>1. /\ ws.on \in 1..Len(trunk)
        /\ op.pc # "idle" => op.on \in 1..Len(trunk)
        /\ Rebasing => rb.on \in 1..Len(trunk)
    BY BranchTree
  <2>2. /\ Quiet("ws") => Quiet("ws")'
        /\ Quiet("unsaved") => Quiet("unsaved")'
        /\ Rebasing' <=> Rebasing
        /\ Done => Done'
        /\ head' = head /\ ws' = ws /\ pushed' = pushed /\ op' = op
    BY <1>3 DEF Quiet, Rebasing, Done, OnTrunk, NoTree
  <2>3. ASSUME NEW i \in 1..Len(trunk)
        PROVE  /\ AllOwn(trunk[i]) => AllOwn(trunk[i])'
               /\ AllChanged(trunk[i]) => AllChanged(trunk[i])'
    BY <1>2, <1>3 DEF AllOwn, AllChanged, Own, Changed
  <2>4. /\ AllOwn(trunk[ws.on]) => AllOwn(trunk[ws.on])'
        /\ AllChanged(trunk[ws.on]) => AllChanged(trunk[ws.on])'
        /\ op.pc # "idle" /\ AllOwn(trunk[op.on]) => AllOwn(trunk[op.on])'
    BY <1>2, <1>3, <2>1 DEF AllOwn, AllChanged, Own, Changed
  <2>5. Rebasing /\ Stopped => Stopped'
    BY <1>2, <1>3, <2>1 DEF Stopped, Own
  <2>6. op.pc \in {"onto", "stash", "rebase"} =>
          (\A f \in File \ raced :
              /\ op.theirs[f] = IF mine[f] = None THEN op.base[f] ELSE mine[f]
              /\ mine[f] # op.base[f])'
    BY <1>1, <1>3 DEF Stage
  <2>7. CASE op.pc = "idle"
    BY <1>1, <2>2, <2>4, <2>5, <2>7 DEF Stage
  <2>8. CASE op.pc \in {"tree", "discard"}
    BY <1>1, <2>2, <2>4, <2>8 DEF Stage
  <2>9. CASE op.pc \in {"onto", "stash", "rebase"}
    BY <1>1, <2>2, <2>6, <2>9 DEF Stage
  <2>10. CASE op.pc \in {"pick", "finish", "complete", "reset"}
    BY <1>1, <2>2, <2>4, <2>10 DEF Stage, OnTrunk, NoTree
  <2>11. CASE op.pc \in {"push", "snapshot"}
    BY <1>1, <2>2, <2>4, <2>11 DEF Stage, NoTree
  <2>. QED BY <2>7, <2>8, <2>9, <2>10, <2>11, Fields DEF PCs
<1>4. CASE UNCHANGED vars
  BY <1>3, <1>4 DEF vars
<1>5. ASSUME NEW f \in File, NEW v \in Content \union {Absent}, TrunkMoves(f, v)
      PROVE  Stage'
  <2>1. UNCHANGED <<files, mine, head, ws, pushed, rb, op, raced>>
    BY <1>5 DEF TrunkMoves
  <2>. QED BY <1>3, <2>1
<1>6. ASSUME NEW f \in File, NEW v \in Content \union {Absent}, Edit(f, v)
      PROVE  Stage'
  <2>1. /\ UNCHANGED <<trunk, head, ws, pushed, rb, op>>
        /\ \A g \in File : g # f => Rest(g)
        /\ files'[f] = v /\ mine'[f] = Wanted(f, v)
        /\ raced' = IF op.pc = "idle" THEN raced \ {f} ELSE raced \union {f}
    BY <1>6 DEF Edit, Wanted, TypeOK, Tree
  <2>2. CASE op.pc # "idle"
    BY <1>3, <2>1, <2>2
  <2>3. CASE op.pc = "idle" /\ Rebasing
    <3>1. Stopped /\ TreeOf(head.c) = trunk[rb.on] /\ rb.on \in 1..Len(trunk)
      BY <1>1, <2>3, Trees, BranchTree DEF Stage, Stopped
    <3>2. Own(f, trunk[rb.on])'
      BY <2>1, <3>1, SyncAssumption DEF Own, Wanted
    <3>3. \A g \in File \ (raced' \union rb.conf) : g # f => Own(g, trunk[rb.on])'
      BY <2>1, <2>3, <3>1 DEF Own, Stopped
    <3>4. Stopped'
      BY <2>1, <3>1, <3>2, <3>3 DEF Stopped
    <3>. QED BY <2>1, <2>3, <3>4 DEF Stage, Rebasing
  <2>4. CASE op.pc = "idle" /\ ~Rebasing
    <3>1. /\ Quiet("ws") /\ TreeOf(head.c) = trunk[ws.on] /\ ws.on \in 1..Len(trunk)
          /\ AllOwn(trunk[ws.on]) /\ AllChanged(trunk[ws.on])
          /\ trunk[ws.on][f] # None
      <4>1. Quiet("ws") /\ AllOwn(trunk[ws.on]) /\ AllChanged(trunk[ws.on])
        BY <1>1, <2>4 DEF Stage
      <4>2. TreeOf(head.c) = trunk[ws.on] /\ ws.on \in 1..Len(trunk)
        BY <4>1, BranchTree DEF Quiet
      <4>. QED BY <1>2, <4>1, <4>2, SyncAssumption DEF Tree
    <3>2. Own(f, trunk[ws.on])' /\ Changed(f, trunk[ws.on])'
      BY <2>1, <3>1, SyncAssumption DEF Own, Changed, Wanted
    <3>3. \A g \in File \ raced' : g # f => Own(g, trunk[ws.on])' /\ Changed(g, trunk[ws.on])'
      BY <2>1, <2>4, <3>1 DEF Own, Changed, AllOwn, AllChanged
    <3>4. AllOwn(trunk[ws.on])' /\ AllChanged(trunk[ws.on])' /\ Quiet("ws")'
      BY <2>1, <3>1, <3>2, <3>3 DEF AllOwn, AllChanged, Quiet
    <3>. QED BY <2>1, <2>4, <3>4 DEF Stage, Rebasing
  <2>. QED BY <2>2, <2>3, <2>4
<1>7. CASE Start
  <2>1. /\ op.pc = "idle" /\ ~Rebasing /\ op'.pc = "tree" /\ ~op'.reset
        /\ head' = [head EXCEPT !.at = "unsaved"]
        /\ UNCHANGED <<trunk, files, ws, pushed, rb, mine, raced>>
    BY <1>7 DEF Start, Idle, TypeOK
  <2>2. Quiet("ws") /\ AllOwn(trunk[ws.on]) /\ AllChanged(trunk[ws.on])
    BY <1>1, <2>1 DEF Stage
  <2>3. Quiet("unsaved")' /\ AllOwn(trunk[ws.on])' /\ AllChanged(trunk[ws.on])'
    BY <2>1, <2>2 DEF Quiet, AllOwn, AllChanged, Own, Changed
  <2>. QED BY <2>1, <2>3 DEF Stage, Rebasing
<1>8. CASE NoChanges
  <2>1. /\ op.pc = "tree" /\ op'.pc = "discard" /\ op'.reset = op.reset
        /\ UNCHANGED <<trunk, files, head, ws, pushed, rb, mine, raced>>
    BY <1>8 DEF NoChanges, TypeOK
  <2>2. /\ Quiet("unsaved") /\ ~op.reset /\ AllOwn(trunk[ws.on]) /\ AllChanged(trunk[ws.on])
        /\ ~Rebasing
    BY <1>1, <2>1 DEF Stage
  <2>3. Quiet("unsaved")' /\ AllOwn(trunk[ws.on])' /\ AllChanged(trunk[ws.on])' /\ ~Rebasing'
    BY <2>1, <2>2 DEF Quiet, AllOwn, AllChanged, Own, Changed, Rebasing
  <2>. QED BY <2>1, <2>2, <2>3 DEF Stage
<1>9. CASE Discard
  <2>1. /\ op.pc = "discard" /\ op'.pc = "complete" /\ op'.reset = op.reset /\ op'.on = op.on
        /\ files' = trunk[op.on] /\ head' = [at |-> "sync", c |-> OnTrunk(op.on)]
        /\ UNCHANGED <<trunk, ws, pushed, rb, mine, raced>>
    BY <1>9 DEF Discard, TypeOK
  <2>2. /\ Quiet("unsaved") /\ ~op.reset /\ AllOwn(trunk[ws.on]) /\ AllChanged(trunk[ws.on])
        /\ ~Rebasing
    BY <1>1, <2>1 DEF Stage
  <2>3. TreeOf(head.c) = trunk[ws.on]
    BY <2>2, BranchTree DEF Quiet
  <2>4. \A f \in File \ raced : mine[f] = None
    BY <2>1, <2>2, <2>3 DEF SafeOK, Clean, AllOwn, AllChanged, Own, Changed
  <2>5. AllOwn(trunk[op.on])'
    BY <2>1, <2>4 DEF AllOwn, Own
  <2>6. Done'
    BY <2>1, <2>2 DEF Done, OnTrunk
  <2>. QED BY <2>1, <2>2, <2>5, <2>6 DEF Stage, Rebasing
<1>10. CASE CommitUnsaved
  <2>1. /\ op.pc = "tree" /\ op'.pc = "onto" /\ op'.base = TreeOf(head.c) /\ op'.theirs = files
        /\ UNCHANGED <<trunk, files, ws, pushed, rb, mine, raced>>
    BY <1>10 DEF CommitUnsaved, TypeOK
  <2>2. Quiet("unsaved") /\ AllOwn(trunk[ws.on]) /\ AllChanged(trunk[ws.on]) /\ ~Rebasing
    BY <1>1, <2>1 DEF Stage
  <2>3. TreeOf(head.c) = trunk[ws.on]
    BY <2>2, BranchTree DEF Quiet
  <2>4. \A f \in File \ raced :
          /\ op'.theirs[f] = IF mine[f] = None THEN op'.base[f] ELSE mine[f]
          /\ mine[f] # op'.base[f]
    BY <2>1, <2>2, <2>3 DEF AllOwn, AllChanged, Own, Changed
  <2>. QED BY <2>1, <2>2, <2>4 DEF Stage, Rebasing
<1>11. CASE CheckoutOnto \/ Stash
  <2>1. /\ op.pc \in {"onto", "stash"} /\ op'.pc \in {"stash", "rebase"}
        /\ op'.theirs = op.theirs /\ op'.base = op.base
        /\ UNCHANGED <<rb, mine, raced>>
    BY <1>11 DEF CheckoutOnto, Stash, TypeOK
  <2>2. \A f \in File \ raced :
          /\ op.theirs[f] = IF mine[f] = None THEN op.base[f] ELSE mine[f]
          /\ mine[f] # op.base[f]
    BY <1>1, <2>1 DEF Stage
  <2>3. ~Rebasing
    BY <1>1, <2>1 DEF Stage
  <2>. QED BY <2>1, <2>2, <2>3 DEF Stage, Rebasing
<1>12. CASE InitRebase
  <2>1. /\ op.pc = "rebase" /\ op.on \in 1..Len(trunk)
        /\ head' = [head EXCEPT !.at = "detached"] /\ rb' = Rebase(InConflict)
        /\ \A f \in File : files'[f] = IF f \in Dirty THEN files[f] ELSE Merged(f)
        /\ UNCHANGED <<trunk, mine, raced>>
    BY <1>12, Fields DEF InitRebase, Detached
  <2>2. rb'.on = op.on /\ rb'.conf = InConflict /\ Rebasing'
    BY <2>1 DEF Rebase, Rebasing
  <2>3. head.c = OnTrunk(op.on) /\ \A f \in File \ raced : f \notin Dirty
    BY <2>1 DEF SafeOK, Clean, Dirty
  <2>4. head' = [at |-> "detached", c |-> OnTrunk(op.on)]
    BY <2>1, <2>3, Fields
  <2>5. ASSUME NEW f \in File \ (raced \union InConflict)
        PROVE  files'[f] = IF mine'[f] = None THEN trunk'[op.on][f] ELSE mine'[f]
    <3>1. /\ op.theirs[f] = IF mine[f] = None THEN op.base[f] ELSE mine[f]
          /\ mine[f] # op.base[f]
      BY <1>1, <2>1 DEF Stage
    <3>2. files'[f] = IF mine[f] = None THEN trunk[op.on][f] ELSE mine[f]
      BY <2>1, <2>3, <3>1, MergedOwn
    <3>. QED BY <2>1, <3>2
  <2>6. CASE InConflict = {}
    <3>1. op'.pc = "pick" /\ op'.on = op.on
      BY <1>12, <2>6 DEF InitRebase, TypeOK
    <3>2. AllOwn(trunk[op.on])'
      BY <2>1, <2>5, <2>6, <3>1 DEF AllOwn, Own
    <3>. QED BY <2>4, <3>1, <3>2 DEF Stage
  <2>7. CASE InConflict # {}
    <3>1. op'.pc = "idle"
      BY <1>12, <2>7 DEF InitRebase, Idle
    <3>2. Stopped'
      BY <2>1, <2>2, <2>4, <2>5 DEF Stopped, Own
    <3>. QED BY <2>2, <3>1, <3>2 DEF Stage
  <2>. QED BY <2>6, <2>7
<1>13. ASSUME NEW fs \in SUBSET File, NEW answer \in Answers(fs), NEW done \in SUBSET fs,
              op.pc = "idle", Rebasing, Answered(answer, done),
              UNCHANGED <<trunk, head>>, rb'.on = rb.on, rb.conf \ done \subseteq rb'.conf
       PROVE  /\ Stopped' /\ Rebasing'
              /\ rb'.conf = {} => AllOwn(trunk[rb.on])'
  <2>1. Stopped /\ TreeOf(head.c) = trunk[rb.on] /\ rb.on \in 1..Len(trunk)
    BY <1>1, <1>13, Trees, BranchTree DEF Stage, Stopped
  <2>2. /\ raced' = raced \ done
        /\ \A f \in File \ done : files'[f] = files[f] /\ mine'[f] = mine[f]
        /\ \A f \in done : \/ mine'[f] = files'[f]
                           \/ mine'[f] = None /\ files'[f] = trunk[rb.on][f]
    BY <1>13, <2>1, AnsweredOwn
  <2>3. ASSUME NEW f \in File, f \notin raced', f \notin rb'.conf PROVE Own(f, trunk[rb.on])'
    <3>1. CASE f \in done
      <4>1. files'[f] # None
        BY TypeNext, SyncAssumption DEF TypeOK, Tree
      <4>. QED BY <1>13, <2>2, <3>1, <4>1 DEF Own
    <3>2. CASE f \notin done
      <4>1. Own(f, trunk[rb.on])
        BY <1>13, <2>1, <2>2, <2>3, <3>2 DEF Stopped
      <4>. QED BY <1>13, <2>2, <3>2, <4>1 DEF Own
    <3>. QED BY <3>1, <3>2
  <2>. QED BY <1>13, <2>1, <2>3 DEF Stopped, Rebasing, AllOwn
<1>14. ASSUME NEW fs \in SUBSET File, NEW answer \in Answers(fs), Resolve(answer)
       PROVE  Stage'
  <2>1. /\ op.pc = "idle" /\ Rebasing /\ Answered(answer, fs) /\ UNCHANGED <<trunk, head>>
        /\ rb' = [rb EXCEPT !.conf = rb.conf \ fs]
        /\ op' = IF rb.conf \ fs = {} THEN [Idle EXCEPT !.pc = "pick", !.on = rb.on] ELSE Idle
    BY <1>14 DEF Resolve, Answers
  <2>2. rb'.on = rb.on /\ rb'.conf = rb.conf \ fs
    BY <2>1 DEF TypeOK
  <2>3. /\ Stopped' /\ Rebasing'
        /\ rb'.conf = {} => AllOwn(trunk[rb.on])'
    BY <1>13, <2>1, <2>2
  <2>4. CASE rb'.conf = {}
    <3>1. op'.pc = "pick" /\ op'.on = rb.on
      BY <2>1, <2>2, <2>4 DEF Idle
    <3>2. AllOwn(trunk[op.on])' /\ head' = [at |-> "detached", c |-> OnTrunk(op'.on)]
      BY <2>2, <2>3, <2>4, <3>1 DEF AllOwn, Stopped
    <3>. QED BY <3>1, <3>2 DEF Stage, OnTrunk
  <2>5. CASE rb'.conf # {}
    <3>1. op'.pc = "idle"
      BY <2>1, <2>2, <2>5 DEF Idle
    <3>. QED BY <2>3, <3>1 DEF Stage
  <2>. QED BY <2>4, <2>5
<1>15. ASSUME NEW fs \in SUBSET File, NEW answer \in Answers(fs), ResolveFails(answer)
       PROVE  Stage'
  <2>1. /\ op.pc = "idle" /\ op' = op /\ Rebasing /\ UNCHANGED <<trunk, head, rb>>
        /\ \E done \in SUBSET fs : Answered(answer, done) /\ done \subseteq rb.conf
    BY <1>15 DEF ResolveFails, Answers, CanResolve
  <2>2. PICK done \in SUBSET fs : Answered(answer, done) /\ done \subseteq rb.conf
    BY <2>1
  <2>3. Stopped' /\ Rebasing'
    BY <1>13, <2>1, <2>2
  <2>. QED BY <2>1, <2>3 DEF Stage
<1>16. CASE Pick
  <2>1. /\ op.pc = "pick" /\ op'.pc = "finish" /\ op'.on = op.on /\ op'.parent = head.c
        /\ op'.reset = (files # TreeOf(head.c))
        /\ head' = IF files = TreeOf(head.c) THEN head
                   ELSE [head EXCEPT !.c = Unsaved(op.on, files)]
        /\ UNCHANGED <<trunk, files, mine, raced>>
    BY <1>16 DEF Pick, TypeOK
  <2>2. head = [at |-> "detached", c |-> OnTrunk(op.on)] /\ AllOwn(trunk[op.on])
    BY <1>1, <2>1 DEF Stage
  <2>3. Done'
    BY <2>1, <2>2 DEF Done, OnTrunk, Unsaved
  <2>4. AllOwn(trunk[op.on])'
    BY <2>1, <2>2 DEF AllOwn, Own
  <2>. QED BY <2>1, <2>3, <2>4 DEF Stage
<1>17. CASE Finish
  <2>1. /\ op.pc = "finish" /\ op'.pc = "complete" /\ op'.on = op.on /\ rb'.on = 0
        /\ op'.reset = op.reset /\ op'.parent = op.parent
        /\ UNCHANGED <<trunk, files, head, mine, raced>>
    BY <1>17 DEF Finish, TypeOK, NoRebase
  <2>2. Done /\ AllOwn(trunk[op.on])
    BY <1>1, <2>1 DEF Stage
  <2>3. Done' /\ AllOwn(trunk[op.on])'
    BY <2>1, <2>2 DEF Done, AllOwn, Own, OnTrunk
  <2>. QED BY <2>1, <2>3 DEF Stage, Rebasing
<1>18. CASE CheckoutWorkspace
  <2>1. /\ op.pc = "complete" /\ op'.pc = "reset" /\ op'.on = op.on
        /\ op'.reset = op.reset /\ op'.parent = op.parent
        /\ ws' = head.c /\ head' = [head EXCEPT !.at = "ws"] /\ files' = TreeOf(head.c)
        /\ UNCHANGED <<trunk, rb, mine, raced>>
    BY <1>18 DEF CheckoutWorkspace, TypeOK
  <2>2. Done /\ AllOwn(trunk[op.on]) /\ ~Rebasing
    BY <1>1, <2>1 DEF Stage
  <2>3. head'.at = "ws" /\ head'.c = head.c
    BY <2>1, Fields
  <2>4. \A f \in File \ raced : files'[f] = files[f]
    BY <2>1 DEF SafeOK, Clean
  <2>5. Done' /\ AllOwn(trunk[op.on])'
    BY <2>1, <2>2, <2>3, <2>4 DEF Done, AllOwn, Own, OnTrunk
  <2>. QED BY <2>1, <2>2, <2>3, <2>5 DEF Stage, Rebasing
<1>19. CASE Reset
  <2>. DEFINE parent == IF op.reset THEN op.parent ELSE head.c
  <2>1. /\ op.pc = "reset" /\ op'.pc = "push" /\ ws' = parent
        /\ head' = [head EXCEPT !.c = parent] /\ mine' = StillMine(parent)
        /\ UNCHANGED <<trunk, files, rb, raced>>
    BY <1>19 DEF Reset, TypeOK
  <2>2. Done /\ AllOwn(trunk[op.on]) /\ head.at = "ws" /\ ~Rebasing
    BY <1>1, <2>1 DEF Stage
  <2>3. parent = OnTrunk(op.on)
    BY <2>2 DEF Done
  <2>. HIDE DEF parent
  <2>4. op.on \in 1..Len(trunk) /\ TreeOf(parent) = trunk[op.on]
    BY <2>1, <2>3, BranchTree, Trees
  <2>5. head' = [at |-> "ws", c |-> ws'] /\ ws'.wip = NoTree /\ ws'.on = op.on
    BY <2>1, <2>2, <2>3, Fields DEF OnTrunk
  <2>6. ASSUME NEW f \in File \ raced
        PROVE  /\ files'[f] = IF mine'[f] = None THEN trunk[op.on][f] ELSE mine'[f]
               /\ mine'[f] # trunk[op.on][f]
    <3>1. trunk[op.on][f] # None
      BY <1>2, <2>4, SyncAssumption DEF Tree
    <3>2. mine'[f] = IF mine[f] = trunk[op.on][f] THEN None ELSE mine[f]
      BY <2>1, <2>4 DEF StillMine
    <3>. QED BY <2>1, <2>2, <3>1, <3>2 DEF AllOwn, Own
  <2>7. AllOwn(trunk[ws.on])' /\ AllChanged(trunk[ws.on])'
    BY <2>1, <2>5, <2>6 DEF AllOwn, AllChanged, Own, Changed
  <2>. QED BY <2>1, <2>2, <2>5, <2>7 DEF Stage, Rebasing, NoTree
<1>20. CASE Push \/ Snapshot
  <2>1. /\ UNCHANGED <<trunk, files, head, ws, rb, mine, raced>>
        /\ \/ op.pc = "push" /\ op'.pc = "snapshot" /\ pushed' = ws
           \/ op.pc = "snapshot" /\ op'.pc = "idle" /\ pushed' = pushed
    BY <1>20 DEF Push, Snapshot, TypeOK, Idle
  <2>2. /\ head = [at |-> "ws", c |-> ws] /\ ws.wip = NoTree /\ ~Rebasing
        /\ AllOwn(trunk[ws.on]) /\ AllChanged(trunk[ws.on])
        /\ op.pc = "snapshot" => pushed = ws
    BY <1>1, <2>1 DEF Stage
  <2>3. /\ head' = [at |-> "ws", c |-> ws'] /\ ws'.wip = NoTree /\ ~Rebasing' /\ pushed' = ws'
        /\ AllOwn(trunk[ws.on])' /\ AllChanged(trunk[ws.on])'
    BY <2>1, <2>2 DEF AllOwn, AllChanged, Own, Changed, Rebasing
  <2>. QED BY <2>1, <2>3 DEF Stage, Quiet, NoTree
<1>21. CASE InitRebaseFails \/ PopFails \/ Die
  BY <1>1, <1>21 DEF InitRebaseFails, PopFails, Die
<1>. QED BY <1>4, <1>5, <1>6, <1>7, <1>8, <1>9, <1>10, <1>11, <1>12, <1>14, <1>15, <1>16, <1>17,
            <1>18, <1>19, <1>20, <1>21 DEF Next, Step

(* After a sync the draft is on trunk and holds the user's own edits and   *)
(* choices, and nothing else (OnTrunk).                                    *)
THEOREM DraftIsOwn == Spec => []DraftIsOwnEdits
<1>1. Init => SafeOK /\ NothingGone /\ StagesOK
  <2>. SUFFICES ASSUME Init PROVE Stage /\ SafeOK /\ NothingGone
    BY DEF StagesOK
  <2>1. PICK tree \in FirstTree : trunk = <<tree>>
    BY DEF Init
  <2>2. /\ trunk[1] = tree /\ files = tree /\ ws.on = 1 /\ ws.wip = NoTree
        /\ \A f \in File : mine[f] = None /\ tree[f] # None
    BY <2>1, SyncAssumption DEF Init, OnTrunk
  <2>3. Quiet("ws") /\ AllOwn(trunk[ws.on]) /\ AllChanged(trunk[ws.on])
    BY <2>2 DEF Init, Quiet, AllOwn, AllChanged, Own, Changed
  <2>. QED BY <2>3 DEF Init, Idle, NoRebase, Rebasing, Stage, SafeOK, NothingGone
<1>2. TypeOK /\ SafeOK /\ NothingGone /\ StagesOK /\ [Next]_vars
        => SafeOK' /\ NothingGone' /\ StagesOK'
  BY SafeNext, StagesNext
<1>3. TypeOK /\ StagesOK => DraftIsOwnEdits
  BY DEF DraftIsOwnEdits, AtRest, StagesOK, Stage, Quiet, AllOwn, Own
<1>. QED BY <1>1, <1>2, <1>3, TypeCorrect, PTL DEF Spec
=============================================================================
