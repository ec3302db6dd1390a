---------------------------- MODULE MCTempViews ----------------------------
(***************************************************************************)
(* Small instances of TempViews and of Executor, side by side: the two     *)
(* share no state here, and moves, chosen at the start, says which of them *)
(* takes all the steps.                                                    *)
(***************************************************************************)
EXTENDS TempViews, TLC

CONSTANTS Thread, Trunk2, View2, Branch, Offered

VARIABLES moves, stack, lock, branch, rebasing

X == INSTANCE Executor WITH Trunk <- Trunk2, View <- View2

others == <<stack, lock, branch, rebasing>>

ASSUME ExecutorAssumption == Trunk2 \notin View2 /\ 0 \notin Branch /\ Offered \subseteq X!Names

(* The pool is empty, or an earlier job has left a view there, as it is    *)
(* after one that packed files.  The bound on jobs counts from then on.    *)
PoolOf(free) ==
    /\ name = [v \in View |-> IF v \in free THEN "free" ELSE "absent"]
    /\ snaps = <<>> /\ repo = [v \in View |-> NewRepo]
    /\ pc = [p \in Process |-> "idle"] /\ job = [p \in Process |-> NoJob]
    /\ jobs = 0 /\ lost = {}

BothInit ==
    /\ \/ moves = "executor" /\ Init
       \/ moves = "temporary views" /\ \E free \in SUBSET View : Cardinality(free) <= 1 /\ PoolOf(free)
    /\ X!Init

BothNext ==
    \/ moves = "temporary views" /\ Next /\ UNCHANGED <<moves, others>>
    \/ moves = "executor" /\ X!Next /\ UNCHANGED <<moves, vars>>

BothSpec == BothInit /\ [][BothNext]_<<moves, vars, others>>

(* The properties of Executor, stated there.                               *)
LocksExclude    == X!LocksExclude
InExpectedState == X!InExpectedState
NoCircularWait  == X!NoCircularWait

(* Goroutines are the same model values as temporary views, so that there  *)
(* are fewer permutations.                                                 *)
Symmetry == Permutations(View) \union Permutations(Branch)
=============================================================================
