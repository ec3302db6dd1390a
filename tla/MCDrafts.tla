------------------------------ MODULE MCDrafts ------------------------------
(***************************************************************************)
(* Small instances of Drafts and of Suggestions, side by side: the two     *)
(* share no state here, and moves, chosen at the start, says which of them *)
(* takes all the steps.  Drafts may also be run alone (Spec).              *)
(***************************************************************************)
EXTENDS Drafts, TLC

CONSTANTS Workspace2, Original, Request2, Collector, Edit2,
          MaxSnapshots, MaxRequests2, MaxPasses, MaxFailures2

VARIABLES moves, ws, disk2, snaps2, sug, pc2, loc2, gc, recent, started2,
          passes, failed2, done, disturbed, excused, torn

S == INSTANCE Suggestions WITH
        Workspace <- Workspace2, Request <- Request2, Edit <- Edit2,
        MaxRequests <- MaxRequests2, MaxFailures <- MaxFailures2,
        disk <- disk2, snaps <- snaps2, pc <- pc2, loc <- loc2,
        started <- started2, failed <- failed2

others == <<ws, disk2, snaps2, sug, pc2, loc2, gc, recent, started2, passes,
            failed2, done, disturbed, excused, torn>>

ASSUME SuggestionsAssumption ==
    /\ Original \in Workspace2 /\ Edit2 \subseteq Nat
    /\ {MaxSnapshots, MaxRequests2, MaxPasses, MaxFailures2} \subseteq Nat

(* While the one moves the other has a single initial state.               *)
BothInit ==
    /\ moves \in {"drafts", "suggestions"} /\ Init /\ S!Init
    /\ moves = "drafts" => \A w \in Workspace2 : ~sug[w].there
    /\ moves = "suggestions" => \A w \in Workspace : ~row[w].exists

BothNext ==
    \/ moves = "drafts" /\ Next /\ UNCHANGED <<moves, others>>
    \/ moves = "suggestions" /\ S!Next /\ UNCHANGED <<moves, vars>>

BothSpec == BothInit /\ [][BothNext]_<<moves, vars, others>>

(* The properties of Suggestions, stated there.                            *)
UsedIsKept   == S!UsedIsKept
LiveOnTrunk  == S!LiveOnTrunk
MarksAreTrue == S!MarksAreTrue

(* Views and the requests of Suggestions are the same model values, so that *)
(* there are not more permutations than for Drafts alone.                   *)
Symmetry == Permutations(Workspace) \union Permutations(Edit) \union Permutations(View)
=============================================================================
