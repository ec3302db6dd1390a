----------------------------- MODULE MCLanding -----------------------------
(***************************************************************************)
(* Small instances of Landing and of PullRequests, side by side: the two   *)
(* share no state here, and moves, chosen at the start, says which of them *)
(* takes all the steps.                                                    *)
(***************************************************************************)
EXTENDS Landing, TLC

CONSTANTS PR, NoPR, Worker, Request2, MaxWorkspaces, MaxHead, MaxActs, MaxRequests2

VARIABLES moves, gh, remote2, inbox, pushes, row2, ws, change, trunk2, known,
          pc2, loc2, acts, started2, failed2, stranded, disturbed

P == INSTANCE PullRequests WITH
        Request <- Request2, MaxRequests <- MaxRequests2, remote <- remote2,
        row <- row2, trunk <- trunk2, pc <- pc2, loc <- loc2,
        started <- started2, failed <- failed2

others == <<gh, remote2, inbox, pushes, row2, ws, change, trunk2, known, pc2, loc2,
            acts, started2, failed2, stranded, disturbed>>

ASSUME PullRequestsAssumption ==
    /\ NoPR \notin PR
    /\ MaxWorkspaces \in Nat \ {0}
    /\ {MaxHead, MaxActs, MaxRequests2} \subseteq Nat

(* While the one moves the other has a single initial state.               *)
BothInit ==
    /\ moves \in {"landing", "pull requests"} /\ Init /\ P!Init
    /\ moves = "landing" => \A p \in PR : gh[p] = P!NoGH
    /\ moves = "pull requests" => ~tracked

BothNext ==
    \/ moves = "landing" /\ Next /\ UNCHANGED <<moves, others>>
    \/ moves = "pull requests" /\ P!Next /\ UNCHANGED <<moves, vars>>

BothSpec == BothInit /\ [][BothNext]_<<moves, vars, others>>

(* The properties of PullRequests, stated there.                           *)
ArchivedWhenMerged == P!ArchivedWhenMerged
OneDraft           == P!OneDraft
QuietAgrees        == P!QuietAgrees
TrunkCatchesUp     == P!TrunkCatchesUp

(* Pull requests are the same model values as workspaces, and workers the  *)
(* same as requests, so that there are not more permutations than for one. *)
Symmetry == Permutations(Workspace) \union Permutations(Request)
=============================================================================
