--------------------------- MODULE DraftsWatched ---------------------------
(***************************************************************************)
(* Drafts for TLC with liveness, and with a history variable: calm says    *)
(* that the server has been calm so far (CalmNext), so that what holds of  *)
(* calm behaviours and what holds of all is checked in one run.            *)
(***************************************************************************)
EXTENDS Drafts

VARIABLE calm

WatchedInit == Init /\ calm = TRUE

WatchedNext == Next /\ calm' = (calm /\ CalmNext)

WatchedSpec == WatchedInit /\ [][WatchedNext]_<<vars, calm>> /\ Fairness

(* On a calm server with one view, drafts change by their owner's edits and*)
(* by going back to an earlier snapshot only: opening, archiving and       *)
(* snapshots, whatever they move, are invisible in DraftStore.             *)
ImplementsDraftStore ==
    /\ DS!Init
    /\ [][calm' => DS!Next \/ UNCHANGED <<Drafted, Versions>>]_<<vars, calm>>
=============================================================================
