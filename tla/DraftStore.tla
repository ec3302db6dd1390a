---------------------------- MODULE DraftStore ----------------------------
(***************************************************************************)
(* What workspaces promise their owner: every workspace has a draft, the   *)
(* set of edits made in it.  A draft changes when the owner edits files of *)
(* the workspace or goes back to an earlier version of the draft, and by   *)
(* nothing else: opening, closing, moving and archiving a workspace, and   *)
(* taking snapshots of it, are invisible here.                             *)
(***************************************************************************)
CONSTANTS Workspace, Edit

VARIABLES draft,    \* the edits in each workspace's draft
          versions  \* the drafts that each workspace can go back to

EmptyDraft == {}

Init ==
    /\ draft = [w \in Workspace |-> EmptyDraft]
    /\ versions = [w \in Workspace |-> {}]

Write(w, e) ==
    /\ draft' = [draft EXCEPT ![w] = @ \union {e}]
    /\ UNCHANGED versions

(* A version is only ever taken from the draft as it is at that moment.    *)
Remember(w) ==
    /\ versions' = [versions EXCEPT ![w] = @ \union {draft[w]}]
    /\ UNCHANGED draft

GoBack(w, old) ==
    /\ old \in versions[w]
    /\ draft' = [draft EXCEPT ![w] = old]
    /\ UNCHANGED versions

Next ==
    \E w \in Workspace :
        \/ \E e \in Edit : Write(w, e)
        \/ Remember(w)
        \/ \E old \in versions[w] : GoBack(w, old)

Spec == Init /\ [][Next]_<<draft, versions>>
=============================================================================
