------------------------------- MODULE Statuses -------------------------------
(***************************************************************************)
(* Builds, their statuses and the check before a landing (ci/service,      *)
(* buildkite, statuses, workspaces/statuses and the first half of          *)
(* LandChange).                                                            *)
(*                                                                         *)
(* A trigger commits to the "ci" repository of the codebase, starts one    *)
(* build after another at Buildkite and sets a pending status for each.    *)
(* Buildkite tells of builds in webhooks, which come in any order; a       *)
(* status row gets the time when its webhook came.  A draft may land when  *)
(* the newest statuses of its snapshots are healthy and are about its      *)
(* latest snapshot.                                                        *)
(*                                                                         *)
(* A snapshot is named by the version of the files it holds; a landed      *)
(* change is the target Change.  How messages reach the runner that        *)
(* triggers the builds of a change is in BuildQueue; jobs of a build and   *)
(* statuses from GitHub are left out.                                      *)
(***************************************************************************)
EXTENDS Naturals, Sequences

CONSTANTS Actor,       \* goroutines that trigger builds
          Title,       \* integrations; builds are titled like their pipeline
          MaxEdits,    \* bound: versions of the files
          MaxBuilds,   \* bound: builds at Buildkite
          MaxTriggers, \* bound: triggers
          MaxFaults    \* bound: failures and changed integrations

ASSUME StatusesAssumption ==
    {MaxEdits, MaxBuilds, MaxTriggers, MaxFaults} \subseteq Nat /\ MaxEdits > 0

VARIABLES files,     \* the version of the files in the view
          latest,    \* the latest snapshot of the draft, 0 if none
          onView,    \* the draft is open on the view
          integ,     \* rows of integrations, and whether they have a config
          ci,        \* commits of the ci repository, and their rows
          builds,    \* builds at Buildkite
          hooks,     \* webhooks on their way
          shown,     \* the newest row of statuses, per commit and title
          last,      \* the snapshot that the newest row of all is about
          pc, loc,   \* triggers, and their locals
          land,      \* the landing of the draft
          triggers, faults,
          disturbed  \* history: a row is newer than one about a later event

vars == <<files, latest, onView, integ, ci, builds, hooks, shown, last, pc, loc,
          land, triggers, faults, disturbed>>

draft    == <<files, latest, onView>>
statuses == <<shown, last, disturbed>>
trigger  == <<pc, loc, triggers>>
provider == <<builds, hooks>>

Change  == 0
Version == 0..MaxEdits
Type    == {"pending", "healthy", "failing"}
Build   == [target : Version, integ : Title, ci : Nat, st : {"scheduled", "running", "passed", "failed"}]
Hook    == [build : 1..MaxBuilds, type : Type]
Landing == [pc : {"no", "check", "land", "landed"}, latest : Version,
            onView : BOOLEAN, seen : SUBSET Title, v : Version]
Local   == [target : Version, ci : Nat, todo : SUBSET Title, build : 0..MaxBuilds]

NoLocal == [target |-> 0, ci |-> 0, todo |-> {}, build |-> 0]
NoLand  == [pc |-> "no", latest |-> 0, onView |-> FALSE, seen |-> {}, v |-> 0]

Init ==
    /\ files = 1 /\ latest \in {0, 1} /\ onView \in BOOLEAN
    /\ ~onView => latest = 1
    /\ integ \in [Title -> {"ready", "absent"}] /\ \E i \in Title : integ[i] = "ready"
    /\ ci = <<>> /\ builds = <<>> /\ hooks = {}
    /\ shown = [t \in Version |-> [i \in Title |-> "none"]] /\ last = 0
    /\ pc = [a \in Actor |-> "idle"] /\ loc = [a \in Actor |-> NoLocal]
    /\ land = NoLand /\ triggers = 0 /\ faults = 0 /\ disturbed = {}

Fault == faults < MaxFaults /\ faults' = faults + 1

-----------------------------------------------------------------------------
(* The draft.  Whether it is open on a view does not change here.          *)

Edit ==
    /\ onView /\ land.pc # "landed" /\ files < MaxEdits /\ files' = files + 1
    /\ UNCHANGED <<latest, onView, integ, ci, provider, statuses, trigger, land, faults>>

Snapshot ==
    /\ onView /\ land.pc # "landed" /\ latest # files /\ latest' = files
    /\ UNCHANGED <<files, onView, integ, ci, provider, statuses, trigger, land, faults>>

-----------------------------------------------------------------------------
(* Integrations.                                                           *)

(* The row is inserted first, its configuration second.                    *)
CreateIntegration(i) ==
    /\ \/ integ[i] = "absent" /\ Fault /\ integ' = [integ EXCEPT ![i] = "bare"]
       \/ integ[i] = "bare" /\ integ' = [integ EXCEPT ![i] = "ready"] /\ UNCHANGED faults
    /\ UNCHANGED <<draft, ci, provider, statuses, trigger, land>>

Delete(i) ==
    /\ integ[i] \in {"bare", "ready"} /\ Fault
    /\ integ' = [integ EXCEPT ![i] = "deleted"]
    /\ UNCHANGED <<draft, ci, provider, statuses, trigger, land>>

(* In no order that the query asks for.                                    *)
ListByCodebaseID == {i \in Title : integ[i] \in {"bare", "ready"}}

-----------------------------------------------------------------------------
(* TriggerWorkspace and TriggerChange.                                     *)

Goto(a, l) == pc' = [pc EXCEPT ![a] = l]
Done(a)    == Goto(a, "idle") /\ loc' = [loc EXCEPT ![a] = NoLocal]

Start(a, target) ==
    /\ pc[a] = "idle" /\ triggers < MaxTriggers /\ triggers' = triggers + 1
    /\ loc' = [loc EXCEPT ![a] = [NoLocal EXCEPT !.target = target,
                                                 !.todo = ListByCodebaseID]]
    /\ Goto(a, "commit")
    /\ UNCHANGED <<draft, integ, ci, provider, statuses, land, faults>>

TriggerWorkspace(a) == latest # 0 /\ land.pc # "landed" /\ Start(a, latest)
TriggerChange(a)    == land.pc = "landed" /\ Start(a, Change)

(* A commit with the seed files, the metadata and the download script ...  *)
Commit(a) ==
    /\ pc[a] = "commit" /\ Goto(a, "record")
    /\ ci' = Append(ci, [target |-> loc[a].target, recorded |-> FALSE])
    /\ loc' = [loc EXCEPT ![a].ci = Len(ci) + 1]
    /\ UNCHANGED <<draft, integ, provider, statuses, land, triggers, faults>>

(* On to the next integration.                                             *)
Continue(a, todo) ==
    IF todo = {} THEN Done(a)
    ELSE Goto(a, "build") /\ loc' = [loc EXCEPT ![a].todo = todo, ![a].build = 0]

(* Mutant: the row is left out.                                            *)
Record_Not(a) ==
    /\ pc[a] = "record" /\ Continue(a, loc[a].todo)
    /\ UNCHANGED <<draft, integ, ci, provider, statuses, land, triggers, faults>>

(* ... whose row says which commit it was made of.                         *)
Record(a) ==
    /\ pc[a] = "record" /\ Continue(a, loc[a].todo)
    /\ ci' = [ci EXCEPT ![loc[a].ci].recorded = TRUE]
    /\ UNCHANGED <<draft, integ, provider, statuses, land, triggers, faults>>

(* An integration without a configuration ends the trigger.                *)
CreateBuild(a) ==
    /\ pc[a] = "build"
    /\ \E i \in loc[a].todo :
         IF integ[i] = "bare" THEN Done(a) /\ UNCHANGED builds
         ELSE /\ Len(builds) < MaxBuilds
              /\ builds' = Append(builds, [target |-> loc[a].target, integ |-> i,
                                           ci |-> loc[a].ci, st |-> "scheduled"])
              /\ loc' = [loc EXCEPT ![a].build = Len(builds) + 1, ![a].todo = @ \ {i}]
              /\ Goto(a, "pending")
    /\ UNCHANGED <<draft, integ, ci, hooks, statuses, land, triggers, faults>>

(* A row about build b is written with the time of now.                    *)
Set(b, type) ==
    LET t == builds[b].target  i == builds[b].integ IN
    /\ shown' = [shown EXCEPT ![t][i] = type]
    /\ last' = IF t = Change THEN last ELSE t

(* Has the end of this build, or of a later one of its commit and title,   *)
(* been told of already?                                                   *)
Finished(b) == builds[b].st \in {"passed", "failed"}
Told(b)     == Finished(b) /\ \A h \in hooks : h.build = b => h.type = "pending"
Same(b, d)  == builds[b].target = builds[d].target /\ builds[b].integ = builds[d].integ
Late(b, type) == \E d \in b..Len(builds) :
                     Same(b, d) /\ Told(d) /\ (d > b \/ type = "pending")

Mark(b, type) == disturbed' = IF Late(b, type)
                              THEN disturbed \union {<<builds[b].target, builds[b].integ>>}
                              ELSE disturbed

SetPending(a) ==
    /\ pc[a] = "pending" /\ Set(loc[a].build, "pending") /\ Mark(loc[a].build, "pending")
    /\ Continue(a, loc[a].todo)
    /\ UNCHANGED <<draft, integ, ci, provider, land, triggers, faults>>

(* What was done so far stays; a build may have been started unseen.       *)
TriggerFails(a) ==
    /\ pc[a] # "idle" /\ Done(a) /\ Fault
    /\ UNCHANGED <<draft, integ, ci, provider, statuses, land, triggers>>

Step(a) == Commit(a) \/ Record(a) \/ CreateBuild(a) \/ SetPending(a)

-----------------------------------------------------------------------------
(* Buildkite.                                                              *)

Tells(b, type) == hooks' = hooks \union {[build |-> b, type |-> type]}

Run(b) ==
    /\ builds[b].st = "scheduled" /\ Tells(b, "pending")
    /\ builds' = [builds EXCEPT ![b].st = "running"]
    /\ UNCHANGED <<draft, integ, ci, statuses, trigger, land, faults>>

(* It passes or is skipped, or it fails or is cancelled.                   *)
Finish(b, pass) ==
    /\ builds[b].st = "running" /\ Tells(b, IF pass THEN "healthy" ELSE "failing")
    /\ builds' = [builds EXCEPT ![b].st = IF pass THEN "passed" ELSE "failed"]
    /\ UNCHANGED <<draft, integ, ci, statuses, trigger, land, faults>>

(* WebhookHandler: GetTrunkCommitSHA finds the row of the ci commit, or    *)
(* the webhook is refused.                                                 *)
Webhook(h) ==
    /\ h \in hooks /\ hooks' = hooks \ {h}
    /\ IF ci[builds[h.build].ci].recorded
       THEN Set(h.build, h.type) /\ Mark(h.build, h.type)
       ELSE UNCHANGED statuses
    /\ UNCHANGED <<draft, integ, ci, builds, trigger, land, faults>>

(* A webhook is lost, or comes too late for its signature.                 *)
LoseWebhook(h) ==
    /\ h \in hooks /\ hooks' = hooks \ {h} /\ Fault
    /\ disturbed' = disturbed \union {<<builds[h.build].target, builds[h.build].integ>>}
    /\ UNCHANGED <<draft, integ, ci, builds, shown, last, trigger, land>>

-----------------------------------------------------------------------------
(* LandChange works on the row of the draft that its request has read.     *)

StartLand ==
    /\ land.pc = "no" /\ (onView \/ latest # 0)
    /\ land' = [NoLand EXCEPT !.pc = "check", !.latest = latest, !.onView = onView]
    /\ UNCHANGED <<draft, integ, ci, provider, statuses, trigger, faults>>

(* ListByWorkspaceID: the rows about the snapshot of the newest row.       *)
Listed == IF last = 0 THEN {} ELSE {i \in Title : shown[last][i] # "none"}

(* Mutant: the statuses of an older snapshot will do.                      *)
StatusIsStale_Never(ws) == FALSE

StatusIsStale(ws) == ws.latest # 0 /\ last # ws.latest

HealthyStatus(ws) ==
    /\ Listed # {} /\ \A i \in Listed : shown[last][i] = "healthy"
    /\ ~StatusIsStale(ws)

Check ==
    /\ land.pc = "check"
    /\ land' = IF HealthyStatus(land) THEN [land EXCEPT !.pc = "land", !.seen = Listed]
               ELSE NoLand
    /\ UNCHANGED <<draft, integ, ci, provider, statuses, trigger, faults>>

(* The files of the view land, or else the snapshot.                       *)
Land ==
    /\ land.pc = "land"
    /\ land' = [land EXCEPT !.pc = "landed", !.v = IF land.onView THEN files ELSE land.latest]
    /\ UNCHANGED <<draft, integ, ci, provider, statuses, trigger, faults>>

Next ==
    \/ Edit \/ Snapshot \/ StartLand \/ Check \/ Land
    \/ \E i \in Title : CreateIntegration(i) \/ Delete(i)
    \/ \E a \in Actor : TriggerWorkspace(a) \/ TriggerChange(a) \/ Step(a) \/ TriggerFails(a)
    \/ \E b \in DOMAIN builds : Run(b) \/ \E pass \in BOOLEAN : Finish(b, pass)
    \/ \E h \in hooks : Webhook(h) \/ LoseWebhook(h)

Spec == Init /\ [][Next]_vars

-----------------------------------------------------------------------------
(* Properties.                                                             *)

TypeOK ==
    /\ files \in Version /\ latest \in Version /\ onView \in BOOLEAN
    /\ integ \in [Title -> {"absent", "bare", "ready", "deleted"}]
    /\ ci \in Seq([target : Version, recorded : BOOLEAN])
    /\ builds \in Seq(Build) /\ Len(builds) <= MaxBuilds /\ hooks \subseteq Hook
    /\ shown \in [Version -> [Title -> Type \union {"none"}]] /\ last \in Version
    /\ pc \in [Actor -> {"idle", "commit", "record", "build", "pending"}]
    /\ loc \in [Actor -> Local] /\ land \in Landing
    /\ triggers \in 0..MaxTriggers /\ faults \in 0..MaxFaults
    /\ disturbed \subseteq (Version \X Title)

Passed(v, i) == \E b \in DOMAIN builds : /\ builds[b].target = v /\ builds[b].integ = i
                                         /\ builds[b].st = "passed"

(* "make sure that all statuses are healthy and not stale" (LandChange):   *)
(* when what lands is what the latest snapshot held, each integration that *)
(* had told of it has passed it, whatever webhooks, triggers, edits and    *)
(* failures come between the check and the landing.                        *)
LandedWasBuilt ==
    (land.pc = "landed" /\ land.v = land.latest) =>
        land.seen # {} /\ \A i \in land.seen : Passed(land.v, i)

(* When the last build of a commit with an integration is over and all has *)
(* been told of in order, its status is shown: each webhook finds out      *)
(* which commit it is about, and no pending status covers it up.           *)
OutcomeShown ==
    \A b \in DOMAIN builds :
        LET t == builds[b].target  i == builds[b].integ IN
        (/\ Finished(b) /\ <<t, i>> \notin disturbed
         /\ \A h \in hooks : h.build # b
         /\ \A a \in Actor : loc[a].build # b
         /\ \A d \in (b + 1)..Len(builds) : ~Same(b, d))
            => shown[t][i] = IF builds[b].st = "passed" THEN "healthy" ELSE "failing"
=============================================================================
