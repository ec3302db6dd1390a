---------------------------- MODULE StatusesProofs ----------------------------
(***************************************************************************)
(* What the statuses of builds say, for any number of goroutines,          *)
(* integrations, builds, edits and failures, with webhooks in any order.   *)
(*                                                                         *)
(* Recorded says that the row of a ci commit is there before a build of    *)
(* it; HooksOK and ShownOK, that nothing is called healthy that has not    *)
(* passed; ToldOK, that an outcome that was told of in order stays shown.  *)
(***************************************************************************)
EXTENDS Statuses, SequenceTheorems, TLAPS

-----------------------------------------------------------------------------
(* A build is of a ci commit that webhooks can be matched with.            *)
Recorded ==
    /\ \A a \in Actor :
          /\ pc[a] \in {"record", "build", "pending"} => loc[a].ci \in DOMAIN ci
          /\ pc[a] \in {"build", "pending"} => ci[loc[a].ci].recorded
          /\ pc[a] = "pending" => loc[a].build \in DOMAIN builds
    /\ \A b \in DOMAIN builds : builds[b].ci \in DOMAIN ci /\ ci[builds[b].ci].recorded

Is(b, st) == builds[b].st = st

HooksOK ==
    \A h \in hooks :
        /\ h.build \in DOMAIN builds
        /\ h.type = "healthy" => Is(h.build, "passed")
        /\ h.type = "failing" => Is(h.build, "failed")

ShownOK == \A t \in Version, i \in Title : shown[t][i] = "healthy" => Passed(t, i)

LandOK ==
    /\ files # 0
    /\ land.pc # "no" => land.onView \/ land.latest # 0
    /\ land.pc \in {"land", "landed"} =>
          land.seen # {} /\ \A i \in land.seen : land.latest # 0 => Passed(land.latest, i)
    /\ land.pc = "landed" /\ land.onView => land.v # 0
    /\ land.pc = "landed" /\ ~land.onView => land.v = land.latest

Newest(b)  == \A d \in (b + 1)..Len(builds) : ~Same(b, d)
Outcome(b) == IF builds[b].st = "passed" THEN "healthy" ELSE "failing"
InOrder(b) == <<builds[b].target, builds[b].integ>> \notin disturbed

ToldOK ==
    \A b \in DOMAIN builds :
        Told(b) /\ Newest(b) /\ InOrder(b) =>
            shown[builds[b].target][builds[b].integ] = Outcome(b)

-----------------------------------------------------------------------------
(* Builds and ci commits stay, and so does an outcome.                     *)

BuildsStay ==
    /\ Len(builds) <= Len(builds')
    /\ \A b \in DOMAIN builds :
          /\ b \in DOMAIN builds'
          /\ builds'[b].target = builds[b].target /\ builds'[b].integ = builds[b].integ
          /\ builds'[b].ci = builds[b].ci
          /\ Finished(b) => builds'[b].st = builds[b].st
    /\ \A b \in DOMAIN builds' \ DOMAIN builds : builds'[b].st = "scheduled"

CommitsStay ==
    /\ Len(ci) <= Len(ci')
    /\ \A c \in DOMAIN ci : c \in DOMAIN ci' /\ (ci[c].recorded => ci'[c].recorded)

Row == [target : Version, recorded : BOOLEAN]

LEMMA InSeq ==
    ASSUME NEW S, NEW s \in Seq(S), NEW n \in DOMAIN s
    PROVE  /\ s[n] \in S
           /\ \A e \in S :
                 /\ [s EXCEPT ![n] = e] \in Seq(S) /\ Len([s EXCEPT ![n] = e]) = Len(s)
                 /\ DOMAIN [s EXCEPT ![n] = e] = DOMAIN s
                 /\ [s EXCEPT ![n] = e][n] = e
                 /\ \A m \in DOMAIN s : m # n => [s EXCEPT ![n] = e][m] = s[m]
  OBVIOUS

LEMMA Lengths ==
    ASSUME TypeOK
    PROVE  /\ Len(builds) \in 0..MaxBuilds /\ DOMAIN builds = 1..Len(builds)
           /\ Len(ci) \in Nat /\ DOMAIN ci = 1..Len(ci)
           /\ \A b \in DOMAIN builds : builds[b] \in Build
           /\ ci \in Seq(Row) /\ \A c \in DOMAIN ci : ci[c] \in Row
           /\ MaxEdits \in Nat /\ MaxBuilds \in Nat /\ MaxTriggers \in Nat /\ MaxFaults \in Nat
<1>1. ci \in Seq(Row)
  BY DEF TypeOK, Row
<1>2. \A c \in DOMAIN ci : ci[c] \in Row
  BY <1>1, InSeq
<1>. QED BY <1>1, <1>2, StatusesAssumption DEF TypeOK

(* A build that is added, and a build that goes on.                        *)
LEMMA AddBuild ==
    ASSUME TypeOK, NEW build \in Build, build.st = "scheduled", builds' = Append(builds, build)
    PROVE  /\ BuildsStay
           /\ builds' \in Seq(Build) /\ Len(builds') = Len(builds) + 1
           /\ DOMAIN builds' = 1..Len(builds') /\ builds'[Len(builds) + 1] = build
           /\ \A b \in DOMAIN builds : builds'[b] = builds[b]
<1>1. builds \in Seq(Build)
  BY DEF TypeOK
<1>2. /\ builds' \in Seq(Build) /\ Len(builds') = Len(builds) + 1
      /\ DOMAIN builds' = 1..Len(builds') /\ builds'[Len(builds) + 1] = build
      /\ \A b \in DOMAIN builds : builds'[b] = builds[b]
  BY <1>1
<1>. QED BY <1>1, <1>2 DEF BuildsStay

LEMMA ChangeBuild ==
    ASSUME TypeOK, NEW b \in DOMAIN builds, NEW st \in {"running", "passed", "failed"},
           ~Finished(b), builds' = [builds EXCEPT ![b].st = st]
    PROVE  /\ BuildsStay
           /\ builds' \in Seq(Build) /\ Len(builds') = Len(builds)
           /\ DOMAIN builds' = DOMAIN builds /\ builds'[b].st = st
           /\ \A d \in DOMAIN builds : d # b => builds'[d] = builds[d]
<1>1. builds \in Seq(Build) /\ builds[b] \in Build
  BY Lengths DEF TypeOK
<1>2. builds' = [builds EXCEPT ![b] = [builds[b] EXCEPT !.st = st]]
      /\ [builds[b] EXCEPT !.st = st] \in Build
  BY <1>1 DEF Build
<1>3. /\ builds' \in Seq(Build) /\ Len(builds') = Len(builds) /\ DOMAIN builds' = DOMAIN builds
      /\ \A d \in DOMAIN builds : d # b => builds'[d] = builds[d]
      /\ builds'[b] = [builds[b] EXCEPT !.st = st]
  BY <1>1, <1>2
<1>. QED BY <1>1, <1>3 DEF BuildsStay, Finished, Build

LEMMA NoBuild ==
    ASSUME TypeOK, builds' = builds
    PROVE  BuildsStay
  BY Lengths DEF BuildsStay

LEMMA AddCommit ==
    ASSUME TypeOK, NEW t \in Version, ci' = Append(ci, [target |-> t, recorded |-> FALSE])
    PROVE  CommitsStay /\ ci' \in Seq(Row) /\ Len(ci) + 1 \in DOMAIN ci'
<1>. DEFINE new == [target |-> t, recorded |-> FALSE]
<1>1. new \in Row /\ ci' = Append(ci, new)
  BY DEF Row
<1>. HIDE DEF new
<1>. QED BY <1>1, Lengths DEF CommitsStay

LEMMA RecordCommit ==
    ASSUME TypeOK, NEW c \in DOMAIN ci, ci' = [ci EXCEPT ![c].recorded = TRUE]
    PROVE  CommitsStay /\ ci' \in Seq(Row) /\ ci'[c].recorded
<1>. DEFINE new == [ci[c] EXCEPT !.recorded = TRUE]
<1>1. ci[c] \in Row
  BY Lengths
<1>2. new \in Row /\ new.recorded
  BY <1>1 DEF Row
<1>3. ci' = [ci EXCEPT ![c] = new]
  OBVIOUS
<1>. HIDE DEF new
<1>4. ci \in Seq(Row) /\ c \in DOMAIN ci
  BY Lengths
<1>5. /\ [ci EXCEPT ![c] = new] \in Seq(Row)
      /\ Len([ci EXCEPT ![c] = new]) = Len(ci)
      /\ DOMAIN [ci EXCEPT ![c] = new] = DOMAIN ci
      /\ [ci EXCEPT ![c] = new][c] = new
      /\ \A m \in DOMAIN ci : m # c => [ci EXCEPT ![c] = new][m] = ci[m]
  BY <1>2, <1>4, InSeq
<1>6. /\ ci' \in Seq(Row) /\ Len(ci') = Len(ci) /\ DOMAIN ci' = DOMAIN ci /\ ci'[c].recorded
      /\ \A d \in DOMAIN ci : d # c => ci'[d].recorded = ci[d].recorded
  BY <1>2, <1>3, <1>5
<1>7. CommitsStay
  BY <1>6, Lengths DEF CommitsStay
<1>. QED BY <1>6, <1>7

LEMMA NoCommit ==
    ASSUME TypeOK, ci' = ci
    PROVE  CommitsStay
  BY Lengths DEF CommitsStay

-----------------------------------------------------------------------------
(* Types, and what a trigger holds.                                        *)

Sound == TypeOK /\ Recorded /\ HooksOK

(* The builds and webhooks there are stay right, and so do triggers.       *)
LEMMA RecordedStays ==
    ASSUME Recorded, BuildsStay, CommitsStay,
           \A b \in DOMAIN builds' \ DOMAIN builds :
               builds'[b].ci \in DOMAIN ci /\ ci[builds'[b].ci].recorded,
           \A a \in Actor :
               \/ pc'[a] = pc[a] /\ loc'[a] = loc[a]
               \/ /\ pc'[a] \in {"record", "build", "pending"} => loc'[a].ci \in DOMAIN ci'
                  /\ pc'[a] \in {"build", "pending"} => ci'[loc'[a].ci].recorded
                  /\ pc'[a] = "pending" => loc'[a].build \in DOMAIN builds'
    PROVE  Recorded'
<1>1. ASSUME NEW a \in Actor
      PROVE  /\ pc'[a] \in {"record", "build", "pending"} => loc'[a].ci \in DOMAIN ci'
             /\ pc'[a] \in {"build", "pending"} => ci'[loc'[a].ci].recorded
             /\ pc'[a] = "pending" => loc'[a].build \in DOMAIN builds'
  BY DEF Recorded, BuildsStay, CommitsStay
<1>2. ASSUME NEW b \in DOMAIN builds'
      PROVE  builds'[b].ci \in DOMAIN ci' /\ ci'[builds'[b].ci].recorded
  BY DEF Recorded, BuildsStay, CommitsStay
<1>. QED BY <1>1, <1>2 DEF Recorded

LEMMA HooksStay ==
    ASSUME HooksOK, BuildsStay, hooks' \subseteq hooks
    PROVE  HooksOK'
  BY DEF HooksOK, BuildsStay, Finished, Is

(* A row about a build.                                                    *)
LEMMA SetType ==
    ASSUME TypeOK, NEW b \in DOMAIN builds, NEW type \in Type, Set(b, type), Mark(b, type)
    PROVE  /\ shown' \in [Version -> [Title -> Type \union {"none"}]] /\ last' \in Version
           /\ disturbed' \subseteq (Version \X Title)
           /\ \A t \in Version, i \in Title :
                 shown'[t][i] = IF t = builds[b].target /\ i = builds[b].integ
                                THEN type ELSE shown[t][i]
<1>1. builds[b].target \in Version /\ builds[b].integ \in Title
  BY Lengths DEF Build
<1>. QED BY <1>1 DEF Set, Mark, TypeOK

LEMMA LocType ==
    ASSUME TypeOK, NEW a \in Actor
    PROVE  /\ loc[a].target \in Version /\ loc[a].ci \in Nat
           /\ loc[a].todo \subseteq Title /\ loc[a].build \in 0..MaxBuilds
           /\ loc[a] \in Local
  BY DEF TypeOK, Local

(* A goroutine moves on.                                                   *)
LEMMA MoveType ==
    ASSUME TypeOK, NEW a \in Actor, NEW l \in {"idle", "commit", "record", "build", "pending"},
           NEW row \in Local, pc' = [pc EXCEPT ![a] = l], loc' = [loc EXCEPT ![a] = row]
    PROVE  /\ pc' \in [Actor -> {"idle", "commit", "record", "build", "pending"}]
           /\ loc' \in [Actor -> Local]
           /\ pc'[a] = l /\ loc'[a] = row
           /\ \A o \in Actor : o # a => pc'[o] = pc[o] /\ loc'[o] = loc[o]
  BY DEF TypeOK

LEMMA ContinueMoves ==
    ASSUME TypeOK, NEW a \in Actor, Continue(a, loc[a].todo)
    PROVE  \E l \in {"idle", "build"}, row \in Local :
               /\ pc' = [pc EXCEPT ![a] = l] /\ loc' = [loc EXCEPT ![a] = row]
               /\ l = "build" => row.ci = loc[a].ci
<1>1. CASE loc[a].todo = {}
  <2>1. pc' = [pc EXCEPT ![a] = "idle"] /\ loc' = [loc EXCEPT ![a] = NoLocal]
    BY <1>1 DEF Continue, Done, Goto
  <2>2. NoLocal \in Local
    BY Lengths, StatusesAssumption DEF NoLocal, Local, Version
  <2>. QED BY <2>1, <2>2
<1>2. CASE loc[a].todo # {}
  <2>. DEFINE row == [target |-> loc[a].target, ci |-> loc[a].ci, todo |-> loc[a].todo, build |-> 0]
  <2>1. row \in Local /\ row.ci = loc[a].ci
    BY LocType, Lengths DEF Local
  <2>2. pc' = [pc EXCEPT ![a] = "build"] /\ loc' = [loc EXCEPT ![a] = row]
    BY <1>2, LocType DEF Continue, Goto, Local
  <2>. HIDE DEF row
  <2>. QED BY <2>1, <2>2
<1>. QED BY <1>1, <1>2

LEMMA DoneMoves ==
    ASSUME TypeOK, NEW a \in Actor, Done(a)
    PROVE  /\ pc' = [pc EXCEPT ![a] = "idle"] /\ loc' = [loc EXCEPT ![a] = NoLocal]
           /\ NoLocal \in Local
  BY Lengths DEF Done, Goto, NoLocal, Local, Version

LEMMA SoundNext ==
    ASSUME Sound, [Next]_vars
    PROVE  Sound' /\ BuildsStay /\ CommitsStay
<1>. USE DEF draft, statuses, trigger, provider
<1>1. TypeOK /\ Recorded /\ HooksOK
  BY DEF Sound
<1>2. ASSUME UNCHANGED <<ci, builds, pc, loc>>, hooks' \subseteq hooks
      PROVE  Recorded' /\ HooksOK' /\ BuildsStay /\ CommitsStay
  <2>1. BuildsStay /\ CommitsStay
    BY <1>1, <1>2, NoBuild, NoCommit
  <2>. QED BY <1>1, <1>2, <2>1, RecordedStays, HooksStay
<1>3. CASE UNCHANGED vars
  <2>1. TypeOK'
    BY <1>1, <1>3 DEF vars, TypeOK
  <2>. QED BY <1>2, <1>3, <2>1 DEF vars, Sound
<1>4. CASE Edit \/ Snapshot \/ StartLand \/ Check \/ Land
  <2>1. UNCHANGED <<integ, ci, builds, hooks, shown, last, disturbed, pc, loc, triggers, faults>>
    BY <1>4 DEF Edit, Snapshot, StartLand, Check, Land
  <2>2. files' \in Version /\ latest' \in Version /\ onView' \in BOOLEAN
    BY <1>1, <1>4, Lengths DEF Edit, Snapshot, StartLand, Check, Land, TypeOK, Version
  <2>3. land' \in Landing
    <3>1. land \in Landing /\ NoLand \in Landing /\ Listed \subseteq Title
      BY <1>1, Lengths DEF TypeOK, NoLand, Landing, Version, Listed
    <3>2. CASE Edit \/ Snapshot
      BY <3>1, <3>2 DEF Edit, Snapshot
    <3>3. CASE StartLand
      BY <1>1, <3>1, <3>3 DEF StartLand, NoLand, Landing, TypeOK
    <3>4. CASE Check
      BY <3>1, <3>4 DEF Check, Landing
    <3>5. CASE Land
      BY <1>1, <3>1, <3>5 DEF Land, Landing, TypeOK
    <3>. QED BY <1>4, <3>2, <3>3, <3>4, <3>5
  <2>4. TypeOK'
    BY <1>1, <2>1, <2>2, <2>3 DEF TypeOK
  <2>. QED BY <1>2, <2>1, <2>4 DEF Sound
<1>5. ASSUME NEW i \in Title, CreateIntegration(i) \/ Delete(i)
      PROVE  Sound' /\ BuildsStay /\ CommitsStay
  <2>1. UNCHANGED <<files, latest, onView, ci, builds, hooks, shown, last, disturbed, pc, loc,
                    triggers, land>>
        /\ faults' \in {faults, faults + 1} /\ faults' <= MaxFaults
    BY <1>1, <1>5, Lengths DEF CreateIntegration, Delete, Fault, TypeOK
  <2>2. integ' \in [Title -> {"absent", "bare", "ready", "deleted"}]
    BY <1>1, <1>5 DEF CreateIntegration, Delete, TypeOK
  <2>3. TypeOK'
    BY <1>1, <2>1, <2>2, Lengths DEF TypeOK
  <2>. QED BY <1>2, <2>1, <2>3 DEF Sound
<1>6. ASSUME NEW a \in Actor, TriggerWorkspace(a) \/ TriggerChange(a)
      PROVE  Sound' /\ BuildsStay /\ CommitsStay
  <2>1. PICK target \in Version : Start(a, target)
    BY <1>1, <1>6, Lengths DEF TriggerWorkspace, TriggerChange, TypeOK, Change, Version
  <2>. DEFINE row == [NoLocal EXCEPT !.target = target, !.todo = ListByCodebaseID]
  <2>2. row \in Local
    <3>1. NoLocal \in Local /\ ListByCodebaseID \in SUBSET Title
      BY <1>1, Lengths DEF NoLocal, Local, ListByCodebaseID, Version
    <3>. QED BY <3>1 DEF Local
  <2>3. /\ pc' = [pc EXCEPT ![a] = "commit"] /\ loc' = [loc EXCEPT ![a] = row]
        /\ triggers' \in 0..MaxTriggers
        /\ UNCHANGED <<draft, integ, ci, provider, statuses, land, faults>>
    <3>1. pc' = [pc EXCEPT ![a] = "commit"] /\ loc' = [loc EXCEPT ![a] = row]
      BY <2>1 DEF Start, Goto
    <3>2. triggers' \in 0..MaxTriggers
      BY <1>1, <2>1, Lengths DEF Start, TypeOK
    <3>. QED BY <2>1, <3>1, <3>2 DEF Start
  <2>. HIDE DEF row
  <2>4. /\ pc' \in [Actor -> {"idle", "commit", "record", "build", "pending"}]
        /\ loc' \in [Actor -> Local] /\ pc'[a] = "commit"
        /\ \A o \in Actor : o # a => pc'[o] = pc[o] /\ loc'[o] = loc[o]
    BY <1>1, <2>2, <2>3, MoveType
  <2>5. TypeOK'
    BY <1>1, <2>3, <2>4 DEF TypeOK
  <2>6. BuildsStay /\ CommitsStay
    BY <1>1, <2>3, NoBuild, NoCommit
  <2>7. Recorded'
    BY <1>1, <2>3, <2>4, <2>6, RecordedStays
  <2>. QED BY <1>1, <2>3, <2>5, <2>6, <2>7, HooksStay DEF Sound
<1>7. ASSUME NEW a \in Actor, Commit(a)
      PROVE  Sound' /\ BuildsStay /\ CommitsStay
  <2>. DEFINE row == [loc[a] EXCEPT !.ci = Len(ci) + 1]
  <2>1. row \in Local /\ row.ci = Len(ci) + 1
    BY <1>1, LocType, Lengths DEF Local
  <2>2. /\ pc' = [pc EXCEPT ![a] = "record"] /\ loc' = [loc EXCEPT ![a] = row]
        /\ ci' = Append(ci, [target |-> loc[a].target, recorded |-> FALSE])
        /\ UNCHANGED <<draft, integ, provider, statuses, land, triggers, faults>>
    BY <1>1, <1>7 DEF Commit, Goto, TypeOK
  <2>. HIDE DEF row
  <2>3. /\ pc' \in [Actor -> {"idle", "commit", "record", "build", "pending"}]
        /\ loc' \in [Actor -> Local] /\ pc'[a] = "record" /\ loc'[a] = row
        /\ \A o \in Actor : o # a => pc'[o] = pc[o] /\ loc'[o] = loc[o]
    BY <1>1, <2>1, <2>2, MoveType
  <2>4. CommitsStay /\ ci' \in Seq(Row) /\ Len(ci) + 1 \in DOMAIN ci'
    BY <1>1, <2>2, LocType, AddCommit
  <2>5. TypeOK'
    BY <1>1, <2>2, <2>3, <2>4 DEF TypeOK, Row
  <2>6. BuildsStay
    BY <1>1, <2>2, NoBuild
  <2>7. Recorded'
    BY <1>1, <2>1, <2>2, <2>3, <2>4, <2>6, RecordedStays
  <2>. QED BY <1>1, <2>2, <2>4, <2>5, <2>6, <2>7, HooksStay DEF Sound
<1>8. ASSUME NEW a \in Actor, Record(a)
      PROVE  Sound' /\ BuildsStay /\ CommitsStay
  <2>1. /\ Continue(a, loc[a].todo) /\ loc[a].ci \in DOMAIN ci
        /\ ci' = [ci EXCEPT ![loc[a].ci].recorded = TRUE]
        /\ UNCHANGED <<draft, integ, provider, statuses, land, triggers, faults>>
    BY <1>1, <1>8 DEF Record, Recorded
  <2>2. PICK l \in {"idle", "build"}, row \in Local :
               /\ pc' = [pc EXCEPT ![a] = l] /\ loc' = [loc EXCEPT ![a] = row]
               /\ l = "build" => row.ci = loc[a].ci
    BY <1>1, <2>1, ContinueMoves
  <2>3. /\ pc' \in [Actor -> {"idle", "commit", "record", "build", "pending"}]
        /\ loc' \in [Actor -> Local] /\ pc'[a] = l /\ loc'[a] = row
        /\ \A o \in Actor : o # a => pc'[o] = pc[o] /\ loc'[o] = loc[o]
    BY <1>1, <2>2, MoveType
  <2>4. CommitsStay /\ ci' \in Seq(Row) /\ ci'[loc[a].ci].recorded
    BY <1>1, <2>1, RecordCommit
  <2>5. TypeOK'
    BY <1>1, <2>1, <2>3, <2>4 DEF TypeOK, Row
  <2>6. BuildsStay
    BY <1>1, <2>1, NoBuild
  <2>7. loc[a].ci \in DOMAIN ci'
    BY <2>1, <2>4 DEF CommitsStay
  <2>8. Recorded'
    BY <1>1, <2>1, <2>2, <2>3, <2>4, <2>6, <2>7, RecordedStays
  <2>. QED BY <1>1, <2>1, <2>4, <2>5, <2>6, <2>8, HooksStay DEF Sound
<1>9. ASSUME NEW a \in Actor, CreateBuild(a)
      PROVE  Sound' /\ BuildsStay /\ CommitsStay
  <2>1. PICK i \in loc[a].todo :
         IF integ[i] = "bare" THEN Done(a) /\ UNCHANGED builds
         ELSE /\ Len(builds) < MaxBuilds
              /\ builds' = Append(builds, [target |-> loc[a].target, integ |-> i,
                                           ci |-> loc[a].ci, st |-> "scheduled"])
              /\ loc' = [loc EXCEPT ![a].build = Len(builds) + 1, ![a].todo = @ \ {i}]
              /\ Goto(a, "pending")
    BY <1>9 DEF CreateBuild
  <2>2. /\ pc[a] = "build"
        /\ UNCHANGED <<draft, integ, ci, hooks, statuses, land, triggers, faults>>
    BY <1>9 DEF CreateBuild
  <2>3. CommitsStay
    BY <1>1, <2>2, NoCommit
  <2>4. CASE integ[i] = "bare"
    <3>1. /\ pc' \in [Actor -> {"idle", "commit", "record", "build", "pending"}]
          /\ loc' \in [Actor -> Local] /\ pc'[a] = "idle"
          /\ \A o \in Actor : o # a => pc'[o] = pc[o] /\ loc'[o] = loc[o]
      BY <1>1, <2>1, <2>4, DoneMoves, MoveType
    <3>2. TypeOK' /\ BuildsStay
      BY <1>1, <2>1, <2>2, <2>4, <3>1, NoBuild DEF TypeOK
    <3>3. Recorded'
      BY <1>1, <2>1, <2>2, <2>3, <2>4, <3>1, <3>2, RecordedStays
    <3>. QED BY <1>1, <2>2, <2>3, <3>2, <3>3, HooksStay DEF Sound
  <2>5. CASE integ[i] # "bare"
    <3>. DEFINE build == [target |-> loc[a].target, integ |-> i, ci |-> loc[a].ci,
                          st |-> "scheduled"]
                row == [loc[a] EXCEPT !.build = Len(builds) + 1, !.todo = loc[a].todo \ {i}]
    <3>1. /\ build \in Build /\ build.ci = loc[a].ci /\ build.st = "scheduled"
          /\ builds' = Append(builds, build)
      BY <1>1, <2>1, <2>5, LocType DEF Build
    <3>2. row \in Local /\ row.ci = loc[a].ci /\ row.build = Len(builds) + 1
      <4>1. /\ loc[a] \in Local /\ loc[a].todo \ {i} \in SUBSET Title
            /\ Len(builds) + 1 \in 0..MaxBuilds
        BY <1>1, <2>1, <2>5, LocType, Lengths
      <4>. QED BY <4>1 DEF Local
    <3>3. pc' = [pc EXCEPT ![a] = "pending"] /\ loc' = [loc EXCEPT ![a] = row]
      BY <1>1, <2>1, <2>5 DEF Goto, TypeOK
    <3>. HIDE DEF build, row
    <3>4. /\ pc' \in [Actor -> {"idle", "commit", "record", "build", "pending"}]
          /\ loc' \in [Actor -> Local] /\ pc'[a] = "pending" /\ loc'[a] = row
          /\ \A o \in Actor : o # a => pc'[o] = pc[o] /\ loc'[o] = loc[o]
      BY <1>1, <3>2, <3>3, MoveType
    <3>5. /\ BuildsStay /\ builds' \in Seq(Build) /\ Len(builds') = Len(builds) + 1
          /\ DOMAIN builds' = 1..Len(builds') /\ builds'[Len(builds) + 1] = build
      BY <1>1, <3>1, AddBuild
    <3>6. TypeOK'
      <4>1. Len(builds') <= MaxBuilds
        BY <1>1, <2>1, <2>5, <3>5, Lengths
      <4>. QED BY <1>1, <2>2, <3>4, <3>5, <4>1 DEF TypeOK
    <3>7. Recorded'
      <4>1. loc[a].ci \in DOMAIN ci /\ ci[loc[a].ci].recorded
        BY <1>1, <2>2 DEF Recorded
      <4>2. \A b \in DOMAIN builds' \ DOMAIN builds : b = Len(builds) + 1
        BY <1>1, <3>5, Lengths
      <4>3. Len(builds) + 1 \in DOMAIN builds'
        BY <1>1, <3>5, Lengths
      <4>. QED BY <1>1, <2>2, <2>3, <3>1, <3>2, <3>4, <3>5, <4>1, <4>2, <4>3, RecordedStays
    <3>. QED BY <1>1, <2>2, <2>3, <3>5, <3>6, <3>7, HooksStay DEF Sound
  <2>. QED BY <2>4, <2>5
<1>10. ASSUME NEW a \in Actor, SetPending(a)
       PROVE  Sound' /\ BuildsStay /\ CommitsStay
  <2>1. /\ pc[a] = "pending" /\ Set(loc[a].build, "pending") /\ Mark(loc[a].build, "pending")
        /\ Continue(a, loc[a].todo)
        /\ UNCHANGED <<draft, integ, ci, provider, land, triggers, faults>>
    BY <1>10 DEF SetPending
  <2>2. /\ loc[a].build \in DOMAIN builds
        /\ loc[a].ci \in DOMAIN ci /\ ci[loc[a].ci].recorded
    BY <1>1, <2>1 DEF Recorded
  <2>3. PICK l \in {"idle", "build"}, row \in Local :
               /\ pc' = [pc EXCEPT ![a] = l] /\ loc' = [loc EXCEPT ![a] = row]
               /\ l = "build" => row.ci = loc[a].ci
    BY <1>1, <2>1, ContinueMoves
  <2>4. /\ pc' \in [Actor -> {"idle", "commit", "record", "build", "pending"}]
        /\ loc' \in [Actor -> Local] /\ pc'[a] = l /\ loc'[a] = row
        /\ \A o \in Actor : o # a => pc'[o] = pc[o] /\ loc'[o] = loc[o]
    BY <1>1, <2>3, MoveType
  <2>5. /\ shown' \in [Version -> [Title -> Type \union {"none"}]] /\ last' \in Version
        /\ disturbed' \subseteq (Version \X Title)
    BY <1>1, <2>1, <2>2, SetType DEF Type
  <2>6. TypeOK'
    BY <1>1, <2>1, <2>4, <2>5 DEF TypeOK
  <2>7. BuildsStay /\ CommitsStay
    BY <1>1, <2>1, NoBuild, NoCommit
  <2>8. Recorded'
    BY <1>1, <2>1, <2>2, <2>3, <2>4, <2>7, RecordedStays
  <2>. QED BY <1>1, <2>1, <2>6, <2>7, <2>8, HooksStay DEF Sound
<1>11. ASSUME NEW a \in Actor, TriggerFails(a)
       PROVE  Sound' /\ BuildsStay /\ CommitsStay
  <2>1. /\ Done(a) /\ faults' = faults + 1 /\ faults < MaxFaults
        /\ UNCHANGED <<draft, integ, ci, provider, statuses, land, triggers>>
    BY <1>11 DEF TriggerFails, Fault
  <2>2. /\ pc' \in [Actor -> {"idle", "commit", "record", "build", "pending"}]
        /\ loc' \in [Actor -> Local] /\ pc'[a] = "idle"
        /\ \A o \in Actor : o # a => pc'[o] = pc[o] /\ loc'[o] = loc[o]
    BY <1>1, <2>1, DoneMoves, MoveType
  <2>3. TypeOK'
    BY <1>1, <2>1, <2>2, Lengths DEF TypeOK
  <2>4. BuildsStay /\ CommitsStay
    BY <1>1, <2>1, NoBuild, NoCommit
  <2>5. Recorded'
    BY <1>1, <2>1, <2>2, <2>4, RecordedStays
  <2>. QED BY <1>1, <2>1, <2>3, <2>4, <2>5, HooksStay DEF Sound
<1>12. ASSUME NEW b \in DOMAIN builds, NEW type \in Type,
              NEW st \in {"running", "passed", "failed"}, ~Finished(b),
              builds' = [builds EXCEPT ![b].st = st], Tells(b, type),
              type = "healthy" => st = "passed", type = "failing" => st = "failed",
              UNCHANGED <<draft, integ, ci, statuses, trigger, land, faults>>
       PROVE  Sound' /\ BuildsStay /\ CommitsStay
  <2>1. /\ BuildsStay /\ builds' \in Seq(Build) /\ Len(builds') = Len(builds)
        /\ DOMAIN builds' = DOMAIN builds /\ builds'[b].st = st
    BY <1>1, <1>12, ChangeBuild
  <2>2. hooks' = hooks \union {[build |-> b, type |-> type]}
    BY <1>12 DEF Tells
  <2>3. TypeOK'
    <3>1. [build |-> b, type |-> type] \in Hook
      BY <1>1, Lengths DEF Hook
    <3>. QED BY <1>1, <1>12, <2>1, <2>2, <3>1 DEF TypeOK
  <2>4. CommitsStay
    BY <1>1, <1>12, NoCommit
  <2>5. Recorded'
    BY <1>1, <1>12, <2>1, <2>4, RecordedStays
  <2>6. HooksOK'
    <3>1. ASSUME NEW h \in hooks
          PROVE  /\ h.build \in DOMAIN builds'
                 /\ h.type = "healthy" => builds'[h.build].st = "passed"
                 /\ h.type = "failing" => builds'[h.build].st = "failed"
      BY <1>1, <2>1 DEF HooksOK, BuildsStay, Finished, Is
    <3>. QED BY <1>12, <2>1, <2>2, <3>1 DEF HooksOK, Is
  <2>. QED BY <2>1, <2>3, <2>4, <2>5, <2>6 DEF Sound
<1>13. ASSUME NEW b \in DOMAIN builds, Run(b)
       PROVE  Sound' /\ BuildsStay /\ CommitsStay
  <2>1. "pending" \in Type /\ ~Finished(b) /\ Tells(b, "pending")
        /\ builds' = [builds EXCEPT ![b].st = "running"]
        /\ UNCHANGED <<draft, integ, ci, statuses, trigger, land, faults>>
    BY <1>13 DEF Run, Type, Finished
  <2>. QED BY <1>12, <2>1
<1>14. ASSUME NEW b \in DOMAIN builds, NEW pass \in BOOLEAN, Finish(b, pass)
       PROVE  Sound' /\ BuildsStay /\ CommitsStay
  <2>1. {"healthy", "failing"} \subseteq Type /\ ~Finished(b)
        /\ UNCHANGED <<draft, integ, ci, statuses, trigger, land, faults>>
    BY <1>14 DEF Finish, Type, Finished
  <2>2. CASE pass
    <3>1. Tells(b, "healthy") /\ builds' = [builds EXCEPT ![b].st = "passed"]
      BY <1>14, <2>2 DEF Finish
    <3>. QED BY <1>12, <2>1, <3>1
  <2>3. CASE ~pass
    <3>1. Tells(b, "failing") /\ builds' = [builds EXCEPT ![b].st = "failed"]
      BY <1>14, <2>3 DEF Finish
    <3>. QED BY <1>12, <2>1, <3>1
  <2>. QED BY <2>2, <2>3
<1>15. ASSUME NEW h \in hooks, Webhook(h)
       PROVE  Sound' /\ BuildsStay /\ CommitsStay
  <2>1. /\ hooks' = hooks \ {h} /\ h.build \in DOMAIN builds /\ h.type \in Type
        /\ \/ Set(h.build, h.type) /\ Mark(h.build, h.type)
           \/ UNCHANGED statuses
        /\ UNCHANGED <<draft, integ, ci, builds, trigger, land, faults>>
    BY <1>1, <1>15 DEF Webhook, HooksOK, TypeOK, Hook
  <2>2. /\ shown' \in [Version -> [Title -> Type \union {"none"}]] /\ last' \in Version
        /\ disturbed' \subseteq (Version \X Title)
    <3>1. CASE UNCHANGED statuses
      BY <1>1, <3>1 DEF TypeOK
    <3>2. CASE Set(h.build, h.type) /\ Mark(h.build, h.type)
      BY <1>1, <2>1, <3>2, SetType
    <3>. QED BY <2>1, <3>1, <3>2
  <2>3. TypeOK'
    BY <1>1, <2>1, <2>2 DEF TypeOK
  <2>. QED BY <1>2, <2>1, <2>3 DEF Sound
<1>16. ASSUME NEW h \in hooks, LoseWebhook(h)
       PROVE  Sound' /\ BuildsStay /\ CommitsStay
  <2>1. /\ hooks' = hooks \ {h} /\ h.build \in DOMAIN builds
        /\ disturbed' = disturbed \union {<<builds[h.build].target, builds[h.build].integ>>}
        /\ faults < MaxFaults /\ faults' = faults + 1
        /\ UNCHANGED <<draft, integ, ci, builds, shown, last, trigger, land>>
    BY <1>1, <1>16 DEF LoseWebhook, Fault, HooksOK
  <2>2. disturbed' \subseteq (Version \X Title)
    BY <1>1, <2>1, Lengths DEF TypeOK, Build
  <2>3. TypeOK'
    BY <1>1, <2>1, <2>2, Lengths DEF TypeOK
  <2>. QED BY <1>2, <2>1, <2>3 DEF Sound
<1>. QED BY <1>3, <1>4, <1>5, <1>6, <1>7, <1>8, <1>9, <1>10, <1>11, <1>13, <1>14, <1>15, <1>16
         DEF Next, Step

(* Every variable has its type; a ci commit has its row before it is       *)
(* built, and no webhook says more than its build has done.                *)
THEOREM TypeCorrect == Spec => [](TypeOK /\ Recorded /\ HooksOK)
<1>1. Init => Sound
  <2>. SUFFICES ASSUME Init PROVE Sound
    OBVIOUS
  <2>1. NoLocal \in Local /\ NoLand \in Landing /\ 0 \in Version /\ 1 \in Version
    BY StatusesAssumption DEF NoLocal, Local, NoLand, Landing, Version
  <2>2. ci \in Seq([target : Version, recorded : BOOLEAN]) /\ builds \in Seq(Build)
        /\ Len(builds) = 0 /\ DOMAIN builds = {}
    BY DEF Init
  <2>3. TypeOK
    BY <2>1, <2>2, StatusesAssumption DEF Init, TypeOK
  <2>. QED BY <2>2, <2>3 DEF Init, Sound, Recorded, HooksOK
<1>2. Sound /\ [Next]_vars => Sound'
  BY SoundNext
<1>3. Sound => TypeOK /\ Recorded /\ HooksOK
  BY DEF Sound
<1>. QED BY <1>1, <1>2, <1>3, PTL DEF Spec

-----------------------------------------------------------------------------
(* What has landed was built.                                              *)

LEMMA PassedStays ==
    ASSUME BuildsStay, NEW t, NEW i, Passed(t, i)
    PROVE  Passed(t, i)'
<1>1. PICK b \in DOMAIN builds : /\ builds[b].target = t /\ builds[b].integ = i
                                 /\ builds[b].st = "passed"
  BY DEF Passed
<1>2. /\ b \in DOMAIN builds' /\ builds'[b].target = t /\ builds'[b].integ = i
      /\ builds'[b].st = "passed"
  BY <1>1 DEF BuildsStay, Finished
<1>. QED BY <1>2 DEF Passed

(* Rows change by a trigger or a webhook, and say what these say.          *)
LEMMA RowsChange ==
    ASSUME Sound, [Next]_vars
    PROVE  \/ /\ UNCHANGED <<shown, last>> /\ disturbed \subseteq disturbed'
              /\ \A h \in hooks \ hooks' :
                    <<builds[h.build].target, builds[h.build].integ>> \in disturbed'
           \/ /\ UNCHANGED builds
              /\ \E b \in DOMAIN builds, type \in Type :
                    /\ Set(b, type) /\ Mark(b, type)
                    /\ \/ type = "pending" /\ UNCHANGED hooks
                       \/ \E h \in hooks : /\ h.build = b /\ h.type = type
                                           /\ hooks' = hooks \ {h}
<1>. USE DEF draft, statuses, trigger, provider
<1>1. ASSUME NEW a \in Actor, SetPending(a)
      PROVE  /\ UNCHANGED <<builds, hooks>> /\ loc[a].build \in DOMAIN builds /\ "pending" \in Type
             /\ Set(loc[a].build, "pending") /\ Mark(loc[a].build, "pending")
  BY <1>1 DEF SetPending, Sound, Recorded, Type
<1>2. ASSUME NEW h \in hooks, Webhook(h)
      PROVE  /\ UNCHANGED builds /\ hooks' = hooks \ {h}
             /\ h.build \in DOMAIN builds /\ h.type \in Type
             /\ Set(h.build, h.type) /\ Mark(h.build, h.type)
  BY <1>2 DEF Webhook, Sound, Recorded, HooksOK, TypeOK, Hook
<1>3. ASSUME ~\E a \in Actor : SetPending(a), ~\E h \in hooks : Webhook(h)
      PROVE  /\ UNCHANGED <<shown, last>> /\ disturbed \subseteq disturbed'
             /\ \A h \in hooks \ hooks' :
                   <<builds[h.build].target, builds[h.build].integ>> \in disturbed'
  BY <1>3 DEF Next, Step, vars, Edit, Snapshot, StartLand, Check, Land, CreateIntegration, Delete,
              TriggerWorkspace, TriggerChange, Start, Commit, Record, CreateBuild, TriggerFails,
              Run, Finish, Tells, LoseWebhook
<1>. QED BY <1>1, <1>2, <1>3

LEMMA ShownNext ==
    ASSUME Sound, ShownOK, [Next]_vars
    PROVE  ShownOK'
<1>1. TypeOK /\ HooksOK /\ BuildsStay
  BY SoundNext DEF Sound
<1>2. CASE UNCHANGED shown
  BY <1>1, <1>2, PassedStays DEF ShownOK
<1>3. ASSUME NEW b \in DOMAIN builds, NEW type \in Type, Set(b, type), Mark(b, type),
             type = "pending" \/ \E h \in hooks : h.build = b /\ h.type = type
      PROVE  ShownOK'
  <2>1. type = "healthy" => Passed(builds[b].target, builds[b].integ)
    BY <1>1, <1>3 DEF HooksOK, Is, Passed
  <2>2. \A t \in Version, i \in Title :
            shown'[t][i] = IF t = builds[b].target /\ i = builds[b].integ
                           THEN type ELSE shown[t][i]
    BY <1>1, <1>3, SetType
  <2>3. ASSUME NEW t \in Version, NEW i \in Title, shown'[t][i] = "healthy"
        PROVE  Passed(t, i)
    BY <2>1, <2>2, <2>3 DEF ShownOK
  <2>. QED BY <1>1, <2>3, PassedStays DEF ShownOK
<1>. QED BY <1>2, <1>3, RowsChange

LEMMA LandNext ==
    ASSUME Sound, ShownOK, LandOK, [Next]_vars
    PROVE  LandOK'
<1>. USE DEF draft, statuses, trigger, provider
<1>1. TypeOK /\ BuildsStay
  BY SoundNext DEF Sound
<1>2. \A i \in Title, t \in Version : Passed(t, i) => Passed(t, i)'
  BY <1>1, PassedStays
<1>3. land.latest \in Version /\ land.seen \subseteq Title /\ files \in Nat /\ latest \in Version
      /\ onView \in BOOLEAN /\ land.onView \in BOOLEAN
  BY <1>1, Lengths DEF TypeOK, Landing, Version
<1>4. ASSUME land' = land, files' \in {files, files + 1} PROVE LandOK'
  BY <1>2, <1>3, <1>4 DEF LandOK
<1>5. CASE UNCHANGED vars
  BY <1>4, <1>5 DEF vars
<1>6. CASE Edit \/ Snapshot
  BY <1>4, <1>6 DEF Edit, Snapshot
<1>7. CASE StartLand
  <2>1. /\ land'.pc = "check" /\ land'.latest = latest /\ land'.onView = onView
        /\ files' = files /\ (onView \/ latest # 0)
    BY <1>7 DEF StartLand, NoLand
  <2>. QED BY <2>1 DEF LandOK
<1>8. CASE Check
  <2>1. files' = files /\ land.pc = "check"
    BY <1>8 DEF Check
  <2>2. CASE ~HealthyStatus(land)
    <3>1. land'.pc = "no"
      BY <1>8, <2>2 DEF Check, NoLand
    <3>. QED BY <2>1, <3>1 DEF LandOK
  <2>3. CASE HealthyStatus(land)
    <3>1. /\ land'.pc = "land" /\ land'.latest = land.latest /\ land'.onView = land.onView
          /\ land'.seen = Listed
      BY <1>1, <1>8, <2>3 DEF Check, TypeOK, Landing
    <3>2. /\ Listed # {} /\ Listed \subseteq Title
          /\ \A i \in Listed : shown[last][i] = "healthy"
          /\ land.latest # 0 => last = land.latest
      BY <2>3 DEF HealthyStatus, StatusIsStale, Listed
    <3>3. \A i \in Title : i \in Listed /\ land.latest # 0 => Passed(land.latest, i)
      BY <1>3, <3>2 DEF ShownOK
    <3>4. land'.onView \/ land'.latest # 0
      BY <2>1, <3>1 DEF LandOK
    <3>. QED BY <1>2, <1>3, <2>1, <3>1, <3>2, <3>3, <3>4 DEF LandOK
  <2>. QED BY <2>2, <2>3
<1>9. CASE Land
  <2>1. /\ land.pc = "land" /\ files' = files
        /\ land'.pc = "landed" /\ land'.latest = land.latest /\ land'.onView = land.onView
        /\ land'.seen = land.seen
        /\ land'.v = IF land.onView THEN files ELSE land.latest
    BY <1>1, <1>9 DEF Land, TypeOK, Landing
  <2>. QED BY <1>2, <1>3, <2>1 DEF LandOK
<1>10. CASE \/ \E i \in Title : CreateIntegration(i) \/ Delete(i)
            \/ \E a \in Actor : TriggerWorkspace(a) \/ TriggerChange(a) \/ Step(a) \/ TriggerFails(a)
            \/ \E b \in DOMAIN builds : Run(b) \/ \E pass \in BOOLEAN : Finish(b, pass)
            \/ \E h \in hooks : Webhook(h) \/ LoseWebhook(h)
  <2>1. UNCHANGED <<land, files>>
    BY <1>10 DEF Step, CreateIntegration, Delete, TriggerWorkspace, TriggerChange, Start, Commit,
                 Record, CreateBuild, SetPending, TriggerFails, Run, Finish, Webhook, LoseWebhook
  <2>. QED BY <1>4, <2>1
<1>. QED BY <1>5, <1>6, <1>7, <1>8, <1>9, <1>10 DEF Next

(* What lands, when it is what the latest snapshot held, has passed with   *)
(* every integration that had told of it (LandChange, HealthyStatus).      *)
THEOREM LandedBuilt == Spec => []LandedWasBuilt
<1>1. Init => ShownOK /\ LandOK
  BY DEF Init, ShownOK, LandOK, NoLand
<1>2. Sound /\ ShownOK /\ LandOK /\ [Next]_vars => ShownOK' /\ LandOK'
  BY ShownNext, LandNext
<1>3. TypeOK /\ LandOK => LandedWasBuilt
  BY DEF LandOK, LandedWasBuilt
<1>4. TypeOK /\ Recorded /\ HooksOK => Sound
  BY DEF Sound
<1>. QED BY <1>1, <1>2, <1>3, <1>4, TypeCorrect, PTL DEF Spec

-----------------------------------------------------------------------------
(* The outcome of the last build is shown.                                 *)

(* A build that ends is told of by a webhook.                              *)
LEMMA EndIsTold ==
    ASSUME Sound, [Next]_vars, NEW b \in DOMAIN builds', Told(b)'
    PROVE  b \in DOMAIN builds /\ Finished(b)
<1>1. b \in DOMAIN builds /\ DOMAIN builds \subseteq DOMAIN builds'
  BY SoundNext DEF BuildsStay, Told, Finished
<1>2. CASE builds' = builds
  BY <1>1, <1>2 DEF Told, Finished
<1>3. ASSUME NEW a \in Actor, CreateBuild(a)
      PROVE  Finished(b)
  <2>1. PICK i \in loc[a].todo :
            \/ UNCHANGED builds
            \/ builds' = Append(builds, [target |-> loc[a].target, integ |-> i,
                                         ci |-> loc[a].ci, st |-> "scheduled"])
    BY <1>3 DEF CreateBuild
  <2>. DEFINE build == [target |-> loc[a].target, integ |-> i, ci |-> loc[a].ci,
                        st |-> "scheduled"]
  <2>2. build \in Build /\ build.st = "scheduled"
    BY LocType DEF Sound, Build
  <2>. HIDE DEF build
  <2>3. CASE builds' = Append(builds, build)
    <3>1. builds'[b] = builds[b]
      BY <1>1, <2>2, <2>3, AddBuild DEF Sound
    <3>. QED BY <3>1 DEF Told, Finished
  <2>. QED BY <1>2, <2>1, <2>3 DEF build
<1>4. ASSUME NEW d \in DOMAIN builds, Run(d) \/ \E pass \in BOOLEAN : Finish(d, pass), b # d
      PROVE  Finished(b)
  <2>1. builds'[b] = builds[b]
    BY <1>1, <1>4 DEF Run, Finish
  <2>. QED BY <2>1 DEF Told, Finished
<1>5. ~Run(b)
  <2>1. Run(b) => builds'[b].st = "running"
    <3>1. Run(b) => ~Finished(b) /\ builds' = [builds EXCEPT ![b].st = "running"]
      BY DEF Run, Finished
    <3>. QED BY <1>1, <3>1, ChangeBuild DEF Sound
  <2>. QED BY <2>1 DEF Told, Finished
<1>6. ~\E pass \in BOOLEAN : Finish(b, pass)
  <2>1. ASSUME NEW pass \in BOOLEAN, Finish(b, pass)
        PROVE  \E h \in hooks' : h.build = b /\ h.type # "pending"
    <3>. DEFINE h == [build |-> b, type |-> IF pass THEN "healthy" ELSE "failing"]
    <3>1. h \in hooks' /\ h.build = b /\ h.type # "pending"
      BY <2>1 DEF Finish, Tells
    <3>. QED BY <3>1
  <2>. QED BY <2>1 DEF Told
<1>7. \/ builds' = builds
      \/ \E a \in Actor : CreateBuild(a)
      \/ \E d \in DOMAIN builds : Run(d) \/ \E pass \in BOOLEAN : Finish(d, pass)
  BY DEF Next, Step, vars, provider, Edit, Snapshot, StartLand, Check, Land, CreateIntegration,
         Delete, TriggerWorkspace, TriggerChange, Start, Commit, Record, SetPending, TriggerFails,
         Webhook, LoseWebhook
<1>. QED BY <1>1, <1>2, <1>3, <1>4, <1>5, <1>6, <1>7

LEMMA NewestStays ==
    ASSUME Sound, BuildsStay, NEW b \in DOMAIN builds, Newest(b)'
    PROVE  Newest(b)
<1>1. Len(builds) <= Len(builds') /\ Len(builds) \in Nat /\ DOMAIN builds = 1..Len(builds)
      /\ Len(builds') \in Nat
  BY Lengths DEF Sound, BuildsStay
<1>. QED BY <1>1 DEF Newest, Same, BuildsStay

LEMMA ToldNext ==
    ASSUME Sound, ToldOK, [Next]_vars
    PROVE  ToldOK'
<1>1. Sound' /\ BuildsStay /\ TypeOK /\ HooksOK
  BY SoundNext DEF Sound
<1>. SUFFICES ASSUME NEW b \in DOMAIN builds', Told(b)', Newest(b)', InOrder(b)'
              PROVE  (shown[builds[b].target][builds[b].integ] = Outcome(b))'
  BY DEF ToldOK
<1>. DEFINE t == builds[b].target
            i == builds[b].integ
<1>2. b \in DOMAIN builds /\ Finished(b) /\ Newest(b)
  BY <1>1, EndIsTold, NewestStays
<1>3. /\ builds'[b].target = t /\ builds'[b].integ = i /\ builds'[b].st = builds[b].st
      /\ t \in Version /\ i \in Title
  BY <1>1, <1>2, Lengths DEF BuildsStay, Build
<1>4. <<t, i>> \notin disturbed'
  BY <1>3 DEF InOrder
<1>5. \A h \in hooks : h.build = b /\ h \in hooks' => h.type = "pending"
  BY DEF Told
<1>6. SUFFICES shown'[t][i] = Outcome(b)
  BY <1>3 DEF Outcome
<1>7. CASE /\ UNCHANGED <<shown, last>> /\ disturbed \subseteq disturbed'
           /\ \A h \in hooks \ hooks' :
                 <<builds[h.build].target, builds[h.build].integ>> \in disturbed'
  <2>1. Told(b)
    BY <1>2, <1>4, <1>5, <1>7 DEF Told
  <2>2. InOrder(b)
    BY <1>4, <1>7 DEF InOrder
  <2>. QED BY <1>2, <1>7, <2>1, <2>2 DEF ToldOK
<1>8. ASSUME UNCHANGED builds, NEW d \in DOMAIN builds, NEW type \in Type,
             Set(d, type), Mark(d, type),
             \/ type = "pending" /\ UNCHANGED hooks
             \/ \E h \in hooks : /\ h.build = d /\ h.type = type
                                 /\ hooks' = hooks \ {h}
      PROVE  shown'[t][i] = Outcome(b)
  <2>1. \A v \in Version, j \in Title :
            shown'[v][j] = IF v = builds[d].target /\ j = builds[d].integ
                           THEN type ELSE shown[v][j]
    BY <1>1, <1>8, SetType
  <2>2. disturbed \subseteq disturbed' /\ (Late(d, type) => <<builds[d].target, builds[d].integ>> \in disturbed')
    BY <1>8 DEF Mark
  <2>3. type = "pending" \/ d # b => Told(b)
    BY <1>2, <1>5, <1>8 DEF Told
  <2>4. b \in Nat /\ d \in Nat /\ b \in 1..Len(builds) /\ d \in 1..Len(builds) /\ Len(builds) \in Nat
    BY <1>1, <1>2, Lengths
  <2>5. CASE ~Same(d, b)
    <3>1. shown'[t][i] = shown[t][i]
      BY <1>3, <2>1, <2>5 DEF Same
    <3>2. Told(b) /\ InOrder(b)
      BY <1>4, <2>2, <2>3, <2>5 DEF Same, InOrder
    <3>. QED BY <1>2, <3>1, <3>2 DEF ToldOK
  <2>6. CASE Same(d, b) /\ (type = "pending" \/ d # b)
    <3>1. d <= b
      BY <1>2, <2>4, <2>6 DEF Newest, Same
    <3>2. Late(d, type)
      <4>1. b \in d..Len(builds) /\ (b > d \/ type = "pending")
        BY <2>4, <2>6, <3>1
      <4>. QED BY <2>3, <2>6, <4>1 DEF Late
    <3>. QED BY <1>4, <2>2, <2>6, <3>2 DEF Same
  <2>7. CASE d = b /\ type # "pending"
    <3>1. type = Outcome(b)
      BY <1>1, <1>8, <2>7 DEF HooksOK, Is, Outcome, Type
    <3>. QED BY <1>3, <2>1, <2>7, <3>1
  <2>. QED BY <2>5, <2>6, <2>7
<1>. QED BY <1>7, <1>8, RowsChange

(* When the last build of a commit with an integration is over and all has *)
(* been told of in order, its outcome is shown (WebhookHandler, Set).      *)
THEOREM OutcomeIsShown == Spec => []OutcomeShown
<1>1. Init => ToldOK
  BY DEF Init, ToldOK
<1>2. Sound /\ ToldOK /\ [Next]_vars => ToldOK'
  BY ToldNext
<1>3. ToldOK => OutcomeShown
  BY DEF ToldOK, OutcomeShown, Told, Newest, InOrder, Outcome
<1>4. TypeOK /\ Recorded /\ HooksOK => Sound
  BY DEF Sound
<1>. QED BY <1>1, <1>2, <1>3, <1>4, TypeCorrect, PTL DEF Spec
=============================================================================
