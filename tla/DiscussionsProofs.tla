-------------------------- MODULE DiscussionsProofs --------------------------
(***************************************************************************)
(* What the discussion of a draft keeps, for any number of users, requests,*)
(* landings and failures.                                                  *)
(*                                                                         *)
(* Four parts, each inductive over what is under it: what a request holds  *)
(* (HoldsOK, CopiesOK), what a landing has still to take (TakenOK), who    *)
(* has still to be told (OwedOK), and the review of a user (ReviewsOK).    *)
(***************************************************************************)
EXTENDS Discussions, FiniteSetTheorems, SequenceTheorems, TLAPS

(* What a request holds at a step: a landing has a change to move to, and  *)
(* copies only while it moves comments; whoever writes a comment or a      *)
(* review has the row of one.                                              *)
HoldsRow(q) ==
    /\ q.kind \in Landing => q.ref # Draft
    /\ q.pc # "move" => q.todo = {}
    /\ \A copy \in q.todo : copy.ref \in DOMAIN comments /\ copy.row.at = Draft
    /\ q.kind = "comment" \/ q.pc = "save" => q.row \in CommentRow
    /\ q.pc = "save" => q.ref \in DOMAIN comments
    /\ q.pc \in {"replace", "dismiss"} =>
          /\ q.row \in ReviewRow /\ q.ref \in DOMAIN reviews
          /\ q.row.user = q.of /\ reviews[q.ref].user = q.of

HoldsOK == \A r \in Request : HoldsRow(req[r])

(* A comment that one request has a copy of at a time is as it was copied. *)
CopiesOK ==
    /\ \A r, s \in Request : r # s => Held(r) \intersect Held(s) \subseteq raced
    /\ \A r \in Request :
        /\ req[r].pc = "save" /\ req[r].ref \notin raced => req[r].row = comments[req[r].ref]
        /\ \A copy \in req[r].todo : copy.ref \notin raced => copy.row = comments[copy.ref]

(* The comments a landing should take.                                     *)
Left == {c \in DOMAIN comments \ (raced \union late.comments) :
            comments[c].parent = 0 /\ ~comments[c].deleted /\ comments[c].at = Draft}

LeftActivity == {a \in DOMAIN activity \ late.activity : activity[a].change = Draft}

TakenOK ==
    /\ \A r \in Request :
        /\ Listed(r) => Left \subseteq {copy.ref : copy \in req[r].todo}
        /\ Collected(r) => LeftActivity = {}
    /\ archived => Left = {} /\ LeftActivity = {}

(* Request r is about to tell a user of a comment.                         *)
Telling(r, o) ==
    LET q == req[r] IN
    /\ q.kind = "comment" /\ q.pc \in {"activity", "watch", "tell"}
    /\ q.ref = o[2] /\ o[1] # q.by
    /\ IF q.row.at = Draft
       THEN o[1] \in q.mentions \union Watchers /\ (q.pc = "tell" => o[1] \in Watchers)
       ELSE q.pc # "watch" /\ o[1] \in q.mentions \union {Owner}

Told(o) == [to |-> o[1], of |-> "comment", ref |-> o[2]] \in notes

OwedOK == \A o \in owed : o[2] \in DOMAIN comments /\ (Told(o) \/ \E r \in Request : Telling(r, o))

Writes(r, u) == req[r].of = u /\ req[r].pc \in {"replace", "create", "dismiss"}
GradesOf(u)  == {reviews[i].grade : i \in Shown(u)}
Creates(u)   == \E r \in Request : req[r].of = u /\ req[r].pc = "create"

(* A user whose reviews one request writes at a time has one latest review *)
(* at most, the one that request has a copy of, and none while the next is *)
(* about to be inserted.                                                   *)
ReviewOf(u) ==
    /\ \A r, s \in Request : Writes(r, u) /\ Writes(s, u) => r = s
    /\ IF Creates(u) THEN Latest(u) = {}
       ELSE /\ \A i, j \in Latest(u) : i = j
            /\ GradesOf(u) = {verdict[u]} \ {None}
    /\ \A r \in Request :
          req[r].of = u /\ req[r].pc \in {"replace", "dismiss"} =>
              Latest(u) = {req[r].ref} /\ req[r].row = reviews[req[r].ref]

ReviewsOK == \A u \in User \ mixed : ReviewOf(u)

-----------------------------------------------------------------------------
(* The rows of requests.                                                   *)

Grades == {"Requested", "Approve", "Reject"}

GoodRow(q) == q \in RequestRow /\ q.pc \in StepsOf(q.kind)

LEMMA IdleIsGood == GoodRow(Idle)
<1>1. "none" \in Kind /\ "idle" \in Place /\ Owner \in User
  BY DiscussionsAssumption DEF Kind, Place
<1>2. {} \in SUBSET [ref : Nat, row : CommentRow] /\ {} \in SUBSET User
  OBVIOUS
<1>3. None \in CommentRow \union ReviewRow \union {None}
  OBVIOUS
<1>4. "Requested" \in {"Requested", "Approve", "Reject"} /\ 0 \in Nat
  OBVIOUS
<1>5. Idle \in RequestRow
  BY <1>1, <1>2, <1>3, <1>4, Zenon DEF Idle, RequestRow
<1>6. Idle.pc \in StepsOf(Idle.kind)
  BY DEF Idle, StepsOf, Landing
<1>. QED BY <1>5, <1>6 DEF GoodRow

LEMMA Steps ==
    /\ Kind = {"none", "read", "comment", "edit", "delete", "resolve", "review", "dismiss",
               "land", "merge"}
    /\ StepsOf("none") = {"idle"} /\ StepsOf("read") = {"mark look", "mark"}
    /\ StepsOf("comment") = {"insert", "activity", "watch", "tell"}
    /\ \A k \in {"edit", "delete", "resolve"} : StepsOf(k) = {"save"}
    /\ \A k \in {"land", "merge"} :
          StepsOf(k) = {"activity", "mark look", "mark", "set", "list", "move", "archive"}
    /\ StepsOf("review") = {"look", "replace", "create", "activity", "mark look", "mark", "notify"}
    /\ StepsOf("dismiss") = {"dismiss"}
  BY DEF StepsOf, Kind, Landing

(* What a request is may be told from its step.                            *)
LEMMA Places ==
    ASSUME NEW q, GoodRow(q)
    PROVE  /\ q.pc = "idle" <=> q.kind = "none"
           /\ q.kind = "comment" <=>
                 \/ q.pc \in {"insert", "watch", "tell"}
                 \/ q.pc = "activity" /\ q.kind = "comment"
           /\ q.kind = "comment" => q.pc \in {"insert", "activity", "watch", "tell"}
           /\ q.kind \in {"edit", "delete", "resolve"} <=> q.pc = "save"
           /\ q.kind = "dismiss" <=> q.pc = "dismiss"
           /\ q.pc \in {"set", "list", "move", "archive"} => q.kind \in Landing
           /\ q.pc \in {"look", "replace", "create", "notify"} => q.kind = "review"
           /\ q.pc = "activity" => q.kind \in {"comment", "review"} \union Landing
           /\ q.pc \in {"mark look", "mark"} => q.kind \in {"read", "review"} \union Landing
  BY DEF GoodRow, StepsOf, Kind, RequestRow, Landing

(* A step of a request of some kind to another step of that kind.          *)
LEMMA GoodPc ==
    ASSUME NEW q, GoodRow(q), NEW pc \in Place, pc \in StepsOf(q.kind)
    PROVE  GoodRow([q EXCEPT !.pc = pc])
  BY DEF GoodRow, RequestRow

LEMMA GoodAt ==
    ASSUME NEW q, GoodRow(q), NEW pc \in Place, NEW n \in Nat, pc \in StepsOf(q.kind)
    PROVE  /\ GoodRow([q EXCEPT !.pc = pc, !.ref = n])
           /\ GoodRow([q EXCEPT !.pc = pc, !.act = n])
           /\ GoodRow([q EXCEPT !.pc = pc, !.seen = n])
  BY DEF GoodRow, RequestRow

(* Rows of comments and reviews are appended, or written over.             *)
LEMMA AppendRow ==
    ASSUME NEW S, NEW s \in Seq(S), NEW x \in S
    PROVE  /\ Append(s, x) \in Seq(S) /\ Len(s) \in Nat /\ Len(Append(s, x)) = Len(s) + 1
           /\ DOMAIN s = 1..Len(s) /\ DOMAIN Append(s, x) = 1..(Len(s) + 1)
           /\ \A i \in 1..Len(s) : s[i] \in S /\ Append(s, x)[i] = s[i]
           /\ Append(s, x)[Len(s) + 1] = x
<1>1. Append(s, x) \in Seq(S) /\ Len(s) \in Nat /\ Len(Append(s, x)) = Len(s) + 1
  OBVIOUS
<1>2. DOMAIN s = 1..Len(s) /\ DOMAIN Append(s, x) = 1..(Len(s) + 1)
  BY <1>1
<1>3. \A i \in 1..Len(s) : s[i] \in S /\ Append(s, x)[i] = s[i]
  OBVIOUS
<1>4. Append(s, x)[Len(s) + 1] = x
  OBVIOUS
<1>. QED BY <1>1, <1>2, <1>3, <1>4

LEMMA WriteRow ==
    ASSUME NEW S, NEW s \in Seq(S), NEW i \in DOMAIN s, NEW x \in S
    PROVE  /\ [s EXCEPT ![i] = x] \in Seq(S) /\ DOMAIN [s EXCEPT ![i] = x] = DOMAIN s
           /\ [s EXCEPT ![i] = x][i] = x
           /\ \A j \in DOMAIN s : j # i => [s EXCEPT ![i] = x][j] = s[j]
<1>1. [s EXCEPT ![i] = x] \in Seq(S)
  BY ExceptSeq
<1>. QED BY <1>1

LEMMA ActivityAdded ==
    ASSUME TypeOK, NEW by \in User, NEW at \in Nat, AddActivity(by, at)
    PROVE  /\ activity' \in Seq(ActivityRow)
           /\ Len(activity) \in Nat /\ Len(activity') = Len(activity) + 1
           /\ DOMAIN activity = 1..Len(activity) /\ DOMAIN activity' = 1..(Len(activity) + 1)
           /\ \A a \in DOMAIN activity : activity'[a] = activity[a]
<1>. DEFINE new == [by |-> by, change |-> at]
<1>1. new \in ActivityRow /\ activity \in Seq(ActivityRow)
  BY DEF ActivityRow, TypeOK
<1>2. activity' = Append(activity, new)
  BY DEF AddActivity
<1>. HIDE DEF new
<1>. QED BY <1>1, <1>2, AppendRow

(* Every step of a request writes its row, and no other.                   *)
LEMMA RowStep ==
    ASSUME TypeOK, NEW r \in Request, Ask(r) \/ Step(r) \/ Fail(r)
    PROVE  \E q : GoodRow(q) /\ req' = [req EXCEPT ![r] = q]
<1>. DEFINE q == req[r]
<1>1. GoodRow(q) /\ req \in [Request -> RequestRow]
  BY DEF TypeOK, GoodRow
<1>2. /\ \A c \in DOMAIN comments : c \in Nat /\ comments[c] \in CommentRow
      /\ \A i \in DOMAIN reviews : i \in Nat /\ reviews[i] \in ReviewRow
      /\ \A a \in DOMAIN activity : a \in Nat
      /\ Len(comments) + 1 \in Nat /\ Len(reviews) \in Nat /\ Len(activity) \in Nat
      /\ changes \in Nat /\ changes + 1 \in Nat /\ \A u \in User : lastRead[u] \in Nat
  BY DEF TypeOK
<1>3. ASSUME NEW p, GoodRow(p), Begin(r, p)
      PROVE  \E n : GoodRow(n) /\ req' = [req EXCEPT ![r] = n]
  BY <1>3 DEF Begin
<1>4. ASSUME NEW u \in User, NEW a \in DOMAIN activity,
             ReadWorkspaceActivity(r, u, a)
      PROVE  \E n : GoodRow(n) /\ req' = [req EXCEPT ![r] = n]
  <2>1. GoodRow([Idle EXCEPT !.kind = "read", !.pc = "mark look", !.by = u, !.act = a])
    BY <1>2, <1>4, Steps, DiscussionsAssumption DEF Idle, GoodRow, RequestRow, Place
  <2>. QED BY <1>3, <1>4, <2>1 DEF ReadWorkspaceActivity
<1>5. ASSUME NEW u \in User, NEW m \in SUBSET User, NEW parent \in Nat, NEW at \in Nat
      PROVE  GoodRow([Idle EXCEPT !.kind = "comment", !.pc = "insert", !.by = u, !.mentions = m,
                        !.row = [parent |-> parent, at |-> at, deleted |-> FALSE,
                                 resolved |-> FALSE]])
  <2>. DEFINE new == [parent |-> parent, at |-> at, deleted |-> FALSE, resolved |-> FALSE]
  <2>1. new \in CommentRow
    BY DEF CommentRow
  <2>. HIDE DEF new
  <2>2. GoodRow([Idle EXCEPT !.kind = "comment", !.pc = "insert", !.by = u, !.mentions = m,
                             !.row = new])
    BY <2>1, Steps, DiscussionsAssumption DEF Idle, GoodRow, RequestRow, Place
  <2>. QED BY <2>2 DEF new
<1>6. ASSUME NEW u \in User, NEW m \in Mentions,
             \/ \E at \in 0..changes : TopComment(r, u, at, m)
             \/ \E c \in DOMAIN comments : ReplyComment(r, u, c, m)
      PROVE  \E n : GoodRow(n) /\ req' = [req EXCEPT ![r] = n]
  <2>1. m \in SUBSET User
    BY DiscussionsAssumption
  <2>2. \A c \in DOMAIN comments : comments[c].at \in Nat
    BY <1>2 DEF CommentRow
  <2>3. ASSUME NEW at \in 0..changes, TopComment(r, u, at, m)
        PROVE  \E n : GoodRow(n) /\ req' = [req EXCEPT ![r] = n]
    <3>1. at \in Nat
      BY <1>2
    <3>. QED BY <1>2, <1>3, <1>5, <2>1, <2>3, <3>1 DEF TopComment
  <2>4. ASSUME NEW c \in DOMAIN comments, ReplyComment(r, u, c, m)
        PROVE  \E n : GoodRow(n) /\ req' = [req EXCEPT ![r] = n]
    BY <1>2, <1>3, <1>5, <2>1, <2>2, <2>4 DEF ReplyComment
  <2>. QED BY <1>6, <2>3, <2>4
<1>7. ASSUME NEW kind \in {"edit", "delete", "resolve"}, NEW c \in DOMAIN comments,
             ChangeComment(r, kind, c)
      PROVE  \E n : GoodRow(n) /\ req' = [req EXCEPT ![r] = n]
  <2>1. GoodRow([Idle EXCEPT !.kind = kind, !.pc = "save", !.ref = c, !.row = comments[c]])
    BY <1>2, <1>7, Steps, DiscussionsAssumption DEF ChangeComment, Idle, GoodRow, RequestRow, Place
  <2>. QED BY <1>3, <1>7, <2>1 DEF ChangeComment
<1>8. ASSUME NEW kind \in Landing,
             StartLanding(r, kind)
      PROVE  \E n : GoodRow(n) /\ req' = [req EXCEPT ![r] = n]
  <2>1. GoodRow([Idle EXCEPT !.kind = kind, !.ref = changes + 1,
                        !.pc = IF kind = "land" THEN "list" ELSE "activity"])
    BY <1>2, <1>8, Steps, DiscussionsAssumption DEF StartLanding, Idle, GoodRow, RequestRow, Place, Landing
  <2>. QED BY <1>3, <1>8, <2>1 DEF StartLanding
<1>9. ASSUME NEW u \in User, NEW grade \in {"Approve", "Reject"},
             CreateOrUpdateReview(r, u, grade)
      PROVE  \E n : GoodRow(n) /\ req' = [req EXCEPT ![r] = n]
  <2>1. GoodRow([Idle EXCEPT !.kind = "review", !.pc = "look", !.by = u, !.of = u, !.grade = grade])
    BY <1>2, <1>9, Steps, DiscussionsAssumption DEF CreateOrUpdateReview, Idle, GoodRow, RequestRow, Place
  <2>. QED BY <1>3, <1>9, <2>1 DEF CreateOrUpdateReview
<1>10. ASSUME NEW by \in User, NEW of \in User,
             RequestReview(r, by, of)
      PROVE  \E n : GoodRow(n) /\ req' = [req EXCEPT ![r] = n]
  <2>1. GoodRow([Idle EXCEPT !.kind = "review", !.pc = "look", !.by = by, !.of = of])
    BY <1>2, <1>10, Steps, DiscussionsAssumption DEF RequestReview, Idle, GoodRow, RequestRow, Place
  <2>. QED BY <1>3, <1>10, <2>1 DEF RequestReview
<1>11. ASSUME NEW i \in DOMAIN reviews,
             StartDismiss(r, i)
      PROVE  \E n : GoodRow(n) /\ req' = [req EXCEPT ![r] = n]
  <2>1. GoodRow([Idle EXCEPT !.kind = "dismiss", !.pc = "dismiss", !.of = reviews[i].user,
                        !.ref = i, !.row = reviews[i]])
    BY <1>2, <1>11, Steps, DiscussionsAssumption DEF StartDismiss, Idle, GoodRow, RequestRow, Place, ReviewRow
  <2>. QED BY <1>3, <1>11, <2>1 DEF StartDismiss
<1>12. CASE Ask(r)
  BY <1>4, <1>6, <1>7, <1>8, <1>9, <1>10, <1>11, <1>12 DEF Ask
<1>13. ASSUME NEW pc \in Place, pc \in StepsOf(q.kind), Goto(r, pc)
       PROVE  \E n : GoodRow(n) /\ req' = [req EXCEPT ![r] = n]
  BY <1>1, <1>13, GoodPc DEF Goto
<1>14. ASSUME req' = [req EXCEPT ![r] = Idle]
       PROVE  \E n : GoodRow(n) /\ req' = [req EXCEPT ![r] = n]
  BY <1>14, IdleIsGood
<1>15. ASSUME NEW n \in Nat, NEW pc \in Place, pc \in StepsOf(q.kind),
              \/ req' = [req EXCEPT ![r].pc = pc, ![r].ref = n]
              \/ req' = [req EXCEPT ![r].pc = pc, ![r].act = n]
              \/ req' = [req EXCEPT ![r].pc = pc, ![r].seen = n]
       PROVE  \E m : GoodRow(m) /\ req' = [req EXCEPT ![r] = m]
  BY <1>1, <1>15, GoodAt
<1>16. CASE MarkLook(r)
  <2>1. q.kind \in {"read", "review"} \union Landing /\ lastRead[q.by] \in Nat
    BY <1>1, <1>2, <1>16, Places DEF MarkLook, GoodRow, RequestRow
  <2>2. "mark" \in StepsOf(q.kind)
    BY <2>1, Steps DEF Landing
  <2>. QED BY <1>15, <1>16, <2>1, <2>2 DEF MarkLook, Place
<1>17. CASE Mark(r)
  <2>1. q.kind \in {"read", "review"} \union Landing
    BY <1>1, <1>17, Places DEF Mark
  <2>2. q.kind # "read" => AfterMark(q.kind) \in StepsOf(q.kind)
    BY <2>1, Steps DEF Landing, AfterMark
  <2>3. AfterMark(q.kind) \in Place
    BY DEF AfterMark, Place
  <2>. QED BY <1>13, <1>14, <1>17, <2>2, <2>3 DEF Mark, End
<1>18. CASE InsertComment(r) \/ CommentActivity(r) \/ CommentWatch(r)
  <2>1. StepsOf(q.kind) = {"insert", "activity", "watch", "tell"}
    BY <1>1, <1>18, Places, Steps DEF InsertComment, CommentActivity, CommentWatch
  <2>. QED BY <1>2, <1>13, <1>15, <1>18, <2>1
           DEF InsertComment, CommentActivity, CommentWatch, Place
<1>19. CASE CommentTell(r) \/ SaveComment(r) \/ ArchiveWithChange(r) \/ ReviewNotify(r)
            \/ DismissReview(r) \/ Fail(r)
  BY <1>14, <1>19
     DEF CommentTell, SaveComment, ArchiveWithChange, ReviewNotify, DismissReview, Fail, End
<1>20. CASE Moved(r) \/ SetChange(r) \/ LandingActivity(r)
  <2>1. StepsOf(q.kind) = {"activity", "mark look", "mark", "set", "list", "move", "archive"}
    BY <1>1, <1>20, Places, Steps DEF Moved, SetChange, LandingActivity, Landing
  <2>2. ASSUME LandingActivity(r) PROVE Len(activity') \in Nat
    <3>1. AddActivity(Owner, Draft) /\ Owner \in User /\ Draft \in Nat
      BY <2>2, DiscussionsAssumption DEF LandingActivity, Draft
    <3>. QED BY <3>1, ActivityAdded
  <2>. QED BY <1>13, <1>15, <1>20, <2>1, <2>2 DEF Moved, SetChange, LandingActivity, Place
<1>21. CASE ListComments(r)
  <2>. DEFINE cs == {c \in DOMAIN comments :
                       comments[c].at = Draft /\ comments[c].parent = 0 /\ ~comments[c].deleted}
              todo == {[ref |-> c, row |-> comments[c]] : c \in cs}
  <2>1. todo \in SUBSET [ref : Nat, row : CommentRow]
    BY <1>2
  <2>2. req' = [req EXCEPT ![r].pc = "move", ![r].todo = todo] /\ q.pc = "list"
    BY <1>21 DEF ListComments
  <2>. HIDE DEF todo
  <2>3. "move" \in StepsOf(q.kind) /\ "move" \in Place
    BY <1>1, <2>2, Places, Steps DEF Place, Landing
  <2>4. GoodRow([q EXCEPT !.pc = "move", !.todo = todo])
    BY <1>1, <2>1, <2>3 DEF GoodRow, RequestRow
  <2>. QED BY <1>1, <2>2, <2>4
<1>22. CASE MoveComment(r)
  <2>1. ASSUME NEW copy \in q.todo
        PROVE  GoodRow([q EXCEPT !.todo = @ \ {copy}])
    BY <1>1 DEF GoodRow, RequestRow
  <2>. QED BY <1>1, <1>22, <2>1 DEF MoveComment
<1>23. CASE Look(r)
  <2>1. StepsOf(q.kind) = {"look", "replace", "create", "activity", "mark look", "mark", "notify"}
    BY <1>1, <1>23, Places, Steps DEF Look
  <2>2. ASSUME NEW i \in DOMAIN reviews
        PROVE  GoodRow([q EXCEPT !.pc = "replace", !.ref = i, !.row = reviews[i]])
    BY <1>1, <1>2, <2>1 DEF GoodRow, RequestRow, Place
  <2>3. \A i \in Latest(q.of) : i \in DOMAIN reviews
    BY DEF Latest
  <2>. QED BY <1>13, <1>23, <2>1, <2>2, <2>3, IdleIsGood DEF Look, Place
<1>24. CASE Replace(r) \/ CreateReview(r) \/ ReviewActivity(r)
  <2>1. StepsOf(q.kind) = {"look", "replace", "create", "activity", "mark look", "mark", "notify"}
    BY <1>1, <1>24, Places, Steps DEF Replace, CreateReview, ReviewActivity
  <2>2. ASSUME ReviewActivity(r) PROVE Len(activity') \in Nat
    <3>1. AddActivity(q.by, Draft) /\ q.by \in User /\ Draft \in Nat
      BY <1>1, <2>2 DEF GoodRow, RequestRow, ReviewActivity, Draft
    <3>. QED BY <3>1, ActivityAdded
  <2>3. ASSUME CreateReview(r) PROVE Len(reviews') \in Nat
    BY <1>2, <2>3 DEF CreateReview, TypeOK
  <2>. QED BY <1>13, <1>15, <1>24, <2>1, <2>2, <2>3
           DEF Replace, CreateReview, ReviewActivity, Place
<1>. QED BY <1>12, <1>16, <1>17, <1>18, <1>19, <1>20, <1>21, <1>22, <1>23, <1>24 DEF Step

-----------------------------------------------------------------------------
(* Which steps write what.                                                 *)

Acts(r) == Ask(r) \/ Step(r) \/ Fail(r)

LEMMA AskFrame ==
    ASSUME NEW r \in Request, Ask(r)
    PROVE  /\ UNCHANGED <<comments, reviews, activity, lastRead, notes, archived, verdict, owed>>
           /\ changes' = changes \/ changes' = changes + 1
           /\ watching' = watching \/ \E us \in SUBSET User : Watch(us)
           /\ raced' = raced \/ \E c : Copies(r, {c})
           /\ mixed' = mixed \/ \E i : StartDismiss(r, i)
           /\ late' = late \/ \E kind \in Landing : StartLanding(r, kind)
<1>. USE DEF rows, history
<1>1. ASSUME NEW u \in User, NEW a \in DOMAIN activity, ReadWorkspaceActivity(r, u, a)
      PROVE  UNCHANGED <<rows, history>>
  BY <1>1 DEF ReadWorkspaceActivity
<1>2. ASSUME NEW u \in User, NEW m \in Mentions, NEW at \in 0..changes, TopComment(r, u, at, m)
      PROVE  UNCHANGED <<rows, history>>
  BY <1>2 DEF TopComment
<1>3. ASSUME NEW u \in User, NEW m \in Mentions, NEW c \in DOMAIN comments, ReplyComment(r, u, c, m)
      PROVE  UNCHANGED <<rows, history>>
  BY <1>3 DEF ReplyComment
<1>4. ASSUME NEW kind \in {"edit", "delete", "resolve"}, NEW c \in DOMAIN comments,
             ChangeComment(r, kind, c)
      PROVE  UNCHANGED <<rows, mixed, verdict, late, owed>> /\ Copies(r, {c})
  BY <1>4 DEF ChangeComment
<1>5. ASSUME NEW kind \in Landing, StartLanding(r, kind)
      PROVE  /\ UNCHANGED <<comments, reviews, watching, activity, lastRead, notes, archived,
                            raced, mixed, verdict, owed>>
             /\ changes' = changes + 1
  BY <1>5 DEF StartLanding
<1>6. ASSUME NEW u \in User, NEW grade \in {"Approve", "Reject"}, CreateOrUpdateReview(r, u, grade)
      PROVE  /\ UNCHANGED <<comments, reviews, activity, lastRead, notes, changes, archived, history>>
             /\ \E us \in SUBSET User : Watch(us)
  BY <1>6 DEF CreateOrUpdateReview
<1>7. ASSUME NEW by \in User, NEW of \in User, RequestReview(r, by, of)
      PROVE  /\ UNCHANGED <<comments, reviews, activity, lastRead, notes, changes, archived, history>>
             /\ \E us \in SUBSET User : Watch(us)
  BY <1>7 DEF RequestReview
<1>8. ASSUME NEW i \in DOMAIN reviews, StartDismiss(r, i)
      PROVE  UNCHANGED <<rows, raced, verdict, late, owed>>
  BY <1>8 DEF StartDismiss
<1>. QED BY <1>1, <1>2, <1>3, <1>4, <1>5, <1>6, <1>7, <1>8 DEF Ask

LEMMA StepFrame ==
    ASSUME NEW r \in Request, Step(r)
    PROVE  /\ comments' = comments \/ InsertComment(r) \/ SaveComment(r) \/ MoveComment(r)
           /\ reviews' = reviews \/ Replace(r) \/ CreateReview(r) \/ DismissReview(r)
           /\ \/ activity' = activity \/ CommentActivity(r) \/ LandingActivity(r)
              \/ ReviewActivity(r) \/ SetChange(r)
           /\ watching' = watching \/ CommentWatch(r)
           /\ lastRead' = lastRead \/ Mark(r)
           /\ notes' = notes \/ CommentTell(r) \/ ReviewNotify(r)
           /\ changes' = changes
           /\ archived' = archived \/ ArchiveWithChange(r)
           /\ raced' = raced \/ ListComments(r)
           /\ mixed' = mixed \/ Look(r)
           /\ verdict' = verdict \/ CreateReview(r) \/ DismissReview(r)
           /\ \/ late' = late \/ InsertComment(r) \/ CommentActivity(r) \/ LandingActivity(r)
              \/ ReviewActivity(r)
           /\ owed' = owed \/ InsertComment(r)
  BY DEF Step, rows, history, MarkLook, Mark, InsertComment, CommentActivity, CommentWatch,
         CommentTell, SaveComment, ListComments, MoveComment, Moved, LandingActivity, SetChange,
         ArchiveWithChange, Look, Replace, CreateReview, ReviewActivity, ReviewNotify,
         DismissReview

LEMMA FailFrame ==
    ASSUME NEW r \in Request, Fail(r)
    PROVE  UNCHANGED <<comments, reviews, watching, activity, lastRead, notes, changes, archived,
                       raced, verdict, late>>
  BY DEF Fail, rows

Rest == Unarchive \/ \E u \in User : WatchWorkspace(u) \/ UnwatchWorkspace(u)

LEMMA RestFrame ==
    ASSUME Rest
    PROVE  /\ UNCHANGED <<comments, reviews, activity, lastRead, notes, changes, req, failures,
                          raced, mixed, verdict, late>>
           /\ archived' = archived \/ Unarchive
           /\ \/ watching' = watching \/ \E us \in SUBSET User : Watch(us)
              \/ \E u \in User : UnwatchWorkspace(u)
           /\ owed' = owed \/ \E u \in User : UnwatchWorkspace(u)
<1>1. CASE Unarchive
  BY <1>1 DEF Unarchive, history
<1>2. ASSUME NEW u \in User, WatchWorkspace(u)
      PROVE  /\ UNCHANGED <<comments, reviews, activity, lastRead, notes, changes, archived,
                            req, failures, history>>
             /\ \E us \in SUBSET User : Watch(us)
  BY <1>2 DEF WatchWorkspace
<1>3. ASSUME NEW u \in User, UnwatchWorkspace(u)
      PROVE  UNCHANGED <<comments, reviews, activity, lastRead, notes, changes, archived,
                         req, failures, raced, mixed, verdict, late>>
  BY <1>3 DEF UnwatchWorkspace
<1>. QED BY <1>1, <1>2, <1>3 DEF Rest, history

LEMMA NextCases ==
    ASSUME [Next]_vars
    PROVE  (\E r \in Request : Acts(r)) \/ Rest \/ UNCHANGED vars
  BY DEF Next, Acts, Rest

-----------------------------------------------------------------------------
(* Types.                                                                  *)

LEMMA RowTypes ==
    ASSUME TypeOK
    PROVE  /\ \A r \in Request : GoodRow(req[r])
           /\ \A c \in DOMAIN comments : c \in Nat /\ comments[c] \in CommentRow
           /\ \A i \in DOMAIN reviews : i \in Nat /\ reviews[i] \in ReviewRow
           /\ \A a \in DOMAIN activity : a \in Nat /\ activity[a] \in ActivityRow
           /\ comments \in Seq(CommentRow) /\ reviews \in Seq(ReviewRow)
           /\ activity \in Seq(ActivityRow)
<1>1. /\ comments \in Seq(CommentRow) /\ reviews \in Seq(ReviewRow)
      /\ activity \in Seq(ActivityRow)
  BY DEF TypeOK
<1>2. \A r \in Request : GoodRow(req[r])
  BY DEF TypeOK, GoodRow
<1>3. \A c \in DOMAIN comments : c \in Nat /\ comments[c] \in CommentRow
  BY <1>1
<1>4. \A i \in DOMAIN reviews : i \in Nat /\ reviews[i] \in ReviewRow
  BY <1>1
<1>5. \A a \in DOMAIN activity : a \in Nat /\ activity[a] \in ActivityRow
  BY <1>1
<1>. QED BY <1>1, <1>2, <1>3, <1>4, <1>5

(* A request writes over a comment it has a row of, or appends one.        *)
Saved(q) == [q.row EXCEPT !.deleted = @ \/ q.kind = "delete", !.resolved = @ \/ q.kind = "resolve"]

LEMMA SavedRow ==
    ASSUME NEW q, q.row \in CommentRow
    PROVE  /\ Saved(q) \in CommentRow
           /\ Saved(q).parent = q.row.parent /\ Saved(q).at = q.row.at
           /\ q.row.deleted => Saved(q).deleted
           /\ q.row.resolved => Saved(q).resolved
  BY DEF Saved, CommentRow

LEMMA CommentsNext ==
    ASSUME TypeOK, HoldsOK, [Next]_vars
    PROVE  /\ comments' \in Seq(CommentRow)
           /\ DOMAIN comments \subseteq DOMAIN comments'
           /\ \/ comments' = comments
              \/ \E r \in Request :
                   /\ InsertComment(r)
                   /\ DOMAIN comments' = DOMAIN comments \union {Len(comments) + 1}
                   /\ Len(comments) + 1 \notin DOMAIN comments
                   /\ \A c \in DOMAIN comments : comments'[c] = comments[c]
                   /\ comments'[Len(comments) + 1] = req[r].row
              \/ \E r \in Request :
                   /\ SaveComment(r) /\ req[r].ref \in DOMAIN comments
                   /\ req[r].row \in CommentRow
                   /\ DOMAIN comments' = DOMAIN comments
                   /\ comments'[req[r].ref] = Saved(req[r])
                   /\ \A c \in DOMAIN comments : c # req[r].ref => comments'[c] = comments[c]
              \/ \E r \in Request : \E copy \in req[r].todo :
                   /\ MoveComment(r) /\ req' = [req EXCEPT ![r].todo = @ \ {copy}]
                   /\ copy.ref \in DOMAIN comments /\ copy.row \in CommentRow
                   /\ req[r].ref \in Nat \ {Draft}
                   /\ DOMAIN comments' = DOMAIN comments
                   /\ comments'[copy.ref] = [copy.row EXCEPT !.at = req[r].ref]
                   /\ \A c \in DOMAIN comments : c # copy.ref => comments'[c] = comments[c]
<1>1. comments \in Seq(CommentRow)
  BY DEF TypeOK
<1>2. CASE comments' = comments
  BY <1>1, <1>2
<1>3. ASSUME NEW r \in Request, InsertComment(r)
      PROVE  /\ comments' \in Seq(CommentRow)
             /\ DOMAIN comments' = DOMAIN comments \union {Len(comments) + 1}
             /\ Len(comments) + 1 \notin DOMAIN comments
             /\ \A c \in DOMAIN comments : comments'[c] = comments[c]
             /\ comments'[Len(comments) + 1] = req[r].row
  <2>1. req[r].row \in CommentRow /\ comments' = Append(comments, req[r].row)
    BY <1>3 DEF InsertComment, HoldsOK, HoldsRow
  <2>. QED BY <1>1, <2>1, AppendRow
<1>4. ASSUME NEW r \in Request, SaveComment(r)
      PROVE  /\ comments' \in Seq(CommentRow)
             /\ req[r].ref \in DOMAIN comments /\ req[r].row \in CommentRow
             /\ DOMAIN comments' = DOMAIN comments
             /\ comments'[req[r].ref] = Saved(req[r])
             /\ \A c \in DOMAIN comments : c # req[r].ref => comments'[c] = comments[c]
  <2>1. /\ req[r].ref \in DOMAIN comments /\ req[r].row \in CommentRow
        /\ comments' = [comments EXCEPT ![req[r].ref] = Saved(req[r])]
    BY <1>4 DEF SaveComment, HoldsOK, HoldsRow, Saved
  <2>2. Saved(req[r]) \in CommentRow
    BY <2>1, SavedRow
  <2>. QED BY <1>1, <2>1, <2>2, WriteRow
<1>5. ASSUME NEW r \in Request, MoveComment(r)
      PROVE  \E copy \in req[r].todo :
               /\ comments' \in Seq(CommentRow)
               /\ req' = [req EXCEPT ![r].todo = @ \ {copy}]
               /\ copy.ref \in DOMAIN comments /\ copy.row \in CommentRow
               /\ req[r].ref \in Nat \ {Draft}
               /\ DOMAIN comments' = DOMAIN comments
               /\ comments'[copy.ref] = [copy.row EXCEPT !.at = req[r].ref]
               /\ \A c \in DOMAIN comments : c # copy.ref => comments'[c] = comments[c]
  <2>1. PICK copy \in req[r].todo :
          /\ comments' = [comments EXCEPT ![copy.ref] = [copy.row EXCEPT !.at = req[r].ref]]
          /\ req' = [req EXCEPT ![r].todo = @ \ {copy}]
    BY <1>5 DEF MoveComment
  <2>2. GoodRow(req[r]) /\ req[r].pc = "move"
    BY <1>5, RowTypes DEF MoveComment
  <2>3. copy.row \in CommentRow /\ copy.ref \in DOMAIN comments /\ req[r].ref \in Nat \ {Draft}
    BY <2>2, Places DEF GoodRow, RequestRow, HoldsOK, HoldsRow
  <2>4. [copy.row EXCEPT !.at = req[r].ref] \in CommentRow
    BY <2>3 DEF CommentRow
  <2>5. copy \in req[r].todo
    OBVIOUS
  <2>6. /\ comments' \in Seq(CommentRow) /\ DOMAIN comments' = DOMAIN comments
        /\ comments'[copy.ref] = [copy.row EXCEPT !.at = req[r].ref]
        /\ \A c \in DOMAIN comments : c # copy.ref => comments'[c] = comments[c]
    BY <1>1, <2>1, <2>3, <2>4, WriteRow
  <2>. QED BY <2>1, <2>3, <2>5, <2>6
<1>6. comments' = comments \/ \E r \in Request : InsertComment(r) \/ SaveComment(r) \/ MoveComment(r)
  BY NextCases, AskFrame, StepFrame, FailFrame, RestFrame DEF Acts, vars, rows
<1>. QED BY <1>2, <1>3, <1>4, <1>5, <1>6

(* Reviews change hands never, and are appended, or written over from the  *)
(* row of a request for their user.                                        *)
Fresh(q) == [user |-> q.of, grade |-> q.grade, dismissed |-> FALSE, replaced |-> FALSE]

LEMMA ReviewsNext ==
    ASSUME TypeOK, HoldsOK, [Next]_vars
    PROVE  /\ reviews' \in Seq(ReviewRow)
           /\ DOMAIN reviews \subseteq DOMAIN reviews'
           /\ \A i \in DOMAIN reviews : reviews'[i].user = reviews[i].user
           /\ \/ reviews' = reviews
              \/ \E r \in Request :
                   /\ CreateReview(r)
                   /\ DOMAIN reviews' = DOMAIN reviews \union {Len(reviews) + 1}
                   /\ Len(reviews) + 1 \notin DOMAIN reviews
                   /\ \A i \in DOMAIN reviews : reviews'[i] = reviews[i]
                   /\ reviews'[Len(reviews) + 1] = Fresh(req[r])
              \/ \E r \in Request :
                   /\ Replace(r) \/ DismissReview(r)
                   /\ req[r].ref \in DOMAIN reviews /\ req[r].row \in ReviewRow
                   /\ req[r].row.user = req[r].of /\ reviews[req[r].ref].user = req[r].of
                   /\ DOMAIN reviews' = DOMAIN reviews
                   /\ Replace(r) => reviews'[req[r].ref] = [req[r].row EXCEPT !.replaced = TRUE]
                   /\ DismissReview(r) =>
                         reviews'[req[r].ref] = [req[r].row EXCEPT !.dismissed = TRUE]
                   /\ \A i \in DOMAIN reviews : i # req[r].ref => reviews'[i] = reviews[i]
<1>1. reviews \in Seq(ReviewRow)
  BY DEF TypeOK
<1>2. CASE reviews' = reviews
  BY <1>1, <1>2
<1>3. ASSUME NEW r \in Request, CreateReview(r)
      PROVE  /\ reviews' \in Seq(ReviewRow)
             /\ DOMAIN reviews' = DOMAIN reviews \union {Len(reviews) + 1}
             /\ Len(reviews) + 1 \notin DOMAIN reviews
             /\ \A i \in DOMAIN reviews : reviews'[i] = reviews[i]
             /\ reviews'[Len(reviews) + 1] = Fresh(req[r])
  <2>1. GoodRow(req[r])
    BY RowTypes
  <2>2. Fresh(req[r]) \in ReviewRow
    BY <2>1 DEF Fresh, ReviewRow, GoodRow, RequestRow
  <2>3. reviews' = Append(reviews, Fresh(req[r]))
    BY <1>3 DEF CreateReview, Fresh
  <2>. QED BY <1>1, <2>2, <2>3, AppendRow
<1>4. ASSUME NEW r \in Request, Replace(r) \/ DismissReview(r)
      PROVE  /\ reviews' \in Seq(ReviewRow)
             /\ req[r].ref \in DOMAIN reviews /\ req[r].row \in ReviewRow
             /\ req[r].row.user = req[r].of /\ reviews[req[r].ref].user = req[r].of
             /\ reviews'[req[r].ref].user = req[r].of
             /\ DOMAIN reviews' = DOMAIN reviews
             /\ Replace(r) => reviews'[req[r].ref] = [req[r].row EXCEPT !.replaced = TRUE]
             /\ DismissReview(r) => reviews'[req[r].ref] = [req[r].row EXCEPT !.dismissed = TRUE]
             /\ \A i \in DOMAIN reviews : i # req[r].ref => reviews'[i] = reviews[i]
  <2>1. /\ req[r].ref \in DOMAIN reviews /\ req[r].row \in ReviewRow
        /\ req[r].row.user = req[r].of /\ reviews[req[r].ref].user = req[r].of
    BY <1>4 DEF Replace, DismissReview, HoldsOK, HoldsRow
  <2>2. \A row : \/ row = [req[r].row EXCEPT !.replaced = TRUE]
                 \/ row = [req[r].row EXCEPT !.dismissed = TRUE]
                 => row \in ReviewRow /\ row.user = req[r].of
    BY <2>1 DEF ReviewRow
  <2>3. CASE Replace(r)
    <3>1. reviews' = [reviews EXCEPT ![req[r].ref] = [req[r].row EXCEPT !.replaced = TRUE]]
      BY <2>3 DEF Replace
    <3>2. ~DismissReview(r)
      BY <2>3 DEF Replace, DismissReview
    <3>. QED BY <1>1, <2>1, <2>2, <3>1, <3>2, WriteRow
  <2>4. CASE DismissReview(r)
    <3>1. reviews' = [reviews EXCEPT ![req[r].ref] = [req[r].row EXCEPT !.dismissed = TRUE]]
      BY <2>4 DEF DismissReview
    <3>2. ~Replace(r)
      BY <2>4 DEF Replace, DismissReview
    <3>. QED BY <1>1, <2>1, <2>2, <3>1, <3>2, WriteRow
  <2>. QED BY <1>4, <2>3, <2>4
<1>5. \/ reviews' = reviews
      \/ \E r \in Request : CreateReview(r) \/ Replace(r) \/ DismissReview(r)
  BY NextCases, AskFrame, StepFrame, FailFrame, RestFrame DEF Acts, vars, rows
<1>6. CASE \E r \in Request : CreateReview(r)
  BY <1>3, <1>6
<1>7. CASE \E r \in Request : Replace(r) \/ DismissReview(r)
  <2>1. PICK r \in Request : Replace(r) \/ DismissReview(r)
    BY <1>7
  <2>2. \A i \in DOMAIN reviews : reviews'[i].user = reviews[i].user
    BY <2>1, <1>4
  <2>. QED BY <1>4, <2>1, <2>2
<1>. QED BY <1>2, <1>5, <1>6, <1>7

(* An activity is appended, or goes to a change if it was at the draft.    *)
LEMMA ActivityNext ==
    ASSUME TypeOK, HoldsOK, [Next]_vars
    PROVE  /\ activity' \in Seq(ActivityRow)
           /\ \/ activity' = activity
              \/ \E r \in Request :
                   /\ CommentActivity(r) \/ LandingActivity(r) \/ ReviewActivity(r)
                   /\ late' = IF archived \/ \E l \in Request : Collected(l)
                              THEN [late EXCEPT !.activity = @ \union {Len(activity')}] ELSE late
                   /\ DOMAIN activity = 1..Len(activity) /\ Len(activity) \in Nat
                   /\ Len(activity') = Len(activity) + 1
                   /\ DOMAIN activity' = DOMAIN activity \union {Len(activity')}
                   /\ \A a \in DOMAIN activity : activity'[a] = activity[a]
              \/ \E r \in Request :
                   /\ SetChange(r) /\ DOMAIN activity' = DOMAIN activity
                   /\ req[r].ref \in Nat \ {Draft}
                   /\ \A a \in DOMAIN activity :
                         activity'[a].change = IF activity[a].change = Draft THEN req[r].ref
                                               ELSE activity[a].change
<1>1. activity \in Seq(ActivityRow)
  BY DEF TypeOK
<1>2. CASE activity' = activity
  BY <1>1, <1>2
<1>3. ASSUME NEW r \in Request, CommentActivity(r) \/ LandingActivity(r) \/ ReviewActivity(r)
      PROVE  /\ activity' \in Seq(ActivityRow)
             /\ late' = IF archived \/ \E l \in Request : Collected(l)
                        THEN [late EXCEPT !.activity = @ \union {Len(activity')}] ELSE late
             /\ DOMAIN activity = 1..Len(activity) /\ Len(activity) \in Nat
             /\ Len(activity') = Len(activity) + 1
             /\ DOMAIN activity' = DOMAIN activity \union {Len(activity')}
             /\ \A a \in DOMAIN activity : activity'[a] = activity[a]
  <2>1. \E by \in User, at \in Nat : AddActivity(by, at)
    <3>1. GoodRow(req[r]) /\ req[r].by \in User /\ Owner \in User /\ Draft \in Nat
      BY RowTypes, DiscussionsAssumption DEF GoodRow, RequestRow, Draft
    <3>2. CASE CommentActivity(r)
      <4>1. req[r].row \in CommentRow /\ AddActivity(req[r].by, req[r].row.at)
        BY <3>2 DEF CommentActivity, HoldsOK, HoldsRow
      <4>2. req[r].row.at \in Nat
        BY <4>1 DEF CommentRow
      <4>. QED BY <3>1, <4>1, <4>2
    <3>3. CASE LandingActivity(r)
      BY <3>1, <3>3 DEF LandingActivity
    <3>4. CASE ReviewActivity(r)
      BY <3>1, <3>4 DEF ReviewActivity
    <3>. QED BY <1>3, <3>2, <3>3, <3>4
  <2>2. PICK by \in User, at \in Nat : AddActivity(by, at)
    BY <2>1
  <2>3. /\ activity' \in Seq(ActivityRow)
        /\ Len(activity) \in Nat /\ Len(activity') = Len(activity) + 1
        /\ DOMAIN activity = 1..Len(activity) /\ DOMAIN activity' = 1..(Len(activity) + 1)
        /\ \A a \in DOMAIN activity : activity'[a] = activity[a]
    BY <2>2, ActivityAdded
  <2>4. DOMAIN activity' = DOMAIN activity \union {Len(activity')}
    BY <2>3
  <2>. QED BY <2>2, <2>3, <2>4 DEF AddActivity
<1>4. ASSUME NEW r \in Request, SetChange(r)
      PROVE  /\ activity' \in Seq(ActivityRow) /\ DOMAIN activity' = DOMAIN activity
             /\ req[r].ref \in Nat \ {Draft}
             /\ \A a \in DOMAIN activity :
                   activity'[a].change = IF activity[a].change = Draft THEN req[r].ref
                                         ELSE activity[a].change
  <2>1. GoodRow(req[r]) /\ req[r].pc = "set"
    BY <1>4, RowTypes DEF SetChange
  <2>2. req[r].ref \in Nat \ {Draft}
    BY <2>1, Places DEF GoodRow, RequestRow, HoldsOK, HoldsRow
  <2>. DEFINE new(a) == IF activity[a].change = Draft
                        THEN [activity[a] EXCEPT !.change = req[r].ref] ELSE activity[a]
  <2>3. activity' = [a \in DOMAIN activity |-> new(a)]
    BY <1>4 DEF SetChange
  <2>4. \A a \in DOMAIN activity :
           /\ new(a) \in ActivityRow
           /\ new(a).change = IF activity[a].change = Draft THEN req[r].ref ELSE activity[a].change
    BY <2>2, RowTypes DEF ActivityRow
  <2>. HIDE DEF new
  <2>5. activity' \in Seq(ActivityRow)
    BY <1>1, <2>3, <2>4
  <2>. QED BY <2>2, <2>3, <2>4, <2>5
<1>5. \/ activity' = activity
      \/ \E r \in Request :
            CommentActivity(r) \/ LandingActivity(r) \/ ReviewActivity(r) \/ SetChange(r)
  BY NextCases, AskFrame, StepFrame, FailFrame, RestFrame DEF Acts, vars, rows
<1>6. CASE \E r \in Request : CommentActivity(r) \/ LandingActivity(r) \/ ReviewActivity(r)
  BY <1>3, <1>6
<1>7. CASE \E r \in Request : SetChange(r)
  BY <1>4, <1>7
<1>. QED BY <1>2, <1>5, <1>6, <1>7

LEMMA OthersStay ==
    ASSUME TypeOK, NEW r \in Request, Acts(r)
    PROVE  /\ req' \in [Request -> RequestRow]
           /\ GoodRow(req'[r])
           /\ \A s \in Request : s # r => req'[s] = req[s]
<1>1. PICK q : GoodRow(q) /\ req' = [req EXCEPT ![r] = q]
  BY RowStep DEF Acts
<1>. QED BY <1>1 DEF TypeOK, GoodRow

LEMMA TypeNext ==
    ASSUME TypeOK, HoldsOK, [Next]_vars
    PROVE  TypeOK'
<1>1. comments' \in Seq(CommentRow) /\ reviews' \in Seq(ReviewRow) /\ activity' \in Seq(ActivityRow)
  BY CommentsNext, ReviewsNext, ActivityNext
<1>2. req' \in [Request -> RequestRow] /\ \A r \in Request : req'[r].pc \in StepsOf(req'[r].kind)
  <2>1. ASSUME NEW r \in Request, Acts(r)
        PROVE  req' \in [Request -> RequestRow]
               /\ \A s \in Request : req'[s].pc \in StepsOf(req'[s].kind)
    BY <2>1, OthersStay DEF TypeOK, GoodRow
  <2>2. CASE Rest \/ UNCHANGED vars
    BY <2>2, RestFrame DEF TypeOK, vars
  <2>. QED BY <2>1, <2>2, NextCases
<1>3. watching' \in [User -> BOOLEAN]
  <2>1. ASSUME NEW us \in SUBSET User, Watch(us) PROVE watching' \in [User -> BOOLEAN]
    BY <2>1 DEF Watch, TypeOK
  <2>2. ASSUME NEW u \in User, UnwatchWorkspace(u) PROVE watching' \in [User -> BOOLEAN]
    BY <2>2 DEF UnwatchWorkspace, TypeOK
  <2>3. ASSUME NEW r \in Request, CommentWatch(r) PROVE watching' \in [User -> BOOLEAN]
    BY <2>3 DEF CommentWatch, Watch, TypeOK
  <2>4. \/ watching' = watching \/ \E us \in SUBSET User : Watch(us)
        \/ \E u \in User : UnwatchWorkspace(u)
        \/ \E r \in Request : CommentWatch(r)
    BY NextCases, AskFrame, StepFrame, FailFrame, RestFrame DEF Acts, vars, rows
  <2>. QED BY <2>1, <2>2, <2>3, <2>4 DEF TypeOK
<1>4. lastRead' \in [User -> Nat]
  <2>1. ASSUME NEW r \in Request, Mark(r) PROVE lastRead' \in [User -> Nat]
    <3>1. req[r].act \in Nat
      BY RowTypes DEF GoodRow, RequestRow
    <3>. QED BY <2>1, <3>1 DEF Mark, TypeOK
  <2>2. lastRead' = lastRead \/ \E r \in Request : Mark(r)
    BY NextCases, AskFrame, StepFrame, FailFrame, RestFrame DEF Acts, vars, rows
  <2>. QED BY <2>1, <2>2 DEF TypeOK
<1>5. notes' \subseteq [to : User, of : {"comment", "review"}, ref : Nat]
  <2>1. ASSUME NEW r \in Request, CommentTell(r)
        PROVE  notes' \subseteq [to : User, of : {"comment", "review"}, ref : Nat]
    <3>1. req[r].mentions \subseteq User /\ Owner \in User /\ req[r].ref \in Nat
      BY RowTypes, DiscussionsAssumption DEF GoodRow, RequestRow
    <3>. DEFINE to == IF req[r].row.at = Draft THEN Watchers ELSE req[r].mentions \union {Owner}
    <3>2. to \subseteq User
      BY <3>1 DEF Watchers
    <3>3. notes' = notes \union {[to |-> u, of |-> "comment", ref |-> req[r].ref] :
                                    u \in to \ {req[r].by}}
      BY <2>1 DEF CommentTell
    <3>. HIDE DEF to
    <3>. QED BY <3>1, <3>2, <3>3 DEF TypeOK
  <2>2. ASSUME NEW r \in Request, ReviewNotify(r)
        PROVE  notes' \subseteq [to : User, of : {"comment", "review"}, ref : Nat]
    <3>1. req[r].of \in User /\ Owner \in User /\ req[r].ref \in Nat
      BY RowTypes, DiscussionsAssumption DEF GoodRow, RequestRow
    <3>. QED BY <2>2, <3>1 DEF ReviewNotify, TypeOK
  <2>3. notes' = notes \/ \E r \in Request : CommentTell(r) \/ ReviewNotify(r)
    BY NextCases, AskFrame, StepFrame, FailFrame, RestFrame DEF Acts, vars, rows
  <2>. QED BY <2>1, <2>2, <2>3 DEF TypeOK
<1>6. changes' \in Nat /\ archived' \in BOOLEAN
  <2>1. changes' = changes \/ changes' = changes + 1
    BY NextCases, AskFrame, StepFrame, FailFrame, RestFrame DEF Acts, vars, rows
  <2>2. archived' = archived \/ archived' \in BOOLEAN
    BY NextCases, AskFrame, StepFrame, FailFrame, RestFrame
       DEF Acts, vars, rows, ArchiveWithChange, Unarchive
  <2>. QED BY <2>1, <2>2 DEF TypeOK
<1>7. raced' \subseteq Nat
  <2>1. raced' = raced \/ \E r \in Request : \E cs : Copies(r, cs)
    BY NextCases, AskFrame, StepFrame, FailFrame, RestFrame
       DEF Acts, vars, history, ListComments
  <2>2. \A s \in Request : Held(s) \subseteq Nat
    BY RowTypes DEF Held, GoodRow, RequestRow
  <2>3. ASSUME NEW r \in Request, NEW cs, Copies(r, cs)
        PROVE  raced' \subseteq Nat
    BY <2>2, <2>3 DEF Copies, TypeOK
  <2>. QED BY <2>1, <2>3 DEF TypeOK
<1>8. mixed' \subseteq User
  <2>1. \A r \in Request : req[r].of \in User
    BY RowTypes DEF GoodRow, RequestRow
  <2>2. ASSUME NEW r \in Request, Fail(r) PROVE mixed' \subseteq User
    BY <2>1, <2>2 DEF Fail, TypeOK
  <2>3. ASSUME NEW r \in Request, Look(r) PROVE mixed' \subseteq User
    BY <2>1, <2>3 DEF Look, Mixed, TypeOK
  <2>4. ASSUME NEW r \in Request, NEW i, StartDismiss(r, i) PROVE mixed' \subseteq User
    <3>1. reviews[i] \in ReviewRow /\ Mixed(reviews[i].user)
      BY <2>4, RowTypes DEF StartDismiss
    <3>2. reviews[i].user \in User
      BY <3>1 DEF ReviewRow
    <3>. QED BY <3>1, <3>2 DEF Mixed, TypeOK
  <2>5. \/ mixed' = mixed
        \/ \E r \in Request : Fail(r) \/ Look(r) \/ \E i : StartDismiss(r, i)
    BY NextCases, AskFrame, StepFrame, RestFrame DEF Acts, vars, history
  <2>. QED BY <2>2, <2>3, <2>4, <2>5 DEF TypeOK
<1>9. verdict' \in [User -> Grades \union {None}]
  <2>1. \A r \in Request : req[r].of \in User /\ req[r].grade \in Grades
    BY RowTypes DEF GoodRow, RequestRow, Grades
  <2>2. verdict \in [User -> Grades \union {None}]
    BY DEF TypeOK, Grades
  <2>3. ASSUME NEW r \in Request, CreateReview(r) \/ DismissReview(r)
        PROVE  verdict' \in [User -> Grades \union {None}]
    BY <2>1, <2>2, <2>3 DEF CreateReview, DismissReview
  <2>4. verdict' = verdict \/ \E r \in Request : CreateReview(r) \/ DismissReview(r)
    BY NextCases, AskFrame, StepFrame, RestFrame, FailFrame DEF Acts, vars, history
  <2>. QED BY <2>2, <2>3, <2>4
<1>10. late' \in [comments : SUBSET Nat, activity : SUBSET Nat]
  <2>1. late \in [comments : SUBSET Nat, activity : SUBSET Nat]
    BY DEF TypeOK
  <2>2. ASSUME NEW r \in Request, NEW kind \in Landing, StartLanding(r, kind)
        PROVE  late' \in [comments : SUBSET Nat, activity : SUBSET Nat]
    BY <2>1, <2>2 DEF StartLanding
  <2>3. ASSUME NEW r \in Request, InsertComment(r)
        PROVE  late' \in [comments : SUBSET Nat, activity : SUBSET Nat]
    <3>1. Len(comments) + 1 \in Nat
      BY DEF TypeOK
    <3>. QED BY <2>1, <2>3, <3>1 DEF InsertComment
  <2>4. ASSUME NEW r \in Request, CommentActivity(r) \/ LandingActivity(r) \/ ReviewActivity(r)
        PROVE  late' \in [comments : SUBSET Nat, activity : SUBSET Nat]
    <3>1. \E by, at : AddActivity(by, at)
      BY <2>4 DEF CommentActivity, LandingActivity, ReviewActivity
    <3>2. activity' \in Seq(ActivityRow) /\ Len(activity') \in Nat
      BY <1>1
    <3>. QED BY <2>1, <3>1, <3>2 DEF AddActivity
  <2>5. \/ late' = late
        \/ \E r \in Request :
              \/ \E kind \in Landing : StartLanding(r, kind)
              \/ InsertComment(r) \/ CommentActivity(r) \/ LandingActivity(r) \/ ReviewActivity(r)
    BY NextCases, AskFrame, StepFrame, RestFrame, FailFrame DEF Acts, vars, history
  <2>. QED BY <2>1, <2>2, <2>3, <2>4, <2>5
<1>11. owed' \subseteq User \X Nat
  <2>1. ASSUME NEW r \in Request, InsertComment(r) PROVE owed' \subseteq User \X Nat
    <3>. DEFINE concerned == req[r].mentions \union
                               (IF req[r].row.at = Draft THEN Watchers ELSE {Owner})
    <3>1. concerned \subseteq User
      <4>1. req[r].mentions \subseteq User
        BY RowTypes DEF GoodRow, RequestRow
      <4>2. Watchers \subseteq User /\ Owner \in User
        BY DiscussionsAssumption DEF Watchers
      <4>. QED BY <4>1, <4>2
    <3>4. Len(comments) + 1 \in Nat
      BY DEF TypeOK
    <3>5. owed' = owed \union ((concerned \ {req[r].by}) \X {Len(comments) + 1})
      BY <2>1 DEF InsertComment
    <3>. HIDE DEF concerned
    <3>. QED BY <3>1, <3>5, <3>4 DEF TypeOK
  <2>2. ASSUME NEW r \in Request, Fail(r) PROVE owed' \subseteq owed
    BY <2>2 DEF Fail
  <2>3. ASSUME NEW u \in User, UnwatchWorkspace(u) PROVE owed' \subseteq owed
    BY <2>3 DEF UnwatchWorkspace
  <2>4. \/ owed' = owed \/ \E u \in User : UnwatchWorkspace(u)
        \/ \E r \in Request : InsertComment(r) \/ Fail(r)
    BY NextCases, AskFrame, StepFrame, RestFrame DEF Acts, vars, history
  <2>. QED BY <2>1, <2>2, <2>3, <2>4 DEF TypeOK
<1>12. requests' \in Nat /\ failures' \in Nat
  <2>1. requests \in Nat /\ failures \in Nat
    BY DEF TypeOK
  <2>2. ASSUME NEW r \in Request, Ask(r) PROVE requests' \in Nat /\ failures' \in Nat
    <3>1. \E q : Begin(r, q)
      BY <2>2 DEF Ask, ReadWorkspaceActivity, TopComment, ReplyComment, ChangeComment,
             StartLanding, CreateOrUpdateReview, RequestReview, StartDismiss
    <3>. QED BY <2>1, <3>1 DEF Begin
  <2>3. ASSUME NEW r \in Request, Step(r) PROVE requests' = requests /\ failures' = failures
    BY <2>3 DEF Step, Goto, End, MarkLook, Mark, InsertComment, CommentActivity, CommentWatch,
         CommentTell, SaveComment, ListComments, MoveComment, Moved, LandingActivity, SetChange,
         ArchiveWithChange, Look, Replace, CreateReview, ReviewActivity, ReviewNotify,
         DismissReview
  <2>4. ASSUME NEW r \in Request, Fail(r) PROVE requests' \in Nat /\ failures' \in Nat
    BY <2>1, <2>4 DEF Fail
  <2>5. ASSUME Rest PROVE requests' \in Nat /\ failures' \in Nat
    <3>1. failures' = failures
      BY <2>5, RestFrame
    <3>2. CASE Unarchive
      BY <2>1, <3>1, <3>2 DEF Unarchive
    <3>3. CASE \E u \in User : WatchWorkspace(u) \/ UnwatchWorkspace(u)
      <4>1. requests' = requests + 1
        BY <3>3 DEF WatchWorkspace, UnwatchWorkspace
      <4>. QED BY <2>1, <3>1, <4>1
    <3>. QED BY <2>5, <3>2, <3>3 DEF Rest
  <2>. QED BY <2>1, <2>2, <2>3, <2>4, <2>5, NextCases DEF Acts, vars
<1>. QED BY <1>1, <1>2, <1>3, <1>4, <1>5, <1>6, <1>7, <1>8, <1>9, <1>10, <1>11, <1>12
         DEF TypeOK, Grades

-----------------------------------------------------------------------------
(* What a request holds.                                                   *)

LEMMA HoldsNext ==
    ASSUME TypeOK, HoldsOK, [Next]_vars
    PROVE  HoldsOK'
<1>1. /\ DOMAIN comments \subseteq DOMAIN comments'
      /\ DOMAIN reviews \subseteq DOMAIN reviews'
      /\ \A i \in DOMAIN reviews : reviews'[i].user = reviews[i].user
  BY CommentsNext, ReviewsNext
<1>2. ASSUME NEW s \in Request, req'[s] = req[s] PROVE HoldsRow(req[s])'
  BY <1>1, <1>2 DEF HoldsOK, HoldsRow
<1>3. ASSUME NEW r \in Request, Acts(r) PROVE HoldsRow(req[r])'
  <2>. DEFINE q == req[r]
  <2>1. GoodRow(q) /\ HoldsRow(q) /\ req \in [Request -> RequestRow]
    BY RowTypes DEF HoldsOK, TypeOK
  <2>2. ASSUME req'[r] = Idle PROVE HoldsRow(req[r])'
    BY <2>2 DEF HoldsRow, Idle, Landing
  <2>3. CASE Ask(r)
    <3>1. ASSUME NEW u \in User, NEW a \in DOMAIN activity, ReadWorkspaceActivity(r, u, a)
          PROVE  HoldsRow(req[r])'
      BY <2>1, <3>1 DEF ReadWorkspaceActivity, Begin, HoldsRow, Idle, Landing
    <3>2. ASSUME NEW u \in User, NEW m \in Mentions, NEW at \in 0..changes,
                 TopComment(r, u, at, m)
          PROVE  HoldsRow(req[r])'
      <4>1. at \in Nat
        BY DEF TypeOK
      <4>. QED BY <2>1, <3>2, <4>1 DEF TopComment, Begin, HoldsRow, Idle, Landing, CommentRow
    <3>3. ASSUME NEW u \in User, NEW m \in Mentions, NEW c \in DOMAIN comments,
                 ReplyComment(r, u, c, m)
          PROVE  HoldsRow(req[r])'
      <4>1. c \in Nat /\ comments[c].at \in Nat
        BY RowTypes DEF CommentRow
      <4>. QED BY <2>1, <3>3, <4>1 DEF ReplyComment, Begin, HoldsRow, Idle, Landing, CommentRow
    <3>4. ASSUME NEW kind \in {"edit", "delete", "resolve"}, NEW c \in DOMAIN comments,
                 ChangeComment(r, kind, c)
          PROVE  HoldsRow(req[r])'
      BY <1>1, <2>1, <3>4, RowTypes DEF ChangeComment, Begin, HoldsRow, Idle, Landing
    <3>5. ASSUME NEW kind \in Landing, StartLanding(r, kind)
          PROVE  HoldsRow(req[r])'
      <4>1. changes + 1 # Draft
        BY DEF TypeOK, Draft
      <4>. QED BY <2>1, <3>5, <4>1 DEF StartLanding, Begin, HoldsRow, Idle, Landing
    <3>6. ASSUME NEW u \in User, NEW grade \in {"Approve", "Reject"},
                 CreateOrUpdateReview(r, u, grade)
          PROVE  HoldsRow(req[r])'
      BY <2>1, <3>6 DEF CreateOrUpdateReview, Begin, HoldsRow, Idle, Landing
    <3>7. ASSUME NEW by \in User, NEW of \in User, RequestReview(r, by, of)
          PROVE  HoldsRow(req[r])'
      BY <2>1, <3>7 DEF RequestReview, Begin, HoldsRow, Idle, Landing
    <3>8. ASSUME NEW i \in DOMAIN reviews, StartDismiss(r, i)
          PROVE  HoldsRow(req[r])'
      BY <1>1, <2>1, <3>8, RowTypes DEF StartDismiss, Begin, HoldsRow, Idle, Landing
    <3>. QED BY <2>3, <3>1, <3>2, <3>3, <3>4, <3>5, <3>6, <3>7, <3>8 DEF Ask
  <2>4. CASE Fail(r)
    BY <2>1, <2>2, <2>4 DEF Fail
  <2>5. CASE \/ CommentTell(r) \/ SaveComment(r) \/ ArchiveWithChange(r) \/ ReviewNotify(r)
             \/ DismissReview(r)
    BY <2>1, <2>2, <2>5
       DEF CommentTell, SaveComment, ArchiveWithChange, ReviewNotify, DismissReview, End
  <2>6. ASSUME NEW pc \in Place \ {"save", "replace", "dismiss"},
               q.todo = {}, NEW n,
               \/ req'[r] = [q EXCEPT !.pc = pc]
               \/ req'[r] = [q EXCEPT !.pc = pc, !.act = n]
               \/ req'[r] = [q EXCEPT !.pc = pc, !.seen = n]
               \/ req'[r] = [q EXCEPT !.pc = pc, !.ref = n] /\ q.kind \notin Landing
        PROVE  HoldsRow(req[r])'
    <3>1. /\ req'[r].kind = q.kind /\ req'[r].pc = pc /\ req'[r].todo = {} /\ req'[r].row = q.row
          /\ q.kind \in Landing => req'[r].ref = q.ref
      BY <2>1, <2>6 DEF GoodRow, RequestRow
    <3>. QED BY <2>1, <3>1 DEF HoldsRow
  <2>7. CASE MarkLook(r)
    BY <2>1, <2>6, <2>7 DEF MarkLook, HoldsRow, Place
  <2>12. CASE Mark(r)
    <3>1. q.todo = {}
      BY <2>1, <2>12 DEF Mark, HoldsRow
    <3>2. AfterMark(q.kind) \in Place \ {"save", "replace", "dismiss"}
      BY DEF AfterMark, Place
    <3>3. req' = [req EXCEPT ![r] = Idle] \/ req' = [req EXCEPT ![r].pc = AfterMark(q.kind)]
      BY <2>12 DEF Mark, Goto, End
    <3>. QED BY <2>1, <2>2, <2>6, <3>1, <3>2, <3>3
  <2>13. CASE LandingActivity(r) \/ ReviewActivity(r)
    <3>1. /\ q.todo = {}
          /\ req' = [req EXCEPT ![r].pc = "mark look", ![r].act = Len(activity')]
      BY <2>1, <2>13 DEF LandingActivity, ReviewActivity, HoldsRow
    <3>2. req'[r] = [q EXCEPT !.pc = "mark look", !.act = Len(activity')]
      BY <2>1, <3>1
    <3>. QED BY <2>6, <3>1, <3>2 DEF Place
  <2>14. CASE SetChange(r) \/ Moved(r)
    <3>1. q.todo = {}
      BY <2>1, <2>14 DEF SetChange, Moved, HoldsRow
    <3>. QED BY <2>1, <2>6, <2>14, <3>1 DEF SetChange, Moved, Goto, Place
  <2>15. CASE InsertComment(r) \/ CommentActivity(r) \/ CommentWatch(r)
    <3>1. q.todo = {} /\ q.kind = "comment"
      BY <2>1, <2>15, Places DEF InsertComment, CommentActivity, CommentWatch, HoldsRow
    <3>2. CASE InsertComment(r)
      <4>1. req'[r] = [q EXCEPT !.pc = "activity", !.ref = Len(comments) + 1]
        BY <2>1, <3>2 DEF InsertComment
      <4>. QED BY <2>6, <3>1, <4>1 DEF Place, Landing
    <3>3. CASE CommentActivity(r) \/ CommentWatch(r)
      BY <2>1, <2>6, <3>1, <3>3 DEF CommentActivity, CommentWatch, Goto, Place
    <3>. QED BY <2>15, <3>2, <3>3
  <2>8. CASE ListComments(r)
    BY <1>1, <2>1, <2>8 DEF ListComments, HoldsRow
  <2>9. CASE MoveComment(r)
    BY <1>1, <2>1, <2>9 DEF MoveComment, HoldsRow
  <2>10. CASE Look(r)
    <3>1. q.kind = "review" /\ q.todo = {}
      BY <2>1, <2>10, Places DEF Look, HoldsRow
    <3>2. CASE Goto(r, "create")
      BY <2>1, <2>6, <3>1, <3>2 DEF Goto, Place
    <3>3. ASSUME NEW i \in Latest(q.of),
                 req' = [req EXCEPT ![r] = [q EXCEPT !.pc = "replace", !.ref = i, !.row = reviews[i]]]
          PROVE  HoldsRow(req[r])'
      <4>1. i \in DOMAIN reviews /\ reviews[i].user = q.of /\ reviews[i] \in ReviewRow
        BY RowTypes DEF Latest
      <4>2. /\ req'[r].kind = "review" /\ req'[r].pc = "replace" /\ req'[r].todo = {}
            /\ req'[r].ref = i /\ req'[r].row = reviews[i] /\ req'[r].of = q.of
        BY <2>1, <3>1, <3>3 DEF GoodRow, RequestRow
      <4>. QED BY <1>1, <4>1, <4>2 DEF HoldsRow, Landing
    <3>. QED BY <2>1, <2>2, <2>10, <3>2, <3>3 DEF Look
  <2>11. CASE Replace(r) \/ CreateReview(r)
    <3>1. q.kind \notin Landing /\ q.todo = {}
      BY <2>1, <2>11, Places DEF Replace, CreateReview, HoldsRow, Landing
    <3>2. CASE Replace(r)
      BY <2>1, <2>6, <3>1, <3>2 DEF Replace, Goto, Place
    <3>3. CASE CreateReview(r)
      <4>1. req'[r] = [q EXCEPT !.pc = "activity", !.ref = Len(reviews')]
        BY <2>1, <3>3 DEF CreateReview
      <4>. QED BY <2>6, <3>1, <4>1 DEF Place
    <3>. QED BY <2>11, <3>2, <3>3
  <2>. QED BY <1>3, <2>3, <2>4, <2>5, <2>7, <2>8, <2>9, <2>10, <2>11, <2>12, <2>13, <2>14, <2>15
           DEF Acts, Step
<1>4. ASSUME NEW r \in Request, Acts(r) PROVE HoldsOK'
  BY <1>2, <1>3, <1>4, OthersStay DEF HoldsOK
<1>5. CASE Rest \/ UNCHANGED vars
  BY <1>2, <1>5, RestFrame DEF HoldsOK, vars
<1>. QED BY <1>4, <1>5, NextCases

-----------------------------------------------------------------------------
(* From which step to which a request goes, and how.                       *)

Goes(r, from, to) == req[r].pc = from /\ req'[r].pc = to /\ req'[r].kind = req[r].kind

Asks(r) ==
    \/ req'[r].kind = "read" /\ req'[r].pc = "mark look"
    \/ req'[r].kind = "comment" /\ req'[r].pc = "insert"
    \/ req'[r].kind = "review" /\ req'[r].pc = "look"
    \/ req'[r].kind = "land" /\ req'[r].pc = "list"
    \/ req'[r].kind = "merge" /\ req'[r].pc = "activity"

CopiesOne(r) ==
    /\ req'[r].kind \in {"edit", "delete", "resolve"} /\ req'[r].pc = "save"
    /\ \E kind \in {"edit", "delete", "resolve"}, c \in DOMAIN comments : ChangeComment(r, kind, c)

Dismisses(r) ==
    /\ req'[r].kind = "dismiss" /\ req'[r].pc = "dismiss"
    /\ \E i \in DOMAIN reviews : StartDismiss(r, i)

CommentGoes(r) ==
    /\ req[r].kind = "comment"
    /\ \/ InsertComment(r) /\ Goes(r, "insert", "activity")
       \/ CommentActivity(r) /\ Goes(r, "activity", IF req[r].row.at = Draft THEN "watch" ELSE "tell")
       \/ CommentWatch(r) /\ Goes(r, "watch", "tell")

MarkGoes(r) == Goes(r, "mark look", "mark") \/ Goes(r, "mark", AfterMark(req[r].kind))

LandingGoes(r) ==
    /\ req[r].kind \in Landing
    /\ \/ ListComments(r) /\ Goes(r, "list", "move")
       \/ MoveComment(r) /\ Goes(r, "move", "move")
       \/ Moved(r) /\ Goes(r, "move", IF req[r].kind = "land" THEN "activity" ELSE "archive")
       \/ LandingActivity(r) /\ Goes(r, "activity", "mark look")
       \/ SetChange(r) /\ Goes(r, "set", IF req[r].kind = "land" THEN "archive" ELSE "list")

ReviewGoes(r) ==
    /\ req[r].kind = "review"
    /\ \/ Look(r) /\ (Goes(r, "look", "create") \/ Goes(r, "look", "replace"))
       \/ Replace(r) /\ Goes(r, "replace", "create")
       \/ CreateReview(r) /\ Goes(r, "create", "activity")
       \/ ReviewActivity(r) /\ Goes(r, "activity", "mark look")

LEMMA Moves ==
    ASSUME TypeOK, NEW r \in Request, Acts(r)
    PROVE  \/ req'[r] = Idle
           \/ Ask(r) /\ Asks(r) /\ req'[r].todo = {}
           \/ CopiesOne(r) \/ Dismisses(r)
           \/ CommentGoes(r) \/ MarkGoes(r) \/ LandingGoes(r) \/ ReviewGoes(r)
<1>1. GoodRow(req[r]) /\ req \in [Request -> RequestRow]
  BY RowTypes DEF TypeOK
<1>. USE <1>1 DEF GoodRow, RequestRow
<1>2. ASSUME Ask(r)
      PROVE  (Asks(r) /\ req'[r].todo = {}) \/ CopiesOne(r) \/ Dismisses(r)
  <2>1. ASSUME NEW kind \in {"edit", "delete", "resolve"}, NEW c \in DOMAIN comments,
               ChangeComment(r, kind, c)
        PROVE  req'[r].kind \in {"edit", "delete", "resolve"} /\ req'[r].pc = "save"
    BY <2>1 DEF ChangeComment, Begin, Idle
  <2>2. ASSUME NEW i \in DOMAIN reviews, StartDismiss(r, i)
        PROVE  req'[r].kind = "dismiss" /\ req'[r].pc = "dismiss"
    BY <2>2 DEF StartDismiss, Begin, Idle
  <2>3. ASSUME NEW u \in User, NEW a \in DOMAIN activity, ReadWorkspaceActivity(r, u, a)
        PROVE  Asks(r) /\ req'[r].todo = {}
    BY <2>3 DEF ReadWorkspaceActivity, Begin, Idle, Asks
  <2>4. ASSUME NEW u \in User, NEW m \in Mentions, NEW at \in 0..changes, TopComment(r, u, at, m)
        PROVE  Asks(r) /\ req'[r].todo = {}
    BY <2>4 DEF TopComment, Begin, Idle, Asks
  <2>5. ASSUME NEW u \in User, NEW m \in Mentions, NEW c \in DOMAIN comments,
               ReplyComment(r, u, c, m)
        PROVE  Asks(r) /\ req'[r].todo = {}
    BY <2>5 DEF ReplyComment, Begin, Idle, Asks
  <2>6. ASSUME NEW kind \in Landing, StartLanding(r, kind)
        PROVE  Asks(r) /\ req'[r].todo = {}
    BY <2>6 DEF StartLanding, Begin, Idle, Asks, Landing
  <2>7. ASSUME NEW u \in User, NEW grade \in {"Approve", "Reject"}, CreateOrUpdateReview(r, u, grade)
        PROVE  Asks(r) /\ req'[r].todo = {}
    BY <2>7 DEF CreateOrUpdateReview, Begin, Idle, Asks
  <2>8. ASSUME NEW by \in User, NEW of \in User, RequestReview(r, by, of)
        PROVE  Asks(r) /\ req'[r].todo = {}
    BY <2>8 DEF RequestReview, Begin, Idle, Asks
  <2>. QED BY <1>2, <2>1, <2>2, <2>3, <2>4, <2>5, <2>6, <2>7, <2>8 DEF Ask, CopiesOne, Dismisses
<1>3. CASE Fail(r) \/ CommentTell(r) \/ SaveComment(r) \/ ArchiveWithChange(r) \/ ReviewNotify(r)
           \/ DismissReview(r)
  <2>1. req'[r] = Idle
    BY <1>3 DEF Fail, End, CommentTell, SaveComment, ArchiveWithChange, ReviewNotify,
           DismissReview
  <2>. QED BY <2>1
<1>4. ASSUME InsertComment(r) PROVE Goes(r, "insert", "activity") /\ req[r].kind = "comment"
  BY <1>4 DEF InsertComment, Goes
<1>5. ASSUME CommentActivity(r)
      PROVE  /\ Goes(r, "activity", IF req[r].row.at = Draft THEN "watch" ELSE "tell")
             /\ req[r].kind = "comment"
  BY <1>5 DEF CommentActivity, Goto, Goes
<1>6. ASSUME CommentWatch(r) PROVE Goes(r, "watch", "tell") /\ req[r].kind = "comment"
  BY <1>6, Places DEF CommentWatch, Goto, Goes
<1>7. ASSUME MarkLook(r) PROVE Goes(r, "mark look", "mark")
  BY <1>7 DEF MarkLook, Goes
<1>8. ASSUME Mark(r) PROVE Goes(r, "mark", AfterMark(req[r].kind)) \/ req'[r] = Idle
  BY <1>8 DEF Mark, Goto, End, Goes
<1>9. ASSUME ListComments(r) PROVE Goes(r, "list", "move") /\ req[r].kind \in Landing
  BY <1>9, Places DEF ListComments, Goes
<1>10. ASSUME MoveComment(r) PROVE Goes(r, "move", "move") /\ req[r].kind \in Landing
  <2>1. PICK copy \in req[r].todo : req' = [req EXCEPT ![r].todo = @ \ {copy}]
    BY <1>10 DEF MoveComment
  <2>. QED BY <1>10, <2>1, Places DEF MoveComment, Goes
<1>11. ASSUME Moved(r)
       PROVE  /\ Goes(r, "move", IF req[r].kind = "land" THEN "activity" ELSE "archive")
              /\ req[r].kind \in Landing
  BY <1>11, Places, Zenon DEF Moved, Goto, Goes
<1>12. ASSUME LandingActivity(r) PROVE Goes(r, "activity", "mark look") /\ req[r].kind \in Landing
  BY <1>12 DEF LandingActivity, Goes
<1>13. ASSUME SetChange(r)
       PROVE  /\ Goes(r, "set", IF req[r].kind = "land" THEN "archive" ELSE "list")
              /\ req[r].kind \in Landing
  BY <1>13, Places DEF SetChange, Goto, Goes
<1>14. ASSUME Look(r)
       PROVE  \/ req'[r] = Idle
              \/ /\ Goes(r, "look", "create") \/ Goes(r, "look", "replace")
                 /\ req[r].kind = "review"
  <2>1. req[r].kind = "review"
    BY <1>14, Places DEF Look
  <2>2. CASE Goto(r, "create")
    BY <1>14, <2>1, <2>2 DEF Look, Goto, Goes
  <2>3. ASSUME NEW i \in Latest(req[r].of),
               req' = [req EXCEPT ![r] = IF Stands(reviews[i], req[r].grade) THEN Idle
                         ELSE [req[r] EXCEPT !.pc = "replace", !.ref = i, !.row = reviews[i]]]
        PROVE  req'[r] = Idle \/ Goes(r, "look", "replace")
    BY <1>14, <2>1, <2>3 DEF Look, Goes
  <2>. QED BY <1>14, <2>1, <2>2, <2>3 DEF Look
<1>15. ASSUME Replace(r) PROVE Goes(r, "replace", "create") /\ req[r].kind = "review"
  BY <1>15, Places DEF Replace, Goto, Goes
<1>16. ASSUME CreateReview(r) PROVE Goes(r, "create", "activity") /\ req[r].kind = "review"
  BY <1>16, Places DEF CreateReview, Goes
<1>17. ASSUME ReviewActivity(r) PROVE Goes(r, "activity", "mark look") /\ req[r].kind = "review"
  BY <1>17 DEF ReviewActivity, Goes
<1>18. \/ Ask(r) \/ Fail(r) \/ CommentTell(r) \/ SaveComment(r) \/ ArchiveWithChange(r)
       \/ ReviewNotify(r) \/ DismissReview(r) \/ InsertComment(r) \/ CommentActivity(r)
       \/ CommentWatch(r) \/ MarkLook(r) \/ Mark(r) \/ ListComments(r) \/ MoveComment(r)
       \/ Moved(r) \/ LandingActivity(r) \/ SetChange(r) \/ Look(r) \/ Replace(r)
       \/ CreateReview(r) \/ ReviewActivity(r)
  BY DEF Acts, Step
<1>19. CASE InsertComment(r) \/ CommentActivity(r) \/ CommentWatch(r)
  BY <1>4, <1>5, <1>6, <1>19 DEF CommentGoes
<1>20. CASE MarkLook(r) \/ Mark(r)
  BY <1>7, <1>8, <1>20 DEF MarkGoes
<1>21. CASE \/ ListComments(r) \/ MoveComment(r) \/ Moved(r) \/ LandingActivity(r)
            \/ SetChange(r)
  BY <1>9, <1>10, <1>11, <1>12, <1>13, <1>21 DEF LandingGoes
<1>22. CASE Look(r) \/ Replace(r) \/ CreateReview(r) \/ ReviewActivity(r)
  BY <1>14, <1>15, <1>16, <1>17, <1>22 DEF ReviewGoes
<1>. QED BY <1>2, <1>3, <1>18, <1>19, <1>20, <1>21, <1>22

(* Every request is at a step of its kind, and holds what it writes there. *)
THEOREM TypeCorrect == Spec => [](TypeOK /\ HoldsOK)
<1>1. Init => TypeOK /\ HoldsOK
  <2>. SUFFICES ASSUME Init PROVE TypeOK /\ HoldsOK
    OBVIOUS
  <2>1. GoodRow(Idle)
    BY IdleIsGood
  <2>2. \A r \in Request : req[r] = Idle
    BY DEF Init
  <2>3. HoldsOK
    BY <2>2 DEF HoldsOK, HoldsRow, Idle, Landing
  <2>4. req \in [Request -> RequestRow] /\ \A r \in Request : req[r].pc \in StepsOf(req[r].kind)
    BY <2>1, <2>2 DEF Init, GoodRow
  <2>5. comments \in Seq(CommentRow) /\ reviews \in Seq(ReviewRow) /\ activity \in Seq(ActivityRow)
    BY DEF Init
  <2>6. /\ watching \in [User -> BOOLEAN] /\ lastRead \in [User -> Nat]
        /\ notes \subseteq [to : User, of : {"comment", "review"}, ref : Nat]
        /\ changes \in Nat /\ archived \in BOOLEAN /\ requests \in Nat /\ failures \in Nat
        /\ raced \subseteq Nat /\ mixed \subseteq User
        /\ verdict \in [User -> {"Requested", "Approve", "Reject", None}]
        /\ owed \subseteq User \X Nat
    BY DEF Init
  <2>7. late \in [comments : SUBSET Nat, activity : SUBSET Nat]
    BY DEF Init
  <2>. QED BY <2>3, <2>4, <2>5, <2>6, <2>7 DEF TypeOK
<1>2. TypeOK /\ HoldsOK /\ [Next]_vars => (TypeOK /\ HoldsOK)'
  BY TypeNext, HoldsNext
<1>. QED BY <1>1, <1>2, PTL DEF Spec

-----------------------------------------------------------------------------
(* Copies of comments.                                                     *)

Keeps(r) ==
    /\ Held(r)' \subseteq Held(r) /\ req'[r].todo \subseteq req[r].todo
    /\ req'[r].pc = "save" => req'[r] = req[r]

Takes(r, cs) ==
    /\ Held(r)' = cs /\ cs \subseteq DOMAIN comments /\ Copies(r, cs) /\ comments' = comments
    /\ req'[r].pc = "save" => req'[r].row = comments[req'[r].ref]
    /\ \A copy \in req'[r].todo : copy.row = comments[copy.ref]

LEMMA HeldNext ==
    ASSUME TypeOK, HoldsOK, NEW r \in Request, Acts(r)
    PROVE  Keeps(r) \/ \E cs : Takes(r, cs)
<1>1. GoodRow(req[r]) /\ HoldsRow(req[r]) /\ req \in [Request -> RequestRow]
  BY RowTypes DEF TypeOK, HoldsOK
<1>2. ASSUME req'[r].todo = {}, req'[r].pc # "save" PROVE Keeps(r)
  BY <1>2 DEF Keeps, Held
<1>3. CASE CopiesOne(r)
  <2>1. PICK kind \in {"edit", "delete", "resolve"}, c \in DOMAIN comments : ChangeComment(r, kind, c)
    BY <1>3 DEF CopiesOne
  <2>2. /\ req'[r].pc = "save" /\ req'[r].ref = c /\ req'[r].row = comments[c]
        /\ req'[r].todo = {}
    BY <1>1, <2>1 DEF ChangeComment, Begin, Idle
  <2>3. Copies(r, {c}) /\ comments' = comments
    BY <2>1 DEF ChangeComment, rows
  <2>4. Held(r)' = {c}
    BY <2>2 DEF Held
  <2>5. Takes(r, {c})
    BY <2>2, <2>3, <2>4 DEF Takes
  <2>. QED BY <2>5
<1>4. CASE ListComments(r)
  <2>. DEFINE cs == {c \in DOMAIN comments :
                       comments[c].at = Draft /\ comments[c].parent = 0 /\ ~comments[c].deleted}
              todo == {[ref |-> c, row |-> comments[c]] : c \in cs}
  <2>1. Copies(r, cs) /\ comments' = comments /\ req' = [req EXCEPT ![r].pc = "move", ![r].todo = todo]
    BY <1>4 DEF ListComments, rows
  <2>2. cs \subseteq DOMAIN comments /\ \A copy \in todo : copy.row = comments[copy.ref]
    OBVIOUS
  <2>3. {copy.ref : copy \in todo} = cs
    <3>1. \A c \in cs : [ref |-> c, row |-> comments[c]] \in todo
      OBVIOUS
    <3>2. \A c \in cs : \E copy \in todo : copy.ref = c
      BY <3>1
    <3>3. \A copy \in todo : copy.ref \in cs
      OBVIOUS
    <3>. HIDE DEF todo, cs
    <3>. QED BY <3>2, <3>3
  <2>. HIDE DEF todo, cs
  <2>4. req'[r].pc = "move" /\ req'[r].todo = todo
    BY <1>1, <2>1 DEF RequestRow, GoodRow
  <2>5. Held(r)' = cs
    BY <2>3, <2>4 DEF Held
  <2>6. Takes(r, cs)
    BY <2>1, <2>2, <2>4, <2>5 DEF Takes
  <2>. QED BY <2>6
<1>5. CASE MoveComment(r)
  <2>1. PICK copy \in req[r].todo : req' = [req EXCEPT ![r].todo = @ \ {copy}]
    BY <1>5 DEF MoveComment
  <2>2. req'[r].todo = req[r].todo \ {copy} /\ req'[r].pc = "move" /\ req[r].pc = "move"
    BY <1>1, <1>5, <2>1 DEF RequestRow, GoodRow, MoveComment
  <2>3. Keeps(r)
    BY <2>2 DEF Keeps, Held
  <2>. QED BY <2>3
<1>6. ASSUME ~CopiesOne(r), ~ListComments(r), ~MoveComment(r)
      PROVE  Keeps(r)
  <2>1. [Next]_vars
    BY DEF Next, Acts
  <2>2. HoldsRow(req[r])'
    BY <2>1, HoldsNext DEF HoldsOK
  <2>3. CASE req'[r] = Idle
    BY <1>2, <2>3 DEF Idle
  <2>4. CASE Ask(r) /\ Asks(r) /\ req'[r].todo = {}
    BY <1>2, <2>4 DEF Asks
  <2>5. ASSUME req'[r].pc \notin {"save", "move"} PROVE Keeps(r)
    BY <1>2, <2>2, <2>5 DEF HoldsRow
  <2>6. CASE Dismisses(r)
    BY <2>5, <2>6 DEF Dismisses
  <2>7. CASE CommentGoes(r)
    BY <2>5, <2>7 DEF CommentGoes, Goes
  <2>8. CASE MarkGoes(r)
    BY <2>5, <2>8 DEF MarkGoes, Goes, AfterMark
  <2>9. CASE LandingGoes(r)
    BY <1>6, <2>5, <2>9 DEF LandingGoes, Goes
  <2>10. CASE ReviewGoes(r)
    BY <2>5, <2>10 DEF ReviewGoes, Goes
  <2>. QED BY <1>6, <2>3, <2>4, <2>6, <2>7, <2>8, <2>9, <2>10, Moves
<1>. QED BY <1>3, <1>4, <1>5, <1>6

LEMMA CopiesNext ==
    ASSUME TypeOK, HoldsOK, CopiesOK, [Next]_vars
    PROVE  CopiesOK' /\ raced \subseteq raced'
<1>1. raced \subseteq raced'
  <2>1. raced' = raced \/ \E r \in Request : \E cs : Copies(r, cs)
    BY NextCases, AskFrame, StepFrame, FailFrame, RestFrame
       DEF Acts, vars, history, ListComments
  <2>. QED BY <2>1 DEF Copies
<1>2. CASE UNCHANGED <<req, comments>>
  <2>1. \A r \in Request : Held(r)' = Held(r)
    BY <1>2 DEF Held
  <2>. QED BY <1>1, <1>2, <2>1 DEF CopiesOK
<1>3. ASSUME NEW r \in Request, Acts(r)
      PROVE  CopiesOK'
  <2>1. /\ \A s \in Request : s # r => req'[s] = req[s]
        /\ \A s \in Request : s # r => Held(s)' = Held(s)
    BY <1>3, OthersStay DEF Held
  <2>2. Keeps(r) \/ \E cs : Takes(r, cs)
    BY <1>3, HeldNext
  <2>3. ASSUME NEW s \in Request, s # r PROVE Held(r)' \intersect Held(s)' \subseteq raced'
    <3>1. CASE Keeps(r)
      BY <1>1, <2>1, <2>3, <3>1 DEF Keeps, CopiesOK
    <3>2. ASSUME NEW cs, Takes(r, cs)
          PROVE  Held(r)' \intersect Held(s)' \subseteq raced'
      BY <2>1, <2>3, <3>2 DEF Takes, Copies
    <3>. QED BY <2>2, <3>1, <3>2
  <2>4. ASSUME NEW s \in Request, NEW t \in Request, s # t
        PROVE  Held(s)' \intersect Held(t)' \subseteq raced'
    <3>1. CASE s # r /\ t # r
      BY <1>1, <2>1, <2>4, <3>1 DEF CopiesOK
    <3>2. CASE s = r
      BY <2>3, <2>4, <3>2
    <3>3. CASE t = r
      BY <2>3, <2>4, <3>3
    <3>. QED BY <3>1, <3>2, <3>3
  <2>. DEFINE Was(s) == /\ req'[s].pc = "save" /\ req'[s].ref \notin raced' =>
                               req'[s].row = comments[req'[s].ref]
                        /\ \A copy \in req'[s].todo :
                               copy.ref \notin raced' => copy.row = comments[copy.ref]
  <2>5. ASSUME NEW s \in Request PROVE Was(s)
    <3>1. CASE s # r \/ Keeps(r)
      BY <1>1, <2>1, <3>1 DEF CopiesOK, Keeps
    <3>2. ASSUME s = r, NEW cs, Takes(r, cs) PROVE Was(s)
      BY <3>2 DEF Takes
    <3>. QED BY <2>2, <3>1, <3>2
  <2>6. \A s \in Request :
          /\ req'[s].pc = "save" => req'[s].ref \in DOMAIN comments /\ req'[s].ref \in Held(s)'
          /\ \A copy \in req'[s].todo : copy.ref \in DOMAIN comments
          /\ req'[s].pc # "save" => \A copy \in req'[s].todo : copy.ref \in Held(s)'
    <3>1. ASSUME NEW s \in Request
          PROVE  /\ req'[s].pc = "save" => req'[s].ref \in Held(s)'
                 /\ req'[s].pc # "save" => \A copy \in req'[s].todo : copy.ref \in Held(s)'
      BY DEF Held
    <3>2. \A s \in Request : Held(s)' \subseteq DOMAIN comments
      <4>1. \A s \in Request : Held(s) \subseteq DOMAIN comments
        BY DEF Held, HoldsOK, HoldsRow
      <4>. QED BY <2>1, <2>2, <4>1 DEF Keeps, Takes
    <3>3. \A s \in Request : req'[s].pc = "save" => req'[s].todo = {}
      <4>1. HoldsOK'
        BY <1>3, HoldsNext
      <4>. QED BY <4>1 DEF HoldsOK, HoldsRow
    <3>. QED BY <3>1, <3>2, <3>3
  <2>. DEFINE Is(s) == /\ req'[s].pc = "save" /\ req'[s].ref \notin raced' =>
                              req'[s].row = comments'[req'[s].ref]
                       /\ \A copy \in req'[s].todo :
                              copy.ref \notin raced' => copy.row = comments'[copy.ref]
  <2>7. ASSUME NEW c, NEW s \in Request,
               \A d \in DOMAIN comments : d # c => comments'[d] = comments[d],
               req'[s].pc = "save" /\ req'[s].ref \notin raced' => req'[s].ref # c,
               \A copy \in req'[s].todo : copy.ref \notin raced' => copy.ref # c
        PROVE  Is(s)
    BY <2>5, <2>6, <2>7
  <2>8. ASSUME NEW s \in Request, comments' = comments PROVE Is(s)
    BY <2>5, <2>8
  <2>9. ASSUME NEW s \in Request, NEW o \in Request, InsertComment(o) PROVE Is(s)
    <3>1. Len(comments) + 1 \notin DOMAIN comments
          /\ \A c \in DOMAIN comments : comments'[c] = comments[c]
      <4>1. /\ comments \in Seq(CommentRow) /\ req[o].row \in CommentRow
            /\ comments' = Append(comments, req[o].row)
        BY <2>9 DEF InsertComment, HoldsOK, HoldsRow, TypeOK
      <4>. QED BY <4>1, AppendRow
    <3>. QED BY <2>5, <2>6, <3>1
  <2>10. ASSUME NEW s \in Request, NEW o \in Request, NEW c \in Held(o),
                req'[s] = req[s], s # o, c \in DOMAIN comments,
                \A d \in DOMAIN comments : d # c => comments'[d] = comments[d]
         PROVE  Is(s)
    <3>1. req'[s].pc = "save" \/ req'[s].pc # "save"
      OBVIOUS
    <3>2. Held(s)' = Held(s) /\ (c \in Held(s) => c \in raced')
      BY <1>1, <2>10 DEF Held, CopiesOK
    <3>3. req'[s].pc = "save" => req'[s].ref \in Held(s)' /\ req'[s].todo = {}
      BY <2>6, <2>10 DEF HoldsOK, HoldsRow
    <3>. QED BY <2>6, <2>7, <2>10, <3>2, <3>3
  <2>11. ASSUME NEW o \in Request, SaveComment(o) PROVE \A s \in Request : Is(s)
    <3>1. /\ req' = [req EXCEPT ![o] = Idle] /\ req[o].pc = "save" /\ req[o].ref \in DOMAIN comments
          /\ \A c \in DOMAIN comments : c # req[o].ref => comments'[c] = comments[c]
      BY <2>11 DEF SaveComment, End, HoldsOK, HoldsRow, TypeOK
    <3>2. req'[o].pc = "idle" /\ req'[o].todo = {}
      BY <3>1 DEF TypeOK, Idle
    <3>3. req[o].ref \in Held(o)
      BY <3>1 DEF Held
    <3>4. \A s \in Request : s # o => req'[s] = req[s]
      BY <3>1 DEF TypeOK
    <3>5. Is(o)
      BY <3>2
    <3>. QED BY <2>10, <3>1, <3>3, <3>4, <3>5
  <2>12. ASSUME NEW o \in Request, NEW copy \in req[o].todo, MoveComment(o),
                req' = [req EXCEPT ![o].todo = @ \ {copy}], copy.ref \in DOMAIN comments,
                \A c \in DOMAIN comments : c # copy.ref => comments'[c] = comments[c]
         PROVE  \A s \in Request : Is(s)
    <3>1. req[o].pc = "move" /\ req'[o].pc = "move" /\ req'[o].todo = req[o].todo \ {copy}
      BY <2>12 DEF MoveComment, TypeOK, RequestRow
    <3>2. copy.ref \in Held(o)
      BY <3>1 DEF Held
    <3>3. \A s \in Request : s # o => req'[s] = req[s]
      BY <2>12 DEF TypeOK
    <3>4. ASSUME NEW other \in req'[o].todo, other.ref \notin raced'
          PROVE  other.ref # copy.ref
      <4>1. other \in req[o].todo /\ copy \in req[o].todo /\ other # copy
        BY <3>1
      <4>2. other.ref = copy.ref => other.row = copy.row
        BY <1>1, <3>4, <4>1 DEF CopiesOK
      <4>3. /\ other \in [ref : Nat, row : CommentRow]
            /\ copy \in [ref : Nat, row : CommentRow]
        BY <4>1, RowTypes DEF GoodRow, RequestRow
      <4>. QED BY <4>1, <4>2, <4>3
    <3>5. Is(o)
      BY <2>7, <2>12, <3>1, <3>4
    <3>. QED BY <2>10, <2>12, <3>2, <3>3, <3>5
  <2>13. \A s \in Request : Is(s)
    <3>1. [Next]_vars
      BY <1>3 DEF Next, Acts
    <3>. HIDE DEF Is
    <3>. QED BY <2>8, <2>9, <2>11, <2>12, <3>1, CommentsNext
  <2>. QED BY <2>4, <2>13 DEF CopiesOK
<1>. QED BY <1>1, <1>2, <1>3, NextCases, RestFrame DEF vars, rows

(* A write of a comment of which no other request has a copy.              *)
TakesNothingBack ==
    /\ \A c \in DOMAIN comments \ raced' :
          /\ comments[c].deleted => comments'[c].deleted
          /\ comments[c].resolved => comments'[c].resolved
          /\ comments[c].at # Draft => comments'[c].at = comments[c].at
    /\ \A a \in DOMAIN activity :
          activity[a].change # Draft => activity'[a].change = activity[a].change

LEMMA WritesNext ==
    ASSUME TypeOK, HoldsOK, CopiesOK, [Next]_vars, NEW c \in DOMAIN comments \ raced
    PROVE  /\ comments[c].deleted => comments'[c].deleted
           /\ comments[c].resolved => comments'[c].resolved
           /\ comments[c].at # Draft => comments'[c].at = comments[c].at
           /\ comments'[c].at = Draft => comments[c].at = Draft
           /\ comments'[c].parent = comments[c].parent
<1>1. CASE comments'[c] = comments[c]
  BY <1>1
<1>2. ASSUME NEW r \in Request, SaveComment(r), req[r].ref = c, req[r].row \in CommentRow,
             comments'[c] = Saved(req[r])
      PROVE  /\ comments[c].deleted => comments'[c].deleted
             /\ comments[c].resolved => comments'[c].resolved
             /\ comments'[c].at = comments[c].at
             /\ comments'[c].parent = comments[c].parent
  <2>1. req[r].row = comments[c]
    BY <1>2 DEF SaveComment, CopiesOK
  <2>. QED BY <1>2, <2>1, SavedRow
<1>3. ASSUME NEW r \in Request, NEW copy \in req[r].todo, copy.ref = c, copy.row \in CommentRow,
             req[r].ref \in Nat \ {Draft},
             comments'[c] = [copy.row EXCEPT !.at = req[r].ref]
      PROVE  /\ comments[c].deleted => comments'[c].deleted
             /\ comments[c].resolved => comments'[c].resolved
             /\ comments[c].at = Draft /\ comments'[c].at # Draft
             /\ comments'[c].parent = comments[c].parent
  <2>1. copy.row = comments[c] /\ copy.row.at = Draft
    BY <1>3 DEF CopiesOK, HoldsOK, HoldsRow
  <2>. QED BY <1>3, <2>1 DEF CommentRow
<1>. QED BY <1>1, <1>2, <1>3, CommentsNext

LEMMA NothingBack ==
    ASSUME TypeOK, HoldsOK, CopiesOK, [Next]_vars
    PROVE  TakesNothingBack
<1>1. raced \subseteq raced'
  BY CopiesNext
<1>2. \A a \in DOMAIN activity :
         activity[a].change # Draft => activity'[a].change = activity[a].change
  BY ActivityNext
<1>. QED BY <1>1, <1>2, WritesNext DEF TakesNothingBack

LEMMA CopiesInit == Init => CopiesOK
<1>. SUFFICES ASSUME Init PROVE CopiesOK
  OBVIOUS
<1>1. \A r \in Request : req[r] = Idle
  BY DEF Init
<1>. QED BY <1>1 DEF CopiesOK, Held, Idle

(* No step takes back what was done to a comment, nor moves an activity or *)
(* a comment that went with a change, but for comments that two requests   *)
(* had a copy of at a time.                                                *)
THEOREM NothingIsTakenBack == Spec => NothingTakenBack
<1>1. CopiesOK /\ TypeOK /\ HoldsOK /\ [Next]_vars => CopiesOK' /\ TakesNothingBack
  BY CopiesNext, NothingBack
<1>2. NothingTakenBack <=> [][TakesNothingBack]_vars
  BY DEF NothingTakenBack, TakesNothingBack
<1>. QED BY <1>1, <1>2, CopiesInit, TypeCorrect, PTL DEF Spec

-----------------------------------------------------------------------------
(* What a landing takes.                                                   *)

LEMMA LateNext ==
    ASSUME TypeOK, HoldsOK, [Next]_vars,
           archived \/ \E l \in Request : Listed(l) \/ Collected(l)
    PROVE  /\ late.comments \subseteq late'.comments
           /\ late.activity \subseteq late'.activity
<1>1. ASSUME NEW r \in Request, NEW kind \in Landing, StartLanding(r, kind)
      PROVE  late' = late
  BY <1>1 DEF StartLanding, Listed, Collected
<1>2. late \in [comments : SUBSET Nat, activity : SUBSET Nat]
  BY DEF TypeOK
<1>3. ASSUME NEW r \in Request, InsertComment(r)
      PROVE  /\ late.comments \subseteq late'.comments
             /\ late.activity \subseteq late'.activity
  BY <1>2, <1>3 DEF InsertComment
<1>4. ASSUME NEW r \in Request, CommentActivity(r) \/ LandingActivity(r) \/ ReviewActivity(r)
      PROVE  /\ late.comments \subseteq late'.comments
             /\ late.activity \subseteq late'.activity
  <2>1. \E by, at : AddActivity(by, at)
    BY <1>4 DEF CommentActivity, LandingActivity, ReviewActivity
  <2>. QED BY <1>2, <2>1 DEF AddActivity
<1>5. \/ late' = late
      \/ \E r \in Request :
            \/ \E kind \in Landing : StartLanding(r, kind)
            \/ InsertComment(r) \/ CommentActivity(r) \/ LandingActivity(r) \/ ReviewActivity(r)
  BY NextCases, AskFrame, StepFrame, RestFrame, FailFrame DEF Acts, vars, history
<1>. QED BY <1>1, <1>3, <1>4, <1>5

LEMMA LeftNext ==
    ASSUME TypeOK, HoldsOK, CopiesOK, [Next]_vars, archived \/ \E l \in Request : Listed(l)
    PROVE  Left' \subseteq Left
<1>1. late.comments \subseteq late'.comments /\ raced \subseteq raced'
  BY LateNext, CopiesNext
<1>. SUFFICES ASSUME NEW c \in Left'
              PROVE  c \in Left
  OBVIOUS
<1>2. /\ c \in DOMAIN comments' /\ c \notin raced' \union late'.comments
      /\ comments'[c].parent = 0 /\ ~comments'[c].deleted /\ comments'[c].at = Draft
  BY DEF Left
<1>3. CASE c \in DOMAIN comments
  <2>1. c \in DOMAIN comments \ raced
    BY <1>1, <1>2, <1>3
  <2>2. comments[c].parent = 0 /\ ~comments[c].deleted /\ comments[c].at = Draft
    BY <1>2, <2>1, WritesNext
  <2>. QED BY <1>1, <1>2, <1>3, <2>2 DEF Left
<1>4. CASE c \notin DOMAIN comments
  <2>1. PICK r \in Request : InsertComment(r) /\ c = Len(comments) + 1
    BY <1>2, <1>4, CommentsNext
  <2>2. c \in late'.comments
    <3>1. late' = [late EXCEPT !.comments = @ \union {c}]
      BY <2>1 DEF InsertComment
    <3>. QED BY <3>1 DEF TypeOK
  <2>. QED BY <1>2, <2>2
<1>. QED BY <1>3, <1>4

LEMMA LeftActivityNext ==
    ASSUME TypeOK, HoldsOK, [Next]_vars, archived \/ \E l \in Request : Collected(l)
    PROVE  LeftActivity' \subseteq LeftActivity
<1>1. late.activity \subseteq late'.activity
  BY LateNext
<1>. SUFFICES ASSUME NEW a \in LeftActivity'
              PROVE  a \in LeftActivity
  OBVIOUS
<1>2. a \in DOMAIN activity' /\ a \notin late'.activity /\ activity'[a].change = Draft
  BY DEF LeftActivity
<1>3. CASE a \in DOMAIN activity
  <2>1. activity[a].change = Draft
    BY <1>2, <1>3, ActivityNext
  <2>. QED BY <1>1, <1>2, <1>3, <2>1 DEF LeftActivity
<1>4. CASE a \notin DOMAIN activity
  <2>1. a = Len(activity') /\ late' = [late EXCEPT !.activity = @ \union {Len(activity')}]
    BY <1>2, <1>4, ActivityNext
  <2>2. a \in late'.activity
    BY <2>1 DEF TypeOK
  <2>. QED BY <1>2, <2>2
<1>. QED BY <1>3, <1>4

Refs(q) == {copy.ref : copy \in q.todo}

TakenBy(r) ==
    /\ Listed(r) => Left \subseteq Refs(req[r])
    /\ Collected(r) => LeftActivity = {}

LEMMA TakenNext ==
    ASSUME TypeOK, HoldsOK, CopiesOK, TakenOK, [Next]_vars
    PROVE  TakenOK'
<1>1. \A r \in Request : TakenBy(r)
  BY DEF TakenOK, TakenBy, Refs
<1>2. HoldsOK'
  BY HoldsNext
<1>3. ASSUME NEW s \in Request, req'[s] = req[s] PROVE TakenBy(s)'
  <2>1. (Listed(s)' => Listed(s)) /\ (Collected(s)' => Collected(s))
    BY <1>3 DEF Listed, Collected
  <2>2. Refs(req[s]) \subseteq Refs(req[s])'
    BY <1>3 DEF Refs
  <2>. QED BY <1>1, <2>1, <2>2, LeftNext, LeftActivityNext DEF TakenBy
<1>4. ASSUME NEW r \in Request, req'[r].kind \notin Landing PROVE TakenBy(r)'
  BY <1>4 DEF TakenBy, Listed, Collected
<1>5. ASSUME NEW r \in Request, Acts(r) PROVE TakenBy(r)'
  <2>1. GoodRow(req[r]) /\ req \in [Request -> RequestRow]
    BY RowTypes DEF TypeOK
  <2>2. CASE req'[r] = Idle \/ CopiesOne(r) \/ Dismisses(r) \/ CommentGoes(r) \/ ReviewGoes(r)
    <3>1. CASE req'[r] = Idle
      BY <1>4, <3>1 DEF Idle, Landing
    <3>2. CASE CopiesOne(r) \/ Dismisses(r)
      BY <1>4, <3>2 DEF CopiesOne, Dismisses, Landing
    <3>3. CASE CommentGoes(r)
      BY <1>4, <3>3 DEF CommentGoes, Goes, Landing
    <3>4. CASE ReviewGoes(r)
      BY <1>4, <3>4 DEF ReviewGoes, Goes, Landing
    <3>. QED BY <2>2, <3>1, <3>2, <3>3, <3>4
  <2>3. CASE Asks(r)
    BY <2>3 DEF Asks, TakenBy, Listed, Collected, Landing
  <2>4. ASSUME Listed(r)' => Listed(r), Collected(r)' => Collected(r),
               req[r].pc # "move", req'[r].pc # "move"
        PROVE  TakenBy(r)'
    <3>1. Refs(req[r])' = Refs(req[r])
      BY <1>2, <2>4 DEF HoldsOK, HoldsRow, Refs
    <3>. QED BY <1>1, <2>4, <3>1, LeftNext, LeftActivityNext DEF TakenBy
  <2>5. CASE MarkGoes(r)
    <3>1. /\ req'[r].kind = req[r].kind
          /\ \/ req[r].pc = "mark look" /\ req'[r].pc = "mark"
             \/ req[r].pc = "mark" /\ req'[r].pc \in {"set", "notify"}
      BY <2>5 DEF MarkGoes, Goes, AfterMark
    <3>. QED BY <2>4, <3>1 DEF Listed, Collected
  <2>6. CASE LandingGoes(r) /\ (LandingActivity(r) \/ SetChange(r))
    <3>1. LeftActivity' = {} \/ ~SetChange(r)
      <4>1. ASSUME SetChange(r)
            PROVE  \A a \in DOMAIN activity' : activity'[a].change # Draft
        <5>1. /\ activity' = [a \in DOMAIN activity |->
                     IF activity[a].change = Draft THEN [activity[a] EXCEPT !.change = req[r].ref]
                     ELSE activity[a]]
              /\ req[r].ref # Draft
          BY <2>1, <4>1, Places DEF SetChange, HoldsOK, HoldsRow
        <5>2. \A a \in DOMAIN activity : activity[a] \in ActivityRow
          BY RowTypes
        <5>. QED BY <5>1, <5>2 DEF ActivityRow
      <4>. QED BY <4>1 DEF LeftActivity
    <3>2. ASSUME LandingActivity(r), Goes(r, "activity", "mark look") PROVE TakenBy(r)'
      BY <2>4, <3>2 DEF Listed, Collected, Goes
    <3>3. ASSUME SetChange(r), req[r].kind \in Landing,
                 Goes(r, "set", IF req[r].kind = "land" THEN "archive" ELSE "list")
          PROVE  TakenBy(r)'
      <4>1. LeftActivity' = {}
        BY <3>1, <3>3
      <4>2. Listed(r)' => Listed(r)
        BY <3>3 DEF Listed, Goes
      <4>3. Refs(req[r])' = Refs(req[r])
        BY <1>2, <3>3 DEF HoldsOK, HoldsRow, Refs, Goes
      <4>. QED BY <1>1, <4>1, <4>2, <4>3, LeftNext DEF TakenBy
    <3>. QED BY <2>6, <3>2, <3>3 DEF LandingGoes, ListComments, MoveComment, Moved, LandingActivity, SetChange
  <2>7. CASE LandingGoes(r) /\ Moved(r)
    <3>1. req[r].todo = {} /\ req[r].pc = "move" /\ req[r].kind \in Landing
      BY <2>7 DEF Moved, LandingGoes
    <3>2. /\ req'[r].kind = req[r].kind
          /\ req'[r].pc = IF req[r].kind = "land" THEN "activity" ELSE "archive"
      BY <2>1, <2>7 DEF Moved, Goto, RequestRow
    <3>3. Listed(r) /\ Left = {}
      <4>1. Listed(r)
        BY <3>1 DEF Listed
      <4>2. Refs(req[r]) = {}
        BY <3>1 DEF Refs
      <4>. QED BY <1>1, <4>1, <4>2 DEF TakenBy
    <3>4. Left' = {}
      BY <3>3, LeftNext
    <3>5. Collected(r)' => Collected(r)
      BY <3>1, <3>2 DEF Collected, Landing
    <3>6. Collected(r)' => LeftActivity' = {}
      BY <1>1, <3>5, LeftActivityNext DEF TakenBy
    <3>. QED BY <3>4, <3>6 DEF TakenBy
  <2>8. CASE ListComments(r)
    <3>. DEFINE cs == {c \in DOMAIN comments :
                         comments[c].at = Draft /\ comments[c].parent = 0 /\ ~comments[c].deleted}
                todo == {[ref |-> c, row |-> comments[c]] : c \in cs}
    <3>1. /\ req[r].pc = "list" /\ comments' = comments /\ late' = late
          /\ req' = [req EXCEPT ![r].pc = "move", ![r].todo = todo]
      BY <2>8 DEF ListComments, rows
    <3>2. \A c \in cs : \E copy \in todo : copy.ref = c
      <4>1. \A c \in cs : [ref |-> c, row |-> comments[c]] \in todo
        OBVIOUS
      <4>. QED BY <4>1
    <3>3. Left' \subseteq cs
      <4>1. \A c \in Left' : /\ c \in DOMAIN comments /\ comments[c].parent = 0
                             /\ ~comments[c].deleted /\ comments[c].at = Draft
        BY <3>1 DEF Left
      <4>. QED BY <4>1
    <3>. HIDE DEF todo, cs
    <3>4. /\ req'[r].todo = todo /\ req'[r].pc = "move" /\ req'[r].kind = req[r].kind
      BY <2>1, <3>1 DEF RequestRow
    <3>5. Left' \subseteq Refs(req[r])'
      BY <3>2, <3>3, <3>4 DEF Refs
    <3>6. Collected(r)' => Collected(r)
      BY <3>1, <3>4 DEF Collected
    <3>. QED BY <1>1, <3>5, <3>6, LeftActivityNext DEF TakenBy
  <2>9. CASE MoveComment(r)
    <3>1. PICK copy \in req[r].todo :
            /\ comments' = [comments EXCEPT ![copy.ref] = [copy.row EXCEPT !.at = req[r].ref]]
            /\ req' = [req EXCEPT ![r].todo = @ \ {copy}]
      BY <2>9 DEF MoveComment
    <3>2. /\ req[r].pc = "move" /\ req'[r].pc = "move" /\ req'[r].kind = req[r].kind
          /\ req'[r].todo = req[r].todo \ {copy} /\ req[r].kind \in Landing
      <4>1. req[r].pc = "move" /\ req[r].kind \in Landing
        BY <2>1, <2>9, Places DEF MoveComment
      <4>2. req'[r] = [req[r] EXCEPT !.todo = @ \ {copy}] /\ req[r] \in RequestRow
        BY <2>1, <3>1
      <4>. QED BY <4>1, <4>2 DEF RequestRow
    <3>3. /\ copy.ref \in DOMAIN comments /\ copy.row \in CommentRow /\ req[r].ref # Draft
      BY <2>1, <3>2 DEF HoldsOK, HoldsRow, GoodRow, RequestRow
    <3>4. comments'[copy.ref].at # Draft
      BY <3>1, <3>3 DEF CommentRow
    <3>5. Listed(r)
      BY <3>2 DEF Listed
    <3>6. Left' \subseteq Left /\ copy.ref \notin Left'
      BY <3>4, <3>5, LeftNext DEF Left
    <3>7. Refs(req[r]) \subseteq Refs(req[r])' \union {copy.ref}
      BY <3>2 DEF Refs
    <3>8. Left' \subseteq Refs(req[r])'
      BY <1>1, <3>5, <3>6, <3>7 DEF TakenBy
    <3>9. Collected(r)' => Collected(r)
      BY <3>2 DEF Collected
    <3>. QED BY <1>1, <3>8, <3>9, LeftActivityNext DEF TakenBy
  <2>10. CASE LandingGoes(r)
    BY <2>6, <2>7, <2>8, <2>9, <2>10 DEF LandingGoes
  <2>. QED BY <1>5, <2>2, <2>3, <2>5, <2>10, Moves
<1>6. archived' => Left' = {} /\ LeftActivity' = {}
  <2>1. CASE archived
    BY <2>1, LeftNext, LeftActivityNext DEF TakenOK
  <2>2. ASSUME NEW r \in Request, ArchiveWithChange(r)
        PROVE  Left' = {} /\ LeftActivity' = {}
    <3>1. GoodRow(req[r]) /\ HoldsRow(req[r]) /\ req[r].pc = "archive"
      BY <2>2, RowTypes DEF ArchiveWithChange, HoldsOK
    <3>2. req[r].kind \in Landing /\ req[r].todo = {}
      BY <3>1, Places DEF HoldsRow
    <3>3. Listed(r) /\ Collected(r) /\ Refs(req[r]) = {}
      BY <3>1, <3>2 DEF Listed, Collected, Refs
    <3>. QED BY <1>1, <3>3, LeftNext, LeftActivityNext DEF TakenBy
  <2>3. archived' => archived \/ \E r \in Request : ArchiveWithChange(r)
    BY NextCases, AskFrame, StepFrame, FailFrame, RestFrame DEF Acts, vars, rows, Unarchive
  <2>. QED BY <2>1, <2>2, <2>3
<1>7. \A s \in Request : TakenBy(s)'
  BY <1>3, <1>5, NextCases, OthersStay, RestFrame DEF vars
<1>. QED BY <1>6, <1>7 DEF TakenOK, TakenBy, Refs

LEMMA TakenInit == Init => TakenOK
<1>. SUFFICES ASSUME Init PROVE TakenOK
  OBVIOUS
<1>1. \A r \in Request : ~Listed(r) /\ ~Collected(r)
  BY DEF Init, Listed, Collected, Idle, Landing
<1>2. ~archived
  BY DEF Init
<1>. QED BY <1>1, <1>2 DEF TakenOK

(* A draft that has landed leaves neither comment nor activity behind, but *)
(* for what came after the landing had looked.                             *)
THEOREM LandingTakes == Spec => []LandingTakesAll
<1>1. TypeOK /\ HoldsOK /\ CopiesOK /\ TakenOK /\ [Next]_vars => CopiesOK' /\ TakenOK'
  BY CopiesNext, TakenNext
<1>2. TakenOK => LandingTakesAll
  BY DEF TakenOK, LandingTakesAll, Left, LeftActivity
<1>. QED BY <1>1, <1>2, CopiesInit, TakenInit, TypeCorrect, PTL DEF Spec

-----------------------------------------------------------------------------
(* Who is told.                                                            *)

LEMMA WatchersNext ==
    ASSUME TypeOK, [Next]_vars, NEW u \in Watchers
    PROVE  u \in Watchers' \/ UnwatchWorkspace(u)
<1>1. u \in User /\ watching[u] /\ watching \in [User -> BOOLEAN]
  BY DEF Watchers, TypeOK
<1>2. ASSUME NEW us, Watch(us) PROVE u \in Watchers'
  BY <1>1, <1>2 DEF Watch, Watchers
<1>3. ASSUME NEW v \in User, UnwatchWorkspace(v), v # u PROVE u \in Watchers'
  BY <1>1, <1>3 DEF UnwatchWorkspace, Watchers
<1>4. \/ watching' = watching \/ \E us : Watch(us)
      \/ \E v \in User : UnwatchWorkspace(v)
  BY NextCases, AskFrame, StepFrame, FailFrame, RestFrame DEF Acts, vars, rows, CommentWatch
<1>. QED BY <1>1, <1>2, <1>3, <1>4 DEF Watchers

LEMMA NotesStay ==
    ASSUME [Next]_vars
    PROVE  notes \subseteq notes'
<1>1. notes' = notes \/ \E r \in Request : CommentTell(r) \/ ReviewNotify(r)
  BY NextCases, AskFrame, StepFrame, FailFrame, RestFrame DEF Acts, vars, rows
<1>. QED BY <1>1 DEF CommentTell, ReviewNotify

(* The request that is about to tell a user gets there, unless it fails or *)
(* the user stops to watch.                                                *)
LEMMA TellingNext ==
    ASSUME TypeOK, HoldsOK, [Next]_vars,
           NEW o \in User \X Nat, NEW r \in Request, Telling(r, o), ~UnwatchWorkspace(o[1])
    PROVE  Telling(r, o)' \/ Told(o)' \/ Fail(r)
<1>1. GoodRow(req[r]) /\ req \in [Request -> RequestRow] /\ o[1] \in User
  BY RowTypes DEF TypeOK
<1>2. o[1] \in Watchers => o[1] \in Watchers'
  BY WatchersNext
<1>3. ASSUME req'[r] = req[r] PROVE Telling(r, o)'
  BY <1>2, <1>3 DEF Telling
<1>4. ASSUME NEW pc \in {"watch", "tell"}, Goto(r, pc),
             req[r].row.at = Draft \/ pc = "tell",
             req[r].row.at = Draft /\ pc = "tell" => o[1] \in Watchers'
      PROVE  Telling(r, o)'
  <2>1. req'[r] = [req[r] EXCEPT !.pc = pc] /\ req[r] \in RequestRow
    BY <1>1, <1>4 DEF Goto, GoodRow
  <2>2. /\ req'[r].pc = pc /\ req'[r].kind = req[r].kind /\ req'[r].ref = req[r].ref
        /\ req'[r].by = req[r].by /\ req'[r].row = req[r].row
        /\ req'[r].mentions = req[r].mentions
    BY <2>1 DEF RequestRow
  <2>. QED BY <1>2, <1>4, <2>2 DEF Telling
<1>5. CASE CommentActivity(r)
  BY <1>4, <1>5 DEF CommentActivity
<1>6. CASE CommentWatch(r)
  <2>1. req[r].row.at = Draft /\ o[1] \in req[r].mentions \union Watchers
    BY <1>6 DEF CommentWatch, Telling
  <2>2. \A u \in User : u \in req[r].mentions => u \in Watchers'
    BY <1>6 DEF CommentWatch, Watch, Watchers
  <2>. QED BY <1>1, <1>2, <1>4, <1>6, <2>1, <2>2 DEF CommentWatch
<1>7. CASE CommentTell(r)
  <2>. DEFINE to == IF req[r].row.at = Draft THEN Watchers ELSE req[r].mentions \union {Owner}
  <2>1. o[1] \in to \ {req[r].by} /\ req[r].ref = o[2]
    BY <1>7 DEF Telling, CommentTell
  <2>2. notes' = notes \union {[to |-> u, of |-> "comment", ref |-> req[r].ref] :
                                  u \in to \ {req[r].by}}
    BY <1>7 DEF CommentTell
  <2>. HIDE DEF to
  <2>3. Told(o)'
    BY <2>1, <2>2 DEF Told
  <2>. QED BY <2>3
<1>8. ASSUME Acts(r), ~Fail(r)
      PROVE  CommentActivity(r) \/ CommentWatch(r) \/ CommentTell(r)
  <2>1. req[r].kind = "comment" /\ req[r].pc \in {"activity", "watch", "tell"}
    BY DEF Telling
  <2>2. ~Ask(r)
    <3>1. Ask(r) => \E q : Begin(r, q)
      BY DEF Ask, ReadWorkspaceActivity, TopComment, ReplyComment, ChangeComment, StartLanding,
             CreateOrUpdateReview, RequestReview, StartDismiss
    <3>. QED BY <2>1, <3>1 DEF Begin
  <2>3. Step(r)
    BY <1>8, <2>2 DEF Acts
  <2>. QED BY <2>1, <2>3 DEF Step, Landing, MarkLook, Mark, InsertComment, SaveComment,
         ListComments, MoveComment, Moved, LandingActivity, SetChange, ArchiveWithChange, Look,
         Replace, CreateReview, ReviewActivity, ReviewNotify, DismissReview
<1>9. Acts(r) \/ req'[r] = req[r]
  BY NextCases, OthersStay, RestFrame DEF vars
<1>. QED BY <1>3, <1>5, <1>6, <1>7, <1>8, <1>9

LEMMA OwedNext ==
    ASSUME TypeOK, HoldsOK, OwedOK, [Next]_vars
    PROVE  OwedOK'
<1>1. /\ DOMAIN comments \subseteq DOMAIN comments' /\ notes \subseteq notes'
      /\ owed \subseteq User \X Nat
  BY CommentsNext, NotesStay DEF TypeOK
<1>2. ASSUME NEW o \in owed, o \in owed'
      PROVE  o[2] \in DOMAIN comments' /\ (Told(o)' \/ \E r \in Request : Telling(r, o)')
  <2>1. o[2] \in DOMAIN comments' /\ (Told(o) => Told(o)')
    BY <1>1 DEF OwedOK, Told
  <2>2. ~UnwatchWorkspace(o[1])
    BY <1>2 DEF UnwatchWorkspace
  <2>3. ASSUME NEW r \in Request, Telling(r, o) PROVE ~Fail(r)
    BY <1>2, <2>3 DEF Fail, Telling
  <2>. QED BY <1>1, <2>1, <2>2, <2>3, TellingNext DEF OwedOK
<1>3. ASSUME NEW o \in owed', o \notin owed
      PROVE  o[2] \in DOMAIN comments' /\ \E r \in Request : Telling(r, o)'
  <2>1. owed' \subseteq owed \/ \E r \in Request : InsertComment(r)
    BY NextCases, AskFrame, StepFrame, RestFrame
       DEF Acts, vars, history, Fail, UnwatchWorkspace
  <2>2. PICK r \in Request : InsertComment(r)
    BY <1>3, <2>1
  <2>. DEFINE c == Len(comments) + 1
              concerned == req[r].mentions \union (IF req[r].row.at = Draft THEN Watchers ELSE {Owner})
  <2>3. /\ owed' = owed \union ((concerned \ {req[r].by}) \X {c})
        /\ req' = [req EXCEPT ![r].pc = "activity", ![r].ref = c]
        /\ comments' = Append(comments, req[r].row) /\ req[r].kind = "comment"
        /\ watching' = watching
    BY <2>2 DEF InsertComment
  <2>4. o[1] \in concerned \ {req[r].by} /\ o[2] = c
    BY <1>3, <2>3
  <2>5. c \in DOMAIN comments'
    <3>1. req[r].row \in CommentRow /\ comments \in Seq(CommentRow)
      BY <2>3 DEF HoldsOK, HoldsRow, TypeOK
    <3>. QED BY <2>3, <3>1, AppendRow
  <2>6. req'[r] = [req[r] EXCEPT !.pc = "activity", !.ref = c] /\ req[r] \in RequestRow
    BY <2>3 DEF TypeOK
  <2>7. /\ req'[r].pc = "activity" /\ req'[r].kind = "comment" /\ req'[r].ref = c
        /\ req'[r].by = req[r].by /\ req'[r].row = req[r].row
        /\ req'[r].mentions = req[r].mentions
    <3>1. req[r].kind = "comment"
      BY <2>3
    <3>. HIDE DEF c, concerned
    <3>. QED BY <3>1, <2>6 DEF RequestRow
  <2>8. Telling(r, o)'
    BY <2>3, <2>4, <2>7 DEF Telling, Watchers
  <2>. QED BY <2>4, <2>5, <2>8
<1>. QED BY <1>2, <1>3 DEF OwedOK

(* Whoever a comment concerns has been told of it, or a request is about   *)
(* to tell him.                                                            *)
THEOREM ConcernedTold == Spec => []ConcernedAreTold
<1>1. Init => OwedOK
  BY DEF Init, OwedOK
<1>2. TypeOK /\ HoldsOK /\ OwedOK /\ [Next]_vars => OwedOK'
  BY OwedNext
<1>3. OwedOK => ConcernedAreTold
  BY DEF OwedOK, ConcernedAreTold, Telling, Told
<1>. QED BY <1>1, <1>2, <1>3, TypeCorrect, PTL DEF Spec

-----------------------------------------------------------------------------
(* Reviews.                                                                *)

SameReviews(u) ==
    /\ Latest(u)' = Latest(u) /\ \A i \in Latest(u) : reviews'[i] = reviews[i]
    /\ verdict'[u] = verdict[u]

LEMMA SameGrades ==
    ASSUME NEW u, SameReviews(u)
    PROVE  GradesOf(u)' = GradesOf(u)
<1>1. Shown(u)' = Shown(u)
  BY DEF SameReviews, Shown
<1>2. \A i \in Shown(u) : reviews'[i] = reviews[i]
  BY DEF SameReviews, Shown
<1>3. GradesOf(u)' \subseteq GradesOf(u)
  BY <1>1, <1>2 DEF GradesOf
<1>4. GradesOf(u) \subseteq GradesOf(u)'
  BY <1>1, <1>2 DEF GradesOf
<1>. QED BY <1>3, <1>4

(* A request that writes no review of a user afterwards, and was not about *)
(* to insert one.                                                          *)
LEMMA ReviewKept ==
    ASSUME NEW u, NEW r \in Request, ReviewOf(u), SameReviews(u),
           \A s \in Request : s # r => req'[s] = req[s],
           ~Writes(r, u)', ~(req[r].of = u /\ req[r].pc = "create")
    PROVE  ReviewOf(u)'
<1>1. GradesOf(u)' = GradesOf(u)
  BY SameGrades
<1>2. Creates(u)' <=> Creates(u)
  BY DEF Creates, Writes
<1>3. \A s, t \in Request : Writes(s, u)' /\ Writes(t, u)' => s = t
  BY DEF Writes, ReviewOf
<1>4. ASSUME NEW s \in Request, req'[s].of = u, req'[s].pc \in {"replace", "dismiss"}
      PROVE  Latest(u)' = {req'[s].ref} /\ req'[s].row = reviews'[req'[s].ref]
  <2>1. s # r /\ req'[s] = req[s]
    BY <1>4 DEF Writes
  <2>2. Latest(u) = {req[s].ref} /\ req[s].row = reviews[req[s].ref]
    BY <1>4, <2>1 DEF ReviewOf
  <2>. QED BY <2>1, <2>2 DEF SameReviews
<1>5. CASE Creates(u)
  BY <1>2, <1>3, <1>4, <1>5 DEF ReviewOf, SameReviews
<1>6. CASE ~Creates(u)
  <2>1. \A i, j \in Latest(u)' : i = j
    BY <1>6 DEF ReviewOf, SameReviews
  <2>2. GradesOf(u)' = {verdict'[u]} \ {None}
    BY <1>1, <1>6 DEF ReviewOf, SameReviews
  <2>. QED BY <1>2, <1>3, <1>4, <1>6, <2>1, <2>2 DEF ReviewOf
<1>. QED BY <1>5, <1>6

LEMMA OtherReviews ==
    ASSUME TypeOK, HoldsOK, NEW r \in Request, Acts(r), NEW u \in User,
           CreateReview(r) \/ Replace(r) \/ DismissReview(r) => req[r].of # u
    PROVE  SameReviews(u)
<1>1. [Next]_vars
  BY DEF Next, Acts
<1>2. CASE reviews' = reviews /\ verdict' = verdict
  BY <1>2 DEF SameReviews, Latest
<1>3. CASE CreateReview(r)
  <2>. DEFINE n == Len(reviews) + 1
  <2>1. /\ reviews \in Seq(ReviewRow) /\ Fresh(req[r]) \in ReviewRow
        /\ reviews' = Append(reviews, Fresh(req[r]))
        /\ verdict' = [verdict EXCEPT ![req[r].of] = req[r].grade]
    <3>1. GoodRow(req[r]) /\ reviews \in Seq(ReviewRow)
      BY RowTypes
    <3>2. Fresh(req[r]) \in ReviewRow
      BY <3>1 DEF Fresh, ReviewRow, GoodRow, RequestRow
    <3>. QED BY <1>3, <3>1, <3>2 DEF CreateReview, Fresh
  <2>2. /\ DOMAIN reviews = 1..Len(reviews) /\ DOMAIN reviews' = 1..n /\ Len(reviews) \in Nat
        /\ \A i \in DOMAIN reviews : reviews'[i] = reviews[i]
        /\ reviews'[n].user = req[r].of
    BY <2>1, AppendRow DEF Fresh
  <2>3. verdict'[u] = verdict[u]
    BY <1>3, <2>1 DEF TypeOK
  <2>. HIDE DEF n
  <2>4. DOMAIN reviews' = DOMAIN reviews \union {n}
    BY <2>2 DEF n
  <2>5. Latest(u)' = Latest(u)
    BY <1>3, <2>2, <2>4 DEF Latest
  <2>. QED BY <2>2, <2>3, <2>5 DEF SameReviews, Latest
<1>4. CASE Replace(r) \/ DismissReview(r)
  <2>1. /\ req[r].ref \in DOMAIN reviews /\ reviews[req[r].ref].user = req[r].of
        /\ req[r].of \in User
    BY <1>4, RowTypes DEF Replace, DismissReview, HoldsOK, HoldsRow, GoodRow, RequestRow
  <2>2. \A row : reviews' = [reviews EXCEPT ![req[r].ref] = row] =>
           /\ DOMAIN reviews' = DOMAIN reviews
           /\ \A i \in DOMAIN reviews : i # req[r].ref => reviews'[i] = reviews[i]
    BY <2>1
  <2>3. /\ DOMAIN reviews' = DOMAIN reviews
        /\ \A i \in DOMAIN reviews : i # req[r].ref => reviews'[i] = reviews[i]
    BY <1>4, <2>2 DEF Replace, DismissReview
  <2>4. \A i \in DOMAIN reviews : reviews'[i].user = reviews[i].user
    BY <1>1, ReviewsNext
  <2>5. verdict'[u] = verdict[u]
    <3>1. verdict' = verdict \/ verdict' = [verdict EXCEPT ![req[r].of] = None]
      BY <1>4 DEF Replace, DismissReview, history
    <3>. QED BY <1>4, <3>1 DEF TypeOK
  <2>6. Latest(u)' = Latest(u)
    BY <1>4, <2>1, <2>3, <2>4 DEF Latest
  <2>. QED BY <1>4, <2>1, <2>3, <2>5, <2>6 DEF SameReviews, Latest
<1>5. \/ reviews' = reviews /\ verdict' = verdict
      \/ CreateReview(r) \/ Replace(r) \/ DismissReview(r)
  BY AskFrame, StepFrame, FailFrame DEF Acts
<1>. QED BY <1>2, <1>3, <1>4, <1>5

LEMMA MixedGrows ==
    ASSUME [Next]_vars
    PROVE  mixed \subseteq mixed'
<1>1. \/ mixed' = mixed
      \/ \E r \in Request : Fail(r) \/ Look(r) \/ \E i : StartDismiss(r, i)
  BY NextCases, AskFrame, StepFrame, RestFrame DEF Acts, vars, history
<1>. QED BY <1>1 DEF Fail, Look, StartDismiss, Mixed

LEMMA WritingNext ==
    ASSUME TypeOK, NEW r \in Request, Acts(r), NEW u \in User
    PROVE  \/ ~Writes(r, u)'
           \/ Look(r) /\ req[r].of = u
           \/ Replace(r) /\ req[r].of = u
           \/ \E i \in DOMAIN reviews : StartDismiss(r, i) /\ reviews[i].user = u
<1>1. GoodRow(req[r]) /\ req \in [Request -> RequestRow]
  BY RowTypes DEF TypeOK
<1>2. ASSUME req'[r].pc \notin {"replace", "create", "dismiss"} PROVE ~Writes(r, u)'
  BY <1>2 DEF Writes
<1>3. CASE req'[r] = Idle \/ CopiesOne(r) \/ CommentGoes(r) \/ MarkGoes(r)
  <2>1. CASE req'[r] = Idle \/ CopiesOne(r)
    BY <1>2, <2>1 DEF Idle, CopiesOne
  <2>2. CASE CommentGoes(r)
    <3>1. req'[r].pc \in {"activity", "watch", "tell"}
      BY <2>2 DEF CommentGoes, Goes
    <3>. QED BY <1>2, <3>1
  <2>3. CASE MarkGoes(r)
    <3>1. req'[r].pc \in {"mark", "notify", "set"}
      BY <2>3 DEF MarkGoes, Goes, AfterMark
    <3>. QED BY <1>2, <3>1
  <2>. QED BY <1>3, <2>1, <2>2, <2>3
<1>4. CASE Asks(r) \/ LandingGoes(r)
  BY <1>2, <1>4 DEF Asks, LandingGoes, Goes
<1>5. CASE Dismisses(r)
  <2>1. PICK i \in DOMAIN reviews : StartDismiss(r, i)
    BY <1>5 DEF Dismisses
  <2>2. req'[r].of = reviews[i].user
    BY <1>1, <2>1 DEF StartDismiss, Begin, Idle
  <2>. QED BY <2>1, <2>2 DEF Writes
<1>6. CASE ReviewGoes(r)
  <2>1. CASE CreateReview(r) \/ ReviewActivity(r)
    <3>1. Goes(r, "create", "activity") \/ Goes(r, "activity", "mark look")
      BY <1>6, <2>1 DEF ReviewGoes, Goes, Look, Replace, CreateReview, ReviewActivity
    <3>. QED BY <1>2, <3>1 DEF Goes
  <2>2. CASE Replace(r)
    <3>1. req'[r] = [req[r] EXCEPT !.pc = "create"]
      BY <1>1, <2>2 DEF Replace, Goto
    <3>2. req'[r].of = req[r].of
      BY <1>1, <3>1 DEF GoodRow, RequestRow
    <3>. QED BY <2>2, <3>2 DEF Writes
  <2>3. CASE Look(r)
    <3>1. \/ req'[r] = [req[r] EXCEPT !.pc = "create"]
          \/ req'[r] = Idle
          \/ \E i : req'[r] = [req[r] EXCEPT !.pc = "replace", !.ref = i, !.row = reviews[i]]
      BY <1>1, <2>3 DEF Look, Goto
    <3>2. req'[r] = Idle \/ req'[r].of = req[r].of
      BY <1>1, <3>1 DEF GoodRow, RequestRow
    <3>. QED BY <1>2, <2>3, <3>2 DEF Writes, Idle
  <2>. QED BY <1>6, <2>1, <2>2, <2>3 DEF ReviewGoes
<1>7. \/ req'[r] = Idle \/ CopiesOne(r) \/ CommentGoes(r) \/ MarkGoes(r)
      \/ Asks(r) \/ LandingGoes(r) \/ Dismisses(r) \/ ReviewGoes(r)
  BY Moves
<1>. QED BY <1>3, <1>4, <1>5, <1>6, <1>7

(* The first two steps of a review: it is looked for, and replaced.        *)
LEMMA LookNext ==
    ASSUME TypeOK, NEW r \in Request, Look(r), NEW u \in User, req[r].of = u,
           ReviewOf(u), u \notin mixed'
    PROVE  ReviewOf(u)'
<1>1. GoodRow(req[r]) /\ req \in [Request -> RequestRow]
  BY RowTypes DEF TypeOK
<1>2. \A s \in Request : s # r => req'[s] = req[s]
  BY OthersStay DEF Acts, Step
<1>3. \A s \in Request : ~Writes(s, u)
  BY DEF Look, Mixed, Writing, Writes
<1>4. ~Creates(u) /\ SameReviews(u)
  BY <1>3 DEF Creates, Writes, Look, rows, SameReviews, Latest
<1>5. \A s \in Request : s # r => ~Writes(s, u)'
  BY <1>2, <1>3 DEF Writes
<1>6. \A s, t \in Request : Writes(s, u)' /\ Writes(t, u)' => s = t
  BY <1>5
<1>7. CASE Latest(u) = {} /\ Goto(r, "create")
  <2>1. req'[r] = [req[r] EXCEPT !.pc = "create"]
    BY <1>1, <1>7 DEF Goto
  <2>2. req'[r].pc = "create" /\ req'[r].of = u
    BY <1>1, <2>1 DEF GoodRow, RequestRow
  <2>3. Creates(u)' /\ Latest(u)' = {}
    BY <1>4, <1>7, <2>2 DEF Creates, SameReviews
  <2>4. \A s \in Request : ~(req'[s].of = u /\ req'[s].pc \in {"replace", "dismiss"})
    BY <1>5, <2>2 DEF Writes
  <2>. QED BY <1>6, <2>3, <2>4 DEF ReviewOf
<1>8. ASSUME req' = [req EXCEPT ![r] = Idle] PROVE ReviewOf(u)'
  <2>1. req'[r].pc = "idle"
    BY <1>1, <1>8 DEF Idle
  <2>. QED BY <1>2, <1>3, <1>4, <2>1, ReviewKept DEF Writes
<1>9. ASSUME NEW i \in Latest(u),
             req' = [req EXCEPT ![r] = [req[r] EXCEPT !.pc = "replace", !.ref = i, !.row = reviews[i]]]
      PROVE  ReviewOf(u)'
  <2>1. req'[r] = [req[r] EXCEPT !.pc = "replace", !.ref = i, !.row = reviews[i]]
    BY <1>1, <1>9
  <2>2. req'[r].pc = "replace" /\ req'[r].ref = i /\ req'[r].row = reviews[i]
    BY <1>1, <2>1 DEF GoodRow, RequestRow
  <2>3. \A a, b \in Latest(u) : a = b
    BY <1>4 DEF ReviewOf
  <2>4. Latest(u)' = {i} /\ reviews'[i] = reviews[i]
    BY <1>4, <1>9, <2>3 DEF SameReviews
  <2>5. ~Creates(u)'
    BY <1>5, <2>2 DEF Creates, Writes
  <2>6. (\A a, b \in Latest(u) : a = b)' /\ GradesOf(u)' = {verdict'[u]} \ {None}
    BY <1>4, <2>4, SameGrades DEF ReviewOf, SameReviews
  <2>7. \A s \in Request : req'[s].of = u /\ req'[s].pc \in {"replace", "dismiss"} => s = r
    BY <1>5 DEF Writes
  <2>. QED BY <1>6, <2>2, <2>4, <2>5, <2>6, <2>7 DEF ReviewOf
<1>. QED BY <1>7, <1>8, <1>9 DEF Look

LEMMA ReplaceNext ==
    ASSUME TypeOK, HoldsOK, NEW r \in Request, Replace(r), NEW u \in User, req[r].of = u,
           ReviewOf(u)
    PROVE  ReviewOf(u)'
<1>1. GoodRow(req[r]) /\ req \in [Request -> RequestRow]
  BY RowTypes DEF TypeOK
<1>2. \A s \in Request : s # r => req'[s] = req[s]
  BY OthersStay DEF Acts, Step
<1>3. req[r].pc = "replace" /\ req'[r] = [req[r] EXCEPT !.pc = "create"]
  BY <1>1 DEF Replace, Goto
<1>4. req'[r].pc = "create" /\ req'[r].of = u
  BY <1>1, <1>3 DEF GoodRow, RequestRow
<1>5. \A s \in Request : s # r => ~Writes(s, u) /\ ~Writes(s, u)'
  BY <1>2, <1>3 DEF ReviewOf, Writes
<1>6. Latest(u) = {req[r].ref} /\ req[r].row = reviews[req[r].ref]
  BY <1>3 DEF ReviewOf
<1>7. /\ req[r].ref \in DOMAIN reviews /\ DOMAIN reviews' = DOMAIN reviews
      /\ reviews' = [reviews EXCEPT ![req[r].ref] = [req[r].row EXCEPT !.replaced = TRUE]]
      /\ req[r].row \in ReviewRow
  BY <1>3 DEF Replace, HoldsOK, HoldsRow
<1>8. reviews'[req[r].ref].replaced
  BY <1>7 DEF ReviewRow
<1>9. \A i \in DOMAIN reviews : i # req[r].ref => reviews'[i] = reviews[i]
  BY <1>7
<1>10. Latest(u)' = {}
  BY <1>6, <1>7, <1>8, <1>9 DEF Latest
<1>11. Creates(u)'
  BY <1>4 DEF Creates
<1>12. \A s \in Request : ~(req'[s].of = u /\ req'[s].pc \in {"replace", "dismiss"})
  BY <1>4, <1>5 DEF Writes
<1>. QED BY <1>5, <1>10, <1>11, <1>12 DEF ReviewOf

LEMMA CreateNext ==
    ASSUME TypeOK, HoldsOK, NEW r \in Request, CreateReview(r), NEW u \in User, req[r].of = u,
           ReviewOf(u)
    PROVE  ReviewOf(u)'
<1>. DEFINE n == Len(reviews) + 1
<1>1. GoodRow(req[r]) /\ req \in [Request -> RequestRow] /\ reviews \in Seq(ReviewRow)
  BY RowTypes DEF TypeOK
<1>2. \A s \in Request : s # r => req'[s] = req[s]
  BY OthersStay DEF Acts, Step
<1>3. /\ req[r].pc = "create" /\ req'[r].pc = "activity"
      /\ reviews' = Append(reviews, Fresh(req[r]))
      /\ verdict'[u] = req[r].grade /\ req[r].grade \in Grades
  BY <1>1 DEF CreateReview, Fresh, TypeOK, GoodRow, RequestRow, Grades
<1>4. \A s \in Request : s # r => ~Writes(s, u) /\ ~Writes(s, u)'
  BY <1>2, <1>3 DEF ReviewOf, Writes
<1>5. ~Writes(r, u)'
  BY <1>3 DEF Writes
<1>6. Latest(u) = {}
  BY <1>3 DEF ReviewOf, Creates
<1>7. Fresh(req[r]) \in ReviewRow
  BY <1>1 DEF Fresh, ReviewRow, GoodRow, RequestRow
<1>8. /\ DOMAIN reviews = 1..Len(reviews) /\ DOMAIN reviews' = 1..n /\ Len(reviews) \in Nat
      /\ \A i \in DOMAIN reviews : reviews'[i] = reviews[i]
      /\ reviews'[n] = Fresh(req[r])
  BY <1>1, <1>3, <1>7, AppendRow
<1>9. DOMAIN reviews' = DOMAIN reviews \union {n}
  BY <1>8
<1>. HIDE DEF n
<1>10. /\ reviews'[n].user = u /\ ~reviews'[n].replaced /\ ~reviews'[n].dismissed
       /\ reviews'[n].grade = req[r].grade
  BY <1>8 DEF Fresh
<1>11. Latest(u)' = {n}
  BY <1>6, <1>8, <1>9, <1>10 DEF Latest
<1>12. Shown(u)' = {n}
  BY <1>10, <1>11 DEF Shown
<1>13. GradesOf(u)' = {req[r].grade}
  BY <1>10, <1>12 DEF GradesOf
<1>14. GradesOf(u)' = {verdict'[u]} \ {None}
  BY <1>3, <1>13, DiscussionsAssumption DEF Grades
<1>15. ~Creates(u)'
  BY <1>4, <1>5 DEF Creates, Writes
<1>16. \A s \in Request : ~(req'[s].of = u /\ req'[s].pc \in {"replace", "dismiss"})
  BY <1>4, <1>5 DEF Writes
<1>17. (\A i, j \in Latest(u) : i = j)'
  BY <1>11
<1>. QED BY <1>4, <1>5, <1>14, <1>15, <1>16, <1>17 DEF ReviewOf

LEMMA DismissNext ==
    ASSUME TypeOK, HoldsOK, NEW r \in Request, DismissReview(r), NEW u \in User, req[r].of = u,
           ReviewOf(u)
    PROVE  ReviewOf(u)'
<1>1. GoodRow(req[r]) /\ req \in [Request -> RequestRow]
  BY RowTypes DEF TypeOK
<1>2. \A s \in Request : s # r => req'[s] = req[s]
  BY OthersStay DEF Acts, Step
<1>3. req[r].pc = "dismiss" /\ req'[r].pc = "idle" /\ verdict'[u] = None
  BY <1>1 DEF DismissReview, End, Idle, TypeOK
<1>4. \A s \in Request : s # r => ~Writes(s, u) /\ ~Writes(s, u)'
  BY <1>2, <1>3 DEF ReviewOf, Writes
<1>5. ~Writes(r, u)'
  BY <1>3 DEF Writes
<1>6. Latest(u) = {req[r].ref} /\ req[r].row = reviews[req[r].ref]
  BY <1>3 DEF ReviewOf
<1>7. /\ req[r].ref \in DOMAIN reviews /\ DOMAIN reviews' = DOMAIN reviews
      /\ reviews' = [reviews EXCEPT ![req[r].ref] = [req[r].row EXCEPT !.dismissed = TRUE]]
      /\ req[r].row \in ReviewRow
  BY <1>3 DEF DismissReview, HoldsOK, HoldsRow
<1>8. /\ reviews'[req[r].ref].dismissed
      /\ \A i \in DOMAIN reviews : i # req[r].ref => reviews'[i] = reviews[i]
  BY <1>7 DEF ReviewRow
<1>9. Latest(u)' \subseteq Latest(u)
  BY <1>6, <1>7, <1>8 DEF Latest
<1>10. Shown(u)' = {}
  BY <1>6, <1>8, <1>9 DEF Shown
<1>11. GradesOf(u)' = {} /\ {verdict'[u]} \ {None} = {}
  BY <1>3, <1>10 DEF GradesOf
<1>12. ~Creates(u)'
  BY <1>4, <1>5 DEF Creates, Writes
<1>13. \A s \in Request : ~(req'[s].of = u /\ req'[s].pc \in {"replace", "dismiss"})
  BY <1>4, <1>5 DEF Writes
<1>14. (\A i, j \in Latest(u) : i = j)'
  BY <1>6, <1>9
<1>. QED BY <1>4, <1>5, <1>11, <1>12, <1>13, <1>14 DEF ReviewOf

LEMMA StartDismissNext ==
    ASSUME TypeOK, HoldsOK, NEW r \in Request, NEW i \in DOMAIN reviews, StartDismiss(r, i),
           Ask(r), NEW u \in User, reviews[i].user = u, ReviewOf(u), u \notin mixed'
    PROVE  ReviewOf(u)'
<1>1. GoodRow(req[r]) /\ req \in [Request -> RequestRow]
  BY RowTypes DEF TypeOK
<1>2. \A s \in Request : s # r => req'[s] = req[s]
  BY OthersStay DEF Acts
<1>3. /\ req'[r].pc = "dismiss" /\ req'[r].of = u /\ req'[r].ref = i /\ req'[r].row = reviews[i]
  BY <1>1 DEF StartDismiss, Begin, Idle
<1>4. \A s \in Request : ~Writes(s, u)
  BY DEF StartDismiss, Mixed, Writing, Writes
<1>5. \A s \in Request : s # r => ~Writes(s, u)'
  BY <1>2, <1>4 DEF Writes
<1>6. ~Creates(u) /\ SameReviews(u)
  BY <1>4 DEF Creates, Writes, StartDismiss, rows, SameReviews, Latest
<1>7. i \in Latest(u) /\ \A a, b \in Latest(u) : a = b
  BY <1>6 DEF StartDismiss, Shown, ReviewOf
<1>8. Latest(u)' = {i} /\ reviews'[i] = reviews[i]
  BY <1>6, <1>7 DEF SameReviews
<1>9. ~Creates(u)'
  BY <1>3, <1>5 DEF Creates, Writes
<1>10. (\A a, b \in Latest(u) : a = b)' /\ GradesOf(u)' = {verdict'[u]} \ {None}
  BY <1>6, <1>8, SameGrades DEF ReviewOf, SameReviews
<1>11. \A s \in Request : req'[s].of = u /\ req'[s].pc \in {"replace", "dismiss"} => s = r
  BY <1>5 DEF Writes
<1>12. \A s, t \in Request : Writes(s, u)' /\ Writes(t, u)' => s = t
  BY <1>5
<1>. QED BY <1>3, <1>8, <1>9, <1>10, <1>11, <1>12 DEF ReviewOf

LEMMA ReviewsOKNext ==
    ASSUME TypeOK, HoldsOK, ReviewsOK, [Next]_vars
    PROVE  ReviewsOK'
<1>. SUFFICES ASSUME NEW u \in User, u \notin mixed'
              PROVE  ReviewOf(u)'
  BY DEF ReviewsOK
<1>1. ReviewOf(u)
  BY MixedGrows DEF ReviewsOK
<1>2. CASE UNCHANGED <<reviews, verdict, req>>
  <2>1. SameReviews(u)
    BY <1>2 DEF SameReviews, Latest
  <2>2. GradesOf(u)' = GradesOf(u)
    BY <2>1, SameGrades
  <2>3. Creates(u)' <=> Creates(u)
    BY <1>2 DEF Creates
  <2>4. \A s, t \in Request : Writes(s, u)' /\ Writes(t, u)' => s = t
    BY <1>1, <1>2 DEF Writes, ReviewOf
  <2>5. \A s \in Request :
           req'[s].of = u /\ req'[s].pc \in {"replace", "dismiss"} =>
               Latest(u)' = {req'[s].ref} /\ req'[s].row = reviews'[req'[s].ref]
    BY <1>1, <1>2, <2>1 DEF ReviewOf, SameReviews
  <2>6. CASE Creates(u)
    BY <1>1, <2>1, <2>3, <2>4, <2>5, <2>6 DEF ReviewOf, SameReviews
  <2>7. CASE ~Creates(u)
    <3>1. (\A i, j \in Latest(u) : i = j)' /\ GradesOf(u)' = {verdict'[u]} \ {None}
      BY <1>1, <2>1, <2>2, <2>7 DEF ReviewOf, SameReviews
    <3>. QED BY <2>3, <2>4, <2>5, <2>7, <3>1 DEF ReviewOf
  <2>. QED BY <2>6, <2>7
<1>3. ASSUME NEW r \in Request, Acts(r) PROVE ReviewOf(u)'
  <2>1. CASE Look(r) /\ req[r].of = u
    BY <1>1, <2>1, LookNext
  <2>2. CASE Replace(r) /\ req[r].of = u
    BY <1>1, <2>2, ReplaceNext
  <2>3. CASE CreateReview(r) /\ req[r].of = u
    BY <1>1, <2>3, CreateNext
  <2>4. CASE DismissReview(r) /\ req[r].of = u
    BY <1>1, <2>4, DismissNext
  <2>5. ASSUME NEW i \in DOMAIN reviews, StartDismiss(r, i), reviews[i].user = u
        PROVE  ReviewOf(u)'
    <3>1. Ask(r)
      BY <2>5 DEF Ask
    <3>. QED BY <1>1, <2>5, <3>1, StartDismissNext
  <2>6. ASSUME ~(Look(r) /\ req[r].of = u), ~(Replace(r) /\ req[r].of = u),
               ~(CreateReview(r) /\ req[r].of = u), ~(DismissReview(r) /\ req[r].of = u),
               ~\E i \in DOMAIN reviews : StartDismiss(r, i) /\ reviews[i].user = u
        PROVE  ReviewOf(u)'
    <3>1. SameReviews(u)
      BY <1>3, <2>6, OtherReviews
    <3>2. ~Writes(r, u)'
      BY <1>3, <2>6, WritingNext
    <3>3. ~(req[r].of = u /\ req[r].pc = "create")
      <4>1. req[r].pc = "create" => CreateReview(r) \/ Fail(r)
        <5>1. Ask(r) => \E q : Begin(r, q)
          BY DEF Ask, ReadWorkspaceActivity, TopComment, ReplyComment, ChangeComment, StartLanding,
                 CreateOrUpdateReview, RequestReview, StartDismiss
        <5>. QED BY <1>3, <5>1 DEF Acts, Step, Begin, MarkLook, Mark, InsertComment, CommentActivity,
               CommentWatch, CommentTell, SaveComment, ListComments, MoveComment, Moved,
               LandingActivity, SetChange, ArchiveWithChange, Look, Replace, ReviewActivity,
               ReviewNotify, DismissReview
      <4>2. Fail(r) /\ req[r].pc = "create" => req[r].of \in mixed'
        BY DEF Fail
      <4>. QED BY <2>6, <4>1, <4>2
    <3>4. \A s \in Request : s # r => req'[s] = req[s]
      BY <1>3, OthersStay
    <3>. QED BY <1>1, <3>1, <3>2, <3>3, <3>4, ReviewKept
  <2>. QED BY <2>1, <2>2, <2>3, <2>4, <2>5, <2>6
<1>. QED BY <1>2, <1>3, NextCases, RestFrame DEF vars, rows, history

LEMMA ReviewsInit == Init => ReviewsOK
<1>. SUFFICES ASSUME Init, NEW u \in User PROVE ReviewOf(u)
  BY DEF ReviewsOK
<1>1. \A r \in Request : req[r].pc = "idle"
  BY DEF Init, Idle
<1>2. Latest(u) = {} /\ verdict[u] = None
  BY DEF Init, Latest
<1>3. GradesOf(u) = {}
  BY <1>2 DEF GradesOf, Shown
<1>4. ~Creates(u) /\ \A r \in Request : ~Writes(r, u)
  BY <1>1 DEF Creates, Writes
<1>. QED BY <1>1, <1>2, <1>3, <1>4 DEF ReviewOf

LEMMA ShownLast == ReviewsOK => ShownIsLast
<1>. SUFFICES ASSUME ReviewsOK, NEW u \in User \ mixed, ~Writing(u)
              PROVE  Cardinality(Shown(u)) <= 1 /\ GradesOf(u) = {verdict[u]} \ {None}
  BY DEF ShownIsLast, GradesOf
<1>1. ReviewOf(u) /\ ~Creates(u)
  BY DEF ReviewsOK, Writing, Creates
<1>2. (\A i, j \in Shown(u) : i = j) /\ GradesOf(u) = {verdict[u]} \ {None}
  BY <1>1 DEF ReviewOf, Shown
<1>3. CASE Shown(u) = {}
  BY <1>2, <1>3, FS_EmptySet
<1>4. CASE Shown(u) # {}
  <2>1. PICK i \in Shown(u) : TRUE
    BY <1>4
  <2>2. Shown(u) = {i}
    BY <1>2, <2>1
  <2>3. Cardinality({i}) = 1
    BY FS_Singleton
  <2>. QED BY <1>2, <2>2, <2>3
<1>. QED BY <1>3, <1>4

(* Of a user one review is shown at most, the last that was asked or said. *)
THEOREM LastIsShown == Spec => []ShownIsLast
<1>1. TypeOK /\ HoldsOK /\ ReviewsOK /\ [Next]_vars => ReviewsOK'
  BY ReviewsOKNext
<1>. QED BY <1>1, ReviewsInit, ShownLast, TypeCorrect, PTL DEF Spec
=============================================================================
