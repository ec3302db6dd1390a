------------------------------ MODULE Discussions ------------------------------
(***************************************************************************)
(* What is said about a draft: comments, reviews, who watches, activity    *)
(* and notifications; and how a landing, from Sturdy or through GitHub,    *)
(* takes the discussion along to the change.                               *)
(*                                                                         *)
(* Requests run concurrently and have no transactions: one statement on    *)
(* the database is one step, but inserts that nobody else writes to (of    *)
(* watchers, of notifications) go together.  Comments and reviews are      *)
(* written as whole rows from a copy.  Left out: authorisation, the lines  *)
(* a comment is about, texts, events, emails and preferences.              *)
(***************************************************************************)
EXTENDS Naturals, Sequences, FiniteSets

CONSTANTS User, Owner,  \* users; the owner of the draft
          Request,      \* requests at a time
          Mentions,     \* whom comments mention
          None,         \* no value
          MaxRequests,  \* bound: requests
          MaxLands,     \* bound: landings
          MaxFailures   \* bound: requests that fail, or are cut off

ASSUME DiscussionsAssumption ==
    /\ Owner \in User /\ Mentions \subseteq SUBSET User
    /\ None \notin User \union {"Requested", "Approve", "Reject"}
    /\ {MaxRequests, MaxLands, MaxFailures} \subseteq Nat

VARIABLES comments,  \* rows of comments
          reviews,   \* rows of reviews
          watching,  \* the newest row of every user among the watchers
          activity,  \* rows of activity
          lastRead,  \* the newest activity a user has read, 0 without a row
          notes,     \* rows of notifications
          changes,   \* how many changes the draft has become
          archived,
          req,       \* the requests at work
          requests, failures,
          raced,     \* history: comments written by two requests at a time
          mixed,     \* history: users whose reviews were, or lost one halfway
          verdict,   \* history: what a user was last asked, or has said
          late,      \* history: what came after a landing had looked for it
          owed       \* history: who must be told of which comment

rows == <<comments, reviews, watching, activity, lastRead, notes, changes, archived>>
history == <<raced, mixed, verdict, late, owed>>
vars == <<rows, req, requests, failures, history>>

Draft   == 0  \* where a comment or an activity is; a change otherwise
Landing == {"land", "merge"}

Idle == [kind |-> "none", pc |-> "idle", by |-> Owner, of |-> Owner, ref |-> 0,
         grade |-> "Requested", mentions |-> {}, row |-> None, act |-> 0, seen |-> 0,
         todo |-> {}]

Init ==
    /\ comments = <<>> /\ reviews = <<>> /\ activity = <<>> /\ notes = {}
    /\ watching = [u \in User |-> FALSE] /\ lastRead = [u \in User |-> 0]
    /\ changes = 0 /\ archived = FALSE
    /\ req = [r \in Request |-> Idle] /\ requests = 0 /\ failures = 0
    /\ raced = {} /\ mixed = {} /\ verdict = [u \in User |-> None] /\ owed = {}
    /\ late = [comments |-> {}, activity |-> {}]

Begin(r, q) ==
    /\ req[r].pc = "idle" /\ requests < MaxRequests
    /\ requests' = requests + 1
    /\ req' = [req EXCEPT ![r] = q] /\ UNCHANGED failures

Goto(r, pc) == req' = [req EXCEPT ![r].pc = pc] /\ UNCHANGED <<requests, failures>>
End(r)      == req' = [req EXCEPT ![r] = Idle] /\ UNCHANGED <<requests, failures>>

(* An error, or the end of the process.  A review may have been replaced   *)
(* by none.                                                                *)
Fail(r) ==
    /\ req[r].pc # "idle" /\ failures < MaxFailures
    /\ failures' = failures + 1 /\ req' = [req EXCEPT ![r] = Idle]
    /\ mixed' = IF req[r].pc = "create" THEN mixed \union {req[r].of} ELSE mixed
    /\ owed' = IF req[r].kind = "comment" THEN {o \in owed : o[2] # req[r].ref} ELSE owed
    /\ UNCHANGED <<rows, requests, raced, verdict, late>>

(* A landing has listed the comments, or collected the activity.           *)
Listed(r) == req[r].kind \in Landing /\ \/ req[r].pc \in {"move", "archive"}
                                        \/ req[r].kind = "land" /\ req[r].pc # "list"
Collected(r) == req[r].kind \in Landing /\ \/ req[r].pc = "archive"
                                           \/ req[r].kind = "merge" /\ req[r].pc \in {"list", "move"}

-----------------------------------------------------------------------------
(* Watchers, activity and notifications.                                   *)

Watch(us) == watching' = [u \in User |-> u \in us \/ watching[u]]

WatchWorkspace(u) ==
    /\ requests < MaxRequests /\ requests' = requests + 1 /\ ~watching[u] /\ Watch({u})
    /\ UNCHANGED <<comments, reviews, activity, lastRead, notes, changes, archived,
                   req, failures, history>>

UnwatchWorkspace(u) ==
    /\ requests < MaxRequests /\ requests' = requests + 1 /\ watching[u]
    /\ watching' = [watching EXCEPT ![u] = FALSE]
    /\ owed' = {o \in owed : o[1] # u}
    /\ UNCHANGED <<comments, reviews, activity, lastRead, notes, changes, archived,
                   req, failures, raced, mixed, verdict, late>>

AddActivity(by, at) ==
    /\ activity' = Append(activity, [by |-> by, change |-> at])
    /\ late' = IF archived \/ \E l \in Request : Collected(l)
               THEN [late EXCEPT !.activity = @ \union {Len(activity')}] ELSE late

(* MarkAsRead: there is one row of a user, which is looked for, and then   *)
(* inserted or updated.                                                    *)
MarkLook(r) ==
    /\ req[r].pc = "mark look"
    /\ req' = [req EXCEPT ![r].pc = "mark", ![r].seen = lastRead[req[r].by]]
    /\ UNCHANGED <<rows, requests, failures, history>>

AfterMark(kind) == IF kind = "review" THEN "notify" ELSE "set"

Mark(r) ==
    LET q == req[r]  refused == q.seen = 0 /\ lastRead[q.by] # 0 IN  \* by the unique index
    /\ q.pc = "mark"
    /\ lastRead' = IF refused \/ q.seen >= q.act THEN lastRead ELSE [lastRead EXCEPT ![q.by] = q.act]
    /\ IF refused \/ q.kind = "read" THEN End(r) ELSE Goto(r, AfterMark(q.kind))
    /\ UNCHANGED <<comments, reviews, watching, activity, notes, changes, archived, history>>

ReadWorkspaceActivity(r, u, a) ==
    /\ a \in DOMAIN activity
    /\ Begin(r, [Idle EXCEPT !.kind = "read", !.pc = "mark look", !.by = u, !.act = a])
    /\ UNCHANGED <<rows, history>>

-----------------------------------------------------------------------------
(* New comments.                                                           *)

TopComment(r, u, at, mentions) ==
    /\ at <= changes
    /\ Begin(r, [Idle EXCEPT !.kind = "comment", !.pc = "insert", !.by = u, !.mentions = mentions,
                 !.row = [parent |-> 0, at |-> at, deleted |-> FALSE, resolved |-> FALSE]])
    /\ UNCHANGED <<rows, history>>

ReplyComment(r, u, c, mentions) ==
    /\ c \in DOMAIN comments /\ comments[c].parent = 0
    /\ Begin(r, [Idle EXCEPT !.kind = "comment", !.pc = "insert", !.by = u, !.mentions = mentions,
                 !.row = [parent |-> c, at |-> comments[c].at, deleted |-> FALSE, resolved |-> FALSE]])
    /\ UNCHANGED <<rows, history>>

Watchers == {u \in User : watching[u]}

InsertComment(r) ==
    LET q == req[r]  c == Len(comments) + 1
        concerned == q.mentions \union (IF q.row.at = Draft THEN Watchers ELSE {Owner}) IN
    /\ q.kind = "comment" /\ q.pc = "insert"
    /\ comments' = Append(comments, q.row)
    /\ req' = [req EXCEPT ![r].pc = "activity", ![r].ref = c]
    /\ owed' = owed \union ((concerned \ {q.by}) \X {c})
    /\ late' = IF archived \/ \E l \in Request : Listed(l)
               THEN [late EXCEPT !.comments = @ \union {c}] ELSE late
    /\ UNCHANGED <<reviews, watching, activity, lastRead, notes, changes, archived,
                   requests, failures, raced, mixed, verdict>>

CommentActivity(r) ==
    LET q == req[r] IN
    /\ q.kind = "comment" /\ q.pc = "activity"
    /\ AddActivity(q.by, q.row.at)
    /\ Goto(r, IF q.row.at = Draft THEN "watch" ELSE "tell")
    /\ UNCHANGED <<comments, reviews, watching, lastRead, notes, changes, archived,
                   raced, mixed, verdict, owed>>

(* Mutant: those who are mentioned do not start to watch.                  *)
CommentWatch_Author(r) ==
    /\ req[r].pc = "watch" /\ Watch({req[r].by}) /\ Goto(r, "tell")
    /\ UNCHANGED <<comments, reviews, activity, lastRead, notes, changes, archived, history>>

CommentWatch(r) ==
    /\ req[r].pc = "watch" /\ Watch(req[r].mentions \union {req[r].by}) /\ Goto(r, "tell")
    /\ UNCHANGED <<comments, reviews, activity, lastRead, notes, changes, archived, history>>

(* Who watches the draft, or the author of the change and who is mentioned.*)
CommentTell(r) ==
    LET q == req[r]  to == IF q.row.at = Draft THEN Watchers ELSE q.mentions \union {Owner} IN
    /\ q.pc = "tell" /\ End(r)
    /\ notes' = notes \union {[to |-> u, of |-> "comment", ref |-> q.ref] : u \in to \ {q.by}}
    /\ UNCHANGED <<comments, reviews, watching, activity, lastRead, changes, archived, history>>

-----------------------------------------------------------------------------
(* Changes of comments: the row is read, and written whole.                *)

Held(r)       == IF req[r].pc = "save" THEN {req[r].ref} ELSE {copy.ref : copy \in req[r].todo}
Copies(r, cs) == raced' = raced \union (cs \intersect UNION {Held(o) : o \in Request \ {r}})

ChangeComment(r, kind, c) ==
    /\ c \in DOMAIN comments
    /\ Begin(r, [Idle EXCEPT !.kind = kind, !.pc = "save", !.ref = c, !.row = comments[c]])
    /\ Copies(r, {c})
    /\ UNCHANGED <<rows, mixed, verdict, late, owed>>

SaveComment(r) ==
    LET q == req[r] IN
    /\ q.pc = "save" /\ End(r)
    /\ comments' = [comments EXCEPT ![q.ref] =
           [q.row EXCEPT !.deleted = @ \/ q.kind = "delete", !.resolved = @ \/ q.kind = "resolve"]]
    /\ UNCHANGED <<reviews, watching, activity, lastRead, notes, changes, archived, history>>

-----------------------------------------------------------------------------
(* A landing: trunk has the change already, now the discussion follows.    *)
(* The webhook of a merge on GitHub does it in another order.              *)

StartLanding(r, kind) ==
    /\ ~archived /\ changes < MaxLands /\ changes' = changes + 1
    /\ Begin(r, [Idle EXCEPT !.kind = kind, !.ref = changes',
                 !.pc = IF kind = "land" THEN "list" ELSE "activity"])
    /\ late' = IF \E l \in Request : req[l].kind \in Landing THEN late
               ELSE [comments |-> {}, activity |-> {}]
    /\ UNCHANGED <<comments, reviews, watching, activity, lastRead, notes, archived,
                   raced, mixed, verdict, owed>>

(* Comments with no parent that are not deleted.                           *)
ListComments(r) ==
    LET cs == {c \in DOMAIN comments :
                  comments[c].at = Draft /\ comments[c].parent = 0 /\ ~comments[c].deleted} IN
    /\ req[r].pc = "list"
    /\ req' = [req EXCEPT ![r].pc = "move", ![r].todo = {[ref |-> c, row |-> comments[c]] : c \in cs}]
    /\ Copies(r, cs) /\ UNCHANGED late
    /\ UNCHANGED <<rows, requests, failures, mixed, verdict, owed>>

(* The newest first.                                                       *)
MoveComment(r) ==
    /\ req[r].pc = "move"
    /\ \E copy \in req[r].todo :
        /\ \A other \in req[r].todo : other.ref <= copy.ref
        /\ comments' = [comments EXCEPT ![copy.ref] = [copy.row EXCEPT !.at = req[r].ref]]
        /\ req' = [req EXCEPT ![r].todo = @ \ {copy}]
    /\ UNCHANGED <<reviews, watching, activity, lastRead, notes, changes, archived,
                   requests, failures, history>>

(* Mutant: only the newest is moved.                                       *)
Moved_Newest(r) ==
    /\ req[r].pc = "move"
    /\ Goto(r, IF req[r].kind = "land" THEN "activity" ELSE "archive")
    /\ UNCHANGED <<rows, history>>

Moved(r) ==
    /\ req[r].pc = "move" /\ req[r].todo = {}
    /\ Goto(r, IF req[r].kind = "land" THEN "activity" ELSE "archive")
    /\ UNCHANGED <<rows, history>>

LandingActivity(r) ==
    /\ req[r].kind \in Landing /\ req[r].pc = "activity"
    /\ AddActivity(Owner, Draft)
    /\ req' = [req EXCEPT ![r].pc = "mark look", ![r].act = Len(activity')]
    /\ UNCHANGED <<comments, reviews, watching, lastRead, notes, changes, archived,
                   requests, failures, raced, mixed, verdict, owed>>

(* Mutant: the activity of earlier changes is taken over.                  *)
SetChange_All(r) ==
    /\ req[r].pc = "set"
    /\ activity' = [a \in DOMAIN activity |-> [activity[a] EXCEPT !.change = req[r].ref]]
    /\ Goto(r, IF req[r].kind = "land" THEN "archive" ELSE "list")
    /\ UNCHANGED <<comments, reviews, watching, lastRead, notes, changes, archived, history>>

SetChange(r) ==
    /\ req[r].pc = "set"
    /\ activity' = [a \in DOMAIN activity |->
           IF activity[a].change = Draft THEN [activity[a] EXCEPT !.change = req[r].ref] ELSE activity[a]]
    /\ Goto(r, IF req[r].kind = "land" THEN "archive" ELSE "list")
    /\ UNCHANGED <<comments, reviews, watching, lastRead, notes, changes, archived, history>>

ArchiveWithChange(r) ==
    /\ req[r].pc = "archive" /\ archived' = TRUE /\ End(r)
    /\ UNCHANGED <<comments, reviews, watching, activity, lastRead, notes, changes, history>>

Unarchive ==
    /\ archived /\ archived' = FALSE
    /\ UNCHANGED <<comments, reviews, watching, activity, lastRead, notes, changes,
                   req, requests, failures, history>>

-----------------------------------------------------------------------------
(* Reviews.                                                                *)

CreateOrUpdateReview(r, u, grade) ==
    /\ u # Owner /\ Watch({u})
    /\ Begin(r, [Idle EXCEPT !.kind = "review", !.pc = "look", !.by = u, !.of = u, !.grade = grade])
    /\ UNCHANGED <<comments, reviews, activity, lastRead, notes, changes, archived, history>>

RequestReview(r, by, of) ==
    /\ Watch({by, of})
    /\ Begin(r, [Idle EXCEPT !.kind = "review", !.pc = "look", !.by = by, !.of = of])
    /\ UNCHANGED <<comments, reviews, activity, lastRead, notes, changes, archived, history>>

Latest(u) == {i \in DOMAIN reviews : reviews[i].user = u /\ ~reviews[i].replaced}
Writing(u) == \E r \in Request : req[r].of = u /\ req[r].pc \in {"replace", "create", "dismiss"}
Mixed(u) == mixed' = IF Writing(u) THEN mixed \union {u} ELSE mixed

(* The same verdict again, or a request while there is one or a verdict.   *)
Stands(row, grade) == ~row.dismissed /\ grade \in {row.grade, "Requested"}

Look(r) ==
    LET q == req[r] IN
    /\ q.pc = "look" /\ Mixed(q.of)
    /\ \/ Latest(q.of) = {} /\ Goto(r, "create")
       \/ \E i \in Latest(q.of) :
              /\ UNCHANGED <<requests, failures>>
              /\ req' = [req EXCEPT ![r] =
                     IF Stands(reviews[i], q.grade) THEN Idle
                     ELSE [q EXCEPT !.pc = "replace", !.ref = i, !.row = reviews[i]]]
    /\ UNCHANGED <<rows, raced, verdict, late, owed>>

(* Mutant: the review that was there is kept.                              *)
Replace_Not(r) ==
    /\ req[r].pc = "replace" /\ Goto(r, "create") /\ UNCHANGED <<rows, history>>

Replace(r) ==
    /\ req[r].pc = "replace" /\ Goto(r, "create")
    /\ reviews' = [reviews EXCEPT ![req[r].ref] = [req[r].row EXCEPT !.replaced = TRUE]]
    /\ UNCHANGED <<comments, watching, activity, lastRead, notes, changes, archived, history>>

CreateReview(r) ==
    LET q == req[r] IN
    /\ q.pc = "create"
    /\ reviews' = Append(reviews, [user |-> q.of, grade |-> q.grade, dismissed |-> FALSE, replaced |-> FALSE])
    /\ req' = [req EXCEPT ![r].pc = "activity", ![r].ref = Len(reviews')]
    /\ verdict' = [verdict EXCEPT ![q.of] = q.grade]
    /\ UNCHANGED <<comments, watching, activity, lastRead, notes, changes, archived,
                   requests, failures, raced, mixed, late, owed>>

ReviewActivity(r) ==
    /\ req[r].kind = "review" /\ req[r].pc = "activity"
    /\ AddActivity(req[r].by, Draft)
    /\ req' = [req EXCEPT ![r].pc = "mark look", ![r].act = Len(activity')]
    /\ UNCHANGED <<comments, reviews, watching, lastRead, notes, changes, archived,
                   requests, failures, raced, mixed, verdict, owed>>

(* The owner is told of a verdict, who was asked of the request.           *)
ReviewNotify(r) ==
    LET q == req[r] IN
    /\ q.pc = "notify" /\ End(r)
    /\ notes' = notes \union {[to |-> IF q.grade = "Requested" THEN q.of ELSE Owner,
                               of |-> "review", ref |-> q.ref]}
    /\ UNCHANGED <<comments, reviews, watching, activity, lastRead, changes, archived, history>>

(* Clients show latest reviews that are not dismissed, to be dismissed.    *)
Shown(u) == {i \in Latest(u) : ~reviews[i].dismissed}

StartDismiss(r, i) ==
    /\ i \in DOMAIN reviews /\ i \in Shown(reviews[i].user)
    /\ Begin(r, [Idle EXCEPT !.kind = "dismiss", !.pc = "dismiss", !.of = reviews[i].user,
                 !.ref = i, !.row = reviews[i]])
    /\ Mixed(reviews[i].user)
    /\ UNCHANGED <<rows, raced, verdict, late, owed>>

DismissReview(r) ==
    LET q == req[r] IN
    /\ q.pc = "dismiss" /\ End(r)
    /\ reviews' = [reviews EXCEPT ![q.ref] = [q.row EXCEPT !.dismissed = TRUE]]
    /\ verdict' = [verdict EXCEPT ![q.of] = None]
    /\ UNCHANGED <<comments, watching, activity, lastRead, notes, changes, archived,
                   raced, mixed, late, owed>>

-----------------------------------------------------------------------------
Step(r) == \/ MarkLook(r) \/ Mark(r)
           \/ InsertComment(r) \/ CommentActivity(r) \/ CommentWatch(r) \/ CommentTell(r)
           \/ SaveComment(r)
           \/ ListComments(r) \/ MoveComment(r) \/ Moved(r) \/ LandingActivity(r)
           \/ SetChange(r) \/ ArchiveWithChange(r)
           \/ Look(r) \/ Replace(r) \/ CreateReview(r) \/ ReviewActivity(r) \/ ReviewNotify(r)
           \/ DismissReview(r)

Ask(r) ==
    \/ \E u \in User, a \in DOMAIN activity : ReadWorkspaceActivity(r, u, a)
    \/ \E u \in User, m \in Mentions, at \in 0..changes : TopComment(r, u, at, m)
    \/ \E u \in User, m \in Mentions, c \in DOMAIN comments : ReplyComment(r, u, c, m)
    \/ \E kind \in {"edit", "delete", "resolve"}, c \in DOMAIN comments : ChangeComment(r, kind, c)
    \/ \E kind \in Landing : StartLanding(r, kind)
    \/ \E u \in User, grade \in {"Approve", "Reject"} : CreateOrUpdateReview(r, u, grade)
    \/ \E by \in User, of \in User : RequestReview(r, by, of)
    \/ \E i \in DOMAIN reviews : StartDismiss(r, i)

Next == \/ \E r \in Request : Ask(r) \/ Step(r) \/ Fail(r)
        \/ \E u \in User : WatchWorkspace(u) \/ UnwatchWorkspace(u)
        \/ Unarchive

Spec == Init /\ [][Next]_vars

-----------------------------------------------------------------------------
(* Properties.                                                             *)

CommentRow == [parent : Nat, at : Nat, deleted : BOOLEAN, resolved : BOOLEAN]
ReviewRow  == [user : User, grade : {"Requested", "Approve", "Reject"},
               dismissed : BOOLEAN, replaced : BOOLEAN]
ActivityRow == [by : User, change : Nat]

(* The steps a request of each kind may be at.                             *)
StepsOf(kind) ==
    CASE kind = "none"    -> {"idle"}
      [] kind = "read"    -> {"mark look", "mark"}
      [] kind = "comment" -> {"insert", "activity", "watch", "tell"}
      [] kind \in {"edit", "delete", "resolve"} -> {"save"}
      [] kind \in Landing -> {"activity", "mark look", "mark", "set", "list", "move", "archive"}
      [] kind = "review"  -> {"look", "replace", "create", "activity", "mark look", "mark",
                              "notify"}
      [] kind = "dismiss" -> {"dismiss"}

Kind == {"none", "read", "comment", "edit", "delete", "resolve", "review", "dismiss"}
        \union Landing

Place == {"idle", "mark look", "mark", "insert", "activity", "watch", "tell", "save", "list",
          "move", "set", "archive", "look", "replace", "create", "notify", "dismiss"}

RequestRow == [kind : Kind, pc : Place, by : User, of : User,
               ref : Nat, grade : {"Requested", "Approve", "Reject"},
               mentions : SUBSET User, row : CommentRow \union ReviewRow \union {None},
               act : Nat, seen : Nat, todo : SUBSET [ref : Nat, row : CommentRow]]

(* Every variable has its type, and every request is at a step of its kind.*)
TypeOK ==
    /\ comments \in Seq(CommentRow) /\ reviews \in Seq(ReviewRow)
    /\ activity \in Seq(ActivityRow)
    /\ watching \in [User -> BOOLEAN] /\ lastRead \in [User -> Nat]
    /\ notes \subseteq [to : User, of : {"comment", "review"}, ref : Nat]
    /\ changes \in Nat /\ archived \in BOOLEAN
    /\ req \in [Request -> RequestRow] /\ \A r \in Request : req[r].pc \in StepsOf(req[r].kind)
    /\ requests \in Nat /\ failures \in Nat
    /\ raced \subseteq Nat /\ mixed \subseteq User
    /\ verdict \in [User -> {"Requested", "Approve", "Reject", None}]
    /\ late \in [comments : SUBSET Nat, activity : SUBSET Nat]
    /\ owed \subseteq User \X Nat

(* A comment that was deleted or resolved stays so, and one that went with *)
(* a change never comes back to the draft, nor goes on to another change;  *)
(* neither does an activity.  Left out: comments of which two requests had *)
(* a copy at a time, where the later write takes the earlier one back.     *)
NothingTakenBack ==
    [][/\ \A c \in DOMAIN comments \ raced' :
              /\ comments[c].deleted => comments'[c].deleted
              /\ comments[c].resolved => comments'[c].resolved
              /\ comments[c].at # Draft => comments'[c].at = comments[c].at
       /\ \A a \in DOMAIN activity :
              activity[a].change # Draft => activity'[a].change = activity[a].change]_vars

(* "Move all live comments on this workspace to the new change", "Make     *)
(* activity list available for the change": a draft that has landed leaves *)
(* neither behind, whatever comes in between, but for what came after the  *)
(* landing had looked.  Replies stay (CommentService moves what it calls   *)
(* all by the list of comments without a parent).                          *)
LandingTakesAll ==
    archived => /\ \A c \in DOMAIN comments \ (raced \union late.comments) :
                       comments[c].parent = 0 /\ ~comments[c].deleted => comments[c].at # Draft
                /\ \A a \in DOMAIN activity \ late.activity : activity[a].change # Draft

(* What is shown of a user is the last that was asked or said, once, or    *)
(* nothing after it was dismissed.  Left out: users of whom two requests   *)
(* wrote reviews at a time, and those of whom one failed halfway.          *)
ShownIsLast ==
    \A u \in User \ mixed :
        ~Writing(u) => /\ Cardinality(Shown(u)) <= 1
                       /\ {reviews[i].grade : i \in Shown(u)} = {verdict[u]} \ {None}

(* Who watches a draft or is mentioned is told of a comment, unless he     *)
(* stops to watch before; of one on a change, its author and who is        *)
(* mentioned.                                                              *)
ConcernedAreTold ==
    \A o \in owed : \/ \E r \in Request : req[r].kind = "comment" /\ req[r].ref = o[2]
                    \/ [to |-> o[1], of |-> "comment", ref |-> o[2]] \in notes
=============================================================================
