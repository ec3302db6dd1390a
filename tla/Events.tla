-------------------------------- MODULE Events --------------------------------
(***************************************************************************)
(* Events tell the connections of clients what has changed.  There are two *)
(* buses.  The first has a queue and one worker, which calls every         *)
(* subscription of a user in turn; its events name what changed.  The      *)
(* second calls every subscription in a goroutine of its own; its events   *)
(* carry what changed.  A subscription puts what it has loaded, or was     *)
(* given, into a channel, from which its connection is served.             *)
(*                                                                         *)
(* There is one draft, with the view it is open on, and four kinds of      *)
(* subscriptions: to the draft (UpdatedWorkspace), to its diffs, to its    *)
(* comments and to reviews.  Values are versions.  Locked sections are one *)
(* step; the two places where a map is read without the lock are steps in  *)
(* which the runtime may find a concurrent write and end the process.      *)
(* What is assumed of the constants stands where they are given            *)
(* (MCBuildQueue).                                                         *)
(***************************************************************************)
EXTENDS Naturals, Sequences, FiniteSets

CONSTANTS User, Client, Of,  \* members; connections; the user of each
          Kinds,             \* of the subscriptions that clients open
          View, Writer,      \* views; requests that change something
          None,              \* no value
          QueueCap,          \* the queue of the first bus: 1024 in the code
          ChanCap,           \* the channel of a subscription: 100 in the code
          MaxWrites, MaxConnects, MaxFaults  \* bounds

VARIABLES fact,    \* versions: of the draft's row, files, comments, reviews
          view,    \* the view the draft is open on
          writer,  \* what a request has still to publish
          queue,   \* of the first bus
          worker,  \* of the first bus
          subs1, subs2,  \* subscriptions on each bus
          calls,   \* goroutines of the second bus
          cl,      \* connections
          writes, connects, faults

memory == <<queue, worker, subs1, subs2, calls>>
counts == <<writes, connects, faults>>
vars == <<fact, view, writer, memory, cl, counts>>

Fact  == {"draft", "files", "comments", "reviews"}
About == [workspace |-> "draft", diffs |-> "files", comments |-> "comments", review |-> "reviews"]
First == {"workspace", "diffs", "comments"}  \* kinds that use the first bus
Second == [diffs |-> "view", comments |-> "view", review |-> "review"]

NoEvent  == [bus |-> 1, type |-> "none", ref |-> "none", val |-> 0]
NoWriter == [evs |-> <<>>, todo |-> {}, iter |-> {}]
NoWork   == [pc |-> "wait", ev |-> NoEvent, todo |-> {}, cur |-> None, val |-> 0, gone |-> {}]
Off      == [st |-> "off", kind |-> "workspace", view |-> None, chan |-> <<>>, shown |-> 0,
             base |-> 0, lost |-> FALSE, mixed |-> FALSE, late |-> FALSE]

Init == /\ fact = [f \in Fact |-> 0] /\ view \in View
        /\ queue = <<>> /\ worker = NoWork /\ subs1 = {} /\ subs2 = {} /\ calls = {}
        /\ writer = [w \in Writer |-> NoWriter] /\ cl = [c \in Client |-> Off]
        /\ writes = 0 /\ connects = 0 /\ faults = 0

(* The runtime has found a concurrent use of a map.  Clients connect again *)
(* to the process that is started next.                                    *)
Fatal == /\ queue' = <<>> /\ worker' = NoWork /\ subs1' = {} /\ subs2' = {} /\ calls' = {}
         /\ writer' = [w \in Writer |-> NoWriter] /\ cl' = [c \in Client |-> Off]
         /\ UNCHANGED <<fact, view, counts>>

MayFail == faults < MaxFaults /\ faults' = faults + 1 /\ UNCHANGED <<writes, connects>>
Lost(cs) == [c \in Client |-> IF c \in cs THEN [cl[c] EXCEPT !.lost = TRUE] ELSE cl[c]]

-----------------------------------------------------------------------------
(* What happens to a draft, and what is published about it, in order.      *)

Event(bus, type, ref, val) == [bus |-> bus, type |-> type, ref |-> ref, val |-> val]

Reviewing(w) == \E i \in DOMAIN writer[w].evs : writer[w].evs[i].type = "review"

(* History: reviews that are on their way at once may arrive in any order. *)
MixReviews(w) ==
    [c \in Client |-> IF cl[c].kind # "review" THEN cl[c] ELSE
        [cl[c] EXCEPT !.mixed = \/ \E x \in Writer \ {w} : Reviewing(x)
                                \/ \E call \in calls : call.c = c]]

Write(w, f, evs) ==
    /\ writer[w] = NoWriter /\ writes < MaxWrites /\ writes' = writes + 1
    /\ fact' = [fact EXCEPT ![f] = @ + 1]
    /\ writer' = [writer EXCEPT ![w] = [evs |-> evs, todo |-> User, iter |-> {}]]
    /\ cl' = IF f = "reviews" THEN MixReviews(w) ELSE cl
    /\ UNCHANGED <<memory, connects, faults>>

(* UpdateFields of workspaces.                                             *)
UpdateFields(w) == Write(w, "draft", <<Event(1, "workspace", "ws", 0)>>) /\ UNCHANGED view

(* OpenWorkspace on another view.                                          *)
OpenWorkspace(w) ==
    \E v \in View \ {view} :
        /\ view' = v
        /\ Write(w, "draft", <<Event(1, "workspace", "ws", 0), Event(2, "view", v, 0)>>)

(* Files have been synchronised.                                           *)
SyncTransitions(w) == Write(w, "files", <<Event(2, "view", view, 0)>>) /\ UNCHANGED view

CreateComment(w) == Write(w, "comments", <<Event(1, "comments", "ws", 0)>>) /\ UNCHANGED view

CreateOrUpdateReview(w) ==
    /\ Write(w, "reviews", <<Event(1, "reviews", "ws", 0),
                             Event(2, "review", "review", fact["reviews"] + 1)>>)
    /\ UNCHANGED view

(* Here the first event names the review, where its readers expect a draft. *)
DismissReview(w) ==
    /\ Write(w, "reviews", <<Event(1, "reviews", "review", 0),
                             Event(2, "review", "review", fact["reviews"] + 1)>>)
    /\ UNCHANGED view

ChangeWorkspace(w) == \/ UpdateFields(w) \/ OpenWorkspace(w) \/ SyncTransitions(w)
             \/ CreateComment(w) \/ CreateOrUpdateReview(w) \/ DismissReview(w)

-----------------------------------------------------------------------------
(* Publishing.                                                             *)

At(w, bus) == writer[w].evs # <<>> /\ Head(writer[w].evs).bus = bus

(* The next topic of an event, or the next event.                          *)
Advance(wr) ==
    IF wr.todo # {} \/ wr.iter # {} THEN wr
    ELSE IF Len(wr.evs) > 1 THEN [wr EXCEPT !.evs = Tail(@), !.todo = User]
    ELSE NoWriter

(* The members of the codebase, or the draft, cannot be read: the error is *)
(* only logged.                                                            *)
Topics(w) ==
    /\ writer[w].evs # <<>> /\ writer[w].todo = User /\ MayFail
    /\ cl' = [c \in Client |-> [Lost(Client)[c] EXCEPT !.late = At(w, 1) \/ @]]
    /\ writer' = [writer EXCEPT ![w] = Advance([writer[w] EXCEPT !.todo = {}])]
    /\ UNCHANGED <<fact, view, memory>>

(* The first bus: waits while the queue is full.                           *)
UserEvent(w) ==
    /\ At(w, 1) /\ Len(queue) < QueueCap
    /\ \E u \in writer[w].todo :
        /\ queue' = Append(queue, [user |-> u, ev |-> Head(writer[w].evs)])
        /\ writer' = [writer EXCEPT ![w] = Advance([writer[w] EXCEPT !.todo = @ \ {u}])]
    /\ UNCHANGED <<fact, view, worker, subs1, subs2, calls, cl, counts>>

Handlers(u, type) ==
    {c \in subs2 : Of[c] = u /\ Second[cl[c].kind] = type}

(* The second bus: the handlers of a topic are looked up under the lock.   *)
Pub(w) ==
    /\ At(w, 2) /\ writer[w].iter = {}
    /\ \E u \in writer[w].todo :
        writer' = [writer EXCEPT ![w] = Advance([writer[w] EXCEPT
            !.todo = @ \ {u}, !.iter = Handlers(u, Head(writer[w].evs).type)])]
    /\ UNCHANGED <<fact, view, memory, cl, counts>>

(* They are called without it.  Each is a goroutine.                       *)
Spawn(w) ==
    /\ At(w, 2)
    /\ \E c \in writer[w].iter :
        /\ writer' = [writer EXCEPT ![w] = Advance([writer[w] EXCEPT !.iter = @ \ {c}])]
        /\ LET n == CHOOSE i \in 0..Cardinality(calls) : \A call \in calls : call.n # i IN
           calls' = IF c \notin subs2 THEN calls
                    ELSE calls \union {[n |-> n, c |-> c, ev |-> Head(writer[w].evs),
                                        pc |-> "start", val |-> 0]}
    /\ UNCHANGED <<fact, view, queue, worker, subs1, subs2, cl, counts>>

Publish(w) == Topics(w) \/ UserEvent(w) \/ Pub(w) \/ Spawn(w)

(* Somebody is reading the map of subscriptions that c is entered into, or *)
(* removed from, without the lock.                                         *)
ReadsFirst(c) == worker.pc = "look" /\ \A x \in subs1 \ {c} : Of[x] # Of[c]
ReadsSecond(c) ==
    \E w \in Writer : writer[w].iter # {} /\ Head(writer[w].evs).type = Second[cl[c].kind]
                      /\ \E x \in writer[w].iter : Of[x] = Of[c]

-----------------------------------------------------------------------------
(* Subscriptions.                                                          *)

(* A resolver reads what it needs, then subscribes.                        *)
Subscribe(c, k) ==
    /\ cl[c].st = "off" /\ connects < MaxConnects /\ connects' = connects + 1
    /\ \E v \in IF k = "comments" THEN View ELSE {view} :
        cl' = [cl EXCEPT ![c] = [Off EXCEPT !.st = "read", !.kind = k, !.view = v]]
    /\ UNCHANGED <<fact, view, writer, memory, writes, faults>>

Subscribed(c) == [cl[c] EXCEPT !.st = "on", !.base = fact[About[cl[c].kind]]]

(* What was read may be out of date by now.                                *)
Late(c) == [cl[c] EXCEPT !.late = cl[c].kind = "diffs" /\ cl[c].view # view]

SubscribeUser(c) ==
    /\ cl[c].st = "read" /\ cl[c].kind \in First
    /\ \/ /\ subs1' = subs1 \union {c}
          /\ cl' = [cl EXCEPT ![c] = IF @.kind \in DOMAIN Second
                                     THEN [Late(c) EXCEPT !.st = "half"] ELSE Subscribed(c)]
          /\ UNCHANGED <<fact, view, writer, queue, worker, subs2, calls, counts>>
       \/ ReadsFirst(c) /\ Fatal

Sub(c) ==
    /\ cl[c].st = "half" \/ (cl[c].st = "read" /\ cl[c].kind = "review")
    /\ \/ /\ subs2' = subs2 \union {c} /\ cl' = [cl EXCEPT ![c] = Subscribed(c)]
          /\ UNCHANGED <<fact, view, writer, queue, worker, subs1, calls, counts>>
       \/ ReadsSecond(c) /\ Fatal

(* The client reads what its connection sends, when it likes; and leaves.  *)
Receive(c) ==
    /\ cl[c].st = "on" /\ cl[c].chan # <<>>
    /\ cl' = [cl EXCEPT ![c].shown = Head(cl[c].chan), ![c].chan = Tail(@)]
    /\ UNCHANGED <<fact, view, writer, memory, counts>>

Leave(c) ==
    /\ cl[c].st = "on" /\ cl' = [cl EXCEPT ![c] = [Off EXCEPT !.st = "leaving", !.kind = cl[c].kind]]
    /\ UNCHANGED <<fact, view, writer, memory, counts>>

(* Two goroutines wait for the end of the connection.                      *)
Cancel(c) ==
    /\ cl[c].st = "leaving" /\ c \in subs1
    /\ \/ subs1' = subs1 \ {c} /\ UNCHANGED <<fact, view, writer, queue, worker, subs2, calls, cl, counts>>
       \/ ReadsFirst(c) /\ Fatal

(* Mutant: the second bus forgets nobody.                                  *)
Done_Keeps(c) == FALSE /\ UNCHANGED vars

Done(c) ==
    /\ cl[c].st = "leaving" /\ c \in subs2
    /\ \/ subs2' = subs2 \ {c} /\ UNCHANGED <<fact, view, writer, queue, worker, subs1, calls, cl, counts>>
       \/ ReadsSecond(c) /\ Fatal

(* A name is used again when nothing is left of the connection.            *)
Gone(c) ==
    /\ cl[c].st = "leaving" /\ c \notin subs1 \union subs2 \union worker.todo \union worker.gone
    /\ worker.cur # c /\ \A call \in calls : call.c # c
    /\ \A w \in Writer : c \notin writer[w].iter
    /\ cl' = [cl EXCEPT ![c] = Off] /\ UNCHANGED <<fact, view, writer, memory, counts>>

Leaving(c) == Cancel(c) \/ Done(c) \/ Gone(c)

-----------------------------------------------------------------------------
(* What subscriptions do with an event.                                    *)

Hears1(c, ev) ==
    CASE cl[c].kind = "workspace" -> ev.type \in {"workspace", "reviews"} /\ ev.ref = "ws"
      [] cl[c].kind = "comments"  -> ev.type = "comments" /\ ev.ref # "ws"
      [] cl[c].kind = "diffs"     -> ev.type = "workspace"
      [] OTHER                    -> FALSE

Hears2(c, ev) == cl[c].kind = "review" \/ ev.ref = cl[c].view

Value(c, ev) == IF cl[c].kind = "review" THEN ev.val ELSE fact[About[cl[c].kind]]

(* History: two deliveries to a connection are on their way at once.       *)
Delivering(c) == worker.cur = c \/ \E call \in calls : call.c = c /\ call.pc = "send"
Mix(c) == IF cl[c].kind = "review" THEN cl[c] ELSE [cl[c] EXCEPT !.mixed = Delivering(c)]

(* Mutant: the subscription to diffs goes on with the draft it has read.   *)
Reloaded_Not(c) == Mix(c)

(* The draft is read again: it may have been opened on another view.       *)
Reloaded(c) ==
    IF cl[c].kind = "diffs" THEN [Mix(c) EXCEPT !.view = view, !.late = FALSE] ELSE Mix(c)

(* Mutant: a subscription waits for its client.                            *)
Put_Waits(c, v) ==
    /\ cl[c].st # "on" \/ Len(cl[c].chan) < ChanCap
    /\ cl' = IF cl[c].st # "on" THEN cl
             ELSE [cl EXCEPT ![c].chan = Append(@, v),
                             ![c].lost = @ /\ v # fact[About[cl[c].kind]]]

(* A full channel drops it.                                                *)
Put(c, v) ==
    cl' = IF cl[c].st \notin {"half", "on"} THEN cl
          ELSE IF Len(cl[c].chan) = ChanCap THEN [cl EXCEPT ![c].lost = TRUE]
          ELSE [cl EXCEPT ![c].chan = Append(@, v),
                          ![c].lost = @ /\ v # fact[About[cl[c].kind]]]

-----------------------------------------------------------------------------
(* The worker of the first bus.                                            *)

Take ==
    /\ worker.pc = "wait" /\ queue # <<>> /\ queue' = Tail(queue)
    /\ worker' = [NoWork EXCEPT !.pc = "look", !.ev = Head(queue).ev,
                                !.todo = {c \in Client : Of[c] = Head(queue).user}]
    /\ UNCHANGED <<fact, view, writer, subs1, subs2, calls, cl, counts>>

(* The subscribers are copied, under the lock.                             *)
Copy ==
    /\ worker.pc = "look"
    /\ worker' = [worker EXCEPT !.pc = "call", !.todo = @ \intersect subs1]
    /\ UNCHANGED <<fact, view, writer, queue, subs1, subs2, calls, cl, counts>>

(* One has left, or panics for want of the draft it failed to read.        *)
Deaf(c) == \/ cl[c].st = "leaving"
           \/ cl[c].kind = "diffs" /\ cl[c].view = None /\ worker.ev.type = "workspace"

Called(c) == [worker EXCEPT !.todo = @ \ {c}]

Call ==
    /\ worker.pc = "call" /\ worker.cur = None
    /\ \E c \in worker.todo :
        \/ /\ Deaf(c) /\ worker' = [Called(c) EXCEPT !.gone = @ \union {c}]
           /\ UNCHANGED <<cl, counts>>
        \/ /\ ~Deaf(c) /\ ~Hears1(c, worker.ev) /\ worker' = Called(c)
           /\ UNCHANGED <<cl, counts>>
        \/ /\ ~Deaf(c) /\ Hears1(c, worker.ev)
           /\ worker' = [Called(c) EXCEPT !.cur = c, !.val = Value(c, worker.ev)]
           /\ cl' = [cl EXCEPT ![c] = Reloaded(c)] /\ UNCHANGED counts
        \/ /\ ~Deaf(c) /\ Hears1(c, worker.ev) /\ MayFail /\ worker' = Called(c)
           /\ \E v \in IF cl[c].kind = "diffs" THEN {None, view} ELSE {cl[c].view} :
                cl' = [cl EXCEPT ![c].lost = TRUE, ![c].late = cl[c].kind = "diffs", ![c].view = v]
    /\ UNCHANGED <<fact, view, writer, queue, subs1, subs2, calls>>

Deliver ==
    /\ worker.cur # None /\ Put(worker.cur, worker.val)
    /\ worker' = [worker EXCEPT !.cur = None, !.val = 0,
                                !.gone = IF cl[worker.cur].st = "leaving"
                                         THEN @ \union {worker.cur} ELSE @]
    /\ UNCHANGED <<fact, view, writer, queue, subs1, subs2, calls, counts>>

(* Those who are gone are removed.                                         *)
Unreg ==
    /\ worker.pc = "call" /\ worker.cur = None /\ worker.todo = {}
    /\ subs1' = subs1 \ worker.gone /\ worker' = NoWork
    /\ UNCHANGED <<fact, view, writer, queue, subs2, calls, cl, counts>>

Work == Take \/ Copy \/ Call \/ Deliver \/ Unreg

-----------------------------------------------------------------------------
(* A goroutine of the second bus.                                          *)

Handle(call) ==
    LET c == call.c  rest == calls \ {call} IN
    /\ call.pc = "start"
    /\ \/ ~Hears2(c, call.ev) /\ calls' = rest /\ UNCHANGED <<cl, counts>>
       \/ /\ Hears2(c, call.ev)
          /\ calls' = rest \union {[call EXCEPT !.pc = "send", !.val = Value(c, call.ev)]}
          /\ cl' = [cl EXCEPT ![c] = Mix(c)] /\ UNCHANGED counts
       \/ /\ Hears2(c, call.ev) /\ cl[c].kind # "review" /\ MayFail
          /\ calls' = rest /\ cl' = Lost({c})
    /\ UNCHANGED <<fact, view, writer, queue, worker, subs1, subs2>>

Answer(call) ==
    /\ call.pc = "send" /\ calls' = calls \ {call} /\ Put(call.c, call.val)
    /\ UNCHANGED <<fact, view, writer, queue, worker, subs1, subs2, counts>>

Goroutine == \E call \in calls : Handle(call) \/ Answer(call)

-----------------------------------------------------------------------------
Next ==
    \/ \E w \in Writer : ChangeWorkspace(w) \/ Publish(w)
    \/ Work \/ Goroutine
    \/ \E c \in Client : \/ \E k \in Kinds : Subscribe(c, k)
                         \/ SubscribeUser(c) \/ Sub(c) \/ Receive(c) \/ Leave(c) \/ Leaving(c)

(* Goroutines run on; nothing is expected of clients, nor of locks they    *)
(* would hold.                                                             *)
Fairness ==
    /\ WF_vars(Work) /\ WF_vars(Goroutine)
    /\ \A w \in Writer : WF_vars(Publish(w))
    /\ \A c \in Client : WF_vars(Leaving(c))

Spec == Init /\ [][Next]_vars
FairSpec == Spec /\ Fairness

-----------------------------------------------------------------------------
(* Types: queues and channels keep to their capacities, a member of a set  *)
(* of subscriptions is or was connected (events.go, v2/pubsub.go).         *)
TypeOK ==
    /\ fact \in [Fact -> 0..MaxWrites] /\ view \in View
    /\ \A w \in Writer : writer[w].evs = <<>> <=> writer[w].todo \union writer[w].iter = {}
    /\ Len(queue) <= QueueCap /\ worker.pc \in {"wait", "look", "call"}
    /\ \A c \in Client : /\ cl[c].st \in {"off", "read", "half", "on", "leaving"}
                         /\ cl[c].view \in View \union {None} /\ Len(cl[c].chan) <= ChanCap
    /\ \A c \in subs1 \union subs2 : cl[c].st # "off"

Idle == /\ queue = <<>> /\ worker = NoWork /\ calls = {}
        /\ \A w \in Writer : writer[w] = NoWriter

Settled(c) == /\ Idle /\ cl[c].st = "on" /\ cl[c].chan = <<>>
              /\ ~cl[c].lost /\ ~cl[c].mixed /\ ~cl[c].late

Fresh(c) == fact[About[cl[c].kind]] # cl[c].base => cl[c].shown = fact[About[cl[c].kind]]

(* When everything has been delivered, a client shows the newest version   *)
(* of what it has subscribed to and what has changed since, also after the *)
(* draft moved to another view (the resolvers UpdatedWorkspace,            *)
(* UpdatedWorkspaceDiffs and UpdatedReviews): unless it was dropped or     *)
(* failed to be read after that (lost), overtaken (mixed), or the draft    *)
(* moved while the client subscribed (late).                               *)
ShownIsCurrent == \A c \in Client : Settled(c) /\ cl[c].kind # "comments" => Fresh(c)

(* Whatever clients do or do not read, the worker of the first bus gets to *)
(* the end of every event, and a request that publishes to its own: the    *)
(* channels of the subscriptions drop, so nobody waits for a slow client.  *)
BusesMoveOn ==
    /\ worker # NoWork ~> worker = NoWork
    /\ \A w \in Writer : writer[w] # NoWriter ~> writer[w] = NoWriter

(* A connection that has ended leaves no subscription, whichever of the    *)
(* worker, the cancel function and the goroutine of the second bus comes   *)
(* first.                                                                  *)
LeftIsForgotten == \A c \in Client : cl[c].st = "leaving" ~> c \notin subs1 \union subs2
=============================================================================
