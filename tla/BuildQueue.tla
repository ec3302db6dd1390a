------------------------------ MODULE BuildQueue ------------------------------
(***************************************************************************)
(* The queue of landed changes that wait for their builds (ci/workers) on  *)
(* either of the two implementations of queue.Queue: channels in the       *)
(* memory of the only process, or an SQS queue of the host.                *)
(*                                                                         *)
(* A landing publishes its change last and only logs that it could not.    *)
(* One goroutine subscribes, one triggers the builds.  Its loop goes on    *)
(* after an error without acknowledging the message, and ends for good     *)
(* with a panic, which is recovered outside of the loop.                   *)
(***************************************************************************)
EXTENDS Naturals, Sequences

CONSTANTS Change,       \* changes that land
          NoChange,     \* none of them
          Subscriber,   \* the goroutine that subscribes
          NoChannel,    \* no channel
          Integrations, \* how many integrations the codebase has
          BufferSize,   \* of a channel
          Batch,        \* messages an SQS subscriber holds
          MaxReceive,   \* of the SQS queue's redrive policy
          MaxFaults     \* bound: failures, crashes and cancelled requests

ASSUME BuildQueueAssumption ==
    /\ NoChange \notin Change /\ Subscriber \notin Change
    /\ NoChannel \notin Change \union {Subscriber}
    /\ {Integrations, BufferSize, Batch, MaxReceive} \subseteq Nat \ {0}
    /\ MaxFaults \in Nat

VARIABLES mode,     \* "memory" or "sqs"
          chans,    \* memory: the channel of the queue's name
          buf,      \* memory: what the channels hold
          split,    \* memory, history: the name has had two channels at a time
          q,        \* sqs: the messages
          pub, pubch, \* landings that publish, and the channels they found
          sub, subch, \* the subscriber
          pipe,     \* messages between the subscriber and the runner
          runner,   \* the goroutine that triggers builds
          built,    \* builds of a change, per integration
          faults    \* failures, crashes and cancelled requests so far

vars == <<mode, chans, buf, split, q, pub, pubch, sub, subch, pipe, runner,
          built, faults>>

memory    == <<chans, buf, split>>
publisher == <<pub, pubch>>
consumer  == <<sub, subch, pipe>>

(* A channel is named after the goroutine that makes it.                   *)
Channel == Change \union {Subscriber}

Message == [there : BOOLEAN, visible : BOOLEAN, received : 0..MaxReceive,
            dead : BOOLEAN]
NoMsg   == [there |-> FALSE, visible |-> FALSE, received |-> 0, dead |-> FALSE]
Idle    == [pc |-> "idle", msg |-> NoChange, next |-> 1]

Init ==
    /\ mode \in {"memory", "sqs"}
    /\ chans = NoChannel /\ buf = [k \in Channel |-> <<>>] /\ split = FALSE
    /\ q = [c \in Change |-> NoMsg]
    /\ pub = [c \in Change |-> "before"] /\ pubch = [c \in Change |-> NoChannel]
    /\ sub = (IF mode = "memory" THEN "look" ELSE "on") /\ subch = NoChannel
    /\ pipe = <<>> /\ runner = Idle
    /\ built = [c \in Change |-> [i \in 1..Integrations |-> 0]]
    /\ faults = 0

Fault == faults < MaxFaults /\ faults' = faults + 1

-----------------------------------------------------------------------------
(* Publishing.                                                             *)

Enqueue(c) ==
    /\ pub[c] = "before"
    /\ pub' = [pub EXCEPT ![c] = IF mode = "memory" THEN "look" ELSE "send"]
    /\ UNCHANGED <<mode, memory, q, pubch, consumer, runner, built, faults>>

(* getChannel looks with the read lock held ...                            *)
Look(c) ==
    /\ pub[c] = "look"
    /\ pub' = [pub EXCEPT ![c] = IF chans = NoChannel THEN "make" ELSE "send"]
    /\ pubch' = [pubch EXCEPT ![c] = chans]
    /\ UNCHANGED <<mode, memory, q, consumer, runner, built, faults>>

MakeChannel(k) == /\ chans' = k /\ buf' = [buf EXCEPT ![k] = <<>>]
                  /\ split' = (split \/ chans # NoChannel)

(* ... and makes one with the write lock held, without another look.       *)
Make(c) ==
    /\ pub[c] = "make" /\ pub' = [pub EXCEPT ![c] = "send"]
    /\ MakeChannel(c) /\ pubch' = [pubch EXCEPT ![c] = c]
    /\ UNCHANGED <<mode, q, consumer, runner, built, faults>>

Send(c) ==
    /\ mode = "memory" /\ pub[c] = "send" /\ Len(buf[pubch[c]]) < BufferSize
    /\ pub' = [pub EXCEPT ![c] = "ok"]
    /\ buf' = [buf EXCEPT ![pubch[c]] = Append(@, c)]
    /\ UNCHANGED <<mode, chans, split, q, pubch, consumer, runner, built, faults>>

(* The channel stays full for a second.                                    *)
GiveUp(c) ==
    /\ mode = "memory" /\ pub[c] = "send" /\ Len(buf[pubch[c]]) = BufferSize
    /\ pub' = [pub EXCEPT ![c] = "refused"]
    /\ UNCHANGED <<mode, memory, q, pubch, consumer, runner, built, faults>>

SendMessage(c) ==
    /\ mode = "sqs" /\ pub[c] = "send" /\ pub' = [pub EXCEPT ![c] = "ok"]
    /\ q' = [q EXCEPT ![c] = [@ EXCEPT !.there = TRUE, !.visible = TRUE]]
    /\ UNCHANGED <<mode, memory, pubch, consumer, runner, built, faults>>

(* The request that lands is cancelled, or SQS refuses the message.        *)
PublishFails(c) ==
    /\ pub[c] = "send" /\ Fault /\ pub' = [pub EXCEPT ![c] = "refused"]
    /\ UNCHANGED <<mode, memory, q, pubch, consumer, runner, built>>

-----------------------------------------------------------------------------
(* Subscribing.                                                            *)

SubLook ==
    /\ sub = "look" /\ sub' = (IF chans = NoChannel THEN "make" ELSE "on")
    /\ subch' = chans
    /\ UNCHANGED <<mode, memory, q, publisher, pipe, runner, built, faults>>

SubMake ==
    /\ sub = "make" /\ sub' = "on" /\ MakeChannel(Subscriber) /\ subch' = Subscriber
    /\ UNCHANGED <<mode, q, publisher, pipe, runner, built, faults>>

(* The subscriber holds one message until the runner takes it.             *)
SubReceive ==
    /\ mode = "memory" /\ sub = "on" /\ pipe = <<>> /\ buf[subch] # <<>>
    /\ pipe' = <<Head(buf[subch])>>
    /\ buf' = [buf EXCEPT ![subch] = Tail(@)]
    /\ UNCHANGED <<mode, chans, split, q, publisher, sub, subch, runner, built, faults>>

ReceiveMessage(c) ==
    /\ q[c].there /\ q[c].visible /\ q[c].received < MaxReceive
    /\ Len(pipe) < Batch /\ pipe' = Append(pipe, c)
    /\ q' = [q EXCEPT ![c] = [@ EXCEPT !.visible = FALSE,
                                         !.received = q[c].received + 1]]
    /\ UNCHANGED <<mode, memory, publisher, sub, subch, runner, built, faults>>

(* A message that is not deleted in time is delivered again, whether its   *)
(* first delivery still waits for the runner or not, or is put aside.      *)
VisibleAgain(c) ==
    /\ q[c].there /\ ~q[c].visible
    /\ q' = [q EXCEPT ![c] = IF @.received < MaxReceive THEN [@ EXCEPT !.visible = TRUE]
                               ELSE [@ EXCEPT !.there = FALSE, !.dead = TRUE]]
    /\ UNCHANGED <<mode, memory, publisher, consumer, runner, built, faults>>

-----------------------------------------------------------------------------
(* The runner.                                                             *)

Take ==
    /\ runner.pc = "idle" /\ pipe # <<>>
    /\ runner' = [pc |-> "trigger", msg |-> Head(pipe), next |-> 1]
    /\ pipe' = Tail(pipe)
    /\ UNCHANGED <<mode, memory, q, publisher, sub, subch, built, faults>>

(* TriggerChange starts a build with one integration after another.        *)
TriggerChange ==
    LET c == runner.msg  i == runner.next IN
    /\ runner.pc = "trigger"
    /\ built' = [built EXCEPT ![c][i] = @ + 1]
    /\ runner' = IF i = Integrations THEN [runner EXCEPT !.pc = "ack"]
                 ELSE [runner EXCEPT !.next = i + 1]
    /\ UNCHANGED <<mode, memory, q, publisher, consumer, faults>>

(* Mutant: a failure is acknowledged.                                      *)
TriggerFails_Acks ==
    /\ runner.pc = "trigger" /\ Fault /\ runner' = [runner EXCEPT !.pc = "ack"]
    /\ UNCHANGED <<mode, memory, q, publisher, consumer, built>>

(* Mutant: the loop ends with a failure.                                   *)
TriggerFails_Returns ==
    /\ runner.pc = "trigger" /\ Fault /\ runner' = [Idle EXCEPT !.pc = "ended"]
    /\ UNCHANGED <<mode, memory, q, publisher, consumer, built>>

(* One of its steps fails: the builds before it have been started.         *)
TriggerFails ==
    /\ runner.pc = "trigger" /\ Fault /\ runner' = Idle
    /\ UNCHANGED <<mode, memory, q, publisher, consumer, built>>

Panic ==
    /\ runner.pc = "trigger" /\ Fault /\ runner' = [Idle EXCEPT !.pc = "dead"]
    /\ UNCHANGED <<mode, memory, q, publisher, consumer, built>>

(* Ack closes a channel that nobody reads, or deletes the message.         *)
Ack ==
    /\ runner.pc = "ack" /\ runner' = Idle
    /\ q' = [q EXCEPT ![runner.msg].there = FALSE]
    /\ UNCHANGED <<mode, memory, publisher, consumer, built, faults>>

AckFails ==
    /\ runner.pc = "ack" /\ mode = "sqs" /\ Fault /\ runner' = Idle
    /\ UNCHANGED <<mode, memory, q, publisher, consumer, built>>

(* The process ends and starts again; a landing on its way is cut short.   *)
Restart ==
    /\ Fault
    /\ chans' = NoChannel /\ buf' = [k \in Channel |-> <<>>]
    /\ pub' = [c \in Change |-> IF pub[c] \in {"before", "ok"} THEN pub[c] ELSE "refused"]
    /\ sub' = (IF mode = "memory" THEN "look" ELSE "on") /\ subch' = NoChannel
    /\ pipe' = <<>> /\ runner' = Idle
    /\ UNCHANGED <<mode, split, q, pubch, built>>

Publish(c) == Look(c) \/ Make(c) \/ Send(c) \/ GiveUp(c) \/ SendMessage(c)
Subscribe  == SubLook \/ SubMake \/ SubReceive
Deliver(c) == ReceiveMessage(c) \/ VisibleAgain(c)
Run        == Take \/ TriggerChange \/ Ack

Next == \/ \E c \in Change : Enqueue(c) \/ Publish(c) \/ PublishFails(c) \/ Deliver(c)
        \/ Subscribe \/ Run
        \/ TriggerFails \/ Panic \/ AckFails \/ Restart

(* Goroutines run, and SQS delivers what waits; nothing has to be landed,  *)
(* to fail or to be restarted.                                             *)
Fairness == /\ \A c \in Change : WF_vars(Publish(c)) /\ WF_vars(Deliver(c))
            /\ WF_vars(Subscribe) /\ WF_vars(Run)

Spec == Init /\ [][Next]_vars /\ Fairness

-----------------------------------------------------------------------------
(* Properties.                                                             *)

TypeOK ==
    /\ mode \in {"memory", "sqs"}
    /\ chans \in Channel \union {NoChannel} /\ split \in BOOLEAN
    /\ buf \in [Channel -> Seq(Change)]
    /\ \A k \in Channel : Len(buf[k]) <= BufferSize
    /\ q \in [Change -> Message]
    /\ pub \in [Change -> {"before", "look", "make", "send", "ok", "refused"}]
    /\ pubch \in [Change -> Channel \union {NoChannel}]
    /\ sub \in {"look", "make", "on"} /\ subch \in Channel \union {NoChannel}
    /\ pipe \in Seq(Change) /\ Len(pipe) <= Batch
    /\ runner \in [pc : {"idle", "trigger", "ack", "dead"},
                   msg : Change \union {NoChange}, next : 1..Integrations]
    /\ built \in [Change -> [1..Integrations -> Nat]]
    /\ faults \in 0..MaxFaults

Built(c)  == \A i \in 1..Integrations : built[c][i] > 0
InPipe(c) == \E j \in DOMAIN pipe : pipe[j] = c
InHand(c) == runner.msg = c /\ runner.pc = "trigger"
Holds(k, c) == \E j \in DOMAIN buf[k] : buf[k][j] = c

(* The channel that the subscriber reads, or is about to read.             *)
Read == IF sub = "on" THEN subch ELSE chans

(* A change that was published is not forgotten before its builds have     *)
(* started.  SQS keeps it through failures, restarts and deliveries that   *)
(* overlap, at last among the dead letters.  In memory it is so while      *)
(* nothing fails and the name has had one channel only (runner.go acks     *)
(* last; inmemory.go holds a message in one place at a time).              *)
EnqueuedIsKept ==
    \A c \in Change : pub[c] = "ok" /\ ~Built(c) =>
        /\ mode = "sqs" => q[c].there \/ q[c].dead
        /\ (mode = "memory" /\ faults = 0 /\ ~split) =>
               (Read # NoChannel /\ Holds(Read, c)) \/ InPipe(c) \/ InHand(c)

(* "BuildQueue is a background queue that triggers builds for enqueued     *)
(* changes" (runner.go): it does, unless the message is a dead letter, the *)
(* runner has met a panic, or the queue in memory has met a failure or the *)
(* race for its channel.                                                   *)
EnqueuedIsBuilt ==
    \A c \in Change :
        (pub[c] = "ok") ~>
            \/ Built(c) \/ q[c].dead \/ runner.pc = "dead"
            \/ mode = "memory" /\ (faults > 0 \/ split)
=============================================================================
