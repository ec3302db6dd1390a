--------------------------- MODULE BuildQueueProofs ---------------------------
(***************************************************************************)
(* What the queue of builds keeps, for any number of changes, integrations *)
(* and failures, and any size of the buffer; and (in the last part) what   *)
(* the clients of Events show.                                             *)
(***************************************************************************)
EXTENDS MCBuildQueue, SequenceTheorems, FiniteSetTheorems, TLAPS

(* The runner is at work on a change, and what it has behind it is built.  *)
RunnerBuilds ==
    /\ runner.pc \in {"trigger", "ack"} => runner.msg \in Change
    /\ runner.pc = "trigger" =>
          \A i \in 1..Integrations : i < runner.next => built[runner.msg][i] > 0
    /\ runner.pc = "ack" => Built(runner.msg)

(* The subscriber reads a channel, and while nothing fails and the name    *)
(* has had one channel only, everybody has found that one.                 *)
OneChannel ==
    /\ mode = "memory" /\ sub = "on" => subch # NoChannel
    /\ (mode = "memory" /\ faults = 0 /\ ~split) =>
          /\ sub = "on" => subch = chans
          /\ \A c \in Change : pub[c] = "send" => pubch[c] = chans /\ chans # NoChannel

IInv == TypeOK /\ RunnerBuilds /\ OneChannel /\ EnqueuedIsKept

-----------------------------------------------------------------------------
(* Sequences.                                                              *)

(* What a sequence holds and what is appended to it is in the result.      *)
LEMMA AppendKeeps ==
    ASSUME NEW S, NEW s \in Seq(S), NEW x \in S, NEW y,
           y = x \/ \E j \in DOMAIN s : s[j] = y
    PROVE  \E j \in DOMAIN Append(s, x) : Append(s, x)[j] = y
<1>1. DOMAIN s = 1..Len(s) /\ DOMAIN Append(s, x) = 1..(Len(s) + 1)
      /\ Len(s) \in Nat
  OBVIOUS
<1>2. CASE y = x
  <2>1. Append(s, x)[Len(s) + 1] = x
    OBVIOUS
  <2> QED BY <1>1, <1>2, <2>1
<1>3. CASE \E j \in DOMAIN s : s[j] = y
  <2>1. PICK j \in 1..Len(s) : s[j] = y
    BY <1>1, <1>3
  <2>2. Append(s, x)[j] = y
    BY <2>1
  <2> QED BY <1>1, <2>1, <2>2
<1> QED BY <1>2, <1>3

(* What a sequence holds is its head or in its tail.                       *)
LEMMA TailKeeps ==
    ASSUME NEW S, NEW s \in Seq(S), s # <<>>, NEW y,
           \E j \in DOMAIN s : s[j] = y
    PROVE  y = Head(s) \/ \E j \in DOMAIN Tail(s) : Tail(s)[j] = y
<1>1. DOMAIN s = 1..Len(s) /\ DOMAIN Tail(s) = 1..(Len(s) - 1)
      /\ Len(s) \in Nat /\ Len(s) > 0
  OBVIOUS
<1>2. PICK j \in 1..Len(s) : s[j] = y
  BY <1>1
<1>3. CASE j = 1
  BY <1>2, <1>3
<1>4. CASE j # 1
  <2>1. j - 1 \in DOMAIN Tail(s) /\ Tail(s)[j - 1] = y
    BY <1>1, <1>2, <1>4
  <2> QED BY <2>1
<1> QED BY <1>3, <1>4

(* Taking the first of a sequence leaves a shorter one.                    *)
LEMMA HeadTail ==
    ASSUME NEW S, NEW s \in Seq(S), s # <<>>
    PROVE  /\ Head(s) \in S /\ Tail(s) \in Seq(S)
           /\ Len(Tail(s)) = Len(s) - 1 /\ Len(s) \in Nat
  OBVIOUS

-----------------------------------------------------------------------------
(* The invariant holds at first.                                           *)
LEMMA InitIInv == Init => IInv
<1> SUFFICES ASSUME Init PROVE IInv
  OBVIOUS
<1> USE BuildQueueAssumption DEF Init, Channel, Message, NoMsg, Idle
<1>1. TypeOK
  <2>1. \A k \in Channel : buf[k] = <<>> /\ Len(buf[k]) = 0
    OBVIOUS
  <2>2. buf \in [Channel -> Seq(Change)] /\ pipe \in Seq(Change) /\ Len(pipe) = 0
    OBVIOUS
  <2>3. 1 \in 1..Integrations
    OBVIOUS
  <2>4. built \in [Change -> [1..Integrations -> Nat]]
    OBVIOUS
  <2>5. q \in [Change -> Message] /\ runner.next \in 1..Integrations
    BY <2>3
  <2>6. runner \in [pc : {"idle", "trigger", "ack", "dead"},
                   msg : Change \union {NoChange}, next : 1..Integrations]
    BY <2>3
  <2>7. Len(pipe) <= Batch /\ \A k \in Channel : Len(buf[k]) <= BufferSize
    BY <2>1, <2>2
  <2>8. sub \in {"look", "make", "on"} /\ mode \in {"memory", "sqs"}
    OBVIOUS
  <2>9. pub \in [Change -> {"before", "look", "make", "send", "ok", "refused"}]
    OBVIOUS
  <2>10. pubch \in [Change -> Channel \union {NoChannel}]
    OBVIOUS
  <2>11. faults \in 0..MaxFaults
    OBVIOUS
  <2>13. split \in BOOLEAN
    BY Zenon
  <2>12. chans \in Channel \union {NoChannel} /\ subch \in Channel \union {NoChannel}
    OBVIOUS
  <2> QED BY <2>2, <2>4, <2>5, <2>6, <2>7, <2>8, <2>9, <2>10, <2>11, <2>12, <2>13 DEF TypeOK
<1>2. RunnerBuilds /\ OneChannel /\ EnqueuedIsKept
  BY DEF RunnerBuilds, OneChannel, EnqueuedIsKept
<1> QED BY <1>1, <1>2 DEF IInv
-----------------------------------------------------------------------------
(* Every step keeps the types.                                             *)
LEMMA StepTypeOK == TypeOK /\ RunnerBuilds /\ OneChannel /\ [Next]_vars => TypeOK'
<1> SUFFICES ASSUME TypeOK, RunnerBuilds, OneChannel, [Next]_vars PROVE TypeOK'
  OBVIOUS
<1> USE BuildQueueAssumption DEF Channel
<1>1. ASSUME NEW c \in Change, Enqueue(c) PROVE TypeOK'
  BY <1>1 DEF TypeOK, Enqueue, memory, consumer
<1>2. ASSUME NEW c \in Change, Look(c) PROVE TypeOK'
  BY <1>2 DEF TypeOK, Look, memory, consumer
<1>3. ASSUME NEW c \in Change, Make(c) PROVE TypeOK'
  <2>1. buf' \in [Channel -> Seq(Change)] /\ \A k \in Channel : Len(buf'[k]) <= BufferSize
    BY <1>3 DEF TypeOK, Make, MakeChannel
  <2> QED BY <1>3, <2>1 DEF TypeOK, Make, MakeChannel, consumer
<1>4. ASSUME NEW c \in Change, Send(c) PROVE TypeOK'
  <2>1. buf' \in [Channel -> Seq(Change)] /\ \A k \in Channel : Len(buf'[k]) <= BufferSize
    <3>1. PICK k : k = pubch[c]
      OBVIOUS
    <3>2. buf' = [buf EXCEPT ![k] = Append(buf[k], c)] /\ Len(buf[k]) < BufferSize
      BY <1>4, <3>1 DEF Send
    <3>3. CASE k \in Channel
      <4>1. buf[k] \in Seq(Change)
        BY <3>3 DEF TypeOK
      <4>2. Append(buf[k], c) \in Seq(Change) /\ Len(Append(buf[k], c)) <= BufferSize
        BY <3>2, <4>1
      <4> QED BY <3>2, <3>3, <4>2 DEF TypeOK
    <3>4. CASE k \notin Channel
      <4>1. buf' = buf
        BY <3>2, <3>4 DEF TypeOK
      <4> QED BY <4>1 DEF TypeOK
    <3> QED BY <3>3, <3>4
  <2> QED BY <1>4, <2>1 DEF TypeOK, Send, consumer
<1>5. ASSUME NEW c \in Change, GiveUp(c) PROVE TypeOK'
  BY <1>5 DEF TypeOK, GiveUp, memory, consumer
<1>6. ASSUME NEW c \in Change, SendMessage(c) PROVE TypeOK'
  <2>1. q' \in [Change -> Message]
    <3>1. q[c] \in Message
      BY DEF TypeOK
    <3>2. [q[c] EXCEPT !.there = TRUE, !.visible = TRUE] \in Message
      BY <1>6, <3>1 DEF SendMessage, Message
    <3> QED BY <1>6, <3>2 DEF TypeOK, SendMessage
  <2> QED BY <1>6, <2>1 DEF TypeOK, SendMessage, memory, consumer
<1>7. ASSUME NEW c \in Change, PublishFails(c) PROVE TypeOK'
  BY <1>7 DEF TypeOK, PublishFails, Fault, memory, consumer
<1>8. ASSUME NEW c \in Change, ReceiveMessage(c) PROVE TypeOK'
  <2>1. q' \in [Change -> Message]
    <3>1. q[c] \in Message
      BY DEF TypeOK
    <3>2. q[c].received + 1 \in 0..MaxReceive
      BY <1>8, <3>1 DEF ReceiveMessage, Message
    <3>3. [q[c] EXCEPT !.visible = FALSE, !.received = q[c].received + 1] \in Message
      BY <3>1, <3>2 DEF Message
    <3>4. q' = [q EXCEPT ![c] = [q[c] EXCEPT !.visible = FALSE,
                                             !.received = q[c].received + 1]]
      BY <1>8 DEF ReceiveMessage
    <3> QED BY <3>3, <3>4 DEF TypeOK
  <2>2. pipe' \in Seq(Change) /\ Len(pipe') <= Batch
    BY <1>8 DEF TypeOK, ReceiveMessage
  <2> QED BY <1>8, <2>1, <2>2 DEF TypeOK, ReceiveMessage, memory, publisher
<1>9. ASSUME NEW c \in Change, VisibleAgain(c) PROVE TypeOK'
  <2>1. q' \in [Change -> Message]
    <3>1. q[c] \in Message
      BY DEF TypeOK
    <3>2. /\ [q[c] EXCEPT !.visible = TRUE] \in Message
          /\ [q[c] EXCEPT !.there = FALSE, !.dead = TRUE] \in Message
      BY <3>1 DEF Message
    <3> QED BY <1>9, <3>2 DEF TypeOK, VisibleAgain
  <2> QED BY <1>9, <2>1 DEF TypeOK, VisibleAgain, memory, publisher, consumer
<1>10. CASE SubLook
  BY <1>10 DEF TypeOK, SubLook, memory, publisher
<1>11. CASE SubMake
  <2>1. buf' \in [Channel -> Seq(Change)] /\ \A k \in Channel : Len(buf'[k]) <= BufferSize
    BY <1>11 DEF TypeOK, SubMake, MakeChannel
  <2> QED BY <1>11, <2>1 DEF TypeOK, SubMake, MakeChannel, publisher
<1>12. CASE SubReceive
  <2>1. subch \in Channel /\ buf[subch] \in Seq(Change) /\ buf[subch] # <<>>
    BY <1>12 DEF TypeOK, SubReceive, OneChannel
  <2>2. Head(buf[subch]) \in Change /\ Tail(buf[subch]) \in Seq(Change)
        /\ Len(Tail(buf[subch])) <= BufferSize
    <3> DEFINE s == buf[subch]
    <3>1. s \in Seq(Change) /\ s # <<>>
      BY <2>1
    <3>2. Len(s) <= BufferSize /\ BufferSize \in Nat
      BY <2>1 DEF TypeOK
    <3> HIDE DEF s
    <3>3. /\ Head(s) \in Change /\ Tail(s) \in Seq(Change)
          /\ Len(Tail(s)) = Len(s) - 1 /\ Len(s) \in Nat
      BY <3>1, HeadTail
    <3>4. Len(Tail(s)) <= BufferSize
      BY <3>2, <3>3
    <3> QED BY <3>3, <3>4 DEF s
  <2>3. buf' \in [Channel -> Seq(Change)] /\ \A k \in Channel : Len(buf'[k]) <= BufferSize
    BY <1>12, <2>1, <2>2 DEF TypeOK, SubReceive
  <2>4. pipe' \in Seq(Change) /\ Len(pipe') <= Batch
    BY <1>12, <2>2 DEF SubReceive
  <2> QED BY <1>12, <2>3, <2>4 DEF TypeOK, SubReceive, publisher
<1>13. CASE Take
  <2>1. Head(pipe) \in Change /\ Tail(pipe) \in Seq(Change) /\ Len(Tail(pipe)) <= Batch
    <3>1. pipe \in Seq(Change) /\ pipe # <<>> /\ Len(pipe) <= Batch /\ Batch \in Nat
      BY <1>13 DEF TypeOK, Take
    <3>2. /\ Head(pipe) \in Change /\ Tail(pipe) \in Seq(Change)
          /\ Len(Tail(pipe)) = Len(pipe) - 1 /\ Len(pipe) \in Nat
      BY <3>1, HeadTail
    <3> QED BY <3>1, <3>2
  <2>2. runner' \in [pc : {"idle", "trigger", "ack", "dead"},
                    msg : Change \union {NoChange}, next : 1..Integrations]
    BY <1>13, <2>1 DEF Take
  <2> QED BY <1>13, <2>1, <2>2 DEF TypeOK, Take, memory, publisher
<1>14. CASE TriggerChange
  <2>1. runner.msg \in Change /\ runner.next \in 1..Integrations
    BY <1>14 DEF TypeOK, RunnerBuilds, TriggerChange
  <2>2. built' \in [Change -> [1..Integrations -> Nat]]
    <3>1. built[runner.msg] \in [1..Integrations -> Nat]
      BY <2>1 DEF TypeOK
    <3>2. [built[runner.msg] EXCEPT ![runner.next] = @ + 1] \in [1..Integrations -> Nat]
      BY <2>1, <3>1
    <3> QED BY <1>14, <2>1, <3>2 DEF TypeOK, TriggerChange
  <2>3. runner' \in [pc : {"idle", "trigger", "ack", "dead"},
                    msg : Change \union {NoChange}, next : 1..Integrations]
    <3>1. CASE runner.next = Integrations
      BY <1>14, <3>1 DEF TypeOK, TriggerChange
    <3>2. CASE runner.next # Integrations
      <4>1. runner.next + 1 \in 1..Integrations
        BY <2>1, <3>2
      <4> QED BY <1>14, <3>2, <4>1 DEF TypeOK, TriggerChange
    <3> QED BY <3>1, <3>2
  <2> QED BY <1>14, <2>2, <2>3 DEF TypeOK, TriggerChange, memory, publisher, consumer
<1>15. CASE TriggerFails
  BY <1>15 DEF TypeOK, TriggerFails, Fault, Idle, memory, publisher, consumer
<1>16. CASE Panic
  <2>1. runner' \in [pc : {"idle", "trigger", "ack", "dead"},
                    msg : Change \union {NoChange}, next : 1..Integrations]
    BY <1>16 DEF Panic, Idle
  <2>2. faults' \in 0..MaxFaults
    BY <1>16 DEF TypeOK, Panic, Fault
  <2>3. UNCHANGED <<mode, memory, q, publisher, consumer, built>>
    BY <1>16 DEF Panic
  <2> QED BY <2>1, <2>2, <2>3 DEF TypeOK, memory, publisher, consumer
<1>17. CASE Ack
  <2>1. q' \in [Change -> Message]
    <3>1. runner.msg \in Change
      BY <1>17 DEF RunnerBuilds, Ack
    <3>2. q[runner.msg] \in Message
      BY <3>1 DEF TypeOK
    <3>3. [q[runner.msg] EXCEPT !.there = FALSE] \in Message
      BY <3>2 DEF Message
    <3> QED BY <1>17, <3>1, <3>3 DEF TypeOK, Ack
  <2> QED BY <1>17, <2>1 DEF TypeOK, Ack, Idle, memory, publisher, consumer
<1>18. CASE AckFails
  BY <1>18 DEF TypeOK, AckFails, Fault, Idle, memory, publisher, consumer
<1>19. CASE Restart
  <2>1. buf' \in [Channel -> Seq(Change)] /\ \A k \in Channel : Len(buf'[k]) <= BufferSize
    BY <1>19 DEF Restart
  <2>2. pipe' \in Seq(Change) /\ Len(pipe') <= Batch
    BY <1>19 DEF Restart
  <2>3. pub' \in [Change -> {"before", "look", "make", "send", "ok", "refused"}]
    BY <1>19 DEF TypeOK, Restart
  <2> QED BY <1>19, <2>1, <2>2, <2>3 DEF TypeOK, Restart, Fault, Idle
<1>20. CASE UNCHANGED vars
  BY <1>20 DEF TypeOK, vars
<1> QED
  BY <1>1, <1>2, <1>3, <1>4, <1>5, <1>6, <1>7, <1>8, <1>9, <1>10, <1>11, <1>12, <1>13,
     <1>14, <1>15, <1>16, <1>17, <1>18, <1>19, <1>20
  DEF Next, Publish, Subscribe, Deliver, Run
-----------------------------------------------------------------------------
(* The runner acknowledges what it has built.                              *)
LEMMA StepRunner == TypeOK /\ RunnerBuilds /\ [Next]_vars => RunnerBuilds'
<1> SUFFICES ASSUME TypeOK, RunnerBuilds, [Next]_vars PROVE RunnerBuilds'
  OBVIOUS
<1>1. CASE UNCHANGED <<runner, built>>
  BY <1>1 DEF RunnerBuilds, Built
<1>2. CASE Take
  <2>1. Head(pipe) \in Change
    BY <1>2 DEF TypeOK, Take
  <2>2. runner' = [pc |-> "trigger", msg |-> Head(pipe), next |-> 1]
    BY <1>2 DEF Take
  <2> QED BY <2>1, <2>2 DEF RunnerBuilds
<1>3. CASE TriggerChange
  <2> DEFINE c == runner.msg  i == runner.next
  <2>1. /\ runner.pc = "trigger" /\ c \in Change /\ i \in 1..Integrations
        /\ built[c] \in [1..Integrations -> Nat]
    BY <1>3 DEF TypeOK, RunnerBuilds, TriggerChange
  <2>2. built' = [built EXCEPT ![c] = [built[c] EXCEPT ![i] = built[c][i] + 1]]
    BY <1>3 DEF TriggerChange
  <2>3. built'[c] = [built[c] EXCEPT ![i] = built[c][i] + 1]
    BY <2>1, <2>2 DEF TypeOK
  <2>4. \A j \in 1..Integrations : j < i => built[c][j] > 0
    BY <2>1 DEF RunnerBuilds
  <2>5. \A j \in 1..Integrations : j <= i => built'[c][j] > 0
    BY <2>1, <2>3, <2>4, BuildQueueAssumption
  <2>6. CASE i = Integrations
    <3>1. runner' = [runner EXCEPT !.pc = "ack"]
      BY <1>3, <2>6 DEF TriggerChange
    <3>2. runner'.pc = "ack" /\ runner'.msg = c
      BY <3>1 DEF TypeOK
    <3>3. \A j \in 1..Integrations : built'[c][j] > 0
      BY <2>5, <2>6
    <3> QED BY <2>1, <3>2, <3>3 DEF RunnerBuilds, Built
  <2>7. CASE i # Integrations
    <3>1. runner' = [runner EXCEPT !.next = i + 1]
      BY <1>3, <2>7 DEF TriggerChange
    <3>2. runner'.pc = "trigger" /\ runner'.msg = c /\ runner'.next = i + 1
      BY <2>1, <3>1 DEF TypeOK
    <3>3. \A j \in 1..Integrations : j < i + 1 => built'[c][j] > 0
      BY <2>1, <2>5, BuildQueueAssumption
    <3> QED BY <2>1, <3>2, <3>3 DEF RunnerBuilds
  <2> QED BY <2>6, <2>7
<1>4. CASE runner'.pc \notin {"trigger", "ack"}
  BY <1>4 DEF RunnerBuilds
<1>5. ASSUME \/ TriggerFails \/ Panic \/ Ack \/ AckFails \/ Restart
      PROVE  runner'.pc \notin {"trigger", "ack"}
  BY <1>5 DEF TriggerFails, Panic, Ack, AckFails, Restart, Idle
<1> QED
  BY <1>1, <1>2, <1>3, <1>4, <1>5
  DEF Next, Enqueue, Publish, Look, Make, Send, GiveUp, SendMessage, PublishFails,
      Deliver, ReceiveMessage, VisibleAgain, Subscribe, SubLook, SubMake, SubReceive, Run, vars

(* Everybody finds the one channel.                                        *)
LEMMA StepChannel == TypeOK /\ OneChannel /\ [Next]_vars => OneChannel'
<1> SUFFICES ASSUME TypeOK, OneChannel, [Next]_vars PROVE OneChannel'
  OBVIOUS
<1> USE BuildQueueAssumption DEF Channel
<1>1. CASE UNCHANGED <<mode, memory, publisher, sub, subch, faults>>
  BY <1>1 DEF OneChannel, memory, publisher
<1>2. ASSUME NEW c \in Change, Enqueue(c) PROVE OneChannel'
  BY <1>2 DEF TypeOK, OneChannel, Enqueue, memory, consumer
<1>3. ASSUME NEW c \in Change, Look(c) PROVE OneChannel'
  BY <1>3 DEF TypeOK, OneChannel, Look, memory, consumer
<1>4. ASSUME NEW c \in Change, Make(c) PROVE OneChannel'
  BY <1>4 DEF TypeOK, OneChannel, Make, MakeChannel, consumer
<1>5. ASSUME NEW c \in Change, Send(c) PROVE OneChannel'
  BY <1>5 DEF TypeOK, OneChannel, Send, consumer
<1>6. ASSUME NEW c \in Change, GiveUp(c) PROVE OneChannel'
  BY <1>6 DEF TypeOK, OneChannel, GiveUp, memory, consumer
<1>7. ASSUME NEW c \in Change, SendMessage(c) PROVE OneChannel'
  BY <1>7 DEF TypeOK, OneChannel, SendMessage, memory, consumer
<1>8. CASE SubLook
  BY <1>8 DEF TypeOK, OneChannel, SubLook, memory, publisher
<1>9. CASE SubMake
  BY <1>9 DEF TypeOK, OneChannel, SubMake, MakeChannel, publisher
<1>10. CASE SubReceive
  BY <1>10 DEF TypeOK, OneChannel, SubReceive, publisher
<1>11. CASE Restart
  BY <1>11 DEF TypeOK, OneChannel, Restart, Fault
<1>12. ASSUME UNCHANGED <<mode, sub, subch>>, Fault PROVE OneChannel'
  BY <1>12 DEF TypeOK, OneChannel, Fault
<1> QED
  BY <1>1, <1>2, <1>3, <1>4, <1>5, <1>6, <1>7, <1>8, <1>9, <1>10, <1>11, <1>12
  DEF Next, Publish, PublishFails, Deliver, ReceiveMessage, VisibleAgain, Subscribe,
      Run, Take, TriggerChange, TriggerFails, Panic, Ack, AckFails, memory, publisher,
      consumer, vars
-----------------------------------------------------------------------------
(* What is published is kept.                                              *)

(* The promise for one change, by the implementation of the queue.         *)
KeptBySQS(c)    == mode = "sqs" => q[c].there \/ q[c].dead
KeptInMemory(c) == (mode = "memory" /\ faults = 0 /\ ~split) =>
                       (Read # NoChannel /\ Holds(Read, c)) \/ InPipe(c) \/ InHand(c)

(* SQS deletes a message only when it is acknowledged.                     *)
LEMMA StepSQS ==
    ASSUME TypeOK, RunnerBuilds, [Next]_vars, NEW c \in Change,
           pub[c] = "ok" /\ ~Built(c) => KeptBySQS(c)
    PROVE  (pub[c] = "ok" /\ ~Built(c) => KeptBySQS(c))'
<1> USE DEF KeptBySQS
<1>1. mode' = mode
  BY DEF Next, Enqueue, Publish, Look, Make, Send, GiveUp, SendMessage, PublishFails,
         Deliver, ReceiveMessage, VisibleAgain, Subscribe, SubLook, SubMake, SubReceive,
         Run, Take, TriggerChange, TriggerFails, Panic, Ack, AckFails, Restart, vars
<1>2. CASE TriggerChange
  <2>1. runner.msg \in Change /\ runner.next \in 1..Integrations
        /\ built[runner.msg] \in [1..Integrations -> Nat]
        /\ built[c] \in [1..Integrations -> Nat]
    BY <1>2 DEF TypeOK, RunnerBuilds, TriggerChange
  <2>2. built' = [built EXCEPT ![runner.msg] =
                     [built[runner.msg] EXCEPT ![runner.next] = built[runner.msg][runner.next] + 1]]
    BY <1>2 DEF TriggerChange
  <2>3. Built(c) => Built(c)'
    <3>1. CASE c = runner.msg
      <4>1. built'[c] = [built[c] EXCEPT ![runner.next] = built[c][runner.next] + 1]
        BY <2>1, <2>2, <3>1 DEF TypeOK
      <4>2. \A i \in 1..Integrations : built[c][i] > 0 => built'[c][i] > 0
        BY <2>1, <4>1
      <4> QED BY <4>2 DEF Built
    <3>2. CASE c # runner.msg
      <4>1. built'[c] = built[c]
        BY <2>2, <3>2 DEF TypeOK
      <4> QED BY <4>1 DEF Built
    <3> QED BY <3>1, <3>2
  <2>4. pub' = pub /\ q' = q
    BY <1>2 DEF TriggerChange, publisher
  <2> QED BY <1>1, <2>3, <2>4
<1>3. CASE Ack
  <2>1. runner.msg \in Change /\ Built(runner.msg)
    BY <1>3 DEF Ack, RunnerBuilds
  <2>2. pub' = pub /\ built' = built /\ q' = [q EXCEPT ![runner.msg].there = FALSE]
    BY <1>3 DEF Ack, publisher
  <2>3. c # runner.msg => q'[c] = q[c]
    BY <2>2 DEF TypeOK
  <2> QED BY <1>1, <2>1, <2>2, <2>3 DEF Built
<1>4. ASSUME NEW d \in Change, SendMessage(d) PROVE (pub[c] = "ok" /\ ~Built(c) => KeptBySQS(c))'
  <2>1. built' = built /\ q' = [q EXCEPT ![d] = [q[d] EXCEPT !.there = TRUE, !.visible = TRUE]]
        /\ pub' = [pub EXCEPT ![d] = "ok"]
    BY <1>4 DEF SendMessage
  <2>2. q[d] \in Message
    BY DEF TypeOK
  <2>3. CASE c = d
    <3>1. q'[c].there = TRUE
      BY <2>1, <2>2, <2>3 DEF TypeOK, Message
    <3> QED BY <3>1
  <2>4. CASE c # d
    <3>1. q'[c] = q[c] /\ pub'[c] = pub[c]
      BY <2>1, <2>4 DEF TypeOK
    <3> QED BY <1>1, <2>1, <3>1 DEF Built
  <2> QED BY <2>3, <2>4
<1>5. ASSUME NEW d \in Change, ReceiveMessage(d) \/ VisibleAgain(d)
      PROVE  (pub[c] = "ok" /\ ~Built(c) => KeptBySQS(c))'
  <2>1. built' = built /\ pub' = pub
    BY <1>5 DEF ReceiveMessage, VisibleAgain, publisher
  <2>2. q[c].there => q'[c].there \/ q'[c].dead
    <3>1. PICK m : q' = [q EXCEPT ![d] = m] /\ (q[d].there => m.there \/ m.dead)
      <4>1. q[d] \in Message
        BY DEF TypeOK
      <4>2. CASE ReceiveMessage(d)
        <5>1. q' = [q EXCEPT ![d] = [q[d] EXCEPT !.visible = FALSE,
                                                 !.received = q[d].received + 1]]
          BY <4>2 DEF ReceiveMessage
        <5>2. [q[d] EXCEPT !.visible = FALSE, !.received = q[d].received + 1].there = q[d].there
          BY <4>1 DEF Message
        <5> QED BY <5>1, <5>2
      <4>3. CASE VisibleAgain(d)
        <5>1. q' = [q EXCEPT ![d] = IF q[d].received < MaxReceive
                                    THEN [q[d] EXCEPT !.visible = TRUE]
                                    ELSE [q[d] EXCEPT !.there = FALSE, !.dead = TRUE]]
          BY <4>3 DEF VisibleAgain
        <5>2. /\ [q[d] EXCEPT !.visible = TRUE].there = q[d].there
              /\ [q[d] EXCEPT !.there = FALSE, !.dead = TRUE].dead = TRUE
          BY <4>1 DEF Message
        <5>3. CASE q[d].received < MaxReceive
          BY <5>1, <5>2, <5>3
        <5>4. CASE ~(q[d].received < MaxReceive)
          BY <5>1, <5>2, <5>4
        <5> QED BY <5>3, <5>4
      <4> QED BY <1>5, <4>2, <4>3
    <3>2. c = d => q'[c] = m
      BY <3>1 DEF TypeOK
    <3>3. c # d => q'[c] = q[c]
      BY <3>1 DEF TypeOK
    <3> QED BY <3>1, <3>2, <3>3
  <2>3. q[c].dead => q'[c].dead
    <3>1. q[d] \in Message
      BY DEF TypeOK
    <3>2. CASE c = d
      <4>1. PICK m : q' = [q EXCEPT ![d] = m] /\ (q[d].dead => m.dead)
        <5>1. /\ [q[d] EXCEPT !.visible = FALSE, !.received = q[d].received + 1].dead = q[d].dead
              /\ [q[d] EXCEPT !.visible = TRUE].dead = q[d].dead
              /\ [q[d] EXCEPT !.there = FALSE, !.dead = TRUE].dead = TRUE
          BY <3>1 DEF Message
        <5>2. CASE ReceiveMessage(d)
          <6>1. q' = [q EXCEPT ![d] = [q[d] EXCEPT !.visible = FALSE,
                                                   !.received = q[d].received + 1]]
            BY <5>2 DEF ReceiveMessage
          <6> QED BY <5>1, <6>1
        <5>3. CASE VisibleAgain(d)
          <6>1. q' = [q EXCEPT ![d] = IF q[d].received < MaxReceive
                                      THEN [q[d] EXCEPT !.visible = TRUE]
                                      ELSE [q[d] EXCEPT !.there = FALSE, !.dead = TRUE]]
            BY <5>3 DEF VisibleAgain
          <6>2. CASE q[d].received < MaxReceive
            BY <5>1, <6>1, <6>2
          <6>3. CASE ~(q[d].received < MaxReceive)
            BY <5>1, <6>1, <6>3
          <6> QED BY <6>2, <6>3
        <5> QED BY <1>5, <5>2, <5>3
      <4> QED BY <3>2, <4>1 DEF TypeOK
    <3>3. CASE c # d
      BY <1>5, <3>3 DEF TypeOK, ReceiveMessage, VisibleAgain
    <3> QED BY <3>2, <3>3
  <2> QED BY <1>1, <2>1, <2>2, <2>3 DEF Built
<1>6. CASE UNCHANGED <<q, built>> /\ (mode = "sqs" => (pub'[c] = "ok" => pub[c] = "ok"))
  BY <1>1, <1>6 DEF Built
<1>7. ASSUME NEW d \in Change, Enqueue(d) \/ Look(d) \/ Make(d) \/ GiveUp(d) \/ PublishFails(d)
      PROVE UNCHANGED <<q, built>> /\ (pub'[c] = "ok" => pub[c] = "ok")
  BY <1>7 DEF TypeOK, Enqueue, Look, Make, GiveUp, PublishFails
<1>8. ASSUME NEW d \in Change, Send(d)
      PROVE UNCHANGED <<q, built>> /\ mode # "sqs"
  BY <1>8 DEF Send
<1>9. ASSUME \/ Subscribe \/ Take \/ TriggerFails \/ Panic \/ AckFails \/ UNCHANGED vars
      PROVE  UNCHANGED <<q, built, pub>>
  BY <1>9 DEF Subscribe, SubLook, SubMake, SubReceive, Take, TriggerFails, Panic, AckFails,
              publisher, vars
<1>10. ASSUME Restart PROVE UNCHANGED <<q, built>> /\ (pub'[c] = "ok" => pub[c] = "ok")
  BY <1>10 DEF TypeOK, Restart
<1> QED
  BY <1>2, <1>3, <1>4, <1>5, <1>6, <1>7, <1>8, <1>9, <1>10 DEF Next, Publish, Deliver, Run
(* In memory a change is at one place at a time until it is built.         *)
LEMMA StepMemory ==
    ASSUME TypeOK, RunnerBuilds, OneChannel, [Next]_vars, NEW c \in Change,
           pub[c] = "ok" /\ ~Built(c) => KeptInMemory(c)
    PROVE  (pub[c] = "ok" /\ ~Built(c) => KeptInMemory(c))'
<1> SUFFICES ASSUME pub'[c] = "ok", ~Built(c)', mode' = "memory", faults' = 0, ~split'
             PROVE  (\/ Read # NoChannel /\ Holds(Read, c)
                     \/ InPipe(c) \/ InHand(c))'
  BY DEF KeptInMemory
<1> DEFINE Somewhere == \/ Read # NoChannel /\ Holds(Read, c)
                        \/ InPipe(c) \/ InHand(c)
<1> USE BuildQueueAssumption DEF Channel
<1>1. mode = "memory" /\ faults = 0 /\ ~split /\ ~Fault
  <2>a. mode' = mode
    BY DEF Next, Enqueue, Publish, Look, Make, Send, GiveUp, SendMessage, PublishFails,
           Deliver, ReceiveMessage, VisibleAgain, Subscribe, SubLook, SubMake, SubReceive,
           Run, Take, TriggerChange, TriggerFails, Panic, Ack, AckFails, Restart, vars
  <2>b. faults' = faults \/ Fault
    BY DEF Next, Enqueue, Publish, Look, Make, Send, GiveUp, SendMessage, PublishFails,
           Deliver, ReceiveMessage, VisibleAgain, Subscribe, SubLook, SubMake, SubReceive,
           Run, Take, TriggerChange, TriggerFails, Panic, Ack, AckFails, Restart, vars
  <2>c. split' = split \/ split' = (split \/ chans # NoChannel)
    <3>1. ASSUME NEW d \in Change, Make(d) \/ SubMake PROVE split' = (split \/ chans # NoChannel)
      BY <3>1, Zenon DEF Make, SubMake, MakeChannel
    <3>2. ASSUME NEW d \in Change,
                 \/ Enqueue(d) \/ Look(d) \/ Send(d) \/ GiveUp(d) \/ SendMessage(d)
                 \/ PublishFails(d) \/ Deliver(d)
          PROVE  split' = split
      BY <3>2 DEF Enqueue, Look, Send, GiveUp, SendMessage, PublishFails, Deliver,
                  ReceiveMessage, VisibleAgain, memory
    <3>3. ASSUME \/ SubLook \/ SubReceive \/ Run \/ TriggerFails \/ Panic \/ AckFails
                 \/ Restart \/ UNCHANGED vars
          PROVE  split' = split
      BY <3>3 DEF SubLook, SubReceive, Run, Take, TriggerChange, Ack, TriggerFails, Panic,
                  AckFails, Restart, memory, vars
    <3>4. SubMake => split' = (split \/ chans # NoChannel)
      BY Zenon DEF SubMake, MakeChannel
    <3> QED BY <3>1, <3>2, <3>3, <3>4, Zenon DEF Next, Publish, Subscribe
  <2>1. split => split'
    BY <2>c, Zenon
  <2>2. faults \in Nat
    BY DEF TypeOK
  <2>3. ~Fault /\ faults = 0
    BY <2>b, <2>2 DEF Fault
  <2>4. ~split
    BY <2>1, Zenon
  <2> QED BY <2>a, <2>3, <2>4
<1>2. /\ sub = "on" => subch = chans /\ subch # NoChannel
      /\ \A d \in Change : pub[d] = "send" => pubch[d] = chans /\ chans # NoChannel
      /\ Read = chans
  BY <1>1 DEF OneChannel, Read
<1>3. pub[c] = "ok" /\ ~Built(c) => Somewhere
  BY <1>1 DEF KeptInMemory
<1>4. CASE UNCHANGED <<chans, buf, sub, subch, pipe, runner, built>> /\ (pub'[c] = "ok" => pub[c] = "ok")
  BY <1>3, <1>4 DEF Built, Read, Holds, InPipe, InHand
<1>5. ASSUME NEW d \in Change, Make(d) PROVE Somewhere'
  <2>1. /\ chans = NoChannel /\ pub[c] = "ok" /\ built' = built /\ pipe' = pipe /\ runner' = runner
    BY <1>1, <1>5 DEF TypeOK, Make, MakeChannel, consumer
  <2> QED BY <1>2, <1>3, <2>1 DEF Built, InPipe, InHand
<1>6. CASE SubMake
  <2>1. /\ chans = NoChannel /\ pub[c] = "ok" /\ built' = built /\ pipe' = pipe /\ runner' = runner
    BY <1>1, <1>6 DEF TypeOK, SubMake, MakeChannel, publisher
  <2> QED BY <1>2, <1>3, <2>1 DEF Built, InPipe, InHand
<1>7. CASE SubLook
  <2>1. /\ pub[c] = "ok" /\ built' = built /\ pipe' = pipe /\ runner' = runner
        /\ chans' = chans /\ buf' = buf /\ Read' = chans
    BY <1>7 DEF SubLook, publisher, memory, Read
  <2> QED BY <1>2, <1>3, <2>1 DEF Built, Holds, InPipe, InHand
<1>8. ASSUME NEW d \in Change, Send(d) PROVE Somewhere'
  <2>a. pubch[d] = chans /\ chans # NoChannel
    BY <1>2, <1>8 DEF Send
  <2>b. chans \in Channel /\ (c # d => pub[c] = "ok")
    BY <1>8, <2>a DEF TypeOK, Send
  <2>1. /\ chans # NoChannel /\ chans \in Channel /\ chans' = chans /\ Read' = Read
        /\ buf' = [buf EXCEPT ![chans] = Append(buf[chans], d)]
        /\ pipe' = pipe /\ runner' = runner /\ built' = built
        /\ (c # d => pub[c] = "ok")
    BY <1>8, <2>a, <2>b DEF Send, consumer, Read
  <2>2. buf[chans] \in Seq(Change) /\ buf'[chans] = Append(buf[chans], d)
    BY <2>1 DEF TypeOK
  <2>3. CASE c = d
    <3>1. \E j \in DOMAIN Append(buf[chans], d) : Append(buf[chans], d)[j] = c
      BY <2>2, <2>3, AppendKeeps
    <3> QED BY <1>2, <2>1, <2>2, <3>1 DEF Holds
  <2>4. CASE c # d
    <3>1. CASE Holds(chans, c)
      <4>1. \E j \in DOMAIN Append(buf[chans], d) : Append(buf[chans], d)[j] = c
        <5>1. \E j \in DOMAIN buf[chans] : buf[chans][j] = c
          BY <3>1 DEF Holds
        <5> DEFINE s == buf[chans]
        <5>2. s \in Seq(Change) /\ \E j \in DOMAIN s : s[j] = c
          BY <2>2, <5>1
        <5> HIDE DEF s
        <5>3. \E j \in DOMAIN Append(s, d) : Append(s, d)[j] = c
          BY <5>2, AppendKeeps
        <5> QED BY <5>3 DEF s
      <4> QED BY <1>2, <2>1, <2>2, <4>1 DEF Holds
    <3>2. CASE InPipe(c) \/ InHand(c)
      BY <2>1, <3>2 DEF InPipe, InHand
    <3> QED BY <1>2, <1>3, <2>1, <2>4, <3>1, <3>2 DEF Built
  <2> QED BY <2>3, <2>4
<1>9. CASE SubReceive
  <2>1. /\ subch = chans /\ chans \in Channel /\ chans' = chans /\ Read' = Read
        /\ pipe' = <<Head(buf[chans])>>
        /\ buf' = [buf EXCEPT ![chans] = Tail(buf[chans])] /\ buf[chans] # <<>>
        /\ runner' = runner /\ built' = built /\ pub' = pub /\ pipe = <<>>
    BY <1>2, <1>9 DEF TypeOK, SubReceive, publisher, Read
  <2>2. buf[chans] \in Seq(Change) /\ buf'[chans] = Tail(buf[chans])
    BY <2>1 DEF TypeOK
  <2>3. CASE Holds(chans, c)
    <3>1. c = Head(buf[chans]) \/ \E j \in DOMAIN Tail(buf[chans]) : Tail(buf[chans])[j] = c
      BY <2>1, <2>2, <2>3, TailKeeps DEF Holds
    <3>2. CASE c = Head(buf[chans])
      <4>1. 1 \in DOMAIN pipe' /\ pipe'[1] = c
        BY <2>1, <3>2
      <4> QED BY <4>1 DEF InPipe
    <3>3. CASE \E j \in DOMAIN Tail(buf[chans]) : Tail(buf[chans])[j] = c
      BY <1>2, <2>1, <2>2, <3>3 DEF Holds
    <3> QED BY <3>1, <3>2, <3>3
  <2>4. CASE InHand(c)
    BY <2>1, <2>4 DEF InHand
  <2>5. ~InPipe(c)
    BY <2>1 DEF InPipe
  <2> QED BY <1>2, <1>3, <2>1, <2>3, <2>4, <2>5 DEF Built
<1>10. CASE Take
  <2>1. /\ pipe \in Seq(Change) /\ pipe # <<>> /\ pipe' = Tail(pipe)
        /\ runner' = [pc |-> "trigger", msg |-> Head(pipe), next |-> 1]
        /\ chans' = chans /\ buf' = buf /\ Read' = Read /\ built' = built /\ pub' = pub
        /\ ~InHand(c)
    BY <1>10 DEF TypeOK, Take, memory, publisher, Read, InHand
  <2>2. CASE InPipe(c)
    <3>1. c = Head(pipe) \/ \E j \in DOMAIN Tail(pipe) : Tail(pipe)[j] = c
      BY <2>1, <2>2, TailKeeps DEF InPipe
    <3> QED BY <2>1, <3>1 DEF InPipe, InHand
  <2>3. CASE Read # NoChannel /\ Holds(Read, c)
    BY <2>1, <2>3 DEF Holds
  <2> QED BY <1>3, <2>1, <2>2, <2>3 DEF Built
<1>11. CASE TriggerChange
  <2> DEFINE m == runner.msg
  <2>1. /\ m \in Change /\ runner.next \in 1..Integrations /\ runner.pc = "trigger"
        /\ built[m] \in [1..Integrations -> Nat] /\ built[c] \in [1..Integrations -> Nat]
    BY <1>11 DEF TypeOK, RunnerBuilds, TriggerChange
  <2>2. /\ built' = [built EXCEPT ![m] = [built[m] EXCEPT ![runner.next] = built[m][runner.next] + 1]]
        /\ pub' = pub /\ pipe' = pipe /\ chans' = chans /\ buf' = buf /\ Read' = Read
    BY <1>11 DEF TriggerChange, memory, publisher, consumer, Read
  <2>3. CASE c # m
    <3>1. built'[c] = built[c] /\ ~InHand(c)
      BY <2>2, <2>3 DEF TypeOK, InHand
    <3> QED BY <1>3, <2>2, <3>1 DEF Built, Holds, InPipe
  <2>4. CASE c = m
    <3>1. runner.next # Integrations
      <4> SUFFICES ASSUME runner.next = Integrations PROVE FALSE
        OBVIOUS
      <4>1. built'[c] = [built[c] EXCEPT ![runner.next] = built[c][runner.next] + 1]
        BY <2>1, <2>2, <2>4 DEF TypeOK
      <4>2. \A i \in 1..Integrations : i < runner.next => built[c][i] > 0
        BY <2>1, <2>4 DEF RunnerBuilds
      <4>3. \A i \in 1..Integrations : i < runner.next => built'[c][i] > 0
        BY <2>1, <4>1, <4>2
      <4>4. built'[c][runner.next] > 0
        BY <2>1, <4>1
      <4>5. \A i \in 1..Integrations : built'[c][i] > 0
        BY <4>3, <4>4
      <4> QED BY <4>5 DEF Built
    <3>2. runner' = [runner EXCEPT !.next = runner.next + 1]
      BY <1>11, <3>1 DEF TriggerChange
    <3>3. runner'.pc = "trigger" /\ runner'.msg = c
      BY <2>1, <2>4, <3>2 DEF TypeOK
    <3> QED BY <3>3 DEF InHand
  <2> QED BY <2>3, <2>4
<1>12. CASE Ack
  <2>1. /\ runner.pc = "ack" /\ ~InHand(c) /\ pipe' = pipe
        /\ chans' = chans /\ buf' = buf /\ Read' = Read /\ built' = built /\ pub' = pub
    BY <1>12 DEF Ack, memory, publisher, consumer, Read, InHand
  <2> QED BY <1>3, <2>1 DEF Built, Holds, InPipe
<1>13. ASSUME NEW d \in Change, Enqueue(d) \/ Look(d) \/ GiveUp(d)
       PROVE  UNCHANGED <<chans, buf, sub, subch, pipe, runner, built>> /\ (pub'[c] = "ok" => pub[c] = "ok")
  BY <1>13 DEF TypeOK, Enqueue, Look, GiveUp, memory, consumer
<1>14. ASSUME NEW d \in Change, VisibleAgain(d)
       PROVE  UNCHANGED <<chans, buf, sub, subch, pipe, runner, built, pub>>
  BY <1>14 DEF VisibleAgain, memory, publisher, consumer
<1>15. ASSUME NEW d \in Change, ReceiveMessage(d) PROVE Somewhere'
  <2>1. /\ pipe \in Seq(Change) /\ pipe' = Append(pipe, d) /\ runner' = runner
        /\ chans' = chans /\ buf' = buf /\ Read' = Read /\ built' = built /\ pub' = pub
    BY <1>15 DEF TypeOK, ReceiveMessage, memory, publisher, Read
  <2>2. InPipe(c) => InPipe(c)'
    BY <2>1, AppendKeeps DEF InPipe
  <2> QED BY <1>3, <2>1, <2>2 DEF Built, Holds, InHand
<1>16. CASE UNCHANGED vars
  BY <1>4, <1>16 DEF vars
<1> QED
  BY <1>1, <1>4, <1>5, <1>6, <1>7, <1>8, <1>9, <1>10, <1>11, <1>12, <1>13, <1>14, <1>15, <1>16
  DEF Next, Publish, PublishFails, SendMessage, Deliver, Subscribe, Run,
      TriggerFails, Panic, AckFails, Restart

-----------------------------------------------------------------------------
(* IInv holds in every state.                                              *)
THEOREM Invariant == Spec => []IInv
<1>1. Init => IInv
  BY InitIInv
<1>2. IInv /\ [Next]_vars => IInv'
  <2> SUFFICES ASSUME IInv, [Next]_vars PROVE IInv'
    OBVIOUS
  <2>1. TypeOK' /\ RunnerBuilds' /\ OneChannel'
    BY StepTypeOK, StepRunner, StepChannel DEF IInv
  <2>2. EnqueuedIsKept'
    <3>1. ASSUME NEW c \in Change
          PROVE  (pub[c] = "ok" /\ ~Built(c) => KeptBySQS(c) /\ KeptInMemory(c))'
      <4>1. pub[c] = "ok" /\ ~Built(c) => KeptBySQS(c) /\ KeptInMemory(c)
        BY DEF IInv, EnqueuedIsKept, KeptBySQS, KeptInMemory
      <4>2. (pub[c] = "ok" /\ ~Built(c) => KeptBySQS(c))'
        BY <4>1, StepSQS DEF IInv
      <4>3. (pub[c] = "ok" /\ ~Built(c) => KeptInMemory(c))'
        BY <4>1, StepMemory DEF IInv
      <4> QED BY <4>2, <4>3
    <3> QED BY <3>1 DEF EnqueuedIsKept, KeptBySQS, KeptInMemory
  <2> QED BY <2>1, <2>2 DEF IInv
<1> QED BY <1>1, <1>2, PTL DEF Spec

(* The variables stay in their types, whatever fails.                      *)
THEOREM TypeCorrect == Spec => []TypeOK
<1>1. IInv => TypeOK
  BY DEF IInv
<1> QED BY <1>1, Invariant, PTL

(* A published change is kept until its builds have started.               *)
THEOREM KeptUntilBuilt == Spec => []EnqueuedIsKept
<1>1. IInv => EnqueuedIsKept
  BY DEF IInv
<1> QED BY <1>1, Invariant, PTL

-----------------------------------------------------------------------------
(***************************************************************************)
(* Events (instance E of MCBuildQueue), for any number of users,           *)
(* connections, requests, views, changes and failures, and any capacities. *)
(*                                                                         *)
(* EventsOK says, besides types (Typed) and that every call is about the   *)
(* kind of its client (OfItsKind), of each client (ClientOK): who is       *)
(* subscribed, or nothing goes on about it (Registered); unless deliveries *)
(* are mixed there is one at a time (Alone), and reviews on their way are  *)
(* the newest (OneReview); a subscription to diffs knows the view, or will *)
(* hear of another one (KnowsView); and what it has still to be told is on *)
(* its way to be told, is being delivered, or was delivered (Informed).    *)
(***************************************************************************)

KindsKnown == {"workspace", "diffs", "comments", "review"}
EvTypes   == [bus : {1, 2}, type : {"none", "workspace", "view", "comments", "reviews", "review"},
              ref : View \union {"none", "ws", "review"}, val : Nat]
ClTypes   == [st : {"off", "read", "half", "on", "leaving"}, kind : KindsKnown,
              view : View \union {None}, chan : Seq(Nat), shown : Nat, base : Nat,
              lost : BOOLEAN, mixed : BOOLEAN, late : BOOLEAN]
WriterTypes == [evs : Seq(EvTypes), todo : SUBSET User, iter : SUBSET Client]
WorkTypes == [pc : {"wait", "look", "call"}, ev : EvTypes, todo : SUBSET Client,
              cur : Client \union {None}, val : Nat, gone : SUBSET Client]
CallTypes(n) == [n : {n}, c : Client, ev : EvTypes, pc : {"start", "send"}, val : Nat]

Typed ==
    /\ fact \in [E!Fact -> Nat] /\ view \in View
    /\ writer \in [Writer -> WriterTypes]
    /\ queue \in Seq([user : User, ev : EvTypes])
    /\ worker \in WorkTypes
    /\ subs1 \subseteq Client /\ subs2 \subseteq Client
    /\ \A call \in calls : call \in CallTypes(call.n)
    /\ cl \in [Client -> ClTypes]

(* Nothing that goes on is about c, on neither bus.                        *)
Nothing(c) ==
    /\ c \notin subs1 \union subs2 \union worker.gone /\ worker.cur # c
    /\ worker.pc = "call" => c \notin worker.todo
    /\ \A call \in calls : call.c # c
    /\ \A w \in Writer : c \notin writer[w].iter

(* Its subscription to the first bus has failed to read the draft.         *)
Blind(c) == cl[c].kind = "diffs" /\ cl[c].view = None /\ cl[c].late

(* Who is subscribed, and to what.                                         *)
Registered(c) ==
    /\ cl[c].st \in {"off", "read"} => Nothing(c)
    /\ cl[c].st \in {"half", "on"} /\ cl[c].kind \in E!First => c \in subs1 \/ Blind(c)
    /\ cl[c].st = "half" => cl[c].kind \in E!First \intersect DOMAIN E!Second
    /\ cl[c].st = "on" /\ cl[c].kind \in DOMAIN E!Second => c \in subs2
    /\ c \in worker.gone => cl[c].st = "leaving" \/ Blind(c)
    /\ cl[c].view = None => cl[c].st = "leaving" \/ cl[c].st = "off" \/ Blind(c)
    /\ worker.cur = c => cl[c].kind \in E!First
    /\ cl[c].base <= fact[E!About[cl[c].kind]]

(* What is called for c is of its kind.                                    *)
OfItsKind ==
    /\ \A c \in subs2 : cl[c].kind \in DOMAIN E!Second
    /\ \A w \in Writer : \A c \in writer[w].iter :
          /\ writer[w].evs # <<>> /\ cl[c].kind \in DOMAIN E!Second
          /\ Head(writer[w].evs).type = E!Second[cl[c].kind]
    /\ \A call \in calls :
          cl[call.c].kind \in DOMAIN E!Second /\ call.ev.type = E!Second[cl[call.c].kind]
    /\ worker.pc = "wait" => worker.cur = None

(* Which events a client of kind k hears, on the first bus, and on the     *)
(* second while it follows view v.                                         *)
Hear1(k, ev) ==
    \/ k = "workspace" /\ ev.type \in {"workspace", "reviews"} /\ ev.ref = "ws"
    \/ k = "comments" /\ ev.type = "comments" /\ ev.ref # "ws"
    \/ k = "diffs" /\ ev.type = "workspace"
Hear2(k, v, ev) == k = "review" \/ ev.ref = v

(* A request has still to publish something that c hears.                  *)
Owes1(c, k, wr) ==
    \E i \in DOMAIN wr.evs : /\ wr.evs[i].bus = 1 /\ Hear1(k, wr.evs[i])
                             /\ i > 1 \/ Of[c] \in wr.todo
Owes2(c, k, v, wr) ==
    \E i \in DOMAIN wr.evs : /\ wr.evs[i].bus = 2 /\ wr.evs[i].type = E!Second[k]
                             /\ Hear2(k, v, wr.evs[i])
                             /\ i > 1 \/ Of[c] \in wr.todo \/ c \in wr.iter

(* An event is on its way that c will hear: of the first bus, ...          *)
Comes1(c) ==
    \/ \E w \in Writer : Owes1(c, cl[c].kind, writer[w])
    \/ \E i \in DOMAIN queue : queue[i].user = Of[c] /\ Hear1(cl[c].kind, queue[i].ev)
    \/ worker.pc # "wait" /\ c \in worker.todo /\ Hear1(cl[c].kind, worker.ev)

(* ... of the second.                                                      *)
Comes2(c) ==
    /\ cl[c].kind \in DOMAIN E!Second
    /\ \/ \E w \in Writer : Owes2(c, cl[c].kind, cl[c].view, writer[w])
       \/ \E call \in calls : /\ call.c = c /\ call.pc = "start"
                              /\ Hear2(cl[c].kind, cl[c].view, call.ev)

(* What is about to be put into its channel.                               *)
Sent(c) == {call \in calls : call.c = c /\ call.pc = "send"}
Flying(c) == worker.cur = c \/ Sent(c) # {}
AllFlying(c, v) == (worker.cur = c => worker.val = v) /\ \A call \in Sent(c) : call.val = v

(* Unless deliveries are mixed there is one at a time.                     *)
Alone(c) ==
    cl[c].st # "leaving" /\ cl[c].kind # "review" /\ ~cl[c].mixed =>
        /\ worker.cur = c => Sent(c) = {}
        /\ \A x, y \in Sent(c) : x = y

Newest(c) == IF cl[c].chan = <<>> THEN cl[c].shown ELSE cl[c].chan[Len(cl[c].chan)]
Current(c) == fact[E!About[cl[c].kind]]

(* A subscription to diffs knows the view, or will hear of another one.    *)
KnowsView(c) ==
    cl[c].kind = "diffs" /\ cl[c].st \in {"half", "on"} /\ ~cl[c].late =>
        cl[c].view = view \/ Comes1(c)

(* Reviews that are on their way one at a time carry the newest.           *)
OneReview(c) ==
    cl[c].kind = "review" /\ cl[c].st = "on" /\ ~cl[c].mixed /\ Current(c) # cl[c].base =>
        /\ \A w \in Writer : \A i \in DOMAIN writer[w].evs :
              writer[w].evs[i].type = "review" => writer[w].evs[i].val = Current(c)
        /\ \A call \in calls : call.c = c => /\ call.ev.val = Current(c)
                                             /\ call.pc = "send" => call.val = Current(c)

Due(c) == /\ cl[c].st = "on" /\ cl[c].kind # "comments"
          /\ ~cl[c].lost /\ ~cl[c].mixed /\ ~cl[c].late /\ Current(c) # cl[c].base
Told(c) == AllFlying(c, Current(c)) /\ (Flying(c) \/ Newest(c) = Current(c))

(* What c has still to be told comes, or is being delivered, or was.       *)
Informed(c) == Due(c) => Comes1(c) \/ Comes2(c) \/ Told(c)

ClientOK(c) == Registered(c) /\ Alone(c) /\ KnowsView(c) /\ OneReview(c) /\ Informed(c)

EventsOK == Typed /\ OfItsKind /\ \A c \in Client : ClientOK(c)

-----------------------------------------------------------------------------
(* The records that stand for nothing, and the names of what is there.     *)
LEMMA AboutIs ==
    /\ E!About["workspace"] = "draft" /\ E!About["diffs"] = "files"
    /\ E!About["comments"] = "comments" /\ E!About["review"] = "reviews"
    /\ \A k \in KindsKnown : E!About[k] \in E!Fact
BY DEF E!About, KindsKnown, E!Fact

LEMMA SecondIs ==
    /\ DOMAIN E!Second = {"diffs", "comments", "review"}
    /\ E!Second["diffs"] = "view" /\ E!Second["comments"] = "view" /\ E!Second["review"] = "review"
BY DEF E!Second

LEMMA NothingIs ==
    /\ E!NoWriter \in WriterTypes /\ E!NoWriter.evs = <<>> /\ E!NoWriter.todo = {} /\ E!NoWriter.iter = {}
    /\ E!NoWork \in WorkTypes /\ E!NoWork.pc = "wait" /\ E!NoWork.cur = None /\ E!NoWork.gone = {}
    /\ E!NoWork.todo = {}
    /\ E!Off \in ClTypes /\ E!Off.st = "off" /\ E!Off.kind = "workspace" /\ E!Off.view = None
    /\ E!Off.base = 0 /\ ~E!Off.lost /\ ~E!Off.mixed /\ ~E!Off.late
<1>1. E!NoEvent \in EvTypes
  BY DEF E!NoEvent, EvTypes
<1>2. \A T : <<>> \in Seq(T)
  OBVIOUS
<1>3. E!NoWriter \in WriterTypes
  BY <1>2 DEF E!NoWriter, WriterTypes
<1>4. E!NoWork \in WorkTypes
  BY <1>1 DEF E!NoWork, WorkTypes
<1>5. E!Off \in ClTypes
  BY <1>2 DEF E!Off, ClTypes, KindsKnown
<1>. QED BY <1>3, <1>4, <1>5 DEF E!NoWriter, E!NoWork, E!Off

LEMMA HearsIs ==
    ASSUME NEW c \in Client, NEW ev, cl[c].kind \in KindsKnown
    PROVE  /\ E!Hears1(c, ev) <=> Hear1(cl[c].kind, ev)
           /\ E!Hears2(c, ev) <=> Hear2(cl[c].kind, cl[c].view, ev)
BY DEF E!Hears1, E!Hears2, Hear1, Hear2, KindsKnown

LEMMA TailIs ==
    ASSUME NEW T, NEW s \in Seq(T), s # <<>>
    PROVE  /\ Tail(s) \in Seq(T) /\ Len(s) \in Nat \ {0} /\ DOMAIN s = 1..Len(s)
           /\ Head(s) = s[1] /\ Head(s) \in T
           /\ DOMAIN Tail(s) = 1..(Len(s) - 1)
           /\ \A i \in DOMAIN Tail(s) : Tail(s)[i] = s[i + 1] /\ i + 1 \in DOMAIN s
<1>1. Tail(s) \in Seq(T) /\ Len(Tail(s)) = Len(s) - 1 /\ Len(s) \in Nat /\ Len(s) # 0
  BY HeadTailProperties
<1>2. \A i \in 1..Len(Tail(s)) : Tail(s)[i] = s[i + 1]
  BY HeadTailProperties
<1>. QED BY <1>1, <1>2

(* A request that goes on in its list still owes what it owes.             *)
LEMMA AdvanceIs ==
    ASSUME NEW x \in WriterTypes, x.evs # <<>>
    PROVE  /\ E!Advance(x) \in WriterTypes
           /\ \/ E!Advance(x) = x /\ (x.todo # {} \/ x.iter # {})
              \/ /\ x.todo = {} /\ x.iter = {} /\ Len(x.evs) > 1
                 /\ E!Advance(x).evs = Tail(x.evs) /\ E!Advance(x).todo = User
                 /\ E!Advance(x).iter = {}
              \/ x.todo = {} /\ x.iter = {} /\ Len(x.evs) = 1 /\ E!Advance(x) = E!NoWriter
<1>1. CASE x.todo # {} \/ x.iter # {}
  BY <1>1 DEF E!Advance
<1>2. CASE x.todo = {} /\ x.iter = {} /\ Len(x.evs) > 1
  <2>1. PICK m : m = [x EXCEPT !.evs = Tail(x.evs), !.todo = User]
    OBVIOUS
  <2>2. Tail(x.evs) \in Seq(EvTypes)
    BY DEF WriterTypes
  <2>3. m \in WriterTypes /\ m.evs = Tail(x.evs) /\ m.todo = User /\ m.iter = {}
    BY <1>2, <2>1, <2>2 DEF WriterTypes
  <2>4. E!Advance(x) = m
    BY <1>2, <2>1 DEF E!Advance
  <2>. QED BY <1>2, <2>3, <2>4
<1>3. CASE x.todo = {} /\ x.iter = {} /\ ~(Len(x.evs) > 1)
  <2>1. x.evs \in Seq(EvTypes)
    BY DEF WriterTypes
  <2>2. PICK n \in Nat \ {0} : n = Len(x.evs)
    BY <2>1, TailIs
  <2>3. n = 1
    <3>1. ~(n > 1) /\ n \in Nat /\ n # 0
      BY <1>3, <2>2
    <3>. QED BY <3>1
  <2>. QED BY <1>3, <2>2, <2>3, NothingIs DEF E!Advance
<1>. QED BY <1>1, <1>2, <1>3

LEMMA StillOwes ==
    ASSUME NEW x \in WriterTypes, x.evs # <<>>, NEW c \in Client, NEW k, NEW v
    PROVE  /\ Owes1(c, k, x) => Owes1(c, k, E!Advance(x))
           /\ Owes2(c, k, v, x) => Owes2(c, k, v, E!Advance(x))
<1>. DEFINE y == E!Advance(x)
<1>0. Of[c] \in User
  BY EventsAssumption
<1>1. CASE y = x
  BY <1>1
<1>2. CASE /\ x.todo = {} /\ x.iter = {} /\ Len(x.evs) > 1
           /\ y.evs = Tail(x.evs) /\ y.todo = User /\ y.iter = {}
  <2>1. x.evs \in Seq(EvTypes)
    BY DEF WriterTypes
  <2>2. DOMAIN x.evs = 1..Len(x.evs) /\ Len(x.evs) \in Nat /\ DOMAIN y.evs = 1..(Len(x.evs) - 1)
    BY <1>2, <2>1, TailIs
  <2>3. ASSUME NEW i \in DOMAIN x.evs, i > 1
        PROVE  i - 1 \in DOMAIN y.evs /\ y.evs[i - 1] = x.evs[i]
    <3>1. i - 1 \in DOMAIN Tail(x.evs)
      BY <1>2, <2>2, <2>3
    <3>2. Tail(x.evs)[i - 1] = x.evs[(i - 1) + 1]
      BY <2>1, <3>1, TailIs
    <3>. QED BY <1>2, <2>2, <2>3, <3>1, <3>2
  <2>4. Owes1(c, k, x) => Owes1(c, k, y)
    BY <1>0, <1>2, <2>3 DEF Owes1
  <2>5. Owes2(c, k, v, x) => Owes2(c, k, v, y)
    BY <1>0, <1>2, <2>3 DEF Owes2
  <2>. QED BY <2>4, <2>5
<1>3. CASE x.todo = {} /\ x.iter = {} /\ Len(x.evs) = 1 /\ y = E!NoWriter
  <2>1. DOMAIN x.evs = 1..1
    BY <1>3, TailIs DEF WriterTypes
  <2>. QED BY <1>3, <2>1 DEF Owes1, Owes2
<1>. QED BY <1>1, <1>2, <1>3, AdvanceIs

-----------------------------------------------------------------------------
(* A step that changes nothing about c: what comes for it still comes.     *)
Heeds(c) == cl[c].st \in {"half", "on"} /\ ~cl[c].late
Stays(c) ==
    /\ cl'[c] = cl[c] /\ fact' = fact /\ view' = view
    /\ Heeds(c) => (Comes1(c) => Comes1(c)')
    /\ Heeds(c) /\ cl[c].st = "on" => (Comes2(c) => Comes2(c)')
    /\ (worker'.cur = c <=> worker.cur = c) /\ (worker.cur = c => worker'.val = worker.val)
    /\ Sent(c)' = Sent(c)

LEMMA StaysInformed ==
    ASSUME NEW c \in Client, Stays(c), Alone(c), KnowsView(c), Informed(c)
    PROVE  Alone(c)' /\ KnowsView(c)' /\ Informed(c)'
<1>1. Alone(c)'
  BY DEF Stays, Alone
<1>2. KnowsView(c)'
  BY DEF Stays, KnowsView, Heeds
<1>3. Told(c) => Told(c)'
  BY DEF Stays, Told, AllFlying, Flying, Newest, Current
<1>4. Due(c)' => Due(c)
  BY DEF Stays, Due, Current
<1>5. Informed(c)'
  BY <1>3, <1>4 DEF Informed, Due, Stays, Heeds
<1>. QED BY <1>1, <1>2, <1>5

(* Of reviews, the steps of others only pass on what there is.             *)
SameReviews(c) ==
    /\ \A w \in Writer : \A i \in DOMAIN writer'[w].evs :
          writer'[w].evs[i].type = "review" =>
              \E x \in Writer : \E j \in DOMAIN writer[x].evs : writer[x].evs[j] = writer'[w].evs[i]
    /\ cl[c].kind = "review" => \A call \in calls' : call.c = c =>
          \/ \E old \in calls : /\ old.c = c /\ old.ev = call.ev
                                /\ call.pc = "send" =>
                                      \/ old.pc = "send" /\ old.val = call.val
                                      \/ call.val = call.ev.val
          \/ /\ call.pc = "start" /\ call.ev.type = "review"
             /\ \E x \in Writer : \E j \in DOMAIN writer[x].evs : writer[x].evs[j] = call.ev

LEMMA ReviewsStay ==
    ASSUME NEW c \in Client, SameReviews(c), OneReview(c), fact' = fact,
           \/ cl'[c].kind # "review" \/ cl'[c].st # "on" \/ cl'[c].mixed
           \/ /\ cl[c].st = "on" /\ cl[c].kind = "review"
              /\ ~cl[c].mixed /\ cl'[c].base = cl[c].base
           \/ cl'[c].base = fact[E!About[cl'[c].kind]]
    PROVE  OneReview(c)'
<1>1. CASE cl'[c].kind # "review" \/ cl'[c].st # "on" \/ cl'[c].mixed
  BY <1>1 DEF OneReview
<1>2. CASE cl'[c].base = fact[E!About[cl'[c].kind]]
  BY <1>2 DEF OneReview, Current
<1>3. CASE /\ cl[c].st = "on" /\ cl[c].kind = "review" /\ cl'[c].kind = "review"
           /\ ~cl[c].mixed /\ cl'[c].base = cl[c].base
  <2>. SUFFICES ASSUME Current(c)' # cl'[c].base PROVE OneReview(c)'
    BY DEF OneReview
  <2>1. Current(c)' = Current(c)
    BY <1>3 DEF Current
  <2>2. PICK n : n = Current(c)
    OBVIOUS
  <2>3. /\ \A w \in Writer : \A i \in DOMAIN writer[w].evs :
              writer[w].evs[i].type = "review" => writer[w].evs[i].val = n
        /\ \A call \in calls : call.c = c => call.ev.val = n /\ (call.pc = "send" => call.val = n)
    BY <1>3, <2>1, <2>2 DEF OneReview
  <2>4. \A w \in Writer : \A i \in DOMAIN writer'[w].evs :
              writer'[w].evs[i].type = "review" => writer'[w].evs[i].val = n
    BY <2>3 DEF SameReviews
  <2>5. \A call \in calls' : call.c = c => call.ev.val = n /\ (call.pc = "send" => call.val = n)
    <3>. SUFFICES ASSUME NEW call \in calls', call.c = c
                  PROVE  call.ev.val = n /\ (call.pc = "send" => call.val = n)
      OBVIOUS
    <3>1. CASE \E old \in calls : /\ old.c = c /\ old.ev = call.ev
                                  /\ call.pc = "send" =>
                                        \/ old.pc = "send" /\ old.val = call.val
                                        \/ call.val = call.ev.val
      BY <2>3, <3>1
    <3>2. CASE /\ call.pc = "start" /\ call.ev.type = "review"
               /\ \E x \in Writer : \E j \in DOMAIN writer[x].evs : writer[x].evs[j] = call.ev
      BY <2>3, <3>2
    <3>. QED BY <1>3, <3>1, <3>2 DEF SameReviews
  <2>. QED BY <2>1, <2>2, <2>4, <2>5 DEF OneReview
<1>. QED BY <1>1, <1>2, <1>3

(* Who is registered stays so.                                             *)
KeepsPlace(c) ==
    /\ cl'[c] = cl[c]
    /\ \A f \in E!Fact : fact'[f] >= fact[f]
    /\ Nothing(c) => Nothing(c)'
    /\ c \in subs1 => c \in subs1' \/ cl[c].st \notin {"half", "on"} \/ Blind(c)
    /\ c \in subs2 => c \in subs2' \/ cl[c].st # "on"
    /\ c \in worker'.gone => c \in worker.gone \/ cl[c].st = "leaving" \/ Blind(c)
    /\ worker'.cur = c => worker.cur = c \/ cl[c].kind \in E!First

LEMMA PlaceKept ==
    ASSUME NEW c \in Client, Typed, Typed', Registered(c), KeepsPlace(c)
    PROVE  Registered(c)'
<1>1. Blind(c)' <=> Blind(c)
  BY DEF Blind, KeepsPlace
<1>2. cl'[c].base <= fact'[E!About[cl'[c].kind]]
  <2>1. E!About[cl[c].kind] \in E!Fact /\ cl[c].base \in Nat
    BY AboutIs DEF Typed, ClTypes
  <2>2. PICK f \in E!Fact : f = E!About[cl[c].kind]
    BY <2>1
  <2>3. fact[f] \in Nat /\ fact'[f] \in Nat
    BY <2>2 DEF Typed
  <2>4. fact'[f] >= fact[f] /\ cl[c].base <= fact[f]
    BY <2>2 DEF KeepsPlace, Registered
  <2>5. cl[c].base <= fact'[f]
    BY <2>1, <2>3, <2>4
  <2>. QED BY <2>2, <2>5 DEF KeepsPlace
<1>. QED BY <1>1, <1>2 DEF Registered, KeepsPlace

(* Who is not concerned.                                                   *)
LEMMA Unconcerned ==
    ASSUME NEW c \in Client, Typed, Typed', ClientOK(c),
           Stays(c), KeepsPlace(c), SameReviews(c)
    PROVE  ClientOK(c)'
<1>1. Registered(c)'
  BY PlaceKept DEF ClientOK
<1>2. Alone(c)' /\ KnowsView(c)' /\ Informed(c)'
  BY StaysInformed DEF ClientOK
<1>3. OneReview(c)'
  BY ReviewsStay DEF ClientOK, Stays
<1>. QED BY <1>1, <1>2, <1>3 DEF ClientOK

-----------------------------------------------------------------------------
(* Publishing.                                                             *)

(* A request goes on in its list.                                          *)
GoesOn(w, y) ==
    /\ y \in WriterTypes /\ y.evs = writer[w].evs /\ y.evs # <<>>
    /\ writer' = [writer EXCEPT ![w] = E!Advance(y)]

LEMMA WriterMoves ==
    ASSUME Typed, NEW w \in Writer, NEW y, GoesOn(w, y)
    PROVE  /\ writer' \in [Writer -> WriterTypes]
           /\ \A x \in Writer \ {w} : writer'[x] = writer[x]
           /\ \A c \in writer'[w].iter : c \in y.iter /\ writer'[w].evs = y.evs
           /\ \A i \in DOMAIN writer'[w].evs :
                 \E j \in DOMAIN y.evs : y.evs[j] = writer'[w].evs[i]
           /\ \A c \in Client : \A k, v :
                 /\ Owes1(c, k, y) => Owes1(c, k, writer'[w])
                 /\ Owes2(c, k, v, y) => Owes2(c, k, v, writer'[w])
<1>. DEFINE m == E!Advance(y)
<1>1. y \in WriterTypes /\ y.evs # <<>> /\ writer' = [writer EXCEPT ![w] = m]
  BY DEF GoesOn
<1>2. m \in WriterTypes
  BY <1>1, AdvanceIs
<1>3. /\ writer' \in [Writer -> WriterTypes] /\ writer'[w] = m
      /\ \A x \in Writer \ {w} : writer'[x] = writer[x]
  BY <1>1, <1>2 DEF Typed
<1>4. \A c \in m.iter : c \in y.iter /\ m.evs = y.evs
  BY <1>1, AdvanceIs, NothingIs
<1>5. \A i \in DOMAIN m.evs : \E j \in DOMAIN y.evs : y.evs[j] = m.evs[i]
  <2>1. CASE m = y
    BY <2>1
  <2>2. CASE m.evs = Tail(y.evs)
    <3>1. y.evs \in Seq(EvTypes) /\ y.evs # <<>>
      BY <1>1 DEF WriterTypes
    <3>2. \A i \in DOMAIN Tail(y.evs) : Tail(y.evs)[i] = y.evs[i + 1] /\ i + 1 \in DOMAIN y.evs
      BY <3>1, TailIs
    <3>. QED BY <2>2, <3>2
  <2>3. CASE m = E!NoWriter
    BY <2>3, NothingIs
  <2>. QED BY <1>1, <2>1, <2>2, <2>3, AdvanceIs
<1>6. \A c \in Client : \A k, v :
         /\ Owes1(c, k, y) => Owes1(c, k, m)
         /\ Owes2(c, k, v, y) => Owes2(c, k, v, m)
  BY <1>1, StillOwes
<1>. QED BY <1>3, <1>4, <1>5, <1>6

(* What the writers owe c they still owe, unless this one has done it now. *)
LEMMA WritersOwe ==
    ASSUME Typed, NEW w \in Writer, NEW y, GoesOn(w, y), NEW c \in Client, NEW k, NEW v
    PROVE  /\ (\E x \in Writer : Owes1(c, k, writer[x])) =>
                 \/ \E x \in Writer : Owes1(c, k, writer'[x])
                 \/ Owes1(c, k, writer[w]) /\ ~Owes1(c, k, y)
           /\ (\E x \in Writer : Owes2(c, k, v, writer[x])) =>
                 \/ \E x \in Writer : Owes2(c, k, v, writer'[x])
                 \/ Owes2(c, k, v, writer[w]) /\ ~Owes2(c, k, v, y)
<1>1. /\ \A x \in Writer \ {w} : writer'[x] = writer[x]
      /\ Owes1(c, k, y) => Owes1(c, k, writer'[w])
      /\ Owes2(c, k, v, y) => Owes2(c, k, v, writer'[w])
  BY WriterMoves
<1>. QED BY <1>1

LEMMA WritersReview ==
    ASSUME Typed, NEW w \in Writer, NEW y, GoesOn(w, y)
    PROVE  \A x \in Writer : \A i \in DOMAIN writer'[x].evs :
              \E z \in Writer : \E j \in DOMAIN writer[z].evs : writer[z].evs[j] = writer'[x].evs[i]
<1>1. /\ \A x \in Writer \ {w} : writer'[x] = writer[x]
      /\ \A i \in DOMAIN writer'[w].evs : \E j \in DOMAIN y.evs : y.evs[j] = writer'[w].evs[i]
  BY WriterMoves
<1>2. y.evs = writer[w].evs
  BY DEF GoesOn
<1>. QED BY <1>1, <1>2

LEMMA WritersKind ==
    ASSUME Typed, OfItsKind, NEW w \in Writer, NEW y, GoesOn(w, y), NEW c \in Client,
           cl'[c].kind = cl[c].kind,
           c \in y.iter => cl[c].kind \in DOMAIN E!Second /\ Head(y.evs).type = E!Second[cl[c].kind],
           NEW x \in Writer, c \in writer'[x].iter
    PROVE  /\ writer'[x].evs # <<>> /\ cl'[c].kind \in DOMAIN E!Second
           /\ Head(writer'[x].evs).type = E!Second[cl'[c].kind]
           /\ c \in writer[x].iter \/ (x = w /\ c \in y.iter)
<1>1. CASE x # w
  BY <1>1, WriterMoves DEF OfItsKind
<1>2. CASE x = w
  <2>1. c \in y.iter /\ writer'[w].evs = y.evs
    BY <1>2, WriterMoves
  <2>. QED BY <1>2, <2>1 DEF GoesOn
<1>. QED BY <1>1, <1>2

LEMMA HeadIs ==
    ASSUME Typed, NEW w \in Writer, writer[w].evs # <<>>
    PROVE  /\ writer[w] \in WriterTypes /\ writer[w].evs \in Seq(EvTypes)
           /\ Head(writer[w].evs) = writer[w].evs[1] /\ Head(writer[w].evs) \in EvTypes
           /\ 1 \in DOMAIN writer[w].evs /\ DOMAIN writer[w].evs \subseteq Nat \ {0}
<1>1. writer[w] \in WriterTypes /\ writer[w].evs \in Seq(EvTypes)
  BY DEF Typed, WriterTypes
<1>. QED BY <1>1, TailIs

LEMMA UserEventOK ==
    ASSUME EventsOK, NEW w \in Writer, E!UserEvent(w)
    PROVE  EventsOK'
<1>. Typed /\ OfItsKind /\ \A c \in Client : ClientOK(c)
  BY DEF EventsOK
<1>0. E!At(w, 1) /\ writer[w].evs # <<>> /\ Head(writer[w].evs).bus = 1
  BY DEF E!UserEvent, E!At
<1>. DEFINE x == writer[w]  h == Head(writer[w].evs)
<1>1. PICK u \in x.todo :
         /\ queue' = Append(queue, [user |-> u, ev |-> h])
         /\ writer' = [writer EXCEPT ![w] = E!Advance([writer[w] EXCEPT !.todo = @ \ {u}])]
  BY DEF E!UserEvent
<1>2. UNCHANGED <<fact, view, worker, subs1, subs2, calls, cl>>
  BY DEF E!UserEvent
<1>3. PICK y : y = [x EXCEPT !.todo = x.todo \ {u}]
  OBVIOUS
<1>4. x \in WriterTypes /\ h = x.evs[1] /\ h \in EvTypes /\ 1 \in DOMAIN x.evs
      /\ DOMAIN x.evs \subseteq Nat \ {0}
  BY <1>0, HeadIs
<1>5. y \in WriterTypes /\ y.evs = x.evs /\ y.todo = x.todo \ {u} /\ y.iter = x.iter
  BY <1>3, <1>4 DEF WriterTypes
<1>6. GoesOn(w, y)
  <2>1. writer' = [writer EXCEPT ![w] = E!Advance(y)]
    BY <1>1, <1>3 DEF Typed
  <2>. QED BY <1>0, <1>5, <2>1 DEF GoesOn
<1>7. PICK it : it = [user |-> u, ev |-> h]
  OBVIOUS
<1>8. /\ it \in [user : User, ev : EvTypes] /\ it.user = u /\ it.ev = h
      /\ queue \in Seq([user : User, ev : EvTypes]) /\ queue' = Append(queue, it)
  BY <1>1, <1>4, <1>7 DEF WriterTypes, Typed
<1>9. /\ queue' \in Seq([user : User, ev : EvTypes])
      /\ \A i \in DOMAIN queue : i \in DOMAIN queue' /\ queue'[i] = queue[i]
      /\ \E i \in DOMAIN queue' : queue'[i] = it
  BY <1>8, AppendProperties
<1>10. Typed'
  BY <1>2, <1>6, <1>9, WriterMoves DEF Typed
<1>11. ASSUME NEW c \in Client, NEW z \in Writer, c \in writer'[z].iter
       PROVE  /\ writer'[z].evs # <<>> /\ cl'[c].kind \in DOMAIN E!Second
              /\ Head(writer'[z].evs).type = E!Second[cl'[c].kind] /\ c \in writer[z].iter
  <2>1. c \in y.iter => cl[c].kind \in DOMAIN E!Second /\ Head(y.evs).type = E!Second[cl[c].kind]
    BY <1>5 DEF OfItsKind
  <2>2. cl'[c].kind = cl[c].kind
    BY <1>2
  <2>. QED BY <1>5, <1>6, <1>11, <2>1, <2>2, WritersKind
<1>12. OfItsKind'
  <2>1. \A z \in Writer : writer'[z].iter \subseteq Client
    BY <1>10 DEF Typed, WriterTypes
  <2>. QED BY <1>2, <1>11, <2>1 DEF OfItsKind
<1>13. ASSUME NEW c \in Client PROVE ClientOK(c)'
  <2>. DEFINE k == cl[c].kind
  <2>1. Comes1(c) => Comes1(c)'
    <3>1. CASE \E z \in Writer : Owes1(c, k, writer[z])
      <4>1. PICK j : j = k
        OBVIOUS
      <4>2. \/ \E z \in Writer : Owes1(c, j, writer'[z])
            \/ Owes1(c, j, x) /\ ~Owes1(c, j, y)
        BY <1>6, <3>1, <4>1, WritersOwe
      <4>3. ASSUME Owes1(c, j, x), ~Owes1(c, j, y) PROVE Of[c] = u /\ Hear1(j, h)
        <5>1. PICK i \in DOMAIN x.evs : /\ x.evs[i].bus = 1 /\ Hear1(j, x.evs[i])
                                        /\ i > 1 \/ Of[c] \in x.todo
          BY <4>3 DEF Owes1
        <5>2. i = 1 /\ Of[c] = u
          BY <1>4, <1>5, <4>3, <5>1 DEF Owes1
        <5>. QED BY <1>4, <5>1, <5>2
      <4>. QED BY <1>2, <1>8, <1>9, <4>1, <4>2, <4>3 DEF Comes1
    <3>2. CASE ~\E z \in Writer : Owes1(c, k, writer[z])
      BY <1>2, <1>9, <3>2 DEF Comes1
    <3>. QED BY <3>1, <3>2
  <2>2. Comes2(c) => Comes2(c)'
    <3>1. PICK j, v : j = k /\ v = cl[c].view
      OBVIOUS
    <3>2. Owes2(c, j, v, x) => Owes2(c, j, v, y)
      BY <1>0, <1>4, <1>5 DEF Owes2
    <3>3. (\E z \in Writer : Owes2(c, j, v, writer[z])) => \E z \in Writer : Owes2(c, j, v, writer'[z])
      BY <1>6, <3>2, WritersOwe
    <3>. QED BY <1>2, <3>1, <3>3 DEF Comes2
  <2>3. Stays(c)
    BY <1>2, <2>1, <2>2 DEF Stays, Sent
  <2>4. KeepsPlace(c)
    <3>1. Nothing(c) => Nothing(c)'
      BY <1>2, <1>11 DEF Nothing
    <3>. QED BY <1>2, <3>1 DEF KeepsPlace, Typed
  <2>5. SameReviews(c)
    BY <1>2, <1>6, WritersReview DEF SameReviews
  <2>. QED BY <1>10, <2>3, <2>4, <2>5, Unconcerned
<1>. QED BY <1>10, <1>12, <1>13 DEF EventsOK

LEMMA PubOK ==
    ASSUME EventsOK, NEW w \in Writer, E!Pub(w)
    PROVE  EventsOK'
<1>. Typed /\ OfItsKind /\ \A c \in Client : ClientOK(c)
  BY DEF EventsOK
<1>0. /\ writer[w].evs # <<>> /\ Head(writer[w].evs).bus = 2 /\ writer[w].iter = {}
      /\ UNCHANGED <<fact, view, queue, worker, subs1, subs2, calls, cl>>
  BY DEF E!Pub, E!At, E!memory
<1>. DEFINE x == writer[w]  h == Head(writer[w].evs)
<1>1. PICK u \in x.todo :
         writer' = [writer EXCEPT ![w] = E!Advance([writer[w] EXCEPT
            !.todo = @ \ {u}, !.iter = E!Handlers(u, Head(writer[w].evs).type)])]
  BY DEF E!Pub
<1>2. PICK H : H = E!Handlers(u, h.type)
  OBVIOUS
<1>3. PICK y : y = [x EXCEPT !.todo = x.todo \ {u}, !.iter = H]
  OBVIOUS
<1>4. x \in WriterTypes /\ h = x.evs[1] /\ h \in EvTypes /\ 1 \in DOMAIN x.evs
      /\ DOMAIN x.evs \subseteq Nat \ {0}
  BY <1>0, HeadIs
<1>5. /\ H \subseteq subs2 /\ H \subseteq Client
      /\ \A c \in subs2 : c \in H <=> Of[c] = u /\ E!Second[cl[c].kind] = h.type
  BY <1>2 DEF E!Handlers, Typed
<1>6. y \in WriterTypes /\ y.evs = x.evs /\ y.todo = x.todo \ {u} /\ y.iter = H
  BY <1>3, <1>4, <1>5 DEF WriterTypes
<1>7. GoesOn(w, y)
  <2>1. writer' = [writer EXCEPT ![w] = E!Advance(y)]
    BY <1>1, <1>2, <1>3
  <2>. QED BY <1>0, <1>6, <2>1 DEF GoesOn
<1>10. Typed'
  BY <1>0, <1>7, WriterMoves DEF Typed
<1>11. ASSUME NEW c \in Client, NEW z \in Writer, c \in writer'[z].iter
       PROVE  /\ writer'[z].evs # <<>> /\ cl'[c].kind \in DOMAIN E!Second
              /\ Head(writer'[z].evs).type = E!Second[cl'[c].kind]
              /\ c \in writer[z].iter \/ c \in subs2
  <2>1. c \in y.iter => cl[c].kind \in DOMAIN E!Second /\ Head(y.evs).type = E!Second[cl[c].kind]
    BY <1>5, <1>6 DEF OfItsKind
  <2>2. cl'[c].kind = cl[c].kind
    BY <1>0
  <2>. QED BY <1>5, <1>6, <1>7, <1>11, <2>1, <2>2, WritersKind
<1>12. OfItsKind'
  <2>1. \A z \in Writer : writer'[z].iter \subseteq Client
    BY <1>10 DEF Typed, WriterTypes
  <2>. QED BY <1>0, <1>11, <2>1 DEF OfItsKind
<1>13. ASSUME NEW c \in Client PROVE ClientOK(c)'
  <2>. DEFINE k == cl[c].kind
  <2>0. PICK j, v : j = k /\ v = cl[c].view
    OBVIOUS
  <2>1. Comes1(c) => Comes1(c)'
    <3>1. Owes1(c, j, x) => Owes1(c, j, y)
      BY <1>0, <1>4, <1>6 DEF Owes1
    <3>2. (\E z \in Writer : Owes1(c, j, writer[z])) => \E z \in Writer : Owes1(c, j, writer'[z])
      BY <1>7, <3>1, WritersOwe
    <3>. QED BY <1>0, <2>0, <3>2 DEF Comes1
  <2>2. ASSUME cl[c].st = "on", Comes2(c) PROVE Comes2(c)'
    <3>1. k \in DOMAIN E!Second /\ c \in subs2
      BY <2>2 DEF Comes2, ClientOK, Registered
    <3>2. Owes2(c, j, v, x) => Owes2(c, j, v, y)
      BY <1>0, <1>4, <1>5, <1>6, <2>0, <3>1 DEF Owes2
    <3>3. (\E z \in Writer : Owes2(c, j, v, writer[z])) => \E z \in Writer : Owes2(c, j, v, writer'[z])
      BY <1>7, <3>2, WritersOwe
    <3>. QED BY <1>0, <2>0, <2>2, <3>3 DEF Comes2
  <2>3. Stays(c)
    BY <1>0, <2>1, <2>2 DEF Stays, Sent
  <2>4. KeepsPlace(c)
    <3>1. Nothing(c) => Nothing(c)'
      BY <1>0, <1>11 DEF Nothing
    <3>. QED BY <1>0, <3>1 DEF KeepsPlace, Typed
  <2>5. SameReviews(c)
    BY <1>0, <1>7, WritersReview DEF SameReviews
  <2>. QED BY <1>10, <2>3, <2>4, <2>5, Unconcerned
<1>. QED BY <1>10, <1>12, <1>13 DEF EventsOK

LEMMA SpawnOK ==
    ASSUME EventsOK, NEW w \in Writer, E!Spawn(w)
    PROVE  EventsOK'
<1>. Typed /\ OfItsKind /\ \A c \in Client : ClientOK(c)
  BY DEF EventsOK
<1>0. /\ writer[w].evs # <<>> /\ Head(writer[w].evs).bus = 2
      /\ UNCHANGED <<fact, view, queue, worker, subs1, subs2, cl>>
  BY DEF E!Spawn, E!At
<1>. DEFINE x == writer[w]  h == Head(writer[w].evs)
<1>1. PICK e \in x.iter : \E n :
         /\ writer' = [writer EXCEPT ![w] = E!Advance([writer[w] EXCEPT !.iter = @ \ {e}])]
         /\ calls' = IF e \notin subs2 THEN calls
                     ELSE calls \union {[n |-> n, c |-> e, ev |-> Head(writer[w].evs),
                                         pc |-> "start", val |-> 0]}
  BY DEF E!Spawn
<1>9. PICK n :
         /\ writer' = [writer EXCEPT ![w] = E!Advance([writer[w] EXCEPT !.iter = @ \ {e}])]
         /\ calls' = IF e \notin subs2 THEN calls
                     ELSE calls \union {[n |-> n, c |-> e, ev |-> Head(writer[w].evs),
                                         pc |-> "start", val |-> 0]}
  BY <1>1
<1>2. PICK new : new = [n |-> n, c |-> e, ev |-> h, pc |-> "start", val |-> 0]
  OBVIOUS
<1>3. PICK y : y = [x EXCEPT !.iter = x.iter \ {e}]
  OBVIOUS
<1>4. x \in WriterTypes /\ h = x.evs[1] /\ h \in EvTypes /\ 1 \in DOMAIN x.evs
      /\ DOMAIN x.evs \subseteq Nat \ {0} /\ e \in Client
  BY <1>0, HeadIs DEF WriterTypes
<1>5. /\ new \in CallTypes(new.n) /\ new.c = e /\ new.ev = h /\ new.pc = "start"
      /\ calls' = IF e \notin subs2 THEN calls ELSE calls \union {new}
  BY <1>1, <1>9, <1>2, <1>4 DEF CallTypes
<1>6. y \in WriterTypes /\ y.evs = x.evs /\ y.todo = x.todo /\ y.iter = x.iter \ {e}
  BY <1>3, <1>4 DEF WriterTypes
<1>7. GoesOn(w, y)
  <2>1. writer' = [writer EXCEPT ![w] = E!Advance(y)]
    BY <1>1, <1>9, <1>3
  <2>. QED BY <1>0, <1>6, <2>1 DEF GoesOn
<1>8. cl[e].kind \in DOMAIN E!Second /\ h.type = E!Second[cl[e].kind]
  BY <1>1 DEF OfItsKind
<1>10. Typed'
  BY <1>0, <1>5, <1>7, WriterMoves DEF Typed
<1>11. ASSUME NEW c \in Client, NEW z \in Writer, c \in writer'[z].iter
       PROVE  /\ writer'[z].evs # <<>> /\ cl'[c].kind \in DOMAIN E!Second
              /\ Head(writer'[z].evs).type = E!Second[cl'[c].kind]
              /\ c \in writer[z].iter
  <2>1. c \in y.iter => cl[c].kind \in DOMAIN E!Second /\ Head(y.evs).type = E!Second[cl[c].kind]
    BY <1>6 DEF OfItsKind
  <2>2. cl'[c].kind = cl[c].kind
    BY <1>0
  <2>. QED BY <1>6, <1>7, <1>11, <2>1, <2>2, WritersKind
<1>12. OfItsKind'
  <2>1. \A z \in Writer : writer'[z].iter \subseteq Client
    BY <1>10 DEF Typed, WriterTypes
  <2>2. \A call \in calls' :
           cl'[call.c].kind \in DOMAIN E!Second /\ call.ev.type = E!Second[cl'[call.c].kind]
    BY <1>0, <1>5, <1>8 DEF OfItsKind
  <2>. QED BY <1>0, <1>11, <2>1, <2>2 DEF OfItsKind
<1>13. ASSUME NEW c \in Client PROVE ClientOK(c)'
  <2>. DEFINE k == cl[c].kind
  <2>0. PICK j, v : j = k /\ v = cl[c].view
    OBVIOUS
  <2>1. Comes1(c) => Comes1(c)'
    <3>1. Owes1(c, j, x) => Owes1(c, j, y)
      BY <1>6 DEF Owes1
    <3>2. (\E z \in Writer : Owes1(c, j, writer[z])) => \E z \in Writer : Owes1(c, j, writer'[z])
      BY <1>7, <3>1, WritersOwe
    <3>. QED BY <1>0, <2>0, <3>2 DEF Comes1
  <2>2. ASSUME cl[c].st = "on", Comes2(c) PROVE Comes2(c)'
    <3>1. k \in DOMAIN E!Second /\ c \in subs2
      BY <2>2 DEF Comes2, ClientOK, Registered
    <3>2. Owes2(c, j, v, x) => Owes2(c, j, v, y) \/ (c = e /\ Hear2(j, v, h))
      BY <1>4, <1>6 DEF Owes2
    <3>3. (\E z \in Writer : Owes2(c, j, v, writer[z])) =>
              (\E z \in Writer : Owes2(c, j, v, writer'[z])) \/ (c = e /\ Hear2(j, v, h))
      BY <1>7, <3>2, WritersOwe
    <3>. QED BY <1>0, <1>5, <2>0, <2>2, <3>1, <3>3 DEF Comes2
  <2>3. Stays(c)
    BY <1>0, <1>5, <2>1, <2>2 DEF Stays, Sent
  <2>4. KeepsPlace(c)
    <3>0. e \in writer[w].iter
      BY <1>1
    <3>1. Nothing(c) => Nothing(c)'
      BY <1>0, <1>5, <1>11, <3>0 DEF Nothing
    <3>. QED BY <1>0, <3>1 DEF KeepsPlace, Typed
  <2>5. SameReviews(c)
    <3>1. \A z \in Writer : \A i \in DOMAIN writer'[z].evs :
            \E a \in Writer : \E b \in DOMAIN writer[a].evs : writer[a].evs[b] = writer'[z].evs[i]
      BY <1>7, WritersReview
    <3>2. ASSUME NEW call \in calls', call.c = c, cl[c].kind = "review"
          PROVE  call \in calls \/ (call.pc = "start" /\ call.ev.type = "review" /\ call.ev = x.evs[1])
      BY <1>4, <1>5, <1>8, <3>2, SecondIs
    <3>. QED BY <1>4, <3>1, <3>2 DEF SameReviews
  <2>. QED BY <1>10, <2>3, <2>4, <2>5, Unconcerned
<1>. QED BY <1>10, <1>12, <1>13 DEF EventsOK

(* What cannot be published is lost to everybody.                          *)
LEMMA TopicsOK ==
    ASSUME EventsOK, NEW w \in Writer, E!Topics(w)
    PROVE  EventsOK'
<1>. Typed /\ OfItsKind /\ \A c \in Client : ClientOK(c)
  BY DEF EventsOK
<1>0. /\ writer[w].evs # <<>> /\ UNCHANGED <<fact, view, queue, worker, subs1, subs2, calls>>
      /\ writer' = [writer EXCEPT ![w] = E!Advance([writer[w] EXCEPT !.todo = {}])]
      /\ cl' = [c \in Client |-> [E!Lost(Client)[c] EXCEPT !.late = E!At(w, 1) \/ @]]
  BY DEF E!Topics, E!memory
<1>. DEFINE x == writer[w]  h == Head(writer[w].evs)
<1>1. PICK a \in BOOLEAN : a = E!At(w, 1)
  BY DEF E!At
<1>2. ASSUME NEW c \in Client
      PROVE  /\ cl'[c] \in ClTypes /\ cl'[c].lost /\ cl'[c].late = (a \/ cl[c].late)
             /\ cl'[c].st = cl[c].st /\ cl'[c].kind = cl[c].kind /\ cl'[c].view = cl[c].view
             /\ cl'[c].base = cl[c].base /\ cl'[c].mixed = cl[c].mixed
  <2>1. PICK l : l = [cl[c] EXCEPT !.lost = TRUE]
    OBVIOUS
  <2>2. cl[c] \in ClTypes
    BY DEF Typed
  <2>3. /\ l \in ClTypes /\ l.lost /\ l.late = cl[c].late /\ l.st = cl[c].st /\ l.kind = cl[c].kind
        /\ l.view = cl[c].view /\ l.base = cl[c].base /\ l.mixed = cl[c].mixed
    BY <2>1, <2>2 DEF ClTypes
  <2>4. cl'[c] = [l EXCEPT !.late = a \/ @]
    BY <1>0, <1>1, <2>1 DEF E!Lost
  <2>5. PICK b \in BOOLEAN : b = (a \/ l.late)
    OBVIOUS
  <2>6. cl'[c] = [l EXCEPT !.late = b]
    BY <2>4, <2>5
  <2>7. /\ cl'[c] \in ClTypes /\ cl'[c].late = b /\ cl'[c].lost = l.lost /\ cl'[c].st = l.st
        /\ cl'[c].kind = l.kind /\ cl'[c].view = l.view /\ cl'[c].base = l.base
        /\ cl'[c].mixed = l.mixed
    BY <2>3, <2>6 DEF ClTypes
  <2>. QED BY <2>3, <2>5, <2>7
<1>3. PICK y : y = [x EXCEPT !.todo = {}]
  OBVIOUS
<1>4. x \in WriterTypes /\ h = x.evs[1] /\ DOMAIN x.evs \subseteq Nat \ {0}
  BY <1>0, HeadIs
<1>6. y \in WriterTypes /\ y.evs = x.evs /\ y.todo = {} /\ y.iter = x.iter
  BY <1>3, <1>4 DEF WriterTypes
<1>7. GoesOn(w, y)
  <2>1. writer' = [writer EXCEPT ![w] = E!Advance(y)]
    BY <1>0, <1>3
  <2>. QED BY <1>0, <1>6, <2>1 DEF GoesOn
<1>10. Typed'
  <2>1. cl' \in [Client -> ClTypes]
    BY <1>0, <1>2
  <2>. QED BY <1>0, <1>7, <2>1, WriterMoves DEF Typed
<1>11. ASSUME NEW c \in Client, NEW z \in Writer, c \in writer'[z].iter
       PROVE  /\ writer'[z].evs # <<>> /\ cl'[c].kind \in DOMAIN E!Second
              /\ Head(writer'[z].evs).type = E!Second[cl'[c].kind]
              /\ c \in writer[z].iter
  <2>1. c \in y.iter => cl[c].kind \in DOMAIN E!Second /\ Head(y.evs).type = E!Second[cl[c].kind]
    BY <1>6 DEF OfItsKind
  <2>. QED BY <1>2, <1>6, <1>7, <1>11, <2>1, WritersKind
<1>12. OfItsKind'
  <2>1. \A z \in Writer : writer'[z].iter \subseteq Client
    BY <1>10 DEF Typed, WriterTypes
  <2>2. \A c \in subs2 : cl'[c].kind \in DOMAIN E!Second
    BY <1>2 DEF OfItsKind, Typed
  <2>3. \A call \in calls : call.c \in Client
    BY DEF Typed, CallTypes
  <2>4. \A call \in calls :
           cl'[call.c].kind \in DOMAIN E!Second /\ call.ev.type = E!Second[cl'[call.c].kind]
    BY <1>2, <2>3 DEF OfItsKind
  <2>. QED BY <1>0, <1>11, <2>1, <2>2, <2>4 DEF OfItsKind
<1>13. ASSUME NEW c \in Client PROVE ClientOK(c)'
  <2>1. Alone(c)'
    BY <1>0, <1>2 DEF ClientOK, Alone, Sent
  <2>2. KnowsView(c)'
    <3>. SUFFICES ASSUME cl[c].kind = "diffs", cl[c].st \in {"half", "on"}, ~cl'[c].late
                  PROVE  cl'[c].view = view' \/ Comes1(c)'
      BY <1>2 DEF KnowsView
    <3>1. ~a /\ ~cl[c].late
      BY <1>2
    <3>2. h.bus # 1
      BY <1>0, <1>1, <3>1 DEF E!At
    <3>3. Comes1(c) => Comes1(c)'
      <4>0. PICK j : j = cl[c].kind
        OBVIOUS
      <4>1. Owes1(c, j, x) => Owes1(c, j, y)
        BY <1>4, <1>6, <3>2 DEF Owes1
      <4>2. (\E z \in Writer : Owes1(c, j, writer[z])) => \E z \in Writer : Owes1(c, j, writer'[z])
        BY <1>7, <4>1, WritersOwe
      <4>. QED BY <1>0, <1>2, <4>0, <4>2 DEF Comes1
    <3>. QED BY <1>0, <1>2, <3>1, <3>3 DEF ClientOK, KnowsView
  <2>3. OneReview(c)'
    <3>1. SameReviews(c)
      BY <1>0, <1>7, WritersReview DEF SameReviews
    <3>. QED BY <1>0, <1>2, <3>1, ReviewsStay DEF ClientOK
  <2>4. Informed(c)'
    BY <1>2 DEF Informed, Due
  <2>5. Registered(c)'
    <3>1. Nothing(c) => Nothing(c)'
      BY <1>0, <1>11 DEF Nothing
    <3>2. Blind(c) => Blind(c)'
      BY <1>2 DEF Blind
    <3>. QED BY <1>0, <1>2, <3>1, <3>2 DEF ClientOK, Registered
  <2>. QED BY <2>1, <2>2, <2>3, <2>4, <2>5 DEF ClientOK
<1>. QED BY <1>10, <1>12, <1>13 DEF EventsOK

-----------------------------------------------------------------------------
(* Changes.                                                                *)

(* A change of f comes with an event for those who have subscribed to f.   *)
Tells(f, evs) ==
    /\ f \in E!Fact /\ evs \in Seq(EvTypes) /\ 1 \in DOMAIN evs /\ view' \in View
    /\ f = "draft" => evs[1].bus = 1 /\ evs[1].type = "workspace" /\ evs[1].ref = "ws"
    /\ f = "files" => evs[1].bus = 2 /\ evs[1].type = "view" /\ evs[1].ref = view
    /\ f = "reviews" => 2 \in DOMAIN evs /\ evs[2].bus = 2 /\ evs[2].type = "review"
    /\ \A i \in DOMAIN evs : evs[i].type = "review" =>
          f = "reviews" /\ evs[i].val = fact["reviews"] + 1
    /\ view' # view => f = "draft"

LEMMA EventIs ==
    ASSUME NEW b \in {1, 2}, NEW n \in Nat,
           NEW t \in {"none", "workspace", "view", "comments", "reviews", "review"},
           NEW r \in View \union {"none", "ws", "review"}
    PROVE  /\ E!Event(b, t, r, n) \in EvTypes
           /\ E!Event(b, t, r, n).bus = b /\ E!Event(b, t, r, n).type = t
           /\ E!Event(b, t, r, n).ref = r /\ E!Event(b, t, r, n).val = n
BY DEF E!Event, EvTypes

LEMMA OneEvent ==
    ASSUME NEW e \in EvTypes
    PROVE  <<e>> \in Seq(EvTypes) /\ DOMAIN <<e>> = {1} /\ <<e>>[1] = e
OBVIOUS

LEMMA TwoEvents ==
    ASSUME NEW d \in EvTypes, NEW e \in EvTypes
    PROVE  /\ <<d, e>> \in Seq(EvTypes) /\ DOMAIN <<d, e>> = {1, 2}
           /\ <<d, e>>[1] = d /\ <<d, e>>[2] = e
OBVIOUS

LEMMA Changes ==
    ASSUME Typed, NEW w \in Writer, E!ChangeWorkspace(w)
    PROVE  \E f, evs : E!Write(w, f, evs) /\ Tells(f, evs)
<1>. view \in View /\ fact["reviews"] \in Nat
  BY DEF Typed, E!Fact
<1>1. CASE E!UpdateFields(w)
  <2>1. PICK e \in EvTypes : /\ e = E!Event(1, "workspace", "ws", 0) /\ e.bus = 1
                             /\ e.type = "workspace" /\ e.ref = "ws"
    BY EventIs
  <2>2. E!Write(w, "draft", <<e>>) /\ view' = view
    BY <1>1, <2>1 DEF E!UpdateFields
  <2>3. Tells("draft", <<e>>)
    BY <2>1, <2>2, OneEvent DEF Tells, E!Fact
  <2>. QED BY <2>2, <2>3
<1>2. CASE E!OpenWorkspace(w)
  <2>0. PICK v \in View \ {view} :
          /\ view' = v
          /\ E!Write(w, "draft", <<E!Event(1, "workspace", "ws", 0), E!Event(2, "view", v, 0)>>)
    BY <1>2 DEF E!OpenWorkspace
  <2>1. PICK e \in EvTypes : /\ e = E!Event(1, "workspace", "ws", 0) /\ e.bus = 1
                             /\ e.type = "workspace" /\ e.ref = "ws"
    BY EventIs
  <2>2. PICK d \in EvTypes : d = E!Event(2, "view", v, 0) /\ d.type = "view"
    BY EventIs
  <2>3. E!Write(w, "draft", <<e, d>>)
    BY <2>0, <2>1, <2>2
  <2>4. Tells("draft", <<e, d>>)
    BY <2>0, <2>1, <2>2, TwoEvents DEF Tells, E!Fact
  <2>. QED BY <2>3, <2>4
<1>3. CASE E!SyncTransitions(w)
  <2>1. PICK e \in EvTypes : /\ e = E!Event(2, "view", view, 0) /\ e.bus = 2
                             /\ e.type = "view" /\ e.ref = view
    BY EventIs
  <2>2. E!Write(w, "files", <<e>>) /\ view' = view
    BY <1>3, <2>1 DEF E!SyncTransitions
  <2>3. Tells("files", <<e>>)
    BY <2>1, <2>2, OneEvent DEF Tells, E!Fact
  <2>. QED BY <2>2, <2>3
<1>4. CASE E!CreateComment(w)
  <2>1. PICK e \in EvTypes : /\ e = E!Event(1, "comments", "ws", 0) /\ e.type = "comments"
    BY EventIs
  <2>2. E!Write(w, "comments", <<e>>) /\ view' = view
    BY <1>4, <2>1 DEF E!CreateComment
  <2>3. Tells("comments", <<e>>)
    BY <2>1, <2>2, OneEvent DEF Tells, E!Fact
  <2>. QED BY <2>2, <2>3
<1>5. ASSUME NEW r \in {"ws", "review"},
             E!Write(w, "reviews", <<E!Event(1, "reviews", r, 0),
                                   E!Event(2, "review", "review", fact["reviews"] + 1)>>),
             view' = view
      PROVE  \E f, evs : E!Write(w, f, evs) /\ Tells(f, evs)
  <2>1. PICK d \in EvTypes : d = E!Event(1, "reviews", r, 0) /\ d.type = "reviews"
    BY EventIs
  <2>2. PICK n \in Nat : n = fact["reviews"] + 1
    OBVIOUS
  <2>3. PICK e \in EvTypes : /\ e = E!Event(2, "review", "review", n) /\ e.bus = 2
                             /\ e.type = "review" /\ e.val = n
    BY EventIs
  <2>4. E!Write(w, "reviews", <<d, e>>)
    BY <1>5, <2>1, <2>2, <2>3
  <2>5. Tells("reviews", <<d, e>>)
    BY <1>5, <2>1, <2>2, <2>3, TwoEvents DEF Tells, E!Fact
  <2>. QED BY <2>4, <2>5
<1>6. CASE E!CreateOrUpdateReview(w)
  BY <1>5, <1>6 DEF E!CreateOrUpdateReview
<1>7. CASE E!DismissReview(w)
  BY <1>5, <1>7 DEF E!DismissReview
<1>. QED BY <1>1, <1>2, <1>3, <1>4, <1>6, <1>7 DEF E!ChangeWorkspace

LEMMA MixesOnly ==
    ASSUME Typed, NEW w \in Writer, NEW c \in Client, cl' = E!MixReviews(w)
    PROVE  /\ cl'[c] \in ClTypes
           /\ cl[c].kind # "review" => cl'[c] = cl[c]
           /\ cl'[c].kind = cl[c].kind /\ cl'[c].st = cl[c].st /\ cl'[c].view = cl[c].view
           /\ cl'[c].base = cl[c].base /\ cl'[c].lost = cl[c].lost /\ cl'[c].late = cl[c].late
           /\ cl'[c].chan = cl[c].chan /\ cl'[c].shown = cl[c].shown
           /\ cl[c].kind = "review" /\ ~cl'[c].mixed =>
                 /\ \A x \in Writer \ {w} : \A i \in DOMAIN writer[x].evs :
                       writer[x].evs[i].type # "review"
                 /\ \A call \in calls : call.c # c
<1>0. cl[c] \in ClTypes
  BY DEF Typed
<1>1. CASE cl[c].kind # "review"
  BY <1>0, <1>1 DEF E!MixReviews
<1>2. CASE cl[c].kind = "review"
  <2>1. PICK b \in BOOLEAN : b = (\/ \E x \in Writer \ {w} : E!Reviewing(x)
                                  \/ \E call \in calls : call.c = c)
    OBVIOUS
  <2>2. cl'[c] = [cl[c] EXCEPT !.mixed = b]
    BY <1>2, <2>1 DEF E!MixReviews
  <2>3. cl'[c].mixed = b
    BY <1>0, <2>2 DEF ClTypes
  <2>4. ~b => /\ \A x \in Writer \ {w} : \A i \in DOMAIN writer[x].evs :
                    writer[x].evs[i].type # "review"
              /\ \A call \in calls : call.c # c
    BY <2>1 DEF E!Reviewing
  <2>. QED BY <1>0, <1>2, <2>2, <2>3, <2>4 DEF ClTypes
<1>. QED BY <1>1, <1>2

LEMMA WriteOK ==
    ASSUME EventsOK, NEW w \in Writer, NEW f, NEW evs, E!Write(w, f, evs), Tells(f, evs)
    PROVE  EventsOK'
<1>. Typed /\ OfItsKind /\ \A c \in Client : ClientOK(c)
  BY DEF EventsOK
<1>0. /\ writer[w] = E!NoWriter /\ UNCHANGED <<queue, worker, subs1, subs2, calls>>
      /\ fact' = [fact EXCEPT ![f] = @ + 1]
      /\ writer' = [writer EXCEPT ![w] = [evs |-> evs, todo |-> User, iter |-> {}]]
      /\ cl' = IF f = "reviews" THEN E!MixReviews(w) ELSE cl
  BY DEF E!Write, E!memory
<1>1. /\ f \in E!Fact /\ evs \in Seq(EvTypes) /\ 1 \in DOMAIN evs /\ view' \in View
      /\ DOMAIN evs \subseteq Nat \ {0}
  BY TailIs DEF Tells
<1>2. PICK m : m = [evs |-> evs, todo |-> User, iter |-> {}]
  OBVIOUS
<1>3. m \in WriterTypes /\ m.evs = evs /\ m.todo = User /\ m.iter = {}
  BY <1>1, <1>2 DEF WriterTypes
<1>4. /\ writer' \in [Writer -> WriterTypes] /\ writer'[w] = m
      /\ \A x \in Writer \ {w} : writer'[x] = writer[x]
  BY <1>0, <1>2, <1>3 DEF Typed
<1>5. /\ fact' \in [E!Fact -> Nat] /\ fact'[f] = fact[f] + 1
      /\ \A g \in E!Fact \ {f} : fact'[g] = fact[g]
  BY <1>0, <1>1 DEF Typed
<1>6. ASSUME NEW c \in Client
      PROVE  /\ cl'[c] \in ClTypes /\ (cl[c].kind # "review" \/ f # "reviews" => cl'[c] = cl[c])
             /\ cl'[c].kind = cl[c].kind /\ cl'[c].st = cl[c].st /\ cl'[c].view = cl[c].view
             /\ cl'[c].base = cl[c].base /\ cl'[c].lost = cl[c].lost /\ cl'[c].late = cl[c].late
             /\ cl'[c].chan = cl[c].chan /\ cl'[c].shown = cl[c].shown
  <2>1. CASE f = "reviews"
    BY <1>0, <2>1, MixesOnly
  <2>2. CASE f # "reviews"
    BY <1>0, <2>2 DEF Typed
  <2>. QED BY <2>1, <2>2
<1>10. Typed'
  <2>1. cl' \in [Client -> ClTypes]
    <3>1. cl' = [c \in Client |-> cl'[c]]
      BY <1>0 DEF E!MixReviews, Typed
    <3>. QED BY <1>6, <3>1
  <2>. QED BY <1>0, <1>1, <1>4, <1>5, <2>1 DEF Typed
<1>11. \A x \in Writer : writer'[x].iter \subseteq writer[x].iter
                         /\ (writer'[x].iter # {} => writer'[x] = writer[x])
  BY <1>3, <1>4
<1>12. OfItsKind'
  <2>1. \A c \in subs2 : cl'[c].kind \in DOMAIN E!Second
    BY <1>6 DEF OfItsKind, Typed
  <2>2. \A call \in calls :
           cl'[call.c].kind \in DOMAIN E!Second /\ call.ev.type = E!Second[cl'[call.c].kind]
    <3>1. \A call \in calls : call.c \in Client
      BY DEF Typed, CallTypes
    <3>. QED BY <1>6, <3>1 DEF OfItsKind
  <2>3. \A x \in Writer : \A c \in writer'[x].iter :
          /\ writer'[x].evs # <<>> /\ cl'[c].kind \in DOMAIN E!Second
          /\ Head(writer'[x].evs).type = E!Second[cl'[c].kind]
    <3>1. \A x \in Writer : writer[x].iter \subseteq Client
      BY DEF Typed, WriterTypes
    <3>. QED BY <1>6, <1>11, <3>1 DEF OfItsKind
  <2>. QED BY <1>0, <2>1, <2>2, <2>3 DEF OfItsKind
<1>13. ASSUME NEW c \in Client PROVE ClientOK(c)'
  <2>0. PICK k, v : k = cl[c].kind /\ v = cl[c].view
    OBVIOUS
  <2>9. k \in KindsKnown /\ cl'[c].kind = k /\ cl'[c].view = v /\ E!About[k] \in E!Fact
    BY <1>6, <2>0, AboutIs DEF Typed, ClTypes
  <2>1. /\ Comes1(c) => Comes1(c)'
        /\ Comes2(c) => Comes2(c)'
    <3>1. /\ \A x \in Writer : Owes1(c, k, writer[x]) => x # w
          /\ \A x \in Writer : Owes2(c, k, v, writer[x]) => x # w
      BY <1>0, NothingIs DEF Owes1, Owes2
    <3>2. /\ \A x \in Writer : Owes1(c, k, writer[x]) => Owes1(c, k, writer'[x])
          /\ \A x \in Writer : Owes2(c, k, v, writer[x]) => Owes2(c, k, v, writer'[x])
      BY <1>4, <3>1
    <3>. QED BY <1>0, <2>0, <2>9, <3>2 DEF Comes1, Comes2
  <2>2. Of[c] \in m.todo
    BY <1>3, EventsAssumption
  <2>3. ASSUME f = "draft", k \in {"workspace", "diffs"} PROVE Comes1(c)'
    <3>1. Owes1(c, k, m)
      BY <1>1, <1>3, <2>2, <2>3 DEF Owes1, Hear1, Tells
    <3>. QED BY <1>4, <2>9, <3>1 DEF Comes1
  <2>4. Alone(c)'
    BY <1>0, <1>6 DEF ClientOK, Alone, Sent
  <2>5. KnowsView(c)'
    <3>1. CASE f = "draft"
      BY <1>6, <2>0, <2>3, <3>1 DEF KnowsView
    <3>2. CASE f # "draft"
      BY <1>6, <2>1, <3>2 DEF ClientOK, KnowsView, Tells
    <3>. QED BY <3>1, <3>2
  <2>6. OneReview(c)'
    <3>. SUFFICES ASSUME k = "review", cl[c].st = "on", ~cl'[c].mixed,
                         fact'["reviews"] # cl[c].base
                  PROVE  OneReview(c)'
      BY <1>6, <2>9, AboutIs DEF OneReview, Current
    <3>1. PICK n : n = fact'["reviews"]
      OBVIOUS
    <3>2. Current(c)' = n
      BY <2>9, <3>1, AboutIs DEF Current
    <3>3. CASE f = "reviews"
      <4>1. /\ \A x \in Writer \ {w} : \A i \in DOMAIN writer[x].evs :
                  writer[x].evs[i].type # "review"
            /\ \A call \in calls : call.c # c
        BY <1>0, <2>0, <3>3, MixesOnly
      <4>2. \A i \in DOMAIN evs : evs[i].type = "review" => evs[i].val = n
        BY <1>5, <3>1, <3>3 DEF Tells
      <4>. QED BY <1>0, <1>3, <1>4, <3>2, <4>1, <4>2 DEF OneReview
    <3>4. CASE f # "reviews"
      <4>1. cl'[c] = cl[c] /\ fact["reviews"] = n
        BY <1>5, <1>6, <3>1, <3>4 DEF E!Fact
      <4>2. Current(c) = n
        BY <2>0, <4>1, AboutIs DEF Current
      <4>3. /\ \A x \in Writer : \A i \in DOMAIN writer[x].evs :
                  writer[x].evs[i].type = "review" => writer[x].evs[i].val = n
            /\ \A call \in calls : call.c = c => call.ev.val = n /\ (call.pc = "send" => call.val = n)
        BY <2>0, <3>1, <4>1, <4>2 DEF ClientOK, OneReview
      <4>4. \A i \in DOMAIN evs : evs[i].type # "review"
        BY <3>4 DEF Tells
      <4>. QED BY <1>0, <1>3, <1>4, <3>2, <4>3, <4>4 DEF OneReview
    <3>. QED BY <3>3, <3>4
  <2>7. Informed(c)'
    <3>. SUFFICES ASSUME Due(c)' PROVE Comes1(c)' \/ Comes2(c)' \/ Told(c)'
      BY DEF Informed
    <3>1. /\ cl[c].st = "on" /\ k # "comments" /\ ~cl[c].lost /\ ~cl'[c].mixed /\ ~cl[c].late
      BY <1>6, <2>9 DEF Due
    <3>2. CASE f = E!About[k]
      <4>1. CASE k = "workspace"
        BY <2>3, <3>2, <4>1, AboutIs
      <4>2. CASE k = "diffs"
        <5>1. cl[c].view = view \/ Comes1(c)
          BY <2>0, <3>1, <4>2 DEF ClientOK, KnowsView
        <5>2. ASSUME v = view PROVE Owes2(c, k, v, m)
          BY <1>1, <1>3, <2>2, <3>2, <4>2, <5>2, AboutIs, SecondIs DEF Owes2, Hear2,
             Tells
        <5>. QED BY <1>4, <2>0, <2>9, <2>1, <4>2, <5>1, <5>2, SecondIs DEF Comes2
      <4>3. CASE k = "review"
        <5>1. Owes2(c, k, v, m)
          BY <1>1, <1>3, <2>2, <3>2, <4>3, AboutIs, SecondIs DEF Owes2, Hear2, Tells
        <5>. QED BY <1>4, <2>9, <4>3, <5>1, SecondIs DEF Comes2
      <4>. QED BY <2>9, <3>1, <4>1, <4>2, <4>3 DEF KindsKnown
    <3>3. CASE f # E!About[k]
      <4>1. cl'[c] = cl[c]
        BY <1>6, <2>0, <3>3, AboutIs
      <4>2. Current(c)' = Current(c)
        BY <1>5, <2>0, <2>9, <3>3, <4>1 DEF Current
      <4>3. Due(c)
        BY <4>1, <4>2 DEF Due
      <4>4. Told(c) => Told(c)'
        BY <1>0, <4>1, <4>2 DEF Told, AllFlying, Flying, Sent, Newest
      <4>. QED BY <2>1, <4>3, <4>4 DEF ClientOK, Informed
    <3>. QED BY <3>2, <3>3
  <2>8. Registered(c)'
    <3>1. Nothing(c) => Nothing(c)'
      BY <1>0, <1>11 DEF Nothing
    <3>2. Blind(c)' <=> Blind(c)
      BY <1>6 DEF Blind
    <3>3. cl'[c].base <= fact'[E!About[cl'[c].kind]]
      <4>1. PICK b \in Nat, p \in Nat, it \in Nat :
               b = cl[c].base /\ p = fact[E!About[k]] /\ it = fact'[E!About[k]]
        BY <1>5, <2>9 DEF Typed, ClTypes
      <4>2. b <= p
        BY <2>0, <4>1 DEF ClientOK, Registered
      <4>3. it = p \/ it = p + 1
        BY <1>5, <2>9, <4>1
      <4>4. b <= it
        BY <4>2, <4>3
      <4>. QED BY <1>6, <2>9, <4>1, <4>4
    <3>. QED BY <1>0, <1>6, <3>1, <3>2, <3>3 DEF ClientOK, Registered
  <2>. QED BY <2>4, <2>5, <2>6, <2>7, <2>8 DEF ClientOK
<1>. QED BY <1>10, <1>12, <1>13 DEF EventsOK

-----------------------------------------------------------------------------
(* The worker of the first bus.                                            *)

LEMMA TakeOK ==
    ASSUME EventsOK, E!Take
    PROVE  EventsOK'
<1>. Typed /\ OfItsKind /\ \A c \in Client : ClientOK(c)
  BY DEF EventsOK
<1>0. /\ worker.pc = "wait" /\ queue # <<>> /\ queue' = Tail(queue)
      /\ UNCHANGED <<fact, view, writer, subs1, subs2, calls, cl>>
      /\ worker' = [E!NoWork EXCEPT !.pc = "look", !.ev = Head(queue).ev,
                                  !.todo = {c \in Client : Of[c] = Head(queue).user}]
  BY DEF E!Take
<1>. DEFINE Q == [user : User, ev : EvTypes]
<1>1. /\ queue \in Seq(Q) /\ Head(queue) = queue[1] /\ Head(queue) \in Q /\ Tail(queue) \in Seq(Q)
      /\ DOMAIN queue = 1..Len(queue) /\ Len(queue) \in Nat \ {0}
      /\ DOMAIN Tail(queue) = 1..(Len(queue) - 1)
      /\ \A i \in DOMAIN Tail(queue) : Tail(queue)[i] = queue[i + 1]
  <2>1. queue \in Seq(Q) /\ queue # <<>>
    BY <1>0 DEF Typed
  <2>. QED BY <2>1, TailIs
<1>2. PICK h \in Q, T \in SUBSET Client :
          h = Head(queue) /\ T = {c \in Client : Of[c] = h.user}
  BY <1>1
<1>3. worker' = [E!NoWork EXCEPT !.pc = "look", !.ev = h.ev, !.todo = T]
  BY <1>0, <1>2
<1>4. /\ worker' \in WorkTypes /\ worker'.pc = "look" /\ worker'.ev = h.ev /\ worker'.todo = T
      /\ worker'.cur = None /\ worker'.gone = {}
  BY <1>3, NothingIs DEF WorkTypes
<1>5. worker.cur = None
  BY <1>0 DEF OfItsKind
<1>10. Typed'
  BY <1>0, <1>1, <1>4 DEF Typed
<1>12. OfItsKind'
  BY <1>0, <1>4 DEF OfItsKind
<1>13. ASSUME NEW c \in Client PROVE ClientOK(c)'
  <2>0. c # None
    BY EventsAssumption
  <2>1. Comes1(c) => Comes1(c)'
    <3>1. ASSUME NEW i \in DOMAIN queue, queue[i].user = Of[c], Hear1(cl[c].kind, queue[i].ev)
          PROVE  Comes1(c)'
      <4>1. CASE i = 1
        <5>1. h.user = Of[c] /\ Hear1(cl[c].kind, h.ev) /\ c \in T
          BY <1>1, <1>2, <3>1, <4>1
        <5>. QED BY <1>0, <1>4, <5>1 DEF Comes1
      <4>2. CASE i # 1
        <5>1. PICK n \in Nat : n = Len(queue)
          BY <1>1
        <5>2. i \in 1..n /\ i \in Nat
          BY <1>1, <3>1, <5>1
        <5>3. PICK j \in 1..(n - 1) : i = j + 1
          BY <4>2, <5>2
        <5>4. j \in DOMAIN queue' /\ queue'[j] = queue[i]
          BY <1>0, <1>1, <5>1, <5>3
        <5>. QED BY <1>0, <3>1, <5>4 DEF Comes1
      <4>. QED BY <4>1, <4>2
    <3>. QED BY <1>0, <3>1 DEF Comes1
  <2>2. Stays(c)
    BY <1>0, <1>4, <1>5, <2>0, <2>1 DEF Stays, Sent, Comes2
  <2>3. KeepsPlace(c)
    <3>1. Nothing(c) => Nothing(c)'
      BY <1>0, <1>4, <2>0 DEF Nothing
    <3>. QED BY <1>0, <1>4, <2>0, <3>1 DEF KeepsPlace, Typed
  <2>4. SameReviews(c)
    BY <1>0 DEF SameReviews
  <2>. QED BY <1>10, <2>2, <2>3, <2>4, Unconcerned
<1>. QED BY <1>10, <1>12, <1>13 DEF EventsOK

LEMMA CopyOK ==
    ASSUME EventsOK, E!Copy
    PROVE  EventsOK'
<1>. Typed /\ OfItsKind /\ \A c \in Client : ClientOK(c)
  BY DEF EventsOK
<1>0. /\ worker.pc = "look" /\ UNCHANGED <<fact, view, writer, queue, subs1, subs2, calls, cl>>
      /\ worker' = [worker EXCEPT !.pc = "call", !.todo = worker.todo \intersect subs1]
  BY DEF E!Copy
<1>1. /\ worker' \in WorkTypes /\ worker'.pc = "call" /\ worker'.ev = worker.ev
      /\ worker'.todo = worker.todo \intersect subs1 /\ worker'.cur = worker.cur
      /\ worker'.gone = worker.gone /\ worker'.val = worker.val
  BY <1>0 DEF Typed, WorkTypes
<1>10. Typed'
  BY <1>0, <1>1 DEF Typed
<1>12. OfItsKind'
  BY <1>0, <1>1 DEF OfItsKind
<1>13. ASSUME NEW c \in Client PROVE ClientOK(c)'
  <2>1. ASSUME Heeds(c), Comes1(c) PROVE Comes1(c)'
    <3>1. cl[c].kind \in E!First => c \in subs1
      BY <2>1 DEF ClientOK, Registered, Heeds, Blind
    <3>2. Hear1(cl[c].kind, worker.ev) => cl[c].kind \in E!First
      BY DEF Hear1, E!First
    <3>. QED BY <1>0, <1>1, <2>1, <3>1, <3>2 DEF Comes1
  <2>2. Stays(c)
    BY <1>0, <1>1, <2>1 DEF Stays, Sent, Comes2
  <2>3. KeepsPlace(c)
    <3>1. Nothing(c) => Nothing(c)'
      BY <1>0, <1>1 DEF Nothing
    <3>. QED BY <1>0, <1>1, <3>1 DEF KeepsPlace, Typed
  <2>4. SameReviews(c)
    BY <1>0 DEF SameReviews
  <2>. QED BY <1>10, <2>2, <2>3, <2>4, Unconcerned
<1>. QED BY <1>10, <1>12, <1>13 DEF EventsOK

LEMMA UnregOK ==
    ASSUME EventsOK, E!Unreg
    PROVE  EventsOK'
<1>. Typed /\ OfItsKind /\ \A c \in Client : ClientOK(c)
  BY DEF EventsOK
<1>0. /\ worker.cur = None /\ worker.todo = {}
      /\ UNCHANGED <<fact, view, writer, queue, subs2, calls, cl>>
      /\ subs1' = subs1 \ worker.gone /\ worker' = E!NoWork
  BY DEF E!Unreg
<1>10. Typed'
  BY <1>0, NothingIs DEF Typed
<1>12. OfItsKind'
  BY <1>0, NothingIs DEF OfItsKind
<1>13. ASSUME NEW c \in Client PROVE ClientOK(c)'
  <2>0. c # None
    BY EventsAssumption
  <2>1. Comes1(c) => Comes1(c)'
    BY <1>0, NothingIs DEF Comes1
  <2>2. Stays(c)
    BY <1>0, <2>0, <2>1, NothingIs DEF Stays, Sent, Comes2
  <2>3. KeepsPlace(c)
    <3>1. Nothing(c) => Nothing(c)'
      BY <1>0, <2>0, NothingIs DEF Nothing
    <3>2. c \in worker.gone => cl[c].st = "leaving" \/ Blind(c)
      BY DEF ClientOK, Registered
    <3>. QED BY <1>0, <2>0, <3>1, <3>2, NothingIs DEF KeepsPlace, Typed
  <2>4. SameReviews(c)
    BY <1>0 DEF SameReviews
  <2>. QED BY <1>10, <2>2, <2>3, <2>4, Unconcerned
<1>. QED BY <1>10, <1>12, <1>13 DEF EventsOK

-----------------------------------------------------------------------------
(* Subscriptions.                                                          *)

LEMMA FatalOK ==
    ASSUME EventsOK, E!Fatal
    PROVE  EventsOK'
<1>. Typed
  BY DEF EventsOK
<1>0. /\ queue' = <<>> /\ worker' = E!NoWork /\ subs1' = {} /\ subs2' = {} /\ calls' = {}
      /\ writer' = [w \in Writer |-> E!NoWriter] /\ cl' = [c \in Client |-> E!Off]
      /\ UNCHANGED <<fact, view>>
  BY DEF E!Fatal
<1>1. Typed'
  <2>1. queue' \in Seq([user : User, ev : EvTypes])
    BY <1>0
  <2>2. cl' \in [Client -> ClTypes] /\ writer' \in [Writer -> WriterTypes]
    BY <1>0, NothingIs
  <2>. QED BY <1>0, <2>1, <2>2, NothingIs DEF Typed
<1>2. OfItsKind'
  BY <1>0, NothingIs DEF OfItsKind
<1>3. ASSUME NEW c \in Client PROVE ClientOK(c)'
  <2>0. c # None /\ cl'[c] = E!Off
    BY <1>0, EventsAssumption
  <2>1. Nothing(c)'
    BY <1>0, <2>0, NothingIs DEF Nothing
  <2>2. E!Off.base <= fact'[E!About[E!Off.kind]]
    <3>1. E!About[E!Off.kind] \in E!Fact
      BY NothingIs, AboutIs DEF KindsKnown
    <3>2. fact'[E!About[E!Off.kind]] \in Nat
      BY <1>1, <3>1 DEF Typed
    <3>. QED BY <3>2, NothingIs
  <2>3. Registered(c)'
    BY <1>0, <2>0, <2>1, <2>2, NothingIs DEF Registered
  <2>4. Alone(c)' /\ KnowsView(c)' /\ OneReview(c)' /\ Informed(c)'
    BY <1>0, <2>0, NothingIs DEF Alone, Sent, KnowsView, OneReview, Informed, Due
  <2>. QED BY <2>3, <2>4 DEF ClientOK
<1>. QED BY <1>1, <1>2, <1>3 DEF EventsOK

(* One connection does something, the others do not notice.                *)
Aside(c) ==
    /\ UNCHANGED <<fact, view, writer, queue, worker, calls>>
    /\ \A d \in Client \ {c} : /\ cl'[d] = cl[d]
                               /\ d \in subs1' <=> d \in subs1
                               /\ d \in subs2' <=> d \in subs2

LEMMA AsideOK ==
    ASSUME EventsOK, Typed', NEW c \in Client, Aside(c), NEW d \in Client \ {c}
    PROVE  ClientOK(d)'
<1>0. Typed /\ ClientOK(d)
  BY DEF EventsOK
<1>1. Stays(d)
  BY DEF Aside, Stays, Comes1, Comes2, Sent
<1>2. KeepsPlace(d)
  <2>1. Nothing(d) => Nothing(d)'
    BY DEF Aside, Nothing
  <2>2. \A f \in E!Fact : fact'[f] >= fact[f]
    BY <1>0 DEF Aside, Typed
  <2>. QED BY <2>1, <2>2 DEF Aside, KeepsPlace
<1>3. SameReviews(d)
  BY DEF Aside, SameReviews
<1>. QED BY <1>0, <1>1, <1>2, <1>3, Unconcerned

LEMMA CancelOK ==
    ASSUME EventsOK, NEW c \in Client, E!Cancel(c) \/ E!Done(c), ~E!Fatal
    PROVE  EventsOK'
<1>. Typed /\ OfItsKind /\ \A d \in Client : ClientOK(d)
  BY DEF EventsOK
<1>1. /\ cl[c].st = "leaving" /\ UNCHANGED <<fact, view, writer, queue, worker, calls, cl>>
      /\ subs1' \subseteq subs1 /\ subs1 \ {c} \subseteq subs1'
      /\ subs2' \subseteq subs2 /\ subs2 \ {c} \subseteq subs2'
  BY DEF E!Cancel, E!Done
<1>2. Typed' /\ OfItsKind'
  BY <1>1 DEF Typed, OfItsKind
<1>3. \A d \in Client \ {c} : ClientOK(d)'
  <2>1. Aside(c)
    BY <1>1 DEF Aside
  <2>. QED BY <1>2, <2>1, AsideOK
<1>4. ClientOK(c)'
  <2>1. Stays(c) /\ SameReviews(c)
    BY <1>1 DEF Stays, Comes1, Comes2, Sent, SameReviews
  <2>2. KeepsPlace(c)
    <3>1. Nothing(c) => Nothing(c)'
      BY <1>1 DEF Nothing
    <3>. QED BY <1>1, <3>1 DEF KeepsPlace, Typed
  <2>. QED BY <1>2, <2>1, <2>2, Unconcerned
<1>. QED BY <1>2, <1>3, <1>4 DEF EventsOK

LEMMA ReceiveOK ==
    ASSUME EventsOK, NEW c \in Client, E!Receive(c)
    PROVE  EventsOK'
<1>. Typed /\ OfItsKind /\ \A d \in Client : ClientOK(d)
  BY DEF EventsOK
<1>. DEFINE l == cl[c]
<1>0. /\ l.st = "on" /\ l.chan # <<>>
      /\ cl' = [cl EXCEPT ![c] = [l EXCEPT !.shown = Head(l.chan), !.chan = Tail(l.chan)]]
      /\ UNCHANGED <<fact, view, writer, queue, worker, calls, subs1, subs2>>
  BY DEF E!Receive, E!memory
<1>1. PICK m : m = [l EXCEPT !.shown = Head(l.chan), !.chan = Tail(l.chan)]
  OBVIOUS
<1>2. l \in ClTypes /\ l.chan \in Seq(Nat)
  BY DEF Typed, ClTypes
<1>3. /\ Tail(l.chan) \in Seq(Nat) /\ Head(l.chan) = l.chan[1] /\ Head(l.chan) \in Nat
      /\ Len(l.chan) \in Nat \ {0} /\ Len(Tail(l.chan)) = Len(l.chan) - 1
      /\ DOMAIN Tail(l.chan) = 1..(Len(l.chan) - 1)
      /\ \A i \in DOMAIN Tail(l.chan) : Tail(l.chan)[i] = l.chan[i + 1]
  BY <1>0, <1>2, TailIs, HeadTailProperties
<1>4. /\ m \in ClTypes /\ m.st = l.st /\ m.kind = l.kind /\ m.view = l.view /\ m.base = l.base
      /\ m.lost = l.lost /\ m.mixed = l.mixed /\ m.late = l.late
      /\ m.shown = l.chan[1] /\ m.chan = Tail(l.chan)
  BY <1>1, <1>2, <1>3 DEF ClTypes
<1>5. cl' = [cl EXCEPT ![c] = m] /\ cl'[c] = m /\ \A d \in Client \ {c} : cl'[d] = cl[d]
  BY <1>0, <1>1 DEF Typed
<1>6. Typed'
  BY <1>0, <1>4, <1>5 DEF Typed
<1>7. \A d \in Client : cl'[d].kind = cl[d].kind
  BY <1>4, <1>5
<1>8. OfItsKind'
  <2>1. /\ \A call \in calls : call.c \in Client
        /\ \A w \in Writer : writer[w].iter \subseteq Client
    BY DEF Typed, CallTypes, WriterTypes
  <2>2. \A d \in subs2 : cl'[d].kind \in DOMAIN E!Second
    BY <1>7 DEF OfItsKind, Typed
  <2>3. \A w \in Writer : \A d \in writer[w].iter :
          /\ writer[w].evs # <<>> /\ cl'[d].kind \in DOMAIN E!Second
          /\ Head(writer[w].evs).type = E!Second[cl'[d].kind]
    BY <1>7, <2>1 DEF OfItsKind
  <2>4. \A call \in calls :
           cl'[call.c].kind \in DOMAIN E!Second /\ call.ev.type = E!Second[cl'[call.c].kind]
    BY <1>7, <2>1 DEF OfItsKind
  <2>. QED BY <1>0, <2>2, <2>3, <2>4 DEF OfItsKind
<1>9. \A d \in Client \ {c} : ClientOK(d)'
  <2>1. Aside(c)
    BY <1>0, <1>5 DEF Aside
  <2>. QED BY <1>6, <2>1, AsideOK
<1>10. ClientOK(c)'
  <2>1. Newest(c)' = Newest(c)
    <3>1. PICK n \in Nat \ {0} : n = Len(l.chan)
      BY <1>3
    <3>2. CASE n = 1
      <4>1. Len(Tail(l.chan)) = 0
        BY <1>3, <3>1, <3>2
      <4>2. Tail(l.chan) = <<>>
        BY <1>3, <4>1, EmptySeq
      <4>. QED BY <1>0, <1>4, <1>5, <3>1, <3>2, <4>2 DEF Newest
    <3>3. CASE n # 1
      <4>1. n - 1 \in 1..(n - 1) /\ (n - 1) + 1 = n
        BY <3>3
      <4>2. Tail(l.chan)[n - 1] = l.chan[n]
        BY <1>3, <3>1, <4>1
      <4>3. Len(Tail(l.chan)) = n - 1
        BY <1>3, <3>1
      <4>4. Tail(l.chan) # <<>>
        <5>. SUFFICES ASSUME Tail(l.chan) = <<>> PROVE FALSE
          OBVIOUS
        <5>1. Len(Tail(l.chan)) = 0
          BY <1>3, EmptySeq
        <5>2. n - 1 = 0 /\ n \in Nat
          BY <4>3, <5>1
        <5>. QED BY <3>3, <5>2
      <4>. QED BY <1>0, <1>4, <1>5, <3>1, <4>2, <4>3, <4>4 DEF Newest
    <3>. QED BY <3>2, <3>3
  <2>2. Comes1(c) => Comes1(c)'
    BY <1>0, <1>4, <1>5 DEF Comes1
  <2>3. Comes2(c) => Comes2(c)'
    BY <1>0, <1>4, <1>5 DEF Comes2
  <2>4. Alone(c)' /\ KnowsView(c)'
    BY <1>0, <1>4, <1>5, <2>2 DEF ClientOK, Alone, Sent, KnowsView
  <2>5. OneReview(c)'
    <3>1. SameReviews(c)
      BY <1>0 DEF SameReviews
    <3>. QED BY <1>0, <1>4, <1>5, <3>1, ReviewsStay DEF ClientOK
  <2>6. Informed(c)'
    <3>1. Current(c)' = Current(c)
      BY <1>0, <1>4, <1>5 DEF Current
    <3>2. Told(c) => Told(c)'
      BY <1>0, <2>1, <3>1 DEF Told, AllFlying, Flying, Sent
    <3>3. Due(c)' => Due(c)
      BY <1>4, <1>5, <3>1 DEF Due
    <3>. QED BY <2>2, <2>3, <3>2, <3>3 DEF ClientOK, Informed
  <2>7. Registered(c)'
    <3>1. Blind(c)' <=> Blind(c)
      BY <1>4, <1>5 DEF Blind
    <3>. QED BY <1>0, <1>4, <1>5, <3>1 DEF ClientOK, Registered
  <2>. QED BY <2>4, <2>5, <2>6, <2>7 DEF ClientOK
<1>. QED BY <1>6, <1>8, <1>9, <1>10 DEF EventsOK

(* Nobody changes the kind of a subscription, or calls for another one.    *)
LEMMA KindsStay ==
    ASSUME Typed, OfItsKind, \A d \in Client : cl'[d].kind = cl[d].kind,
           UNCHANGED writer, \A d \in subs2' : d \in subs2,
           \A call \in calls' : \E old \in calls : old.c = call.c /\ old.ev = call.ev,
           worker'.pc = "wait" => worker'.cur = None
    PROVE  OfItsKind'
<1>1. /\ \A call \in calls : call.c \in Client
      /\ \A w \in Writer : writer[w].iter \subseteq Client
      /\ subs2 \subseteq Client
  BY DEF Typed, CallTypes, WriterTypes
<1>2. \A d \in subs2' : cl'[d].kind \in DOMAIN E!Second
  BY <1>1 DEF OfItsKind
<1>3. \A w \in Writer : \A d \in writer'[w].iter :
        /\ writer'[w].evs # <<>> /\ cl'[d].kind \in DOMAIN E!Second
        /\ Head(writer'[w].evs).type = E!Second[cl'[d].kind]
  BY <1>1 DEF OfItsKind
<1>4. ASSUME NEW call \in calls'
      PROVE  cl'[call.c].kind \in DOMAIN E!Second /\ call.ev.type = E!Second[cl'[call.c].kind]
  <2>1. PICK old \in calls : old.c = call.c /\ old.ev = call.ev
    OBVIOUS
  <2>. QED BY <1>1, <2>1 DEF OfItsKind
<1>. QED BY <1>2, <1>3, <1>4 DEF OfItsKind

(* One connection becomes m.                                               *)
Becomes(c, m) == m \in ClTypes /\ cl' = [cl EXCEPT ![c] = m]

LEMMA BecomesIs ==
    ASSUME Typed, NEW c \in Client, NEW m, Becomes(c, m)
    PROVE  /\ cl' \in [Client -> ClTypes] /\ cl'[c] = m
           /\ \A d \in Client \ {c} : cl'[d] = cl[d]
BY DEF Typed, Becomes

LEMMA LeaveOK ==
    ASSUME EventsOK, NEW c \in Client, E!Leave(c)
    PROVE  EventsOK'
<1>. Typed /\ OfItsKind /\ \A d \in Client : ClientOK(d)
  BY DEF EventsOK
<1>0. /\ cl' = [cl EXCEPT ![c] = [E!Off EXCEPT !.st = "leaving", !.kind = cl[c].kind]]
      /\ UNCHANGED <<fact, view, writer, queue, worker, calls, subs1, subs2>>
  BY DEF E!Leave, E!memory
<1>1. PICK m : m = [E!Off EXCEPT !.st = "leaving", !.kind = cl[c].kind]
  OBVIOUS
<1>2. cl[c].kind \in KindsKnown
  BY DEF Typed, ClTypes
<1>3. /\ m \in ClTypes /\ m.st = "leaving" /\ m.kind = cl[c].kind /\ m.base = 0
  BY <1>1, <1>2, NothingIs DEF ClTypes
<1>4. Becomes(c, m)
  BY <1>0, <1>1, <1>3 DEF Becomes
<1>5. cl' \in [Client -> ClTypes] /\ cl'[c] = m /\ \A d \in Client \ {c} : cl'[d] = cl[d]
  BY <1>4, BecomesIs
<1>6. Typed'
  BY <1>0, <1>5 DEF Typed
<1>7. OfItsKind'
  <2>1. \A d \in Client : cl'[d].kind = cl[d].kind
    BY <1>3, <1>5
  <2>2. worker'.pc = "wait" => worker'.cur = None
    BY <1>0 DEF OfItsKind
  <2>. QED BY <1>0, <2>1, <2>2, KindsStay
<1>8. \A d \in Client \ {c} : ClientOK(d)'
  <2>1. Aside(c)
    BY <1>0, <1>5 DEF Aside
  <2>. QED BY <1>6, <2>1, AsideOK
<1>9. ClientOK(c)'
  <2>1. Alone(c)' /\ KnowsView(c)' /\ OneReview(c)' /\ Informed(c)'
    BY <1>3, <1>5 DEF Alone, KnowsView, OneReview, Informed, Due
  <2>2. m.base <= fact'[E!About[m.kind]]
    <3>1. fact[E!About[m.kind]] \in Nat
      BY <1>2, <1>3, AboutIs DEF Typed
    <3>. QED BY <1>0, <1>3, <3>1
  <2>3. worker.cur = c => cl[c].kind \in E!First
    BY DEF ClientOK, Registered
  <2>. QED BY <1>0, <1>3, <1>5, <2>1, <2>2, <2>3 DEF ClientOK, Registered
<1>. QED BY <1>6, <1>7, <1>8, <1>9 DEF EventsOK

(* A name of which nothing is left is used, or may be used, again.         *)
LEMMA AfreshOK ==
    ASSUME EventsOK, NEW c \in Client, NEW m, Becomes(c, m), Nothing(c),
           UNCHANGED <<fact, view, writer, queue, worker, calls, subs1, subs2>>,
           m.st \in {"off", "read"}, m.base = 0, m.view = None => m.st = "off"
    PROVE  EventsOK'
<1>. Typed /\ OfItsKind /\ \A d \in Client : ClientOK(d)
  BY DEF EventsOK
<1>1. cl' \in [Client -> ClTypes] /\ cl'[c] = m /\ \A d \in Client \ {c} : cl'[d] = cl[d]
  BY BecomesIs
<1>2. Typed'
  BY <1>1 DEF Typed
<1>3. OfItsKind'
  <2>1. /\ \A call \in calls : call.c \in Client \ {c}
        /\ \A w \in Writer : writer[w].iter \subseteq Client \ {c}
        /\ subs2 \subseteq Client \ {c}
    BY DEF Typed, CallTypes, WriterTypes, Nothing
  <2>2. \A d \in subs2' : cl'[d].kind \in DOMAIN E!Second
    BY <1>1, <2>1 DEF OfItsKind
  <2>3. \A w \in Writer : \A d \in writer'[w].iter :
          /\ writer'[w].evs # <<>> /\ cl'[d].kind \in DOMAIN E!Second
          /\ Head(writer'[w].evs).type = E!Second[cl'[d].kind]
    BY <1>1, <2>1 DEF OfItsKind
  <2>4. \A call \in calls' :
          cl'[call.c].kind \in DOMAIN E!Second /\ call.ev.type = E!Second[cl'[call.c].kind]
    BY <1>1, <2>1 DEF OfItsKind
  <2>. QED BY <2>2, <2>3, <2>4 DEF OfItsKind
<1>4. \A d \in Client \ {c} : ClientOK(d)'
  <2>1. Aside(c)
    BY <1>1 DEF Aside
  <2>. QED BY <1>2, <2>1, AsideOK
<1>5. ClientOK(c)'
  <2>1. Nothing(c)'
    BY DEF Nothing
  <2>2. m.base <= fact'[E!About[m.kind]]
    <3>1. m.kind \in KindsKnown
      BY DEF Becomes, ClTypes
    <3>2. fact[E!About[m.kind]] \in Nat
      BY <3>1, AboutIs DEF Typed
    <3>. QED BY <3>2
  <2>3. Registered(c)'
    BY <1>1, <2>1, <2>2 DEF Registered, Nothing
  <2>4. Alone(c)'
    BY <2>1 DEF Alone, Sent, Nothing
  <2>5. KnowsView(c)' /\ OneReview(c)' /\ Informed(c)'
    BY <1>1 DEF KnowsView, OneReview, Informed, Due
  <2>. QED BY <2>3, <2>4, <2>5 DEF ClientOK
<1>. QED BY <1>2, <1>3, <1>4, <1>5 DEF EventsOK

LEMMA GoneOK ==
    ASSUME EventsOK, NEW c \in Client, E!Gone(c)
    PROVE  EventsOK'
<1>1. Becomes(c, E!Off) /\ UNCHANGED <<fact, view, writer, queue, worker, calls, subs1, subs2>>
  BY NothingIs DEF E!Gone, Becomes, E!memory
<1>2. Nothing(c)
  BY DEF E!Gone, Nothing
<1>. QED BY <1>1, <1>2, NothingIs, AfreshOK

LEMMA SubscribeOK ==
    ASSUME EventsOK, NEW c \in Client, NEW k \in Kinds, E!Subscribe(c, k)
    PROVE  EventsOK'
<1>0. /\ cl[c].st = "off" /\ view \in View
      /\ UNCHANGED <<fact, view, writer, queue, worker, calls, subs1, subs2>>
  BY DEF E!Subscribe, E!memory, EventsOK, Typed
<1>1. PICK v \in View : cl' = [cl EXCEPT ![c] = [E!Off EXCEPT !.st = "read", !.kind = k, !.view = v]]
  BY <1>0 DEF E!Subscribe
<1>2. PICK m : m = [E!Off EXCEPT !.st = "read", !.kind = k, !.view = v]
  OBVIOUS
<1>3. k \in KindsKnown /\ v # None
  BY EventsAssumption DEF KindsKnown
<1>4. m \in ClTypes /\ m.st = "read" /\ m.kind = k /\ m.view = v /\ m.base = 0
  BY <1>2, <1>3, NothingIs DEF ClTypes
<1>5. Becomes(c, m)
  BY <1>1, <1>2, <1>4 DEF Becomes
<1>6. Nothing(c)
  BY <1>0 DEF EventsOK, ClientOK, Registered
<1>. QED BY <1>0, <1>3, <1>4, <1>5, <1>6, AfreshOK

LEMMA SubscribeUserOK ==
    ASSUME EventsOK, NEW c \in Client, E!SubscribeUser(c), ~E!Fatal
    PROVE  EventsOK'
<1>. Typed /\ OfItsKind /\ \A d \in Client : ClientOK(d)
  BY DEF EventsOK
<1>. DEFINE l == cl[c]
<1>0. /\ l.st = "read" /\ l.kind \in E!First
      /\ UNCHANGED <<fact, view, writer, queue, worker, subs2, calls>> /\ subs1' = subs1 \union {c}
      /\ cl' = [cl EXCEPT ![c] = IF l.kind \in DOMAIN E!Second
                                 THEN [E!Late(c) EXCEPT !.st = "half"] ELSE E!Subscribed(c)]
  BY DEF E!SubscribeUser
<1>1. Registered(c) /\ Nothing(c)
  BY <1>0 DEF ClientOK, Registered
<1>2. l \in ClTypes /\ l.kind \in KindsKnown /\ view \in View /\ E!About[l.kind] \in E!Fact
      /\ fact[E!About[l.kind]] \in Nat /\ None \notin View /\ c # None
  BY AboutIs, EventsAssumption DEF Typed, ClTypes
<1>3. PICK m : /\ Becomes(c, m) /\ m.kind = l.kind /\ m.view = l.view
               /\ m.base <= fact[E!About[l.kind]]
               /\ \/ /\ l.kind \in DOMAIN E!Second /\ m.st = "half"
                     /\ m.late = (l.kind = "diffs" /\ l.view # view)
                  \/ /\ l.kind \notin DOMAIN E!Second /\ m.st = "on"
                     /\ m.base = fact[E!About[l.kind]]
  <2>1. CASE l.kind \in DOMAIN E!Second
    <3>1. PICK p \in BOOLEAN : p = (l.kind = "diffs" /\ l.view # view)
      OBVIOUS
    <3>2. PICK it : it = [l EXCEPT !.late = p]
      OBVIOUS
    <3>3. /\ it \in ClTypes /\ it.late = p /\ it.kind = l.kind /\ it.view = l.view /\ it.base = l.base
      BY <1>2, <3>2 DEF ClTypes
    <3>4. it = E!Late(c)
      BY <3>1, <3>2 DEF E!Late
    <3>5. PICK m : m = [it EXCEPT !.st = "half"]
      OBVIOUS
    <3>6. /\ m \in ClTypes /\ m.late = p /\ m.kind = l.kind /\ m.view = l.view /\ m.base = l.base
          /\ m.st = "half"
      BY <3>3, <3>5 DEF ClTypes
    <3>7. Becomes(c, m)
      BY <1>0, <2>1, <3>4, <3>5, <3>6 DEF Becomes
    <3>. QED BY <1>1, <2>1, <3>1, <3>6, <3>7 DEF Registered
  <2>2. CASE l.kind \notin DOMAIN E!Second
    <3>1. PICK n \in Nat : n = fact[E!About[l.kind]]
      BY <1>2
    <3>2. PICK m : m = [l EXCEPT !.st = "on", !.base = n]
      OBVIOUS
    <3>3. /\ m \in ClTypes /\ m.kind = l.kind /\ m.view = l.view /\ m.base = n /\ m.st = "on"
      BY <1>2, <3>2 DEF ClTypes
    <3>4. m = E!Subscribed(c)
      BY <3>1, <3>2 DEF E!Subscribed
    <3>5. Becomes(c, m)
      BY <1>0, <2>2, <3>3, <3>4 DEF Becomes
    <3>. QED BY <2>2, <3>1, <3>3, <3>5
  <2>. QED BY <2>1, <2>2
<1>5. cl' \in [Client -> ClTypes] /\ cl'[c] = m /\ \A d \in Client \ {c} : cl'[d] = cl[d]
  BY <1>3, BecomesIs
<1>6. Typed'
  BY <1>0, <1>5 DEF Typed
<1>7. OfItsKind'
  <2>1. \A d \in Client : cl'[d].kind = cl[d].kind
    BY <1>3, <1>5
  <2>2. worker'.pc = "wait" => worker'.cur = None
    BY <1>0 DEF OfItsKind
  <2>. QED BY <1>0, <2>1, <2>2, KindsStay
<1>8. \A d \in Client \ {c} : ClientOK(d)'
  <2>1. Aside(c)
    BY <1>0, <1>5 DEF Aside
  <2>. QED BY <1>6, <2>1, AsideOK
<1>9. ClientOK(c)'
  <2>1. Registered(c)'
    <3>1. l.kind # "review"
      BY <1>0 DEF E!First
    <3>2. m.view = None => Blind(c)'
      BY <1>0, <1>1, <1>2, <1>3, <1>5, SecondIs DEF Registered, Blind
    <3>. QED BY <1>0, <1>1, <1>3, <1>5, <3>1, <3>2 DEF Registered, Nothing
  <2>2. Alone(c)'
    BY <1>0, <1>1 DEF Alone, Sent, Nothing
  <2>3. KnowsView(c)'
    BY <1>0, <1>3, <1>5, SecondIs DEF KnowsView
  <2>4. OneReview(c)'
    BY <1>0, <1>3, <1>5 DEF OneReview, E!First
  <2>5. Informed(c)'
    BY <1>0, <1>3, <1>5 DEF Informed, Due, Current
  <2>. QED BY <2>1, <2>2, <2>3, <2>4, <2>5 DEF ClientOK
<1>. QED BY <1>6, <1>7, <1>8, <1>9 DEF EventsOK

LEMMA SubOK ==
    ASSUME EventsOK, NEW c \in Client, E!Sub(c), ~E!Fatal
    PROVE  EventsOK'
<1>. Typed /\ OfItsKind /\ \A d \in Client : ClientOK(d)
  BY DEF EventsOK
<1>. DEFINE l == cl[c]
<1>0. /\ l.st = "half" \/ (l.st = "read" /\ l.kind = "review")
      /\ UNCHANGED <<fact, view, writer, queue, worker, subs1, calls>> /\ subs2' = subs2 \union {c}
      /\ cl' = [cl EXCEPT ![c] = E!Subscribed(c)]
  BY DEF E!Sub
<1>1. Registered(c) /\ (l.st = "read" => Nothing(c))
  BY DEF ClientOK, Registered
<1>2. l \in ClTypes /\ l.kind \in KindsKnown /\ E!About[l.kind] \in E!Fact /\ fact[E!About[l.kind]] \in Nat
  BY AboutIs DEF Typed, ClTypes
<1>3. PICK n \in Nat : n = fact[E!About[l.kind]]
  BY <1>2
<1>4. PICK m : m = [l EXCEPT !.st = "on", !.base = n]
  OBVIOUS
<1>5. /\ m \in ClTypes /\ m.kind = l.kind /\ m.view = l.view /\ m.base = n /\ m.st = "on"
      /\ m.late = l.late /\ m.mixed = l.mixed
  BY <1>2, <1>4 DEF ClTypes
<1>6. Becomes(c, m)
  BY <1>0, <1>3, <1>4, <1>5 DEF Becomes, E!Subscribed
<1>7. cl' \in [Client -> ClTypes] /\ cl'[c] = m /\ \A d \in Client \ {c} : cl'[d] = cl[d]
  BY <1>6, BecomesIs
<1>8. Typed'
  BY <1>0, <1>7 DEF Typed
<1>9. l.kind \in DOMAIN E!Second
  BY <1>0, <1>1, SecondIs DEF Registered
<1>10. OfItsKind'
  <2>1. \A d \in Client : cl'[d].kind = cl[d].kind
    BY <1>5, <1>7
  <2>2. /\ \A call \in calls : call.c \in Client
        /\ \A w \in Writer : writer[w].iter \subseteq Client
        /\ subs2 \subseteq Client
    BY DEF Typed, CallTypes, WriterTypes
  <2>3. \A d \in subs2' : cl'[d].kind \in DOMAIN E!Second
    BY <1>0, <1>9, <2>1, <2>2 DEF OfItsKind
  <2>4. \A w \in Writer : \A d \in writer'[w].iter :
          /\ writer'[w].evs # <<>> /\ cl'[d].kind \in DOMAIN E!Second
          /\ Head(writer'[w].evs).type = E!Second[cl'[d].kind]
    BY <1>0, <2>1, <2>2 DEF OfItsKind
  <2>5. \A call \in calls' :
          cl'[call.c].kind \in DOMAIN E!Second /\ call.ev.type = E!Second[cl'[call.c].kind]
    BY <1>0, <2>1, <2>2 DEF OfItsKind
  <2>. QED BY <1>0, <2>3, <2>4, <2>5 DEF OfItsKind
<1>11. \A d \in Client \ {c} : ClientOK(d)'
  <2>1. Aside(c)
    BY <1>0, <1>7 DEF Aside
  <2>. QED BY <1>8, <2>1, AsideOK
<1>12. ClientOK(c)'
  <2>1. Registered(c)'
    <3>1. Blind(c) => Blind(c)'
      BY <1>5, <1>7 DEF Blind
    <3>2. l.kind \in E!First => l.st = "half"
      BY <1>0 DEF E!First
    <3>. QED BY <1>0, <1>1, <1>3, <1>5, <1>7, <3>1, <3>2 DEF Registered, Nothing
  <2>2. Alone(c)'
    BY <1>0, <1>5, <1>7 DEF Alone, Sent, ClientOK
  <2>3. KnowsView(c)'
    <3>1. Comes1(c) => Comes1(c)'
      BY <1>0, <1>5, <1>7 DEF Comes1
    <3>. QED BY <1>0, <1>5, <1>7, <3>1 DEF KnowsView, ClientOK
  <2>4. OneReview(c)' /\ Informed(c)'
    BY <1>0, <1>3, <1>5, <1>7 DEF OneReview, Informed, Due, Current
  <2>. QED BY <2>1, <2>2, <2>3, <2>4 DEF ClientOK
<1>. QED BY <1>8, <1>10, <1>11, <1>12 DEF EventsOK

-----------------------------------------------------------------------------
(* Deliveries of the first bus.                                            *)

(* Who is called by the worker is registered, and hears what it hears.     *)
LEMMA CalledIs ==
    ASSUME EventsOK, NEW c \in Client, worker.pc = "call", c \in worker.todo
    PROVE  /\ cl[c].st \in {"half", "on", "leaving"}
           /\ E!Deaf(c) => cl[c].st = "leaving" \/ Blind(c)
           /\ ~E!Deaf(c) /\ E!Hears1(c, worker.ev) =>
                 /\ cl[c].kind \in E!First /\ ~Blind(c) /\ cl[c].st \in {"half", "on"}
                 /\ c \in subs1 /\ c \notin worker.gone /\ cl[c].view # None
<1>1. Registered(c) /\ ~Nothing(c) /\ cl[c] \in ClTypes
  BY DEF EventsOK, ClientOK, Nothing, Typed
<1>2. cl[c].st \in {"half", "on", "leaving"} /\ cl[c].kind \in KindsKnown
  BY <1>1 DEF Registered, ClTypes
<1>3. E!Deaf(c) => cl[c].st = "leaving" \/ Blind(c)
  BY <1>1, <1>2 DEF E!Deaf, Registered
<1>4. ASSUME ~E!Deaf(c), E!Hears1(c, worker.ev)
      PROVE  /\ cl[c].kind \in E!First /\ ~Blind(c) /\ cl[c].st \in {"half", "on"}
             /\ c \in subs1 /\ c \notin worker.gone /\ cl[c].view # None
  <2>1. cl[c].kind \in E!First /\ (cl[c].kind = "diffs" => worker.ev.type = "workspace")
    BY <1>2, <1>4, HearsIs DEF Hear1, E!First
  <2>2. ~Blind(c)
    BY <1>4, <2>1 DEF E!Deaf, Blind
  <2>3. cl[c].st \in {"half", "on"}
    BY <1>2, <1>4 DEF E!Deaf
  <2>. QED BY <1>1, <2>1, <2>2, <2>3 DEF Registered
<1>. QED BY <1>2, <1>3, <1>4

(* The worker has called c: what it does with the others is the same.      *)
CallMoves(c) ==
    /\ worker.pc = "call" /\ worker.cur = None /\ c \in worker.todo
    /\ worker' \in WorkTypes /\ worker'.pc = "call" /\ worker'.ev = worker.ev
    /\ worker'.todo = worker.todo \ {c} /\ worker'.cur \in {None, c}
    /\ \A d \in Client \ {c} : /\ d \in worker'.gone <=> d \in worker.gone
                               /\ cl'[d] = cl[d]
    /\ UNCHANGED <<fact, view, writer, queue, subs1, subs2, calls>>

LEMMA CallMovesOK ==
    ASSUME EventsOK, NEW c \in Client, NEW m, Becomes(c, m), CallMoves(c), m.kind = cl[c].kind,
           ClientOK(c)'
    PROVE  EventsOK'
<1>. Typed /\ OfItsKind /\ \A d \in Client : ClientOK(d)
  BY DEF EventsOK
<1>1. cl' \in [Client -> ClTypes] /\ cl'[c] = m /\ \A d \in Client \ {c} : cl'[d] = cl[d]
  BY BecomesIs
<1>2. Typed'
  BY <1>1 DEF Typed, CallMoves
<1>3. OfItsKind'
  <2>1. \A d \in Client : cl'[d].kind = cl[d].kind
    BY <1>1
  <2>. QED BY <2>1, KindsStay DEF CallMoves
<1>4. ASSUME NEW d \in Client \ {c} PROVE ClientOK(d)'
  <2>0. d # None /\ worker.cur # d /\ worker'.cur # d
    BY EventsAssumption DEF CallMoves
  <2>1. Stays(d)
    BY <1>1, <2>0 DEF Stays, CallMoves, Comes1, Comes2, Sent
  <2>2. KeepsPlace(d)
    <3>1. Nothing(d) => Nothing(d)'
      BY <2>0 DEF Nothing, CallMoves
    <3>2. \A f \in E!Fact : fact'[f] >= fact[f]
      BY DEF CallMoves, Typed
    <3>. QED BY <2>0, <3>1, <3>2 DEF KeepsPlace, CallMoves
  <2>3. SameReviews(d)
    BY DEF SameReviews, CallMoves
  <2>. QED BY <1>2, <2>1, <2>2, <2>3, Unconcerned
<1>. QED BY <1>2, <1>3, <1>4 DEF EventsOK

LEMMA NotCalledOK ==
    ASSUME EventsOK, NEW c \in Client, CallMoves(c), cl' = cl, worker'.cur = None,
           \/ E!Deaf(c)
           \/ ~E!Hears1(c, worker.ev) /\ (c \in worker'.gone => c \in worker.gone)
    PROVE  EventsOK'
<1>. Typed /\ OfItsKind /\ \A d \in Client : ClientOK(d)
  BY DEF EventsOK
<1>1. Becomes(c, cl[c])
  BY DEF Becomes, Typed
<1>2. Typed'
  BY DEF Typed, CallMoves
<1>3. c # None /\ worker.cur # c /\ worker'.cur # c
  BY EventsAssumption DEF CallMoves
<1>4. E!Deaf(c) => cl[c].st = "leaving" \/ Blind(c)
  BY CalledIs DEF CallMoves
<1>5. Heeds(c) /\ Comes1(c) => Comes1(c)'
  <2>1. CASE E!Deaf(c)
    BY <1>4, <2>1 DEF Heeds, Blind
  <2>2. CASE ~E!Hears1(c, worker.ev)
    <3>1. ~Hear1(cl[c].kind, worker.ev)
      BY <2>2, HearsIs DEF Typed, ClTypes
    <3>. QED BY <3>1 DEF Comes1, CallMoves
  <2>. QED BY <2>1, <2>2
<1>6. Stays(c)
  BY <1>3, <1>5 DEF Stays, CallMoves, Comes2, Sent
<1>7. KeepsPlace(c)
  <2>1. ~Nothing(c)
    BY DEF Nothing, CallMoves
  <2>2. \A f \in E!Fact : fact'[f] >= fact[f]
    BY DEF CallMoves, Typed
  <2>. QED BY <1>3, <1>4, <2>1, <2>2 DEF KeepsPlace, CallMoves
<1>8. SameReviews(c)
  BY DEF SameReviews, CallMoves
<1>9. ClientOK(c)'
  BY <1>2, <1>6, <1>7, <1>8, Unconcerned
<1>. QED BY <1>1, <1>9, CallMovesOK

(* What is put into the channel has been read, ...                         *)
LEMMA HeardOK ==
    ASSUME EventsOK, NEW c \in Client, CallMoves(c), ~E!Deaf(c), E!Hears1(c, worker.ev),
           worker'.cur = c, worker'.val = E!Value(c, worker.ev), worker'.gone = worker.gone,
           cl' = [cl EXCEPT ![c] = E!Reloaded(c)]
    PROVE  EventsOK'
<1>. Typed /\ OfItsKind /\ \A d \in Client : ClientOK(d)
  BY DEF EventsOK
<1>. DEFINE l == cl[c]
<1>1. /\ l.kind \in E!First /\ ~Blind(c) /\ l.st \in {"half", "on"}
      /\ c \in subs1 /\ c \notin worker.gone /\ l.view # None
  BY CalledIs DEF CallMoves
<1>2. l \in ClTypes /\ view \in View /\ None \notin View /\ l.kind # "review" /\ c # None
  BY <1>1, EventsAssumption DEF Typed, E!First
<1>3. PICK x \in BOOLEAN : x = E!Delivering(c)
  BY DEF E!Delivering
<1>4. PICK it : it = [l EXCEPT !.mixed = x]
  OBVIOUS
<1>5. /\ it \in ClTypes /\ it.mixed = x /\ it.st = l.st /\ it.kind = l.kind /\ it.view = l.view
      /\ it.base = l.base /\ it.lost = l.lost /\ it.late = l.late
  BY <1>2, <1>4 DEF ClTypes
<1>6. E!Mix(c) = it
  BY <1>2, <1>3, <1>4 DEF E!Mix
<1>7. PICK m : /\ m \in ClTypes /\ m.mixed = x /\ m.st = l.st /\ m.kind = l.kind
               /\ m.base = l.base /\ m = E!Reloaded(c)
               /\ \/ l.kind = "diffs" /\ m.view = view
                  \/ l.kind # "diffs" /\ m.view = l.view
  <2>1. CASE l.kind = "diffs"
    <3>1. PICK m : m = [it EXCEPT !.view = view, !.late = FALSE]
      OBVIOUS
    <3>2. /\ m \in ClTypes /\ m.mixed = x /\ m.st = l.st /\ m.kind = l.kind /\ m.view = view
          /\ m.base = l.base
      BY <1>2, <1>5, <3>1 DEF ClTypes
    <3>. QED BY <1>6, <2>1, <3>1, <3>2 DEF E!Reloaded
  <2>2. CASE l.kind # "diffs"
    BY <1>5, <1>6, <2>2 DEF E!Reloaded
  <2>. QED BY <2>1, <2>2
<1>8. Becomes(c, m)
  BY <1>7 DEF Becomes
<1>9. cl'[c] = m
  BY <1>8, BecomesIs
<1>10. UNCHANGED <<fact, view, writer, queue, subs1, subs2, calls>> /\ worker.cur = None
  BY DEF CallMoves
<1>11. ~x => Sent(c)' = {}
  BY <1>3, <1>10 DEF E!Delivering, Sent
<1>12. ClientOK(c)'
  <2>1. Registered(c)'
    <3>1. m.view # None
      BY <1>1, <1>2, <1>7
    <3>2. Registered(c)
      BY DEF ClientOK
    <3>. QED BY <1>1, <1>2, <1>7, <1>9, <1>10, <3>1, <3>2 DEF Registered
  <2>2. Alone(c)'
    BY <1>7, <1>9, <1>11 DEF Alone
  <2>3. KnowsView(c)'
    BY <1>7, <1>9, <1>10 DEF KnowsView
  <2>4. OneReview(c)'
    BY <1>2, <1>7, <1>9 DEF OneReview
  <2>5. Informed(c)'
    <3>. SUFFICES ASSUME Due(c)' PROVE Told(c)'
      BY DEF Informed
    <3>1. ~x
      BY <1>7, <1>9 DEF Due
    <3>2. E!Value(c, worker.ev) = Current(c)
      BY <1>2 DEF E!Value, Current
    <3>3. Current(c)' = Current(c)
      BY <1>7, <1>9, <1>10 DEF Current
    <3>. QED BY <1>11, <3>1, <3>2, <3>3 DEF Told, AllFlying, Flying
  <2>. QED BY <2>1, <2>2, <2>3, <2>4, <2>5 DEF ClientOK
<1>. QED BY <1>7, <1>8, <1>12, CallMovesOK

(* ... or cannot be read.                                                  *)
LEMMA NotReadOK ==
    ASSUME EventsOK, NEW c \in Client, CallMoves(c), ~E!Deaf(c), E!Hears1(c, worker.ev),
           worker'.cur = None, worker'.gone = worker.gone,
           NEW v, v \in IF cl[c].kind = "diffs" THEN {None, view} ELSE {cl[c].view},
           cl' = [cl EXCEPT ![c].lost = TRUE, ![c].late = cl[c].kind = "diffs", ![c].view = v]
    PROVE  EventsOK'
<1>. Typed /\ OfItsKind /\ \A d \in Client : ClientOK(d)
  BY DEF EventsOK
<1>. DEFINE l == cl[c]
<1>1. /\ l.kind \in E!First /\ ~Blind(c) /\ l.st \in {"half", "on"}
      /\ c \in subs1 /\ c \notin worker.gone /\ l.view # None
  BY CalledIs DEF CallMoves
<1>2. l \in ClTypes /\ view \in View /\ None \notin View /\ l.kind # "review" /\ c # None
  BY <1>1, EventsAssumption DEF Typed, E!First
<1>3. PICK x \in BOOLEAN : x = (l.kind = "diffs")
  OBVIOUS
<1>4. v \in View \union {None} /\ (v = None => x)
  BY <1>1, <1>2, <1>3 DEF ClTypes
<1>5. PICK m : m = [l EXCEPT !.lost = TRUE, !.late = x, !.view = v]
  OBVIOUS
<1>6. /\ m \in ClTypes /\ m.lost /\ m.late = x /\ m.view = v /\ m.st = l.st /\ m.kind = l.kind
      /\ m.base = l.base /\ m.mixed = l.mixed
  BY <1>2, <1>4, <1>5 DEF ClTypes
<1>7. Becomes(c, m)
  <2>1. cl' = [cl EXCEPT ![c] = m]
    BY <1>3, <1>5 DEF Typed
  <2>. QED BY <1>6, <2>1 DEF Becomes
<1>8. cl'[c] = m
  BY <1>7, BecomesIs
<1>9. UNCHANGED <<fact, view, writer, queue, subs1, subs2, calls>> /\ worker.cur = None
  BY DEF CallMoves
<1>10. ClientOK(c)'
  <2>1. Registered(c)'
    <3>1. m.view = None => Blind(c)'
      BY <1>3, <1>4, <1>6, <1>8 DEF Blind
    <3>2. Registered(c)
      BY DEF ClientOK
    <3>. QED BY <1>1, <1>2, <1>6, <1>8, <1>9, <3>1, <3>2 DEF Registered
  <2>2. Alone(c)'
    BY <1>2, <1>6, <1>8, <1>9 DEF ClientOK, Alone, Sent
  <2>3. KnowsView(c)' /\ OneReview(c)' /\ Informed(c)'
    BY <1>2, <1>3, <1>6, <1>8 DEF KnowsView, OneReview, Informed, Due
  <2>. QED BY <2>1, <2>2, <2>3 DEF ClientOK
<1>. QED BY <1>6, <1>7, <1>10, CallMovesOK

LEMMA CallOK ==
    ASSUME EventsOK, E!Call
    PROVE  EventsOK'
<1>. Typed
  BY DEF EventsOK
<1>0. /\ worker.pc = "call" /\ worker.cur = None /\ worker \in WorkTypes
      /\ UNCHANGED <<fact, view, writer, queue, subs1, subs2, calls>>
  BY DEF E!Call, Typed
<1>1. PICK c \in worker.todo :
        \/ /\ E!Deaf(c) /\ worker' = [E!Called(c) EXCEPT !.gone = @ \union {c}]
           /\ UNCHANGED <<cl, E!counts>>
        \/ /\ ~E!Deaf(c) /\ ~E!Hears1(c, worker.ev) /\ worker' = E!Called(c)
           /\ UNCHANGED <<cl, E!counts>>
        \/ /\ ~E!Deaf(c) /\ E!Hears1(c, worker.ev)
           /\ worker' = [E!Called(c) EXCEPT !.cur = c, !.val = E!Value(c, worker.ev)]
           /\ cl' = [cl EXCEPT ![c] = E!Reloaded(c)] /\ UNCHANGED E!counts
        \/ /\ ~E!Deaf(c) /\ E!Hears1(c, worker.ev) /\ E!MayFail /\ worker' = E!Called(c)
           /\ \E v \in IF cl[c].kind = "diffs" THEN {None, view} ELSE {cl[c].view} :
                cl' = [cl EXCEPT ![c].lost = TRUE, ![c].late = cl[c].kind = "diffs", ![c].view = v]
  BY DEF E!Call
<1>2. c \in Client
  BY <1>0 DEF WorkTypes
<1>3. PICK y : y = E!Called(c)
  OBVIOUS
<1>4. /\ y \in WorkTypes /\ y.pc = "call" /\ y.ev = worker.ev /\ y.todo = worker.todo \ {c}
      /\ y.cur = None /\ y.gone = worker.gone
  BY <1>0, <1>3 DEF E!Called, WorkTypes
<1>5. CASE E!Deaf(c) /\ worker' = [E!Called(c) EXCEPT !.gone = @ \union {c}] /\ UNCHANGED cl
  <2>1. /\ worker' \in WorkTypes /\ worker'.pc = "call" /\ worker'.ev = worker.ev
        /\ worker'.todo = worker.todo \ {c} /\ worker'.cur = None
        /\ worker'.gone = worker.gone \union {c}
    BY <1>2, <1>3, <1>4, <1>5 DEF WorkTypes
  <2>2. CallMoves(c)
    BY <1>0, <1>1, <1>5, <2>1 DEF CallMoves
  <2>. QED BY <1>2, <1>5, <2>1, <2>2, NotCalledOK
<1>6. CASE ~E!Deaf(c) /\ ~E!Hears1(c, worker.ev) /\ worker' = E!Called(c) /\ UNCHANGED cl
  <2>1. CallMoves(c)
    BY <1>0, <1>1, <1>3, <1>4, <1>6 DEF CallMoves
  <2>. QED BY <1>2, <1>3, <1>4, <1>6, <2>1, NotCalledOK
<1>7. CASE /\ ~E!Deaf(c) /\ E!Hears1(c, worker.ev)
           /\ worker' = [E!Called(c) EXCEPT !.cur = c, !.val = E!Value(c, worker.ev)]
           /\ cl' = [cl EXCEPT ![c] = E!Reloaded(c)]
  <2>1. PICK v \in Nat : v = E!Value(c, worker.ev)
    <3>1. cl[c].kind # "review" /\ cl[c].kind \in KindsKnown
      BY <1>0, <1>1, <1>2, <1>7, CalledIs DEF E!First, Typed, ClTypes
    <3>2. fact[E!About[cl[c].kind]] \in Nat
      BY <3>1, AboutIs DEF Typed
    <3>. QED BY <3>1, <3>2 DEF E!Value
  <2>2. /\ worker' \in WorkTypes /\ worker'.pc = "call" /\ worker'.ev = worker.ev
        /\ worker'.todo = worker.todo \ {c} /\ worker'.cur = c /\ worker'.val = v
        /\ worker'.gone = worker.gone
    BY <1>2, <1>3, <1>4, <1>7, <2>1 DEF WorkTypes
  <2>3. \A d \in Client \ {c} : cl'[d] = cl[d]
    BY <1>7 DEF Typed
  <2>4. CallMoves(c)
    BY <1>0, <1>1, <2>2, <2>3 DEF CallMoves
  <2>. QED BY <1>2, <1>7, <2>1, <2>2, <2>4, HeardOK
<1>8. CASE /\ ~E!Deaf(c) /\ E!Hears1(c, worker.ev) /\ worker' = E!Called(c)
           /\ \E v \in IF cl[c].kind = "diffs" THEN {None, view} ELSE {cl[c].view} :
                cl' = [cl EXCEPT ![c].lost = TRUE, ![c].late = cl[c].kind = "diffs", ![c].view = v]
  <2>1. PICK v \in IF cl[c].kind = "diffs" THEN {None, view} ELSE {cl[c].view} :
           cl' = [cl EXCEPT ![c].lost = TRUE, ![c].late = cl[c].kind = "diffs", ![c].view = v]
    BY <1>8
  <2>2. \A d \in Client \ {c} : cl'[d] = cl[d]
    BY <2>1 DEF Typed
  <2>3. CallMoves(c)
    BY <1>0, <1>1, <1>3, <1>4, <1>8, <2>2 DEF CallMoves
  <2>. QED BY <1>2, <1>3, <1>4, <1>8, <2>1, <2>3, NotReadOK
<1>. QED BY <1>1, <1>5, <1>6, <1>7, <1>8

-----------------------------------------------------------------------------
(* A delivery.                                                             *)

LEMMA PutIs ==
    ASSUME Typed, NEW c \in Client, NEW v \in Nat, E!Put(c, v)
    PROVE  \E m : /\ Becomes(c, m) /\ m.st = cl[c].st /\ m.kind = cl[c].kind
                  /\ m.view = cl[c].view /\ m.base = cl[c].base /\ m.mixed = cl[c].mixed
                  /\ m.late = cl[c].late
                  /\ m.st = "on" /\ ~m.lost =>
                        /\ m.chan # <<>> /\ m.chan[Len(m.chan)] = v
                        /\ ~cl[c].lost \/ v = Current(c)
<1>. DEFINE l == cl[c]
<1>1. l \in ClTypes /\ l.chan \in Seq(Nat)
  BY DEF Typed, ClTypes
<1>2. CASE l.st \notin {"half", "on"}
  <2>1. Becomes(c, l)
    BY <1>1, <1>2 DEF E!Put, Becomes, Typed
  <2>. QED BY <1>2, <2>1
<1>3. CASE l.st \in {"half", "on"} /\ Len(l.chan) = ChanCap
  <2>1. PICK m : m = [l EXCEPT !.lost = TRUE]
    OBVIOUS
  <2>2. /\ m \in ClTypes /\ m.lost /\ m.st = l.st /\ m.kind = l.kind /\ m.view = l.view
        /\ m.base = l.base /\ m.mixed = l.mixed /\ m.late = l.late
    BY <1>1, <2>1 DEF ClTypes
  <2>3. cl' = [cl EXCEPT ![c] = m]
    BY <1>3, <2>1 DEF E!Put, Typed
  <2>. QED BY <2>2, <2>3 DEF Becomes
<1>4. CASE l.st \in {"half", "on"} /\ Len(l.chan) # ChanCap
  <2>1. PICK x \in BOOLEAN : x = (l.lost /\ v # fact[E!About[l.kind]])
    OBVIOUS
  <2>2. PICK s : s = Append(l.chan, v)
    OBVIOUS
  <2>3. s \in Seq(Nat) /\ Len(s) = Len(l.chan) + 1 /\ s[Len(l.chan) + 1] = v
    BY <1>1, <2>2, AppendProperties
  <2>4. s # <<>>
    <3>. SUFFICES ASSUME s = <<>> PROVE FALSE
      OBVIOUS
    <3>1. PICK n \in Nat : n = Len(l.chan)
      BY <1>1
    <3>2. n + 1 = 0
      BY <2>3, <3>1, EmptySeq
    <3>. QED BY <3>2
  <2>5. PICK m : m = [l EXCEPT !.chan = s, !.lost = x]
    OBVIOUS
  <2>6. /\ m \in ClTypes /\ m.lost = x /\ m.st = l.st /\ m.kind = l.kind /\ m.view = l.view
        /\ m.base = l.base /\ m.mixed = l.mixed /\ m.late = l.late /\ m.chan = s
    BY <1>1, <2>3, <2>5 DEF ClTypes
  <2>7. cl' = [cl EXCEPT ![c] = m]
    <3>1. cl' = [cl EXCEPT ![c].chan = Append(@, v), ![c].lost = @ /\ v # fact[E!About[cl[c].kind]]]
      BY <1>4 DEF E!Put
    <3>. QED BY <2>1, <2>2, <2>5, <3>1 DEF Typed
  <2>. QED BY <2>1, <2>3, <2>4, <2>6, <2>7 DEF Becomes, Current
<1>. QED BY <1>2, <1>3, <1>4

LEMMA DeliverOK ==
    ASSUME EventsOK, E!Deliver
    PROVE  EventsOK'
<1>. Typed /\ OfItsKind /\ \A d \in Client : ClientOK(d)
  BY DEF EventsOK
<1>1. PICK c \in Client, v \in Nat : c = worker.cur /\ v = worker.val
  BY DEF E!Deliver, Typed, WorkTypes
<1>2. /\ E!Put(c, v) /\ UNCHANGED <<fact, view, writer, queue, subs1, subs2, calls>>
      /\ worker' = [worker EXCEPT !.cur = None, !.val = 0,
                                  !.gone = IF cl[c].st = "leaving" THEN worker.gone \union {c}
                                           ELSE worker.gone]
  BY <1>1 DEF E!Deliver
<1>3. /\ worker' \in WorkTypes /\ worker'.cur = None /\ worker'.pc = worker.pc
      /\ worker'.ev = worker.ev /\ worker'.todo = worker.todo
      /\ worker'.gone = IF cl[c].st = "leaving" THEN worker.gone \union {c} ELSE worker.gone
  BY <1>2 DEF Typed, WorkTypes
<1>4. PICK m : /\ Becomes(c, m) /\ m.st = cl[c].st /\ m.kind = cl[c].kind
               /\ m.view = cl[c].view /\ m.base = cl[c].base /\ m.mixed = cl[c].mixed
               /\ m.late = cl[c].late
               /\ m.st = "on" /\ ~m.lost =>
                     /\ m.chan # <<>> /\ m.chan[Len(m.chan)] = v
                     /\ ~cl[c].lost \/ v = Current(c)
  BY <1>2, PutIs
<1>5. cl' \in [Client -> ClTypes] /\ cl'[c] = m /\ \A d \in Client \ {c} : cl'[d] = cl[d]
  BY <1>4, BecomesIs
<1>6. Typed'
  BY <1>2, <1>3, <1>5 DEF Typed
<1>7. OfItsKind'
  <2>1. \A d \in Client : cl'[d].kind = cl[d].kind
    BY <1>4, <1>5
  <2>. QED BY <1>2, <1>3, <2>1, KindsStay
<1>8. ASSUME NEW d \in Client \ {c} PROVE ClientOK(d)'
  <2>0. d # None /\ worker.cur # d /\ worker'.cur # d /\ (d \in worker'.gone <=> d \in worker.gone)
    BY <1>1, <1>3, EventsAssumption
  <2>1. Stays(d)
    BY <1>2, <1>3, <1>5, <2>0 DEF Stays, Comes1, Comes2, Sent
  <2>2. KeepsPlace(d)
    <3>1. Nothing(d) => Nothing(d)'
      BY <1>2, <1>3, <2>0 DEF Nothing
    <3>2. \A f \in E!Fact : fact'[f] >= fact[f]
      BY <1>2 DEF Typed
    <3>. QED BY <1>2, <1>5, <2>0, <3>1, <3>2 DEF KeepsPlace
  <2>3. SameReviews(d)
    BY <1>2 DEF SameReviews
  <2>. QED BY <1>6, <2>1, <2>2, <2>3, Unconcerned
<1>9. ClientOK(c)'
  <2>0. c # None /\ Registered(c) /\ ~Nothing(c) /\ cl[c].kind \in E!First
    BY <1>1, EventsAssumption DEF Nothing, ClientOK, Registered
  <2>1. Registered(c)'
    <3>1. Blind(c)' <=> Blind(c)
      BY <1>4, <1>5 DEF Blind
    <3>. QED BY <1>2, <1>3, <1>4, <1>5, <2>0, <3>1 DEF Registered
  <2>2. Alone(c)'
    BY <1>2, <1>3, <1>4, <1>5, <2>0 DEF Alone, Sent, ClientOK
  <2>3. Comes1(c) => Comes1(c)'
    BY <1>2, <1>3, <1>4, <1>5 DEF Comes1
  <2>4. Comes2(c) => Comes2(c)'
    BY <1>2, <1>4, <1>5 DEF Comes2
  <2>5. KnowsView(c)'
    BY <1>2, <1>4, <1>5, <2>3 DEF KnowsView, ClientOK
  <2>6. OneReview(c)'
    BY <1>4, <1>5, <2>0 DEF OneReview, E!First
  <2>7. Informed(c)'
    <3>. SUFFICES ASSUME Due(c)' PROVE Comes1(c)' \/ Comes2(c)' \/ Told(c)'
      BY DEF Informed
    <3>1. /\ cl[c].st = "on" /\ cl[c].kind # "comments" /\ ~m.lost /\ ~cl[c].mixed /\ ~cl[c].late
          /\ Current(c)' = Current(c) /\ Current(c) # cl[c].base
      BY <1>2, <1>4, <1>5 DEF Due, Current
    <3>2. Sent(c) = {} /\ Sent(c)' = {}
      BY <1>1, <1>2, <2>0, <3>1 DEF ClientOK, Alone, Sent, E!First
    <3>3. v = Current(c) => Told(c)'
      BY <1>3, <1>4, <1>5, <2>0, <3>1, <3>2 DEF Told, AllFlying, Flying, Newest
    <3>4. ASSUME v # Current(c) PROVE Comes1(c) \/ Comes2(c)
      <4>1. Due(c)
        BY <1>4, <3>1, <3>4 DEF Due
      <4>2. ~Told(c)
        BY <1>1, <3>4 DEF Told, AllFlying
      <4>. QED BY <4>1, <4>2 DEF ClientOK, Informed
    <3>. QED BY <2>3, <2>4, <3>3, <3>4
  <2>. QED BY <2>1, <2>2, <2>5, <2>6, <2>7 DEF ClientOK
<1>. QED BY <1>6, <1>7, <1>8, <1>9 DEF EventsOK

-----------------------------------------------------------------------------
(* Goroutines of the second bus: what one of c does, no other notices.     *)
Others(c) ==
    /\ \A d \in Client \ {c} : cl'[d] = cl[d]
    /\ \A call : call.c # c => (call \in calls' <=> call \in calls)
    /\ UNCHANGED <<fact, view, writer, queue, worker, subs1, subs2>>

LEMMA OthersOK ==
    ASSUME EventsOK, Typed', NEW c \in Client, NEW m, Becomes(c, m), m.kind = cl[c].kind, Others(c),
           \A call \in calls' : \E old \in calls : old.c = call.c /\ old.ev = call.ev,
           ClientOK(c)'
    PROVE  EventsOK'
<1>. Typed /\ OfItsKind /\ \A d \in Client : ClientOK(d)
  BY DEF EventsOK
<1>1. cl' \in [Client -> ClTypes] /\ cl'[c] = m /\ \A d \in Client \ {c} : cl'[d] = cl[d]
  BY BecomesIs
<1>2. OfItsKind'
  <2>1. \A d \in Client : cl'[d].kind = cl[d].kind
    BY <1>1
  <2>2. worker'.pc = "wait" => worker'.cur = None
    BY DEF OfItsKind, Others
  <2>. QED BY <2>1, <2>2, KindsStay DEF Others
<1>3. ASSUME NEW d \in Client \ {c} PROVE ClientOK(d)'
  <2>0. \A call : call.c = d => (call \in calls' <=> call \in calls)
    BY DEF Others
  <2>1. Sent(d)' = Sent(d)
    BY <2>0 DEF Sent
  <2>2. Comes2(d) => Comes2(d)'
    BY <1>1, <2>0 DEF Comes2, Others
  <2>3. Stays(d)
    BY <1>1, <2>1, <2>2 DEF Stays, Others, Comes1
  <2>4. KeepsPlace(d)
    <3>1. Nothing(d) => Nothing(d)'
      BY <2>0 DEF Nothing, Others
    <3>2. \A f \in E!Fact : fact'[f] >= fact[f]
      BY DEF Others, Typed
    <3>. QED BY <1>1, <3>1, <3>2 DEF KeepsPlace, Others
  <2>5. SameReviews(d)
    BY <2>0 DEF SameReviews, Others
  <2>. QED BY <2>3, <2>4, <2>5, Unconcerned
<1>. QED BY <1>2, <1>3 DEF EventsOK

LEMMA AnswerOK ==
    ASSUME EventsOK, NEW call \in calls, E!Answer(call)
    PROVE  EventsOK'
<1>. Typed /\ OfItsKind /\ \A d \in Client : ClientOK(d)
  BY DEF EventsOK
<1>1. PICK c \in Client, v \in Nat : c = call.c /\ v = call.val
  BY DEF Typed, CallTypes
<1>2. /\ E!Put(c, v) /\ call.pc = "send" /\ calls' = calls \ {call} /\ call \in Sent(c)
      /\ UNCHANGED <<fact, view, writer, queue, worker, subs1, subs2>>
  BY <1>1 DEF E!Answer, Sent
<1>4. PICK m : /\ Becomes(c, m) /\ m.st = cl[c].st /\ m.kind = cl[c].kind
               /\ m.view = cl[c].view /\ m.base = cl[c].base /\ m.mixed = cl[c].mixed
               /\ m.late = cl[c].late
               /\ m.st = "on" /\ ~m.lost =>
                     /\ m.chan # <<>> /\ m.chan[Len(m.chan)] = v
                     /\ ~cl[c].lost \/ v = Current(c)
  BY <1>2, PutIs
<1>5. cl' \in [Client -> ClTypes] /\ cl'[c] = m /\ \A d \in Client \ {c} : cl'[d] = cl[d]
  BY <1>4, BecomesIs
<1>6. Typed'
  BY <1>2, <1>5 DEF Typed
<1>7. Others(c)
  BY <1>1, <1>2, <1>5 DEF Others
<1>9. ClientOK(c)'
  <2>0. Registered(c) /\ ~Nothing(c)
    BY <1>1 DEF Nothing, ClientOK
  <2>1. Registered(c)'
    <3>1. Blind(c)' <=> Blind(c)
      BY <1>4, <1>5 DEF Blind
    <3>. QED BY <1>2, <1>4, <1>5, <2>0, <3>1 DEF Registered
  <2>2. Alone(c)'
    BY <1>2, <1>4, <1>5, <2>0 DEF Alone, Sent, ClientOK
  <2>3. Comes1(c) => Comes1(c)'
    BY <1>2, <1>4, <1>5 DEF Comes1
  <2>4. Comes2(c) => Comes2(c)'
    BY <1>2, <1>4, <1>5 DEF Comes2
  <2>5. KnowsView(c)'
    BY <1>2, <1>4, <1>5, <2>3 DEF KnowsView, ClientOK
  <2>6. OneReview(c)'
    <3>1. SameReviews(c)
      BY <1>2 DEF SameReviews
    <3>. QED BY <1>2, <1>4, <1>5, <3>1, ReviewsStay DEF ClientOK
  <2>7. Informed(c)'
    <3>. SUFFICES ASSUME Due(c)' PROVE Comes1(c)' \/ Comes2(c)' \/ Told(c)'
      BY DEF Informed
    <3>1. /\ cl[c].st = "on" /\ cl[c].kind # "comments" /\ ~m.lost /\ ~cl[c].mixed /\ ~cl[c].late
          /\ Current(c)' = Current(c) /\ Current(c) # cl[c].base
      BY <1>2, <1>4, <1>5 DEF Due, Current
    <3>2. Newest(c)' = v
      BY <1>4, <1>5, <3>1 DEF Newest
    <3>3. CASE cl[c].kind = "review"
      <4>1. v = Current(c) /\ \A x \in Sent(c) : x.val = Current(c)
        BY <1>1, <1>2, <3>1, <3>3 DEF ClientOK, OneReview, Sent
      <4>2. worker.cur # c
        BY <2>0, <3>3 DEF Registered, E!First
      <4>3. Sent(c)' \subseteq Sent(c)
        BY <1>2 DEF Sent
      <4>. QED BY <1>2, <3>1, <3>2, <4>1, <4>2, <4>3 DEF Told, AllFlying
    <3>4. CASE cl[c].kind # "review"
      <4>1. worker.cur # c /\ Sent(c) = {call}
        BY <1>2, <3>1, <3>4 DEF ClientOK, Alone
      <4>2. Sent(c)' = {}
        BY <1>2, <4>1 DEF Sent
      <4>3. v = Current(c) => Told(c)'
        BY <1>2, <3>1, <3>2, <4>1, <4>2 DEF Told, AllFlying
      <4>4. ASSUME v # Current(c) PROVE Comes1(c) \/ Comes2(c)
        <5>1. Due(c)
          BY <1>4, <3>1, <4>4 DEF Due
        <5>2. ~Told(c)
          BY <1>1, <1>2, <4>4 DEF Told, AllFlying
        <5>. QED BY <5>1, <5>2 DEF ClientOK, Informed
      <4>. QED BY <2>3, <2>4, <4>3, <4>4
    <3>. QED BY <3>3, <3>4
  <2>. QED BY <2>1, <2>2, <2>5, <2>6, <2>7 DEF ClientOK
<1>10. \A x \in calls' : \E old \in calls : old.c = x.c /\ old.ev = x.ev
  BY <1>2
<1>. QED BY <1>4, <1>6, <1>7, <1>9, <1>10, OthersOK

LEMMA IgnoredOK ==
    ASSUME EventsOK, NEW call \in calls, call.pc = "start", ~E!Hears2(call.c, call.ev),
           calls' = calls \ {call},
           UNCHANGED <<fact, view, writer, queue, worker, subs1, subs2, cl>>
    PROVE  EventsOK'
<1>. Typed /\ OfItsKind /\ \A d \in Client : ClientOK(d)
  BY DEF EventsOK
<1>1. Typed'
  BY DEF Typed
<1>2. OfItsKind'
  BY DEF OfItsKind
<1>3. ASSUME NEW d \in Client PROVE ClientOK(d)'
  <2>1. Comes2(d) => Comes2(d)'
    <3>1. cl[d].kind \in KindsKnown
      BY DEF Typed, ClTypes
    <3>2. call.c = d => ~Hear2(cl[d].kind, cl[d].view, call.ev)
      BY <3>1, HearsIs
    <3>. QED BY <3>2 DEF Comes2
  <2>2. Stays(d)
    BY <2>1 DEF Stays, Comes1, Sent
  <2>3. KeepsPlace(d)
    <3>1. Nothing(d) => Nothing(d)'
      BY DEF Nothing
    <3>. QED BY <3>1 DEF KeepsPlace, Typed
  <2>4. SameReviews(d)
    BY DEF SameReviews
  <2>. QED BY <1>1, <2>2, <2>3, <2>4, Unconcerned
<1>. QED BY <1>1, <1>2, <1>3 DEF EventsOK

LEMMA UnreadOK ==
    ASSUME EventsOK, NEW call \in calls, call.pc = "start", cl[call.c].kind # "review",
           calls' = calls \ {call}, cl' = E!Lost({call.c}),
           UNCHANGED <<fact, view, writer, queue, worker, subs1, subs2>>
    PROVE  EventsOK'
<1>. Typed /\ OfItsKind /\ \A d \in Client : ClientOK(d)
  BY DEF EventsOK
<1>1. PICK c \in Client : c = call.c
  BY DEF Typed, CallTypes
<1>. DEFINE l == cl[c]
<1>2. PICK m : m = [l EXCEPT !.lost = TRUE]
  OBVIOUS
<1>3. /\ m \in ClTypes /\ m.lost /\ m.st = l.st /\ m.kind = l.kind /\ m.view = l.view
      /\ m.base = l.base /\ m.mixed = l.mixed /\ m.late = l.late
  BY <1>2 DEF Typed, ClTypes
<1>4. Becomes(c, m)
  <2>1. cl' = [cl EXCEPT ![c] = m]
    BY <1>1, <1>2 DEF E!Lost, Typed
  <2>. QED BY <1>3, <2>1 DEF Becomes
<1>5. cl' \in [Client -> ClTypes] /\ cl'[c] = m /\ \A d \in Client \ {c} : cl'[d] = cl[d]
  BY <1>4, BecomesIs
<1>6. Typed'
  BY <1>5 DEF Typed
<1>7. Others(c)
  BY <1>1, <1>5 DEF Others
<1>8. ClientOK(c)'
  <2>0. Registered(c) /\ ~Nothing(c)
    BY <1>1 DEF Nothing, ClientOK
  <2>1. Registered(c)'
    <3>1. Blind(c)' <=> Blind(c)
      BY <1>3, <1>5 DEF Blind
    <3>. QED BY <1>3, <1>5, <2>0, <3>1 DEF Registered
  <2>2. Alone(c)'
    BY <1>3, <1>5 DEF Alone, Sent, ClientOK
  <2>3. KnowsView(c)'
    <3>1. Comes1(c) => Comes1(c)'
      BY <1>3, <1>5 DEF Comes1
    <3>. QED BY <1>3, <1>5, <3>1 DEF KnowsView, ClientOK
  <2>4. OneReview(c)' /\ Informed(c)'
    BY <1>1, <1>3, <1>5 DEF OneReview, Informed, Due
  <2>. QED BY <2>1, <2>2, <2>3, <2>4 DEF ClientOK
<1>9. \A x \in calls' : \E old \in calls : old.c = x.c /\ old.ev = x.ev
  OBVIOUS
<1>. QED BY <1>3, <1>4, <1>6, <1>7, <1>8, <1>9, OthersOK

LEMMA LoadedOK ==
    ASSUME EventsOK, NEW call \in calls, call.pc = "start", E!Hears2(call.c, call.ev),
           calls' = (calls \ {call}) \union
                       {[call EXCEPT !.pc = "send", !.val = E!Value(call.c, call.ev)]},
           cl' = [cl EXCEPT ![call.c] = E!Mix(call.c)],
           UNCHANGED <<fact, view, writer, queue, worker, subs1, subs2>>
    PROVE  EventsOK'
<1>. Typed /\ OfItsKind /\ \A d \in Client : ClientOK(d)
  BY DEF EventsOK
<1>1. PICK c \in Client : c = call.c
  BY DEF Typed, CallTypes
<1>. DEFINE l == cl[c]
<1>2. /\ call \in CallTypes(call.n) /\ l \in ClTypes /\ l.kind \in DOMAIN E!Second
      /\ fact[E!About[l.kind]] \in Nat
  BY <1>1, AboutIs DEF Typed, ClTypes, OfItsKind
<1>3. PICK v \in Nat : v = E!Value(c, call.ev)
  BY <1>2 DEF E!Value, CallTypes, EvTypes
<1>4. PICK new : new = [call EXCEPT !.pc = "send", !.val = v]
  OBVIOUS
<1>5. /\ new \in CallTypes(new.n) /\ new.c = c /\ new.ev = call.ev /\ new.pc = "send" /\ new.val = v
      /\ calls' = (calls \ {call}) \union {new}
  BY <1>1, <1>2, <1>3, <1>4 DEF CallTypes
<1>6. PICK x \in BOOLEAN : x = E!Delivering(c)
  BY DEF E!Delivering
<1>7. PICK m : /\ Becomes(c, m) /\ m.st = l.st /\ m.kind = l.kind /\ m.view = l.view
               /\ m.base = l.base /\ m.late = l.late
               /\ l.kind = "review" => m = l
               /\ l.kind # "review" => m.mixed = x
  <2>1. CASE l.kind = "review"
    <3>1. E!Mix(c) = l
      BY <2>1 DEF E!Mix
    <3>2. Becomes(c, l)
      BY <1>1, <1>2, <3>1 DEF Becomes
    <3>. QED BY <2>1, <3>2
  <2>2. CASE l.kind # "review"
    <3>1. PICK m : m = [l EXCEPT !.mixed = x]
      OBVIOUS
    <3>2. /\ m \in ClTypes /\ m.mixed = x /\ m.st = l.st /\ m.kind = l.kind /\ m.view = l.view
          /\ m.base = l.base /\ m.late = l.late
      BY <1>2, <3>1 DEF ClTypes
    <3>3. E!Mix(c) = m
      BY <1>6, <2>2, <3>1 DEF E!Mix
    <3>4. Becomes(c, m)
      BY <1>1, <3>2, <3>3 DEF Becomes
    <3>. QED BY <2>2, <3>2, <3>4
  <2>. QED BY <2>1, <2>2
<1>8. cl' \in [Client -> ClTypes] /\ cl'[c] = m /\ \A d \in Client \ {c} : cl'[d] = cl[d]
  BY <1>7, BecomesIs
<1>9. Typed'
  BY <1>5, <1>8 DEF Typed
<1>10. Others(c)
  BY <1>1, <1>5, <1>8 DEF Others
<1>11. ClientOK(c)'
  <2>0. Registered(c) /\ ~Nothing(c)
    BY <1>1 DEF Nothing, ClientOK
  <2>1. Registered(c)'
    <3>1. Blind(c)' <=> Blind(c)
      BY <1>7, <1>8 DEF Blind
    <3>. QED BY <1>7, <1>8, <2>0, <3>1 DEF Registered
  <2>2. Comes1(c) => Comes1(c)'
    BY <1>7, <1>8 DEF Comes1
  <2>3. KnowsView(c)'
    BY <1>7, <1>8, <2>2 DEF KnowsView, ClientOK
  <2>4. Current(c)' = Current(c) /\ new \in Sent(c)'
    BY <1>5, <1>7, <1>8 DEF Current, Sent
  <2>5. CASE l.kind = "review"
    <3>1. SameReviews(c)
      <4>1. v = call.ev.val
        BY <1>3, <2>5 DEF E!Value
      <4>. QED BY <1>1, <1>5, <4>1 DEF SameReviews
    <3>2. OneReview(c)'
      BY <1>7, <1>8, <2>5, <3>1, ReviewsStay DEF ClientOK
    <3>3. Alone(c)'
      BY <1>7, <1>8, <2>5 DEF Alone
    <3>4. Informed(c)'
      <4>. SUFFICES ASSUME Due(c)' PROVE Told(c)'
        BY DEF Informed
      <4>1. \A y \in Sent(c)' : y.val = Current(c)'
        BY <1>7, <1>8, <2>5, <3>2 DEF Due, OneReview, Sent
      <4>2. worker.cur # c
        BY <2>0, <2>5 DEF Registered, E!First
      <4>. QED BY <2>4, <4>1, <4>2 DEF Told, AllFlying, Flying
    <3>. QED BY <2>1, <2>3, <3>2, <3>3, <3>4 DEF ClientOK
  <2>6. CASE l.kind # "review"
    <3>1. ~x => worker.cur # c /\ Sent(c)' = {new}
      BY <1>5, <1>6 DEF E!Delivering, Sent
    <3>2. Alone(c)'
      BY <1>7, <1>8, <2>6, <3>1 DEF Alone
    <3>3. OneReview(c)'
      BY <1>7, <1>8, <2>6 DEF OneReview
    <3>4. Informed(c)'
      <4>. SUFFICES ASSUME Due(c)' PROVE Told(c)'
        BY DEF Informed
      <4>1. ~x
        BY <1>7, <1>8, <2>6 DEF Due
      <4>2. v = Current(c)
        BY <1>3, <2>6 DEF E!Value, Current
      <4>. QED BY <1>5, <2>4, <3>1, <4>1, <4>2 DEF Told, AllFlying, Flying
    <3>. QED BY <2>1, <2>3, <3>2, <3>3, <3>4 DEF ClientOK
  <2>. QED BY <2>5, <2>6
<1>12. \A y \in calls' : \E old \in calls : old.c = y.c /\ old.ev = y.ev
  BY <1>1, <1>5
<1>. QED BY <1>7, <1>9, <1>10, <1>11, <1>12, OthersOK

LEMMA HandleOK ==
    ASSUME EventsOK, NEW call \in calls, E!Handle(call)
    PROVE  EventsOK'
<1>1. call.pc = "start" /\ UNCHANGED <<fact, view, writer, queue, worker, subs1, subs2>>
  BY DEF E!Handle
<1>2. CASE ~E!Hears2(call.c, call.ev) /\ calls' = calls \ {call} /\ UNCHANGED cl
  BY <1>1, <1>2, IgnoredOK
<1>3. CASE /\ E!Hears2(call.c, call.ev)
           /\ calls' = (calls \ {call}) \union
                          {[call EXCEPT !.pc = "send", !.val = E!Value(call.c, call.ev)]}
           /\ cl' = [cl EXCEPT ![call.c] = E!Mix(call.c)]
  BY <1>1, <1>3, LoadedOK
<1>4. CASE cl[call.c].kind # "review" /\ calls' = calls \ {call} /\ cl' = E!Lost({call.c})
  BY <1>1, <1>4, UnreadOK
<1>. QED BY <1>2, <1>3, <1>4 DEF E!Handle

-----------------------------------------------------------------------------
(* All of it.                                                              *)

LEMMA StartsOK ==
    ASSUME E!Init
    PROVE  EventsOK
<1>1. Typed
  <2>1. \A T : <<>> \in Seq(T)
    OBVIOUS
  <2>. QED BY <2>1, NothingIs DEF E!Init, Typed
<1>2. OfItsKind
  BY NothingIs DEF E!Init, OfItsKind
<1>3. ASSUME NEW c \in Client PROVE ClientOK(c)
  <2>0. c # None /\ cl[c] = E!Off
    BY EventsAssumption DEF E!Init
  <2>1. Nothing(c)
    BY <2>0, NothingIs DEF E!Init, Nothing
  <2>2. E!Off.base <= fact[E!About[E!Off.kind]]
    <3>1. E!About[E!Off.kind] \in E!Fact
      BY NothingIs, AboutIs DEF KindsKnown
    <3>2. fact[E!About[E!Off.kind]] \in Nat
      BY <1>1, <3>1 DEF Typed
    <3>. QED BY <3>2, NothingIs
  <2>3. Registered(c)
    BY <2>0, <2>1, <2>2, NothingIs DEF Registered, Nothing
  <2>4. Alone(c) /\ KnowsView(c) /\ OneReview(c) /\ Informed(c)
    BY <2>0, <2>1, NothingIs DEF Alone, Sent, Nothing, KnowsView, OneReview, Informed,
                                 Due
  <2>. QED BY <2>3, <2>4 DEF ClientOK
<1>. QED BY <1>1, <1>2, <1>3 DEF EventsOK

LEMMA StepOK ==
    ASSUME EventsOK, [E!Next]_E!vars
    PROVE  EventsOK'
<1>1. ASSUME NEW w \in Writer, E!ChangeWorkspace(w) PROVE EventsOK'
  <2>1. PICK f, evs : E!Write(w, f, evs) /\ Tells(f, evs)
    BY <1>1, Changes DEF EventsOK
  <2>. QED BY <2>1, WriteOK
<1>2. ASSUME NEW w \in Writer, E!Publish(w) PROVE EventsOK'
  BY <1>2, TopicsOK, UserEventOK, PubOK, SpawnOK DEF E!Publish
<1>3. ASSUME E!Work PROVE EventsOK'
  BY <1>3, TakeOK, CopyOK, CallOK, DeliverOK, UnregOK DEF E!Work
<1>4. ASSUME E!Goroutine PROVE EventsOK'
  BY <1>4, HandleOK, AnswerOK DEF E!Goroutine
<1>5. ASSUME E!Fatal PROVE EventsOK'
  BY <1>5, FatalOK
<1>6. ASSUME NEW c \in Client, NEW k \in Kinds, E!Subscribe(c, k) PROVE EventsOK'
  BY <1>6, SubscribeOK
<1>7. ASSUME NEW c \in Client, E!SubscribeUser(c) \/ E!Sub(c) PROVE EventsOK'
  BY <1>5, <1>7, SubscribeUserOK, SubOK
<1>8. ASSUME NEW c \in Client, E!Receive(c) \/ E!Leave(c) PROVE EventsOK'
  BY <1>8, ReceiveOK, LeaveOK
<1>9. ASSUME NEW c \in Client, E!Leaving(c) PROVE EventsOK'
  BY <1>5, <1>9, CancelOK, GoneOK DEF E!Leaving
<1>10. ASSUME UNCHANGED E!vars PROVE EventsOK'
  <2>0. UNCHANGED <<fact, view, writer, queue, worker, subs1, subs2, calls, cl>>
    BY <1>10 DEF E!vars, E!memory
  <2>1. Typed' /\ OfItsKind'
    BY <2>0 DEF EventsOK, Typed, OfItsKind
  <2>2. ASSUME NEW c \in Client PROVE ClientOK(c)'
    <3>1. Stays(c) /\ SameReviews(c)
      BY <2>0 DEF Stays, Comes1, Comes2, Sent, SameReviews
    <3>2. Nothing(c) => Nothing(c)'
      BY <2>0 DEF Nothing
    <3>3. KeepsPlace(c)
      BY <2>0, <3>2 DEF KeepsPlace, EventsOK, Typed
    <3>. QED BY <2>1, <3>1, <3>3, Unconcerned DEF EventsOK
  <2>. QED BY <2>1, <2>2 DEF EventsOK
<1>. QED BY <1>1, <1>2, <1>3, <1>4, <1>6, <1>7, <1>8, <1>9, <1>10 DEF E!Next

(* Nothing is on its way when everything has been delivered.               *)
LEMMA ToldWhenIdle ==
    ASSUME EventsOK
    PROVE  E!ShownIsCurrent
<1>. SUFFICES ASSUME NEW c \in Client, E!Settled(c), cl[c].kind # "comments" PROVE E!Fresh(c)
  BY DEF E!ShownIsCurrent
<1>. SUFFICES ASSUME Current(c) # cl[c].base PROVE cl[c].shown = Current(c)
  BY DEF E!Fresh, Current
<1>0. /\ queue = <<>> /\ worker = E!NoWork /\ calls = {} /\ c # None
      /\ \A w \in Writer : writer[w] = E!NoWriter
  BY EventsAssumption DEF E!Settled, E!Idle
<1>1. Due(c)
  BY DEF E!Settled, Due
<1>2. ~Comes1(c)
  BY <1>0, NothingIs DEF Comes1, Owes1
<1>3. ~Comes2(c) /\ ~Flying(c)
  BY <1>0, NothingIs DEF Comes2, Owes2, Flying, Sent
<1>4. Told(c)
  BY <1>1, <1>2, <1>3 DEF EventsOK, ClientOK, Informed
<1>. QED BY <1>3, <1>4 DEF Told, Newest, E!Settled

(* Whatever moves, events step as Events says or not at all.               *)
LEMMA EventsStep ==
    ASSUME [BothNext]_<<moves, vars, others>>
    PROVE  [E!Next]_E!vars
<1>1. CASE UNCHANGED others
  BY <1>1 DEF others, E!vars, E!memory, E!counts
<1>2. CASE UNCHANGED <<moves, vars, others>>
  BY <1>1, <1>2
<1>. QED BY <1>1, <1>2 DEF BothNext

(* Types, subscriptions, and what is on its way to every client, whatever  *)
(* moves.                                                                  *)
THEOREM EventsKnown == BothSpec => []EventsOK
<1>1. BothInit => EventsOK
  BY StartsOK DEF BothInit
<1>2. EventsOK /\ [BothNext]_<<moves, vars, others>> => EventsOK'
  BY EventsStep, StepOK
<1>. QED BY <1>1, <1>2, PTL DEF BothSpec

(* When everything has been delivered a client shows the newest version of *)
(* what it has subscribed to, unless that was dropped, overtaken, or the   *)
(* draft moved while it subscribed: whatever was published, called, read   *)
(* or failed, in whatever order.                                           *)
THEOREM ToldOfTheNewest == BothSpec => []ShownIsCurrent
<1>1. EventsOK => ShownIsCurrent
  BY ToldWhenIdle DEF ShownIsCurrent
<1>. QED BY <1>1, EventsKnown, PTL
=============================================================================
