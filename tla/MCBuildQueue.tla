---------------------------- MODULE MCBuildQueue ----------------------------
(***************************************************************************)
(* Small instances of BuildQueue and of Events, side by side: the two      *)
(* share no state here, and moves, chosen at the start, says which of them *)
(* takes all the steps.                                                    *)
(***************************************************************************)
EXTENDS BuildQueue, TLC

CONSTANTS User, Client, Of, Kinds, View, Writer, None, QueueCap, ChanCap,
          MaxWrites, MaxConnects, MaxFaults2

VARIABLES moves, fact, view, writer, queue, worker, subs1, subs2, calls, cl,
          writes, connects, faults2

E == INSTANCE Events WITH MaxFaults <- MaxFaults2, faults <- faults2

others == <<fact, view, writer, queue, worker, subs1, subs2, calls, cl, writes,
            connects, faults2>>

ASSUME EventsAssumption ==
    /\ Of \in [Client -> User] /\ None \notin View \union Client
    /\ Kinds \subseteq {"workspace", "diffs", "comments", "review"}
    /\ {QueueCap, ChanCap} \subseteq Nat \ {0}
    /\ {MaxWrites, MaxConnects, MaxFaults2} \subseteq Nat

(* While clients move the queue is an empty one of SQS, of which no action *)
(* that Fairness is about is enabled; at first none of Events' is.         *)
BothInit ==
    /\ moves \in {"builds", "events"} /\ Init /\ E!Init
    /\ moves = "events" => mode = "sqs"

BothNext ==
    \/ moves = "builds" /\ Next /\ UNCHANGED <<moves, others>>
    \/ moves = "events" /\ E!Next /\ UNCHANGED <<moves, vars>>

BothSpec == BothInit /\ [][BothNext]_<<moves, vars, others>> /\ Fairness /\ E!Fairness

(* The properties of Events, stated there.                                 *)
ShownIsCurrent  == E!ShownIsCurrent
BusesMoveOn     == E!BusesMoveOn
LeftIsForgotten == E!LeftIsForgotten

(* One user has all the connections.                                       *)
MCOf == [c \in Client |-> CHOOSE u \in User : TRUE]

Symmetry == Permutations(Writer) \union Permutations(View)
=============================================================================
