------------------------------ MODULE NodeBroker ------------------------------
(***************************************************************************)
(* The main's end of node control: NodeControlBroker (src/node-control.js), *)
(* for one paired node.  Commands wait in a bounded queue, or go at once to *)
(* the node's parked long poll; a caller waits for the result under a      *)
(* timer.  "session.end" revokes a computer-use lease: it goes to the front *)
(* of the queue, is exempt from shedding, and stays queued when its        *)
(* caller's timer has given up.                                            *)
(*                                                                         *)
(* The broker is a record of its Maps; each method is an operator from the *)
(* record before to the record after.  Authentication binds the node's id  *)
(* before any method is called, so one node and no mismatched id.          *)
(***************************************************************************)
EXTENDS Integers, Sequences, FiniteSets, SequencesExt

CONSTANTS
    MaxCmds,    \* bound: how many commands are ever dispatched
    MaxQueue,   \* MAX_QUEUED_COMMANDS
    Sessions,   \* computer-use sessions
    NoSession   \* a command of no session

ASSUME BrokerAssumption ==
    /\ MaxCmds \in Nat \ {0} /\ MaxQueue \in Nat \ {0}
    /\ NoSession \notin Sessions

Ids == 1 .. MaxCmds       \* in order of dispatch: ids are random and unique

VARIABLES
    broker,   \* the broker's Maps, see Broker
    nextId,   \* the next unused command id
    late      \* the commands whose expiresAt the main's clock has passed

Command == [kind : {"work", "end"}, session : Sessions \cup {NoSession}]
NoCommand == [kind |-> "none", session |-> NoSession]

\* What a caller's promise was settled with.  "never" is a rejection without
\* nodeSequenceConsumed, "maybe" one with it; "gone" the rejection of removeNode
\* and of a stopping main, which leave no lease to use a sequence number of.
Answers == {"none", "ok", "never", "maybe", "gone"}

Broker ==
    [cmd     : [Ids -> Command \cup {NoCommand}],
     pend    : [Ids -> {"new", "waiting", "delivered", "gone"}],
     told    : [Ids -> Answers],
     queue   : Seq(Ids),
     settled : SUBSET Ids,
     parked  : {"none", "any", "ends"},  \* the held poll and what it accepts
     known   : BOOLEAN]                  \* polled within onlineMs

FreshBroker(b) ==
    [b EXCEPT !.queue = <<>>, !.settled = {}, !.parked = "none", !.known = FALSE]

BrokerInit ==
    /\ nextId = 1 /\ late = {}
    /\ broker = [cmd |-> [c \in Ids |-> NoCommand],
                 pend |-> [c \in Ids |-> "new"], told |-> [c \in Ids |-> "none"],
                 queue |-> <<>>, settled |-> {}, parked |-> "none", known |-> FALSE]

IsEnd(b, c) == b.cmd[c].kind = "end"
Pending(b) == {c \in Ids : b.pend[c] \in {"waiting", "delivered"}}

(***************************************************************************)
(* Settling callers                                                        *)
(***************************************************************************)

\* The pending commands in the domain of f are settled as f says.
Answered(b, f) ==
    [b EXCEPT !.pend = [c \in Ids |-> IF c \in DOMAIN f THEN "gone" ELSE @[c]],
              !.told = [c \in Ids |-> IF c \in DOMAIN f THEN f[c] ELSE @[c]],
              !.settled = @ \cup DOMAIN f]

\* A queue less the members of S, in order: what Array.filter leaves of it.
Without(q, S) ==
    LET kept[i \in 0 .. Len(q)] ==
            IF i = 0 THEN <<>>
            ELSE IF q[i] \in S THEN kept[i - 1] ELSE Append(kept[i - 1], q[i])
    IN  kept[Len(q)]

\* _removeQueued
Unqueued(b, S) == [b EXCEPT !.queue = Without(@, S)]

Never(b, S) == [c \in S \cap Pending(b) |-> "never"]

BugHonestNever(b, S) == Never(b, S)   \* the delivered flag is not looked at

\* A rejection says whether the node may have had the command.
Honest(b, S) == [c \in S \cap Pending(b) |->
                    IF b.pend[c] = "delivered" THEN "maybe" ELSE "never"]

\* _rejectCommand without keepQueued
Rejected(b, f) == Unqueued(Answered(b, f), DOMAIN f)

(***************************************************************************)
(* Methods                                                                 *)
(***************************************************************************)
Ordinary(b) == {i \in DOMAIN b.queue : ~IsEnd(b, b.queue[i])}

BugVictimOldest(b) == Head(b.queue)   \* what is first goes, whatever it is

\* Under pressure ordinary work is shed, oldest first, before any revocation.
Victim(b) == IF Ordinary(b) = {} THEN b.queue[Len(b.queue)]
             ELSE b.queue[Min(Ordinary(b))]

BugShedLate(b) ==   \* an off-by-one in the bound
    IF Len(b.queue) <= MaxQueue + 1 THEN b
    ELSE Unqueued(Answered(b, Never(b, {Victim(b)})), {Victim(b)})

Shed(b) ==
    IF Len(b.queue) <= MaxQueue THEN b
    ELSE Unqueued(Answered(b, Never(b, {Victim(b)})), {Victim(b)})

Accepts(parked, cmd) == parked = "any" \/ (parked = "ends" /\ cmd.kind = "end")

\* dispatch, once the node is online and advertises the operation
Dispatched(b, c, cmd) ==
    LET new == [b EXCEPT !.cmd[c] = cmd, !.pend[c] = "waiting"]
    IN  IF Accepts(b.parked, cmd)
        THEN [new EXCEPT !.pend[c] = "delivered", !.parked = "none"]
        ELSE Shed([new EXCEPT !.queue = IF cmd.kind = "end" THEN <<c>> \o @
                                        ELSE Append(@, c)])

BugRetainedNot(b, c) == Unqueued(b, {c})   \* a revocation dies with its caller

\* _retainRevocation
Retained(b, c) ==
    IF Contains(b.queue, c) THEN b ELSE Shed([b EXCEPT !.queue = <<c>> \o @])

\* The caller's timer fires.
TimedOut(b, c) ==
    LET kept == IF IsEnd(b, c) THEN Retained(b, c) ELSE Unqueued(b, {c})
    IN  Answered(kept, Honest(b, {c}))

\* poll: the scan drops what expired and takes the first command this poll may
\* carry; finding none it parks, replacing an older parked poll.
Fits(b, only) == {i \in DOMAIN b.queue : /\ b.queue[i] \notin late
                                         /\ only => IsEnd(b, b.queue[i])}
Found(b, only) == Fits(b, only) # {}
Taken(b, only) == b.queue[Min(Fits(b, only))]
Expired(b, only) ==
    {b.queue[i] : i \in {j \in DOMAIN b.queue :
                            /\ b.queue[j] \in late
                            /\ Found(b, only) => j < Min(Fits(b, only))}}

BugHandedOverKept(b, c) ==   \* the command stays queued until its result comes
    [b EXCEPT !.pend[c] = IF @ = "waiting" THEN "delivered" ELSE @]

HandedOver(b, c) ==
    [Unqueued(b, {c}) EXCEPT !.pend[c] = IF @ = "waiting" THEN "delivered" ELSE @]

Polled(b, only) ==
    LET clean == Unqueued(Answered(b, Never(b, Expired(b, only))), Expired(b, only))
        seen == [clean EXCEPT !.known = TRUE]
    IN  IF Found(b, only)
        THEN HandedOver(seen, Taken(b, only))
        ELSE [seen EXCEPT !.parked = IF only THEN "ends" ELSE "any"]

\* _pruneSettled: a settled command is forgotten once the revocation TTL is
\* over, which is no earlier than its own expiry.
Pruned(b) == [b EXCEPT !.settled = @ \ late]

\* How deliver settles the caller for each envelope of the worker.
Said(outcome) ==
    CASE outcome \in {"ok", "big"} -> "ok"
      [] outcome = "failed" -> "maybe"
      [] outcome \in {"rejected", "expired"} -> "never"

\* deliver: settles the caller, or takes a settled command off the queue.
Delivered(b, c, outcome) ==
    IF c \in Pending(b) THEN Rejected(b, [x \in {c} |-> Said(outcome)])
    ELSE IF c \in b.settled THEN Unqueued(b, {c})
    ELSE b

\* cancelSession
OfSession(b, s) == {c \in Pending(b) : b.cmd[c].session = s}
Cancelled(b, s) == Rejected(b, Honest(b, OfSession(b, s)))

\* removeNode
Removed(b) ==
    [Rejected(b, [c \in Pending(b) |-> "gone"]) EXCEPT
        !.queue = <<>>, !.parked = "none", !.known = FALSE]

\* close, or the end of the process: every promise is gone with it.
Closed(b) == FreshBroker(Rejected(b, [c \in Pending(b) |-> "gone"]))
=============================================================================
