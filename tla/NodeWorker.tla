------------------------------ MODULE NodeWorker ------------------------------
(***************************************************************************)
(* The node's end of node control: createNodeControlWorker                 *)
(* (src/node-control.js).  Commands of one session run one after another,  *)
(* commands of none at once; a "session.end" has a lane of its own so that *)
(* it overtakes the work it is to stop.  Finished commands are remembered, *)
(* for a redelivery, and their results queued for the main in order.       *)
(*                                                                         *)
(* The worker is a record of its Maps; each function is an operator from   *)
(* the record before to the record after.                                  *)
(***************************************************************************)
EXTENDS Integers, Sequences, FiniteSets, SequencesExt

CONSTANTS
    WorkerIds,      \* the command ids
    WorkerSessions, \* the sessions
    MaxWork,        \* MAX_IN_FLIGHT_COMMANDS
    MaxEnds,        \* MAX_IN_FLIGHT_REVOCATIONS
    CacheSize,      \* completed commands remembered (100)
    Oversize        \* may a result exceed what the result route reads?

ASSUME WorkerAssumption ==
    /\ MaxWork \in Nat \ {0} /\ MaxEnds \in Nat \ {0} /\ CacheSize \in Nat
    /\ Oversize \in BOOLEAN

VARIABLES
    worker,    \* the worker's Maps, see Worker
    nodeLate   \* the commands whose expiresAt the node's clock has passed

\* "ok" and "big" carry a result, big ones between the limits of the two ends;
\* "failed" and "rejected" an error with and without nodeSequenceConsumed.
Outcomes == {"ok", "big", "failed", "rejected", "expired"}
Envelope == [id : WorkerIds, outcome : Outcomes]

Worker ==
    [inFlight  : SUBSET WorkerIds,              \* inFlight
     tails     : [WorkerSessions -> Seq(WorkerIds)],  \* sessionTails, unrolled
     running   : SUBSET WorkerIds,              \* inside execute()
     effect    : SUBSET WorkerIds,              \* running and took effect
     completed : Seq(Envelope),                 \* completed, oldest first
     results   : Seq(Envelope)]                 \* resultQueue

FreshWorker ==
    [inFlight |-> {}, tails |-> [s \in WorkerSessions |-> <<>>], running |-> {},
     effect |-> {}, completed |-> <<>>, results |-> <<>>]

WorkerInit == worker = FreshWorker /\ nodeLate = {}

Ids_(envelopes) == {envelopes[i].id : i \in DOMAIN envelopes}

\* enqueueResult
ResultQueued(w, e) ==
    IF e.id \in Ids_(w.results) THEN w ELSE [w EXCEPT !.results = Append(@, e)]

\* rememberCompleted
Remembered(w, e) ==
    LET all == Append(w.completed, e)
    IN  [w EXCEPT !.completed = IF Len(all) <= CacheSize THEN all ELSE Tail(all)]

Cached(w, c) == CHOOSE e \in Range(w.completed) : e.id = c

\* A command of a session waits for its predecessors, a revocation never.
Chained(cmd) == cmd.kind = "work" /\ cmd.session \in WorkerSessions

\* The stops that are executing, and whether their lane is full.
EndsIn(w, cmds) == {c \in w.inFlight : cmds[c].kind = "end"}
EndsFull(w, cmds) == Cardinality(EndsIn(w, cmds)) >= MaxEnds

\* scheduleCommand; it throws when there is no room for another stop.
Scheduled(w, c, cmds) ==
    CASE c \in Ids_(w.completed) -> ResultQueued(w, Cached(w, c))
      [] c \notin Ids_(w.completed) /\
         (c \in w.inFlight \/ (cmds[c].kind = "end" /\ EndsFull(w, cmds))) -> w
      [] OTHER ->
         [w EXCEPT !.inFlight = @ \cup {c},
                   !.tails = IF Chained(cmds[c])
                             THEN [w.tails EXCEPT ![cmds[c].session] = Append(@, c)]
                             ELSE @]

BugReadyUnchained(w, c, cmd) == c \in w.inFlight \ w.running   \* no sessionTails

\* executeCommand may begin: its predecessors in the session have settled.
Ready(w, c, cmd) ==
    /\ c \in w.inFlight \ w.running
    /\ Chained(cmd) => c = Head(w.tails[cmd.session])

Started(w, c, effect) ==
    [w EXCEPT !.running = @ \cup {c},
              !.effect = IF effect THEN @ \cup {c} ELSE @]

\* executeCommand settles with this outcome.
Finished(w, c, cmd, outcome) ==
    LET e == [id |-> c, outcome |-> outcome]
        out == [w EXCEPT !.inFlight = @ \ {c}, !.running = @ \ {c},
                         !.effect = @ \ {c},
                         !.tails = IF Chained(cmd)
                                   THEN [w.tails EXCEPT ![cmd.session] = Tail(@)]
                                   ELSE @]
    IN  ResultQueued(Remembered(out, e), e)

\* What execute() may come to: only an operation that had no effect is rejected
\* without consuming its sequence number, and one that outlives its expiry fails.
\* A big result is a screenshot's; a session.end returns {ok: true} and no more.
MayFinish(w, c, cmd, outcome) ==
    /\ c \in w.running
    /\ outcome \in {"failed"} \cup (IF c \in w.effect THEN {"ok"} ELSE {"rejected"})
                   \cup (IF c \in w.effect /\ cmd.kind = "work" /\ Oversize
                          THEN {"big"} ELSE {})
    /\ c \in nodeLate => outcome \in {"failed", "rejected"}

BugAcknowledgedKept(w, e) == w    \* the head stays although it was accepted

\* resultLoop: an accepted result leaves the queue, anything else is retried.
Acknowledged(w, e) ==
    IF w.results # <<>> /\ Head(w.results) = e
    THEN [w EXCEPT !.results = Tail(@)] ELSE w

\* The two bounds of pollLoop: no poll while the revocation lane is full, and
\* none for ordinary work while every ordinary slot is taken.
MayPoll(w, cmds) == ~EndsFull(w, cmds)

RevocationsOnly(w, cmds) ==
    Cardinality(w.inFlight \ EndsIn(w, cmds)) >= MaxWork
=============================================================================
