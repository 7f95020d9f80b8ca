------------------------------ MODULE NodeControl ------------------------------
(***************************************************************************)
(* A main and a paired node: the broker, the worker, the HTTP between them *)
(* and the main's computer-use sessions (abortSession and ensureNodeLease  *)
(* in src/integrations/computer-use.js), which are its client.             *)
(*                                                                         *)
(* The node only ever calls out: a long poll brings a command back, a post *)
(* carries its result.  A request or an answer may be lost, a request the  *)
(* worker gave up may still arrive, a poll whose connection died may still *)
(* be parked on the main, a result may arrive twice.  Either end may       *)
(* restart, and their clocks need not agree.                               *)
(*                                                                         *)
(* A session may dispatch again before its last command has settled.       *)
(* invokeNodeAction does not (inFlightSequence), but dispatch does not     *)
(* refuse it either, and the order of a session is the worker's to keep    *)
(* (sessionTails): that promise is checked for every caller of dispatch.   *)
(***************************************************************************)
EXTENDS NodeBroker, NodeWorker

CONSTANTS
    Clients,    \* who dispatches work: sessions, or NoSession
    FaultKinds, \* bound: what goes wrong, see Fault
    MaxFaults   \* bound: and how often

ASSUME ControlAssumption ==
    /\ Clients \subseteq Sessions \cup {NoSession} /\ MaxFaults \in Nat
    /\ WorkerIds = Ids /\ WorkerSessions = Sessions

VARIABLES
    leases,     \* __computerNodeLeases: sessions whose lease on the node is held
    paired,     \* the node's credential is good
    live,       \* the parked poll is the worker's, and not one it gave up
    answer,     \* the command in the answer on its way to the worker; 0: none
    ghosts,     \* polls given up before they reached the main
    strays,     \* results whose post was given up before it reached the main
    acts,       \* history: how often ordinary work took effect
    reached,    \* history: the stops that executeCommand has begun with,
    dropped,    \* history: whose last copy got lost after their caller gave up,
    cancelled,  \* history: that a cancelSession rejected,
    excused,    \* history: shed, or forgotten with a credential or a main
    faults      \* history: faults so far

wire == <<live, answer, ghosts, strays>>
stopHistory == <<reached, dropped, cancelled, excused>>
vars == <<broker, nextId, late, worker, nodeLate, leases, paired, wire, acts,
          stopHistory, faults>>

cmds == broker.cmd
Stops == {c \in Ids : cmds[c].kind = "end"}
Queued(c) == Contains(broker.queue, c)

\* "loss": a request, an answer or an acknowledgement is lost; "node" and "main":
\* that end restarts; "revoked": the credential is; "silent": the node is so for
\* onlineMs; "clocks": they disagree.
Fault(kind) ==
    kind \in FaultKinds /\ faults < MaxFaults /\ faults' = faults + 1

\* A delivery of one of S came to nothing; only a caller's timer brings it back.
Dropped(S) ==
    dropped' = dropped \cup
        {c \in S \cap Stops : c \notin Pending(broker) /\ ~Contains(broker'.queue, c)}

\* Revocations this step sheds from the queue, there being no room for more.
ShedBy(b) == {c \in Range(broker.queue) : IsEnd(b, c) /\ ~Contains(b.queue, c)}

(***************************************************************************)
(* The main's side                                                         *)
(***************************************************************************)

\* What becomes of a command handed to the parked poll: it travels, or it is
\* written to a connection that is gone.
Handed(b) ==
    IF broker.parked # "none" /\ b.parked = "none"
    THEN live' = FALSE /\ answer' = IF live THEN nextId ELSE answer
    ELSE UNCHANGED <<answer, live>>

\* An operation of a session, or one of no session.
Dispatch(s) ==
    LET b == Dispatched(broker, nextId, [kind |-> "work", session |-> s])
    IN  /\ nextId <= MaxCmds /\ broker.known /\ paired
        /\ s \in Clients /\ s \in leases \cup {NoSession}
        /\ broker' = b /\ nextId' = nextId + 1
        /\ Handed(b)
        /\ excused' = excused \cup ShedBy(b)
        /\ UNCHANGED <<late, worker, nodeLate, leases, paired, ghosts, strays, acts,
                       reached, dropped, cancelled, faults>>

\* abortSession: cancelSession, then a session.end if the lease was still held
\* and the node is online.  Any caller may abort a session, and again.
Abort(s) ==
    LET b1 == Cancelled(broker, s)
        ends == s \in leases /\ broker.known
        b2 == IF ends THEN Dispatched(b1, nextId, [kind |-> "end", session |-> s])
              ELSE b1
    IN  /\ paired /\ leases' = leases \ {s}
        /\ ends => nextId <= MaxCmds
        /\ broker' = b2 /\ nextId' = IF ends THEN nextId + 1 ELSE nextId
        /\ IF ends THEN Handed(b2) ELSE UNCHANGED <<answer, live>>
        /\ cancelled' = cancelled \cup (OfSession(broker, s) \cap Stops)
        /\ excused' = excused \cup (ShedBy(b2) \ OfSession(broker, s))
        /\ UNCHANGED <<late, worker, nodeLate, paired, ghosts, strays, acts,
                       reached, dropped, faults>>

\* A caller's timer fires; a timer for work and the command's expiry coincide.
Timeout(c) ==
    LET b == TimedOut(broker, c)
    IN  /\ c \in Pending(broker) /\ (IsEnd(broker, c) \/ c \in late)
        /\ broker' = b
        /\ excused' = excused \cup ShedBy(b)
        /\ UNCHANGED <<nextId, late, worker, nodeLate, leases, paired, wire, acts,
                       reached, dropped, cancelled, faults>>

\* The parked poll's timer: an empty answer.
EmptyAnswer ==
    /\ broker.parked # "none"
    /\ broker' = [broker EXCEPT !.parked = "none"]
    /\ live' = FALSE
    /\ UNCHANGED <<nextId, late, worker, nodeLate, leases, paired, answer, ghosts,
                   strays, acts, stopHistory, faults>>

\* onlineMs pass without a poll.
GoesOffline ==
    /\ Fault("silent") /\ broker.known /\ ~live
    /\ broker' = [broker EXCEPT !.known = FALSE]
    /\ UNCHANGED <<nextId, late, worker, nodeLate, leases, paired, wire, acts,
                   stopHistory>>

\* The owner revokes the node's credential.
RemoveNode ==
    /\ Fault("revoked") /\ paired /\ paired' = FALSE
    /\ broker' = Removed(broker)
    /\ live' = FALSE /\ excused' = Stops
    /\ UNCHANGED <<nextId, late, worker, nodeLate, leases, answer, ghosts, strays,
                   acts, reached, dropped, cancelled>>

\* The main stops and starts again; its sessions are aborted at boot.  An answer
\* written before the stop may still arrive.
MainRestarts ==
    /\ Fault("main") /\ broker' = Closed(broker) /\ leases' = {}
    /\ live' = FALSE /\ answer' \in {0, answer} /\ excused' = Stops
    /\ UNCHANGED <<nextId, late, worker, nodeLate, paired, ghosts, strays, acts,
                   reached, dropped, cancelled>>

(***************************************************************************)
(* Polls                                                                   *)
(***************************************************************************)
Idle == ~live /\ answer = 0    \* the worker has no poll under way

\* The main handles a poll: what poll() does, after the pruning of settled.
HandlePoll(o) == broker' = Polled(Pruned(broker), o)

\* The worker polls, and the main answers it or parks it.
Poll ==
    LET o == RevocationsOnly(worker, cmds)
    IN  /\ Idle /\ MayPoll(worker, cmds) /\ paired
        /\ HandlePoll(o)
        /\ IF Found(broker, o) THEN answer' = Taken(broker, o) /\ UNCHANGED live
           ELSE live' = TRUE /\ UNCHANGED answer
        /\ UNCHANGED <<nextId, late, worker, nodeLate, leases, paired, ghosts, strays,
                       acts, stopHistory, faults>>

\* The worker gives up a poll that has not reached the main.
PollLost ==
    /\ Fault("loss") /\ Idle /\ MayPoll(worker, cmds)
    /\ ghosts' = ghosts \cup {RevocationsOnly(worker, cmds)}
    /\ UNCHANGED <<broker, nextId, late, worker, nodeLate, leases, paired, live,
                   answer, strays, acts, stopHistory>>

\* It gives up one that has: its deadline passed or the connection broke.
GiveUp ==
    /\ Fault("loss") /\ ~Idle /\ live' = FALSE /\ answer' = 0
    /\ UNCHANGED broker /\ Dropped({answer})
    /\ UNCHANGED <<nextId, late, worker, nodeLate, leases, paired, ghosts, strays,
                   acts, reached, cancelled, excused>>

\* A poll given up reaches the main after all; nobody reads its answer.
GhostArrives(o) ==
    /\ o \in ghosts /\ ghosts' = ghosts \ {o} /\ paired
    /\ HandlePoll(o)
    /\ Dropped(IF Found(broker, o) THEN {Taken(broker, o)} ELSE {})
    /\ live' = (live /\ Found(broker, o))
    /\ UNCHANGED <<nextId, late, worker, nodeLate, leases, paired, answer, strays,
                   acts, reached, cancelled, excused, faults>>

(***************************************************************************)
(* The node's side                                                         *)
(***************************************************************************)

\* The answer with a command reaches pollLoop, which schedules it.
Receive ==
    /\ answer # 0 /\ answer' = 0
    /\ worker' = Scheduled(worker, answer, cmds)
    /\ UNCHANGED <<broker, nextId, late, nodeLate, leases, paired, live, ghosts,
                   strays, acts, stopHistory, faults>>

\* executeCommand calls execute(), which takes effect or not; or it finds the
\* command expired.
Start(c, effect) ==
    /\ Ready(worker, c, cmds[c])
    /\ effect => c \notin nodeLate
    /\ worker' = IF c \in nodeLate THEN Finished(worker, c, cmds[c], "expired")
                 ELSE Started(worker, c, effect)
    /\ acts' = IF effect /\ c \notin Stops THEN [acts EXCEPT ![c] = @ + 1] ELSE acts
    /\ reached' = reached \cup ({c} \cap Stops)
    /\ UNCHANGED <<broker, nextId, late, nodeLate, leases, paired, wire,
                   dropped, cancelled, excused, faults>>

\* execute() settles, and the result is remembered and queued.
Finish(c, outcome) ==
    /\ MayFinish(worker, c, cmds[c], outcome)
    /\ worker' = Finished(worker, c, cmds[c], outcome)
    /\ UNCHANGED <<broker, nextId, late, nodeLate, leases, paired, wire, acts,
                   stopHistory, faults>>

\* The main processes a result.
HandleResult(e) ==
    /\ paired
    /\ broker' = Delivered(broker, e.id, e.outcome)

\* resultLoop posts the oldest result, and may hear that it was accepted.  The
\* route reads no more than 12 MiB and refuses a "big" one.
PostResult(heard) ==
    LET e == Head(worker.results)
    IN  /\ worker.results # <<>> /\ e.outcome # "big"
        /\ HandleResult(e)
        /\ IF heard THEN worker' = Acknowledged(worker, e) /\ UNCHANGED faults
           ELSE Fault("loss") /\ UNCHANGED worker
        /\ UNCHANGED <<nextId, late, nodeLate, leases, paired, wire, acts, reached,
                       dropped, cancelled, excused>>

\* A post given up under way is tried again, and may arrive later all the same.
PostLost ==
    /\ worker.results # <<>> /\ Fault("loss")
    /\ strays' = strays \cup {Head(worker.results)}
    /\ UNCHANGED <<broker, nextId, late, worker, nodeLate, leases, paired, live,
                   answer, ghosts, acts, stopHistory>>

StrayArrives(e) ==
    /\ e \in strays /\ strays' = strays \ {e} /\ e.outcome # "big"
    /\ HandleResult(e)
    /\ UNCHANGED <<nextId, late, worker, nodeLate, leases, paired, live, answer,
                   ghosts, acts, reached, dropped, cancelled, excused, faults>>

\* The node's process is replaced; what it held in memory is gone.
NodeRestarts ==
    /\ Fault("node") /\ worker' = FreshWorker
    /\ live' = FALSE /\ answer' = 0
    /\ UNCHANGED broker /\ Dropped((worker.inFlight \ reached) \cup {answer})
    /\ UNCHANGED <<nextId, late, nodeLate, leases, paired, ghosts, strays, acts,
                   reached, cancelled, excused>>

\* A command's expiry passes on the main's clock or on the node's, while that end
\* holds the command: it is not asked about otherwise.
MainClock(c) ==
    /\ c \notin late /\ (c \in Pending(broker) \/ Queued(c))
    /\ late' = late \cup {c}
    /\ UNCHANGED <<broker, nextId, worker, nodeLate, leases, paired, wire, acts,
                   stopHistory, faults>>
NodeClock(c) ==
    /\ c \in worker.inFlight \ nodeLate /\ nodeLate' = nodeLate \cup {c}
    /\ IF c \in late THEN UNCHANGED faults ELSE Fault("clocks")
    /\ UNCHANGED <<broker, nextId, late, worker, leases, paired, wire, acts,
                   stopHistory>>
-----------------------------------------------------------------------------
Init ==
    /\ BrokerInit /\ WorkerInit
    /\ leases = Sessions /\ paired = TRUE
    /\ live = FALSE /\ answer = 0 /\ ghosts = {} /\ strays = {}
    /\ acts = [c \in Ids |-> 0] /\ faults = 0
    /\ reached = {} /\ dropped = {} /\ cancelled = {} /\ excused = {}

Next ==
    \/ EmptyAnswer \/ GoesOffline \/ RemoveNode \/ MainRestarts \/ NodeRestarts
    \/ Poll \/ PollLost \/ GiveUp \/ Receive \/ PostLost
    \/ \E s \in Sessions \cup {NoSession} : Dispatch(s)
    \/ \E s \in Sessions : Abort(s)
    \/ \E o \in ghosts : GhostArrives(o)
    \/ \E e \in strays : StrayArrives(e)
    \/ \E heard \in BOOLEAN : PostResult(heard)
    \/ \E c \in Ids :
         \/ Timeout(c) \/ MainClock(c) \/ NodeClock(c)
         \/ \E effect \in BOOLEAN : Start(c, effect)
         \/ \E outcome \in Outcomes : Finish(c, outcome)

Spec == Init /\ [][Next]_vars

\* Timers fire, the worker's loops run and the network delivers once the losses
\* are used up; a revocation's execution ends.  Nothing is assumed of ordinary
\* work: it may hang in execute() for ever.
Fairness ==
    /\ WF_vars(EmptyAnswer) /\ WF_vars(Poll) /\ WF_vars(Receive)
    /\ WF_vars(PostResult(TRUE))
    /\ WF_vars(\E c \in Ids : Timeout(c))
    /\ WF_vars(\E c \in Stops, effect \in BOOLEAN : Start(c, effect))
    /\ WF_vars(\E c \in Stops, outcome \in Outcomes : Finish(c, outcome))
FairSpec == Spec /\ Fairness
-----------------------------------------------------------------------------
(***************************************************************************)
(* Properties                                                              *)
(***************************************************************************)

\* Every variable has its type; what is parked, travelling and held agree.
TypeOK ==
    /\ broker \in Broker /\ nextId \in 1 .. MaxCmds + 1
    /\ worker \in Worker /\ late \cup nodeLate \subseteq Ids
    /\ leases \subseteq Sessions /\ paired \in BOOLEAN /\ live \in BOOLEAN
    /\ answer \in Ids \cup {0} /\ ghosts \subseteq BOOLEAN /\ strays \subseteq Envelope
    /\ reached \cup dropped \cup cancelled \cup excused \subseteq Stops
    /\ acts \in [Ids -> Nat]
    /\ live => broker.parked # "none" /\ answer = 0
    /\ Len(broker.queue) <= MaxQueue /\ IsInjective(broker.queue)
    /\ worker.effect \subseteq worker.running /\ worker.running \subseteq worker.inFlight

\* Ordinary work takes effect at most once, whatever is lost, repeated, timed
\* out or restarted: a redelivery never runs a click twice.
WorkAtMostOnce == \A c \in Ids : acts[c] <= 1

\* A caller told that its work did not consume its turn (a rejection without
\* nodeSequenceConsumed) is told the truth: it had and will have no effect.
HonestRejection ==
    \A c \in Ids : broker.told[c] = "never" => acts[c] = 0

\* Work of one session runs one command at a time, in the order dispatched.
SessionInOrder ==
    [][\A c, d \in Ids :
         /\ c \in worker'.running \ worker.running
         /\ cmds[c].kind = "work" /\ cmds[d].kind = "work"
         /\ cmds[c].session = cmds[d].session /\ cmds[c].session # NoSession
         => /\ d \in worker.running => d = c
            /\ acts[d] > 0 => d <= c]_vars

\* Ordinary work never displaces a waiting revocation (dispatch, 266-267).
WorkShedsNoStop ==
    [][\A c \in Ids :
         cmds[c].kind = "none" /\ cmds'[c].kind = "work"
         => \A d \in Range(broker.queue) :
              IsEnd(broker, d) => Contains(broker'.queue, d)]_vars

\* A revocation reaches the node, past any amount of hanging work, unless it
\* expires, is shed or cancelled, or its delivery fails once its caller has
\* given up: while the caller waits, every lost delivery is made good.
StopArrives ==
    \A c \in Ids : (c \in Stops)
        ~> (c \in reached \cup late \cup cancelled \cup excused \cup dropped)

\* A finished command's result is acknowledged by the main in the end.
ResultsAcknowledged ==
    \A c \in Ids : (c \in Ids_(worker.results)) ~> (c \notin Ids_(worker.results) \/ ~paired)

\* A revocation that has run is acknowledged in the end: the test at
\* test/node-control.test.js:539 says it is replayed "until its result is
\* acknowledged", and node-control.js:492 lets through only results that it
\* takes to fit the transport, so none can stand in its way.
StopsAcknowledged ==
    \A c \in Ids : (c \in Stops /\ c \in Ids_(worker.results))
        ~> (c \notin Ids_(worker.results) \/ ~paired)
=============================================================================
