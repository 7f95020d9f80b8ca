---------------------------- MODULE Continuations ----------------------------
(***************************************************************************)
(* Resuming the chat whose computer-use request was approved: the          *)
(* continuation record of a card (src/pending-actions.js) and the driver   *)
(* that delivers it (src/hosted-interface.js).                             *)
(*                                                                         *)
(* An approved, successful start_computer_use_session card gets a          *)
(* continuation; a timer claims it and runs a turn of the agent in the     *)
(* chat that asked.  The turn awaits a model and tools, so timers, repeated *)
(* presses of "approve", shutdown and crashes interleave with it.  Every   *)
(* change of a record is journaled: mem is the record in memory, disk what *)
(* a replay would rebuild.  The chat store is durable; of its messages only *)
(* the assistant's reply under the continuation's request id matters.      *)
(***************************************************************************)
EXTENDS Integers, FiniteSets

CONSTANTS
    Actions,      \* the approved cards
    MaxAttempts,  \* maxAttempts: deliveries tried per approval (5)
    MaxPresses,   \* bound: presses of "approve" on an approved card
    MaxRestarts,  \* bound: how often the daemon stops
    DiskFaults    \* may a journal append throw?

ASSUME BoundsAssumption ==
    /\ MaxAttempts \in Nat \ {0} /\ MaxPresses \in Nat
    /\ MaxRestarts \in Nat /\ DiskFaults \in BOOLEAN

VARIABLES
    daemon,     \* "up", "closing" (timers cleared, turns still running), "down"
    approved,   \* the cards whose approval and success are journaled
    mem,        \* action.continuation in memory
    disk,       \* action.continuation as a replay rebuilds it
    timers,     \* approvalContinuationTimers, counted per card
    turns,      \* deliveries awaiting handleLocalMessage
    replies,    \* successful replies persisted in the chat (durable)
    started,    \* history: turns started; claims since boot never share an id
    claimed,    \* history: deliveries claimed, the source of delivery ids
    tainted,    \* history: cards whose turns reached a mutating tool since boot
    mutated,    \* history: cards whose turns ever reached a mutating tool
    lost,       \* history: an append threw since boot
    presses, restarts

vars == <<daemon, approved, mem, disk, timers, turns, replies, started, claimed,
          tainted, mutated, lost, presses, restarts>>

Final == {"delivered", "blocked", "not-needed"}
Statuses == Final \cup {"none", "pending", "delivering", "failed"}
Record == [status : Statuses, attempts : Nat, delivery : Nat]
Turn == [action : Actions, delivery : Nat, acted : BOOLEAN, replied : BOOLEAN]

None == [status |-> "none", attempts |-> 0, delivery |-> 0]
Nothing == [a \in Actions |-> None]

Put(m, a, r) == [m EXCEPT ![a] = r]

(***************************************************************************)
(* The store's steps, as operators on one record                           *)
(***************************************************************************)
BugPreparedRestarts(r, reset) ==   \* a press starts over whatever is there
    IF reset THEN [None EXCEPT !.status = "pending"]
    ELSE IF r.status = "none" THEN [None EXCEPT !.status = "pending"] ELSE r

\* prepareContinuation: a new record, or a fresh start for a failed one when
\* the owner approved again; any other record is left as it is.
Prepared(r, reset) ==
    IF r.status = "none" \/ (reset /\ r.status = "failed")
    THEN [None EXCEPT !.status = "pending"] ELSE r

BugClaimableInFlight(r) ==         \* "delivering" is not excluded
    r.status \in {"pending", "failed", "delivering"} /\ r.attempts < MaxAttempts

\* claimContinuation
Claimable(r) == r.status \in {"pending", "failed"} /\ r.attempts < MaxAttempts
Claimed(r, d) ==
    [status |-> "delivering", attempts |-> r.attempts + 1, delivery |-> d]

\* finishContinuation: only the delivery the record names may finish it.
MayFinish(r, d) == r.status = "delivering" /\ r.delivery = d
Finished(r, d, st) ==
    IF MayFinish(r, d) THEN [r EXCEPT !.status = st, !.delivery = 0] ELSE r

\* _recoverInterruptedContinuations
Recovered(r) ==
    IF r.status = "delivering"
    THEN [r EXCEPT !.status = "pending", !.delivery = 0] ELSE r

BugRecoverableKnown(r) ==          \* an approval without a record is missed
    r.status \in {"pending", "failed"}

\* The records a boot picks up again
Recoverable(r) == r.status \in {"none", "pending", "failed", "delivering"}

BugOwedAny(a) == Recoverable(Recovered(disk[a]))   \* decided or not

\* recoverableContinuations: the approved cards still owed a resumption
Owed(a) == a \in approved /\ Recoverable(Recovered(disk[a]))

(***************************************************************************)
(* The driver                                                              *)
(***************************************************************************)

\* scheduleApprovalContinuation: nothing once the daemon is closing.
Scheduled(a) ==
    IF daemon = "up" THEN [timers EXCEPT ![a] = @ + 1] ELSE timers

\* A record in memory changed to r, and its append reached the journal or
\* (DiskFaults) threw after the memory had changed.
Stored(a, r) == mem' = Put(mem, a, r) /\ disk' = Put(disk, a, r) /\ lost' = lost
StoredInMemory(a, r) ==
    DiskFaults /\ mem' = Put(mem, a, r) /\ disk' = disk /\ lost' = TRUE

\* The approved tool succeeded.  Approved from the dashboard or from another
\* chat, the chat that asked is resumed; approved in the same chat, its own
\* turn carries on and nothing is.
Approve(a, here) ==
    /\ daemon # "down" /\ a \notin approved
    /\ approved' = approved \cup {a}
    /\ IF here
       THEN /\ timers' = timers
            /\ \/ Stored(a, [None EXCEPT !.status = "not-needed"])
               \/ StoredInMemory(a, [None EXCEPT !.status = "not-needed"])
       ELSE \/ timers' = Scheduled(a) /\ Stored(a, Prepared(None, FALSE))
            \/ timers' = timers /\ StoredInMemory(a, Prepared(None, FALSE))
    /\ UNCHANGED <<daemon, turns, replies, started, claimed, tainted, mutated,
                   presses, restarts>>

\* "approve" on a card approved before: executeApprovedAction resumes it again.
Press(a) ==
    /\ daemon # "down" /\ a \in approved
    /\ presses < MaxPresses /\ presses' = presses + 1
    /\ LET r == Prepared(mem[a], TRUE)
       IN  \/ /\ Stored(a, r) \/ (r = mem[a] /\ UNCHANGED <<mem, disk, lost>>)
              /\ timers' = IF r.status \in {"pending", "failed"}
                           THEN Scheduled(a) ELSE timers
           \/ r # mem[a] /\ StoredInMemory(a, r) /\ timers' = timers
    /\ UNCHANGED <<daemon, approved, turns, replies, started, claimed, tainted,
                   mutated, restarts>>

Fired(a) == timers' = [timers EXCEPT ![a] = @ - 1]

\* A timer fires for a record that cannot be claimed: it is spent.
FireNothing(a) ==
    /\ daemon = "up" /\ timers[a] > 0 /\ Fired(a)
    /\ ~Claimable(mem[a])
    /\ UNCHANGED <<daemon, approved, mem, disk, turns, replies, started, claimed,
                   tainted, mutated, lost, presses, restarts>>

\* A timer fires and claims the delivery.  A reply persisted before an earlier
\* receipt was lost is recognized and finishes it; else a turn is started.
Fire(a) ==
    LET d == claimed[a] + 1
        r == Claimed(mem[a], d)
    IN  /\ daemon = "up" /\ timers[a] > 0 /\ Fired(a)
        /\ Claimable(mem[a])
        /\ claimed' = [claimed EXCEPT ![a] = d]
        /\ \/ /\ replies[a] > 0
              /\ \/ Stored(a, Finished(r, d, "delivered"))
                 \/ /\ DiskFaults /\ lost' = TRUE
                    /\ mem' = Put(mem, a, Finished(r, d, "delivered"))
                    /\ disk' = Put(disk, a, r)
              /\ UNCHANGED <<turns, started>>
           \/ /\ replies[a] = 0 /\ Stored(a, r)
              /\ turns' = turns \cup {[action |-> a, delivery |-> d,
                                       acted |-> FALSE, replied |-> FALSE]}
              /\ started' = [started EXCEPT ![a] = @ + 1]
           \/ StoredInMemory(a, r) /\ UNCHANGED <<turns, started>>
        /\ UNCHANGED <<daemon, approved, replies, tainted, mutated, presses, restarts>>

\* The turn reaches a tool that is not declared read-only.
TurnActs(t) ==
    /\ t \in turns /\ ~t.acted /\ ~t.replied
    /\ turns' = (turns \ {t}) \cup {[t EXCEPT !.acted = TRUE]}
    /\ tainted' = tainted \cup {t.action} /\ mutated' = mutated \cup {t.action}
    /\ UNCHANGED <<daemon, approved, mem, disk, timers, replies, started, claimed,
                   lost, presses, restarts>>

\* The agent's reply is persisted in the chat, before the turn returns.
TurnReplies(t) ==
    /\ t \in turns /\ ~t.replied
    /\ turns' = (turns \ {t}) \cup {[t EXCEPT !.replied = TRUE]}
    /\ replies' = [replies EXCEPT ![t.action] = @ + 1]
    /\ UNCHANGED <<daemon, approved, mem, disk, timers, started, claimed, tainted,
                   mutated, lost, presses, restarts>>

BugOutcomesRetry(t) ==             \* a failure is always tried again
    (IF t.replied THEN {"delivered"} ELSE {}) \cup {"failed"}

\* How the turn's end is recorded.  A failure is final once a mutating tool was
\* attempted (the session's authority is revoked first, in an await that
\* changes no record), and is retried on a timer while attempts remain.
Outcomes(t) ==
    (IF t.replied THEN {"delivered"} ELSE {})
        \cup (IF t.acted THEN {"blocked"} ELSE {"failed"})

TurnEnds(t, st) ==
    LET a == t.action
        r == Finished(mem[a], t.delivery, st)
    IN  /\ t \in turns /\ turns' = turns \ {t}
        /\ \/ /\ Stored(a, r)
              /\ timers' = IF st = "failed" /\ MayFinish(mem[a], t.delivery)
                                /\ r.attempts < MaxAttempts
                           THEN Scheduled(a) ELSE timers
           \/ StoredInMemory(a, r) /\ timers' = timers
        /\ UNCHANGED <<daemon, approved, replies, started, claimed, tainted,
                       mutated, presses, restarts>>

(***************************************************************************)
(* Shutdown, crash and restart                                             *)
(***************************************************************************)
Close ==
    /\ daemon = "up" /\ daemon' = "closing" /\ restarts < MaxRestarts
    /\ timers' = [a \in Actions |-> 0]
    /\ UNCHANGED <<approved, mem, disk, turns, replies, started, claimed, tainted,
                   mutated, lost, presses, restarts>>

Stopped ==
    /\ restarts < MaxRestarts /\ restarts' = restarts + 1
    /\ daemon # "down" /\ daemon' = "down"
    /\ mem' = Nothing /\ turns' = {}
    /\ timers' = [a \in Actions |-> 0] /\ tainted' = {} /\ lost' = FALSE
    /\ UNCHANGED <<replies, mutated, presses>>

Stop == Stopped /\ UNCHANGED <<approved, disk, started, claimed>>

\* A crash between the append of the approval and that of its continuation.
ApproveCrashes(a) ==
    /\ a \notin approved /\ approved' = approved \cup {a}
    /\ Stopped /\ UNCHANGED <<disk, started, claimed>>

\* A crash after the append of a claim that found the reply persisted.
FireCrashes(a) ==
    /\ daemon = "up" /\ timers[a] > 0 /\ replies[a] > 0 /\ Claimable(mem[a])
    /\ disk' = Put(disk, a, Claimed(mem[a], claimed[a] + 1))
    /\ claimed' = [claimed EXCEPT ![a] = @ + 1]
    /\ Stopped /\ UNCHANGED <<approved, started>>

\* The constructor's recovery, then the boot sweep that prepares and schedules
\* every approved card still owed a resumption.
Restart ==
    LET Record1(a) == IF Owed(a) THEN Prepared(Recovered(disk[a]), FALSE)
                      ELSE Recovered(disk[a])
    IN  /\ daemon = "down" /\ daemon' = "up"
        /\ mem' = [a \in Actions |-> Record1(a)]
        /\ disk' = [a \in Actions |-> Record1(a)]
        /\ timers' = [a \in Actions |->
                        IF Owed(a) /\ Record1(a).status \in {"pending", "failed"}
                        THEN 1 ELSE 0]
        /\ UNCHANGED <<approved, turns, replies, started, claimed, tainted,
                       mutated, lost, presses, restarts>>
-----------------------------------------------------------------------------
Init ==
    /\ daemon = "up" /\ approved = {} /\ mem = Nothing /\ disk = Nothing
    /\ timers = [a \in Actions |-> 0] /\ turns = {}
    /\ replies = [a \in Actions |-> 0] /\ started = [a \in Actions |-> 0]
    /\ claimed = [a \in Actions |-> 0]
    /\ tainted = {} /\ mutated = {} /\ lost = FALSE /\ presses = 0 /\ restarts = 0

Next ==
    \/ Close \/ Stop \/ Restart
    \/ \E a \in Actions :
         \/ \E here \in BOOLEAN : Approve(a, here)
         \/ Press(a) \/ Fire(a) \/ FireNothing(a)
         \/ ApproveCrashes(a) \/ FireCrashes(a)
    \/ \E t \in turns :
         \/ TurnActs(t) \/ TurnReplies(t)
         \/ \E st \in Outcomes(t) : TurnEnds(t, st)

Spec == Init /\ [][Next]_vars

\* Timers fire, turns end (the model and every tool have deadlines), a closing
\* daemon exits and a supervisor starts it again.
EndsFor(a) == \E t \in turns, st \in Final \cup {"failed"} :
                t.action = a /\ st \in Outcomes(t) /\ TurnEnds(t, st)
Fairness ==
    /\ \A a \in Actions : /\ WF_vars(Fire(a)) /\ WF_vars(FireNothing(a))
                          /\ WF_vars(EndsFor(a))
    /\ WF_vars(Restart)
    /\ WF_vars(daemon = "closing" /\ Stop)
FairSpec == Spec /\ Fairness
-----------------------------------------------------------------------------
(***************************************************************************)
(* Properties                                                              *)
(***************************************************************************)

\* Every variable has its type, and a stopped daemon keeps no timer, turn or
\* record in memory.
TypeOK ==
    /\ daemon \in {"up", "closing", "down"} /\ approved \subseteq Actions
    /\ mem \in [Actions -> Record] /\ disk \in [Actions -> Record]
    /\ timers \in [Actions -> Nat] /\ turns \subseteq Turn
    /\ replies \in [Actions -> Nat] /\ started \in [Actions -> Nat]
    /\ claimed \in [Actions -> Nat]
    /\ tainted \subseteq mutated /\ mutated \subseteq Actions
    /\ lost \in BOOLEAN /\ presses \in Nat /\ restarts \in Nat
    /\ daemon = "down" => mem = Nothing /\ turns = {}
    /\ daemon # "up" => timers = [a \in Actions |-> 0]
    /\ \A a \in Actions \ approved : mem[a] = None /\ disk[a] = None

\* At most one turn resumes a card at a time, and it is the delivery the
\* card's record names (claimContinuation, finishContinuation).
OneTurnPerCard ==
    /\ \A t \in turns : MayFinish(mem[t.action], t.delivery)
    /\ \A t, u \in turns : t.action = u.action => t = u

\* The chat never hears two successful replies to one approval, wherever the
\* daemon stops between the reply and its receipt ("avoid re-running it on
\* restart", hosted-interface.js:688-690).
ReplyOnce == \A a \in Actions : replies[a] <= 1

\* Delivered, blocked and not needed are final: no press, timer, late turn or
\* recovery reopens a record the journal holds as final.
FinalStays ==
    [][\A a \in Actions : disk[a].status \in Final => disk'[a] = disk[a]]_vars

\* While the daemon lives, no turn is started for a card whose earlier turn
\* reached a mutating tool ("may be replayed only while every tool reached so
\* far is explicitly read-only").
NoReplayWhileUp ==
    [][\A a \in Actions : started'[a] > started[a] => a \notin tainted]_vars

\* Every approved card's chat is resumed, or its resumption is blocked, not
\* needed, or out of attempts; never forgotten, whenever the daemon stops.  An
\* append that throws may strand it, but only until the next restart.
Settled(a) ==
    mem[a].status \in Final \/ (mem[a].status \in {"pending", "failed"}
                                /\ mem[a].attempts >= MaxAttempts)
EveryApprovalSettles == \A a \in Actions : (a \in approved) ~> (Settled(a) \/ lost)
=============================================================================
