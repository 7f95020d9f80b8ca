----------------------------- MODULE ComputerUse -----------------------------
(***************************************************************************)
(* One approved computer-use session of one chat, from end to end: its     *)
(* tools on the main (ensureNodeLease, invokeNodeAction, abortSession in   *)
(* src/integrations/computer-use.js), its record (src/computer-use-log.js) *)
(* and the executor that holds its lease and moves the mouse               *)
(* (createComputerExecutor in src/integrations/computer-server.js).        *)
(*                                                                         *)
(* The executor is reached in one of three ways: by HTTP ("http"), through *)
(* the paired node's worker ("relay", whose own promises are the subject   *)
(* of NodeControl) or in the main's own process ("local").  Tool calls     *)
(* race each other, the owner's Stop, the session's expiry, timeouts and   *)
(* restarts.  On the main an action is one run of the event loop; what its *)
(* promises settle runs right after it, before any other event: a call     *)
(* whose pc is "fails" has its catch block run next.                       *)
(***************************************************************************)
EXTENDS Naturals, FiniteSets

CONSTANTS
    Calls,       \* tool calls of the session; a lease is named by its opener
    NoLease,     \* no lease
    Transports,  \* the ways the executor may be reached
    Operations,  \* what the calls may do, see Kinds
    MaxStops,    \* bound: how often the owner presses Stop
    MaxFaults    \* bound: timeouts, expiries, refusals, restarts

ASSUME UseAssumption ==
    /\ NoLease \notin Calls /\ MaxStops \in Nat /\ MaxFaults \in Nat
    /\ Transports \subseteq {"http", "relay", "local"}
    /\ Operations \subseteq {"screenshot", "input", "activate"}

\* "input" is bound to the frame of a screenshot (click, type, key, ...);
\* "activate" brings an app to the front and needs none.
Kinds == {"screenshot", "input", "activate"}

VARIABLES
    via,       \* how the executor is reached
    status,    \* the session's: "active" or over (ended, aborted, expired)
    lease,     \* __computerNodeLeases: the main's copy of the lease, see Held
    opening,   \* __computerNodeLeaseOpenings: a lease is being opened
    pc,        \* where each tool call stands
    op,        \* what it does
    seq,       \* the sequence number it was sent with, and under which lease
    start,     \* its session.start, on the wire or at the executor
    act,       \* its operation, on the wire or at the executor
    ends,      \* session.end requests not yet processed: lease, and where
    node,      \* the executor's leases
    stops,     \* history: Stops so far
    faults,    \* history: faults so far
    cut,       \* history: leases a session.end or cancelSession has revoked
    late,      \* history: calls whose input began on such a lease
    abandoned  \* history: leases whose revocation nobody is to send, or again

mainVars == <<status, lease, opening, pc, op, seq>>
wireVars == <<start, act, ends>>
history == <<stops, faults, cut, late, abandoned>>
vars == <<via, mainVars, wireVars, node, history>>

PCs == {"idle", "probes", "opens", "waits", "acts", "ends", "fails", "done"}
\* An operation that failed has used up its number at the executor
\* (nodeSequenceConsumed), one that was refused has not.
Requests == {"none", "queued", "sent", "inspects", "runs", "ok", "failed", "refused"}
Answered == {"ok", "failed", "refused"}
None == [id |-> NoLease, next |-> 1, inFlight |-> 0]
Closed == [open |-> FALSE, last |-> 0, framed |-> FALSE, executing |-> FALSE]

\* No promise waits to settle: the event loop may take the next event.
Settled == \A c \in Calls : pc[c] # "fails"

\* The executor runs in the main's process, or in one of its own.
NodeTurn == via = "local" => Settled

Fault == faults < MaxFaults /\ faults' = faults + 1

(***************************************************************************)
(* Tool calls on the main                                                  *)
(***************************************************************************)

\* A dispatched request: in the broker's queue, or handed to the parked poll.
Dispatched == IF via = "relay" THEN {"queued", "sent"} ELSE {"sent"}

\* No operation is under way on the lease.
Free(l) == l.inFlight = 0

\* invokeNodeAction from the check of inFlightSequence to its await.
SendAction(c, l) ==
    /\ lease' = [l EXCEPT !.inFlight = l.next]
    /\ seq' = [seq EXCEPT ![c] = [n |-> l.next, lease |-> l.id]]
    /\ \E at \in Dispatched : act' = [act EXCEPT ![c] = at]

SendStart(c) == \E at \in Dispatched : start' = [start EXCEPT ![c] = at]

BugOpens == TRUE                   \* the map of openings is not consulted

\* ensureNodeLease opens a lease only if none is held or being opened.
Opens == ~opening

\* A tool of an active session is called: requireActiveSession, recordAction,
\* then ensureNodeLease as far as its first await.
Begin(c, o) ==
    /\ Settled /\ status = "active" /\ pc[c] = "idle"
    /\ op' = [op EXCEPT ![c] = o]
    /\ \/ /\ lease # None /\ Free(lease)
          /\ SendAction(c, lease) /\ pc' = [pc EXCEPT ![c] = "acts"]
          /\ UNCHANGED <<opening, start>>
       \/ /\ lease # None /\ ~Free(lease)
          /\ pc' = [pc EXCEPT ![c] = "fails"]
          /\ UNCHANGED <<lease, opening, seq, start, act>>
       \/ /\ lease = None /\ ~Opens
          /\ pc' = [pc EXCEPT ![c] = "waits"]
          /\ UNCHANGED <<lease, opening, seq, start, act>>
       \/ /\ lease = None /\ Opens /\ opening' = TRUE
          /\ IF via = "http" THEN pc' = [pc EXCEPT ![c] = "probes"] /\ UNCHANGED start
             ELSE pc' = [pc EXCEPT ![c] = "opens"] /\ SendStart(c)
          /\ UNCHANGED <<lease, seq, act>>
    /\ UNCHANGED <<via, status, ends, node, history>>

\* The health probe of an explicit node came back.
Probed(c) ==
    /\ Settled /\ pc[c] = "probes"
    /\ pc' = [pc EXCEPT ![c] = "opens"] /\ SendStart(c)
    /\ UNCHANGED <<via, status, lease, opening, op, seq, act, ends, node, history>>

BugStillApproved == TRUE           \* the handshake does not look back

\* The session is looked up again once the handshake is over.
StillApproved == status = "active"

\* The calls that wait for the opening find c's operation under way and fail.
Woken(c, to) ==
    [x \in Calls |-> IF x = c THEN to
                     ELSE IF pc[x] = "waits" THEN "fails" ELSE pc[x]]

\* session.start answered: the lease is registered and c goes on, or, the
\* session being over, is revoked at once.
Opened(c) ==
    /\ Settled /\ pc[c] = "opens" /\ start[c] = "ok"
    /\ start' = [start EXCEPT ![c] = "none"]
    /\ LET l == [id |-> c, next |-> node[c].last + 1, inFlight |-> 0]
       IN  \/ /\ StillApproved /\ opening' = FALSE
              /\ SendAction(c, l) /\ pc' = Woken(c, "acts")
              /\ UNCHANGED <<ends, abandoned>>
           \/ /\ ~StillApproved /\ pc' = [pc EXCEPT ![c] = "ends"]
              /\ \E at \in Dispatched : ends' = ends \cup {[lease |-> c, at |-> at]}
              /\ UNCHANGED <<opening, lease, seq, act, abandoned>>
    /\ UNCHANGED <<via, status, op, node, stops, faults, cut, late>>

\* The opening failed, or its revocation settled or timed out.
OpeningFails(c) ==
    /\ Settled
    /\ \/ pc[c] = "opens" /\ start[c] = "refused"
       \/ pc[c] = "ends"
    /\ opening' = FALSE /\ pc' = Woken(c, "fails")
    /\ UNCHANGED <<via, status, lease, op, seq, wireVars, node, history>>

BugCleared(l, n, done) == IF done THEN [next |-> n + 1, inFlight |-> 0, id |-> l.id] ELSE l

\* The lease after an operation has settled: the next number, if this one was
\* used up, and nothing in flight.  A lease already deleted is not brought back.
Advanced(l, n, done) ==
    [l EXCEPT !.inFlight = 0, !.next = IF done THEN n + 1 ELSE @]

BugConsumed(c) == act[c] = "ok"    \* nodeSequenceConsumed is not looked at

\* The answer says that the executor has used up the operation's number.
Consumed(c) == act[c] \in {"ok", "failed"}

\* A result that comes after the session is over is not accepted, but for a
\* screenshot's, whose handler does not look; if its own request was cancelled
\* (one of the Stops) it throws all the same.
Accepts(c) == status = "active" \/ op[c] = "screenshot"
Throws(c) == status = "over" /\ (op[c] = "screenshot" => stops > 0)

\* The operation's answer reaches its caller.
Returned(c) ==
    /\ Settled /\ pc[c] = "acts" /\ act[c] \in Answered
    /\ \/ act[c] = "ok" /\ Accepts(c) /\ pc' = [pc EXCEPT ![c] = "done"]
       \/ (act[c] = "ok" => Throws(c)) /\ pc' = [pc EXCEPT ![c] = "fails"]
    /\ lease' = IF lease.id = seq[c].lease
                THEN Advanced(lease, seq[c].n, Consumed(c)) ELSE lease
    /\ act' = [act EXCEPT ![c] = "none"]
    /\ UNCHANGED <<via, status, opening, op, seq, start, ends, node, history>>

\* The caller's timer fires first.  What was queued is gone with it, what was
\* delivered goes on at the executor; the broker takes its number for used up.
Gone(r) == IF r = "queued" THEN "none" ELSE r

TimesOut(c) ==
    /\ Fault /\ Settled /\ via # "local"
    /\ \/ /\ pc[c] = "acts" /\ act[c] \notin Answered
          /\ pc' = [pc EXCEPT ![c] = "fails"]
          /\ act' = [act EXCEPT ![c] = Gone(@)]
          /\ lease' = IF lease.id = seq[c].lease
                      THEN Advanced(lease, seq[c].n, via = "relay" /\ act[c] # "queued")
                      ELSE lease
          /\ UNCHANGED <<opening, start, abandoned>>
       \/ /\ pc[c] = "opens" /\ start[c] \notin Answered
          /\ opening' = FALSE /\ pc' = Woken(c, "fails")
          /\ start' = [start EXCEPT ![c] = Gone(@)]
          /\ abandoned' = abandoned \cup {c}
          /\ UNCHANGED <<lease, act>>
    /\ UNCHANGED <<via, status, op, seq, ends, node, stops, cut, late>>

(***************************************************************************)
(* Stop: abortSession up to its await.  The main's authority goes first,   *)
(* then cancelSession, then the lease; a session.end is sent for it.       *)
(***************************************************************************)

\* cancelSession through the broker: the callers of the session's commands are
\* rejected, and what had not been delivered is never sent.
Rejected(c) == via = "relay" /\ pc[c] \in {"opens", "acts", "ends"}

\* What the executor's own cancelSession cuts off: the lease of the session.
CutLocally == IF via = "local" THEN {l \in Calls : node[l].open} ELSE {}

Cut(l) == [node[l] EXCEPT !.open = FALSE]

AbortSession(caller) ==
    /\ status' = "over"
    /\ lease' = None
    /\ opening' = (opening /\ \E c \in Calls : pc[c] \in {"probes", "opens", "ends"}
                                               /\ ~Rejected(c))
    /\ pc' = [c \in Calls |->
                IF c = caller THEN "done"
                ELSE IF Rejected(c) THEN "fails"
                ELSE IF pc[c] = "waits" /\ \E o \in Calls : Rejected(o) /\ pc[o] # "acts"
                THEN "fails" ELSE pc[c]]
    /\ start' = [c \in Calls |-> IF Rejected(c) THEN Gone(start[c]) ELSE start[c]]
    /\ act' = [c \in Calls |-> IF Rejected(c) THEN Gone(act[c]) ELSE act[c]]
    /\ node' = [l \in Calls |-> IF l \in CutLocally THEN Cut(l) ELSE node[l]]
    /\ cut' = cut \cup CutLocally
    /\ LET waiting == {e \in ends : via = "relay" /\ e.at = "queued"}
           given == {c \in Calls : Rejected(c) /\ pc[c] = "opens" /\ start[c] # "queued"}
           lost == {e.lease : e \in waiting} \cup given
       IN  \/ /\ lease = None
              /\ ends' = ends \ waiting /\ abandoned' = abandoned \cup lost
              /\ UNCHANGED faults
           \/ /\ lease # None
              /\ \E at \in Dispatched :
                   ends' = (ends \ waiting) \cup {[lease |-> lease.id, at |-> at]}
              /\ abandoned' = abandoned \cup lost
              /\ UNCHANGED faults
           \/ /\ lease # None /\ via # "http" /\ Fault   \* silent for 90 s, or not ready
              /\ ends' = ends \ waiting
              /\ abandoned' = abandoned \cup lost \cup {lease.id}
    /\ UNCHANGED <<via, op, seq, late>>

\* The catch block of a call: the approval must be renewed.
Catch(c) == pc[c] = "fails" /\ AbortSession(c) /\ UNCHANGED stops

\* The owner's Stop, a cancelled request or end_computer_use_session.
Stop ==
    /\ Settled /\ stops < MaxStops /\ stops' = stops + 1
    /\ AbortSession(NoLease)

\* _expireSessions: two idle minutes, or fifteen in all.  Nobody is told.
Expires ==
    /\ Settled /\ Fault /\ status = "active" /\ status' = "over"
    /\ UNCHANGED <<via, lease, opening, pc, op, seq, wireVars, node,
                   stops, cut, late, abandoned>>

\* The main restarts: the session is revoked at boot, its lease forgotten.
MainRestarts ==
    /\ Settled /\ Fault /\ via # "local" /\ status' = "over"
    /\ lease' = None /\ opening' = FALSE
    /\ pc' = [c \in Calls |-> "done"]
    /\ start' = [c \in Calls |-> Gone(start[c])]
    /\ act' = [c \in Calls |-> Gone(act[c])]
    /\ ends' = {e \in ends : e.at # "queued"}
    /\ abandoned' = Calls
    /\ UNCHANGED <<via, op, seq, node, stops, cut, late>>

(***************************************************************************)
(* The executor                                                            *)
(***************************************************************************)

\* The node's worker takes a command from the broker's queue.
Delivers ==
    /\ via = "relay"
    /\ \/ \E c \in Calls : /\ start[c] = "queued" /\ start' = [start EXCEPT ![c] = "sent"]
                           /\ UNCHANGED <<act, ends>>
       \/ \E c \in Calls : /\ act[c] = "queued" /\ act' = [act EXCEPT ![c] = "sent"]
                           /\ UNCHANGED <<start, ends>>
       \/ \E e \in ends : /\ e.at = "queued"
                          /\ ends' = (ends \ {e}) \cup {[e EXCEPT !.at = "sent"]}
                          /\ UNCHANGED <<start, act>>
    /\ UNCHANGED <<via, mainVars, node, history>>

\* startLease looks for the session's lease, then awaits inspect().  It finds
\* one only if an earlier session.start of the session was not the last.
StartsLease(c) ==
    /\ NodeTurn /\ start[c] = "sent"
    /\ start' = [start EXCEPT ![c] = "inspects"]
    /\ UNCHANGED <<via, mainVars, act, ends, node, history>>

\* inspect() returned: the lease is made, or the approval has expired.
LeaseMade(c) ==
    /\ NodeTurn /\ start[c] = "inspects"
    /\ \/ /\ start' = [start EXCEPT ![c] = "ok"]
          /\ node' = [node EXCEPT ![c] = [Closed EXCEPT !.open = TRUE]]
          /\ UNCHANGED faults
       \/ Fault /\ start' = [start EXCEPT ![c] = "refused"] /\ UNCHANGED node
    /\ UNCHANGED <<via, mainVars, act, ends, stops, cut, late, abandoned>>

\* withLease admits an operation in its turn, one at a time.
Admits(l, n) ==
    node[l].open /\ n = node[l].last + 1 /\ ~node[l].executing

Enters(c) ==
    LET l == seq[c].lease
    IN  /\ NodeTurn /\ act[c] = "sent"
        /\ IF Admits(l, seq[c].n)
           THEN /\ act' = [act EXCEPT ![c] = "inspects"]
                /\ node' = [node EXCEPT ![l].last = seq[c].n, ![l].executing = TRUE]
           ELSE act' = [act EXCEPT ![c] = "refused"] /\ UNCHANGED node
        /\ UNCHANGED <<via, mainVars, start, ends, history>>

\* requireFreshFrame: the frame a screenshot of this lease left.
FrameFound(l) == node[l].framed

\* inspect() returned: the helper is run, whatever became of the lease
\* meanwhile; input needs the frame its coordinates refer to.
Runs(c) ==
    LET l == seq[c].lease
    IN  /\ NodeTurn /\ act[c] = "inspects"
        /\ \/ /\ op[c] = "input" => FrameFound(l)
              /\ act' = [act EXCEPT ![c] = "runs"]
              /\ late' = IF op[c] # "screenshot" /\ l \in cut THEN late \cup {c} ELSE late
              /\ UNCHANGED <<node, faults>>
           \/ /\ op[c] = "input" /\ ~FrameFound(l)
              /\ act' = [act EXCEPT ![c] = "failed"]
              /\ node' = [node EXCEPT ![l].executing = FALSE]
              /\ UNCHANGED <<late, faults>>
           \/ /\ Fault                            \* not ready after all
              /\ act' = [act EXCEPT ![c] = "failed"]
              /\ node' = [node EXCEPT ![l].executing = FALSE]
              /\ UNCHANGED late
        /\ UNCHANGED <<via, mainVars, start, ends, stops, cut, abandoned>>

\* The helper returned, perhaps to find its lease gone; or it failed, aborted
\* with its lease or by itself.
RunEnds(c) ==
    LET l == seq[c].lease
    IN  /\ NodeTurn /\ act[c] = "runs"
        /\ \/ /\ act' = [act EXCEPT ![c] = IF node[l].open THEN "ok" ELSE "failed"]
              /\ node' = [node EXCEPT ![l].executing = FALSE,
                                      ![l].framed = (op[c] = "screenshot")]
              /\ UNCHANGED faults
           \/ /\ IF node[l].open THEN Fault ELSE UNCHANGED faults
              /\ act' = [act EXCEPT ![c] = "failed"]
              /\ node' = [node EXCEPT ![l].executing = FALSE]
        /\ UNCHANGED <<via, mainVars, start, ends, stops, cut, late, abandoned>>

BugEnded(l) == Cut(l)              \* the frames are kept

\* endLease: the lease is deleted, its helpers aborted, its frames cleared; a
\* lease that is gone already stays as it is.
Ended(l) ==
    IF node[l].open THEN [node[l] EXCEPT !.open = FALSE, !.framed = FALSE] ELSE node[l]

EndArrives(e) ==
    /\ NodeTurn /\ e.at = "sent"
    /\ ends' = ends \ {e}
    /\ node' = [node EXCEPT ![e.lease] = Ended(e.lease)]
    /\ cut' = IF node[e.lease].open THEN cut \cup {e.lease} ELSE cut
    /\ UNCHANGED <<via, mainVars, start, act, stops, faults, late, abandoned>>

\* A session.end does not come through: its connection fails or times out (and
\* its error is swallowed), or the broker drops it or lets it expire.  Nobody
\* sends it again.
EndLost(e) ==
    /\ via # "local" /\ e.at = "sent" /\ Fault
    /\ ends' = ends \ {e} /\ abandoned' = abandoned \cup {e.lease}
    /\ UNCHANGED <<via, mainVars, start, act, node, stops, cut, late>>

\* purgeExpired: idle for two minutes, or older than fifteen; its helpers are
\* aborted, its frames are kept.
Purged(l) ==
    /\ NodeTurn /\ Fault /\ node[l].open
    /\ node' = [node EXCEPT ![l].open = FALSE]
    /\ UNCHANGED <<via, mainVars, wireVars, stops, cut, late, abandoned>>
-----------------------------------------------------------------------------
Init ==
    /\ via \in Transports
    /\ status = "active" /\ lease = None /\ opening = FALSE
    /\ pc = [c \in Calls |-> "idle"] /\ op = [c \in Calls |-> "screenshot"]
    /\ seq = [c \in Calls |-> [n |-> 0, lease |-> NoLease]]
    /\ start = [c \in Calls |-> "none"] /\ act = [c \in Calls |-> "none"]
    /\ ends = {} /\ node = [l \in Calls |-> Closed]
    /\ stops = 0 /\ faults = 0 /\ cut = {} /\ late = {} /\ abandoned = {}

MainStep(c) ==
    \/ Probed(c) \/ Opened(c) \/ OpeningFails(c) \/ Returned(c) \/ Catch(c)

NodeStep(c) ==
    \/ StartsLease(c) \/ LeaseMade(c) \/ Enters(c) \/ Runs(c) \/ RunEnds(c)

Next ==
    \/ Stop \/ Expires \/ MainRestarts \/ Delivers
    \/ \E c \in Calls :
         \/ MainStep(c) \/ NodeStep(c) \/ TimesOut(c) \/ Purged(c)
         \/ \E o \in Operations : Begin(c, o)
    \/ \E e \in ends : EndArrives(e) \/ EndLost(e)

Spec == Init /\ [][Next]_vars

\* Promises settle, the probe has a timeout, the network delivers what it does
\* not lose (EndLost), and the executor answers a session.start.  A helper need
\* not return.
Fairness ==
    /\ WF_vars(Delivers)
    /\ WF_vars(\E e \in ends : EndArrives(e))
    /\ \A c \in Calls : /\ WF_vars(MainStep(c))
                        /\ WF_vars(StartsLease(c)) /\ WF_vars(LeaseMade(c))
FairSpec == Spec /\ Fairness
-----------------------------------------------------------------------------
(***************************************************************************)
(* Properties                                                              *)
(***************************************************************************)
Held == [id : Calls \cup {NoLease}, next : Nat, inFlight : Nat]

\* Every variable has its type, and a number in flight has its caller: the
\* finally block clears it whatever ends the call (invokeNodeAction).
TypeOK ==
    /\ via \in Transports /\ status \in {"active", "over"} /\ lease \in Held
    /\ opening \in BOOLEAN /\ pc \in [Calls -> PCs] /\ op \in [Calls -> Kinds]
    /\ seq \in [Calls -> [n : Nat, lease : Calls \cup {NoLease}]]
    /\ start \in [Calls -> Requests] /\ act \in [Calls -> Requests]
    /\ ends \subseteq [lease : Calls, at : {"queued", "sent"}]
    /\ node \in [Calls -> [open : BOOLEAN, last : Nat, framed : BOOLEAN,
                           executing : BOOLEAN]]
    /\ stops \in 0 .. MaxStops /\ faults \in 0 .. MaxFaults
    /\ cut \cup late \cup abandoned \subseteq Calls
    /\ lease.inFlight # 0 =>
          \E c \in Calls : pc[c] = "acts" /\ seq[c] = [n |-> lease.inFlight, lease |-> lease.id]

\* The main and the executor count alike: whenever no operation of the lease is
\* on its way or at the executor, the main's next number is the one that the
\* executor waits for, whatever raced, failed, was refused or timed out before:
\* nodeSequenceConsumed tells the truth (invokeNodeAction, withLease).
InStep ==
    /\ lease # None /\ lease.inFlight = 0 /\ node[lease.id].open
    /\ \A c \in Calls : seq[c].lease = lease.id => act[c] = "none"
    => lease.next = node[lease.id].last + 1

\* However many calls find no lease, the session has at most one at the
\* executor (ensureNodeLease's map of openings).
OneLease == \A a, b \in Calls : node[a].open /\ node[b].open => a = b

\* Once the session is over no operation is sent, though calls were opening a
\* lease, or waiting for one, when Stop came ("a concurrent tool cannot reopen
\* a lease while Stop is in progress").
NothingSentWhenOver ==
    [][\A c \in Calls : pc[c] # "acts" /\ pc'[c] = "acts" => status = "active"]_vars

\* Input that refers to a screenshot never begins at an executor of another
\* process once session.end has revoked its lease, be it already admitted
\* (endLease clears the frames; a lease that expires keeps them).
FramedInputStops ==
    \A c \in late : op[c] = "activate" \/ via = "local"


\* computer-use.js:451-453 (abortSession): session.end ignores the sequence "so
\* Stop always wins a race with an action that is entering or settling".
StopWins == late = {}
=============================================================================
