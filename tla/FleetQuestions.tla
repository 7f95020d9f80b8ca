--------------------------- MODULE FleetQuestions ---------------------------
(***************************************************************************)
(* The questions one coding agent asks its owner through the fleet         *)
(* supervisor: the records (src/fleet/store.js), the scan that asks,       *)
(* reviews, announces, delivers and closes (tick, act, reviewOpenQuestions *)
(* and deliverQueuedAnswers in src/fleet/supervisor.js, notifyQuestion in  *)
(* src/fleet/notify.js), the owner who answers meanwhile (answerQuestion)  *)
(* and the sends to the agent (deliver in src/fleet/executor.js).          *)
(*                                                                         *)
(* One agent's own asks (kind "agent-ask", not a merge ask, not the        *)
(* judge's).  An ask is named by the number of the agent's message it came *)
(* from, as agentAskKey does.  The supervisor is one event loop: a tick    *)
(* and the owner's calls interleave at their awaits; records are saved     *)
(* with every change, the rest is lost in a restart.                       *)
(***************************************************************************)
EXTENDS Naturals, FiniteSets, FiniteSetsExt

CONSTANTS
    MaxQuestions,   \* bound: question records
    MaxMessages,    \* bound: messages of the agent
    MaxAnswers,     \* bound: the owner's answers, dismissals and reopens
    MaxFaults       \* bound: restarts, unread sources, passing of days

ASSUME FleetAssumption ==
    MaxQuestions \in Nat /\ MaxMessages \in Nat /\ MaxAnswers \in Nat /\ MaxFaults \in Nat

Questions == 1 .. MaxQuestions
Messages == 1 .. MaxMessages

VARIABLES
    agent,     \* its last message, and whether that asks the owner something
    status,    \* of each record: "none" until it is made
    key,       \* dedupeKey: the message whose ask the record stands for
    held,      \* a closed record still holds its ask back (or may reopen)
    pinned,    \* reopened by the owner: the review keeps it
    pending,   \* pendingDelivery: an answer kept until it can be typed
    since,     \* pendingDelivery.since is over a day ago
    linked,    \* outreachId is recorded
    copy,      \* the outreach copy
    hidden,    \* awaitingReview: not shown before the review has seen it
    call,      \* answerQuestion under way (answering), see Calls
    tick,      \* the scan under way, see Ticks
    child,     \* the background send of a record's answer: one given now, or kept
    orphans,   \* kept answers whose background send outlived a restart
    answers,   \* history: the owner's acts so far
    faults,    \* history: faults so far
    answered,  \* history: the ask the owner answered, per record
    handed,    \* history: how often a kept answer reached the agent (up to 2)
    doubtful,  \* history: records whose send a restart cut, or was silent
    back       \* history: records reopened as their background send failed

records == <<status, key, held, pinned, pending, since, linked>>
sends == <<child, orphans, handed, doubtful, back>>
vars == <<agent, records, copy, hidden, call, tick, answers, faults, answered, sends>>

Open == {i \in Questions : status[i] = "open"}
Queued == {i \in Questions : status[i] = "answered" /\ pending[i] # "none"}

NoCall == [at |-> "none", linked |-> FALSE]
Calls == [at : {"none", "probes", "sends"}, linked : BOOLEAN]

\* at: where the scan stands; read: what became of its read of the thread; seen:
\* the last message it read; ask: that message, if it asks (else 0); item: the
\* record it reviews, announces or sends for; blip: that record came back; queue:
\* the kept answers it has yet to look at, as they were when it took them.
Idle == [at |-> "idle", read |-> "ok", seen |-> 0, ask |-> 0, item |-> 0,
         blip |-> FALSE, queue |-> [i \in Questions |-> "none"]]

Fault == faults < MaxFaults /\ faults' = faults + 1

\* executor.active: one send to the thread at a time.
InFlight ==
    \/ \E i \in Questions : call[i].at = "sends" \/ child[i] \in {"answer", "kept"}
    \/ tick.at = "sends"

\* resolveOutreach: the copy a record (as its caller read it) links to closes.
Resolve(c, is_linked, as) == IF is_linked /\ c = "open" THEN as ELSE c

(***************************************************************************)
(* The agent                                                               *)
(***************************************************************************)
AgentSpeaks ==
    /\ agent.n < MaxMessages
    /\ \E asks \in BOOLEAN : agent' = [n |-> agent.n + 1, asks |-> asks]
    /\ UNCHANGED <<records, copy, hidden, call, tick, answers, faults, answered, sends>>

(***************************************************************************)
(* The owner                                                               *)
(***************************************************************************)
Act == answers < MaxAnswers /\ answers' = answers + 1

\* answerQuestion as far as its first await: an option of an open question.
Answer(i) ==
    /\ Act /\ status[i] = "open" /\ i \notin hidden /\ call[i] = NoCall
    /\ call' = [call EXCEPT ![i] = [at |-> "probes", linked |-> linked[i]]]
    /\ answered' = [answered EXCEPT ![i] = key[i]]
    /\ UNCHANGED <<agent, records, copy, hidden, tick, faults, sends>>

\* Answered: store.answerQuestion or queueAnswer.  The former keeps the
\* pendingDelivery a reopened record may still have.
Close(i, kept) ==
    IF status[i] = "open"
    THEN /\ status' = [status EXCEPT ![i] = "answered"]
         /\ held' = [held EXCEPT ![i] = TRUE]
         /\ UNCHANGED <<key, pinned, linked>>
         /\ IF kept = "none" THEN UNCHANGED <<pending, since, handed>>
            ELSE /\ pending' = [pending EXCEPT ![i] = kept]
                 /\ since' = [since EXCEPT ![i] = FALSE]
                 /\ handed' = [handed EXCEPT ![i] = 0]
    ELSE UNCHANGED <<records, handed>>

CopyActed(i) == copy' = [copy EXCEPT ![i] = Resolve(@, call[i].linked, "acted")]

\* No way to type now: the answer is kept (typingWaits), or handed back.
AnswerWaits(i) ==
    /\ call[i].at \in {"probes", "sends"}
    /\ \/ Close(i, "waits") /\ (IF status[i] = "open" THEN CopyActed(i) ELSE UNCHANGED copy)
       \/ UNCHANGED <<records, handed, copy>>
    /\ call' = [call EXCEPT ![i] = NoCall]
    /\ UNCHANGED <<agent, hidden, tick, answers, faults, answered, child, orphans, doubtful,
                   back>>

AnswerSends(i) ==
    /\ call[i].at = "probes" /\ ~InFlight
    /\ call' = [call EXCEPT ![i].at = "sends"]
    /\ UNCHANGED <<agent, records, copy, hidden, tick, answers, faults, answered, sends>>

\* Typed, or started in the background: the question is answered either way.
AnswerSent(i) ==
    /\ call[i].at = "sends"
    /\ \/ UNCHANGED child
       \/ child' = [child EXCEPT ![i] = "answer"]
    /\ Close(i, "none") /\ CopyActed(i)
    /\ call' = [call EXCEPT ![i] = NoCall]
    /\ UNCHANGED <<agent, hidden, tick, answers, faults, answered, orphans, doubtful, back>>

Dismiss(i) ==
    /\ Act /\ status[i] = "open" /\ i \notin hidden
    /\ status' = [status EXCEPT ![i] = "dismissed"]
    /\ held' = [held EXCEPT ![i] = TRUE]
    /\ copy' = [copy EXCEPT ![i] = Resolve(@, linked[i], "acted")]
    /\ UNCHANGED <<agent, key, pinned, pending, since, linked, hidden, call, tick,
                   faults, answered, sends>>

BugFreeKey(k) == TRUE              \* a copy of the ask may be open already

\* No other record of the same ask is open.
FreeKey(k) == \A j \in Open : key[j] # k

\* reopenReviewed: the owner brings back what the review closed.
Reopen(i) ==
    /\ Act /\ status[i] = "closed" /\ FreeKey(key[i])
    /\ status' = [status EXCEPT ![i] = "open"]
    /\ pinned' = [pinned EXCEPT ![i] = TRUE]
    /\ copy' = [copy EXCEPT ![i] = IF linked[i] /\ @ = "resolved" THEN "open" ELSE @]
    /\ UNCHANGED <<agent, key, held, pending, since, linked, hidden, call, tick,
                   faults, answered, sends>>

(***************************************************************************)
(* The scan: it reads the thread, then asks, reviews, announces, delivers  *)
(* the kept answers and closes what is no longer asked, with an await      *)
(* between each.                                                           *)
(***************************************************************************)
TickReads ==
    /\ tick.at = "idle"
    /\ LET read(r) == [tick EXCEPT !.at = "asks", !.read = r, !.seen = agent.n,
                         !.ask = IF r = "ok" /\ agent.asks THEN agent.n ELSE 0]
       IN  \/ tick' = read("ok") /\ UNCHANGED faults
           \/ Fault /\ \E r \in {"unread", "gone"} : tick' = read(r)
    /\ UNCHANGED <<agent, records, copy, hidden, call, answers, answered, sends>>

Same(k) == {i \in Questions : status[i] # "none" /\ key[i] = k}
Older(k) == {i \in Open : key[i] < k}
Blips(k) == {i \in Same(k) : status[i] = "resolved" /\ held[i]}
Unused == {i \in Questions : status[i] = "none"}

\* _ownerClosed and _expiredHold: what holds the ask back.
HeldBack(k) ==
    {i \in Same(k) : status[i] \in {"answered", "dismissed", "closed", "expired"} /\ held[i]}

\* upsertQuestion: the ask's open record, a close that holds it back (0), an
\* older open ask it takes the place of, a record closed a moment ago, a new one.
Record(k) ==
    IF Open \cap Same(k) # {} THEN Min(Open \cap Same(k))
    ELSE IF HeldBack(k) # {} THEN 0
    ELSE IF Older(k) # {} THEN Min(Older(k))
    ELSE IF Blips(k) # {} THEN Max(Blips(k))
    ELSE IF Unused # {} THEN Min(Unused) ELSE 0     \* bound: no more records

\* act as far as the review's model call.
TickAsks ==
    /\ tick.at = "asks"
    /\ LET i == IF tick.ask = 0 THEN 0 ELSE Record(tick.ask)
       IN  /\ tick' = [tick EXCEPT !.at = "reviews", !.item = i,
                                   !.blip = i # 0 /\ status[i] = "resolved"]
           /\ status' = [j \in Questions |-> IF j = i THEN "open" ELSE status[j]]
           /\ key' = [j \in Questions |-> IF j = i THEN tick.ask ELSE key[j]]
           /\ pinned' = [j \in Questions |-> pinned[j] /\ (j = i => key[j] = tick.ask)]
           /\ hidden' = IF i # 0 /\ (i \notin Open \/ i \in hidden) THEN {i} ELSE {}
    /\ UNCHANGED <<agent, held, pending, since, linked, copy, call, answers, faults,
                   answered, sends>>

\* The review's verdict, applied to a question still open and not being
\* answered; a new one it did not settle stays hidden.  What may be shown is
\* announced: its copy is posted, or comes back.
TickReviews ==
    /\ tick.at = "reviews"
    /\ LET i == tick.item
           open == i # 0 /\ status[i] = "open"
           post == [tick EXCEPT !.at = "announces"]
           none == [post EXCEPT !.item = 0]
       IN  \/ /\ open /\ call[i] = NoCall /\ ~pinned[i]
              /\ status' = [status EXCEPT ![i] = "closed"]
              /\ held' = [held EXCEPT ![i] = TRUE]
              /\ copy' = [copy EXCEPT ![i] = Resolve(@, linked[i], "resolved")]
              /\ hidden' = {} /\ tick' = none
           \/ /\ i \in hidden /\ tick' = none
              /\ UNCHANGED <<status, held, copy, hidden>>
           \/ /\ hidden' = {} /\ tick' = (IF open THEN post ELSE none)
              /\ copy' = [j \in Questions |->
                            IF j = i /\ open /\ (~linked[j] \/ (tick.blip /\ copy[j] = "resolved"))
                            THEN "open" ELSE copy[j]]
              /\ UNCHANGED <<status, held>>
    /\ UNCHANGED <<agent, key, pinned, pending, since, linked, call, answers, faults,
                   answered, sends>>

\* The phone push is over: outreachId is recorded, whatever became of the
\* question; the kept answers are listed.
TickAnnounced ==
    /\ tick.at = "announces"
    /\ linked' = [j \in Questions |-> linked[j] \/ j = tick.item]
    /\ tick' = [tick EXCEPT !.at = "delivers", !.item = 0,
                   !.queue = [i \in Questions |-> IF i \in Queued THEN pending[i] ELSE "none"]]
    /\ UNCHANGED <<agent, status, key, held, pinned, pending, since, copy, hidden, call,
                   answers, faults, answered, sends>>

\* What the scan sees of a kept answer: its live pendingDelivery, or, settled
\* meanwhile, the one it took.
Kept(i) == IF pending[i] # "none" THEN pending[i] ELSE tick.queue[i]

BugSettling(i) == FALSE            \* sendingAt is not looked at

\* A background send of it is still settling.
Settling(i) == Kept(i) = "sending"

BugTooOld(i) == since[i] /\ tick.read = "gone"     \* only with its thread

\* It was kept for over a day.
TooOld(i) == since[i]

\* The agent no longer asks what was answered.
Stale(i) == tick.ask # key[i]

Looked(i) == tick' = [tick EXCEPT !.queue[i] = "none"]

\* Over a day old, or its thread gone: dropped; the former goes back to the owner,
\* unless the ask is open already or the scan has no thread for it (a source it
\* could not read may have left one).
TickDrops(i) ==
    /\ TooOld(i) \/ tick.read = "gone"
    /\ pending' = [pending EXCEPT ![i] = "none"]
    /\ \E thread \in BOOLEAN :
         /\ tick.read = "ok" => thread
         /\ tick.read = "gone" => ~thread
         /\ LET again == TooOld(i) /\ thread /\ status[i] = "answered" /\ FreeKey(key[i])
            IN  /\ status' = [status EXCEPT ![i] = IF again THEN "open" ELSE @]
                /\ linked' = [linked EXCEPT ![i] = @ /\ ~again]
    /\ Looked(i)
    /\ UNCHANGED <<key, held, pinned, since>>

\* Superseded: the owner typed in the thread since, or the ask is gone.
TickSupersedes(i) ==
    /\ ~TooOld(i) /\ tick.read = "ok"
    /\ pending' = [pending EXCEPT ![i] = "none"] /\ Looked(i)
    /\ UNCHANGED <<status, key, held, pinned, since, linked>>

\* Nothing can be said or typed now.
TickSkips(i) ==
    /\ Settling(i) \/ ~TooOld(i)
    /\ Settling(i) \/ tick.read = "unread" \/ (tick.read = "ok" /\ ~Stale(i))
    /\ Looked(i) /\ UNCHANGED records

TickSends(i) ==
    /\ ~TooOld(i) /\ tick.read = "ok" /\ ~Stale(i) /\ ~InFlight
    /\ tick' = [tick EXCEPT !.at = "sends", !.item = i]
    /\ UNCHANGED records

TickDelivers ==
    /\ tick.at = "delivers"
    /\ \E i \in Questions :
          /\ tick.queue[i] # "none" /\ \A j \in Questions : j < i => tick.queue[j] = "none"
          /\ \/ TickSkips(i)
             \/ ~Settling(i) /\ (TickDrops(i) \/ TickSupersedes(i) \/ TickSends(i))
    /\ UNCHANGED <<agent, copy, hidden, call, answers, faults, answered, sends>>

\* The send of a kept answer returned: typed, started in the background, blocked.
TickSent ==
    LET i == tick.item
        settle(p) == pending' = [pending EXCEPT ![i] = IF @ = "none" THEN @ ELSE p]
    IN  /\ tick.at = "sends"
        /\ tick' = [tick EXCEPT !.at = "delivers", !.item = 0, !.queue[i] = "none"]
        /\ \/ /\ settle("none") /\ UNCHANGED child
              /\ handed' = [handed EXCEPT ![i] = Min({2, @ + 1})]
           \/ /\ settle("sending") /\ UNCHANGED handed
              /\ child' = [child EXCEPT ![i] = "kept"]
           \/ UNCHANGED <<pending, child, handed>>
        /\ UNCHANGED <<agent, status, key, held, pinned, since, linked, copy, hidden, call,
                       answers, faults, answered, orphans, doubtful, back>>

\* answered ones too
BugSettled(i) ==
    /\ status[i] \in {"open", "answered"} /\ key[i] # tick.ask
    /\ tick.read = "gone" \/ (tick.read = "ok" /\ key[i] < tick.seen)

\* settledAsk: what was not asked again closes once the agent was read, or is gone.
Settled(i) ==
    /\ status[i] = "open" /\ key[i] # tick.ask
    /\ tick.read = "gone" \/ (tick.read = "ok" /\ key[i] < tick.seen)

TickCloses ==
    /\ tick.at = "delivers" /\ \A i \in Questions : tick.queue[i] = "none"
    /\ tick' = Idle
    /\ status' = [i \in Questions |-> IF Settled(i) THEN "resolved" ELSE status[i]]
    /\ held' = [i \in Questions |-> Settled(i) \/ held[i]]
    /\ copy' = [i \in Questions |->
                  IF Settled(i) THEN Resolve(copy[i], linked[i], "resolved") ELSE copy[i]]
    /\ UNCHANGED <<agent, key, pinned, pending, since, linked, hidden, call, answers, faults,
                   answered, sends>>

(***************************************************************************)
(* Background sends, time, restarts                                        *)
(***************************************************************************)
\* reopenIfUndelivered, or the end of a kept answer's send (delivery.done).
ChildEnds(i) ==
    /\ child[i] # "none" /\ child' = [child EXCEPT ![i] = "none"]
    /\ \E reached \in BOOLEAN :
         \/ /\ child[i] = "answer"
            /\ LET again == ~reached /\ status[i] = "answered"
               IN  /\ status' = [status EXCEPT ![i] = IF again THEN "open" ELSE @]
                   /\ linked' = [linked EXCEPT ![i] = @ /\ ~again]
                   /\ back' = IF again THEN back \cup {i} ELSE back
            /\ UNCHANGED <<pending, handed>>
         \/ /\ child[i] = "kept"
            /\ pending' = [pending EXCEPT ![i] =
                             IF @ = "none" \/ reached THEN "none" ELSE "waits"]
            /\ handed' = [handed EXCEPT ![i] = IF reached THEN Min({2, @ + 1}) ELSE @]
            /\ UNCHANGED <<status, linked, back>>
    /\ UNCHANGED <<agent, key, held, pinned, since, copy, hidden, call, tick, answers, faults,
                   answered, orphans, doubtful>>

OrphanEnds(i) ==
    /\ i \in orphans /\ orphans' = orphans \ {i}
    /\ \/ UNCHANGED handed
       \/ handed' = [handed EXCEPT ![i] = Min({2, @ + 1})]
    /\ UNCHANGED <<agent, records, copy, hidden, call, tick, answers, faults, answered,
                   child, doubtful, back>>

\* A quarter of an hour: the send of a kept answer counts as silent.  Ages are
\* counted to the start of the scan.
SendAges(i) ==
    /\ tick.at = "idle" /\ pending[i] = "sending"
    /\ pending' = [pending EXCEPT ![i] = "silent"] /\ doubtful' = doubtful \cup {i}
    /\ UNCHANGED <<agent, status, key, held, pinned, since, linked, copy, hidden, call, tick,
                   answers, faults, answered, child, orphans, handed, back>>

\* A day: a kept answer is too old.
DayPasses(i) ==
    /\ tick.at = "idle" /\ pending[i] # "none" /\ ~since[i]
    /\ since' = [since EXCEPT ![i] = TRUE]
    /\ UNCHANGED <<agent, status, key, held, pinned, pending, linked, copy, hidden, call, tick,
                   answers, faults, answered, sends>>

\* A day without an answer (_expireQuestions, closeExpired).
Expires(i) ==
    /\ Fault /\ status[i] = "open" /\ status' = [status EXCEPT ![i] = "expired"]
    /\ held' = [held EXCEPT ![i] = TRUE]
    /\ copy' = [copy EXCEPT ![i] = Resolve(@, linked[i], "acted")]
    /\ UNCHANGED <<agent, key, pinned, pending, since, linked, hidden, call, tick, answers,
                   answered, sends>>

\* A close no longer holds its ask back, or a resolved one is no blip any more.
\* A send ends within hours.
HoldEnds(i) ==
    /\ Fault /\ status[i] \notin {"none", "open"} /\ held[i] /\ child[i] = "none"
    /\ held' = [held EXCEPT ![i] = FALSE]
    /\ UNCHANGED <<agent, status, key, pinned, pending, since, linked, copy, hidden, call, tick,
                   answers, answered, sends>>

\* The records stay; a background send goes on without its caller.
Restart ==
    /\ Fault /\ tick' = Idle /\ hidden' = {} /\ call' = [i \in Questions |-> NoCall]
    /\ child' = [i \in Questions |-> "none"]
    /\ orphans' = orphans \cup {i \in Questions : child[i] = "kept"}
    /\ IF tick.at = "sends"
       THEN /\ doubtful' = doubtful \cup {tick.item}
            /\ \/ UNCHANGED handed
               \/ handed' = [handed EXCEPT ![tick.item] = Min({2, @ + 1})]
       ELSE UNCHANGED <<doubtful, handed>>
    /\ UNCHANGED <<agent, records, copy, answers, answered, back>>
-----------------------------------------------------------------------------
Init ==
    /\ agent = [n |-> 0, asks |-> FALSE]
    /\ status = [i \in Questions |-> "none"] /\ key = [i \in Questions |-> 0]
    /\ held = [i \in Questions |-> FALSE] /\ pinned = held
    /\ pending = [i \in Questions |-> "none"] /\ since = held /\ linked = held
    /\ copy = [i \in Questions |-> "none"] /\ hidden = {}
    /\ call = [i \in Questions |-> NoCall] /\ tick = Idle
    /\ answers = 0 /\ faults = 0 /\ answered = key
    /\ child = pending /\ orphans = {} /\ handed = key /\ doubtful = {} /\ back = {}

TickStep ==
    \/ TickReads \/ TickAsks \/ TickReviews \/ TickAnnounced \/ TickDelivers
    \/ TickSent \/ TickCloses

CallStep(i) == AnswerWaits(i) \/ AnswerSends(i) \/ AnswerSent(i)

Next ==
    \/ AgentSpeaks \/ TickStep \/ Restart
    \/ \E i \in Questions :
         \/ Answer(i) \/ CallStep(i) \/ Dismiss(i) \/ Reopen(i)
         \/ ChildEnds(i) \/ OrphanEnds(i) \/ SendAges(i) \/ DayPasses(i)
         \/ Expires(i) \/ HoldEnds(i)

Spec == Init /\ [][Next]_vars

\* Ticks come at an interval and end, calls and sends have their timeouts, and
\* time passes between one tick and a later one.
Fairness ==
    /\ WF_vars(TickStep)
    /\ \A i \in Questions :
         /\ WF_vars(CallStep(i)) /\ WF_vars(ChildEnds(i))
         /\ SF_vars(SendAges(i)) /\ SF_vars(DayPasses(i))
FairSpec == Spec /\ Fairness
-----------------------------------------------------------------------------
(***************************************************************************)
(* Properties                                                              *)
(***************************************************************************)
Statuses == {"none", "open", "answered", "dismissed", "closed", "resolved", "expired"}
Ticks == [at : {"idle", "asks", "reviews", "announces", "delivers", "sends"},
          read : {"ok", "unread", "gone"}, seen : 0 .. MaxMessages, ask : 0 .. MaxMessages,
          item : 0 .. MaxQuestions, blip : BOOLEAN,
          queue : [Questions -> {"none", "waits", "sending", "silent"}]]

\* Every variable has its type; an answer is kept only on a record the owner
\* answered, which is open again at most as a background send failed.
TypeOK ==
    /\ agent \in [n : 0 .. MaxMessages, asks : BOOLEAN] /\ status \in [Questions -> Statuses]
    /\ key \in [Questions -> 0 .. MaxMessages] /\ held \in [Questions -> BOOLEAN]
    /\ pinned \in [Questions -> BOOLEAN]
    /\ pending \in [Questions -> {"none", "waits", "sending", "silent"}]
    /\ since \in [Questions -> BOOLEAN] /\ linked \in [Questions -> BOOLEAN]
    /\ copy \in [Questions -> {"none", "open", "resolved", "acted"}] /\ hidden \subseteq Questions
    /\ call \in [Questions -> Calls] /\ tick \in Ticks
    /\ answers \in 0 .. MaxAnswers /\ faults \in 0 .. MaxFaults
    /\ answered \in [Questions -> 0 .. MaxMessages] /\ child \in [Questions -> {"none", "answer", "kept"}]
    /\ handed \in [Questions -> 0 .. 2] /\ orphans \cup doubtful \cup back \subseteq Questions
    /\ \A i \in Questions : pending[i] # "none" => status[i] = "answered" \/ i \in back

\* One ask is never put to the owner twice: no two records of one ask are open,
\* whichever hold ran out, whichever kept answer was handed back and whatever the
\* owner reopened, unless a failed background send reopened one (upsertQuestion,
\* deliverQueuedAnswers, reopenReviewed).
OneOpenPerAsk ==
    \A i, j \in Open : key[i] = key[j] => i = j \/ {i, j} \cap back # {}

\* A kept answer reaches its agent at most once, whatever scans, background sends
\* and restarts do, unless a restart cut its typing, a send was silent for a
\* quarter of an hour, or the question came back to the owner as a send failed and
\* was answered again beside it (markQueuedSending, settleQueuedAnswer).
HandedOnce == \A i \in Questions : handed[i] > 1 => i \in doubtful \cup back

\* A kept answer does not wait for ever: it is sent, superseded, dropped or
\* handed back (deliverQueuedAnswers).
KeptAnswerEnds == \A i \in Questions : i \in Queued ~> i \notin Queued

\* supervisor.js:1102-1105 (deliverQueuedAnswers): "a stale \"yes\" must never
\* land on a new question".
NoStaleYes == tick.at = "sends" => answered[tick.item] = tick.ask
=============================================================================
