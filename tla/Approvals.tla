------------------------------ MODULE Approvals ------------------------------
(***************************************************************************)
(* Cards awaiting the owner's approval: PendingActionStore                 *)
(* (src/pending-actions.js), the executor every approval surface shares    *)
(* (src/approval-executor.js) and the gate that raises the cards           *)
(* (src/tool-registry.js, invoke and ownerInvoke).                         *)
(*                                                                         *)
(* The daemon is one JavaScript thread: a handler runs without             *)
(* interruption up to its next await, so one action below is one such run. *)
(* What interleaves are the surfaces (dashboard, overlay, phone, chat,     *)
(* voice), the tool handlers between their claim and their result, the     *)
(* clock, crashes and restarts.  Every change of a card is journaled with  *)
(* an fsync before the handler goes on: mem is the Map in memory, disk is  *)
(* what a replay of the snapshot and the journal would rebuild.  An append *)
(* that throws leaves the memory ahead of the disk and abandons the        *)
(* handler (DiskFaults); a crash can fall between two appends of one run.  *)
(***************************************************************************)
EXTENDS Integers, FiniteSets

CONSTANTS
    MaxCards,     \* bound: how many cards are ever created
    Keys,         \* (tool, dedupe key) pairs
    NoKey,        \* a card without a dedupe key
    Sessions,     \* chats a gated call may come from
    Codes,        \* spoken codes ("yes 42")
    NoCode,       \* a card without a code
    Ttls,         \* lifetimes a call may ask for; 0 is "never expires"
    CodeRetire,   \* CODE_RETIRE_MS in ticks
    MaxNow,       \* bound: last tick of the clock
    MaxRestarts,  \* bound: how often the daemon crashes
    DiskFaults    \* may a journal append throw?

ASSUME BoundsAssumption ==
    /\ MaxCards \in Nat \ {0} /\ CodeRetire \in Nat
    /\ MaxNow \in Nat \ {0} /\ MaxRestarts \in Nat
    /\ Ttls \subseteq Nat /\ DiskFaults \in BOOLEAN
    /\ Sessions # {}
ASSUME MarkersAssumption == NoKey \notin Keys /\ NoCode \notin Codes

Cards == 1 .. MaxCards      \* ids in order of creation: createId is never reused
Times == 0 .. MaxNow        \* 0 is "no time"; the clock starts at 1

VARIABLES
    up,        \* the daemon is running
    now,       \* the wall clock, in ticks
    mem,       \* this.actions: the cards in memory
    disk,      \* the cards a replay of the journal rebuilds
    nextId,    \* the next unused card id
    flights,   \* handlers started and not yet finished
    claims,    \* history: claims made per card; the source of execution ids
    ran,       \* history: how often a card's tool took effect
    restarts   \* history: crashes so far

vars == <<up, now, mem, disk, nextId, flights, claims, ran, restarts>>

Statuses == {"absent", "pending", "executing", "approved", "denied",
             "expired", "interrupted"}
Terminal == {"approved", "denied", "expired", "interrupted"}

Card == [status : Statuses, mode : {"queue", "chat", "owner"},
         key : Keys \cup {NoKey}, session : Sessions,
         code : Codes \cup {NoCode}, createdAt : Nat, expiresAt : Nat,
         exec : Nat]

Flight == [card : Cards, exec : Nat, by : {"surface", "owner"}, acted : BOOLEAN]

Absent == [status |-> "absent", mode |-> "queue", key |-> NoKey,
           session |-> CHOOSE s \in Sessions : TRUE, code |-> NoCode,
           createdAt |-> 0, expiresAt |-> 0, exec |-> 0]
NoCards == [c \in Cards |-> Absent]

(***************************************************************************)
(* The store's own steps, as operators on a map of cards.  The same        *)
(* operators change the memory and replay the journaled event onto disk.   *)
(* A definition named Bug... is a plausible mistake in the definition that *)
(* follows it; no specification uses one.                                  *)
(***************************************************************************)

BugDecidedUnguarded(m, S, st) ==   \* replay without "if (a)"
    [c \in Cards |-> IF c \in S THEN [m[c] EXCEPT !.status = st] ELSE m[c]]

\* A "decide" event: the status of the named cards becomes st.  A card whose
\* enqueue never reached the journal is not there to be changed.
Decided(m, S, st) ==
    [c \in Cards |-> IF c \in S /\ m[c].status # "absent"
                     THEN [m[c] EXCEPT !.status = st] ELSE m[c]]

\* _expirePending: the pending cards whose time has come.
Expirable(m) ==
    {c \in Cards : /\ m[c].status = "pending"
                   /\ m[c].expiresAt # 0 /\ now >= m[c].expiresAt}

BugClaimableTwice(m, c) ==         \* the check every route makes, but not the claim
    m[c].status \in {"pending", "executing"}

\* A "claim" event is one-shot: it only ever moves a pending card.
Claimable(m, c) == m[c].status = "pending"
Claimed(m, c, e) ==
    IF Claimable(m, c)
    THEN [m EXCEPT ![c] = [@ EXCEPT !.status = "executing", !.exec = e]] ELSE m

BugMayDecideAnyClaim(m, c, e) ==   \* the execution id is not compared
    m[c].status \in {"pending", "executing"}
BugMayDecideAlways(m, c, e) ==     \* a decision overwrites a decision
    m[c].status # "absent"

\* decide: a pending card, or the execution that claimed this one.
MayDecide(m, c, e) ==
    \/ m[c].status = "pending"
    \/ m[c].status = "executing" /\ e # 0 /\ e = m[c].exec

BugTakenOpenOnly(m) ==             \* a decided card frees its code at once
    {m[c].code : c \in {x \in Cards : m[x].status = "pending"}}

\* _newCode: any code that neither a pending card nor a card made within the
\* retirement window carries; none once all are taken.
TakenCodes(m) ==
    {m[c].code : c \in {x \in Cards : /\ m[x].status # "absent"
                                      /\ \/ m[x].status = "pending"
                                         \/ m[x].createdAt >= now - CodeRetire}}
BugNewCodesUndefined(m) ==         \* no "return null" once all are taken
    LET free == Codes \ TakenCodes(m) IN IF free = {} THEN {"undefined"} ELSE free

NewCodes(m) ==
    LET free == Codes \ TakenCodes(m) IN IF free = {} THEN {NoCode} ELSE free

NewCard(mode, k, s, code, ttl) ==
    [status |-> "pending", mode |-> mode, key |-> k, session |-> s,
     code |-> code, createdAt |-> now,
     expiresAt |-> IF ttl = 0 THEN 0 ELSE now + ttl, exec |-> 0]

BugReusableDecided(m, k) ==       \* finds a decided card, not the waiting one
    {c \in Cards : k # NoKey /\ m[c].status = "approved" /\ m[c].key = k}

\* The pending cards an enqueue with this key reuses instead of making one.
Reusable(m, k) ==
    {c \in Cards : k # NoKey /\ m[c].status = "pending" /\ m[c].key = k}

BugSupersededAnnounced(m, k, s) == \* retires the announced cards instead
    {c \in Cards : /\ m[c].status = "pending" /\ m[c].mode = "queue"
                   /\ m[c].key = k /\ m[c].session = s}

\* The chat cards an owner's own run of the same call retires.
Superseded(m, k, s) ==
    {c \in Cards : /\ m[c].status = "pending" /\ m[c].mode = "chat"
                   /\ m[c].key = k /\ m[c].session = s}

Fly(c, e, by) == [card |-> c, exec |-> e, by |-> by, acted |-> FALSE]

(***************************************************************************)
(* Operations                                                              *)
(***************************************************************************)

\* A store call that changes nothing but what its leading _expirePending
\* finds: list, get, findByCode, chatCandidates, a claim or a decision that
\* comes too late.
List ==
    /\ up
    /\ mem' = Decided(mem, Expirable(mem), "expired")
    /\ disk' = Decided(disk, Expirable(mem), "expired")
    /\ UNCHANGED <<up, now, nextId, flights, claims, ran, restarts>>

\* The append for x throws inside _expirePending: x and its predecessors are
\* expired in memory, only the predecessors on disk, and the call is abandoned.
ExpiryCut(x) ==
    /\ mem' = Decided(mem, {c \in Expirable(mem) : c <= x}, "expired")
    /\ disk' = Decided(disk, {c \in Expirable(mem) : c < x}, "expired")

ExpiryThrows ==
    /\ up /\ DiskFaults
    /\ \E x \in Expirable(mem) : ExpiryCut(x)
    /\ UNCHANGED <<up, now, nextId, flights, claims, ran, restarts>>

\* A gated call that must wait: invoke (mode "queue") or ownerInvoke (mode
\* "chat").  With a key, a pending card for the same call is reused and its
\* code is given out again; without one the store is not even expired first.
Enqueue(mode, k, s, ttl) ==
    LET E == IF k = NoKey THEN {} ELSE Expirable(mem)
        m == Decided(mem, E, "expired")
        d == Decided(disk, E, "expired")
    IN  /\ up
        /\ UNCHANGED <<up, now, flights, claims, ran, restarts>>
        /\ \/ /\ Reusable(m, k) # {}
              /\ mem' = m /\ disk' = d
              /\ UNCHANGED nextId
           \/ /\ Reusable(m, k) = {}
              /\ nextId <= MaxCards
              /\ nextId' = nextId + 1
              /\ \E code \in NewCodes(m) :
                   LET card == NewCard(mode, k, s, code, ttl)
                   IN  /\ mem' = [m EXCEPT ![nextId] = card]
                       /\ \/ disk' = [d EXCEPT ![nextId] = card]
                          \/ DiskFaults /\ disk' = d

\* executeApprovedAction up to its await: get, claimForExecution, and the tool
\* is called.  If the claim's append throws nothing is called.
Approve(c) ==
    LET m == Decided(mem, Expirable(mem), "expired")
        d == Decided(disk, Expirable(mem), "expired")
        e == claims[c] + 1
    IN  /\ up
        /\ Claimable(m, c)
        /\ mem' = Claimed(m, c, e)
        /\ claims' = [claims EXCEPT ![c] = e]
        /\ \/ /\ disk' = Claimed(d, c, e)
              /\ flights' = flights \cup {Fly(c, e, "surface")}
           \/ DiskFaults /\ disk' = d /\ UNCHANGED flights
        /\ UNCHANGED <<up, now, nextId, ran, restarts>>

\* A denial: the dashboard's deny route (whose check of the status is an await
\* older), the owner's spoken "no", or a cancelled G2 request.
Deny(c) ==
    LET m == Decided(mem, Expirable(mem), "expired")
        d == Decided(disk, Expirable(mem), "expired")
        S == IF MayDecide(m, c, 0) THEN {c} ELSE {}
    IN  /\ up /\ mem[c].status # "absent"
        /\ mem' = Decided(m, S, "denied")
        /\ disk' = Decided(d, S, "denied") \/ (DiskFaults /\ disk' = d)
        /\ UNCHANGED <<up, now, nextId, flights, claims, ran, restarts>>

\* The tool's handler has its effect on the world, at most once per flight.
HandlerActs(f) ==
    /\ up /\ f \in flights /\ ~f.acted
    /\ flights' = (flights \ {f}) \cup {[f EXCEPT !.acted = TRUE]}
    /\ ran' = [ran EXCEPT ![f.card] = @ + 1]
    /\ UNCHANGED <<up, now, mem, disk, nextId, claims, restarts>>

\* The awaited tool call returned, with or without an effect: decide(approve)
\* under the flight's execution id.  A throw loses the decision, not the effect.
Finish(f) ==
    LET m == Decided(mem, Expirable(mem), "expired")
        d == Decided(disk, Expirable(mem), "expired")
        S == IF MayDecide(m, f.card, f.exec) THEN {f.card} ELSE {}
    IN  /\ up /\ f \in flights
        /\ flights' = flights \ {f}
        /\ \/ /\ mem' = Decided(m, S, "approved")
              /\ disk' = Decided(d, S, "approved") \/ (DiskFaults /\ disk' = d)
           \/ DiskFaults /\ \E x \in Expirable(mem) : ExpiryCut(x)
        /\ UNCHANGED <<up, now, nextId, claims, ran, restarts>>

(***************************************************************************)
(* ownerInvoke when the owner's instruction is itself the approval:        *)
(* recordOwnerApproved (enqueue, then claimForExecution), then a denial of *)
(* every superseded chat card, the newest first, then the handler.  One    *)
(* run without an await, but with several appends: a throw or a crash may  *)
(* fall after any of them.                                                 *)
(***************************************************************************)
OwnerCard(k, s) == NewCard("owner", k, s, NoCode, 0)
AfterOwnerEnqueue(m, k, s) == [m EXCEPT ![nextId] = OwnerCard(k, s)]
AfterOwnerExpiry(m, k, s) ==
    Decided(AfterOwnerEnqueue(m, k, s), Expirable(mem), "expired")
AfterOwnerClaim(m, k, s) == Claimed(AfterOwnerExpiry(m, k, s), nextId, 1)
OwnerSupersedes(k, s) == Superseded(AfterOwnerClaim(mem, k, s), k, s)

OwnerBegins ==
    /\ up /\ nextId <= MaxCards
    /\ nextId' = nextId + 1
    /\ claims' = [claims EXCEPT ![nextId] = 1]
    /\ UNCHANGED <<now, ran>>

OwnerRun(k, s) ==
    /\ OwnerBegins
    /\ mem' = Decided(AfterOwnerClaim(mem, k, s), OwnerSupersedes(k, s), "denied")
    /\ disk' = Decided(AfterOwnerClaim(disk, k, s), OwnerSupersedes(k, s), "denied")
    /\ flights' = flights \cup {Fly(nextId, 1, "owner")}
    /\ UNCHANGED <<up, restarts>>

OwnerRunThrows(k, s) ==
    /\ DiskFaults /\ OwnerBegins
    /\ \/ mem' = AfterOwnerEnqueue(mem, k, s) /\ disk' = disk
       \/ \E x \in Expirable(mem) :
            /\ mem' = Decided(AfterOwnerEnqueue(mem, k, s),
                              {c \in Expirable(mem) : c <= x}, "expired")
            /\ disk' = Decided(AfterOwnerEnqueue(disk, k, s),
                               {c \in Expirable(mem) : c < x}, "expired")
       \/ /\ mem' = AfterOwnerClaim(mem, k, s)
          /\ disk' = AfterOwnerExpiry(disk, k, s)
       \/ \E x \in OwnerSupersedes(k, s) :
            /\ mem' = Decided(AfterOwnerClaim(mem, k, s),
                              {c \in OwnerSupersedes(k, s) : c >= x}, "denied")
            /\ disk' = Decided(AfterOwnerClaim(disk, k, s),
                               {c \in OwnerSupersedes(k, s) : c > x}, "denied")
    /\ UNCHANGED <<up, flights, restarts>>

(***************************************************************************)
(* Crash and restart                                                       *)
(***************************************************************************)
Wiped ==
    /\ up' = FALSE /\ mem' = NoCards /\ flights' = {}
    /\ restarts < MaxRestarts /\ restarts' = restarts + 1

Crash ==
    /\ up /\ Wiped
    /\ UNCHANGED <<now, disk, nextId, claims, ran>>

\* A crash between two appends of ownerInvoke.
OwnerRunCrashes(k, s) ==
    /\ OwnerBegins /\ Wiped
    /\ \/ disk' = AfterOwnerEnqueue(disk, k, s)
       \/ \E x \in OwnerSupersedes(k, s) :
            disk' = Decided(AfterOwnerClaim(disk, k, s),
                            {c \in OwnerSupersedes(k, s) : c > x}, "denied")

BugRecoveredRetries(m) ==          \* an interrupted execution is offered again
    Decided(Decided(m, {c \in Cards : m[c].status = "executing"}, "pending"),
            Expirable(m), "expired")
BugRecoveredExpiresOnly(m) ==      \* interrupted executions are left as they are
    Decided(m, Expirable(m), "expired")

\* The constructor: replay, then _recoverInterruptedExecutions, then
\* _expirePending, each journaled.
Recovered(m) ==
    Decided(Decided(m, {c \in Cards : m[c].status = "executing"}, "interrupted"),
            Expirable(m), "expired")

Restart ==
    /\ ~up /\ up' = TRUE
    /\ mem' = Recovered(disk) /\ disk' = Recovered(disk)
    /\ UNCHANGED <<now, nextId, flights, claims, ran, restarts>>

Tick ==
    /\ now < MaxNow /\ now' = now + 1
    /\ UNCHANGED <<up, mem, disk, nextId, flights, claims, ran, restarts>>
-----------------------------------------------------------------------------
Init ==
    /\ up = TRUE /\ now = 1
    /\ mem = NoCards /\ disk = NoCards /\ nextId = 1
    /\ flights = {} /\ restarts = 0
    /\ claims = [c \in Cards |-> 0] /\ ran = [c \in Cards |-> 0]

Next ==
    \/ List \/ ExpiryThrows \/ Crash \/ Restart \/ Tick
    \/ \E k \in Keys \cup {NoKey}, s \in Sessions, ttl \in Ttls : Enqueue("queue", k, s, ttl)
    \/ \E k \in Keys, s \in Sessions, ttl \in Ttls : Enqueue("chat", k, s, ttl)
    \/ \E k \in Keys, s \in Sessions :
         OwnerRun(k, s) \/ OwnerRunThrows(k, s) \/ OwnerRunCrashes(k, s)
    \/ \E c \in Cards : Approve(c) \/ Deny(c)
    \/ \E f \in flights : HandlerActs(f) \/ Finish(f)

Spec == Init /\ [][Next]_vars

\* Tools return (each has its own timeout) and the daemon is supervised.
Fairness ==
    /\ WF_vars(Restart)
    /\ \A c \in Cards : WF_vars(\E f \in flights : f.card = c /\ Finish(f))
FairSpec == Spec /\ Fairness
-----------------------------------------------------------------------------
(***************************************************************************)
(* Properties                                                              *)
(***************************************************************************)

\* Every variable has its type; a card has a creation time, in memory and on
\* disk; nothing of the memory survives a crash; an id not yet given out has
\* left no trace.
TypeOK ==
    /\ up \in BOOLEAN /\ now \in 1 .. MaxNow /\ restarts \in Nat
    /\ mem \in [Cards -> Card] /\ disk \in [Cards -> Card]
    /\ nextId \in 1 .. MaxCards + 1
    /\ flights \subseteq Flight
    /\ claims \in [Cards -> Nat] /\ ran \in [Cards -> Nat]
    /\ \A c \in Cards : /\ mem[c].status # "absent" => mem[c].createdAt # 0
                        /\ disk[c].status # "absent" => disk[c].createdAt # 0
    /\ ~up => mem = NoCards /\ flights = {}
    /\ \A c \in Cards : c >= nextId => /\ mem[c] = Absent /\ disk[c] = Absent
                                       /\ claims[c] = 0 /\ ran[c] = 0
    /\ \A f \in flights : f.card < nextId

\* An approved tool takes effect at most once per card, however many surfaces
\* race for it and wherever the daemon crashes (claimForExecution's promise:
\* "one-shot and fail-closed across a daemon crash").
AtMostOnce == \A c \in Cards : ran[c] <= 1

\* A card recorded as denied or expired has had no effect and has no handler
\* on its way: a denial or an expiry racing an approval loses or wins entirely
\* (decide and claimForExecution exclude each other).
RefusedNeverRan ==
    \A c \in Cards :
        (mem[c].status \in {"denied", "expired"} \/ disk[c].status \in {"denied", "expired"})
            => ran[c] = 0 /\ \A f \in flights : f.card # c

\* What the journal calls over stays over: no later event, replay or recovery
\* changes the outcome of a decided card.
DurableFinality ==
    [][\A c \in Cards : disk[c].status \in Terminal
                            => disk'[c].status = disk[c].status]_vars

\* Asking again for a call that is already waiting finds the waiting card: the
\* owner is never asked twice about the same request (enqueue's reuse).
OnePendingPerRequest ==
    \A a, b \in Cards :
        /\ mem[a].status = "pending" /\ mem[b].status = "pending"
        /\ mem[a].mode # "owner" /\ mem[b].mode # "owner"
        /\ mem[a].key = mem[b].key /\ mem[a].key # NoKey
        => a = b

\* A spoken code names one open card, and a code is not given to a new card
\* within the retirement window of the card that had it (_newCode).
CodesRetired ==
    \A a, b \in Cards :
        /\ a < b /\ mem[a].status # "absent" /\ mem[b].status # "absent"
        /\ mem[a].code = mem[b].code /\ mem[a].code # NoCode
        => /\ mem[b].createdAt > mem[a].createdAt + CodeRetire
           /\ ~(mem[a].status = "pending" /\ mem[b].status = "pending")

\* While the owner's instruction runs a call, no earlier chat card for the
\* same call in the same chat can still be approved (ownerInvoke retires it
\* "before the first await").
OwnerRunExclusive ==
    \A f \in flights, c \in Cards :
        /\ f.by = "owner" /\ c < f.card
        /\ mem[c].mode = "chat" /\ mem[c].key = mem[f.card].key
        /\ mem[c].session = mem[f.card].session
        => mem[c].status # "pending"

\* A claimed card never stays "executing": its handler's result, or the
\* recovery after a crash, decides it (executeApprovedAction,
\* _recoverInterruptedExecutions).
ClaimsAreResolved ==
    \A c \in Cards : (mem[c].status = "executing") ~> (mem[c].status \in Terminal)

(***************************************************************************)
(* The card as its owner sees it: the phase the journal, or a call under   *)
(* way, has committed it to.  A card the journal never heard of is closed  *)
(* once the memory can no longer run it: no replay can offer it again.     *)
(***************************************************************************)
PhaseOf(m, d, n, F, c) ==
    IF d[c].status \in {"denied", "expired"} THEN "refused"
    ELSE IF d[c].status \in {"approved", "interrupted"} THEN "closed"
    ELSE IF d[c].status = "executing" THEN "claimed"
    ELSE IF d[c].status = "pending" THEN "open"
    ELSE IF c >= n THEN "unasked"
    ELSE IF \E f \in F : f.card = c THEN "claimed"
    ELSE IF m[c].status = "pending" THEN "open" ELSE "closed"

Promise == INSTANCE OneShotPromise WITH
    phase <- [c \in Cards |-> PhaseOf(mem, disk, nextId, flights, c)],
    effect <- ran

\* Approvals implements OneShotPromise: through racing surfaces, failing
\* appends, crashes between appends and recoveries, a claimed card is never
\* open or refused again, a refused or closed card never moves, and a tool
\* acts only under a claim (claimForExecution: "one-shot and fail-closed
\* across a daemon crash").
KeepsPromise == Promise!Spec
=============================================================================
