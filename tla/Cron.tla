-------------------------------- MODULE Cron --------------------------------
(***************************************************************************)
(* The job scheduler (src/cron-scheduler.js) with its file                 *)
(* (src/file-backed-cron-scheduler.js), driven by the runtime's tick       *)
(* (src/abi-runtime.js).                                                   *)
(*                                                                         *)
(* A tick takes the due jobs as they stand and runs them one after the     *)
(* other, while owners run, edit and remove the same jobs, handlers hang,  *)
(* the file cannot be written and the daemon dies.  Between two jobs the   *)
(* tick does not return to the event loop (phase "next"): only a crash can *)
(* fall there.  A one-shot job is paused, durably, before its turn starts  *)
(* and removed after it.                                                   *)
(*                                                                         *)
(* Time is a small integer; a row's next is 0 for JavaScript's null.       *)
(***************************************************************************)
EXTENDS Integers, FiniteSets, SequencesExt

CONSTANTS
    Jobs,         \* the job ids
    OneShots,     \* the jobs with input.oneShot
    Interval,     \* intervalMs
    Budget,       \* tickBudgetMs
    MaxNow,       \* bound: the clock
    MaxEdits,     \* bound: manual runs and edits of the job list
    MaxRestarts,  \* bound: crashes
    MaxFaults     \* bound: saves that throw

ASSUME CronAssumption ==
    /\ IsFiniteSet(Jobs) /\ OneShots \subseteq Jobs
    /\ Interval \in Nat \ {0} /\ Budget \in Nat \ {0} /\ MaxNow \in Nat \ {0}
    /\ MaxEdits \in Nat /\ MaxRestarts \in Nat /\ MaxFaults \in Nat

VARIABLES
    up,        \* is the daemon running?
    now,       \* the clock
    rows,      \* this.jobs
    disk,      \* the file; stale when the last save threw; the faults so far
    running,   \* inFlight, in _runningById's order
    tick,      \* runDue's locals: the snapshot's rest, the rows still in jobs
    left,      \* timed-out turns of one-shots, abandoned but still running
    owed,      \* history: jobs whose fire fell due and was neither run nor edited
    done,      \* history: when the pass began that last settled a fire of the job
    passed,    \* history: launches by the tick while the job waits, since an edit
    turns,     \* history: turns the tick began since a one-shot was scheduled
    edits, restarts

vars == <<up, now, rows, disk, running, tick, left, owed, done, passed, turns,
          edits, restarts>>

Absent == [on |-> FALSE, next |-> 0, listed |-> FALSE]
Row(on, next) == [on |-> on, next |-> next, listed |-> TRUE]
NoTick == [phase |-> "idle", at |-> 0, todo |-> <<>>, attached |-> {}, ran |-> FALSE]
Nobody == "nobody"

Due(rs, t) == {j \in Jobs : rs[j].on /\ rs[j].next <= t}
Idle == up /\ tick.phase # "next"
Others(j) == Jobs \ {j}

(***************************************************************************)
(* The file                                                                *)
(***************************************************************************)
BugOldestLatest(rs) == IF rs = <<>> THEN Nobody ELSE Last(rs).job
Oldest(rs) == IF rs = <<>> THEN Nobody ELSE Head(rs).job

\* save() writes the jobs and the oldest live run, or throws.
Saves(d, rs, live) ==
    {[d EXCEPT !.rows = rs, !.marker = Oldest(live), !.stale = FALSE]}
    \cup {e \in {[d EXCEPT !.stale = TRUE, !.faults = @ + 1]} : e.faults <= MaxFaults}

BugClosingNever(d, rs, live) == {d}   \* runDue trusts the next job to save
Closing(d, rs, live) == Saves(d, rs, live)

(***************************************************************************)
(* One run: started, and settled                                           *)
(***************************************************************************)
BugToggledKeepsNext(row, on) == [row EXCEPT !.on = on, !.next = IF on THEN @ ELSE 0]
Toggled(row, on) == Row(on, IF on THEN now + Interval ELSE 0)

BugConsumptionUnsaved(d, rs, live) == {d}
Consumption(d, rs, live) == Saves(d, rs, live)

\* A one-shot's handler pauses the job, by id, and saves before anything else;
\* enableJob throws for a job no longer listed.
Consumed(d, j, live) ==
    LET paused == [rows EXCEPT ![j] = Toggled(@, FALSE)] IN
    IF ~rows[j].listed
    THEN {[rows |-> rows, disk |-> d, begun |-> FALSE]}
    ELSE {[rows |-> paused, disk |-> e, begun |-> ~e.stale] : e \in Consumption(d, paused, live)}

\* _executeJob up to the handler's first await: the marker is saved, and if it
\* cannot be the run fails with no handler started.
Launches(j, live) ==
    UNION {IF d.stale THEN {[rows |-> rows, disk |-> d, begun |-> FALSE]}
           ELSE IF j \in OneShots THEN Consumed(d, j, live)
           ELSE {[rows |-> rows, disk |-> d, begun |-> TRUE]} :
           d \in Saves(disk, rows, live)}

BugInFlightCronOnly(j) == \E r \in Range(running) : r.job = j /\ r.by = "cron"
InFlight(j) == \E r \in Range(running) : r.job = j

BugTimesOutCron(r) == r.by = "cron"   \* a manual run is awaited for ever
TimesOut(r) == r.by \in {"cron", "manual"}

\* A scheduled fire advances its row, if the row is still the listed one; a
\* manual run leaves the schedule alone.
Advanced(rs, j) ==
    [rs EXCEPT ![j].next = IF rs[j].on THEN tick.at + Interval ELSE 0]
BugSettledAlways(rs, j, by) ==
    IF rs[j].listed THEN Advanced(rs, j) ELSE rs
Settled(rs, j, by) ==
    IF by = "cron" /\ j \in tick.attached THEN Advanced(rs, j) ELSE rs

\* The tick goes on to the next job of its snapshot.
Onward(gone) == [tick EXCEPT !.phase = "next", !.todo = Tail(@), !.ran = TRUE,
                             !.attached = @ \ gone]
Detach(j) == tick' = [tick EXCEPT !.attached = @ \ {j}]

(***************************************************************************)
(* What the history remembers of a step                                    *)
(***************************************************************************)
\* Jobs are owed a fire from the moment they are due until excused.
Waits(j) == j \in owed /\ ~InFlight(j)
Owes(excused) ==
    /\ owed' = (owed \ excused) \cup Due(rows', now)
    /\ passed' = [j \in Jobs |-> IF j \in excused \/ ~Waits(j)' THEN 0 ELSE passed[j]]
Reschedules(j) ==
    owed' = (owed \ {j}) \cup Due(rows', now) /\ passed' = [k \in Jobs |-> 0]
Passes(j) ==
    /\ owed' = (owed \ {j}) \cup Due(rows', now)
    /\ passed' = [k \in Jobs |->
         IF k = j \/ ~Waits(k)' THEN 0
         ELSE IF Waits(k) THEN passed[k] + 1 ELSE passed[k]]
Fires(j) == IF j \in tick.attached THEN [done EXCEPT ![j] = tick.at] ELSE done

(***************************************************************************)
(* The tick                                                                *)
(***************************************************************************)
BugSnapshotsAnyOrder(t) == SetToSeqs(Due(rows, t))
Snapshots(t) ==
    {s \in SetToSeqs(Due(rows, t)) :
        \A i, k \in DOMAIN s : i < k => rows[s[i]].next <= rows[s[k]].next}

StartTick ==
    /\ up /\ tick.phase = "idle" /\ Due(rows, now) # {}
    /\ \E s \in Snapshots(now) :
         tick' = [phase |-> "next", at |-> now, todo |-> s, attached |-> Range(s), ran |-> FALSE]
    /\ UNCHANGED <<up, now, rows, disk, running, left, owed, done, passed, turns, edits, restarts>>

Exhausted == tick.todo = <<>> \/ (tick.ran /\ now - tick.at >= Budget)

TickEnds ==
    /\ up /\ tick.phase = "next" /\ Exhausted
    /\ tick' = NoTick
    /\ IF tick.ran THEN disk' \in Closing(disk, rows, running) ELSE UNCHANGED disk
    /\ UNCHANGED <<up, now, rows, running, left, owed, done, passed, turns, edits, restarts>>

TickSkips ==
    /\ up /\ tick.phase = "next" /\ ~Exhausted /\ InFlight(Head(tick.todo))
    /\ tick' = Onward({})
    /\ UNCHANGED <<up, now, rows, disk, running, left, owed, done, passed, turns, edits, restarts>>

TickStarts ==
    /\ up /\ tick.phase = "next" /\ ~Exhausted /\ ~InFlight(Head(tick.todo))
    /\ LET j == Head(tick.todo)
           live == Append(running, [job |-> j, by |-> "cron"])
       IN \E l \in Launches(j, live) :
            /\ disk' = l.disk
            /\ \/ /\ l.begun
                  /\ rows' = l.rows /\ running' = live
                  /\ tick' = [tick EXCEPT !.phase = "wait"]
                  /\ turns' = IF j \in OneShots THEN [turns EXCEPT ![j] = @ + 1] ELSE turns
                  /\ UNCHANGED done
               \/ /\ ~l.begun
                  /\ rows' = Settled(l.rows, j, "cron") /\ tick' = Onward({})
                  /\ done' = Fires(j)
                  /\ UNCHANGED <<running, turns>>
            /\ Passes(j)
    /\ UNCHANGED <<up, now, left, edits, restarts>>

(***************************************************************************)
(* A run ends: the handler resolves or throws, or its timer fires first    *)
(***************************************************************************)
RunEnds(i, how) ==
    LET r == running[i]
        removes == how = "ok" /\ r.job \in OneShots /\ rows[r.job].listed
        after == IF removes THEN [rows EXCEPT ![r.job] = Absent] ELSE rows
        gone == IF removes THEN {r.job} ELSE {}
        rest == RemoveAt(running, i)
    IN /\ Idle
       /\ how = "timeout" => TimesOut(r)
       /\ \E d \in (IF removes THEN Saves(disk, after, running) ELSE {disk}) :
            \/ /\ r.by = "cron"
               /\ tick' = Onward(gone)
               /\ rows' = IF removes THEN after ELSE Settled(after, r.job, "cron")
               /\ disk' = d
               /\ done' = IF removes THEN done ELSE Fires(r.job)
            \/ /\ r.by = "manual"
               /\ tick' = [tick EXCEPT !.attached = @ \ gone]
               /\ rows' = Settled(after, r.job, "manual")
               /\ disk' \in Saves(d, rows', rest)
               /\ UNCHANGED done
       /\ running' = rest
       /\ left' = IF how = "timeout" /\ r.job \in OneShots
                  THEN [left EXCEPT ![r.job] = @ + 1] ELSE left
       /\ Owes(IF r.by = "cron" THEN {r.job} ELSE gone)
       /\ UNCHANGED <<up, now, turns, edits, restarts>>

Ends(j, how) == \E i \in DOMAIN running : running[i].job = j /\ RunEnds(i, how)

\* A turn nobody waits for any more still removes its job, by id.
LateEnds(j) ==
    /\ Idle /\ left[j] > 0
    /\ left' = [left EXCEPT ![j] = @ - 1]
    /\ \/ /\ rows[j].listed
          /\ rows' = [rows EXCEPT ![j] = Absent]
          /\ disk' \in Saves(disk, rows', running)
       \/ /\ ~rows[j].listed
          /\ UNCHANGED <<rows, disk>>
    /\ UNCHANGED <<up, now, running, done, turns, edits, restarts>>
    /\ Detach(j) /\ Owes({j})

(***************************************************************************)
(* Owners, and agents through their scheduling tools                       *)
(***************************************************************************)
Edit == Idle /\ edits < MaxEdits /\ edits' = edits + 1

\* A failed start settles in the same turn of the event loop, and saves.
RunNow(j) ==
    /\ Edit /\ rows[j].listed /\ ~InFlight(j)
    /\ LET live == Append(running, [job |-> j, by |-> "manual"])
       IN \E l \in Launches(j, live) :
            /\ rows' = l.rows
            /\ \/ l.begun /\ running' = live /\ disk' = l.disk
               \/ ~l.begun /\ disk' \in Saves(l.disk, l.rows, running) /\ UNCHANGED running
    /\ Owes(IF j \in OneShots THEN {j} ELSE {})
    /\ UNCHANGED <<up, now, tick, left, done, turns, restarts>>

EnableJob(j, on) ==
    /\ Edit /\ rows[j].listed
    /\ rows' = [rows EXCEPT ![j] = Toggled(@, on)]
    /\ disk' \in Saves(disk, rows', running)
    /\ turns' = [turns EXCEPT ![j] = 0]
    /\ Reschedules(j)
    /\ UNCHANGED <<up, now, running, tick, left, done, restarts>>

RemoveJob(j) ==
    /\ Edit /\ rows[j].listed
    /\ rows' = [rows EXCEPT ![j] = Absent]
    /\ disk' \in Saves(disk, rows', running)
    /\ UNCHANGED <<up, now, running, left, done, turns, restarts>>
    /\ Detach(j) /\ Owes({j})

\* POST /cron and the scheduling tool (replace: true): a fresh row takes the
\* place of any other with its id, disabled (enabled: false) or not; its next
\* fire is computed either way.
AddJob(j) ==
    /\ Edit
    /\ \E on \in BOOLEAN, t \in {now, now + Interval} :
         rows' = [rows EXCEPT ![j] = Row(on, t)]
    /\ disk' \in Saves(disk, rows', running)
    /\ done' = [done EXCEPT ![j] = 0] /\ turns' = [turns EXCEPT ![j] = 0]
    /\ Detach(j) /\ Reschedules(j)
    /\ UNCHANGED <<up, now, running, left, restarts>>

(***************************************************************************)
(* The process and the clock                                               *)
(***************************************************************************)
\* Of a daemon that dies the file is left.  If it dies inside a pass between
\* two jobs, or while its last save had thrown, the file is behind.
Crash ==
    /\ up /\ restarts < MaxRestarts
    /\ up' = FALSE /\ restarts' = restarts + 1
    /\ rows' = disk.rows /\ running' = <<>> /\ tick' = NoTick
    /\ left' = [j \in Jobs |-> 0]
    /\ owed' = Due(rows', now) /\ passed' = [j \in Jobs |-> 0]
    /\ done' = IF disk.stale \/ ~Idle THEN [j \in Jobs |-> 0] ELSE done
    /\ UNCHANGED <<now, disk, turns, edits>>

\* load, and consumeInterruption's report and save.
Restart ==
    /\ ~up
    /\ up' = TRUE
    /\ disk' = [disk EXCEPT !.marker = Nobody, !.stale = FALSE]
    /\ UNCHANGED <<now, rows, running, tick, left, owed, done, passed, turns, edits, restarts>>

Clock ==
    /\ now < MaxNow /\ (up => Idle)
    /\ now' = now + 1
    /\ owed' = owed \cup Due(rows, now')
    /\ UNCHANGED <<up, rows, disk, running, tick, left, done, passed, turns, edits, restarts>>

Init ==
    /\ up = TRUE /\ now = 1
    /\ rows \in [Jobs -> {Row(TRUE, t) : t \in 1 .. 1 + Interval}]
    /\ disk = [rows |-> rows, marker |-> Nobody, stale |-> FALSE, faults |-> 0]
    /\ running = <<>> /\ tick = NoTick /\ left = [j \in Jobs |-> 0]
    /\ owed = Due(rows, 1)
    /\ done = [j \in Jobs |-> 0] /\ passed = [j \in Jobs |-> 0] /\ turns = [j \in Jobs |-> 0]
    /\ edits = 0 /\ restarts = 0

Next ==
    \/ StartTick \/ TickEnds \/ TickSkips \/ TickStarts
    \/ \E j \in Jobs, how \in {"ok", "failed", "timeout"} : Ends(j, how)
    \/ \E j \in Jobs : \/ LateEnds(j) \/ RunNow(j) \/ RemoveJob(j) \/ AddJob(j)
                       \/ \E on \in BOOLEAN : EnableJob(j, on)
    \/ Crash \/ Restart \/ Clock

Spec == Init /\ [][Next]_vars

\* The 10 s timer ticks, a pass takes its next step, a run's timer fires (it
\* waits while a pass holds the event loop), the supervisor restarts the
\* daemon; no handler need ever end by itself.
Fairness ==
    /\ WF_vars(StartTick \/ TickEnds \/ TickSkips \/ TickStarts \/ Restart)
    /\ \A j \in Jobs : SF_vars(Ends(j, "timeout"))

FairSpec == Spec /\ Fairness

(***************************************************************************)
(* Properties                                                              *)
(***************************************************************************)
RowOK(r) == /\ r.on \in BOOLEAN /\ r.listed \in BOOLEAN /\ r.next \in Nat
            /\ r.on => r.listed /\ r.next # 0

\* The variables have their types, and an enabled row has a next fire, in
\* memory and in the file: dueJobs would take null for 1970 and run the job at
\* every tick.  A disabled row may keep one, if it was added disabled.
TypeOK ==
    /\ up \in BOOLEAN /\ now \in 1 .. MaxNow
    /\ \A j \in Jobs : RowOK(rows[j]) /\ RowOK(disk.rows[j]) /\ left[j] \in Nat
    /\ disk.marker \in Jobs \cup {Nobody} /\ disk.faults \in 0 .. MaxFaults
    /\ \A r \in Range(running) : r.job \in Jobs /\ r.by \in {"cron", "manual"}
    /\ tick.phase \in {"idle", "next", "wait"} /\ tick.attached \subseteq Jobs
    /\ \A j \in tick.attached : rows[j].listed
    /\ owed \subseteq Jobs /\ edits \in 0 .. MaxEdits /\ restarts \in 0 .. MaxRestarts

\* The same job never has two live runs, whether the tick or an owner starts
\* them, and the tick waits exactly while a run of its own is in flight.  (A
\* handler abandoned at its timeout is no longer a run.)
NoOverlap ==
    /\ \A i, k \in DOMAIN running : running[i].job = running[k].job => i = k
    /\ tick.phase = "wait" <=> \E r \in Range(running) : r.by = "cron"

\* Whenever the daemon may be interrupted between two steps of the event loop,
\* the file names the run that has been live longest, and nobody when nothing
\* runs: the boot report neither misses a death in mid-run nor invents one.
MarkerExact ==
    Idle /\ ~disk.stale =>
      disk.marker = IF running = <<>> THEN Nobody ELSE running[1].job

\* A scheduled fire that was settled is never due again: neither in memory nor
\* in what a restart would load, unless the file could not be written.
NoRefire ==
    \A j \in Jobs :
      /\ rows[j].on => rows[j].next > done[j]
      /\ Idle /\ ~disk.stale /\ disk.rows[j].on => disk.rows[j].next > done[j]

\* A fire that fell due stays due, in memory and in the file, until the tick
\* has run it or an owner has changed the job: skips, budgets, manual runs,
\* timeouts and crashes defer it and lose none.  (A one-shot's own turn
\* pauses and removes the row with its id, which excuses it.)
FireNotLost ==
    up => /\ owed \subseteq Due(rows, now)
          /\ Idle /\ ~disk.stale => owed \subseteq Due(disk.rows, now)

\* The tick begins the turn of a one-shot at most once each time it is
\* scheduled, whatever fails or crashes between its pause and its removal.
OneShotOnce == \A j \in OneShots : turns[j] <= 1

\* While a job waits to be run, by the tick or by hand, and owners schedule
\* nothing, the tick launches each other job at most twice before it: from the
\* snapshot under way, and once more from the next if that job's fire is as old.
BoundedBypass == \A j \in Jobs : passed[j] <= 2 * Cardinality(Others(j))

\* Every fire that falls due is run, even if no handler ever returns.
DueRuns == \A j \in Jobs : j \in owed ~> j \notin owed
=============================================================================
