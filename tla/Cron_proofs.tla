----------------------------- MODULE Cron_proofs -----------------------------
(***************************************************************************)
(* Proofs about Cron, for every finite set of jobs, any interval, budget   *)
(* and clock, and any number of edits, crashes and saves that throw.       *)
(***************************************************************************)
EXTENDS Cron, FiniteSetTheorems, SequenceTheorems, TLAPS

(***************************************************************************)
(* The inductive invariant.  What the file is worth to a restart rests on  *)
(* one fact, Current: whenever the event loop can be left, and while a     *)
(* pass has not run anything yet, a file that is not stale holds the rows  *)
(* in memory and the oldest live run.                                      *)
(***************************************************************************)
RowT == [on : BOOLEAN, next : Nat, listed : BOOLEAN]
Rows == {f \in [Jobs -> RowT] : \A j \in Jobs : RowOK(f[j])}
File == [rows : Rows, marker : Jobs \cup {Nobody}, stale : BOOLEAN, faults : 0 .. MaxFaults]
Run == [job : Jobs, by : {"cron", "manual"}]
Tick == [phase : {"idle", "next", "wait"}, at : Nat, todo : Seq(Jobs),
         attached : SUBSET Jobs, ran : BOOLEAN]

Types ==
    /\ up \in BOOLEAN /\ now \in 1 .. MaxNow /\ rows \in Rows /\ disk \in File
    /\ running \in Seq(Run) /\ tick \in Tick /\ left \in [Jobs -> Nat]
    /\ owed \subseteq Jobs /\ done \in [Jobs -> Nat] /\ turns \in [Jobs -> Nat]
    /\ edits \in 0 .. MaxEdits /\ restarts \in 0 .. MaxRestarts
    /\ \A j \in tick.attached : rows[j].listed

\* The runs in flight are of different jobs, at most one of them is the tick's,
\* and the tick waits exactly for that one.
Runs ==
    /\ \A i, k \in 1 .. Len(running) : running[i].job = running[k].job => i = k
    /\ \A i, k \in 1 .. Len(running) :
         running[i].by = "cron" /\ running[k].by = "cron" => i = k
    /\ tick.phase = "wait" <=> \E i \in 1 .. Len(running) : running[i].by = "cron"
    /\ tick.phase = "wait" => tick.todo # <<>>
    /\ \A i, k \in 1 .. Len(tick.todo) : tick.todo[i] = tick.todo[k] => i = k
    /\ ~up => running = <<>>

Current ==
    /\ (Idle \/ (up /\ ~tick.ran)) /\ ~disk.stale
         => disk.rows = rows /\ disk.marker = Oldest(running)
    /\ ~up => disk.rows = rows

Fired ==
    /\ tick.at <= now
    /\ \A j \in Jobs : done[j] <= now /\ (rows[j].on => rows[j].next > done[j])

\* A one-shot whose turn began is paused, in memory and in the file, and the
\* tick will not come to it again.
BegunOnce ==
    \A j \in OneShots :
        /\ turns[j] <= 1
        /\ turns[j] = 1 =>
             /\ ~rows[j].on /\ ~disk.rows[j].on
             /\ \A i \in 1 .. Len(tick.todo) :
                  tick.todo[i] = j => i = 1 /\ tick.phase = "wait"

IInv == Types /\ Runs /\ Current /\ Fired /\ BegunOnce /\ owed \subseteq Due(rows, now)

-----------------------------------------------------------------------------
(***************************************************************************)
(* The operators of the model                                              *)
(***************************************************************************)
LEMMA Constants == Jobs \in SUBSET Jobs /\ OneShots \subseteq Jobs /\ Interval \in Nat
                   /\ Interval > 0 /\ MaxNow \in Nat /\ MaxFaults \in Nat
  BY CronAssumption

\* An edit of one row keeps the rows well formed.
LEMMA RowEdit ==
    ASSUME NEW rs \in Rows, NEW j \in Jobs, NEW r \in RowT, RowOK(r),
           NEW s, s = [rs EXCEPT ![j] = r]
    PROVE  s \in Rows /\ s[j] = r /\ \A k \in Jobs \ {j} : s[k] = rs[k]
  BY DEF Rows

LEMMA RowValues ==
    ASSUME now \in 1 .. MaxNow
    PROVE  /\ Absent \in RowT /\ RowOK(Absent) /\ ~Absent.on
           /\ Row(FALSE, 0) \in RowT /\ RowOK(Row(FALSE, 0)) /\ ~Row(FALSE, 0).on
           /\ Row(FALSE, 0).listed
           /\ \A on \in BOOLEAN, t \in Nat \ {0} :
                /\ Row(on, t) \in RowT /\ RowOK(Row(on, t))
                /\ Row(on, t).next = t /\ Row(on, t).listed
           /\ \A r : Toggled(r, FALSE) = Row(FALSE, 0)
           /\ \A r : Toggled(r, TRUE) = Row(TRUE, now + Interval)
           /\ now + Interval \in Nat \ {0}
  BY Constants DEF RowT, RowOK, Absent, Row, Toggled

\* The oldest run is of a job.
LEMMA OldestType == \A s \in Seq(Run) : Oldest(s) \in Jobs \cup {Nobody}
<1>1. \A s \in Seq(Run) : s # <<>> => Head(s) \in Run
  OBVIOUS
<1> QED
  BY <1>1 DEF Oldest, Run

LEMMA FileMade ==
    ASSUME NEW r \in Rows, NEW m \in Jobs \cup {Nobody}, NEW s \in BOOLEAN,
           NEW f \in 0 .. MaxFaults
    PROVE  [rows |-> r, marker |-> m, stale |-> s, faults |-> f] \in File
  BY DEF File

\* A save writes what it is given, or leaves the file stale.
LEMMA SaveFacts ==
    ASSUME NEW d \in File, NEW rs \in Rows, NEW live \in Seq(Run),
           NEW e \in Saves(d, rs, live)
    PROVE  /\ e \in File
           /\ ~e.stale => e.rows = rs /\ e.marker = Oldest(live)
           /\ e.rows = rs \/ e.rows = d.rows
<1>1. CASE e = [d EXCEPT !.rows = rs, !.marker = Oldest(live), !.stale = FALSE]
  BY <1>1, OldestType DEF File
<1>2. CASE e = [d EXCEPT !.stale = TRUE, !.faults = @ + 1] /\ e.faults <= MaxFaults
  <2>1. d.faults \in 0 .. MaxFaults /\ e.faults = d.faults + 1 /\ d.rows \in Rows
        /\ d.marker \in Jobs \cup {Nobody}
    BY <1>2 DEF File
  <2>2. e.faults \in 0 .. MaxFaults
    BY <1>2, <2>1, Constants
  <2>3. e = [rows |-> d.rows, marker |-> d.marker, stale |-> TRUE, faults |-> e.faults]
    BY <1>2 DEF File
  <2> QED
    <3>1. e \in File
      BY <2>1, <2>2, <2>3, FileMade
    <3>2. e.stale /\ e.rows = d.rows
      BY <2>3
    <3> QED
      BY <3>1, <3>2
<1> QED
  BY <1>1, <1>2 DEF Saves

\* A launch: the rows it leaves, and the file.
LEMMA LaunchFacts ==
    ASSUME Types, NEW j \in Jobs, NEW live \in Seq(Run), NEW l \in Launches(j, live)
    PROVE  /\ l.rows \in Rows /\ l.disk \in File /\ l.begun \in BOOLEAN
           /\ \/ l.rows = rows
              \/ j \in OneShots /\ rows[j].listed /\ l.rows = [rows EXCEPT ![j] = Row(FALSE, 0)]
           /\ l.disk.rows \in {rows, disk.rows, l.rows}
           /\ l.begun => /\ ~l.disk.stale /\ l.disk.rows = l.rows
                         /\ l.disk.marker = Oldest(live)
                         /\ j \in OneShots => l.rows = [rows EXCEPT ![j] = Row(FALSE, 0)]
<1> DEFINE paused == [rows EXCEPT ![j] = Row(FALSE, 0)]
<1>1. rows \in Rows /\ disk \in File /\ now \in 1 .. MaxNow
  BY DEF Types
<1>2. paused \in Rows /\ [rows EXCEPT ![j] = Toggled(@, FALSE)] = paused
  BY <1>1, RowValues, RowEdit
<1>3. PICK d \in Saves(disk, rows, live) :
         l \in IF d.stale THEN {[rows |-> rows, disk |-> d, begun |-> FALSE]}
               ELSE IF j \in OneShots THEN Consumed(d, j, live)
               ELSE {[rows |-> rows, disk |-> d, begun |-> TRUE]}
  BY DEF Launches
<1>4. /\ d \in File /\ (~d.stale => d.rows = rows /\ d.marker = Oldest(live))
      /\ d.rows = rows \/ d.rows = disk.rows
  BY <1>1, SaveFacts
<1>5. CASE d.stale
  <2>1. l.rows = rows /\ l.disk = d /\ l.begun = FALSE
    BY <1>3, <1>5
  <2> QED
    BY <1>1, <1>4, <2>1
<1>6. CASE ~d.stale /\ j \notin OneShots
  <2>1. l.rows = rows /\ l.disk = d /\ l.begun = TRUE
    BY <1>3, <1>6
  <2> QED
    BY <1>1, <1>4, <1>6, <2>1
<1>7. CASE ~d.stale /\ j \in OneShots
  <2>1. CASE ~rows[j].listed
    <3>1. l.rows = rows /\ l.disk = d /\ l.begun = FALSE
      BY <1>3, <1>7, <2>1 DEF Consumed
    <3> QED
      BY <1>1, <1>4, <3>1
  <2>2. CASE rows[j].listed
    <3>1. PICK e \in Saves(d, paused, live) : l = [rows |-> paused, disk |-> e, begun |-> ~e.stale]
      BY <1>2, <1>3, <1>7, <2>2 DEF Consumed, Consumption
    <3>2. /\ e \in File /\ (~e.stale => e.rows = paused /\ e.marker = Oldest(live))
          /\ e.rows = paused \/ e.rows = d.rows
      BY <1>2, <1>4, SaveFacts
    <3>3. l.rows = paused /\ l.disk = e /\ l.begun = ~e.stale
      BY <3>1
    <3>4. l.begun \in BOOLEAN
      BY <3>3
    <3> QED
      BY <1>1, <1>2, <1>4, <1>7, <2>2, <3>2, <3>3, <3>4
  <2> QED
    BY <2>1, <2>2
<1> QED
  BY <1>5, <1>6, <1>7

\* A fire that settles: the row advances past it, or is not the tick's any more.
LEMMA SettledFacts ==
    ASSUME NEW rs \in Rows, NEW j \in Jobs, tick \in Tick
    PROVE  LET s == Settled(rs, j, "cron")
           IN  /\ s \in Rows /\ \A k \in Jobs \ {j} : s[k] = rs[k]
               /\ s[j].on = rs[j].on /\ s[j].listed = rs[j].listed
               /\ j \in tick.attached /\ rs[j].on => s[j].next = tick.at + Interval
               /\ j \notin tick.attached => s = rs
<1>1. CASE j \notin tick.attached
  BY <1>1 DEF Settled
<1>2. CASE j \in tick.attached
  <2> DEFINE r == [rs[j] EXCEPT !.next = IF rs[j].on THEN tick.at + Interval ELSE 0]
  <2>1. rs[j] \in RowT /\ RowOK(rs[j]) /\ tick.at \in Nat
    BY DEF Rows, Tick
  <2>2. r \in RowT /\ RowOK(r) /\ r.on = rs[j].on /\ r.listed = rs[j].listed
        /\ (rs[j].on => r.next = tick.at + Interval)
    BY <2>1, Constants DEF RowT, RowOK
  <2>3. Settled(rs, j, "cron") = [rs EXCEPT ![j] = r]
    BY <1>2 DEF Settled, Advanced, Rows
  <2> QED
    <3> HIDE DEF r
    <3>1. /\ Settled(rs, j, "cron") \in Rows /\ Settled(rs, j, "cron")[j] = r
          /\ \A k \in Jobs \ {j} : Settled(rs, j, "cron")[k] = rs[k]
      BY <2>2, <2>3, RowEdit
    <3> QED
      BY <1>2, <2>2, <3>1
<1> QED
  BY <1>1, <1>2

\* What is left of the runs when one ends.
LEMMA RemoveFacts ==
    ASSUME NEW s \in Seq(Run), NEW i \in 1 .. Len(s)
    PROVE  /\ RemoveAt(s, i) \in Seq(Run) /\ Len(RemoveAt(s, i)) = Len(s) - 1
           /\ \A k \in 1 .. Len(s) - 1 :
                RemoveAt(s, i)[k] = IF k < i THEN s[k] ELSE s[k + 1]
<1>1. /\ Len(s) \in Nat /\ i \in Nat /\ 1 <= i /\ i <= Len(s)
      /\ \A k \in 1 .. Len(s) : s[k] \in Run
  BY LenProperties, ElementOfSeq
<1> DEFINE t == SubSeq(s, 1, i - 1)
           u == SubSeq(s, i + 1, Len(s))
<1>2. t \in Seq(Run) /\ Len(t) = i - 1 /\ \A k \in 1 .. i - 1 : t[k] = s[k]
  <2>1. \A k \in 1 .. i - 1 : s[k] \in Run
    BY <1>1
  <2>2. 1 \in Int /\ i - 1 \in Int
    BY <1>1
  <2>3. /\ t \in Seq(Run) /\ Len(t) = IF 1 <= i - 1 THEN i - 1 - 1 + 1 ELSE 0
        /\ \A k \in 1 .. i - 1 - 1 + 1 : t[k] = s[1 + k - 1]
    BY <2>1, <2>2, SubSeqProperties
  <2> HIDE DEF t
  <2> QED
    BY <1>1, <2>3
<1>3. /\ u \in Seq(Run) /\ Len(u) = Len(s) - i
      /\ \A k \in 1 .. Len(s) - i : u[k] = s[k + i]
  <2>1. \A k \in i + 1 .. Len(s) : s[k] \in Run
    BY <1>1
  <2>2. i + 1 \in Int /\ Len(s) \in Int
    BY <1>1
  <2>3. /\ u \in Seq(Run)
        /\ Len(u) = IF i + 1 <= Len(s) THEN Len(s) - (i + 1) + 1 ELSE 0
        /\ \A k \in 1 .. Len(s) - (i + 1) + 1 : u[k] = s[i + 1 + k - 1]
    BY <2>1, <2>2, SubSeqProperties
  <2> HIDE DEF u
  <2> QED
    BY <1>1, <2>3
<1>4. RemoveAt(s, i) = t \o u
  BY DEF RemoveAt
<1> HIDE DEF t, u
<1>5. /\ t \o u \in Seq(Run) /\ Len(t \o u) = Len(t) + Len(u)
      /\ \A k \in 1 .. Len(t) + Len(u) :
           (t \o u)[k] = IF k <= Len(t) THEN t[k] ELSE u[k - Len(t)]
  BY <1>2, <1>3, ConcatProperties
<1>6. ASSUME NEW k \in 1 .. Len(s) - 1
      PROVE  RemoveAt(s, i)[k] = IF k < i THEN s[k] ELSE s[k + 1]
  <2>1. CASE k < i
    BY <1>1, <1>2, <1>3, <1>4, <1>5, <2>1
  <2>2. CASE k >= i
    <3>1. k - (i - 1) \in 1 .. Len(s) - i /\ k \in 1 .. Len(t) + Len(u) /\ ~(k <= Len(t))
      BY <1>1, <1>2, <1>3, <2>2
    <3>2. (t \o u)[k] = u[k - (i - 1)]
      BY <1>2, <1>5, <3>1
    <3> QED
      BY <1>1, <1>3, <1>4, <2>2, <3>1, <3>2
  <2> QED
    BY <1>1, <2>1, <2>2
<1> QED
  BY <1>1, <1>2, <1>3, <1>4, <1>5, <1>6

\* Jobs fall due as time passes, and stay due if their rows stay.
LEMMA DueFacts ==
    /\ \A rs, t : Due(rs, t) \subseteq Jobs
    /\ \A rs \in Rows, t \in Nat : Due(rs, t) \subseteq Due(rs, t + 1)
    /\ \A rs, r2, t : \A j : (\A k \in Jobs \ {j} : r2[k] = rs[k])
                        => Due(rs, t) \ {j} \subseteq Due(r2, t)
  BY DEF Due, Rows, RowT

\* What was owed stays due when one row changes, if its own fire is excused.
LEMMA OwedAfter ==
    ASSUME NEW rs \in Rows, NEW r2 \in Rows, NEW t \in Nat, NEW o \in SUBSET Due(rs, t),
           NEW j \in Jobs, \A k \in Jobs \ {j} : r2[k] = rs[k]
    PROVE  (o \ {j}) \cup Due(r2, t) \subseteq Due(r2, t) /\ Due(r2, t) \subseteq Jobs
  BY DEF Due

-----------------------------------------------------------------------------
(***************************************************************************)
(* Every step keeps the invariant                                          *)
(***************************************************************************)
\* The invariant holds at the boot of a daemon with any list of jobs.
THEOREM Initial == Init => IInv
<1> SUFFICES ASSUME Init PROVE IInv
  OBVIOUS
<1>1. /\ up = TRUE /\ now = 1 /\ running = <<>> /\ tick = NoTick /\ owed = Due(rows, 1)
      /\ disk = [rows |-> rows, marker |-> Nobody, stale |-> FALSE, faults |-> 0]
      /\ rows \in [Jobs -> {Row(TRUE, t) : t \in 1 .. 1 + Interval}]
      /\ edits = 0 /\ restarts = 0
      /\ left = [j \in Jobs |-> 0] /\ done = [j \in Jobs |-> 0] /\ turns = [j \in Jobs |-> 0]
  BY DEF Init
<1>2. 1 \in 1 .. MaxNow /\ 0 \in 0 .. MaxFaults /\ 0 \in 0 .. MaxEdits /\ 0 \in 0 .. MaxRestarts
  BY CronAssumption
<1>3. rows \in Rows /\ \A j \in Jobs : rows[j].next > 0
  <2>1. \A t \in 1 .. 1 + Interval : /\ Row(TRUE, t) \in RowT /\ RowOK(Row(TRUE, t))
                                     /\ Row(TRUE, t).next > 0
    BY Constants DEF RowT, Row, RowOK
  <2> QED
    BY <1>1, <2>1 DEF Rows
<1>4. disk \in File
  BY <1>1, <1>2, <1>3, FileMade
<1>5. /\ NoTick \in Tick /\ NoTick.todo = <<>> /\ NoTick.phase = "idle" /\ NoTick.at = 0
      /\ NoTick.attached = {}
  BY DEF NoTick, Tick
<1>6. Types
  <2>1. running \in Seq(Run) /\ owed \subseteq Jobs
    BY <1>1 DEF Due
  <2>2. left \in [Jobs -> Nat] /\ done \in [Jobs -> Nat] /\ turns \in [Jobs -> Nat]
    BY <1>1
  <2> QED
    BY <1>1, <1>2, <1>3, <1>4, <1>5, <2>1, <2>2 DEF Types
<1>7. Runs /\ Current
  BY <1>1, <1>5 DEF Runs, Current, Oldest
<1>8. Fired
  BY <1>1, <1>3, <1>5 DEF Fired
<1>9. BegunOnce
  BY <1>1, <1>5, Constants DEF BegunOnce
<1> QED
  BY <1>1, <1>6, <1>7, <1>8, <1>9 DEF IInv

LEMMA StartTickStep == ASSUME IInv, StartTick PROVE IInv'
<1>1. PICK s \in Snapshots(now) :
        tick' = [phase |-> "next", at |-> now, todo |-> s, attached |-> Range(s), ran |-> FALSE]
  BY DEF StartTick
<1>2. /\ up /\ tick.phase = "idle" /\ rows \in Rows /\ now \in Nat /\ Idle
      /\ UNCHANGED <<up, now, rows, disk, running, left, owed, done, passed, turns, edits, restarts>>
  BY Constants DEF StartTick, IInv, Types, Idle
<1>3. /\ s \in Seq(Jobs) /\ Range(s) \subseteq Due(rows, now)
      /\ \A i, k \in 1 .. Len(s) : s[i] = s[k] => i = k
      /\ \A i \in 1 .. Len(s) : s[i] \in Due(rows, now)
  <2> DEFINE n == Cardinality(Due(rows, now))
  <2>1. Due(rows, now) \subseteq Jobs /\ IsFiniteSet(Due(rows, now))
    BY CronAssumption, FS_Subset DEF Due
  <2>2. n \in Nat
    BY <2>1, FS_CardinalityType
  <2>3. s \in [1 .. n -> Due(rows, now)] /\ \A i, k \in 1 .. n : i # k => s[i] # s[k]
    BY DEF Snapshots, SetToSeqs
  <2> HIDE DEF n
  <2>4. s \in Seq(Jobs) /\ Len(s) = n /\ DOMAIN s = 1 .. n
    BY <2>1, <2>2, <2>3
  <2> QED
    BY <2>3, <2>4 DEF Range
<1>4. tick' \in Tick /\ tick'.phase = "next" /\ tick'.at = now /\ tick'.todo = s
      /\ tick'.attached = Range(s) /\ tick'.ran = FALSE
  <2>1. Range(s) \in SUBSET Jobs
    BY <1>3 DEF Due
  <2> QED
    BY <1>1, <1>2, <1>3, <2>1 DEF Tick
<1>5. \A j \in Range(s) : rows[j].listed
  BY <1>2, <1>3 DEF Due, Rows, RowOK
<1>6. Types'
  BY <1>2, <1>4, <1>5 DEF IInv, Types
<1>7. Runs'
  BY <1>2, <1>3, <1>4 DEF IInv, Runs
<1>8. Current' /\ Fired'
  BY <1>2, <1>4 DEF IInv, Current, Fired, Idle
<1>9. BegunOnce'
  <2>1. \A j \in OneShots : turns[j] = 1 => \A i \in 1 .. Len(s) : s[i] # j
    BY <1>3 DEF IInv, BegunOnce, Due
  <2> QED
    BY <1>2, <1>4, <2>1 DEF IInv, BegunOnce
<1> QED
  BY <1>2, <1>6, <1>7, <1>8, <1>9 DEF IInv

LEMMA TickEndsStep == ASSUME IInv, TickEnds PROVE IInv'
<1>1. /\ up /\ tick.phase = "next" /\ tick' = NoTick
      /\ IF tick.ran THEN disk' \in Closing(disk, rows, running) ELSE UNCHANGED disk
      /\ UNCHANGED <<up, now, rows, running, left, owed, done, passed, turns, edits, restarts>>
  BY DEF TickEnds
<1>2. /\ NoTick \in Tick /\ NoTick.todo = <<>> /\ NoTick.phase = "idle" /\ NoTick.at = 0
      /\ NoTick.attached = {} /\ Len(NoTick.todo) = 0
  BY DEF NoTick, Tick
<1>3. /\ disk' \in File /\ (disk'.rows = rows \/ disk'.rows = disk.rows)
      /\ ~disk'.stale => disk'.rows = rows /\ disk'.marker = Oldest(running)
  <2>1. rows \in Rows /\ disk \in File /\ running \in Seq(Run)
    BY DEF IInv, Types
  <2>2. CASE tick.ran
    BY <1>1, <2>1, <2>2, SaveFacts DEF Closing
  <2>3. CASE ~tick.ran
    BY <1>1, <2>1, <2>3 DEF IInv, Current
  <2> QED
    BY <2>2, <2>3
<1>4. Types'
  BY <1>1, <1>2, <1>3 DEF IInv, Types
<1>5. Runs'
  BY <1>1, <1>2 DEF IInv, Runs
<1>6. Current'
  BY <1>1, <1>3 DEF Current
<1>7. Fired'
  BY <1>1, <1>2 DEF IInv, Fired, Types
<1>8. BegunOnce'
  BY <1>1, <1>2, <1>3 DEF IInv, BegunOnce
<1> QED
  BY <1>1, <1>4, <1>5, <1>6, <1>7, <1>8 DEF IInv

\* The rest of the snapshot, when the tick goes on to its next job.
LEMMA OnwardFacts ==
    ASSUME Types, Runs, tick.todo # <<>>, NEW gone \in SUBSET Jobs
    PROVE  LET t == Onward(gone)
           IN  /\ t \in Tick /\ t.phase = "next" /\ t.at = tick.at /\ t.ran = TRUE
               /\ t.attached = tick.attached \ gone
               /\ Len(t.todo) = Len(tick.todo) - 1
               /\ \A i \in 1 .. Len(t.todo) : t.todo[i] = tick.todo[i + 1]
               /\ \A i, k \in 1 .. Len(t.todo) : t.todo[i] = t.todo[k] => i = k
<1>1. tick.todo \in Seq(Jobs) /\ tick \in Tick
  BY DEF Types, Tick
<1>2. /\ Tail(tick.todo) \in Seq(Jobs) /\ Len(Tail(tick.todo)) = Len(tick.todo) - 1
      /\ \A i \in 1 .. Len(Tail(tick.todo)) : Tail(tick.todo)[i] = tick.todo[i + 1]
      /\ Len(tick.todo) \in Nat /\ Len(tick.todo) > 0
  BY <1>1, HeadTailProperties, EmptySeq
<1>3. /\ Onward(gone) \in Tick /\ Onward(gone).phase = "next" /\ Onward(gone).at = tick.at
      /\ Onward(gone).ran = TRUE /\ Onward(gone).todo = Tail(tick.todo)
      /\ Onward(gone).attached = tick.attached \ gone
  BY <1>1, <1>2 DEF Onward, Tick
<1>4. \A i, k \in 1 .. Len(Tail(tick.todo)) : Tail(tick.todo)[i] = Tail(tick.todo)[k] => i = k
  BY <1>2 DEF Runs
<1> QED
  BY <1>2, <1>3, <1>4

LEMMA TickSkipsStep == ASSUME IInv, TickSkips PROVE IInv'
<1>1. /\ up /\ tick.phase = "next" /\ tick.todo # <<>> /\ tick' = Onward({})
      /\ UNCHANGED <<up, now, rows, disk, running, left, owed, done, passed, turns, edits, restarts>>
  BY DEF TickSkips, Exhausted
<1>2. /\ tick' \in Tick /\ tick'.phase = "next" /\ tick'.at = tick.at /\ tick'.ran = TRUE
      /\ tick'.attached = tick.attached
      /\ Len(tick'.todo) = Len(tick.todo) - 1 /\ Len(tick.todo) \in Nat
      /\ \A i \in 1 .. Len(tick'.todo) : tick'.todo[i] = tick.todo[i + 1]
      /\ \A i, k \in 1 .. Len(tick'.todo) : tick'.todo[i] = tick'.todo[k] => i = k
  <2>1. tick.todo \in Seq(Jobs)
    BY DEF IInv, Types, Tick
  <2> QED
    <3>1. {} \in SUBSET Jobs /\ Types /\ Runs
      BY DEF IInv
    <3>2. /\ Onward({}) \in Tick /\ Onward({}).phase = "next" /\ Onward({}).at = tick.at
          /\ Onward({}).ran = TRUE /\ Onward({}).attached = tick.attached \ {}
          /\ Len(Onward({}).todo) = Len(tick.todo) - 1
          /\ \A i \in 1 .. Len(Onward({}).todo) : Onward({}).todo[i] = tick.todo[i + 1]
          /\ \A i, k \in 1 .. Len(Onward({}).todo) :
               Onward({}).todo[i] = Onward({}).todo[k] => i = k
      BY <1>1, <3>1, OnwardFacts
    <3> QED
      BY <1>1, <2>1, <3>2
<1>3. Types'
  BY <1>1, <1>2 DEF IInv, Types
<1>4. Runs'
  BY <1>1, <1>2 DEF IInv, Runs
<1>5. Current' /\ Fired'
  BY <1>1, <1>2 DEF IInv, Current, Fired, Idle
<1>6. BegunOnce'
  <2>1. \A j \in OneShots : turns[j] = 1 => \A i \in 1 .. Len(tick.todo) : tick.todo[i] # j
    BY <1>1 DEF IInv, BegunOnce
  <2>2. \A i \in 1 .. Len(tick'.todo) : i + 1 \in 1 .. Len(tick.todo)
    BY <1>2
  <2> QED
    BY <1>1, <1>2, <2>1, <2>2 DEF IInv, BegunOnce
<1> QED
  BY <1>1, <1>3, <1>4, <1>5, <1>6 DEF IInv

\* A run joins those in flight.
LEMMA Joins ==
    ASSUME Types, NEW j \in Jobs, ~InFlight(j), NEW who \in {"cron", "manual"}
    PROVE  LET live == Append(running, [job |-> j, by |-> who])
           IN  /\ live \in Seq(Run) /\ Len(live) = Len(running) + 1 /\ Len(running) \in Nat
               /\ \A i \in 1 .. Len(running) : live[i] = running[i]
               /\ live[Len(live)].job = j /\ live[Len(live)].by = who
               /\ \A i \in 1 .. Len(running) : running[i].job # j
<1>1. running \in Seq(Run) /\ [job |-> j, by |-> who] \in Run
  BY DEF Types, Run
<1>2. \A i \in 1 .. Len(running) : running[i].job # j
  BY <1>1 DEF InFlight, Range
<1> QED
  BY <1>1, <1>2

LEMMA TickStartsStep == ASSUME IInv, TickStarts PROVE IInv'
<1> DEFINE j == Head(tick.todo)
           live == Append(running, [job |-> j, by |-> "cron"])
<1>1. /\ up /\ tick.phase = "next" /\ tick.todo # <<>> /\ ~InFlight(j)
      /\ UNCHANGED <<up, now, left, edits, restarts>>
      /\ Passes(j)
  BY DEF TickStarts, Exhausted
<1>2. PICK l \in Launches(j, live) :
        /\ disk' = l.disk
        /\ \/ /\ l.begun
              /\ rows' = l.rows /\ running' = live
              /\ tick' = [tick EXCEPT !.phase = "wait"]
              /\ turns' = IF j \in OneShots THEN [turns EXCEPT ![j] = @ + 1] ELSE turns
              /\ UNCHANGED done
           \/ /\ ~l.begun
              /\ rows' = Settled(l.rows, j, "cron") /\ tick' = Onward({})
              /\ done' = Fires(j)
              /\ UNCHANGED <<running, turns>>
  BY DEF TickStarts
<1>3. /\ tick.todo \in Seq(Jobs) /\ Len(tick.todo) \in Nat /\ Len(tick.todo) > 0
      /\ j \in Jobs /\ j = tick.todo[1] /\ tick \in Tick /\ tick.at \in Nat
      /\ rows \in Rows /\ now \in Nat /\ now \in 1 .. MaxNow
  <2>1. tick.todo \in Seq(Jobs) /\ tick \in Tick /\ tick.at \in Nat /\ rows \in Rows
        /\ now \in 1 .. MaxNow
    BY DEF IInv, Types, Tick
  <2> QED
    BY <1>1, <2>1, Constants
<1>4. /\ live \in Seq(Run) /\ Len(live) = Len(running) + 1 /\ Len(running) \in Nat
      /\ \A i \in 1 .. Len(running) : live[i] = running[i]
      /\ live[Len(live)].job = j /\ live[Len(live)].by = "cron"
      /\ \A i \in 1 .. Len(running) : running[i].job # j
  BY <1>1, <1>3, Joins DEF IInv
<1> HIDE DEF j, live
<1>5. /\ l.rows \in Rows /\ l.disk \in File
      /\ \/ l.rows = rows
         \/ j \in OneShots /\ rows[j].listed /\ l.rows = [rows EXCEPT ![j] = Row(FALSE, 0)]
      /\ l.disk.rows \in {rows, disk.rows, l.rows}
      /\ l.begun => /\ ~l.disk.stale /\ l.disk.rows = l.rows
                    /\ l.disk.marker = Oldest(live)
                    /\ j \in OneShots => l.rows = [rows EXCEPT ![j] = Row(FALSE, 0)]
  BY <1>3, <1>4, LaunchFacts DEF IInv
<1>6. /\ Row(FALSE, 0) \in RowT /\ RowOK(Row(FALSE, 0)) /\ ~Row(FALSE, 0).on
      /\ Row(FALSE, 0).listed
  BY <1>3, RowValues
<1>7. /\ \A k \in Jobs \ {j} : l.rows[k] = rows[k]
      /\ (rows[j].listed => l.rows[j].listed) /\ (l.rows[j].on => rows[j].on /\ l.rows[j] = rows[j])
      /\ l.begun /\ j \in OneShots => ~l.rows[j].on
  <2>1. CASE l.rows = rows
    <3>1. ~(l.begun /\ j \in OneShots) \/ ~l.rows[j].on
      <4>1. CASE l.begun /\ j \in OneShots
        BY <1>3, <1>5, <1>6, <4>1 DEF Rows
      <4> QED
        BY <4>1
    <3> QED
      BY <2>1, <3>1
  <2>2. CASE l.rows = [rows EXCEPT ![j] = Row(FALSE, 0)]
    <3>1. l.rows[j] = Row(FALSE, 0) /\ \A k \in Jobs \ {j} : l.rows[k] = rows[k]
      BY <1>3, <2>2 DEF Rows
    <3> QED
      BY <1>6, <3>1
  <2> QED
    BY <1>5, <2>1, <2>2
<1>8. owed' \subseteq Due(rows', now') /\ owed' \subseteq Jobs
      /\ (\A k \in Jobs \ {j} : rows'[k] = rows[k]) /\ rows' \in Rows
  <2>1. (\A k \in Jobs \ {j} : rows'[k] = rows[k]) /\ rows' \in Rows
    <3>1. CASE l.begun
      BY <1>2, <1>5, <1>7, <3>1
    <3>2. CASE ~l.begun
      <4>1. rows' = Settled(l.rows, j, "cron")
        BY <1>2, <3>2
      <4>2. rows' \in Rows /\ \A k \in Jobs \ {j} : rows'[k] = l.rows[k]
        BY <1>3, <1>5, <4>1, SettledFacts
      <4> QED
        BY <1>7, <4>2
    <3> QED
      BY <3>1, <3>2
  <2>2. owed' = (owed \ {j}) \cup Due(rows', now)
    BY <1>1 DEF Passes
  <2> QED
    <3>1. owed \in SUBSET Due(rows, now)
      BY DEF IInv
    <3>2. /\ (owed \ {j}) \cup Due(rows', now) \subseteq Due(rows', now)
          /\ Due(rows', now) \subseteq Jobs
      BY <1>3, <2>1, <3>1 DEF Due
    <3> QED
      BY <1>1, <2>1, <2>2, <3>2
<1>9. CASE l.begun
  <2>1. /\ rows' = l.rows /\ running' = live /\ disk' = l.disk
        /\ tick' = [tick EXCEPT !.phase = "wait"]
        /\ turns' = IF j \in OneShots THEN [turns EXCEPT ![j] = @ + 1] ELSE turns
        /\ UNCHANGED done
    BY <1>2, <1>9
  <2>2. /\ tick' \in Tick /\ tick'.phase = "wait" /\ tick'.at = tick.at
        /\ tick'.todo = tick.todo /\ tick'.attached = tick.attached /\ tick'.ran = tick.ran
    BY <1>3, <2>1 DEF Tick
  <2>3. /\ turns' \in [Jobs -> Nat] /\ \A k \in Jobs \ {j} : turns'[k] = turns[k]
        /\ turns'[j] = IF j \in OneShots THEN turns[j] + 1 ELSE turns[j]
    <3>1. turns \in [Jobs -> Nat]
      BY DEF IInv, Types
    <3>2. CASE j \in OneShots
      <4>1. turns' = [turns EXCEPT ![j] = turns[j] + 1] /\ turns[j] + 1 \in Nat
        BY <1>3, <2>1, <3>1, <3>2
      <4> QED
        BY <1>3, <3>1, <3>2, <4>1
    <3>3. CASE j \notin OneShots
      BY <1>3, <2>1, <3>1, <3>3
    <3> QED
      BY <3>2, <3>3
  <2>4. Types'
    <3>1. \A k \in tick'.attached : rows'[k].listed
      BY <1>3, <1>7, <2>1, <2>2 DEF IInv, Types, Tick
    <3> QED
      BY <1>1, <1>4, <1>5, <1>8, <2>1, <2>2, <2>3, <3>1 DEF IInv, Types
  <2>5. Runs'
    <3>1. \A i \in 1 .. Len(running) : running[i].by # "cron"
      BY <1>1 DEF IInv, Runs
    <3>2. \A i \in 1 .. Len(live) : i = Len(live) \/ i \in 1 .. Len(running)
      BY <1>4
    <3>3. \A i, k \in 1 .. Len(live) : live[i].job = live[k].job => i = k
      BY <1>4, <3>2 DEF IInv, Runs
    <3>4. \A i, k \in 1 .. Len(live) : live[i].by = "cron" /\ live[k].by = "cron" => i = k
      BY <1>4, <3>1, <3>2
    <3>5. Len(live) \in 1 .. Len(live) /\ live[Len(live)].by = "cron"
      BY <1>4
    <3> QED
      BY <1>1, <2>1, <2>2, <3>3, <3>4, <3>5 DEF IInv, Runs
  <2>6. Current'
    BY <1>1, <1>5, <1>9, <2>1 DEF Current
  <2>7. Fired'
    BY <1>1, <1>3, <1>7, <1>8, <2>1, <2>2 DEF IInv, Fired
  <2>8. BegunOnce'
    <3>1. j \in OneShots => turns[j] = 0
      <4>1. turns[j] \in Nat /\ 1 \in 1 .. Len(tick.todo) /\ tick.todo[1] = j
        BY <1>3 DEF IInv, Types
      <4>2. j \in OneShots => turns[j] <= 1 /\ turns[j] # 1
        BY <1>1, <4>1 DEF IInv, BegunOnce
      <4> QED
        BY <4>1, <4>2
    <3>2. \A i \in 1 .. Len(tick.todo) : tick.todo[i] = j => i = 1
      BY <1>3 DEF IInv, Runs
    <3>3. ASSUME NEW k \in OneShots
          PROVE  /\ turns'[k] <= 1
                 /\ turns'[k] = 1 =>
                      /\ ~rows'[k].on /\ ~disk'.rows[k].on
                      /\ \A i \in 1 .. Len(tick'.todo) :
                           tick'.todo[i] = k => i = 1 /\ tick'.phase = "wait"
      <4>1. CASE k = j
        BY <1>5, <1>7, <1>9, <2>1, <2>2, <2>3, <3>1, <3>2, <4>1
      <4>2. CASE k # j
        BY <1>1, <1>7, <1>5, <1>9, <2>1, <2>2, <2>3, <4>2, Constants DEF IInv, BegunOnce
      <4> QED
        BY <4>1, <4>2
    <3> QED
      BY <3>3 DEF BegunOnce
  <2> QED
    BY <1>8, <2>4, <2>5, <2>6, <2>7, <2>8 DEF IInv
<1>10. CASE ~l.begun
  <2>1. /\ rows' = Settled(l.rows, j, "cron") /\ tick' = Onward({}) /\ disk' = l.disk
        /\ done' = Fires(j) /\ UNCHANGED <<running, turns>>
    BY <1>2, <1>10
  <2>2. /\ tick' \in Tick /\ tick'.phase = "next" /\ tick'.at = tick.at /\ tick'.ran = TRUE
        /\ tick'.attached = tick.attached
        /\ Len(tick'.todo) = Len(tick.todo) - 1
        /\ \A i \in 1 .. Len(tick'.todo) : tick'.todo[i] = tick.todo[i + 1]
        /\ \A i, k \in 1 .. Len(tick'.todo) : tick'.todo[i] = tick'.todo[k] => i = k
    <3>1. {} \in SUBSET Jobs /\ Types /\ Runs
      BY DEF IInv
    <3>2. /\ Onward({}) \in Tick /\ Onward({}).phase = "next" /\ Onward({}).at = tick.at
          /\ Onward({}).ran = TRUE /\ Onward({}).attached = tick.attached \ {}
          /\ Len(Onward({}).todo) = Len(tick.todo) - 1
          /\ \A i \in 1 .. Len(Onward({}).todo) : Onward({}).todo[i] = tick.todo[i + 1]
          /\ \A i, k \in 1 .. Len(Onward({}).todo) :
               Onward({}).todo[i] = Onward({}).todo[k] => i = k
      BY <1>1, <3>1, OnwardFacts
    <3> QED
      BY <2>1, <3>2
  <2>3. /\ rows'[j].on = l.rows[j].on /\ rows'[j].listed = l.rows[j].listed
        /\ j \in tick.attached /\ l.rows[j].on => rows'[j].next = tick.at + Interval
        /\ j \notin tick.attached => rows' = l.rows
    BY <1>3, <1>5, <2>1, SettledFacts
  <2>4. Types'
    <3>1. \A k \in tick'.attached : rows'[k].listed
      BY <1>3, <1>7, <1>8, <2>2, <2>3 DEF IInv, Types, Tick
    <3>2. done' \in [Jobs -> Nat]
      BY <1>3, <2>1 DEF Fires, IInv, Types
    <3> QED
      BY <1>1, <1>5, <1>8, <2>1, <2>2, <3>1, <3>2 DEF IInv, Types
  <2>5. Runs'
    BY <1>1, <2>1, <2>2 DEF IInv, Runs
  <2>6. Current'
    BY <1>1, <2>2 DEF Current, Idle
  <2>7. Fired'
    <3>1. \A k \in Jobs : done'[k] = IF k = j /\ j \in tick.attached THEN tick.at ELSE done[k]
      BY <1>3, <2>1 DEF Fires, IInv, Types
    <3>2. tick.at <= now /\ \A k \in Jobs : done[k] <= now /\ (rows[k].on => rows[k].next > done[k])
      BY DEF IInv, Fired
    <3>3. rows'[j].on => rows'[j].next > done'[j]
      BY <1>3, <1>7, <2>3, <3>1, <3>2, Constants
    <3> QED
      BY <1>1, <1>3, <1>8, <2>2, <3>1, <3>2, <3>3 DEF Fired
  <2>8. BegunOnce'
    <3>1. \A i \in 1 .. Len(tick'.todo) : i + 1 \in 1 .. Len(tick.todo)
      BY <1>3, <2>2
    <3>2. ASSUME NEW k \in OneShots, turns[k] = 1
          PROVE  /\ ~rows'[k].on /\ ~disk'.rows[k].on
                 /\ \A i \in 1 .. Len(tick'.todo) : tick'.todo[i] # k
      <4>1. /\ ~rows[k].on /\ ~disk.rows[k].on
            /\ \A i \in 1 .. Len(tick.todo) : tick.todo[i] # k
        BY <1>1, <3>2 DEF IInv, BegunOnce
      <4>2. k # j /\ k \in Jobs
        BY <1>3, <4>1, Constants
      <4>3. ~rows'[k].on /\ ~disk'.rows[k].on
        BY <1>5, <1>7, <1>8, <2>1, <4>1, <4>2
      <4> QED
        BY <2>2, <3>1, <4>1, <4>3
    <3> QED
      BY <2>1, <3>2 DEF IInv, BegunOnce
  <2> QED
    BY <1>8, <2>4, <2>5, <2>6, <2>7, <2>8 DEF IInv
<1> QED
  BY <1>9, <1>10
\* A step of somebody other than the tick changes one row, and the file is
\* saved after it or left stale.
LEMMA OneRowStep ==
    ASSUME IInv, Idle, up' = up, now' = now, NEW j \in Jobs,
           rows' \in Rows, \A k \in Jobs \ {j} : rows'[k] = rows[k],
           disk' \in File, disk'.rows \in {rows, disk.rows, rows'},
           ~disk'.stale => disk'.rows = rows' /\ disk'.marker = Oldest(running'),
           running' \in Seq(Run), Runs',
           tick' \in Tick, tick'.phase = tick.phase, tick'.at = tick.at,
           tick'.todo = tick.todo, \A k \in tick'.attached : rows'[k].listed,
           left' \in [Jobs -> Nat], done' \in [Jobs -> Nat], turns' \in [Jobs -> Nat],
           edits' \in 0 .. MaxEdits, restarts' \in 0 .. MaxRestarts,
           owed' \subseteq Due(rows', now),
           \A k \in Jobs \ {j} : done'[k] = done[k] /\ turns'[k] = turns[k],
           done'[j] <= now, rows'[j].on => rows'[j].next > done'[j],
           turns'[j] = 0 \/ (turns'[j] = turns[j] /\ (rows'[j] = rows[j] \/ ~rows'[j].on))
    PROVE  IInv'
<1>1. Types'
  BY DEF IInv, Types, Due
<1>2. Current'
  BY DEF Current, Idle
<1>3. Fired'
  BY DEF IInv, Fired
<1>4. BegunOnce'
  <2>1. ASSUME NEW k \in OneShots
        PROVE  /\ turns'[k] <= 1
               /\ turns'[k] = 1 =>
                    /\ ~rows'[k].on /\ ~disk'.rows[k].on
                    /\ \A i \in 1 .. Len(tick'.todo) :
                         tick'.todo[i] = k => i = 1 /\ tick'.phase = "wait"
    <3>1. k \in Jobs
      BY Constants
    <3>2. CASE k # j
      <4>1. turns'[k] = turns[k] /\ rows'[k] = rows[k]
        BY <3>1, <3>2
      <4> QED
        BY <4>1 DEF IInv, BegunOnce
    <3>3. CASE k = j /\ turns'[j] = 0
      BY <3>3
    <3>4. CASE k = j /\ turns'[j] = turns[j] /\ (rows'[j] = rows[j] \/ ~rows'[j].on)
      BY <3>4 DEF IInv, BegunOnce
    <3> QED
      BY <3>2, <3>3, <3>4
  <2> QED
    BY <2>1 DEF BegunOnce
<1> QED
  BY <1>1, <1>2, <1>3, <1>4 DEF IInv

\* What such a step needs of the state before it.
IdleState ==
    /\ up /\ tick.phase # "next" /\ rows \in Rows /\ disk \in File
    /\ running \in Seq(Run) /\ tick \in Tick /\ now \in 1 .. MaxNow /\ now \in Nat
    /\ left \in [Jobs -> Nat] /\ done \in [Jobs -> Nat] /\ turns \in [Jobs -> Nat]
    /\ edits \in 0 .. MaxEdits /\ restarts \in 0 .. MaxRestarts
    /\ owed \in SUBSET Due(rows, now) /\ Runs
    /\ \A k \in tick.attached : rows[k].listed
    /\ \A k \in Jobs : done[k] <= now /\ (rows[k].on => rows[k].next > done[k])

LEMMA IdleFacts == ASSUME IInv, Idle PROVE IdleState
<1>1. Types /\ up /\ tick.phase # "next" /\ owed \subseteq Due(rows, now) /\ Fired /\ Runs
  BY DEF IInv, Idle
<1>2. now \in Nat
  BY <1>1, Constants DEF Types
<1> QED
  BY <1>1, <1>2 DEF Types, Fired, IdleState

\* A row taken out of the tick's snapshot.
LEMMA DetachFacts ==
    ASSUME tick \in Tick, NEW j, Detach(j)
    PROVE  /\ tick' \in Tick /\ tick'.phase = tick.phase /\ tick'.at = tick.at
           /\ tick'.todo = tick.todo /\ tick'.ran = tick.ran
           /\ tick'.attached = tick.attached \ {j}
  BY DEF Detach, Tick

\* The runs in flight stay as they are.
LEMMA SameRuns ==
    ASSUME Runs, up' = up, running' = running, tick'.phase = tick.phase, tick'.todo = tick.todo
    PROVE  Runs'
  BY DEF Runs

LEMMA EnableStep ==
    ASSUME IInv, NEW j \in Jobs, NEW on \in BOOLEAN, EnableJob(j, on) PROVE IInv'
<1> DEFINE r == Toggled(rows[j], on)
<1>1. /\ Idle /\ edits < MaxEdits /\ edits' = edits + 1
      /\ rows' = [rows EXCEPT ![j] = r]
      /\ disk' \in Saves(disk, rows', running)
      /\ turns' = [turns EXCEPT ![j] = 0]
      /\ owed' = (owed \ {j}) \cup Due(rows', now)
      /\ UNCHANGED <<up, now, running, tick, left, done, restarts>>
  BY DEF EnableJob, Edit, Reschedules, Toggled
<1>2. IdleState
  BY <1>1, IdleFacts
<1>3. r \in RowT /\ RowOK(r) /\ r.listed /\ (r.on => r.next = now + Interval)
  <2>1. r = Row(FALSE, 0) \/ r = Row(TRUE, now + Interval)
    BY DEF Toggled
  <2> QED
    BY <1>2, <2>1, RowValues DEF IdleState
<1> HIDE DEF r
<1>4. rows' \in Rows /\ rows'[j] = r /\ \A k \in Jobs \ {j} : rows'[k] = rows[k]
  BY <1>1, <1>2, <1>3 DEF IdleState, Rows
<1>5. /\ disk' \in File /\ disk'.rows \in {rows, disk.rows, rows'}
      /\ ~disk'.stale => disk'.rows = rows' /\ disk'.marker = Oldest(running')
  <2>1. disk \in File /\ rows' \in Rows /\ running \in Seq(Run) /\ running' = running
    BY <1>1, <1>2, <1>4 DEF IdleState
  <2>2. /\ disk' \in File /\ (disk'.rows = rows' \/ disk'.rows = disk.rows)
        /\ ~disk'.stale => disk'.rows = rows' /\ disk'.marker = Oldest(running)
    BY <1>1, <2>1, SaveFacts
  <2> QED
    BY <2>1, <2>2
<1>6. /\ turns' \in [Jobs -> Nat] /\ turns'[j] = 0 /\ \A k \in Jobs \ {j} : turns'[k] = turns[k]
      /\ edits' \in 0 .. MaxEdits /\ owed' \subseteq Due(rows', now)
      /\ rows'[j].on => rows'[j].next > done'[j]
  BY <1>1, <1>2, <1>3, <1>4, CronAssumption DEF IdleState, Due
<1>7. \A k \in tick'.attached : rows'[k].listed
  BY <1>1, <1>2, <1>3, <1>4 DEF IdleState, Tick
<1>8. Runs'
  BY <1>1, <1>2, SameRuns DEF IdleState
<1> QED
  BY <1>1, <1>2, <1>4, <1>5, <1>6, <1>7, <1>8, OneRowStep DEF IdleState

\* A job is taken off the list.
LEMMA Unlists ==
    ASSUME IInv, IdleState, Idle, NEW j \in Jobs, rows' = [rows EXCEPT ![j] = Absent],
           disk' \in Saves(disk, rows', running), Detach(j), Owes({j}),
           UNCHANGED <<up, now, running, done, turns>>, left' \in [Jobs -> Nat],
           edits' \in 0 .. MaxEdits, restarts' = restarts
    PROVE  IInv'
<1>1. rows' \in Rows /\ rows'[j] = Absent /\ \A k \in Jobs \ {j} : rows'[k] = rows[k]
  BY RowValues DEF IdleState, Rows
<1>2. /\ disk' \in File /\ disk'.rows \in {rows, disk.rows, rows'}
      /\ ~disk'.stale => disk'.rows = rows' /\ disk'.marker = Oldest(running')
  <2>1. disk \in File /\ rows' \in Rows /\ running \in Seq(Run) /\ running' = running
    BY <1>1 DEF IdleState
  <2>2. /\ disk' \in File /\ (disk'.rows = rows' \/ disk'.rows = disk.rows)
        /\ ~disk'.stale => disk'.rows = rows' /\ disk'.marker = Oldest(running)
    BY <2>1, SaveFacts
  <2> QED
    BY <2>1, <2>2
<1>3. /\ tick' \in Tick /\ tick'.phase = tick.phase /\ tick'.at = tick.at
      /\ tick'.todo = tick.todo /\ tick'.attached = tick.attached \ {j}
      /\ tick'.attached \subseteq Jobs
  <2>1. /\ tick' \in Tick /\ tick'.phase = tick.phase /\ tick'.at = tick.at
        /\ tick'.todo = tick.todo /\ tick'.attached = tick.attached \ {j}
    BY DetachFacts DEF IdleState
  <2> QED
    BY <2>1 DEF Tick
<1>4. \A k \in tick'.attached : rows'[k].listed
  BY <1>1, <1>3 DEF IdleState
<1>5. owed' \subseteq Due(rows', now)
  BY <1>1 DEF IdleState, Owes, Due
<1>6. Runs'
  BY <1>3, SameRuns DEF IdleState
<1>7. ~rows'[j].on
  BY <1>1 DEF Absent
<1> QED
  BY <1>1, <1>2, <1>3, <1>4, <1>5, <1>6, <1>7, OneRowStep DEF IdleState

LEMMA RemoveStep == ASSUME IInv, NEW j \in Jobs, RemoveJob(j) PROVE IInv'
<1>1. /\ Idle /\ edits < MaxEdits /\ edits' = edits + 1 /\ rows' = [rows EXCEPT ![j] = Absent]
      /\ disk' \in Saves(disk, rows', running) /\ Detach(j) /\ Owes({j})
      /\ UNCHANGED <<up, now, running, left, done, turns, restarts>>
  BY DEF RemoveJob, Edit
<1>2. IdleState
  BY <1>1, IdleFacts
<1>3. edits' \in 0 .. MaxEdits /\ left' \in [Jobs -> Nat]
  BY <1>1, <1>2, CronAssumption DEF IdleState
<1> QED
  BY <1>1, <1>2, <1>3, Unlists

LEMMA AddStep == ASSUME IInv, NEW j \in Jobs, AddJob(j) PROVE IInv'
<1>1. PICK on \in BOOLEAN, t \in {now, now + Interval} :
         rows' = [rows EXCEPT ![j] = Row(on, t)]
  BY DEF AddJob
<1>2. /\ Idle /\ edits < MaxEdits /\ edits' = edits + 1
      /\ disk' \in Saves(disk, rows', running)
      /\ done' = [done EXCEPT ![j] = 0] /\ turns' = [turns EXCEPT ![j] = 0]
      /\ Detach(j) /\ owed' = (owed \ {j}) \cup Due(rows', now)
      /\ UNCHANGED <<up, now, running, left, restarts>>
  BY DEF AddJob, Edit, Reschedules
<1>3. IdleState
  BY <1>2, IdleFacts
<1>4. t \in Nat \ {0} /\ Row(on, t) \in RowT /\ RowOK(Row(on, t)) /\ Row(on, t).next = t
  <2>1. t \in Nat \ {0}
    BY <1>1, <1>3, Constants DEF IdleState
  <2> QED
    BY <1>3, <2>1, RowValues DEF IdleState
<1>5. rows' \in Rows /\ rows'[j] = Row(on, t) /\ \A k \in Jobs \ {j} : rows'[k] = rows[k]
  BY <1>1, <1>3, <1>4 DEF IdleState, Rows
<1>6. /\ disk' \in File /\ disk'.rows \in {rows, disk.rows, rows'}
      /\ ~disk'.stale => disk'.rows = rows' /\ disk'.marker = Oldest(running')
  <2>1. disk \in File /\ rows' \in Rows /\ running \in Seq(Run) /\ running' = running
    BY <1>2, <1>3, <1>5 DEF IdleState
  <2>2. /\ disk' \in File /\ (disk'.rows = rows' \/ disk'.rows = disk.rows)
        /\ ~disk'.stale => disk'.rows = rows' /\ disk'.marker = Oldest(running)
    BY <1>2, <2>1, SaveFacts
  <2> QED
    BY <2>1, <2>2
<1>7. /\ tick' \in Tick /\ tick'.phase = tick.phase /\ tick'.at = tick.at
      /\ tick'.todo = tick.todo /\ tick'.attached = tick.attached \ {j}
  BY <1>2, <1>3, DetachFacts DEF IdleState
<1>8. \A k \in tick'.attached : rows'[k].listed
  BY <1>3, <1>5, <1>7 DEF IdleState, Tick
<1>9. /\ turns' \in [Jobs -> Nat] /\ turns'[j] = 0 /\ done' \in [Jobs -> Nat] /\ done'[j] = 0
      /\ \A k \in Jobs \ {j} : turns'[k] = turns[k] /\ done'[k] = done[k]
  BY <1>2, <1>3 DEF IdleState
<1>10. edits' \in 0 .. MaxEdits /\ owed' \subseteq Due(rows', now)
  BY <1>2, <1>3, <1>5, CronAssumption DEF IdleState, Due
<1>11. Runs'
  BY <1>2, <1>3, <1>7, SameRuns DEF IdleState
<1>12. done'[j] <= now /\ (rows'[j].on => rows'[j].next > done'[j])
  <2>1. now \in Nat
    BY <1>3 DEF IdleState
  <2>2. rows'[j].next = t /\ t \in Nat /\ t # 0 /\ done'[j] = 0
    BY <1>4, <1>5, <1>9
  <2>3. 0 <= now /\ t > 0
    BY <2>1, <2>2
  <2> QED
    BY <2>2, <2>3
<1> QED
  BY <1>2, <1>3, <1>5, <1>6, <1>7, <1>8, <1>9, <1>10, <1>11, <1>12, OneRowStep DEF IdleState

LEMMA LateEndsStep == ASSUME IInv, NEW j \in Jobs, LateEnds(j) PROVE IInv'
<1>1. /\ Idle /\ left[j] > 0 /\ left' = [left EXCEPT ![j] = @ - 1] /\ Detach(j) /\ Owes({j})
      /\ UNCHANGED <<up, now, running, done, turns, edits, restarts>>
  BY DEF LateEnds
<1>2. IdleState
  BY <1>1, IdleFacts
<1>3. left' \in [Jobs -> Nat] /\ edits' \in 0 .. MaxEdits
  BY <1>1, <1>2 DEF IdleState
<1>4. CASE rows' = [rows EXCEPT ![j] = Absent] /\ disk' \in Saves(disk, rows', running)
  BY <1>1, <1>2, <1>3, <1>4, Unlists
<1>5. CASE ~rows[j].listed /\ UNCHANGED <<rows, disk>>
  <2>1. /\ tick' \in Tick /\ tick'.phase = tick.phase /\ tick'.at = tick.at
        /\ tick'.todo = tick.todo /\ tick'.attached = tick.attached \ {j}
    BY <1>1, <1>2, DetachFacts DEF IdleState
  <2>2. ~disk.stale => disk.rows = rows /\ disk.marker = Oldest(running)
    BY <1>1 DEF IInv, Current
  <2>3. owed' \subseteq Due(rows', now)
    BY <1>1, <1>2, <1>5 DEF IdleState, Owes
  <2>4. Runs'
    BY <1>1, <1>2, <2>1, SameRuns DEF IdleState
  <2> QED
    BY <1>1, <1>2, <1>3, <1>5, <2>1, <2>2, <2>3, <2>4, OneRowStep DEF IdleState
<1> QED
  BY <1>4, <1>5 DEF LateEnds

LEMMA RunNowStep == ASSUME IInv, NEW j \in Jobs, RunNow(j) PROVE IInv'
<1> DEFINE live == Append(running, [job |-> j, by |-> "manual"])
<1>1. PICK l \in Launches(j, live) :
        /\ rows' = l.rows
        /\ \/ l.begun /\ running' = live /\ disk' = l.disk
           \/ ~l.begun /\ disk' \in Saves(l.disk, l.rows, running) /\ UNCHANGED running
  BY DEF RunNow
<1>2. /\ Idle /\ edits < MaxEdits /\ edits' = edits + 1 /\ rows[j].listed /\ ~InFlight(j)
      /\ Owes(IF j \in OneShots THEN {j} ELSE {})
      /\ UNCHANGED <<up, now, tick, left, done, turns, restarts>>
  BY DEF RunNow, Edit
<1>3. IdleState
  BY <1>2, IdleFacts
<1>4. /\ live \in Seq(Run) /\ Len(live) = Len(running) + 1 /\ Len(running) \in Nat
      /\ \A i \in 1 .. Len(running) : live[i] = running[i]
      /\ live[Len(live)].job = j /\ live[Len(live)].by = "manual"
      /\ \A i \in 1 .. Len(running) : running[i].job # j
  BY <1>2, Joins DEF IInv
<1> HIDE DEF live
<1>5. /\ l.rows \in Rows /\ l.disk \in File
      /\ \/ l.rows = rows
         \/ j \in OneShots /\ l.rows = [rows EXCEPT ![j] = Row(FALSE, 0)]
      /\ l.disk.rows \in {rows, disk.rows, l.rows}
      /\ l.begun => ~l.disk.stale /\ l.disk.rows = l.rows /\ l.disk.marker = Oldest(live)
  BY <1>4, LaunchFacts DEF IInv
<1>6. /\ ~Row(FALSE, 0).on /\ Row(FALSE, 0).listed
  BY <1>3, RowValues DEF IdleState
<1>7. /\ \A k \in Jobs \ {j} : rows'[k] = rows[k]
      /\ rows'[j].listed /\ (rows'[j] = rows[j] \/ (j \in OneShots /\ ~rows'[j].on))
  <2>1. CASE l.rows = rows
    BY <1>1, <1>2, <2>1
  <2>2. CASE j \in OneShots /\ l.rows = [rows EXCEPT ![j] = Row(FALSE, 0)]
    <3>1. rows'[j] = Row(FALSE, 0) /\ \A k \in Jobs \ {j} : rows'[k] = rows[k]
      BY <1>1, <1>3, <2>2 DEF IdleState, Rows
    <3> QED
      BY <1>6, <2>2, <3>1
  <2> QED
    BY <1>5, <2>1, <2>2
<1>8. /\ running' \in Seq(Run) /\ disk' \in File /\ disk'.rows \in {rows, disk.rows, rows'}
      /\ ~disk'.stale => disk'.rows = rows' /\ disk'.marker = Oldest(running')
  <2>1. CASE l.begun /\ running' = live /\ disk' = l.disk
    BY <1>1, <1>4, <1>5, <2>1
  <2>2. CASE ~l.begun /\ disk' \in Saves(l.disk, l.rows, running) /\ UNCHANGED running
    <3>1. /\ disk' \in File
          /\ ~disk'.stale => disk'.rows = l.rows /\ disk'.marker = Oldest(running)
          /\ disk'.rows = l.rows \/ disk'.rows = l.disk.rows
      BY <1>3, <1>5, <2>2, SaveFacts DEF IdleState
    <3> QED
      BY <1>1, <1>3, <1>5, <2>2, <3>1 DEF IdleState
  <2> QED
    BY <1>1, <2>1, <2>2
<1>9. Runs'
  <2>1. CASE running' = live
    <3>1. \A i \in 1 .. Len(live) : i = Len(live) \/ i \in 1 .. Len(running)
      BY <1>4
    <3>0. /\ \A i, k \in 1 .. Len(running) : running[i].job = running[k].job => i = k
          /\ \A i, k \in 1 .. Len(running) :
               running[i].by = "cron" /\ running[k].by = "cron" => i = k
      BY <1>3 DEF IdleState, Runs
    <3>2. \A i, k \in 1 .. Len(live) : live[i].job = live[k].job => i = k
      BY <1>4, <3>1, <3>0
    <3>3. \A i \in 1 .. Len(live) : live[i].by = "cron" => i \in 1 .. Len(running)
      BY <1>4, <3>1
    <3>4. \A i, k \in 1 .. Len(live) : live[i].by = "cron" /\ live[k].by = "cron" => i = k
      BY <1>4, <3>3, <3>0
    <3>5. \A i \in 1 .. Len(running) : i \in 1 .. Len(live)
      BY <1>4
    <3>6. tick.phase = "wait" <=> \E i \in 1 .. Len(live) : live[i].by = "cron"
      <4>1. (\E i \in 1 .. Len(live) : live[i].by = "cron")
              <=> \E i \in 1 .. Len(running) : running[i].by = "cron"
        BY <1>4, <3>3, <3>5
      <4> QED
        BY <1>3, <4>1 DEF IdleState, Runs
    <3> QED
      BY <1>2, <1>3, <2>1, <3>2, <3>4, <3>6 DEF IdleState, Runs
  <2>2. CASE UNCHANGED running
    BY <1>2, <1>3, <2>2, SameRuns DEF IdleState
  <2> QED
    BY <1>1, <2>1, <2>2
<1>10. edits' \in 0 .. MaxEdits /\ owed' \subseteq Due(rows', now)
  <2>1. edits' \in 0 .. MaxEdits
    BY <1>2, <1>3, CronAssumption DEF IdleState
  <2>2. owed' = (owed \ (IF j \in OneShots THEN {j} ELSE {})) \cup Due(rows', now)
    BY <1>2 DEF Owes
  <2>3. owed' \subseteq Due(rows', now)
    BY <1>3, <1>7, <2>2 DEF IdleState, Due
  <2> QED
    BY <2>1, <2>3
<1>11. \A k \in tick'.attached : rows'[k].listed
  BY <1>2, <1>3, <1>7 DEF IdleState, Tick
<1>12. /\ left' \in [Jobs -> Nat] /\ done' \in [Jobs -> Nat] /\ turns' \in [Jobs -> Nat]
       /\ restarts' \in 0 .. MaxRestarts /\ tick' \in Tick /\ tick' = tick
       /\ done' = done /\ turns' = turns /\ up' = up /\ now' = now
  BY <1>2, <1>3 DEF IdleState
<1>13. done'[j] <= now /\ (rows'[j].on => rows'[j].next > done'[j])
  BY <1>3, <1>7, <1>12 DEF IdleState
<1>14. rows' \in Rows
  BY <1>1, <1>5
<1> QED
  BY <1>2, <1>7, <1>8, <1>9, <1>10, <1>11, <1>12, <1>13, <1>14, OneRowStep

\* The runs that are left when one of them ends.
LEMMA RestFacts ==
    ASSUME IdleState, NEW i \in 1 .. Len(running), running' = RemoveAt(running, i)
    PROVE  /\ running' \in Seq(Run)
           /\ \A m, k \in 1 .. Len(running') : running'[m].job = running'[k].job => m = k
           /\ \A m, k \in 1 .. Len(running') :
                running'[m].by = "cron" /\ running'[k].by = "cron" => m = k
           /\ running[i].by = "cron" => \A m \in 1 .. Len(running') : running'[m].by # "cron"
           /\ running[i].by # "cron" =>
                ((\E m \in 1 .. Len(running') : running'[m].by = "cron")
                   <=> (\E m \in 1 .. Len(running) : running[m].by = "cron"))
<1> DEFINE at(k) == IF k < i THEN k ELSE k + 1
<1>1. /\ running' \in Seq(Run) /\ Len(running') = Len(running) - 1
      /\ \A k \in 1 .. Len(running) - 1 :
           running'[k] = IF k < i THEN running[k] ELSE running[k + 1]
  <2>1. running \in Seq(Run)
    BY DEF IdleState
  <2> QED
    BY <2>1, RemoveFacts
<1>2. Len(running) \in Nat /\ i \in Nat /\ 1 <= i /\ i <= Len(running)
  BY DEF IdleState
<1>3. \A k \in 1 .. Len(running') : /\ at(k) \in 1 .. Len(running) /\ at(k) # i
                                    /\ running'[k] = running[at(k)]
  BY <1>1, <1>2
<1>4. \A m, k \in 1 .. Len(running') : at(m) = at(k) => m = k
  BY <1>1, <1>2
<1>5. \A m \in 1 .. Len(running) : m # i => \E k \in 1 .. Len(running') : at(k) = m
  <2> SUFFICES ASSUME NEW m \in 1 .. Len(running), m # i
               PROVE  \E k \in 1 .. Len(running') : at(k) = m
    OBVIOUS
  <2>1. CASE m < i
    <3>1. m \in 1 .. Len(running') /\ at(m) = m
      BY <1>1, <1>2, <2>1
    <3> QED
      BY <3>1
  <2>2. CASE m > i
    <3>1. m - 1 \in 1 .. Len(running') /\ at(m - 1) = m
      BY <1>1, <1>2, <2>2
    <3> QED
      BY <3>1
  <2> QED
    BY <1>2, <2>1, <2>2
<1> HIDE DEF at
<1>6. /\ \A m, k \in 1 .. Len(running) : running[m].job = running[k].job => m = k
      /\ \A m, k \in 1 .. Len(running) :
           running[m].by = "cron" /\ running[k].by = "cron" => m = k
  BY DEF IdleState, Runs
<1>7. ASSUME NEW m \in 1 .. Len(running'), NEW k \in 1 .. Len(running'),
             running'[m].job = running'[k].job
      PROVE  m = k
  <2>1. running[at(m)].job = running[at(k)].job
    BY <1>3, <1>7
  <2>2. at(m) = at(k)
    BY <1>3, <1>6, <2>1
  <2> QED
    BY <1>4, <2>2
<1>8. ASSUME NEW m \in 1 .. Len(running'), NEW k \in 1 .. Len(running'),
             running'[m].by = "cron", running'[k].by = "cron"
      PROVE  m = k
  <2>1. running[at(m)].by = "cron" /\ running[at(k)].by = "cron"
    BY <1>3, <1>8
  <2>2. at(m) = at(k)
    BY <1>3, <1>6, <2>1
  <2> QED
    BY <1>4, <2>2
<1>9. running[i].by = "cron" => \A m \in 1 .. Len(running') : running'[m].by # "cron"
  BY <1>3, <1>6
<1>10. ASSUME running[i].by # "cron"
       PROVE  (\E m \in 1 .. Len(running') : running'[m].by = "cron")
                <=> (\E m \in 1 .. Len(running) : running[m].by = "cron")
  <2>1. ASSUME NEW m \in 1 .. Len(running), running[m].by = "cron"
        PROVE  \E k \in 1 .. Len(running') : running'[k].by = "cron"
    <3>1. PICK k \in 1 .. Len(running') : at(k) = m
      BY <1>5, <1>10, <2>1
    <3> QED
      BY <1>3, <2>1, <3>1
  <2> QED
    BY <1>3, <2>1
<1> QED
  BY <1>1, <1>7, <1>8, <1>9, <1>10

LEMMA RunEndsStep ==
    ASSUME IInv, NEW i \in DOMAIN running, NEW how \in {"ok", "failed", "timeout"},
           RunEnds(i, how)
    PROVE  IInv'
<1> DEFINE j == running[i].job
           removes == how = "ok" /\ j \in OneShots /\ rows[j].listed
           after == IF removes THEN [rows EXCEPT ![j] = Absent] ELSE rows
           gone == IF removes THEN {j} ELSE {}
<1>1. /\ Idle /\ running' = RemoveAt(running, i)
      /\ left' = IF how = "timeout" /\ j \in OneShots THEN [left EXCEPT ![j] = @ + 1] ELSE left
      /\ Owes(IF running[i].by = "cron" THEN {j} ELSE gone)
      /\ UNCHANGED <<up, now, turns, edits, restarts>>
  BY DEF RunEnds
<1>2. PICK d \in (IF removes THEN Saves(disk, after, running) ELSE {disk}) :
        \/ /\ running[i].by = "cron"
           /\ tick' = Onward(gone)
           /\ rows' = IF removes THEN after ELSE Settled(after, j, "cron")
           /\ disk' = d
           /\ done' = IF removes THEN done ELSE Fires(j)
        \/ /\ running[i].by = "manual"
           /\ tick' = [tick EXCEPT !.attached = @ \ gone]
           /\ rows' = Settled(after, j, "manual")
           /\ disk' \in Saves(d, rows', RemoveAt(running, i))
           /\ UNCHANGED done
  BY DEF RunEnds
<1>3. IdleState
  BY <1>1, IdleFacts
<1>4. i \in 1 .. Len(running) /\ running[i] \in Run /\ j \in Jobs
  <2>1. i \in 1 .. Len(running) /\ running[i] \in Run
    BY <1>3 DEF IdleState
  <2> QED
    BY <2>1 DEF Run
<1>5. /\ running' \in Seq(Run)
      /\ \A m, k \in 1 .. Len(running') : running'[m].job = running'[k].job => m = k
      /\ \A m, k \in 1 .. Len(running') :
           running'[m].by = "cron" /\ running'[k].by = "cron" => m = k
      /\ running[i].by = "cron" => \A m \in 1 .. Len(running') : running'[m].by # "cron"
      /\ running[i].by # "cron" =>
           ((\E m \in 1 .. Len(running') : running'[m].by = "cron")
              <=> (\E m \in 1 .. Len(running) : running[m].by = "cron"))
  BY <1>1, <1>3, <1>4, RestFacts
<1>6. /\ after \in Rows /\ \A k \in Jobs \ {j} : after[k] = rows[k]
      /\ removes => ~after[j].on
      /\ ~removes => after = rows
      /\ gone \subseteq {j} /\ gone \in SUBSET Jobs /\ (removes => gone = {j})
  <2>1. CASE removes
    <3>1. after = [rows EXCEPT ![j] = Absent]
      BY <2>1
    <3>2. after \in Rows /\ after[j] = Absent /\ \A k \in Jobs \ {j} : after[k] = rows[k]
      BY <1>3, <1>4, <3>1, RowValues DEF IdleState, Rows
    <3> QED
      BY <1>4, <2>1, <3>2 DEF Absent
  <2>2. CASE ~removes
    BY <1>3, <1>4, <2>2 DEF IdleState
  <2> QED
    BY <2>1, <2>2
<1>7. left' \in [Jobs -> Nat]
  <2>1. left \in [Jobs -> Nat] /\ left[j] + 1 \in Nat
    BY <1>3, <1>4 DEF IdleState
  <2> QED
    BY <1>1, <2>1
<1>8. /\ d \in File /\ (d.rows = after \/ d.rows = disk.rows)
      /\ d.rows \in {rows, disk.rows, after}
  <2>1. CASE removes
    BY <1>2, <1>3, <1>6, <2>1, SaveFacts DEF IdleState
  <2>2. CASE ~removes
    BY <1>2, <1>3, <1>6, <2>2 DEF IdleState
  <2> QED
    BY <2>1, <2>2
<1> HIDE DEF j, after, gone, removes
<1>9. CASE running[i].by = "cron"
  <2>1. /\ tick' = Onward(gone) /\ disk' = d
        /\ rows' = IF removes THEN after ELSE Settled(after, j, "cron")
        /\ done' = IF removes THEN done ELSE Fires(j)
    BY <1>2, <1>9
  <2>2. tick.phase = "wait" /\ tick.todo # <<>> /\ tick.todo \in Seq(Jobs) /\ Len(tick.todo) \in Nat
    <3>1. tick.phase = "wait"
      BY <1>3, <1>4, <1>9 DEF IdleState, Runs
    <3>2. tick.todo # <<>>
      BY <1>3, <3>1 DEF IdleState, Runs
    <3>3. tick.todo \in Seq(Jobs)
      BY <1>3 DEF IdleState, Tick
    <3> QED
      BY <3>1, <3>2, <3>3
  <2>3. /\ tick' \in Tick /\ tick'.phase = "next" /\ tick'.at = tick.at /\ tick'.ran = TRUE
        /\ tick'.attached = tick.attached \ gone
        /\ Len(tick'.todo) = Len(tick.todo) - 1
        /\ \A m \in 1 .. Len(tick'.todo) : tick'.todo[m] = tick.todo[m + 1]
        /\ \A m, k \in 1 .. Len(tick'.todo) : tick'.todo[m] = tick'.todo[k] => m = k
    <3>1. Types /\ Runs
      BY DEF IInv
    <3>2. /\ Onward(gone) \in Tick /\ Onward(gone).phase = "next" /\ Onward(gone).at = tick.at
          /\ Onward(gone).ran = TRUE /\ Onward(gone).attached = tick.attached \ gone
          /\ Len(Onward(gone).todo) = Len(tick.todo) - 1
          /\ \A m \in 1 .. Len(Onward(gone).todo) : Onward(gone).todo[m] = tick.todo[m + 1]
          /\ \A m, k \in 1 .. Len(Onward(gone).todo) :
               Onward(gone).todo[m] = Onward(gone).todo[k] => m = k
      BY <1>6, <2>2, <3>1, OnwardFacts
    <3> QED
      BY <2>1, <3>2
  <2>4. /\ rows' \in Rows /\ \A k \in Jobs \ {j} : rows'[k] = rows[k]
        /\ removes => ~rows'[j].on
        /\ ~removes => /\ rows'[j].on = rows[j].on /\ rows'[j].listed = rows[j].listed
                       /\ j \in tick.attached /\ rows[j].on => rows'[j].next = tick.at + Interval
                       /\ j \notin tick.attached => rows' = rows
    <3>1. CASE removes
      BY <1>6, <2>1, <3>1
    <3>2. CASE ~removes
      <4>1. rows' = Settled(rows, j, "cron") /\ rows \in Rows /\ tick \in Tick
        BY <1>3, <1>6, <2>1, <3>2 DEF IdleState
      <4> QED
        BY <1>4, <3>2, <4>1, SettledFacts
    <3> QED
      BY <3>1, <3>2
  <2>5. owed' \subseteq Due(rows', now') /\ owed' \subseteq Jobs
    <3>1. owed' = (owed \ {j}) \cup Due(rows', now)
      BY <1>1, <1>9 DEF Owes, j
    <3> QED
      BY <1>1, <1>3, <2>4, <3>1 DEF IdleState, Due
  <2>6. /\ done' \in [Jobs -> Nat]
        /\ \A k \in Jobs : done'[k] = IF k = j /\ j \in tick.attached /\ ~removes
                                       THEN tick.at ELSE done[k]
    <3>1. tick.at \in Nat /\ done \in [Jobs -> Nat]
      BY <1>3 DEF IdleState, Tick
    <3> QED
      BY <1>4, <2>1, <3>1 DEF Fires
  <2>7. Types'
    <3>1. \A k \in tick'.attached : rows'[k].listed
      <4>1. tick.attached \subseteq Jobs /\ \A k \in tick.attached : rows[k].listed
        BY <1>3 DEF IdleState, Tick
      <4> QED
        BY <1>6, <2>3, <2>4, <4>1
    <3> QED
      BY <1>1, <1>3, <1>5, <1>7, <1>8, <2>1, <2>3, <2>4, <2>5, <2>6, <3>1 DEF IdleState, Types
  <2>8. Runs'
    BY <1>1, <1>3, <1>5, <1>9, <2>3 DEF IdleState, Runs
  <2>9. Current'
    BY <1>1, <1>3, <2>3 DEF IdleState, Current, Idle
  <2>10. Fired'
    <3>1. tick.at <= now /\ tick.at \in Nat
      BY <1>3 DEF IInv, Fired, IdleState, Tick
    <3>3. now \in Nat /\ (rows[j].on => rows[j].next > done[j])
      BY <1>3, <1>4 DEF IdleState
    <3>2. rows'[j].on => rows'[j].next > done'[j]
      <4>1. CASE removes
        BY <2>4, <4>1
      <4>2. CASE ~removes /\ j \in tick.attached
        <5>1. done'[j] = tick.at
          BY <1>4, <2>6, <4>2
        <5>2. rows'[j].on => rows'[j].next = tick.at + Interval
          BY <2>4, <4>2
        <5>3. tick.at + Interval > tick.at
          BY <3>1, Constants
        <5> QED
          BY <5>1, <5>2, <5>3
      <4>3. CASE ~removes /\ j \notin tick.attached
        BY <1>4, <2>4, <2>6, <3>3, <4>3
      <4> QED
        BY <4>1, <4>2, <4>3
    <3> QED
      BY <1>1, <1>3, <2>3, <2>4, <2>6, <3>1, <3>2 DEF IdleState, Fired
  <2>11. BegunOnce'
    <3>1. \A m \in 1 .. Len(tick'.todo) : m + 1 \in 1 .. Len(tick.todo) /\ m + 1 # 1
      BY <2>2, <2>3
    <3>2. ASSUME NEW k \in OneShots, turns[k] = 1
          PROVE  /\ ~rows'[k].on /\ ~disk'.rows[k].on
                 /\ \A m \in 1 .. Len(tick'.todo) : tick'.todo[m] # k
      <4>1. /\ ~rows[k].on /\ ~disk.rows[k].on
            /\ \A m \in 1 .. Len(tick.todo) : tick.todo[m] = k => m = 1
        BY <3>2 DEF IInv, BegunOnce
      <4>2. k \in Jobs
        BY Constants
      <4>3. ~rows'[k].on
        BY <2>4, <4>1, <4>2
      <4>4. ~after[k].on
        BY <1>6, <4>1, <4>2
      <4>5. ~disk'.rows[k].on
        BY <1>8, <2>1, <4>1, <4>4
      <4> QED
        BY <2>3, <3>1, <4>1, <4>3, <4>5
    <3> QED
      BY <1>1, <3>2 DEF IInv, BegunOnce
  <2> QED
    BY <2>5, <2>7, <2>8, <2>9, <2>10, <2>11 DEF IInv
<1>10. CASE running[i].by = "manual"
  <2>1. /\ tick' = [tick EXCEPT !.attached = @ \ gone]
        /\ rows' = after /\ disk' \in Saves(d, rows', running') /\ UNCHANGED done
    BY <1>1, <1>2, <1>10 DEF Settled
  <2>2. /\ tick' \in Tick /\ tick'.phase = tick.phase /\ tick'.at = tick.at
        /\ tick'.todo = tick.todo /\ tick'.attached = tick.attached \ gone
        /\ tick.attached \subseteq Jobs
    BY <1>3, <2>1 DEF IdleState, Tick
  <2>3. /\ disk' \in File /\ disk'.rows \in {rows, disk.rows, rows'}
        /\ ~disk'.stale => disk'.rows = rows' /\ disk'.marker = Oldest(running')
    <3>1. /\ disk' \in File
          /\ ~disk'.stale => disk'.rows = rows' /\ disk'.marker = Oldest(running')
          /\ disk'.rows = rows' \/ disk'.rows = d.rows
      BY <1>5, <1>6, <1>8, <2>1, SaveFacts
    <3> QED
      BY <1>8, <2>1, <3>1
  <2>4. \A k \in tick'.attached : rows'[k].listed
    <3>1. \A k \in tick'.attached : k \in tick.attached /\ k \in Jobs /\ rows[k].listed
      BY <1>3, <2>2 DEF IdleState
    <3>2. CASE removes
      BY <1>6, <2>1, <2>2, <3>1, <3>2
    <3>3. CASE ~removes
      BY <1>6, <2>1, <3>1, <3>3
    <3> QED
      BY <3>2, <3>3
  <2>5. Runs'
    BY <1>1, <1>3, <1>5, <1>10, <2>2 DEF IdleState, Runs
  <2>6. owed' \subseteq Due(rows', now)
    <3>1. owed' = (owed \ gone) \cup Due(rows', now)
      BY <1>1, <1>10 DEF Owes, gone, j
    <3>2. CASE removes
      BY <1>3, <1>6, <2>1, <3>1, <3>2 DEF IdleState, Due
    <3>3. CASE ~removes
      BY <1>3, <1>6, <2>1, <3>1, <3>3 DEF IdleState
    <3> QED
      BY <3>2, <3>3
  <2>7. /\ rows' \in Rows /\ \A k \in Jobs \ {j} : rows'[k] = rows[k]
        /\ rows'[j] = rows[j] \/ ~rows'[j].on
    BY <1>6, <2>1
  <2>8. done'[j] <= now /\ (rows'[j].on => rows'[j].next > done'[j])
    BY <1>3, <1>4, <2>1, <2>7 DEF IdleState
  <2> QED
    BY <1>1, <1>3, <1>4, <1>5, <1>7, <2>1, <2>2, <2>3, <2>4, <2>5, <2>6, <2>7, <2>8,
       OneRowStep DEF IdleState
<1> QED
  BY <1>4, <1>9, <1>10 DEF Run

LEMMA CrashStep == ASSUME IInv, Crash PROVE IInv'
<1>1. /\ up /\ restarts < MaxRestarts /\ up' = FALSE /\ restarts' = restarts + 1
      /\ rows' = disk.rows /\ running' = <<>> /\ tick' = NoTick
      /\ left' = [j \in Jobs |-> 0] /\ owed' = Due(rows', now)
      /\ done' = IF disk.stale \/ ~Idle THEN [j \in Jobs |-> 0] ELSE done
      /\ UNCHANGED <<now, disk, turns, edits>>
  BY DEF Crash
<1>2. /\ NoTick \in Tick /\ Len(NoTick.todo) = 0 /\ NoTick.todo = <<>> /\ NoTick.phase = "idle"
      /\ NoTick.at = 0 /\ NoTick.attached = {}
  BY DEF NoTick, Tick
<1>3. /\ disk \in File /\ disk.rows \in Rows /\ now \in 1 .. MaxNow /\ now \in Nat
      /\ restarts \in 0 .. MaxRestarts /\ restarts' \in 0 .. MaxRestarts
      /\ done \in [Jobs -> Nat]
  <2>1. disk \in File /\ now \in 1 .. MaxNow /\ restarts \in 0 .. MaxRestarts
        /\ done \in [Jobs -> Nat]
    BY DEF IInv, Types
  <2> QED
    BY <1>1, <2>1, CronAssumption DEF File
<1>4. /\ left' \in [Jobs -> Nat] /\ done' \in [Jobs -> Nat] /\ running' \in Seq(Run)
      /\ owed' \subseteq Jobs
  BY <1>1, <1>3 DEF Due
<1>5. Types'
  BY <1>1, <1>2, <1>3, <1>4 DEF IInv, Types
<1>6. Runs' /\ Current'
  BY <1>1, <1>2 DEF Runs, Current, Idle
<1>7. Fired'
  <2>1. \A j \in Jobs : rows'[j].next \in Nat /\ (rows'[j].on => rows'[j].next > 0)
    BY <1>1, <1>3 DEF Rows, RowOK
  <2>2. CASE disk.stale \/ ~Idle
    <3>1. \A j \in Jobs : done'[j] = 0
      BY <1>1, <2>2
    <3> QED
      BY <1>1, <1>2, <1>3, <2>1, <3>1 DEF Fired
  <2>3. CASE ~disk.stale /\ Idle
    <3>1. rows' = rows /\ done' = done
      BY <1>1, <2>3 DEF IInv, Current
    <3> QED
      BY <1>1, <1>2, <1>3, <3>1 DEF IInv, Fired
  <2> QED
    BY <2>2, <2>3
<1>8. BegunOnce'
  BY <1>1, <1>2 DEF IInv, BegunOnce
<1> QED
  BY <1>1, <1>5, <1>6, <1>7, <1>8 DEF IInv

LEMMA RestartStep == ASSUME IInv, Restart PROVE IInv'
<1>1. /\ ~up /\ up' = TRUE /\ disk' = [disk EXCEPT !.marker = Nobody, !.stale = FALSE]
      /\ UNCHANGED <<now, rows, running, tick, left, owed, done, passed, turns, edits, restarts>>
  BY DEF Restart
<1>2. disk \in File /\ disk.rows = rows /\ running = <<>>
  BY <1>1 DEF IInv, Types, Current, Runs
<1>3. disk' \in File /\ disk'.rows = rows /\ disk'.marker = Nobody
  BY <1>1, <1>2 DEF File
<1>4. Types' /\ Runs'
  BY <1>1, <1>3 DEF IInv, Types, Runs
<1>5. Current'
  BY <1>1, <1>2, <1>3 DEF Current, Oldest
<1>6. Fired' /\ BegunOnce'
  BY <1>1, <1>2, <1>3 DEF IInv, Fired, BegunOnce
<1> QED
  BY <1>1, <1>4, <1>5, <1>6 DEF IInv

LEMMA ClockStep == ASSUME IInv, Clock PROVE IInv'
<1>1. /\ now < MaxNow /\ now' = now + 1 /\ owed' = owed \cup Due(rows, now')
      /\ UNCHANGED <<up, rows, disk, running, tick, left, done, passed, turns, edits, restarts>>
  BY DEF Clock
<1>2. now \in Nat /\ now \in 1 .. MaxNow /\ rows \in Rows /\ tick.at \in Nat
      /\ done \in [Jobs -> Nat]
  BY Constants DEF IInv, Types, Tick
<1>3. now' \in 1 .. MaxNow /\ now' = now + 1
  BY <1>1, <1>2, Constants
<1>4. owed' \subseteq Due(rows, now') /\ owed' \subseteq Jobs
  <2>1. Due(rows, now) \subseteq Due(rows, now + 1) /\ Due(rows, now + 1) \subseteq Jobs
    BY <1>2, DueFacts
  <2> QED
    BY <1>1, <2>1 DEF IInv
<1>5. Types'
  BY <1>1, <1>3, <1>4 DEF IInv, Types
<1>6. Runs' /\ Current' /\ BegunOnce'
  BY <1>1 DEF IInv, Runs, Current, BegunOnce, Idle
<1>7. Fired'
  BY <1>1, <1>2, <1>3 DEF IInv, Fired
<1> QED
  BY <1>1, <1>4, <1>5, <1>6, <1>7 DEF IInv

LEMMA Step == IInv /\ [Next]_vars => IInv'
<1> SUFFICES ASSUME IInv, [Next]_vars PROVE IInv'
  OBVIOUS
<1>1. CASE StartTick
  BY <1>1, StartTickStep
<1>2. CASE TickEnds
  BY <1>2, TickEndsStep
<1>3. CASE TickSkips
  BY <1>3, TickSkipsStep
<1>4. CASE TickStarts
  BY <1>4, TickStartsStep
<1>5. CASE \E j \in Jobs, how \in {"ok", "failed", "timeout"} : Ends(j, how)
  <2>1. PICK how \in {"ok", "failed", "timeout"}, i \in DOMAIN running : RunEnds(i, how)
    BY <1>5 DEF Ends
  <2> QED
    BY <2>1, RunEndsStep
<1>6. CASE \E j \in Jobs : LateEnds(j)
  BY <1>6, LateEndsStep
<1>7. CASE \E j \in Jobs : RunNow(j)
  BY <1>7, RunNowStep
<1>8. CASE \E j \in Jobs : RemoveJob(j)
  BY <1>8, RemoveStep
<1>9. CASE \E j \in Jobs : AddJob(j)
  BY <1>9, AddStep
<1>10. CASE \E j \in Jobs, on \in BOOLEAN : EnableJob(j, on)
  BY <1>10, EnableStep
<1>11. CASE Crash
  BY <1>11, CrashStep
<1>12. CASE Restart
  BY <1>12, RestartStep
<1>13. CASE Clock
  BY <1>13, ClockStep
<1>14. CASE UNCHANGED vars
  BY <1>14 DEF vars, IInv, Types, Runs, Current, Fired, BegunOnce, Idle
<1> QED
  BY <1>1, <1>2, <1>3, <1>4, <1>5, <1>6, <1>7, <1>8, <1>9, <1>10, <1>11, <1>12, <1>13, <1>14
     DEF Next

-----------------------------------------------------------------------------
(***************************************************************************)
(* Theorems                                                                *)
(***************************************************************************)
\* The invariant holds in every reachable state of the scheduler.
THEOREM Invariance == Spec => []IInv
BY Initial, Step, PTL DEF Spec

\* Every variable keeps its type, and an enabled row has a next fire, in memory
\* and in the file: what dueJobs relies on.
THEOREM TypeCorrect == Spec => []TypeOK
<1>1. IInv => TypeOK
  <2> SUFFICES ASSUME IInv PROVE TypeOK
    OBVIOUS
  <2>1. Types
    BY DEF IInv
  <2>2. /\ \A j \in Jobs : RowOK(rows[j]) /\ RowOK(disk.rows[j]) /\ left[j] \in Nat
        /\ disk.marker \in Jobs \cup {Nobody} /\ disk.faults \in 0 .. MaxFaults
    BY <2>1 DEF Types, Rows, File
  <2>3. \A r \in Range(running) : r.job \in Jobs /\ r.by \in {"cron", "manual"}
    <3>1. running \in Seq(Run)
      BY <2>1 DEF Types
    <3>2. \A r \in Range(running) : r \in Run
      BY <3>1 DEF Range
    <3> QED
      BY <3>2 DEF Run
  <2> QED
    BY <2>1, <2>2, <2>3 DEF Types, TypeOK, Tick
<1> QED
  BY <1>1, Invariance, PTL

\* executeJob's guard and the tick's skip together: a job never has two live
\* runs, and the tick waits exactly for the one run of its own.
THEOREM OneRunPerJob == Spec => []NoOverlap
<1>1. IInv => NoOverlap
  <2> SUFFICES ASSUME IInv PROVE NoOverlap
    OBVIOUS
  <2>1. Runs /\ running \in Seq(Run)
    BY DEF IInv, Types
  <2>2. DOMAIN running = 1 .. Len(running)
    BY <2>1
  <2>3. (\E r \in Range(running) : r.by = "cron")
          <=> \E i \in 1 .. Len(running) : running[i].by = "cron"
    BY <2>2 DEF Range
  <2> QED
    BY <2>1, <2>2, <2>3 DEF Runs, NoOverlap
<1> QED
  BY <1>1, Invariance, PTL

\* The interruption marker: whenever the daemon may be interrupted between two
\* steps of the event loop, the file names the oldest live run, or nobody.
THEOREM MarkerNamesOldest == Spec => []MarkerExact
<1>1. IInv => MarkerExact
  BY DEF IInv, Current, MarkerExact, Oldest
<1> QED
  BY <1>1, Invariance, PTL

\* A settled fire is never due again, in memory or after a restart, while the
\* file can be written.
THEOREM SettledOnce == Spec => []NoRefire
<1>1. IInv => NoRefire
  BY DEF IInv, Current, Fired, NoRefire, Idle
<1> QED
  BY <1>1, Invariance, PTL

\* A fire that fell due stays due, in memory and in the file, until the tick
\* has run it or an owner has changed the job.
THEOREM DeferredNotLost == Spec => []FireNotLost
<1>1. IInv => FireNotLost
  BY DEF IInv, Current, FireNotLost, Idle
<1> QED
  BY <1>1, Invariance, PTL

\* The tick begins a one-shot's turn at most once each time it is scheduled,
\* however many restarts and failed saves fall between its pause and removal.
THEOREM BegunAtMostOnce == Spec => []OneShotOnce
<1>1. IInv => OneShotOnce
  BY DEF IInv, BegunOnce, OneShotOnce
<1> QED
  BY <1>1, Invariance, PTL

-----------------------------------------------------------------------------
(***************************************************************************)
(* The bound on launches that pass a waiting job j.  Coming: the pass      *)
(* under way may still launch k before it comes to j.  Later: the next     *)
(* pass may, k's fire being as old as j's once this one has advanced it.   *)
(* Each launch of k takes one of the two away, and while j waits neither   *)
(* comes back; what this needs of the runs is Heading.                     *)
(***************************************************************************)
Ahead(j, k) ==
    tick.phase # "idle" /\ \E i \in 1 .. Len(tick.todo) :
        tick.todo[i] = k /\ \A m \in 1 .. i : tick.todo[m] # j
Coming(j, k) == Ahead(j, k) /\ (tick.phase = "wait" => k # tick.todo[1])
Later(j, k) ==
    /\ rows[k].on
    /\ IF Ahead(j, k) /\ k \in tick.attached THEN tick.at + Interval <= rows[j].next
       ELSE rows[k].next <= rows[j].next

Once(j) == {k \in Others(j) : Coming(j, k) \/ Later(j, k)}
Twice(j) == {k \in Others(j) : Coming(j, k) /\ Later(j, k)}

Passing ==
    /\ passed \in [Jobs -> Nat]
    /\ \A j \in Jobs :
         /\ passed[j] > 0 => Waits(j)
         /\ passed[j] + Cardinality(Once(j)) + Cardinality(Twice(j))
              <= 2 * Cardinality(Others(j))

\* The tick's own run is of the job at the head of its snapshot.
Heading ==
    \A i \in 1 .. Len(running) : running[i].by = "cron" => running[i].job = tick.todo[1]

BInv == IInv /\ Heading /\ Passing

LEMMA Counting ==
    ASSUME NEW j \in Jobs, NEW P \in SUBSET Others(j), NEW Q \in SUBSET Others(j)
    PROVE  /\ Cardinality(P) \in Nat /\ Cardinality(P) <= Cardinality(Others(j))
           /\ Cardinality(Q) \in Nat /\ Cardinality(Others(j)) \in Nat
           /\ P \subseteq Q => Cardinality(P) <= Cardinality(Q)
           /\ \A h \in Q : P \subseteq Q \ {h} => Cardinality(P) <= Cardinality(Q) - 1
<1>1. IsFiniteSet(Others(j))
  BY CronAssumption, FS_Subset DEF Others
<1>2. IsFiniteSet(P) /\ IsFiniteSet(Q) /\ Cardinality(P) <= Cardinality(Others(j))
  BY <1>1, FS_Subset
<1>3. Cardinality(P) \in Nat /\ Cardinality(Q) \in Nat /\ Cardinality(Others(j)) \in Nat
  BY <1>1, <1>2, FS_CardinalityType
<1>4. P \subseteq Q => Cardinality(P) <= Cardinality(Q)
  BY <1>2, FS_Subset
<1>5. ASSUME NEW h \in Q, P \subseteq Q \ {h}
      PROVE  Cardinality(P) <= Cardinality(Q) - 1
  <2>1. IsFiniteSet(Q \ {h}) /\ Cardinality(Q \ {h}) = Cardinality(Q) - 1
    BY <1>2, FS_RemoveElement
  <2>2. Cardinality(P) <= Cardinality(Q \ {h})
    BY <1>5, <2>1, FS_Subset
  <2> QED BY <2>1, <2>2
<1> QED BY <1>2, <1>3, <1>4, <1>5

\* While nobody but h is launched, nothing comes back.
Shrinks(j) ==
    \A k \in Others(j) :
        /\ (Coming(j, k) \/ Later(j, k))' => Coming(j, k) \/ Later(j, k)
        /\ (Coming(j, k) /\ Later(j, k))' => Coming(j, k) /\ Later(j, k)

LEMMA BoundOne ==
    ASSUME Passing, NEW j \in Jobs, passed'[j] \in Nat,
           \/ passed'[j] = 0
           \/ passed'[j] = passed[j] /\ Shrinks(j)
           \/ /\ passed'[j] = passed[j] + 1
              /\ Shrinks(j)
              /\ \E h \in Others(j) : /\ Coming(j, h) /\ ~Coming(j, h)'
                                      /\ Later(j, h)' => Later(j, h)
    PROVE  passed'[j] + Cardinality(Once(j)') + Cardinality(Twice(j)')
             <= 2 * Cardinality(Others(j))
<1> DEFINE P == Once(j)
           Q == Twice(j)
           P2 == Once(j)'
           Q2 == Twice(j)'
           n == Cardinality(Others(j))
<1>1. P \in SUBSET Others(j) /\ Q \in SUBSET Others(j)
  BY DEF Once, Twice
<1>2. P2 \in SUBSET Others(j) /\ Q2 \in SUBSET Others(j)
  BY DEF Once, Twice, Others
<1>3. /\ Cardinality(P) \in Nat /\ Cardinality(Q) \in Nat /\ n \in Nat
      /\ Cardinality(P2) \in Nat /\ Cardinality(Q2) \in Nat
      /\ Cardinality(P2) <= n /\ Cardinality(Q2) <= n
  BY <1>1, <1>2, Counting
<1>4. passed[j] \in Nat /\ passed[j] + Cardinality(P) + Cardinality(Q) <= 2 * n
  BY DEF Passing
<1>5. Shrinks(j) => P2 \subseteq P /\ Q2 \subseteq Q
  BY DEF Shrinks, Once, Twice, Others
<1>6. CASE passed'[j] = 0
  BY <1>3, <1>6
<1>7. CASE passed'[j] = passed[j] /\ Shrinks(j)
  <2>1. Cardinality(P2) <= Cardinality(P) /\ Cardinality(Q2) <= Cardinality(Q)
    BY <1>1, <1>2, <1>5, <1>7, Counting
  <2> QED BY <1>3, <1>4, <1>7, <2>1
<1>8. CASE /\ passed'[j] = passed[j] + 1 /\ Shrinks(j)
           /\ \E h \in Others(j) : Coming(j, h) /\ ~Coming(j, h)' /\ (Later(j, h)' => Later(j, h))
  <2>1. PICK h \in Others(j) :
          Coming(j, h) /\ ~Coming(j, h)' /\ (Later(j, h)' => Later(j, h))
    BY <1>8
  <2>2. Cardinality(P2) <= Cardinality(P) /\ Cardinality(Q2) <= Cardinality(Q)
    BY <1>1, <1>2, <1>5, <1>8, Counting
  <2>3. CASE Later(j, h)
    <3>1. h \in Q /\ h \notin Q2
      BY <2>1, <2>3 DEF Twice, Others
    <3>2. Q2 \subseteq Q \ {h}
      BY <1>5, <1>8, <3>1
    <3>3. Cardinality(Q2) <= Cardinality(Q) - 1
      BY <1>1, <1>2, <3>1, <3>2, Counting
    <3> QED BY <1>3, <1>4, <1>8, <2>2, <3>3
  <2>4. CASE ~Later(j, h)
    <3>1. h \in P /\ h \notin P2
      BY <2>1, <2>4 DEF Once, Others
    <3>2. P2 \subseteq P \ {h}
      BY <1>5, <1>8, <3>1
    <3>3. Cardinality(P2) <= Cardinality(P) - 1
      BY <1>1, <1>2, <3>1, <3>2, Counting
    <3> QED BY <1>3, <1>4, <1>8, <2>2, <3>3
  <2> QED BY <2>3, <2>4
<1> QED BY <1>6, <1>7, <1>8

\* A step that launches nobody keeps the bound if it resets the count of every job
\* for which something does come back, or that waits no longer.
LEMMA PassingKept ==
    ASSUME Passing, passed' \in [Jobs -> Nat],
           \A j \in Jobs : passed'[j] # 0 =>
               passed'[j] = passed[j] /\ Waits(j)' /\ (Waits(j) => Shrinks(j))
    PROVE  Passing'
<1>1. ASSUME NEW j \in Jobs
      PROVE  /\ passed'[j] > 0 => Waits(j)'
             /\ passed'[j] + Cardinality(Once(j)') + Cardinality(Twice(j)')
                  <= 2 * Cardinality(Others(j))
  <2>1. passed'[j] \in Nat /\ passed[j] \in Nat
    BY DEF Passing
  <2>2. passed'[j] # 0 => Shrinks(j)
    BY <2>1 DEF Passing
  <2> QED BY <2>1, <2>2, BoundOne
<1> QED BY <1>1 DEF Passing, Others

\* The snapshot holds every job that is due, the oldest fire first.
LEMMA SnapshotFacts ==
    ASSUME NEW s \in Snapshots(now), now \in Nat
    PROVE  /\ s \in Seq(Jobs) /\ DOMAIN s = 1 .. Len(s) /\ Len(s) \in Nat
           /\ \A i \in 1 .. Len(s) : s[i] \in Due(rows, now)
           /\ \A j \in Due(rows, now) : \E i \in 1 .. Len(s) : s[i] = j
           /\ \A i, k \in 1 .. Len(s) : i < k => rows[s[i]].next <= rows[s[k]].next
<1> DEFINE D == Due(rows, now)
           n == Cardinality(D)
<1>1. D \subseteq Jobs /\ IsFiniteSet(D)
  BY CronAssumption, FS_Subset DEF Due
<1>2. n \in Nat
  BY <1>1, FS_CardinalityType
<1>3. /\ s \in [1 .. n -> D] /\ \A i, k \in 1 .. n : i # k => s[i] # s[k]
      /\ \A i, k \in DOMAIN s : i < k => rows[s[i]].next <= rows[s[k]].next
  BY DEF Snapshots, SetToSeqs
<1>4. s \in Injection(1 .. n, D)
  BY <1>3 DEF Injection, IsInjective
<1>5. Cardinality(1 .. n) = n
  BY <1>2, FS_Interval
<1>6. s \in Surjection(1 .. n, D)
  BY <1>1, <1>4, <1>5, FS_Injection
<1>7. \A j \in D : \E i \in 1 .. n : s[i] = j
  BY <1>6 DEF Surjection
<1> HIDE DEF n
<1>8. s \in Seq(Jobs) /\ Len(s) = n /\ DOMAIN s = 1 .. n
  BY <1>1, <1>2, <1>3
<1> QED BY <1>2, <1>3, <1>7, <1>8

\* The steps that launch nobody and the counts do not notice.
LEMMA SamePassed ==
    ASSUME Passing, UNCHANGED <<passed, owed, running>>, \A j \in Jobs : Waits(j) => Shrinks(j)
    PROVE  Passing'
<1>1. passed' \in [Jobs -> Nat]
  BY DEF Passing
<1>2. ASSUME NEW j \in Jobs, passed'[j] # 0
      PROVE  passed'[j] = passed[j] /\ Waits(j)' /\ (Waits(j) => Shrinks(j))
  <2>1. Waits(j)
    BY <1>2 DEF Passing
  <2>2. Waits(j)'
    BY <2>1 DEF Waits, InFlight
  <2> QED BY <2>1, <2>2
<1> QED BY <1>1, <1>2, PassingKept

LEMMA StartTickBound == ASSUME IInv, Passing, StartTick PROVE Passing'
<1>1. PICK s \in Snapshots(now) :
        tick' = [phase |-> "next", at |-> now, todo |-> s, attached |-> Range(s), ran |-> FALSE]
  BY DEF StartTick
<1>2. /\ tick.phase = "idle" /\ rows \in Rows /\ now \in Nat
      /\ UNCHANGED <<now, rows, running, owed, passed>>
  BY Constants DEF StartTick, IInv, Types
<1>3. /\ s \in Seq(Jobs) /\ DOMAIN s = 1 .. Len(s) /\ Len(s) \in Nat
      /\ \A i \in 1 .. Len(s) : s[i] \in Due(rows, now)
      /\ \A j \in Due(rows, now) : \E i \in 1 .. Len(s) : s[i] = j
      /\ \A i, k \in 1 .. Len(s) : i < k => rows[s[i]].next <= rows[s[k]].next
  BY <1>2, SnapshotFacts
<1>4. /\ tick'.phase = "next" /\ tick'.at = now /\ tick'.todo = s
      /\ tick'.attached = Range(s)
  BY <1>1
<1>5. ASSUME NEW j \in Jobs, Waits(j), NEW k \in Others(j)
      PROVE  /\ (Coming(j, k) \/ Later(j, k))' => Coming(j, k) \/ Later(j, k)
             /\ ~(Coming(j, k) /\ Later(j, k))'
  <2>1. j \in Due(rows, now) /\ k \in Jobs /\ k # j
    BY <1>5 DEF Waits, IInv, Others
  <2>2. /\ rows[j].next \in Nat /\ rows[j].next <= now /\ rows[k].next \in Nat
    BY <1>2, <2>1 DEF Due, Rows, RowT
  <2>3. ~Ahead(j, k)
    BY <1>2 DEF Ahead
  <2>4. Later(j, k) <=> rows[k].on /\ rows[k].next <= rows[j].next
    BY <2>3 DEF Later
  <2>5. Ahead(j, k)' => Later(j, k) /\ k \in tick'.attached
    <3> SUFFICES ASSUME Ahead(j, k)' PROVE Later(j, k) /\ k \in tick'.attached
      OBVIOUS
    <3>1. PICK i \in 1 .. Len(s) : s[i] = k /\ \A m \in 1 .. i : s[m] # j
      BY <1>4 DEF Ahead
    <3>2. PICK p \in 1 .. Len(s) : s[p] = j
      BY <1>3, <2>1
    <3>3. i < p
      BY <1>3, <3>1, <3>2
    <3>4. rows[k].next <= rows[j].next /\ rows[k].on
      BY <1>3, <3>1, <3>2, <3>3 DEF Due
    <3>5. k \in Range(s)
      BY <1>3, <3>1 DEF Range
    <3> QED BY <1>4, <2>4, <3>4, <3>5
  <2>6. Later(j, k)' => ~Ahead(j, k)' /\ rows[k].on /\ rows[k].next <= rows[j].next
    <3>1. ~(now + Interval <= rows[j].next)
      BY <1>2, <2>2, Constants
    <3> QED BY <1>2, <1>4, <2>5, <3>1 DEF Later
  <2> QED BY <2>4, <2>5, <2>6 DEF Coming
<1>6. \A j \in Jobs : Waits(j) => Shrinks(j)
  BY <1>5 DEF Shrinks
<1> QED BY <1>2, <1>6, SamePassed

LEMMA TickEndsBound == ASSUME IInv, Passing, TickEnds PROVE Passing'
<1>1. /\ tick.phase = "next" /\ tick'.phase = "idle"
      /\ UNCHANGED <<rows, running, owed, passed>>
  BY DEF TickEnds, NoTick
<1>2. ASSUME NEW j \in Jobs, NEW k \in Others(j)
      PROVE  /\ (Coming(j, k) \/ Later(j, k))' => Coming(j, k) \/ Later(j, k)
             /\ ~(Coming(j, k) /\ Later(j, k))'
  <2>1. ~Ahead(j, k)' /\ (Ahead(j, k) => Coming(j, k))
    BY <1>1 DEF Ahead, Coming
  <2>2. Later(j, k)' => Coming(j, k) \/ Later(j, k)
    BY <1>1, <2>1 DEF Later
  <2> QED BY <2>1, <2>2 DEF Coming
<1>3. \A j \in Jobs : Waits(j) => Shrinks(j)
  BY <1>2 DEF Shrinks
<1> QED BY <1>1, <1>3, SamePassed

\* The pass goes on to its next job, past a head that is not j.
LEMMA AheadOnward ==
    ASSUME IInv, tick.phase # "idle", tick.todo # <<>>, NEW gone \in SUBSET Jobs,
           tick' = Onward(gone), NEW j \in Jobs, j # tick.todo[1], NEW k \in Jobs
    PROVE  /\ Ahead(j, k)' <=> Ahead(j, k) /\ k # tick.todo[1]
           /\ Coming(j, k)' <=> Ahead(j, k)'
           /\ Ahead(j, tick.todo[1])
<1>1. /\ tick' \in Tick /\ tick'.phase = "next" /\ tick.todo \in Seq(Jobs)
      /\ Len(tick.todo) \in Nat /\ Len(tick.todo) > 0
      /\ Len(tick'.todo) = Len(tick.todo) - 1
      /\ \A i \in 1 .. Len(tick'.todo) : tick'.todo[i] = tick.todo[i + 1]
      /\ \A i, m \in 1 .. Len(tick.todo) : tick.todo[i] = tick.todo[m] => i = m
  <2>1. tick.todo \in Seq(Jobs) /\ Types /\ Runs
    BY DEF IInv, Types, Tick
  <2>2. Len(tick.todo) \in Nat /\ Len(tick.todo) > 0
    BY <2>1, EmptySeq
  <2>3. /\ Onward(gone) \in Tick /\ Onward(gone).phase = "next"
        /\ Len(Onward(gone).todo) = Len(tick.todo) - 1
        /\ \A i \in 1 .. Len(Onward(gone).todo) : Onward(gone).todo[i] = tick.todo[i + 1]
    BY <2>1, OnwardFacts
  <2> QED BY <2>1, <2>2, <2>3 DEF Runs
<1> DEFINE t == tick.todo
           u == tick'.todo
<1>2. ASSUME Ahead(j, k)' PROVE Ahead(j, k) /\ k # t[1]
  <2>1. PICK i \in 1 .. Len(u) : u[i] = k /\ \A m \in 1 .. i : u[m] # j
    BY <1>2 DEF Ahead
  <2>2. i + 1 \in 1 .. Len(t) /\ t[i + 1] = k /\ 1 \in 1 .. Len(t)
    BY <1>1, <2>1
  <2>3. ASSUME NEW m \in 1 .. i + 1 PROVE t[m] # j
    <3>1. CASE m = 1
      BY <3>1
    <3>2. CASE m # 1
      <4>1. m - 1 \in 1 .. i /\ m - 1 \in 1 .. Len(u)
        BY <1>1, <3>2
      <4>2. u[m - 1] = t[m]
        BY <1>1, <4>1
      <4> QED BY <2>1, <4>1, <4>2
    <3> QED BY <3>1, <3>2
  <2>4. Ahead(j, k)
    BY <2>2, <2>3 DEF Ahead
  <2>5. k # t[1]
    BY <1>1, <2>1, <2>2
  <2> QED BY <2>4, <2>5
<1>3. ASSUME Ahead(j, k), k # t[1] PROVE Ahead(j, k)'
  <2>1. PICK i \in 1 .. Len(t) : t[i] = k /\ \A m \in 1 .. i : t[m] # j
    BY <1>3 DEF Ahead
  <2>2. i # 1 /\ i - 1 \in 1 .. Len(u) /\ u[i - 1] = k
    BY <1>1, <1>3, <2>1
  <2>3. \A m \in 1 .. i - 1 : u[m] # j
    <3>1. ASSUME NEW m \in 1 .. i - 1 PROVE u[m] # j
      <4>1. m \in 1 .. Len(u) /\ m + 1 \in 1 .. i
        BY <1>1, <2>1
      <4> QED BY <1>1, <2>1, <4>1
    <3> QED BY <3>1
  <2>4. tick'.phase # "idle"
    BY <1>1
  <2> QED BY <2>2, <2>3, <2>4 DEF Ahead
<1>4. Coming(j, k)' <=> Ahead(j, k)'
  BY <1>1 DEF Coming
<1>5. Ahead(j, t[1])
  BY <1>1 DEF Ahead
<1> QED BY <1>2, <1>3, <1>4, <1>5

LEMMA TickSkipsBound == ASSUME IInv, Passing, TickSkips PROVE Passing'
<1>1. /\ tick.phase = "next" /\ tick.todo # <<>> /\ tick' = Onward({})
      /\ InFlight(tick.todo[1])
      /\ UNCHANGED <<rows, running, owed, passed>>
  BY DEF TickSkips, Exhausted
<1>2. tick'.at = tick.at /\ tick'.attached = tick.attached
  BY <1>1 DEF Onward, IInv, Types, Tick
<1>3. ASSUME NEW j \in Jobs, Waits(j), NEW k \in Others(j)
      PROVE  /\ (Coming(j, k) \/ Later(j, k))' => Coming(j, k) \/ Later(j, k)
             /\ (Coming(j, k) /\ Later(j, k))' => Coming(j, k) /\ Later(j, k)
  <2>1. j # tick.todo[1] /\ k \in Jobs
    BY <1>1, <1>3 DEF Waits, Others
  <2>2. /\ Ahead(j, k)' <=> Ahead(j, k) /\ k # tick.todo[1]
        /\ Coming(j, k)' <=> Ahead(j, k)'
    BY <1>1, <2>1, AheadOnward
  <2>3. Coming(j, k) <=> Ahead(j, k)
    BY <1>1 DEF Coming
  <2>4. Ahead(j, k)' => (Later(j, k)' <=> Later(j, k))
    BY <1>1, <1>2, <2>2 DEF Later
  <2>5. ~Ahead(j, k)' /\ ~Ahead(j, k) => (Later(j, k)' <=> Later(j, k))
    BY <1>1, <1>2 DEF Later
  <2> QED BY <2>2, <2>3, <2>4, <2>5
<1>4. \A j \in Jobs : Waits(j) => Shrinks(j)
  BY <1>3 DEF Shrinks
<1> QED BY <1>1, <1>4, SamePassed

\* The head's run is over, or never began: if its row is due again, then no sooner
\* than foreseen.
LEMMA HeadSettled ==
    ASSUME IInv, tick.phase # "idle", tick.todo # <<>>, NEW gone \in SUBSET Jobs,
           tick' = Onward(gone), NEW h \in Jobs, h = tick.todo[1], gone \subseteq {h},
           \A k \in Jobs \ {h} : rows'[k] = rows[k],
           rows'[h].on =>
             /\ rows[h].on
             /\ rows'[h].next = IF h \in tick.attached THEN tick.at + Interval
                                ELSE rows[h].next,
           NEW j \in Jobs, j # h
    PROVE  /\ Shrinks(j)
           /\ ~Coming(j, h)' /\ (Later(j, h)' => Later(j, h))
<1>1. tick'.at = tick.at /\ tick'.attached = tick.attached \ gone
  BY DEF Onward, IInv, Types, Tick
<1>2. \A k \in Jobs : /\ Ahead(j, k)' <=> Ahead(j, k) /\ k # h
                      /\ Coming(j, k)' <=> Ahead(j, k)'
  BY AheadOnward
<1>3. Ahead(j, h)
  BY AheadOnward
<1>4. Later(j, h)' => Later(j, h)
  <2>1. ~Ahead(j, h)' /\ rows'[j] = rows[j]
    BY <1>2
  <2> QED BY <1>3, <2>1 DEF Later
<1>5. ASSUME NEW k \in Jobs \ {h} PROVE Later(j, k)' <=> Later(j, k)
  <2>1. rows'[j] = rows[j] /\ rows'[k] = rows[k]
    BY <1>5
  <2>2. (Ahead(j, k)' /\ k \in tick'.attached) <=> (Ahead(j, k) /\ k \in tick.attached)
    BY <1>1, <1>2, <1>5
  <2> QED BY <1>1, <2>1, <2>2 DEF Later
<1>6. ASSUME NEW k \in Jobs, k # h, Coming(j, k)' PROVE Coming(j, k)
  BY <1>2, <1>6 DEF Coming
<1>7. ~Coming(j, h)'
  BY <1>2
<1>8. ASSUME NEW k \in Others(j)
      PROVE  /\ (Coming(j, k) \/ Later(j, k))' => Coming(j, k) \/ Later(j, k)
             /\ (Coming(j, k) /\ Later(j, k))' => Coming(j, k) /\ Later(j, k)
  <2>1. k \in Jobs
    BY DEF Others
  <2>2. CASE k = h
    BY <1>4, <1>7, <2>2
  <2>3. CASE k # h
    BY <1>5, <1>6, <2>1, <2>3
  <2> QED BY <2>2, <2>3
<1> QED BY <1>4, <1>7, <1>8 DEF Shrinks

LEMMA TickStartsBound == ASSUME BInv, TickStarts PROVE Passing' /\ (IInv' => Heading')
<1>0. tick.todo # <<>> /\ tick.todo \in Seq(Jobs)
  BY DEF TickStarts, Exhausted, BInv, IInv, Types, Tick
<1>a. PICK h \in Jobs : h = Head(tick.todo)
  BY <1>0
<1> DEFINE live == Append(running, [job |-> h, by |-> "cron"])
<1>1. /\ tick.phase = "next" /\ tick.todo # <<>> /\ ~InFlight(h) /\ Passes(h)
      /\ UNCHANGED now
  BY <1>0, <1>a DEF TickStarts
<1>2. PICK l \in Launches(h, live) :
        \/ /\ l.begun /\ rows' = l.rows /\ running' = live
           /\ tick' = [tick EXCEPT !.phase = "wait"]
        \/ /\ ~l.begun /\ rows' = Settled(l.rows, h, "cron") /\ tick' = Onward({})
           /\ running' = running
  BY <1>a DEF TickStarts
<1>3. /\ h \in Jobs /\ h = tick.todo[1] /\ tick \in Tick /\ rows \in Rows
      /\ now \in 1 .. MaxNow /\ 1 \in 1 .. Len(tick.todo)
  <2>1. tick.todo \in Seq(Jobs) /\ tick \in Tick /\ rows \in Rows /\ now \in 1 .. MaxNow
    BY DEF BInv, IInv, Types, Tick
  <2> QED BY <1>a, <1>1, <2>1
<1>4. /\ live \in Seq(Run) /\ Len(live) = Len(running) + 1 /\ Len(running) \in Nat
      /\ \A i \in 1 .. Len(running) : live[i] = running[i]
      /\ live[Len(live)].job = h
  BY <1>1, <1>3, Joins DEF BInv, IInv
<1> HIDE DEF live
<1>5. /\ l.rows \in Rows
      /\ \/ l.rows = rows
         \/ l.rows = [rows EXCEPT ![h] = Row(FALSE, 0)]
  BY <1>3, <1>4, LaunchFacts DEF BInv, IInv
<1>6. /\ \A k \in Jobs \ {h} : l.rows[k] = rows[k]
      /\ l.rows[h].on => l.rows[h] = rows[h]
  <2>1. CASE l.rows = rows
    BY <2>1
  <2>2. CASE l.rows = [rows EXCEPT ![h] = Row(FALSE, 0)]
    <3>1. l.rows[h] = Row(FALSE, 0) /\ \A k \in Jobs \ {h} : l.rows[k] = rows[k]
      BY <1>3, <2>2 DEF Rows
    <3>2. ~Row(FALSE, 0).on
      BY DEF Row
    <3> QED BY <3>1, <3>2
  <2> QED BY <1>5, <2>1, <2>2
<1>7. ASSUME NEW j \in Jobs, j # h
      PROVE  Shrinks(j) /\ Coming(j, h) /\ ~Coming(j, h)' /\ (Later(j, h)' => Later(j, h))
  <2>1. Coming(j, h)
    BY <1>1, <1>3, <1>7 DEF Coming, Ahead
  <2>2. CASE l.begun
    <3>1. /\ rows' = l.rows /\ tick'.phase = "wait" /\ tick'.todo = tick.todo
          /\ tick'.at = tick.at /\ tick'.attached = tick.attached
      BY <1>2, <1>3, <2>2 DEF Tick
    <3>2. \A k : Ahead(j, k)' <=> Ahead(j, k)
      BY <1>1, <3>1 DEF Ahead
    <3>3. \A k \in Jobs : Coming(j, k)' => Coming(j, k)
      BY <1>1, <3>2 DEF Coming
    <3>4. ~Coming(j, h)'
      BY <1>3, <3>1 DEF Coming
    <3>5. ASSUME NEW k \in Jobs, Later(j, k)' PROVE Later(j, k)
      <4>1. rows'[k].on /\ rows'[k] = rows[k] /\ rows'[j] = rows[j]
        BY <1>3, <1>6, <1>7, <3>1, <3>5 DEF Later
      <4> QED BY <3>1, <3>2, <3>5, <4>1 DEF Later
    <3> QED BY <1>3, <2>1, <3>3, <3>4, <3>5 DEF Shrinks, Others
  <2>3. CASE ~l.begun
    <3>1. rows' = Settled(l.rows, h, "cron") /\ tick' = Onward({})
      BY <1>2, <2>3
    <3>2. /\ \A k \in Jobs \ {h} : rows'[k] = l.rows[k]
          /\ rows'[h].on = l.rows[h].on
          /\ h \in tick.attached /\ l.rows[h].on => rows'[h].next = tick.at + Interval
          /\ h \notin tick.attached => rows' = l.rows
      <4> DEFINE r == Settled(l.rows, h, "cron")
      <4>1. /\ \A k \in Jobs \ {h} : r[k] = l.rows[k]
            /\ r[h].on = l.rows[h].on
            /\ h \in tick.attached /\ l.rows[h].on => r[h].next = tick.at + Interval
            /\ h \notin tick.attached => r = l.rows
        BY <1>3, <1>5, SettledFacts
      <4> HIDE DEF r
      <4>2. rows' = r
        BY <3>1 DEF r
      <4> QED BY <4>1, <4>2
    <3>3. \A k \in Jobs \ {h} : rows'[k] = rows[k]
      BY <1>6, <3>2
    <3>4. rows'[h].on =>
            /\ rows[h].on
            /\ rows'[h].next = IF h \in tick.attached THEN tick.at + Interval
                               ELSE rows[h].next
      BY <1>6, <3>2
    <3>5. tick.phase # "idle" /\ {} \in SUBSET Jobs /\ {} \subseteq {h} /\ IInv
      BY <1>1 DEF BInv
    <3>6. Shrinks(j) /\ ~Coming(j, h)' /\ (Later(j, h)' => Later(j, h))
      BY <1>1, <1>3, <1>7, <3>1, <3>3, <3>4, <3>5, HeadSettled
    <3> QED BY <2>1, <3>6
  <2> QED BY <2>2, <2>3
<1>8. passed' = [k \in Jobs |-> IF k = h \/ ~Waits(k)' THEN 0
                                ELSE IF Waits(k) THEN passed[k] + 1 ELSE passed[k]]
  BY <1>1 DEF Passes
<1>9. passed' \in [Jobs -> Nat]
  BY <1>8 DEF BInv, Passing
<1>10. ASSUME NEW j \in Jobs
       PROVE  /\ passed'[j] > 0 => Waits(j)'
              /\ passed'[j] + Cardinality(Once(j)') + Cardinality(Twice(j)')
                   <= 2 * Cardinality(Others(j))
  <2>1. passed'[j] \in Nat /\ passed[j] \in Nat /\ Passing /\ (passed[j] > 0 => Waits(j))
    BY <1>9 DEF BInv, Passing
  <2>2. passed'[j] > 0 => Waits(j)' /\ j # h
    BY <1>8
  <2>3. passed'[j] > 0 => passed'[j] = passed[j] + 1
    BY <1>8, <2>1
  <2>4. j # h => h \in Others(j)
    BY <1>3 DEF Others
  <2>5. CASE passed'[j] = 0
    BY <2>1, <2>5, BoundOne
  <2>6. CASE passed'[j] > 0
    <3>1. passed'[j] = passed[j] + 1 /\ j # h /\ h \in Others(j)
      BY <2>2, <2>3, <2>4, <2>6
    <3>2. Shrinks(j) /\ Coming(j, h) /\ ~Coming(j, h)' /\ (Later(j, h)' => Later(j, h))
      BY <1>7, <3>1
    <3>3. \E g \in Others(j) : Coming(j, g) /\ ~Coming(j, g)' /\ (Later(j, g)' => Later(j, g))
      BY <3>1, <3>2
    <3>4. passed'[j] + Cardinality(Once(j)') + Cardinality(Twice(j)')
            <= 2 * Cardinality(Others(j))
      BY <2>1, <3>1, <3>2, <3>3, BoundOne
    <3> QED BY <2>2, <3>4
  <2> QED BY <2>1, <2>2, <2>5, <2>6
<1>11. Passing'
  BY <1>9, <1>10 DEF Passing, Others
<1>12. ASSUME IInv' PROVE Heading'
  <2>1. CASE l.begun
    <3>1. running' = live /\ tick'.todo = tick.todo
      BY <1>2, <1>3, <2>1 DEF Tick
    <3>2. \A i \in 1 .. Len(running) : running[i].by # "cron"
      BY <1>1 DEF BInv, IInv, Runs
    <3> QED BY <1>3, <1>4, <3>1, <3>2 DEF Heading
  <2>2. CASE ~l.begun
    <3>1. tick'.phase = "next"
      BY <1>2, <2>2 DEF Onward, BInv, IInv, Types, Tick
    <3> QED BY <1>12, <3>1 DEF IInv, Runs, Heading
  <2> QED BY <2>1, <2>2
<1> QED BY <1>11, <1>12

\* Rows are switched off, and perhaps detached, under the tick.
LEMMA SwitchedOff ==
    ASSUME tick'.phase = tick.phase, tick'.todo = tick.todo, tick'.at = tick.at,
           NEW g \in Jobs, \A k \in Jobs \ {g} : rows'[k] = rows[k],
           rows'[g].on => rows'[g] = rows[g] /\ tick'.attached = tick.attached,
           \A k \in Jobs \ {g} : k \in tick'.attached <=> k \in tick.attached,
           NEW j \in Jobs, rows'[j] = rows[j]
    PROVE  Shrinks(j)
<1>1. \A k \in Jobs : (Ahead(j, k)' <=> Ahead(j, k)) /\ (Coming(j, k)' <=> Coming(j, k))
  BY DEF Ahead, Coming
<1>2. ASSUME NEW k \in Jobs, Later(j, k)' PROVE Later(j, k)
  <2>1. rows'[k] = rows[k] /\ (k \in tick'.attached <=> k \in tick.attached)
    BY <1>2 DEF Later
  <2> QED BY <1>1, <1>2, <2>1 DEF Later
<1> QED BY <1>1, <1>2 DEF Shrinks, Others

\* What Owes does to the counts.
LEMMA OwesFacts ==
    ASSUME Passing, NEW excused, Owes(excused)
    PROVE  /\ passed' \in [Jobs -> Nat]
           /\ \A j \in Jobs : passed'[j] # 0 =>
                passed'[j] = passed[j] /\ Waits(j)' /\ Waits(j) /\ j \notin excused
  BY DEF Owes, Passing

LEMMA SwitchedOffBound ==
    ASSUME Passing, NEW excused, Owes(excused),
           tick'.phase = tick.phase, tick'.todo = tick.todo, tick'.at = tick.at,
           NEW g \in Jobs, \A k \in Jobs \ {g} : rows'[k] = rows[k],
           rows'[g] = rows[g] \/ g \in excused,
           rows'[g].on => rows'[g] = rows[g] /\ tick'.attached = tick.attached,
           \A k \in Jobs \ {g} : k \in tick'.attached <=> k \in tick.attached
    PROVE  Passing'
<1>1. /\ passed' \in [Jobs -> Nat]
      /\ \A j \in Jobs : passed'[j] # 0 =>
           passed'[j] = passed[j] /\ Waits(j)' /\ Waits(j) /\ j \notin excused
  BY OwesFacts
<1>2. ASSUME NEW j \in Jobs, passed'[j] # 0 PROVE Shrinks(j)
  <2>1. rows'[j] = rows[j]
    BY <1>1, <1>2
  <2> QED BY <2>1, SwitchedOff
<1> QED BY <1>1, <1>2, PassingKept

LEMMA RunEndsBound ==
    ASSUME BInv, NEW i \in DOMAIN running, NEW how \in {"ok", "failed", "timeout"},
           RunEnds(i, how)
    PROVE  Passing' /\ (IInv' => Heading')
<1>0. IInv /\ Heading /\ Passing /\ Idle /\ tick \in Tick /\ rows \in Rows
  <2>1. Idle
    BY DEF RunEnds
  <2> QED BY <2>1 DEF BInv, IInv, Types
<1>1. i \in 1 .. Len(running) /\ running[i] \in Run /\ running \in Seq(Run)
  BY DEF BInv, IInv, Types
<1>2. PICK j \in Jobs : j = running[i].job
  BY <1>1 DEF Run
<1> DEFINE removes == how = "ok" /\ j \in OneShots /\ rows[j].listed
           after == IF removes THEN [rows EXCEPT ![j] = Absent] ELSE rows
           gone == IF removes THEN {j} ELSE {}
<1>3. /\ \/ /\ running[i].by = "cron" /\ tick' = Onward(gone)
            /\ rows' = IF removes THEN after ELSE Settled(after, j, "cron")
         \/ /\ running[i].by = "manual"
            /\ tick' = [tick EXCEPT !.attached = @ \ gone]
            /\ rows' = Settled(after, j, "manual")
      /\ running' = RemoveAt(running, i)
      /\ Owes(IF running[i].by = "cron" THEN {j} ELSE gone)
  BY <1>2 DEF RunEnds
<1>4. /\ removes => rows'[j] = Absent \/ (running[i].by = "cron" /\ after[j] = Absent)
      /\ removes => after[j] = Absent /\ \A k \in Jobs \ {j} : after[k] = rows[k]
      /\ ~removes => after = rows
      /\ gone \subseteq {j} /\ ~Absent.on
  BY <1>0, <1>3 DEF Settled, Rows, Absent
<1>5. InFlight(j)
  BY <1>1, <1>2 DEF InFlight, Range
<1> HIDE DEF removes, after, gone
<1>6. CASE running[i].by = "cron"
  <2>1. tick.phase = "wait" /\ tick.todo # <<>> /\ j = tick.todo[1]
    BY <1>0, <1>1, <1>2, <1>6 DEF IInv, Runs, Heading
  <2>2. tick' = Onward(gone) /\ rows' = IF removes THEN after ELSE Settled(after, j, "cron")
    BY <1>3, <1>6
  <2>3. /\ \A k \in Jobs \ {j} : rows'[k] = rows[k]
        /\ rows'[j].on =>
             /\ rows[j].on
             /\ rows'[j].next = IF j \in tick.attached THEN tick.at + Interval
                                ELSE rows[j].next
    <3>1. CASE removes
      BY <1>4, <2>2, <3>1
    <3>2. CASE ~removes
      <4> DEFINE r == Settled(rows, j, "cron")
      <4>1. /\ \A k \in Jobs \ {j} : r[k] = rows[k]
            /\ r[j].on = rows[j].on
            /\ j \in tick.attached /\ rows[j].on => r[j].next = tick.at + Interval
            /\ j \notin tick.attached => r = rows
        BY <1>0, SettledFacts
      <4> HIDE DEF r
      <4>2. rows' = r
        BY <1>4, <2>2, <3>2 DEF r
      <4> QED BY <4>1, <4>2
    <3> QED BY <3>1, <3>2
  <2>4. Owes({j})
    BY <1>3, <1>6
  <2>5. /\ passed' \in [Jobs -> Nat]
        /\ \A k \in Jobs : passed'[k] # 0 =>
             passed'[k] = passed[k] /\ Waits(k)' /\ Waits(k) /\ k \notin {j}
    BY <1>0, <2>4, OwesFacts
  <2>6. PICK g \in SUBSET Jobs : g = gone
    BY <1>4
  <2>7. ASSUME NEW k \in Jobs, k # j PROVE Shrinks(k)
    <3>1. tick' = Onward(g) /\ g \subseteq {j} /\ tick.phase # "idle"
      BY <1>4, <2>1, <2>2, <2>6
    <3> QED BY <1>0, <2>1, <2>3, <2>7, <3>1, HeadSettled
  <2>8. Passing'
    BY <1>0, <2>5, <2>7, PassingKept
  <2>9. tick'.phase = "next"
    BY <1>0, <2>2 DEF Onward, Tick
  <2>10. IInv' => Heading'
    BY <2>9 DEF IInv, Runs, Heading
  <2> QED BY <2>8, <2>10
<1>7. CASE running[i].by = "manual"
  <2>1. /\ tick'.phase = tick.phase /\ tick'.todo = tick.todo /\ tick'.at = tick.at
        /\ tick'.attached = tick.attached \ gone /\ rows' = after
    BY <1>0, <1>3, <1>7 DEF Settled, Tick
  <2>2. Owes(gone)
    BY <1>3, <1>7
  <2>3. /\ \A k \in Jobs \ {j} : rows'[k] = rows[k]
        /\ rows'[j] = rows[j] \/ j \in gone
        /\ rows'[j].on => rows'[j] = rows[j] /\ tick'.attached = tick.attached
        /\ \A k \in Jobs \ {j} : k \in tick'.attached <=> k \in tick.attached
    <3>1. CASE removes
      BY <1>4, <2>1, <3>1 DEF gone
    <3>2. CASE ~removes
      BY <1>4, <2>1, <3>2 DEF gone
    <3> QED BY <3>1, <3>2
  <2>4. Passing'
    BY <1>0, <2>1, <2>2, <2>3, SwitchedOffBound
  <2>5. Heading'
    <3>1. /\ running' = RemoveAt(running, i) /\ Len(RemoveAt(running, i)) = Len(running) - 1
          /\ \A k \in 1 .. Len(running) - 1 :
               RemoveAt(running, i)[k] = IF k < i THEN running[k] ELSE running[k + 1]
      BY <1>1, <1>3, RemoveFacts
    <3>2. Len(running) \in Nat
      BY <1>1
    <3>3. ASSUME NEW k \in 1 .. Len(running')
          PROVE  \E m \in 1 .. Len(running) : running'[k] = running[m]
      <4>1. k \in 1 .. Len(running) /\ k + 1 \in 1 .. Len(running)
        BY <3>1, <3>2
      <4> QED BY <3>1, <4>1
    <3> QED BY <1>0, <2>1, <3>3 DEF Heading
  <2> QED BY <2>4, <2>5
<1> QED BY <1>1, <1>6, <1>7 DEF Run

LEMMA RunNowBound ==
    ASSUME BInv, NEW g \in Jobs, RunNow(g) PROVE Passing' /\ Heading'
<1> DEFINE live == Append(running, [job |-> g, by |-> "manual"])
<1>1. PICK l \in Launches(g, live) :
        /\ rows' = l.rows
        /\ running' \in {live, running}
  BY DEF RunNow
<1>2. /\ Owes(IF g \in OneShots THEN {g} ELSE {}) /\ tick' = tick /\ ~InFlight(g)
      /\ Types /\ Passing /\ Heading /\ rows \in Rows
  BY DEF RunNow, BInv, IInv, Types
<1>3. /\ live \in Seq(Run) /\ Len(live) = Len(running) + 1 /\ Len(running) \in Nat
      /\ \A i \in 1 .. Len(running) : live[i] = running[i]
      /\ live[Len(live)].job = g /\ live[Len(live)].by = "manual"
  BY <1>2, Joins
<1> HIDE DEF live
<1>4. \/ l.rows = rows
      \/ g \in OneShots /\ l.rows = [rows EXCEPT ![g] = Row(FALSE, 0)]
  BY <1>2, <1>3, LaunchFacts
<1>5. /\ \A k \in Jobs \ {g} : rows'[k] = rows[k]
      /\ rows'[g] = rows[g] \/ g \in OneShots
      /\ rows'[g].on => rows'[g] = rows[g]
  <2>1. CASE l.rows = rows
    BY <1>1, <2>1
  <2>2. CASE g \in OneShots /\ l.rows = [rows EXCEPT ![g] = Row(FALSE, 0)]
    <3>1. rows'[g] = Row(FALSE, 0) /\ \A k \in Jobs \ {g} : rows'[k] = rows[k]
      BY <1>1, <1>2, <2>2 DEF Rows
    <3>2. ~Row(FALSE, 0).on
      BY DEF Row
    <3> QED BY <2>2, <3>1, <3>2
  <2> QED BY <1>4, <2>1, <2>2
<1>6. PICK excused : excused = IF g \in OneShots THEN {g} ELSE {}
  OBVIOUS
<1>7. Owes(excused) /\ (rows'[g] = rows[g] \/ g \in excused)
  BY <1>2, <1>5, <1>6
<1>8. Passing'
  BY <1>2, <1>5, <1>7, SwitchedOffBound
<1>9. Heading'
  BY <1>1, <1>2, <1>3 DEF Heading
<1> QED BY <1>8, <1>9

\* A row is removed with its id, or was gone.
LEMMA RemovedBound ==
    ASSUME BInv, NEW g \in Jobs, LateEnds(g) \/ RemoveJob(g) PROVE Passing' /\ Heading'
<1>1. /\ Detach(g) /\ Owes({g}) /\ running' = running
      /\ rows' = [rows EXCEPT ![g] = Absent] \/ (rows' = rows /\ ~rows[g].listed)
  BY DEF LateEnds, RemoveJob
<1>2. tick \in Tick /\ rows \in Rows /\ Passing /\ Heading /\ RowOK(rows[g])
  BY DEF BInv, IInv, Types, Rows
<1>3. /\ tick'.phase = tick.phase /\ tick'.at = tick.at /\ tick'.todo = tick.todo
      /\ tick'.attached = tick.attached \ {g}
  BY <1>1, <1>2, DetachFacts
<1>4. (\A k \in Jobs \ {g} : rows'[k] = rows[k]) /\ ~rows'[g].on
  BY <1>1, <1>2 DEF Rows, Absent, RowOK
<1>5. Passing'
  <2>1. /\ rows'[g] = rows[g] \/ g \in {g}
        /\ rows'[g].on => rows'[g] = rows[g] /\ tick'.attached = tick.attached
        /\ \A k \in Jobs \ {g} : k \in tick'.attached <=> k \in tick.attached
    BY <1>3, <1>4
  <2> QED BY <1>1, <1>2, <1>3, <1>4, <2>1, SwitchedOffBound
<1> QED BY <1>1, <1>2, <1>3, <1>5 DEF Heading

\* Nobody's count survives, so whatever comes back is allowed for.
LEMMA AllReset == ASSUME passed' = [j \in Jobs |-> 0], Passing PROVE Passing'
<1>1. passed' \in [Jobs -> Nat] /\ \A j \in Jobs : passed'[j] = 0
  OBVIOUS
<1> QED BY <1>1, PassingKept

LEMMA BoundKeptStep == BInv /\ [Next]_vars => BInv'
<1> SUFFICES ASSUME BInv, [Next]_vars PROVE BInv'
  OBVIOUS
<1>0. IInv /\ Heading /\ Passing /\ IInv'
  BY Step DEF BInv
<1>1. CASE StartTick
  <2>1. Passing'
    BY <1>0, <1>1, StartTickBound
  <2>2. tick'.phase = "next"
    BY <1>1 DEF StartTick
  <2>3. Heading'
    BY <1>0, <2>2 DEF IInv, Runs, Heading
  <2> QED BY <1>0, <2>1, <2>3 DEF BInv
<1>2. CASE TickEnds
  <2>1. Passing'
    BY <1>0, <1>2, TickEndsBound
  <2>2. tick'.phase = "idle"
    BY <1>2 DEF TickEnds, NoTick
  <2>3. Heading'
    BY <1>0, <2>2 DEF IInv, Runs, Heading
  <2> QED BY <1>0, <2>1, <2>3 DEF BInv
<1>3. CASE TickSkips
  <2>1. Passing'
    BY <1>0, <1>3, TickSkipsBound
  <2>2. tick'.phase = "next"
    BY <1>0, <1>3 DEF TickSkips, Onward, IInv, Types, Tick
  <2>3. Heading'
    BY <1>0, <2>2 DEF IInv, Runs, Heading
  <2> QED BY <1>0, <2>1, <2>3 DEF BInv
<1>4. CASE TickStarts
  BY <1>0, <1>4, TickStartsBound DEF BInv
<1>5. CASE \E j \in Jobs, how \in {"ok", "failed", "timeout"} : Ends(j, how)
  <2>1. PICK how \in {"ok", "failed", "timeout"}, i \in DOMAIN running : RunEnds(i, how)
    BY <1>5 DEF Ends
  <2> QED BY <1>0, <2>1, RunEndsBound DEF BInv
<1>6. CASE \E j \in Jobs : RunNow(j)
  BY <1>0, <1>6, RunNowBound DEF BInv
<1>7. CASE \E j \in Jobs : LateEnds(j) \/ RemoveJob(j)
  BY <1>0, <1>7, RemovedBound DEF BInv
<1>8. CASE \E j \in Jobs : AddJob(j) \/ \E on \in BOOLEAN : EnableJob(j, on)
  <2>1. passed' = [j \in Jobs |-> 0] /\ running' = running
    BY <1>8 DEF AddJob, EnableJob, Reschedules
  <2>2. tick'.todo = tick.todo
    BY <1>0, <1>8 DEF AddJob, EnableJob, Detach, IInv, Types, Tick
  <2>3. Heading'
    BY <1>0, <2>1, <2>2 DEF Heading
  <2> QED BY <1>0, <2>1, <2>3, AllReset DEF BInv
<1>9. CASE Crash
  <2>1. passed' = [j \in Jobs |-> 0] /\ running' = <<>>
    BY <1>9 DEF Crash
  <2>2. Heading'
    BY <2>1 DEF Heading
  <2> QED BY <1>0, <2>1, <2>2, AllReset DEF BInv
<1>10. CASE Restart \/ Clock \/ UNCHANGED vars
  <2>1. UNCHANGED <<rows, tick, running, passed>> /\ owed \subseteq owed'
    BY <1>10 DEF Restart, Clock, vars
  <2>2. passed' \in [Jobs -> Nat]
    BY <1>0, <2>1 DEF Passing
  <2>3. ASSUME NEW j \in Jobs, passed'[j] # 0
        PROVE  passed'[j] = passed[j] /\ Waits(j)' /\ Shrinks(j)
    <3>1. Waits(j)
      BY <1>0, <2>1, <2>3 DEF Passing
    <3>2. Waits(j)'
      BY <2>1, <3>1 DEF Waits, InFlight
    <3>3. Shrinks(j)
      BY <2>1 DEF Shrinks, Coming, Later, Ahead
    <3> QED BY <2>1, <3>2, <3>3
  <2>4. Passing'
    BY <1>0, <2>2, <2>3, PassingKept
  <2>5. Heading'
    BY <1>0, <2>1 DEF Heading
  <2> QED BY <1>0, <2>4, <2>5 DEF BInv
<1> QED BY <1>1, <1>2, <1>3, <1>4, <1>5, <1>6, <1>7, <1>8, <1>9, <1>10 DEF Next

LEMMA BoundInit == Init => BInv
<1> SUFFICES ASSUME Init PROVE BInv
  OBVIOUS
<1>1. IInv /\ running = <<>> /\ passed = [j \in Jobs |-> 0]
  BY Initial DEF Init
<1>2. ASSUME NEW j \in Jobs
      PROVE  passed[j] + Cardinality(Once(j)) + Cardinality(Twice(j))
               <= 2 * Cardinality(Others(j))
  <2>1. Once(j) \in SUBSET Others(j) /\ Twice(j) \in SUBSET Others(j)
    BY DEF Once, Twice
  <2>2. /\ Cardinality(Once(j)) \in Nat /\ Cardinality(Once(j)) <= Cardinality(Others(j))
        /\ Cardinality(Twice(j)) \in Nat /\ Cardinality(Twice(j)) <= Cardinality(Others(j))
        /\ Cardinality(Others(j)) \in Nat
    BY <2>1, Counting
  <2>3. passed[j] = 0
    BY <1>1
  <2> QED BY <2>2, <2>3
<1>3. Passing
  BY <1>1, <1>2 DEF Passing
<1> QED BY <1>1, <1>3 DEF BInv, Heading

\* While a job waits and owners schedule nothing, the tick launches each other job
\* at most twice before it, for any number of jobs: a pass starts with the oldest
\* fire, and a fire that was run is younger than one that waits.
THEOREM BypassBounded == Spec => []BoundedBypass
<1>1. Spec => []BInv
  BY BoundInit, BoundKeptStep, PTL DEF Spec
<1>2. BInv => BoundedBypass
  <2> SUFFICES ASSUME BInv, NEW j \in Jobs PROVE passed[j] <= 2 * Cardinality(Others(j))
    BY DEF BoundedBypass
  <2>1. /\ passed[j] \in Nat
        /\ passed[j] + Cardinality(Once(j)) + Cardinality(Twice(j))
             <= 2 * Cardinality(Others(j))
    BY DEF BInv, Passing
  <2>2. Once(j) \in SUBSET Others(j) /\ Twice(j) \in SUBSET Others(j)
    BY DEF Once, Twice
  <2>3. /\ Cardinality(Once(j)) \in Nat /\ Cardinality(Twice(j)) \in Nat
        /\ Cardinality(Others(j)) \in Nat
    BY <2>2, Counting
  <2> QED BY <2>1, <2>3
<1> QED BY <1>1, <1>2, PTL
=============================================================================
