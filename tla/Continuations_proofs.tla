------------------------- MODULE Continuations_proofs -------------------------
(***************************************************************************)
(* Proofs about Continuations, for any set of cards, any number of         *)
(* attempts, presses and restarts, with or without appends that throw.     *)
(***************************************************************************)
EXTENDS Continuations, TLAPS

(***************************************************************************)
(* The inductive invariant.  What keeps two turns, and two replies, apart  *)
(* is the delivery id: a turn lives only while its card's record in memory *)
(* names it, so a record that can be claimed has no turn, and a turn that  *)
(* has not replied knows that nobody has.                                  *)
(***************************************************************************)

\* Turns and what they have done so far, given the records m in memory.
TurnsNamed(m, T, R, tn) ==
    /\ \A t \in T : /\ MayFinish(m[t.action], t.delivery)
                    /\ R[t.action] = IF t.replied THEN 1 ELSE 0
    /\ \A t, u \in T : t.action = u.action => t = u
    /\ \A a \in Actions : R[a] <= 1
    /\ \A a \in tn : m[a].status \in Final \/ \E t \in T : t.action = a /\ t.acted

\* What the journal holds as final, memory holds too.
FinalAgrees(m, d) == \A a \in Actions : d[a].status \in Final => m[a] = d[a]

IInv ==
    /\ TypeOK
    /\ TurnsNamed(mem, turns, replies, tainted)
    /\ daemon # "down" => FinalAgrees(mem, disk)

\* What a step may do to the journal, and when it may start a turn.
Keeps(d, d2) == \A a \in Actions : d[a].status \in Final => d2[a] = d[a]
StepOK ==
    /\ Keeps(disk, disk')
    /\ \A a \in Actions : started'[a] > started[a] => a \notin tainted

-----------------------------------------------------------------------------
\* The store's operators stay within the records, and agree on what is final.
LEMMA Records ==
    ASSUME NEW r \in Record, NEW d \in Nat, NEW st \in Final \cup {"failed"},
           NEW reset \in BOOLEAN
    PROVE  /\ Prepared(r, reset) \in Record /\ Claimed(r, d) \in Record
           /\ Finished(r, d, st) \in Record /\ Recovered(r) \in Record
           /\ None \in Record
           /\ [None EXCEPT !.status = "not-needed"] \in Record
           /\ r.status \in Final \cup {"pending", "delivering"} => Prepared(r, reset) = r
           /\ Recovered(r).status \in Final => Recovered(r) = r
           /\ r.status \in Final => Recovered(r) = r
           /\ Recovered(None) = None
<1>1. /\ None \in Record /\ [None EXCEPT !.status = "not-needed"] \in Record
      /\ [None EXCEPT !.status = "pending"] \in Record
  BY DEF Record, None, Statuses, Final
<1>2. Prepared(r, reset) \in Record /\ Claimed(r, d) \in Record
  BY <1>1 DEF Prepared, Claimed, Record, Statuses
<1>3. Finished(r, d, st) \in Record
  BY DEF Finished, Record, Statuses
<1>4. Recovered(r) \in Record /\ Recovered(None) = None
  BY DEF Recovered, Record, Statuses, None
<1>5. /\ r.status \in Final \cup {"pending", "delivering"} => Prepared(r, reset) = r
      /\ Recovered(r).status \in Final => Recovered(r) = r
      /\ r.status \in Final => Recovered(r) = r
  BY DEF Prepared, Recovered, Record, Final
<1> QED
  BY <1>1, <1>2, <1>3, <1>4, <1>5

\* A turn that ends leaves its card without a turn, final if the turn had acted.
LEMMA TurnGone ==
    ASSUME NEW m \in [Actions -> Record], NEW d \in [Actions -> Record],
           NEW T \in SUBSET Turn, NEW R \in [Actions -> Nat], NEW tn \in SUBSET Actions,
           TurnsNamed(m, T, R, tn), FinalAgrees(m, d),
           NEW t \in T, NEW st \in Outcomes(t)
    PROVE  LET a == t.action
               r == Finished(m[a], t.delivery, st)
           IN  /\ TurnsNamed(Put(m, a, r), T \ {t}, R, tn)
               /\ FinalAgrees(Put(m, a, r), Put(d, a, r)) /\ FinalAgrees(Put(m, a, r), d)
               /\ Keeps(d, Put(d, a, r)) /\ Keeps(d, d)
               /\ Put(m, a, r) \in [Actions -> Record]
               /\ Put(d, a, r) \in [Actions -> Record]
<1> DEFINE a == t.action
           r == Finished(m[a], t.delivery, st)
<1>1. a \in Actions /\ t.delivery \in Nat /\ st \in Final \cup {"failed"}
  BY DEF Turn, Outcomes, Final
<1>2. MayFinish(m[a], t.delivery) /\ \A u \in T \ {t} : u.action \in Actions \ {a}
  BY DEF TurnsNamed, Turn
<1>3. r \in Record /\ r.status = st
  BY <1>1, <1>2, Records DEF Finished, Record
<1>4. d[a].status \notin Final
  BY <1>1, <1>2 DEF FinalAgrees, MayFinish, Final
<1>5. /\ Put(m, a, r) \in [Actions -> Record] /\ Put(d, a, r) \in [Actions -> Record]
      /\ Put(m, a, r)[a] = r /\ Put(d, a, r)[a] = r
      /\ \A b \in Actions \ {a} : Put(m, a, r)[b] = m[b] /\ Put(d, a, r)[b] = d[b]
  BY <1>1, <1>3 DEF Put
<1>6. TurnsNamed(Put(m, a, r), T \ {t}, R, tn)
  <2>1. ASSUME NEW b \in tn
        PROVE  \/ Put(m, a, r)[b].status \in Final
               \/ \E u \in T \ {t} : u.action = b /\ u.acted
    <3>1. CASE b = a
      <4>1. t.acted
        <5>1. m[b].status \notin Final
          BY <1>2, <3>1 DEF MayFinish, Final
        <5>2. PICK u \in T : u.action = b /\ u.acted
          BY <5>1 DEF TurnsNamed
        <5> QED
          BY <3>1, <5>2, <1>2
      <4> QED
        BY <4>1, <1>3, <1>5, <3>1 DEF Outcomes, Final
    <3>2. CASE b # a
      BY <3>2, <1>5 DEF TurnsNamed
    <3> QED
      BY <3>1, <3>2
  <2> QED
    BY <2>1, <1>2, <1>5 DEF TurnsNamed
<1>7. /\ FinalAgrees(Put(m, a, r), Put(d, a, r)) /\ FinalAgrees(Put(m, a, r), d)
      /\ Keeps(d, Put(d, a, r)) /\ Keeps(d, d)
  BY <1>4, <1>5 DEF FinalAgrees, Keeps
<1> QED
  BY <1>5, <1>6, <1>7

-----------------------------------------------------------------------------
\* A first start, with no card approved, satisfies the inductive invariant.
THEOREM Initial == Init => IInv
<1>1. None \in Record /\ None.status \notin Final
  BY DEF None, Record, Statuses, Final
<1>2. Init => TypeOK
  <2> SUFFICES ASSUME Init PROVE TypeOK
    OBVIOUS
  <2>1. mem \in [Actions -> Record] /\ disk \in [Actions -> Record]
    BY <1>1 DEF Init, Nothing
  <2>2. /\ timers \in [Actions -> Nat] /\ replies \in [Actions -> Nat]
        /\ started \in [Actions -> Nat] /\ claimed \in [Actions -> Nat]
    BY DEF Init
  <2>3. \A a \in Actions : mem[a] = None /\ disk[a] = None
    BY DEF Init, Nothing
  <2> QED
    BY <2>1, <2>2, <2>3 DEF Init, TypeOK
<1> QED
  BY <1>1, <1>2 DEF Init, IInv, TurnsNamed, FinalAgrees, Nothing

\* A record without a turn may change to anything, the journal keeping up with
\* it or not, as long as what the journal calls final is what memory holds.
LEMMA Rewrite ==
    ASSUME IInv, daemon # "down", NEW a \in Actions, NEW r \in Record, NEW s \in Record,
           mem[a].status \notin Final \cup {"delivering"},
           s.status \in Final => r = s
    PROVE  /\ TurnsNamed(Put(mem, a, r), turns, replies, tainted) /\ a \notin tainted
           /\ FinalAgrees(Put(mem, a, r), Put(disk, a, s)) /\ FinalAgrees(Put(mem, a, r), disk)
           /\ Keeps(disk, Put(disk, a, s)) /\ Keeps(disk, disk)
           /\ Put(mem, a, r) \in [Actions -> Record] /\ Put(disk, a, s) \in [Actions -> Record]
<1>0. /\ mem \in [Actions -> Record] /\ disk \in [Actions -> Record] /\ turns \in SUBSET Turn
      /\ replies \in [Actions -> Nat] /\ tainted \in SUBSET Actions
      /\ TurnsNamed(mem, turns, replies, tainted) /\ FinalAgrees(mem, disk)
  BY DEF IInv, TypeOK
<1>1. \A t \in turns : t.action # a
  BY <1>0 DEF TurnsNamed, MayFinish, Turn
<1>2. a \notin tainted
  BY <1>0, <1>1 DEF TurnsNamed
<1>3. disk[a].status \notin Final
  BY <1>0 DEF FinalAgrees
<1>4. /\ Put(mem, a, r) \in [Actions -> Record] /\ Put(disk, a, s) \in [Actions -> Record]
      /\ Put(mem, a, r)[a] = r /\ Put(disk, a, s)[a] = s
      /\ \A b \in Actions \ {a} : Put(mem, a, r)[b] = mem[b] /\ Put(disk, a, s)[b] = disk[b]
  BY <1>0 DEF Put
<1>5. TurnsNamed(Put(mem, a, r), turns, replies, tainted)
  <2>1. \A t \in turns : t.action \in Actions \ {a}
    BY <1>0, <1>1 DEF Turn
  <2>2. \A b \in tainted : b \in Actions \ {a}
    BY <1>0, <1>2
  <2> QED
    BY <1>0, <1>4, <2>1, <2>2 DEF TurnsNamed
<1>6. /\ FinalAgrees(Put(mem, a, r), Put(disk, a, s)) /\ FinalAgrees(Put(mem, a, r), disk)
      /\ Keeps(disk, Put(disk, a, s)) /\ Keeps(disk, disk)
  BY <1>0, <1>3, <1>4 DEF FinalAgrees, Keeps
<1> QED
  BY <1>2, <1>4, <1>5, <1>6

\* A step that rewrites the record of a card without a turn.
LEMMA RecordStep ==
    ASSUME IInv, daemon # "down", NEW a \in Actions, NEW r \in Record, NEW s \in Record,
           mem[a].status \notin Final \cup {"delivering"}, s.status \in Final => r = s,
           mem' = Put(mem, a, r), disk' = Put(disk, a, s) \/ disk' = disk,
           UNCHANGED <<turns, replies, tainted>>
    PROVE  /\ TurnsNamed(mem, turns, replies, tainted)' /\ FinalAgrees(mem, disk)'
           /\ Keeps(disk, disk') /\ mem' \in [Actions -> Record] /\ disk' \in [Actions -> Record]
           /\ a \notin tainted
           /\ \A b \in Actions \ {a} : mem'[b] = mem[b] /\ disk'[b] = disk[b]
<1>2. /\ TurnsNamed(Put(mem, a, r), turns, replies, tainted) /\ a \notin tainted
      /\ FinalAgrees(Put(mem, a, r), Put(disk, a, s)) /\ FinalAgrees(Put(mem, a, r), disk)
      /\ Keeps(disk, Put(disk, a, s)) /\ Keeps(disk, disk)
      /\ Put(mem, a, r) \in [Actions -> Record] /\ Put(disk, a, s) \in [Actions -> Record]
  BY Rewrite
<1>3. \A b \in Actions \ {a} : mem'[b] = mem[b] /\ disk'[b] = disk[b]
  BY DEF Put, IInv, TypeOK
<1>4. TurnsNamed(mem', turns', replies', tainted') /\ FinalAgrees(mem', disk')
  BY <1>2
<1>5. Keeps(disk, disk') /\ mem' \in [Actions -> Record] /\ disk' \in [Actions -> Record]
  BY <1>2 DEF IInv, TypeOK
<1> QED
  BY <1>2, <1>3, <1>4, <1>5

LEMMA ApproveStep ==
    ASSUME IInv, NEW a \in Actions, NEW here \in BOOLEAN, Approve(a, here)
    PROVE  IInv' /\ StepOK
<1> DEFINE r == IF here THEN [None EXCEPT !.status = "not-needed"] ELSE Prepared(None, FALSE)
<1>1. r \in Record
  <2>1. None \in Record
    BY DEF None, Record, Statuses
  <2> QED
    BY <2>1, Records
<1>2. mem[a] = None /\ daemon # "down"
  BY DEF TypeOK, Approve, IInv
<1>3. mem' = Put(mem, a, r) /\ (disk' = Put(disk, a, r) \/ disk' = disk)
  BY DEF Approve, Stored, StoredInMemory
<1>4. timers' \in [Actions -> Nat] /\ (daemon # "up" => timers' = timers) /\ lost' \in BOOLEAN
  <2>1. timers \in [Actions -> Nat] /\ lost \in BOOLEAN /\ presses \in Nat
    BY DEF IInv, TypeOK
  <2>2. /\ Scheduled(a) \in [Actions -> Nat] /\ (daemon # "up" => Scheduled(a) = timers)
    BY <2>1 DEF Scheduled
  <2>3. timers' = Scheduled(a) \/ timers' = timers
    BY DEF Approve
  <2>4. lost' = lost \/ lost' = TRUE
    BY DEF Approve, Stored, StoredInMemory
  <2> QED
    BY <2>1, <2>2, <2>3, <2>4
<1>5. mem[a].status \notin Final \cup {"delivering"}
  BY <1>2 DEF None, Final
<1>6. UNCHANGED <<daemon, turns, replies, started, claimed, tainted, mutated, presses, restarts>>
      /\ approved' = approved \cup {a}
  BY DEF Approve
<1>7. /\ TurnsNamed(mem, turns, replies, tainted)' /\ FinalAgrees(mem, disk)'
      /\ Keeps(disk, disk') /\ mem' \in [Actions -> Record] /\ disk' \in [Actions -> Record]
      /\ \A b \in Actions \ {a} : mem'[b] = mem[b] /\ disk'[b] = disk[b]
  BY <1>1, <1>2, <1>3, <1>5, <1>6, RecordStep
<1>8. TypeOK'
  BY <1>2, <1>4, <1>6, <1>7 DEF TypeOK, IInv
<1> QED
  BY <1>6, <1>7, <1>8 DEF IInv, StepOK, TypeOK

LEMMA PressStep ==
    ASSUME IInv, NEW a \in Actions, Press(a)
    PROVE  IInv' /\ StepOK
<1> DEFINE r == Prepared(mem[a], TRUE)
<1>1. mem[a] \in Record /\ a \in approved /\ daemon # "down"
  BY DEF IInv, TypeOK, Press
<1>2. r \in Record /\ (mem[a].status \in Final \cup {"pending", "delivering"} => r = mem[a])
  BY <1>1, Records
<1>3. \/ mem' = Put(mem, a, r) /\ (disk' = Put(disk, a, r) \/ disk' = disk)
      \/ UNCHANGED <<mem, disk>>
  BY DEF Press, Stored, StoredInMemory
<1>4. timers' \in [Actions -> Nat] /\ (daemon # "up" => timers' = timers) /\ lost' \in BOOLEAN
      /\ presses' \in Nat
  <2>1. timers \in [Actions -> Nat] /\ lost \in BOOLEAN /\ presses \in Nat
    BY DEF IInv, TypeOK
  <2>2. /\ Scheduled(a) \in [Actions -> Nat] /\ (daemon # "up" => Scheduled(a) = timers)
    BY <2>1 DEF Scheduled
  <2>3. timers' = Scheduled(a) \/ timers' = timers
    BY DEF Press
  <2>4. lost' \in BOOLEAN
    BY <2>1, Zenon DEF Press, Stored, StoredInMemory
  <2>5. presses' \in Nat
    BY <2>1 DEF Press
  <2>6. timers' \in [Actions -> Nat] /\ (daemon # "up" => timers' = timers)
    BY <2>1, <2>2, <2>3
  <2> QED
    BY <2>4, <2>5, <2>6
<1>5. UNCHANGED <<daemon, approved, turns, replies, started, claimed, tainted, mutated, restarts>>
  BY DEF Press
<1>6. /\ TurnsNamed(mem, turns, replies, tainted)' /\ FinalAgrees(mem, disk)'
      /\ Keeps(disk, disk') /\ mem' \in [Actions -> Record] /\ disk' \in [Actions -> Record]
      /\ \A b \in Actions \ {a} : mem'[b] = mem[b] /\ disk'[b] = disk[b]
  <2>1. CASE mem[a].status \notin Final \cup {"delivering"} /\ mem' = Put(mem, a, r)
    BY <2>1, <1>1, <1>2, <1>3, <1>5, RecordStep
  <2>2. CASE mem[a].status \in Final \cup {"delivering"} \/ UNCHANGED <<mem, disk>>
    <3>0. mem \in [Actions -> Record] /\ Put(mem, a, mem[a]) = mem
      BY DEF IInv, TypeOK, Put
    <3> HIDE DEF r
    <3>1. mem' = mem /\ (disk' = disk \/ disk' = Put(disk, a, mem[a]))
      <4>1. CASE UNCHANGED <<mem, disk>>
        BY <4>1
      <4>2. CASE r = mem[a] /\ mem' = Put(mem, a, r) /\ (disk' = Put(disk, a, r) \/ disk' = disk)
        BY <4>2, <3>0
      <4> QED
        BY <4>1, <4>2, <2>2, <1>2, <1>3
    <3>2. FinalAgrees(mem, disk)
      BY <1>1 DEF IInv
    <3>3. FinalAgrees(mem, disk') /\ Keeps(disk, disk') /\ disk' \in [Actions -> Record]
          /\ \A b \in Actions \ {a} : disk'[b] = disk[b]
      BY <1>1, <3>1, <3>2 DEF FinalAgrees, Keeps, IInv, TypeOK, Put
    <3>4. TurnsNamed(mem, turns, replies, tainted) /\ mem \in [Actions -> Record]
      BY DEF IInv, TypeOK
    <3> QED
      BY <1>5, <3>1, <3>3, <3>4
  <2> QED
    BY <1>3, <2>1, <2>2
<1>7. TypeOK'
  BY <1>1, <1>4, <1>5, <1>6 DEF TypeOK, IInv
<1> QED
  BY <1>5, <1>6, <1>7 DEF IInv, StepOK, TypeOK

\* A claim writes the record of a card without a turn; the turn it starts, if
\* any, is the only one, and the record names it.
LEMMA FireStep ==
    ASSUME IInv, NEW a \in Actions, Fire(a)
    PROVE  IInv' /\ StepOK
<1> DEFINE d == claimed[a] + 1
           r == Claimed(mem[a], d)
           f == Finished(r, d, "delivered")
           new == [action |-> a, delivery |-> d, acted |-> FALSE, replied |-> FALSE]
<1>1. /\ mem[a] \in Record /\ d \in Nat /\ daemon = "up"
      /\ mem[a].status \in {"pending", "failed"}
  BY DEF IInv, TypeOK, Fire, Claimable
<1>2. r \in Record /\ f \in Record /\ r.status = "delivering" /\ r.delivery = d
  <2>1. r \in Record
    BY <1>1, Records
  <2>2. "delivered" \in Final \cup {"failed"}
    BY DEF Final
  <2>3. f \in Record
    BY <1>1, <2>1, <2>2, Records
  <2> QED
    BY <2>1, <2>3 DEF Claimed
<1>3. mem[a].status \notin Final \cup {"delivering"} /\ a \in approved
  BY <1>1 DEF Final, IInv, TypeOK, None
<1>4. /\ timers' \in [Actions -> Nat] /\ lost' \in BOOLEAN /\ claimed' \in [Actions -> Nat]
      /\ started' \in [Actions -> Nat]
      /\ \A b \in Actions \ {a} : started'[b] = started[b]
  <2>1. /\ timers \in [Actions -> Nat] /\ lost \in BOOLEAN /\ claimed \in [Actions -> Nat]
        /\ started \in [Actions -> Nat]
    BY DEF IInv, TypeOK
  <2>2. timers' = [timers EXCEPT ![a] = @ - 1] /\ timers[a] > 0
    BY DEF Fire, Fired
  <2>3. lost' \in BOOLEAN
    BY <2>1, Zenon DEF Fire, Stored, StoredInMemory
  <2>4. claimed' = [claimed EXCEPT ![a] = d]
    BY DEF Fire
  <2>5. started' = started \/ started' = [started EXCEPT ![a] = @ + 1]
    BY DEF Fire
  <2>6. timers' \in [Actions -> Nat]
    BY <2>1, <2>2
  <2>7. claimed' \in [Actions -> Nat]
    BY <1>1, <2>1, <2>4
  <2>8. started' \in [Actions -> Nat] /\ \A b \in Actions \ {a} : started'[b] = started[b]
    BY <2>1, <2>5
  <2> QED
    BY <2>3, <2>6, <2>7, <2>8
<1>5. UNCHANGED <<daemon, approved, replies, tainted, mutated, presses, restarts>>
  BY DEF Fire
<1>6. CASE /\ mem' = Put(mem, a, f) /\ (disk' = Put(disk, a, f) \/ disk' = Put(disk, a, r))
           /\ UNCHANGED <<turns, started>>
  <2>1. r.status \notin Final
    BY <1>2 DEF Final
  <2>2. /\ TurnsNamed(mem, turns, replies, tainted)' /\ FinalAgrees(mem, disk)'
        /\ Keeps(disk, disk') /\ mem' \in [Actions -> Record] /\ disk' \in [Actions -> Record]
        /\ \A b \in Actions \ {a} : mem'[b] = mem[b] /\ disk'[b] = disk[b]
    <3>1. CASE disk' = Put(disk, a, f)
      BY <3>1, <1>1, <1>2, <1>3, <1>5, <1>6, RecordStep
    <3>2. CASE disk' = Put(disk, a, r)
      BY <3>2, <2>1, <1>1, <1>2, <1>3, <1>5, <1>6, RecordStep
    <3> QED
      BY <1>6, <3>1, <3>2
  <2>3. TypeOK'
    BY <1>1, <1>3, <1>4, <1>5, <1>6, <2>2 DEF TypeOK, IInv
  <2> QED
    BY <1>1, <1>5, <1>6, <2>2, <2>3 DEF IInv, StepOK, TypeOK
<1>7. CASE /\ mem' = Put(mem, a, r) /\ disk' = disk /\ UNCHANGED <<turns, started>>
  <2>1. /\ TurnsNamed(mem, turns, replies, tainted)' /\ FinalAgrees(mem, disk)'
        /\ Keeps(disk, disk') /\ mem' \in [Actions -> Record] /\ disk' \in [Actions -> Record]
        /\ \A b \in Actions \ {a} : mem'[b] = mem[b] /\ disk'[b] = disk[b]
    BY <1>1, <1>2, <1>3, <1>5, <1>7, RecordStep
  <2>2. TypeOK'
    BY <1>1, <1>3, <1>4, <1>5, <1>7, <2>1 DEF TypeOK, IInv
  <2> QED
    BY <1>1, <1>5, <1>7, <2>1, <2>2 DEF IInv, StepOK, TypeOK
<1>8. CASE /\ replies[a] = 0 /\ mem' = Put(mem, a, r) /\ disk' = Put(disk, a, r)
           /\ turns' = turns \cup {new}
  <2>1. /\ mem \in [Actions -> Record] /\ disk \in [Actions -> Record]
        /\ turns \in SUBSET Turn /\ replies \in [Actions -> Nat] /\ tainted \in SUBSET Actions
        /\ TurnsNamed(mem, turns, replies, tainted) /\ FinalAgrees(mem, disk)
    BY <1>1 DEF IInv, TypeOK
  <2>2. /\ TurnsNamed(Put(mem, a, r), turns, replies, tainted) /\ a \notin tainted
        /\ FinalAgrees(Put(mem, a, r), Put(disk, a, r))
        /\ Keeps(disk, Put(disk, a, r))
        /\ Put(mem, a, r) \in [Actions -> Record] /\ Put(disk, a, r) \in [Actions -> Record]
    BY <1>1, <1>2, <1>3, Rewrite
  <2>3. \A t \in turns : t.action \in Actions \ {a}
    BY <1>3, <2>1 DEF IInv, TurnsNamed, MayFinish, Turn
  <2>4. new \in Turn /\ new.action = a /\ new.delivery = d /\ ~new.replied
    BY <1>1 DEF Turn
  <2>5. mem'[a] = r /\ (\A b \in Actions \ {a} : mem'[b] = mem[b] /\ disk'[b] = disk[b])
    BY <1>8 DEF Put, IInv, TypeOK
  <2>6. TurnsNamed(mem', turns', replies, tainted)
    <3>1. MayFinish(mem'[new.action], new.delivery)
      BY <1>2, <2>4, <2>5 DEF MayFinish
    <3>2. \A t, u \in turns' : t.action = u.action => t = u
      BY <1>8, <2>2, <2>3, <2>4 DEF TurnsNamed
    <3>3. \A t \in turns' : /\ MayFinish(mem'[t.action], t.delivery)
                            /\ replies[t.action] = IF t.replied THEN 1 ELSE 0
      BY <1>8, <2>2, <2>4, <3>1 DEF TurnsNamed
    <3> QED
      BY <1>8, <2>2, <3>2, <3>3 DEF TurnsNamed
  <2>7. TypeOK'
    BY <1>1, <1>3, <1>4, <1>5, <1>8, <2>1, <2>2, <2>4, <2>5 DEF TypeOK, IInv
  <2>8. StepOK
    BY <1>4, <1>8, <2>2 DEF StepOK, IInv, TypeOK
  <2> QED
    BY <1>5, <1>8, <2>2, <2>6, <2>7, <2>8 DEF IInv
<1> QED
  BY <1>6, <1>7, <1>8 DEF Fire, Stored, StoredInMemory

LEMMA FireNothingStep ==
    ASSUME IInv, NEW a \in Actions, FireNothing(a)
    PROVE  IInv' /\ StepOK
<1>1. timers' \in [Actions -> Nat] /\ daemon = "up"
  BY DEF FireNothing, Fired, IInv, TypeOK
<1>2. UNCHANGED <<daemon, approved, mem, disk, turns, replies, started, claimed,
                  tainted, mutated, lost, presses, restarts>>
  BY DEF FireNothing
<1> QED
  BY <1>1, <1>2 DEF IInv, TypeOK, TurnsNamed, FinalAgrees, StepOK, Keeps

\* A turn in flight notes what it did; nobody else answers for its card.
LEMMA TurnStep ==
    ASSUME IInv, NEW t \in turns, TurnActs(t) \/ TurnReplies(t)
    PROVE  IInv' /\ StepOK
<1>0. /\ TurnsNamed(mem, turns, replies, tainted) /\ turns \subseteq Turn /\ t \in Turn
      /\ replies \in [Actions -> Nat]
  BY DEF IInv, TypeOK
<1>1. CASE TurnActs(t)
  <2> DEFINE u == [t EXCEPT !.acted = TRUE]
  <2>1. /\ u \in Turn /\ u.action = t.action /\ u.delivery = t.delivery /\ u.acted
        /\ u.replied = t.replied /\ t.action \in Actions
    BY <1>0 DEF Turn
  <2>2. /\ turns' = (turns \ {t}) \cup {u} /\ tainted' = tainted \cup {t.action}
        /\ mutated' = mutated \cup {t.action}
        /\ UNCHANGED <<daemon, approved, mem, disk, timers, replies, started, claimed,
                       lost, presses, restarts>>
    BY <1>1 DEF TurnActs
  <2> HIDE DEF u
  <2>3. TurnsNamed(mem, turns', replies, tainted')
    <3>1. \A x, y \in turns' : x.action = y.action => x = y
      BY <1>0, <2>1, <2>2 DEF TurnsNamed
    <3>2. \A x \in turns' : /\ MayFinish(mem[x.action], x.delivery)
                            /\ replies[x.action] = IF x.replied THEN 1 ELSE 0
      BY <1>0, <2>1, <2>2 DEF TurnsNamed
    <3>3. \A b \in tainted' : mem[b].status \in Final \/ \E x \in turns' : x.action = b /\ x.acted
      BY <1>0, <2>1, <2>2 DEF TurnsNamed
    <3> QED
      BY <1>0, <3>1, <3>2, <3>3 DEF TurnsNamed
  <2>4. TypeOK'
    BY <2>1, <2>2 DEF IInv, TypeOK, Nothing
  <2> QED
    BY <2>2, <2>3, <2>4 DEF IInv, TypeOK, StepOK, Keeps
<1>2. CASE TurnReplies(t)
  <2> DEFINE u == [t EXCEPT !.replied = TRUE]
  <2>1. /\ u \in Turn /\ u.action = t.action /\ u.delivery = t.delivery /\ u.acted = t.acted
        /\ u.replied /\ t.action \in Actions
    BY <1>0 DEF Turn
  <2>2. /\ turns' = (turns \ {t}) \cup {u}
        /\ replies' = [replies EXCEPT ![t.action] = @ + 1]
        /\ UNCHANGED <<daemon, approved, mem, disk, timers, started, claimed, tainted,
                       mutated, lost, presses, restarts>>
    BY <1>2 DEF TurnReplies
  <2> HIDE DEF u
  <2>3. replies[t.action] = 0
    BY <1>0, <1>2 DEF TurnsNamed, TurnReplies
  <2>4. /\ replies' \in [Actions -> Nat] /\ replies'[t.action] = 1
        /\ \A b \in Actions \ {t.action} : replies'[b] = replies[b]
    BY <1>0, <2>1, <2>2, <2>3
  <2>5. TurnsNamed(mem, turns', replies', tainted)
    <3>1. \A x, y \in turns' : x.action = y.action => x = y
      BY <1>0, <2>1, <2>2 DEF TurnsNamed
    <3>2. \A x \in turns \ {t} : x.action \in Actions \ {t.action}
      BY <1>0 DEF TurnsNamed, Turn
    <3>3. \A x \in turns' : /\ MayFinish(mem[x.action], x.delivery)
                            /\ replies'[x.action] = IF x.replied THEN 1 ELSE 0
      BY <1>0, <2>1, <2>2, <2>4, <3>2 DEF TurnsNamed
    <3>4. \A b \in tainted : mem[b].status \in Final \/ \E x \in turns' : x.action = b /\ x.acted
      BY <1>0, <2>1, <2>2 DEF TurnsNamed
    <3>5. \A b \in Actions : replies'[b] <= 1
      BY <1>0, <2>4 DEF TurnsNamed
    <3> QED
      BY <3>1, <3>3, <3>4, <3>5 DEF TurnsNamed
  <2>6. TypeOK'
    BY <2>1, <2>2, <2>4 DEF IInv, TypeOK
  <2> QED
    BY <2>2, <2>5, <2>6 DEF IInv, TypeOK, StepOK, Keeps
<1> QED
  BY <1>1, <1>2

LEMMA TurnEndsStep ==
    ASSUME IInv, NEW t \in turns, NEW st \in Outcomes(t), TurnEnds(t, st)
    PROVE  IInv' /\ StepOK
<1> DEFINE a == t.action
           r == Finished(mem[a], t.delivery, st)
<1>0. /\ TurnsNamed(mem, turns, replies, tainted) /\ turns \in SUBSET Turn /\ t \in Turn
      /\ replies \in [Actions -> Nat] /\ mem \in [Actions -> Record]
      /\ disk \in [Actions -> Record] /\ tainted \in SUBSET Actions
      /\ timers \in [Actions -> Nat] /\ lost \in BOOLEAN
      /\ a \in Actions
  BY DEF IInv, TypeOK, Turn
<1>1. daemon # "down"
  BY DEF IInv, TypeOK
<1>2. FinalAgrees(mem, disk)
  BY <1>1 DEF IInv
<1>3. /\ TurnsNamed(Put(mem, a, r), turns \ {t}, replies, tainted)
      /\ FinalAgrees(Put(mem, a, r), Put(disk, a, r)) /\ FinalAgrees(Put(mem, a, r), disk)
      /\ Keeps(disk, Put(disk, a, r)) /\ Keeps(disk, disk)
      /\ Put(mem, a, r) \in [Actions -> Record]
      /\ Put(disk, a, r) \in [Actions -> Record]
  BY <1>0, <1>2, TurnGone
<1>4. /\ mem' = Put(mem, a, r) /\ (disk' = Put(disk, a, r) \/ disk' = disk)
      /\ turns' = turns \ {t}
      /\ UNCHANGED <<daemon, approved, replies, started, claimed, tainted, mutated,
                     presses, restarts>>
  BY DEF TurnEnds, Stored, StoredInMemory
<1>5. timers' \in [Actions -> Nat] /\ (daemon # "up" => timers' = timers)
  <2>1. /\ Scheduled(a) \in [Actions -> Nat] /\ (daemon # "up" => Scheduled(a) = timers)
    BY <1>0 DEF Scheduled
  <2>2. timers' = Scheduled(a) \/ timers' = timers
    BY DEF TurnEnds
  <2> QED
    BY <1>0, <2>1, <2>2
<1>6. lost' \in BOOLEAN
  BY <1>0, Zenon DEF TurnEnds, Stored, StoredInMemory
<1>7. a \in approved
  BY <1>0 DEF IInv, TypeOK, TurnsNamed, MayFinish, None
<1>8. \A b \in Actions \ {a} : mem'[b] = mem[b] /\ disk'[b] = disk[b]
  BY <1>0, <1>4 DEF Put
<1>9. TypeOK'
  BY <1>0, <1>1, <1>3, <1>4, <1>5, <1>6, <1>7, <1>8 DEF IInv, TypeOK
<1>10. /\ TurnsNamed(mem', turns', replies', tainted') /\ FinalAgrees(mem', disk')
       /\ Keeps(disk, disk')
  BY <1>3, <1>4
<1> QED
  BY <1>4, <1>9, <1>10 DEF IInv, TypeOK, StepOK

\* The daemon closes, stops (perhaps in the middle of a step), and boots.
LEMMA CloseStep == ASSUME IInv, Close PROVE IInv' /\ StepOK
  BY DEF IInv, Close, TypeOK, TurnsNamed, FinalAgrees, StepOK, Keeps

LEMMA StoppedStep ==
    ASSUME IInv, Stopped, disk' \in [Actions -> Record], Keeps(disk, disk'),
           approved' \subseteq Actions, approved \subseteq approved',
           \A a \in Actions \ approved : disk'[a] = None,
           claimed' \in [Actions -> Nat], started' = started
    PROVE  IInv' /\ StepOK
<1>1. None \in Record /\ None.status \notin Final
  BY DEF None, Record, Statuses, Final
<1>2. /\ mem' = Nothing /\ turns' = {} /\ tainted' = {} /\ daemon' = "down"
      /\ timers' = [a \in Actions |-> 0] /\ lost' = FALSE /\ restarts' \in Nat
      /\ UNCHANGED <<replies, mutated, presses>>
  BY DEF Stopped, IInv, TypeOK
<1>3. mem' \in [Actions -> Record] /\ timers' \in [Actions -> Nat]
  BY <1>1, <1>2 DEF Nothing
<1>4. \A a \in Actions : mem'[a] = None
  BY <1>2 DEF Nothing
<1>5. TypeOK'
  BY <1>2, <1>3, <1>4 DEF IInv, TypeOK
<1>6. TurnsNamed(mem', turns', replies', tainted')
  BY <1>2 DEF IInv, TurnsNamed
<1>7. \A a \in Actions : ~(started'[a] > started[a])
  BY DEF IInv, TypeOK
<1> QED
  BY <1>2, <1>5, <1>6, <1>7 DEF IInv, StepOK

LEMMA StopStep ==
    ASSUME IInv, \/ Stop
                 \/ \E a \in Actions : ApproveCrashes(a) \/ FireCrashes(a)
    PROVE  IInv' /\ StepOK
<1>1. CASE Stop
  BY <1>1, StoppedStep DEF Stop, IInv, TypeOK, Keeps
<1>2. ASSUME NEW a \in Actions, ApproveCrashes(a) PROVE IInv' /\ StepOK
  <2>1. /\ Stopped /\ disk' = disk /\ started' = started /\ claimed' = claimed
        /\ approved' = approved \cup {a}
    BY <1>2 DEF ApproveCrashes
  <2> QED
    BY <2>1, StoppedStep DEF IInv, TypeOK, Keeps
<1>3. ASSUME NEW a \in Actions, FireCrashes(a) PROVE IInv' /\ StepOK
  <2> DEFINE r == Claimed(mem[a], claimed[a] + 1)
  <2>1. /\ Stopped /\ disk' = Put(disk, a, r) /\ started' = started
        /\ claimed' = [claimed EXCEPT ![a] = @ + 1] /\ approved' = approved
        /\ daemon = "up" /\ mem[a].status \in {"pending", "failed"}
    BY <1>3 DEF FireCrashes, Claimable
  <2>2. /\ mem[a] \in Record /\ claimed \in [Actions -> Nat] /\ disk \in [Actions -> Record]
        /\ FinalAgrees(mem, disk)
    BY <2>1 DEF IInv, TypeOK
  <2>3. r \in Record
    <3>1. claimed[a] + 1 \in Nat
      BY <2>2
    <3> QED
      BY <2>2, <3>1, Records
  <2>4. disk[a].status \notin Final /\ a \in approved
    BY <2>1, <2>2 DEF FinalAgrees, Final, IInv, TypeOK, None
  <2>5. /\ disk' \in [Actions -> Record] /\ claimed' \in [Actions -> Nat]
        /\ \A b \in Actions \ {a} : disk'[b] = disk[b]
    BY <2>1, <2>2, <2>3 DEF Put
  <2>6. Keeps(disk, disk')
    BY <2>4, <2>5 DEF Keeps
  <2>7. \A b \in Actions \ approved : disk'[b] = None
    BY <2>4, <2>5 DEF IInv, TypeOK
  <2>8. approved' \subseteq Actions /\ approved \subseteq approved'
    BY <2>1 DEF IInv, TypeOK
  <2> QED
    BY <2>1, <2>5, <2>6, <2>7, <2>8, StoppedStep
<1> QED
  BY <1>1, <1>2, <1>3

LEMMA RestartStep == ASSUME IInv, Restart PROVE IInv' /\ StepOK
<1> DEFINE rec(a) == IF Owed(a) THEN Prepared(Recovered(disk[a]), FALSE)
                     ELSE Recovered(disk[a])
<1>0. disk \in [Actions -> Record] /\ mem = Nothing /\ turns = {}
  BY DEF IInv, TypeOK, Restart
<1>1. /\ mem' = [a \in Actions |-> rec(a)] /\ disk' = [a \in Actions |-> rec(a)]
      /\ daemon' = "up"
      /\ UNCHANGED <<approved, turns, replies, started, claimed, tainted, mutated, lost,
                     presses, restarts>>
  BY DEF Restart
<1>2. timers' \in [Actions -> Nat]
  <2>1. timers' = [a \in Actions |->
                     IF Owed(a) /\ rec(a).status \in {"pending", "failed"} THEN 1 ELSE 0]
    BY DEF Restart
  <2> HIDE DEF rec
  <2> QED
    BY <2>1
<1>3. ASSUME NEW a \in Actions
      PROVE  /\ rec(a) \in Record /\ (disk[a].status \in Final => rec(a) = disk[a])
             /\ a \notin approved => rec(a) = None
  <2>1. disk[a] \in Record
    BY <1>0
  <2>2. 0 \in Nat /\ "failed" \in Final \cup {"failed"} /\ FALSE \in BOOLEAN
    OBVIOUS
  <2>3. /\ Recovered(disk[a]) \in Record
        /\ disk[a].status \in Final => Recovered(disk[a]) = disk[a]
        /\ Recovered(None) = None
    BY <2>1, <2>2, Records
  <2>4. Prepared(Recovered(disk[a]), FALSE) \in Record
    BY <2>2, <2>3, Records
  <2>5. disk[a].status \in Final => ~Owed(a)
    BY <2>3 DEF Owed, Recoverable, Final
  <2>6. a \notin approved => ~Owed(a) /\ disk[a] = None
    BY DEF Owed, IInv, TypeOK
  <2> QED
    BY <2>3, <2>4, <2>5, <2>6
<1> HIDE DEF rec
<1>4. mem' \in [Actions -> Record] /\ disk' = mem'
      /\ \A a \in Actions : mem'[a] = rec(a) /\ disk'[a] = rec(a)
  BY <1>1, <1>3
<1>5. TypeOK'
  BY <1>1, <1>2, <1>3, <1>4 DEF IInv, TypeOK
<1>6. TurnsNamed(mem', turns', replies', tainted')
  <2>1. tainted = {}
    BY <1>0 DEF IInv, TypeOK, TurnsNamed, Nothing, None, Final
  <2> QED
    BY <1>0, <1>1, <2>1 DEF IInv, TurnsNamed
<1>7. FinalAgrees(mem', disk') /\ Keeps(disk, disk')
  BY <1>3, <1>4 DEF FinalAgrees, Keeps
<1>8. \A a \in Actions : ~(started'[a] > started[a])
  BY <1>1 DEF IInv, TypeOK
<1> QED
  BY <1>5, <1>6, <1>7, <1>8 DEF IInv, StepOK

LEMMA Step == IInv /\ [Next]_vars => IInv' /\ [StepOK]_vars
<1> SUFFICES ASSUME IInv, [Next]_vars PROVE IInv' /\ [StepOK]_vars
  OBVIOUS
<1>1. CASE Next
  <2>1. CASE Close \/ Stop \/ Restart
    BY <2>1, CloseStep, StopStep, RestartStep
  <2>2. ASSUME NEW a \in Actions,
               \/ \E here \in BOOLEAN : Approve(a, here)
               \/ Press(a) \/ Fire(a) \/ FireNothing(a)
               \/ ApproveCrashes(a) \/ FireCrashes(a)
        PROVE  IInv' /\ StepOK
    BY <2>2, ApproveStep, PressStep, FireStep, FireNothingStep, StopStep
  <2>3. ASSUME NEW t \in turns,
               \/ TurnActs(t) \/ TurnReplies(t)
               \/ \E st \in Outcomes(t) : TurnEnds(t, st)
        PROVE  IInv' /\ StepOK
    BY <2>3, TurnStep, TurnEndsStep
  <2> QED
    BY <1>1, <2>1, <2>2, <2>3 DEF Next
<1>2. CASE UNCHANGED vars
  BY <1>2 DEF vars, IInv, TypeOK, TurnsNamed, FinalAgrees
<1> QED
  BY <1>1, <1>2

\* The inductive invariant holds in every reachable state: claims, turns,
\* retries, failing appends, shutdowns, crashes and recoveries all keep it.
THEOREM Invariance == Spec => []IInv
  BY Initial, Step, PTL DEF Spec
-----------------------------------------------------------------------------
(***************************************************************************)
(* The theorems                                                            *)
(***************************************************************************)

\* Every variable keeps its type, and a stopped daemon holds nothing in memory.
THEOREM TypeCorrect == Spec => []TypeOK
<1>1. IInv => TypeOK
  BY DEF IInv
<1> QED
  BY <1>1, Invariance, PTL

\* At most one turn resumes a card at a time, under the delivery its record
\* names (claimContinuation, finishContinuation).
THEOREM OneTurn == Spec => []OneTurnPerCard
<1>1. IInv => OneTurnPerCard
  BY DEF IInv, TurnsNamed, OneTurnPerCard
<1> QED
  BY <1>1, Invariance, PTL

\* The chat hears at most one successful reply to an approval, wherever the
\* daemon stops between the reply and its receipt.
THEOREM RepliesOnce == Spec => []ReplyOnce
<1>1. IInv => ReplyOnce
  BY DEF IInv, TurnsNamed, ReplyOnce
<1> QED
  BY <1>1, Invariance, PTL

\* No press, timer, late turn or recovery reopens a record the journal holds
\* as final.
THEOREM FinalForEver == Spec => FinalStays
<1>1. IInv /\ [Next]_vars
        => [\A a \in Actions : disk[a].status \in Final => disk'[a] = disk[a]]_vars
  BY Step DEF StepOK, Keeps
<1> QED
  BY <1>1, Invariance, PTL DEF Spec, FinalStays

\* While the daemon lives, no turn starts for a card whose earlier turn reached
\* a mutating tool.
THEOREM NoReplay == Spec => NoReplayWhileUp
<1>1. IInv /\ [Next]_vars
        => [\A a \in Actions : started'[a] > started[a] => a \notin tainted]_vars
  BY Step DEF StepOK
<1> QED
  BY <1>1, Invariance, PTL DEF Spec, NoReplayWhileUp
=============================================================================
