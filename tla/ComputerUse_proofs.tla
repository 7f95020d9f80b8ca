-------------------------- MODULE ComputerUse_proofs --------------------------
(***************************************************************************)
(* Proofs about ComputerUse, for any number of tool calls, Stops and       *)
(* faults, over any transport.                                             *)
(***************************************************************************)
EXTENDS ComputerUse, TLAPS

(***************************************************************************)
(* The inductive invariant                                                 *)
(***************************************************************************)
Seq_ == [n : Nat, lease : Calls \cup {NoLease}]
Lease == [open : BOOLEAN, last : Nat, framed : BOOLEAN, executing : BOOLEAN]
Under == {"inspects", "runs"}     \* the executor has admitted the operation

Types ==
    /\ via \in Transports /\ status \in {"active", "over"} /\ lease \in Held
    /\ lease.next # 0 /\ (lease = None \/ lease.id \in Calls)
    /\ opening \in BOOLEAN /\ pc \in [Calls -> PCs] /\ op \in [Calls -> Kinds]
    /\ seq \in [Calls -> Seq_]
    /\ start \in [Calls -> Requests] /\ act \in [Calls -> Requests]
    /\ ends \subseteq [lease : Calls, at : {"queued", "sent"}]
    /\ node \in [Calls -> Lease]
    /\ stops \in 0 .. MaxStops /\ faults \in 0 .. MaxFaults
    /\ cut \subseteq Calls /\ late \subseteq Calls /\ abandoned \subseteq Calls

\* An operation or a session.start on its way has a caller that has been there.
Wire ==
    \A c \in Calls :
        /\ act[c] # "none" => pc[c] \in {"acts", "fails", "done"} /\ seq[c].lease \in Calls
        /\ pc[c] = "acts" => act[c] # "none"
        /\ start[c] # "none" => pc[c] \in {"opens", "fails", "done"}

\* A lease is nothing before its session.start has been answered, and used by
\* nobody before its opener has heard so.
Fresh ==
    \A c \in Calls :
        /\ pc[c] \in {"idle", "probes"} \/ start[c] \in {"queued", "sent", "inspects"}
             => node[c] = Closed /\ c \notin cut
        /\ lease.id = c \/ (\E x \in Calls : seq[x].lease = c)
             => start[c] = "none" /\ pc[c] \notin {"idle", "probes", "opens"}

\* Only one call ever opens a lease; while the session is active, the opening,
\* the lease or a failure about to end the session shows that it has.
Opener(c) == pc[c] \in {"probes", "opens"} \/ start[c] # "none" \/ node[c].open \/ lease.id = c
Openers ==
    /\ \A a, b \in Calls : Opener(a) /\ Opener(b) => a = b
    /\ \A c \in Calls : status = "active" /\ Opener(c) => opening \/ lease # None \/ ~Settled

\* An operation under way holds its lease's executing flag, and is alone.
Executing ==
    \A c \in Calls : act[c] \in Under =>
        /\ node[seq[c].lease].executing
        /\ \A x \in Calls : act[x] \in Under /\ seq[x].lease = seq[c].lease => x = c

\* A revoked lease is closed and has no frame for whoever is still to be run.
Frames ==
    /\ \A l \in cut : ~node[l].open
    /\ \A c \in Calls : act[c] = "inspects" /\ seq[c].lease \in cut /\ via # "local"
                          => ~node[seq[c].lease].framed
    /\ \A c \in late : pc[c] # "idle" /\ (op[c] = "activate" \/ via = "local")

\* A number in flight has its caller.
Called ==
    lease.inFlight # 0 =>
        \E c \in Calls : pc[c] = "acts" /\ seq[c] = [n |-> lease.inFlight, lease |-> lease.id]

\* While the session is active or the main holds its lease, the one operation
\* whose caller waits is the only one about, and bears the main's next number,
\* which the executor waits for or has taken.
Live == status = "active" \/ lease # None
Counted ==
    Live =>
        /\ \A c \in Calls :
             /\ act[c] # "none" => pc[c] # "done"
             /\ pc[c] = "acts" =>
                  /\ lease.inFlight # 0 /\ lease.inFlight = lease.next
                  /\ seq[c].n = lease.inFlight /\ seq[c].lease = lease.id
                  /\ \A x \in Calls : pc[x] = "acts" \/ act[x] # "none" => x = c
                  /\ node[lease.id].open =>
                       /\ act[c] \in {"queued", "sent", "refused"}
                            => node[lease.id].last + 1 = lease.next
                       /\ act[c] \in Under \cup {"ok", "failed"}
                            => node[lease.id].last = lease.next
        /\ InStep

IInv == Types /\ Wire /\ Fresh /\ Openers /\ Executing /\ Frames /\ Called /\ Counted

-----------------------------------------------------------------------------
LEMMA Constants == NoLease \notin Calls /\ MaxStops \in Nat /\ MaxFaults \in Nat
                   /\ Transports \subseteq {"http", "relay", "local"} /\ Operations \subseteq Kinds
  BY UseAssumption DEF Kinds


\* What an action of the executor does to the lease it is about.
LeaseSet(l, r) ==
    /\ node' \in [Calls -> Lease] /\ node'[l] = r
    /\ \A x \in Calls \ {l} : node'[x] = node[x]

LEMMA LeaseEdit ==
    ASSUME Types, NEW l \in Calls, NEW r \in Lease, node' = [node EXCEPT ![l] = r]
    PROVE  LeaseSet(l, r)
  BY DEF Types, LeaseSet

\* The fields of a lease.
LEMMA LeaseFields ==
    ASSUME Types, NEW l \in Calls
    PROVE  /\ node[l] \in Lease /\ node[l].open \in BOOLEAN /\ node[l].last \in Nat
           /\ node[l].framed \in BOOLEAN /\ node[l].executing \in BOOLEAN
           /\ node[l] = [open |-> node[l].open, last |-> node[l].last,
                         framed |-> node[l].framed, executing |-> node[l].executing]
  BY DEF Types, Lease

\* One field of a lease is changed.
LEMMA FieldEdits ==
    ASSUME NEW k \in Lease
    PROVE  /\ \A b \in BOOLEAN : [k EXCEPT !.open = b]
                = [open |-> b, last |-> k.last, framed |-> k.framed, executing |-> k.executing]
           /\ \A n \in Nat : [k EXCEPT !.last = n]
                = [open |-> k.open, last |-> n, framed |-> k.framed, executing |-> k.executing]
           /\ \A b \in BOOLEAN : [k EXCEPT !.framed = b]
                = [open |-> k.open, last |-> k.last, framed |-> b, executing |-> k.executing]
           /\ \A b \in BOOLEAN : [k EXCEPT !.executing = b]
                = [open |-> k.open, last |-> k.last, framed |-> k.framed, executing |-> b]
<1>1. ASSUME NEW v \in BOOLEAN PROVE [k EXCEPT !.open = v] = [open |-> v, last |-> k.last, framed |-> k.framed, executing |-> k.executing]
  <2> DEFINE r == [k EXCEPT !.open = v]
  <2>1. r \in Lease
    BY DEF Lease
  <2>2. r.open = v
    BY DEF Lease
  <2>3. r.last = k.last
    BY DEF Lease
  <2>4. r.framed = k.framed
    BY DEF Lease
  <2>5. r.executing = k.executing
    BY DEF Lease
  <2> HIDE DEF r
  <2>6. r = [open |-> v, last |-> k.last, framed |-> k.framed, executing |-> k.executing]
    BY <2>1, <2>2, <2>3, <2>4, <2>5 DEF Lease
  <2> QED
    BY <2>6 DEF r
<1>2. ASSUME NEW v \in Nat PROVE [k EXCEPT !.last = v] = [open |-> k.open, last |-> v, framed |-> k.framed, executing |-> k.executing]
  <2> DEFINE r == [k EXCEPT !.last = v]
  <2>1. r \in Lease
    BY DEF Lease
  <2>2. r.open = k.open
    BY DEF Lease
  <2>3. r.last = v
    BY DEF Lease
  <2>4. r.framed = k.framed
    BY DEF Lease
  <2>5. r.executing = k.executing
    BY DEF Lease
  <2> HIDE DEF r
  <2>6. r = [open |-> k.open, last |-> v, framed |-> k.framed, executing |-> k.executing]
    BY <2>1, <2>2, <2>3, <2>4, <2>5 DEF Lease
  <2> QED
    BY <2>6 DEF r
<1>3. ASSUME NEW v \in BOOLEAN PROVE [k EXCEPT !.framed = v] = [open |-> k.open, last |-> k.last, framed |-> v, executing |-> k.executing]
  <2> DEFINE r == [k EXCEPT !.framed = v]
  <2>1. r \in Lease
    BY DEF Lease
  <2>2. r.open = k.open
    BY DEF Lease
  <2>3. r.last = k.last
    BY DEF Lease
  <2>4. r.framed = v
    BY DEF Lease
  <2>5. r.executing = k.executing
    BY DEF Lease
  <2> HIDE DEF r
  <2>6. r = [open |-> k.open, last |-> k.last, framed |-> v, executing |-> k.executing]
    BY <2>1, <2>2, <2>3, <2>4, <2>5 DEF Lease
  <2> QED
    BY <2>6 DEF r
<1>4. ASSUME NEW v \in BOOLEAN PROVE [k EXCEPT !.executing = v] = [open |-> k.open, last |-> k.last, framed |-> k.framed, executing |-> v]
  <2> DEFINE r == [k EXCEPT !.executing = v]
  <2>1. r \in Lease
    BY DEF Lease
  <2>2. r.open = k.open
    BY DEF Lease
  <2>3. r.last = k.last
    BY DEF Lease
  <2>4. r.framed = k.framed
    BY DEF Lease
  <2>5. r.executing = v
    BY DEF Lease
  <2> HIDE DEF r
  <2>6. r = [open |-> k.open, last |-> k.last, framed |-> k.framed, executing |-> v]
    BY <2>1, <2>2, <2>3, <2>4, <2>5 DEF Lease
  <2> QED
    BY <2>6 DEF r
<1> QED
  BY <1>1, <1>2, <1>3, <1>4

\* One field, or two.
LEMMA LeaseEdits ==
    ASSUME NEW k \in Lease
    PROVE  /\ \A b \in BOOLEAN : [k EXCEPT !.open = b]
                = [open |-> b, last |-> k.last, framed |-> k.framed, executing |-> k.executing]
           /\ [k EXCEPT !.open = FALSE, !.framed = FALSE]
                = [open |-> FALSE, last |-> k.last, framed |-> FALSE, executing |-> k.executing]
           /\ [k EXCEPT !.executing = FALSE]
                = [open |-> k.open, last |-> k.last, framed |-> k.framed, executing |-> FALSE]
           /\ \A n \in Nat : [k EXCEPT !.last = n, !.executing = TRUE]
                = [open |-> k.open, last |-> n, framed |-> k.framed, executing |-> TRUE]
           /\ \A b \in BOOLEAN : [k EXCEPT !.executing = FALSE, !.framed = b]
                = [open |-> k.open, last |-> k.last, framed |-> b, executing |-> FALSE]
<1>1. \A b \in BOOLEAN : [k EXCEPT !.open = b]
        = [open |-> b, last |-> k.last, framed |-> k.framed, executing |-> k.executing]
  BY FieldEdits
<1>2. [k EXCEPT !.executing = FALSE]
        = [open |-> k.open, last |-> k.last, framed |-> k.framed, executing |-> FALSE]
  BY FieldEdits
<1>3. [k EXCEPT !.open = FALSE, !.framed = FALSE]
        = [open |-> FALSE, last |-> k.last, framed |-> FALSE, executing |-> k.executing]
  <2> DEFINE j == [k EXCEPT !.open = FALSE]
  <2>1. j = [open |-> FALSE, last |-> k.last, framed |-> k.framed, executing |-> k.executing]
        /\ j \in Lease
    BY FieldEdits DEF Lease
  <2>2. [j EXCEPT !.framed = FALSE] = [open |-> j.open, last |-> j.last, framed |-> FALSE,
                                       executing |-> j.executing]
    BY <2>1, FieldEdits
  <2> QED
    BY <2>1, <2>2
<1>4. ASSUME NEW n \in Nat
      PROVE  [k EXCEPT !.last = n, !.executing = TRUE]
               = [open |-> k.open, last |-> n, framed |-> k.framed, executing |-> TRUE]
  <2> DEFINE j == [k EXCEPT !.last = n]
  <2>1. j = [open |-> k.open, last |-> n, framed |-> k.framed, executing |-> k.executing]
        /\ j \in Lease
    BY FieldEdits DEF Lease
  <2>2. [j EXCEPT !.executing = TRUE] = [open |-> j.open, last |-> j.last, framed |-> j.framed,
                                         executing |-> TRUE]
    BY <2>1, FieldEdits
  <2> QED
    BY <2>1, <2>2
<1>5. ASSUME NEW b \in BOOLEAN
      PROVE  [k EXCEPT !.executing = FALSE, !.framed = b]
               = [open |-> k.open, last |-> k.last, framed |-> b, executing |-> FALSE]
  <2> DEFINE j == [k EXCEPT !.executing = FALSE]
  <2>1. j = [open |-> k.open, last |-> k.last, framed |-> k.framed, executing |-> FALSE]
        /\ j \in Lease
    BY <1>2 DEF Lease
  <2>2. [j EXCEPT !.framed = b] = [open |-> j.open, last |-> j.last, framed |-> b,
                                   executing |-> j.executing]
    BY <2>1, FieldEdits
  <2> QED
    BY <2>1, <2>2
<1> QED
  BY <1>1, <1>2, <1>3, <1>4, <1>5

\* A lease that has been something is not fresh.
LEMMA FreshKept ==
    ASSUME IInv, NEW l \in Calls, NEW r, LeaseSet(l, r), node[l] # Closed,
           pc' = pc, start' = start, lease' = lease, seq' = seq, cut' \subseteq cut \cup {l}
    PROVE  Fresh'
<1>1. ~(pc[l] \in {"idle", "probes"} \/ start[l] \in {"queued", "sent", "inspects"})
  BY DEF IInv, Fresh
<1>2. \A c \in Calls \ {l} : node'[c] = node[c] /\ (c \notin cut => c \notin cut')
  BY DEF LeaseSet
<1> QED
  BY <1>1, <1>2 DEF IInv, Fresh

\* What the sending of an operation does.
Sent(c, l) ==
    /\ lease' \in Held /\ lease'.id = l.id /\ lease'.next = l.next /\ lease'.inFlight = l.next
    /\ seq' \in [Calls -> Seq_] /\ seq'[c] = [n |-> l.next, lease |-> l.id]
    /\ seq'[c].n = l.next /\ seq'[c].lease = l.id
    /\ act' \in [Calls -> Requests] /\ act'[c] \in {"queued", "sent"}
    /\ \A x \in Calls \ {c} : seq'[x] = seq[x] /\ act'[x] = act[x]

LEMMA Sends ==
    ASSUME Types, NEW c \in Calls, NEW l \in Held, SendAction(c, l)
    PROVE  Sent(c, l)
<1>1. /\ l.id \in Calls \cup {NoLease} /\ l.next \in Nat
      /\ l = [id |-> l.id, next |-> l.next, inFlight |-> l.inFlight]
  BY DEF Held
<1>2. lease' = [id |-> l.id, next |-> l.next, inFlight |-> l.next]
  BY <1>1 DEF SendAction
<1>3. /\ seq' \in [Calls -> Seq_] /\ seq'[c] = [n |-> l.next, lease |-> l.id]
      /\ \A x \in Calls \ {c} : seq'[x] = seq[x]
  BY <1>1 DEF SendAction, Types, Seq_
<1>4. /\ act' \in [Calls -> Requests] /\ act'[c] \in {"queued", "sent"}
      /\ \A x \in Calls \ {c} : act'[x] = act[x]
  BY DEF SendAction, Types, Requests, Dispatched
<1> QED
  BY <1>1, <1>2, <1>3, <1>4 DEF Sent, Held

\* What the sending of session.start does.
Started(c) ==
    /\ start' \in [Calls -> Requests] /\ start'[c] \in {"queued", "sent"}
    /\ \A x \in Calls \ {c} : start'[x] = start[x]

LEMMA Starts == ASSUME Types, NEW c \in Calls, SendStart(c) PROVE Started(c)
  BY DEF SendStart, Started, Types, Requests, Dispatched

\* One call moves on, alone or waking those that wait for it.
Moved(c, to) ==
    /\ pc' \in [Calls -> PCs] /\ pc'[c] = to
    /\ \A x \in Calls \ {c} : pc'[x] = pc[x]
WokenTo(c, to) ==
    /\ pc' \in [Calls -> PCs] /\ pc'[c] = to
    /\ \A x \in Calls \ {c} : pc'[x] = IF pc[x] = "waits" THEN "fails" ELSE pc[x]

LEMMA Moves ==
    ASSUME Types, NEW c \in Calls, NEW to \in PCs, pc' = [pc EXCEPT ![c] = to]
    PROVE  Moved(c, to)
  BY DEF Types, Moved

LEMMA Wakes ==
    ASSUME Types, NEW c \in Calls, NEW to \in PCs, pc' = Woken(c, to)
    PROVE  WokenTo(c, to)
  BY DEF Types, WokenTo, Woken, PCs

\* What the end of an operation does to the main's copy of its lease.
Settles(c, done) ==
    /\ lease' \in Held /\ lease'.id = lease.id /\ lease'.next # 0
    /\ lease.id = seq[c].lease => /\ lease'.inFlight = 0
                                  /\ lease'.next = IF done THEN seq[c].n + 1 ELSE lease.next
    /\ lease.id # seq[c].lease => lease' = lease

LEMMA Advances ==
    ASSUME Types, NEW c \in Calls, NEW done \in BOOLEAN,
           lease' = IF lease.id = seq[c].lease THEN Advanced(lease, seq[c].n, done) ELSE lease
    PROVE  Settles(c, done)
<1>1. /\ lease \in Held /\ lease.id \in Calls \cup {NoLease} /\ lease.next \in Nat
      /\ lease.next # 0 /\ seq[c].n \in Nat
      /\ lease = [id |-> lease.id, next |-> lease.next, inFlight |-> lease.inFlight]
  BY DEF Types, Held, Seq_
<1>2. CASE lease.id # seq[c].lease
  BY <1>1, <1>2 DEF Settles
<1>3. CASE lease.id = seq[c].lease
  <2>1. lease' = [id |-> lease.id, inFlight |-> 0,
                  next |-> IF done THEN seq[c].n + 1 ELSE lease.next]
    BY <1>1, <1>3 DEF Advanced
  <2>2. (IF done THEN seq[c].n + 1 ELSE lease.next) \in Nat \ {0}
    BY <1>1
  <2> QED
    BY <1>1, <1>3, <2>1, <2>2 DEF Settles, Held
<1> QED
  BY <1>2, <1>3

LEMMA BeginStep == ASSUME IInv, NEW c \in Calls, NEW o \in Operations, Begin(c, o) PROVE IInv'
<1>1. /\ Types /\ Settled /\ status = "active" /\ pc[c] = "idle"
      /\ UNCHANGED <<via, status, ends, node, stops, faults, cut, late, abandoned>>
      /\ op' = [op EXCEPT ![c] = o] /\ o \in Kinds
  BY Constants DEF IInv, Begin, history
<1>2. /\ act[c] = "none" /\ start[c] = "none" /\ node[c] = Closed /\ c \notin cut /\ c \notin late
      /\ lease.id # c /\ (\A x \in Calls : seq[x].lease # c)
      /\ lease.id \in Calls \cup {NoLease} /\ lease.next \in Nat
      /\ None.id = NoLease /\ None.inFlight = 0 /\ NoLease \notin Calls /\ ~node[c].open
  BY <1>1, Constants DEF IInv, Wire, Fresh, Frames, Types, Held, None, Closed
<1>3. /\ op' \in [Calls -> Kinds] /\ \A x \in Calls \ {c} : op'[x] = op[x]
  BY <1>1 DEF Types
<1>4. lease # None /\ lease.inFlight = 0 => \A x \in Calls : pc[x] # "acts" /\ act[x] = "none"
  BY <1>1 DEF IInv, Counted, Live, Wire, Settled
<1>5. \/ lease # None /\ lease.inFlight = 0 /\ Sent(c, lease) /\ Moved(c, "acts") /\ UNCHANGED <<opening, start>>
      \/ Moved(c, "fails") /\ UNCHANGED <<lease, opening, seq, start, act>>
      \/ Moved(c, "waits") /\ opening /\ UNCHANGED <<lease, opening, seq, start, act>>
      \/ lease = None /\ ~opening /\ opening' = TRUE /\ Moved(c, "probes") /\ UNCHANGED <<lease, seq, start, act>>
      \/ lease = None /\ ~opening /\ opening' = TRUE /\ Moved(c, "opens") /\ Started(c) /\ UNCHANGED <<lease, seq, act>>
  <2>1. lease \in Held /\ {"acts", "fails", "waits", "probes", "opens"} \subseteq PCs
    BY <1>1 DEF Types, PCs
  <2>2. CASE lease # None /\ Free(lease)
    <3>1. SendAction(c, lease) /\ pc' = [pc EXCEPT ![c] = "acts"] /\ UNCHANGED <<opening, start>>
      BY <2>2 DEF Begin
    <3> QED
      BY <1>1, <2>1, <2>2, <3>1, Sends, Moves DEF Free
  <2>3. CASE lease # None /\ ~Free(lease)
    <3>1. pc' = [pc EXCEPT ![c] = "fails"] /\ UNCHANGED <<lease, opening, seq, start, act>>
      BY <2>3 DEF Begin
    <3> QED
      BY <1>1, <2>1, <3>1, Moves
  <2>4. CASE lease = None /\ ~Opens
    <3>1. pc' = [pc EXCEPT ![c] = "waits"] /\ UNCHANGED <<lease, opening, seq, start, act>>
      BY <2>4 DEF Begin
    <3> QED
      BY <1>1, <2>1, <2>4, <3>1, Moves DEF Opens
  <2>5. CASE lease = None /\ Opens
    <3>1. /\ opening' = TRUE /\ UNCHANGED <<lease, seq, act>>
          /\ \/ pc' = [pc EXCEPT ![c] = "probes"] /\ UNCHANGED start
             \/ pc' = [pc EXCEPT ![c] = "opens"] /\ SendStart(c)
      BY <2>5 DEF Begin
    <3> QED
      BY <1>1, <2>1, <2>5, <3>1, Moves, Starts DEF Opens
  <2> QED
    BY <2>2, <2>3, <2>4, <2>5
<1>6. CASE lease # None /\ lease.inFlight = 0 /\ Sent(c, lease) /\ Moved(c, "acts") /\ UNCHANGED <<opening, start>>
  <2>1. Types'
    BY <1>1, <1>2, <1>3, <1>4, <1>6, Constants DEF IInv, Sent, Moved, Types
  <2>2. Wire'
    BY <1>1, <1>2, <1>3, <1>4, <1>6, Constants DEF IInv, Sent, Moved, Types, Wire
  <2>3. Fresh'
    BY <1>1, <1>2, <1>3, <1>4, <1>6, Constants DEF IInv, Sent, Moved, Types, Wire, Fresh, Closed
  <2>4. Openers'
    BY <1>1, <1>2, <1>3, <1>4, <1>6, Constants DEF IInv, Sent, Moved, Types, Wire, Fresh,
         Openers, Opener, Settled, Closed
  <2>5. Executing'
    BY <1>1, <1>2, <1>3, <1>4, <1>6, Constants DEF IInv, Sent, Moved, Types, Wire, Fresh,
         Executing, Under, Closed
  <2>6. Frames'
    BY <1>1, <1>2, <1>3, <1>4, <1>6, Constants DEF IInv, Sent, Moved, Types, Wire, Fresh,
         Executing, Frames, Under, Kinds
  <2>7. Called'
    BY <1>1, <1>2, <1>3, <1>4, <1>6, Constants DEF IInv, Sent, Moved, Types, Wire, Called
  <2>8. Counted'
    BY <1>1, <1>2, <1>3, <1>4, <1>6, Constants DEF IInv, Sent, Moved, Types, Wire, Fresh,
         Counted, Live, InStep, Settled, Under
  <2> QED
    BY <2>1, <2>2, <2>3, <2>4, <2>5, <2>6, <2>7, <2>8 DEF IInv
<1>7. CASE Moved(c, "fails") /\ UNCHANGED <<lease, opening, seq, start, act>>
  <2>1. Types'
    BY <1>1, <1>2, <1>3, <1>4, <1>7, Constants DEF IInv, Moved, Types
  <2>2. Wire'
    BY <1>1, <1>2, <1>3, <1>4, <1>7, Constants DEF IInv, Moved, Types, Wire
  <2>3. Fresh'
    BY <1>1, <1>2, <1>3, <1>4, <1>7, Constants DEF IInv, Moved, Types, Wire, Fresh, Closed
  <2>4. Openers'
    BY <1>1, <1>2, <1>3, <1>4, <1>7, Constants DEF IInv, Moved, Types, Wire, Fresh, Openers,
         Opener, Settled, Closed
  <2>5. Executing'
    BY <1>1, <1>2, <1>3, <1>4, <1>7, Constants DEF IInv, Moved, Types, Wire, Fresh,
         Executing, Under, Closed
  <2>6. Frames'
    BY <1>1, <1>2, <1>3, <1>4, <1>7, Constants DEF IInv, Moved, Types, Wire, Fresh,
         Executing, Frames, Under, Kinds
  <2>7. Called'
    BY <1>1, <1>2, <1>3, <1>4, <1>7, Constants DEF IInv, Moved, Types, Wire, Called
  <2>8. Counted'
    BY <1>1, <1>2, <1>3, <1>4, <1>7, Constants DEF IInv, Moved, Types, Wire, Fresh, Counted, Live, InStep,
         Settled, Under
  <2> QED
    BY <2>1, <2>2, <2>3, <2>4, <2>5, <2>6, <2>7, <2>8 DEF IInv
<1>8. CASE Moved(c, "waits") /\ opening /\ UNCHANGED <<lease, opening, seq, start, act>>
  <2>1. Types'
    BY <1>1, <1>2, <1>3, <1>4, <1>8, Constants DEF IInv, Moved, Types
  <2>2. Wire'
    BY <1>1, <1>2, <1>3, <1>4, <1>8, Constants DEF IInv, Moved, Types, Wire
  <2>3. Fresh'
    BY <1>1, <1>2, <1>3, <1>4, <1>8, Constants DEF IInv, Moved, Types, Wire, Fresh, Closed
  <2>4. Openers'
    BY <1>1, <1>2, <1>3, <1>4, <1>8, Constants DEF IInv, Moved, Types, Wire, Fresh, Openers,
         Opener, Settled, Closed
  <2>5. Executing'
    BY <1>1, <1>2, <1>3, <1>4, <1>8, Constants DEF IInv, Moved, Types, Wire, Fresh,
         Executing, Under, Closed
  <2>6. Frames'
    BY <1>1, <1>2, <1>3, <1>4, <1>8, Constants DEF IInv, Moved, Types, Wire, Fresh,
         Executing, Frames, Under, Kinds
  <2>7. Called'
    BY <1>1, <1>2, <1>3, <1>4, <1>8, Constants DEF IInv, Moved, Types, Wire, Called
  <2>8. Counted'
    BY <1>1, <1>2, <1>3, <1>4, <1>8, Constants DEF IInv, Moved, Types, Wire, Fresh, Counted, Live, InStep,
         Settled, Under
  <2> QED
    BY <2>1, <2>2, <2>3, <2>4, <2>5, <2>6, <2>7, <2>8 DEF IInv
<1>9. CASE lease = None /\ ~opening /\ opening' = TRUE /\ Moved(c, "probes") /\ UNCHANGED <<lease, seq, start, act>>
  <2>1. Types'
    BY <1>1, <1>2, <1>3, <1>4, <1>9, Constants DEF IInv, Moved, Types
  <2>2. Wire'
    BY <1>1, <1>2, <1>3, <1>4, <1>9, Constants DEF IInv, Moved, Types, Wire
  <2>3. Fresh'
    BY <1>1, <1>2, <1>3, <1>4, <1>9, Constants DEF IInv, Moved, Types, Wire, Fresh, Closed
  <2>4. Openers'
    BY <1>1, <1>2, <1>3, <1>4, <1>9, Constants DEF IInv, Moved, Types, Wire, Fresh, Openers,
         Opener, Settled, Closed
  <2>5. Executing'
    BY <1>1, <1>2, <1>3, <1>4, <1>9, Constants DEF IInv, Moved, Types, Wire, Fresh,
         Executing, Under, Closed
  <2>6. Frames'
    BY <1>1, <1>2, <1>3, <1>4, <1>9, Constants DEF IInv, Moved, Types, Wire, Fresh,
         Executing, Frames, Under, Kinds
  <2>7. Called'
    BY <1>1, <1>2, <1>3, <1>4, <1>9, Constants DEF IInv, Moved, Types, Wire, Called
  <2>8. Counted'
    BY <1>1, <1>2, <1>3, <1>4, <1>9, Constants DEF IInv, Moved, Types, Wire, Fresh, Counted, Live, InStep,
         Settled, Under
  <2> QED
    BY <2>1, <2>2, <2>3, <2>4, <2>5, <2>6, <2>7, <2>8 DEF IInv
<1>10. CASE lease = None /\ ~opening /\ opening' = TRUE /\ Moved(c, "opens") /\ Started(c) /\ UNCHANGED <<lease, seq, act>>
  <2>1. Types'
    BY <1>1, <1>2, <1>3, <1>4, <1>10, Constants DEF IInv, Moved, Started, Types
  <2>2. Wire'
    BY <1>1, <1>2, <1>3, <1>4, <1>10, Constants DEF IInv, Moved, Started, Types, Wire
  <2>3. Fresh'
    BY <1>1, <1>2, <1>3, <1>4, <1>10, Constants DEF IInv, Moved, Started, Types, Wire,
         Fresh, Closed
  <2>4. Openers'
    BY <1>1, <1>2, <1>3, <1>4, <1>10, Constants DEF IInv, Moved, Started, Types, Wire,
         Fresh, Openers, Opener, Settled, Closed
  <2>5. Executing'
    BY <1>1, <1>2, <1>3, <1>4, <1>10, Constants DEF IInv, Moved, Started, Types, Wire,
         Fresh, Executing, Under, Closed
  <2>6. Frames'
    BY <1>1, <1>2, <1>3, <1>4, <1>10, Constants DEF IInv, Moved, Started, Types, Wire,
         Fresh, Executing, Frames, Under, Kinds
  <2>7. Called'
    BY <1>1, <1>2, <1>3, <1>4, <1>10, Constants DEF IInv, Moved, Started, Types, Wire, Called
  <2>8. Counted'
    BY <1>1, <1>2, <1>3, <1>4, <1>10, Constants DEF IInv, Moved, Started, Types, Wire,
         Fresh, Counted, Live, InStep, Settled, Under
  <2> QED
    BY <2>1, <2>2, <2>3, <2>4, <2>5, <2>6, <2>7, <2>8 DEF IInv
<1> QED
  BY <1>5, <1>6, <1>7, <1>8, <1>9, <1>10

LEMMA ProbedStep == ASSUME IInv, NEW c \in Calls, Probed(c) PROVE IInv'
<1>1. Types'
  BY Constants DEF IInv, Probed, SendStart, Dispatched, Settled, history, Types, Held, Seq_,
       Lease, PCs, Requests, Kinds, None, Closed
<1>2. Wire'
  BY Constants DEF IInv, Probed, SendStart, Dispatched, Settled, history, Types, Wire, Seq_,
       Held, None
<1>3. Fresh'
  BY Constants DEF IInv, Probed, SendStart, Dispatched, Settled, history, Types, Wire,
       Fresh, Seq_, Lease, Closed, Held, None
<1>4. Openers'
  BY Constants DEF IInv, Probed, SendStart, Dispatched, Settled, history, Types, Wire,
       Fresh, Openers, Opener, Settled, Lease, Closed, Held, None
<1>5. Executing'
  BY Constants DEF IInv, Probed, SendStart, Dispatched, Settled, history, Types, Wire,
       Fresh, Executing, Under, Seq_, Lease, Closed
<1>6. Frames'
  BY Constants DEF IInv, Probed, SendStart, Dispatched, Settled, history, Types, Wire,
       Fresh, Executing, Frames, Under, Seq_, Lease, Closed, Kinds
<1>7. Called'
  BY Constants DEF IInv, Probed, SendStart, Dispatched, Settled, history, Types, Wire,
       Called, Seq_, Held, None
<1>8. Counted'
  BY Constants DEF IInv, Probed, SendStart, Dispatched, Settled, history, Types, Wire,
       Fresh, Counted, Live, InStep, Settled, Under, Seq_, Held, Lease, Closed, None
<1> QED
  BY <1>1, <1>2, <1>3, <1>4, <1>5, <1>6, <1>7, <1>8 DEF IInv

LEMMA OpenedStep == ASSUME IInv, NEW c \in Calls, Opened(c) PROVE IInv'
<1> DEFINE l == [id |-> c, next |-> node[c].last + 1, inFlight |-> 0]
<1>1. /\ Types /\ Settled /\ pc[c] = "opens" /\ start[c] = "ok"
      /\ start' = [start EXCEPT ![c] = "none"]
      /\ UNCHANGED <<via, status, op, node, stops, faults, cut, late>>
  BY DEF IInv, Opened
<1>2. /\ start' \in [Calls -> Requests] /\ start'[c] = "none"
      /\ \A x \in Calls \ {c} : start'[x] = start[x]
  BY <1>1 DEF Types, Requests
<1>3. /\ act[c] = "none" /\ lease.id # c /\ (\A x \in Calls : seq[x].lease # c)
      /\ node[c].last \in Nat /\ NoLease \notin Calls
      /\ None.id = NoLease /\ None.inFlight = 0
  BY <1>1, Constants DEF IInv, Wire, Fresh, Types, Lease, None
<1>4. status = "active" => \A x \in Calls : pc[x] # "acts" /\ act[x] = "none"
  <2>1. ASSUME status = "active", NEW x \in Calls, pc[x] = "acts" PROVE FALSE
    <3>1. lease.id = seq[x].lease /\ seq[x].lease \in Calls
      BY <1>1, <2>1 DEF IInv, Wire, Counted, Live
    <3>2. Opener(lease.id) /\ Opener(c)
      BY <1>1, <3>1 DEF Opener
    <3> QED
      BY <1>3, <3>1, <3>2 DEF IInv, Openers
  <2> QED
    BY <1>1, <2>1 DEF IInv, Counted, Live, Wire, Settled
<1>5. /\ l \in Held /\ l.id = c /\ l.next = node[c].last + 1 /\ l.next # 0 /\ l.inFlight = 0
      /\ l.next \in Nat
  BY <1>3 DEF Held
<1>6. ends' \subseteq [lease : Calls, at : {"queued", "sent"}]
  BY <1>1 DEF Types, Opened, Dispatched
<1>7. \/ status = "active" /\ opening' = FALSE /\ Sent(c, l) /\ WokenTo(c, "acts") /\ UNCHANGED <<ends, abandoned>>
      \/ status = "over" /\ Moved(c, "ends") /\ UNCHANGED <<opening, lease, seq, act, abandoned>>
  <2>1. CASE StillApproved /\ opening' = FALSE /\ SendAction(c, l) /\ pc' = Woken(c, "acts")
             /\ UNCHANGED <<ends, abandoned>>
    <3>1. "acts" \in PCs
      BY DEF PCs
    <3> HIDE DEF l
    <3> QED
      BY <1>1, <1>5, <2>1, <3>1, Sends, Wakes DEF StillApproved
  <2>2. CASE ~StillApproved /\ pc' = [pc EXCEPT ![c] = "ends"]
             /\ UNCHANGED <<opening, lease, seq, act, abandoned>>
    BY <1>1, <2>2, Moves DEF StillApproved, Types, PCs
  <2> QED
    BY <2>1, <2>2 DEF Opened
<1> HIDE DEF l
<1>8. CASE status = "active" /\ opening' = FALSE /\ Sent(c, l) /\ WokenTo(c, "acts") /\ UNCHANGED <<ends, abandoned>>
  <2>1. Types'
    BY <1>1, <1>2, <1>3, <1>4, <1>5, <1>6, <1>8, Constants DEF IInv, Sent, WokenTo, Types
  <2>2. Wire'
    BY <1>1, <1>2, <1>3, <1>4, <1>5, <1>6, <1>8, Constants DEF IInv, Sent, WokenTo, Types, Wire
  <2>3. Fresh'
    BY <1>1, <1>2, <1>3, <1>4, <1>5, <1>6, <1>8, Constants DEF IInv, Sent, WokenTo, Types,
         Wire, Fresh, Closed
  <2>4. Openers'
    BY <1>1, <1>2, <1>3, <1>4, <1>5, <1>6, <1>8, Constants DEF IInv, Sent, WokenTo, Types,
         Wire, Fresh, Openers, Opener, Settled, Closed
  <2>5. Executing'
    BY <1>1, <1>2, <1>3, <1>4, <1>5, <1>6, <1>8, Constants DEF IInv, Sent, WokenTo, Types,
         Wire, Fresh, Executing, Under, Closed
  <2>6. Frames'
    BY <1>1, <1>2, <1>3, <1>4, <1>5, <1>6, <1>8, Constants DEF IInv, Sent, WokenTo, Types,
         Wire, Fresh, Executing, Frames, Under, Kinds
  <2>7. Called'
    BY <1>1, <1>2, <1>3, <1>4, <1>5, <1>6, <1>8, Constants DEF IInv, Sent, WokenTo, Types,
         Wire, Called
  <2>8. Counted'
    BY <1>1, <1>2, <1>3, <1>4, <1>5, <1>6, <1>8, Constants DEF IInv, Sent, WokenTo, Types,
         Wire, Fresh, Counted, Live, InStep, Settled, Under
  <2> QED
    BY <2>1, <2>2, <2>3, <2>4, <2>5, <2>6, <2>7, <2>8 DEF IInv
<1>9. CASE status = "over" /\ Moved(c, "ends") /\ UNCHANGED <<opening, lease, seq, act, abandoned>>
  <2>1. Types'
    BY <1>1, <1>2, <1>3, <1>4, <1>5, <1>6, <1>9, Constants DEF IInv, Moved, Types
  <2>2. Wire'
    BY <1>1, <1>2, <1>3, <1>4, <1>5, <1>6, <1>9, Constants DEF IInv, Moved, Types, Wire
  <2>3. Fresh'
    BY <1>1, <1>2, <1>3, <1>4, <1>5, <1>6, <1>9, Constants DEF IInv, Moved, Types, Wire,
         Fresh, Closed
  <2>4. Openers'
    BY <1>1, <1>2, <1>3, <1>4, <1>5, <1>6, <1>9, Constants DEF IInv, Moved, Types, Wire,
         Fresh, Openers, Opener, Settled, Closed
  <2>5. Executing'
    BY <1>1, <1>2, <1>3, <1>4, <1>5, <1>6, <1>9, Constants DEF IInv, Moved, Types, Wire,
         Fresh, Executing, Under, Closed
  <2>6. Frames'
    BY <1>1, <1>2, <1>3, <1>4, <1>5, <1>6, <1>9, Constants DEF IInv, Moved, Types, Wire,
         Fresh, Executing, Frames, Under, Kinds
  <2>7. Called'
    BY <1>1, <1>2, <1>3, <1>4, <1>5, <1>6, <1>9, Constants DEF IInv, Moved, Types, Wire, Called
  <2>8. Counted'
    BY <1>1, <1>2, <1>3, <1>4, <1>5, <1>6, <1>9, Constants DEF IInv, Moved, Types, Wire,
         Fresh, Counted, Live, InStep, Settled, Under
  <2> QED
    BY <2>1, <2>2, <2>3, <2>4, <2>5, <2>6, <2>7, <2>8 DEF IInv
<1> QED
  BY <1>7, <1>8, <1>9

LEMMA OpeningFailsStep == ASSUME IInv, NEW c \in Calls, OpeningFails(c) PROVE IInv'
<1>1. Types'
  BY Constants DEF IInv, OpeningFails, Woken, Settled, wireVars, history, Types, Held, Seq_,
       Lease, PCs, Requests, Kinds, None, Closed
<1>2. Wire'
  BY Constants DEF IInv, OpeningFails, Woken, Settled, wireVars, history, Types, Wire, Seq_,
       Held, None
<1>3. Fresh'
  BY Constants DEF IInv, OpeningFails, Woken, Settled, wireVars, history, Types, Wire,
       Fresh, Seq_, Lease, Closed, Held, None
<1>4. Openers'
  BY Constants DEF IInv, OpeningFails, Woken, Settled, wireVars, history, Types, Wire,
       Fresh, Openers, Opener, Settled, Lease, Closed, Held, None
<1>5. Executing'
  BY Constants DEF IInv, OpeningFails, Woken, Settled, wireVars, history, Types, Wire,
       Fresh, Executing, Under, Seq_, Lease, Closed
<1>6. Frames'
  BY Constants DEF IInv, OpeningFails, Woken, Settled, wireVars, history, Types, Wire,
       Fresh, Executing, Frames, Under, Seq_, Lease, Closed, Kinds
<1>7. Called'
  BY Constants DEF IInv, OpeningFails, Woken, Settled, wireVars, history, Types, Wire,
       Called, Seq_, Held, None
<1>8. Counted'
  BY Constants DEF IInv, OpeningFails, Woken, Settled, wireVars, history, Types, Wire,
       Fresh, Counted, Live, InStep, Settled, Under, Seq_, Held, Lease, Closed, None
<1> QED
  BY <1>1, <1>2, <1>3, <1>4, <1>5, <1>6, <1>7, <1>8 DEF IInv

LEMMA ReturnedStep == ASSUME IInv, NEW c \in Calls, Returned(c) PROVE IInv'
<1>1. /\ Types /\ Settled /\ pc[c] = "acts" /\ act[c] \in {"ok", "failed", "refused"}
      /\ act' = [act EXCEPT ![c] = "none"]
      /\ UNCHANGED <<via, status, opening, op, seq, start, ends, node,
                     stops, faults, cut, late, abandoned>>
  BY DEF IInv, Returned, history, Answered
<1>2. /\ act' \in [Calls -> Requests] /\ act'[c] = "none"
      /\ \A x \in Calls \ {c} : act'[x] = act[x]
  BY <1>1 DEF Types, Requests
<1>3. /\ pc' \in [Calls -> PCs] /\ pc'[c] \in {"done", "fails"}
      /\ \A x \in Calls \ {c} : pc'[x] = pc[x]
  BY <1>1 DEF Types, PCs, Returned
<1>4. Settles(c, act[c] \in {"ok", "failed"})
  <2>1. Consumed(c) \in BOOLEAN
    BY DEF Consumed
  <2>2. lease' = IF lease.id = seq[c].lease
                 THEN Advanced(lease, seq[c].n, Consumed(c)) ELSE lease
    BY DEF Returned
  <2>3. Settles(c, Consumed(c))
    BY <1>1, <2>1, <2>2, Advances
  <2> QED
    BY <2>3 DEF Consumed
<1>5. /\ seq[c].lease \in Calls /\ NoLease \notin Calls /\ None.id = NoLease
      /\ lease # None => lease.id \in Calls
      /\ lease.next \in Nat /\ lease.inFlight \in Nat
  BY <1>1, Constants DEF IInv, Wire, Types, Held, None
<1>6. (lease = None => lease' = None) /\ (lease # None => lease' # None /\ lease'.id \in Calls)
  BY <1>4, <1>5 DEF Settles
<1>21. Types'
  BY <1>1, <1>2, <1>3, <1>4, <1>5, <1>6, Constants DEF IInv, Settles, Types
<1>22. Wire'
  BY <1>1, <1>2, <1>3, <1>4, <1>5, <1>6, Constants DEF IInv, Settles, Types, Wire
<1>23. Fresh'
  BY <1>1, <1>2, <1>3, <1>4, <1>5, <1>6, Constants DEF IInv, Settles, Types, Wire, Fresh, Closed
<1>24. Openers'
  BY <1>1, <1>2, <1>3, <1>4, <1>5, <1>6, Constants DEF IInv, Settles, Types, Wire, Fresh,
       Openers, Opener, Settled, Closed
<1>25. Executing'
  BY <1>1, <1>2, <1>3, <1>4, <1>5, <1>6, Constants DEF IInv, Settles, Types, Wire, Fresh,
       Executing, Under, Closed
<1>26. Frames'
  BY <1>1, <1>2, <1>3, <1>4, <1>5, <1>6, Constants DEF IInv, Settles, Types, Wire, Fresh,
       Executing, Frames, Under, Kinds
<1>27. Called'
  BY <1>1, <1>2, <1>3, <1>4, <1>5, <1>6, Constants DEF IInv, Settles, Types, Wire, Called
<1>28. Counted'
  BY <1>1, <1>2, <1>3, <1>4, <1>5, <1>6, Constants DEF IInv, Settles, Types, Wire, Fresh,
       Counted, Live, InStep, Settled, Under
<1> QED
  BY <1>21, <1>22, <1>23, <1>24, <1>25, <1>26, <1>27, <1>28 DEF IInv

LEMMA TimesOutStep == ASSUME IInv, NEW c \in Calls, TimesOut(c) PROVE IInv'
<1> DEFINE used == via = "relay" /\ act[c] # "queued"
<1>1. /\ Types /\ Settled /\ faults' \in 0 .. MaxFaults /\ abandoned' \subseteq Calls
      /\ UNCHANGED <<via, status, op, seq, ends, node, stops, cut, late>>
  <2>1. Types /\ Settled /\ faults \in 0 .. MaxFaults /\ faults < MaxFaults /\ faults' = faults + 1
    BY DEF IInv, TimesOut, Fault, Types
  <2>2. abandoned' \subseteq Calls
    BY DEF IInv, Types, TimesOut
  <2> QED
    BY <2>1, <2>2, Constants DEF TimesOut
<1>2. /\ lease.next \in Nat /\ lease.inFlight \in Nat /\ NoLease \notin Calls /\ None.id = NoLease
      /\ lease # None => lease.id \in Calls
  BY <1>1, Constants DEF Types, Held, None
<1>3. \/ /\ pc[c] = "acts" /\ Moved(c, "fails") /\ Settles(c, used) /\ act' \in [Calls -> Requests]
           /\ act'[c] = Gone(act[c]) /\ (\A x \in Calls \ {c} : act'[x] = act[x])
           /\ UNCHANGED <<opening, start>>
      \/ /\ pc[c] = "opens" /\ WokenTo(c, "fails") /\ opening' = FALSE /\ start' \in [Calls -> Requests]
           /\ start'[c] \in {start[c], "none"} /\ (\A x \in Calls \ {c} : start'[x] = start[x])
           /\ UNCHANGED <<lease, act>>
  <2>1. "fails" \in PCs /\ \A r \in Requests : Gone(r) \in Requests /\ Gone(r) \in {r, "none"}
    BY DEF PCs, Gone, Requests
  <2>2. CASE /\ pc[c] = "acts" /\ pc' = [pc EXCEPT ![c] = "fails"]
             /\ act' = [act EXCEPT ![c] = Gone(@)]
             /\ lease' = IF lease.id = seq[c].lease
                         THEN Advanced(lease, seq[c].n, used) ELSE lease
             /\ UNCHANGED <<opening, start, abandoned>>
    <3>1. used \in BOOLEAN
      OBVIOUS
    <3>3. Moved(c, "fails") /\ Settles(c, used)
      BY <1>1, <2>1, <2>2, <3>1, Moves, Advances
    <3>2. act' \in [Calls -> Requests] /\ act'[c] = Gone(act[c])
          /\ \A x \in Calls \ {c} : act'[x] = act[x]
      BY <1>1, <2>1, <2>2 DEF Types
    <3> QED
      BY <2>2, <3>2, <3>3
  <2>3. CASE /\ pc[c] = "opens" /\ opening' = FALSE /\ pc' = Woken(c, "fails")
             /\ start' = [start EXCEPT ![c] = Gone(@)]
             /\ UNCHANGED <<lease, act>>
    <3>1. WokenTo(c, "fails")
      BY <1>1, <2>1, <2>3, Wakes
    <3>2. start' \in [Calls -> Requests] /\ start'[c] \in {start[c], "none"}
          /\ \A x \in Calls \ {c} : start'[x] = start[x]
      BY <1>1, <2>1, <2>3 DEF Types
    <3> QED
      BY <2>3, <3>1, <3>2
  <2> QED
    BY <2>2, <2>3 DEF TimesOut
<1>4. pc[c] = "acts" /\ Settles(c, used) =>
        (lease = None => lease' = None) /\ (lease # None => lease' # None /\ lease'.id \in Calls)
  <2>1. pc[c] = "acts" => seq[c].lease \in Calls
    BY DEF IInv, Wire
  <2> QED
    BY <1>2, <2>1 DEF Settles
<1>5. CASE /\ pc[c] = "acts" /\ Moved(c, "fails") /\ Settles(c, used) /\ act' \in [Calls -> Requests]
           /\ act'[c] = Gone(act[c]) /\ (\A x \in Calls \ {c} : act'[x] = act[x])
           /\ UNCHANGED <<opening, start>>
  <2>1. Types'
    BY <1>1, <1>2, <1>4, <1>5, Constants DEF IInv, Moved, Settles, Gone, Types
  <2>2. Wire'
    BY <1>1, <1>2, <1>4, <1>5, Constants DEF IInv, Moved, Settles, Gone, Types, Wire
  <2>3. Fresh'
    BY <1>1, <1>2, <1>4, <1>5, Constants DEF IInv, Moved, Settles, Gone, Types, Wire, Fresh, Closed
  <2>4. Openers'
    BY <1>1, <1>2, <1>4, <1>5, Constants DEF IInv, Moved, Settles, Gone, Types, Wire, Fresh,
         Openers, Opener, Settled, Closed
  <2>5. Executing'
    BY <1>1, <1>2, <1>4, <1>5, Constants DEF IInv, Moved, Settles, Gone, Types, Wire, Fresh,
         Executing, Under, Closed
  <2>6. Frames'
    BY <1>1, <1>2, <1>4, <1>5, Constants DEF IInv, Moved, Settles, Gone, Types, Wire, Fresh,
         Executing, Frames, Under, Kinds
  <2>7. Called'
    BY <1>1, <1>2, <1>4, <1>5, Constants DEF IInv, Moved, Settles, Gone, Types, Wire, Called
  <2>8. Counted'
    BY <1>1, <1>2, <1>4, <1>5, Constants DEF IInv, Moved, Settles, Gone, Types, Wire, Fresh,
         Counted, Live, InStep, Settled, Under
  <2> QED
    BY <2>1, <2>2, <2>3, <2>4, <2>5, <2>6, <2>7, <2>8 DEF IInv
<1>6. CASE /\ pc[c] = "opens" /\ WokenTo(c, "fails") /\ opening' = FALSE /\ start' \in [Calls -> Requests]
           /\ start'[c] \in {start[c], "none"} /\ (\A x \in Calls \ {c} : start'[x] = start[x])
           /\ UNCHANGED <<lease, act>>
  <2>1. Types'
    BY <1>1, <1>2, <1>4, <1>6, Constants DEF IInv, WokenTo, Types
  <2>2. Wire'
    BY <1>1, <1>2, <1>4, <1>6, Constants DEF IInv, WokenTo, Types, Wire
  <2>3. Fresh'
    BY <1>1, <1>2, <1>4, <1>6, Constants DEF IInv, WokenTo, Types, Wire, Fresh, Closed
  <2>4. Openers'
    BY <1>1, <1>2, <1>4, <1>6, Constants DEF IInv, WokenTo, Types, Wire, Fresh, Openers,
         Opener, Settled, Closed
  <2>5. Executing'
    BY <1>1, <1>2, <1>4, <1>6, Constants DEF IInv, WokenTo, Types, Wire, Fresh, Executing,
         Under, Closed
  <2>6. Frames'
    BY <1>1, <1>2, <1>4, <1>6, Constants DEF IInv, WokenTo, Types, Wire, Fresh, Executing,
         Frames, Under, Kinds
  <2>7. Called'
    BY <1>1, <1>2, <1>4, <1>6, Constants DEF IInv, WokenTo, Types, Wire, Called
  <2>8. Counted'
    BY <1>1, <1>2, <1>4, <1>6, Constants DEF IInv, WokenTo, Types, Wire, Fresh, Counted, Live, InStep,
         Settled, Under
  <2> QED
    BY <2>1, <2>2, <2>3, <2>4, <2>5, <2>6, <2>7, <2>8 DEF IInv
<1> QED
  BY <1>3, <1>5, <1>6

LEMMA AbortSessionStep ==
  ASSUME IInv, NEW k \in Calls \cup {NoLease}, AbortSession(k), stops' \in 0 .. MaxStops
  PROVE  IInv'
<1>1. /\ Types /\ status' = "over" /\ lease' = None
      /\ UNCHANGED <<via, op, seq, late>>
  BY DEF IInv, AbortSession
<1>2. /\ None \in Held /\ None.id = NoLease /\ None.next # 0 /\ None.inFlight = 0
      /\ NoLease \notin Calls
  BY Constants DEF None, Held
<1>3. pc' \in [Calls -> PCs] /\ \A x \in Calls : pc'[x] \in {pc[x], "done", "fails"}
  BY <1>1 DEF AbortSession, Types, PCs
<1>4. \A r \in Requests : Gone(r) \in Requests /\ Gone(r) \in {r, "none"}
  BY DEF Gone, Requests
<1>5. /\ start' \in [Calls -> Requests] /\ \A x \in Calls : start'[x] \in {start[x], "none"}
  BY <1>1, <1>4 DEF AbortSession, Types
<1>6. /\ act' \in [Calls -> Requests] /\ \A x \in Calls : act'[x] \in {act[x], "none"}
      /\ \A x \in Calls : pc'[x] = "acts" => act'[x] = act[x]
  <2>1. act' \in [Calls -> Requests] /\ \A x \in Calls : act'[x] \in {act[x], "none"}
    BY <1>1, <1>4 DEF AbortSession, Types
  <2>2. \A x \in Calls : pc'[x] = "acts" => ~Rejected(x)
    BY <1>1 DEF AbortSession, Types
  <2> QED
    BY <2>1, <2>2 DEF AbortSession
<1>7. /\ CutLocally \subseteq Calls /\ \A x \in CutLocally : node[x].open
      /\ (via # "local" => CutLocally = {})
      /\ cut' = cut \cup CutLocally
  BY DEF CutLocally, AbortSession
<1>8. /\ node' \in [Calls -> Lease]
      /\ \A x \in Calls \ CutLocally : node'[x] = node[x]
      /\ \A x \in Calls : node'[x].executing = node[x].executing /\ (node'[x].open => node[x].open)
      /\ \A x \in CutLocally : ~node'[x].open
  <2>1. ASSUME NEW x \in Calls
        PROVE  Cut(x) = [open |-> FALSE, last |-> node[x].last, framed |-> node[x].framed,
                         executing |-> node[x].executing]
    BY <1>1, LeaseFields, LeaseEdits DEF Cut
  <2>2. ASSUME NEW x \in Calls
        PROVE  node[x] \in Lease /\ Cut(x) \in Lease /\ Cut(x).open = FALSE
               /\ Cut(x).executing = node[x].executing
    <3>1. /\ node[x] \in Lease /\ node[x].last \in Nat
          /\ node[x].framed \in BOOLEAN /\ node[x].executing \in BOOLEAN
      BY <1>1, LeaseFields
    <3>2. [open |-> FALSE, last |-> node[x].last, framed |-> node[x].framed,
           executing |-> node[x].executing] \in Lease
      BY <3>1 DEF Lease
    <3> HIDE DEF Cut
    <3>3. Cut(x).open = FALSE /\ Cut(x).executing = node[x].executing
      BY <2>1
    <3> QED
      BY <2>1, <3>1, <3>2, <3>3
  <2>3. node' = [l \in Calls |-> IF l \in CutLocally THEN Cut(l) ELSE node[l]]
    BY DEF AbortSession
  <2> HIDE DEF Cut, CutLocally
  <2> QED
    BY <1>7, <2>2, <2>3
<1>9. opening' \in BOOLEAN
  BY DEF AbortSession
<1>10. /\ ends' \subseteq [lease : Calls, at : {"queued", "sent"}]
       /\ abandoned' \subseteq Calls /\ faults' \in 0 .. MaxFaults
  <2>1. lease # None => lease.id \in Calls
    BY <1>1 DEF Types
  <2>2. Fault => faults' \in 0 .. MaxFaults
    BY <1>1, Constants DEF Types, Fault
  <2>3. ends' \subseteq [lease : Calls, at : {"queued", "sent"}]
    BY <1>1, <2>1 DEF AbortSession, Types, Dispatched
  <2>4. abandoned' \subseteq Calls
    BY <1>1, <2>1 DEF AbortSession, Types
  <2>5. faults' \in 0 .. MaxFaults
    BY <1>1, <2>2 DEF AbortSession, Types
  <2> QED
    BY <2>3, <2>4, <2>5
<1>21. Types'
  BY <1>1, <1>2, <1>3, <1>5, <1>6, <1>7, <1>8, <1>9, <1>10, Constants DEF IInv, Types
<1>22. Wire'
  BY <1>1, <1>2, <1>3, <1>5, <1>6, <1>7, <1>8, <1>9, <1>10, Constants DEF IInv, Types, Wire
<1>23. Fresh'
  BY <1>1, <1>2, <1>3, <1>5, <1>6, <1>7, <1>8, <1>9, <1>10, Constants DEF IInv, Types, Wire,
       Fresh, Closed
<1>24. Openers'
  BY <1>1, <1>2, <1>3, <1>5, <1>6, <1>7, <1>8, <1>9, <1>10, Constants DEF IInv, Types, Wire,
       Fresh, Openers, Opener, Settled, Closed
<1>25. Executing'
  BY <1>1, <1>2, <1>3, <1>5, <1>6, <1>7, <1>8, <1>9, <1>10, Constants DEF IInv, Types, Wire,
       Fresh, Executing, Under, Closed
<1>26. Frames'
  BY <1>1, <1>2, <1>3, <1>5, <1>6, <1>7, <1>8, <1>9, <1>10, Constants DEF IInv, Types, Wire,
       Fresh, Executing, Frames, Under, Kinds
<1>27. Called'
  BY <1>1, <1>2, <1>3, <1>5, <1>6, <1>7, <1>8, <1>9, <1>10, Constants DEF IInv, Types, Wire,
       Called
<1>28. Counted'
  BY <1>1, <1>2, <1>3, <1>5, <1>6, <1>7, <1>8, <1>9, <1>10, Constants DEF IInv, Types, Wire,
       Fresh, Counted, Live, InStep, Settled, Under
<1> QED
  BY <1>21, <1>22, <1>23, <1>24, <1>25, <1>26, <1>27, <1>28 DEF IInv

LEMMA ExpiresStep == ASSUME IInv, Expires PROVE IInv'
<1>1. Types'
  BY Constants DEF IInv, Expires, Fault, Settled, wireVars, Types, Held, Seq_, Lease, PCs,
       Requests, Kinds, None, Closed
<1>2. Wire'
  BY Constants DEF IInv, Expires, Fault, Settled, wireVars, Types, Wire, Seq_, Held, None
<1>3. Fresh'
  BY Constants DEF IInv, Expires, Fault, Settled, wireVars, Types, Wire, Fresh, Seq_, Lease,
       Closed, Held, None
<1>4. Openers'
  BY Constants DEF IInv, Expires, Fault, Settled, wireVars, Types, Wire, Fresh, Openers,
       Opener, Settled, Lease, Closed, Held, None
<1>5. Executing'
  BY Constants DEF IInv, Expires, Fault, Settled, wireVars, Types, Wire, Fresh, Executing,
       Under, Seq_, Lease, Closed
<1>6. Frames'
  BY Constants DEF IInv, Expires, Fault, Settled, wireVars, Types, Wire, Fresh, Executing,
       Frames, Under, Seq_, Lease, Closed, Kinds
<1>7. Called'
  BY Constants DEF IInv, Expires, Fault, Settled, wireVars, Types, Wire, Called, Seq_, Held,
       None
<1>8. Counted'
  BY Constants DEF IInv, Expires, Fault, Settled, wireVars, Types, Wire, Fresh, Counted, Live, InStep,
       Settled, Under, Seq_, Held, Lease, Closed, None
<1> QED
  BY <1>1, <1>2, <1>3, <1>4, <1>5, <1>6, <1>7, <1>8 DEF IInv

LEMMA MainRestartsStep == ASSUME IInv, MainRestarts PROVE IInv'
<1>1. /\ Types /\ Settled /\ status' = "over" /\ lease' = None /\ opening' = FALSE
      /\ faults < MaxFaults /\ faults' = faults + 1 /\ abandoned' = Calls
      /\ UNCHANGED <<via, op, seq, node, stops, cut, late>>
  BY DEF IInv, MainRestarts, Fault
<1>2. /\ None \in Held /\ None.id = NoLease /\ None.next # 0 /\ None.inFlight = 0
      /\ NoLease \notin Calls
  BY Constants DEF None, Held
<1>3. pc' \in [Calls -> PCs] /\ \A x \in Calls : pc'[x] = "done"
  BY DEF MainRestarts, PCs
<1>4. \A r \in Requests : Gone(r) \in Requests /\ Gone(r) \in {r, "none"}
  BY DEF Gone, Requests
<1>5. /\ start' \in [Calls -> Requests] /\ \A x \in Calls : start'[x] \in {start[x], "none"}
      /\ act' \in [Calls -> Requests] /\ \A x \in Calls : act'[x] \in {act[x], "none"}
  BY <1>1, <1>4 DEF MainRestarts, Types
<1>6. ends' \subseteq ends /\ faults' \in 0 .. MaxFaults
  BY <1>1, Constants DEF MainRestarts, Types
<1>21. Types'
  BY <1>1, <1>2, <1>3, <1>5, <1>6, Constants DEF IInv, Types
<1>22. Wire'
  BY <1>1, <1>2, <1>3, <1>5, <1>6, Constants DEF IInv, Types, Wire
<1>23. Fresh'
  BY <1>1, <1>2, <1>3, <1>5, <1>6, Constants DEF IInv, Types, Wire, Fresh, Closed
<1>24. Openers'
  BY <1>1, <1>2, <1>3, <1>5, <1>6, Constants DEF IInv, Types, Wire, Fresh, Openers, Opener,
       Settled, Closed
<1>25. Executing'
  BY <1>1, <1>2, <1>3, <1>5, <1>6, Constants DEF IInv, Types, Wire, Fresh, Executing, Under,
       Closed
<1>26. Frames'
  BY <1>1, <1>2, <1>3, <1>5, <1>6, Constants DEF IInv, Types, Wire, Fresh, Executing,
       Frames, Under, Kinds
<1>27. Called'
  BY <1>1, <1>2, <1>3, <1>5, <1>6, Constants DEF IInv, Types, Wire, Called
<1>28. Counted'
  BY <1>1, <1>2, <1>3, <1>5, <1>6, Constants DEF IInv, Types, Wire, Fresh, Counted, Live, InStep, Settled,
       Under
<1> QED
  BY <1>21, <1>22, <1>23, <1>24, <1>25, <1>26, <1>27, <1>28 DEF IInv

LEMMA DeliversStep == ASSUME IInv, Delivers PROVE IInv'
<1>1. Types'
  BY Constants DEF IInv, Delivers, mainVars, history, Types, Held, Seq_, Lease, PCs,
       Requests, Kinds, None, Closed
<1>2. Wire'
  BY Constants DEF IInv, Delivers, mainVars, history, Types, Wire, Seq_, Held, None
<1>3. Fresh'
  BY Constants DEF IInv, Delivers, mainVars, history, Types, Wire, Fresh, Seq_, Lease,
       Closed, Held, None
<1>4. Openers'
  BY Constants DEF IInv, Delivers, mainVars, history, Types, Wire, Fresh, Openers, Opener,
       Settled, Lease, Closed, Held, None
<1>5. Executing'
  BY Constants DEF IInv, Delivers, mainVars, history, Types, Wire, Fresh, Executing, Under,
       Seq_, Lease, Closed
<1>6. Frames'
  BY Constants DEF IInv, Delivers, mainVars, history, Types, Wire, Fresh, Executing, Frames,
       Under, Seq_, Lease, Closed, Kinds
<1>7. Called'
  BY Constants DEF IInv, Delivers, mainVars, history, Types, Wire, Called, Seq_, Held, None
<1>8. Counted'
  BY Constants DEF IInv, Delivers, mainVars, history, Types, Wire, Fresh, Counted, Live, InStep, Settled,
       Under, Seq_, Held, Lease, Closed, None
<1> QED
  BY <1>1, <1>2, <1>3, <1>4, <1>5, <1>6, <1>7, <1>8 DEF IInv

LEMMA StartsLeaseStep == ASSUME IInv, NEW c \in Calls, StartsLease(c) PROVE IInv'
<1>1. Types'
  BY Constants DEF IInv, StartsLease, mainVars, history, Types, Held, Seq_, Lease, PCs,
       Requests, Kinds, None, Closed
<1>2. Wire'
  BY Constants DEF IInv, StartsLease, mainVars, history, Types, Wire, Seq_, Held, None
<1>3. Fresh'
  BY Constants DEF IInv, StartsLease, mainVars, history, Types, Wire, Fresh, Seq_, Lease,
       Closed, Held, None
<1>4. Openers'
  BY Constants DEF IInv, StartsLease, mainVars, history, Types, Wire, Fresh, Openers,
       Opener, Settled, Lease, Closed, Held, None
<1>5. Executing'
  BY Constants DEF IInv, StartsLease, mainVars, history, Types, Wire, Fresh, Executing,
       Under, Seq_, Lease, Closed
<1>6. Frames'
  BY Constants DEF IInv, StartsLease, mainVars, history, Types, Wire, Fresh, Executing,
       Frames, Under, Seq_, Lease, Closed, Kinds
<1>7. Called'
  BY Constants DEF IInv, StartsLease, mainVars, history, Types, Wire, Called, Seq_, Held, None
<1>8. Counted'
  BY Constants DEF IInv, StartsLease, mainVars, history, Types, Wire, Fresh, Counted, Live, InStep,
       Settled, Under, Seq_, Held, Lease, Closed, None
<1> QED
  BY <1>1, <1>2, <1>3, <1>4, <1>5, <1>6, <1>7, <1>8 DEF IInv

LEMMA LeaseMadeStep == ASSUME IInv, NEW c \in Calls, LeaseMade(c) PROVE IInv'
<1> DEFINE r == [open |-> TRUE, last |-> 0, framed |-> FALSE, executing |-> FALSE]
<1>1. /\ Types /\ start[c] = "inspects" /\ node[c] = Closed /\ c \notin cut
      /\ UNCHANGED <<via, status, lease, opening, pc, op, seq, act, ends,
                     stops, cut, late, abandoned>>
      /\ pc[c] \in {"opens", "fails", "done"}
      /\ lease.id # c /\ \A x \in Calls : seq[x].lease # c
  BY DEF IInv, LeaseMade, mainVars, Wire, Types, Fresh
<1>2. \/ /\ start' = [start EXCEPT ![c] = "ok"] /\ node' = [node EXCEPT ![c] = r]
         /\ UNCHANGED faults
      \/ start' = [start EXCEPT ![c] = "refused"] /\ node' = node /\ faults' \in 0 .. MaxFaults
  <2>1. [Closed EXCEPT !.open = TRUE] = r
    <3>1. Closed \in Lease /\ Closed.last = 0 /\ ~Closed.framed /\ ~Closed.executing
          /\ Closed.framed = FALSE /\ Closed.executing = FALSE
      BY DEF Closed, Lease
    <3> QED
      BY <3>1, LeaseEdits
  <2>2. Fault => faults' \in 0 .. MaxFaults
    BY <1>1, Constants DEF Fault, Types
  <2> HIDE DEF r
  <2> QED
    BY <2>1, <2>2 DEF LeaseMade
<1>3. r \in Lease /\ r.open /\ ~r.executing
  BY DEF Lease
<1> HIDE DEF r
<1>4. CASE /\ start' = [start EXCEPT ![c] = "ok"] /\ node' = [node EXCEPT ![c] = r]
           /\ UNCHANGED faults
  <2>0. /\ start' \in [Calls -> Requests] /\ start'[c] = "ok"
        /\ \A x \in Calls \ {c} : start'[x] = start[x]
        /\ LeaseSet(c, r)
    BY <1>1, <1>3, <1>4, LeaseEdit DEF Types, Requests
  <2>1. Types'
    BY <1>1, <1>3, <1>4, <2>0, Constants DEF IInv, LeaseSet, Types
  <2>2. Wire'
    BY <1>1, <1>3, <1>4, <2>0, Constants DEF IInv, LeaseSet, Types, Wire
  <2>3. Fresh'
    <3>1. ASSUME NEW x \in Calls
          PROVE  /\ pc'[x] \in {"idle", "probes"} \/ start'[x] \in {"queued", "sent", "inspects"}
                      => node'[x] = Closed /\ x \notin cut'
                 /\ lease'.id = x \/ (\E y \in Calls : seq'[y].lease = x)
                      => start'[x] = "none" /\ pc'[x] \notin {"idle", "probes", "opens"}
      <4>1. CASE x = c
        BY <1>1, <2>0, <4>1
      <4>2. CASE x # c
        BY <1>1, <2>0, <4>2 DEF IInv, Fresh, LeaseSet
      <4> QED
        BY <4>1, <4>2
    <3> QED
      BY <3>1 DEF Fresh
  <2>4. Openers'
    BY <1>1, <1>3, <1>4, <2>0, Constants DEF IInv, LeaseSet, Types, Wire, Fresh, Openers,
         Opener, Settled, Closed
  <2>5. Executing'
    BY <1>1, <1>3, <1>4, <2>0, Constants DEF IInv, LeaseSet, Types, Wire, Fresh, Executing,
         Under, Closed
  <2>6. Frames'
    BY <1>1, <1>3, <1>4, <2>0, Constants DEF IInv, LeaseSet, Types, Wire, Fresh, Executing,
         Frames, Under, Kinds
  <2>7. Called'
    BY <1>1, <1>3, <1>4, <2>0, Constants DEF IInv, LeaseSet, Types, Wire, Called
  <2>8. Counted'
    BY <1>1, <1>3, <1>4, <2>0, Constants DEF IInv, LeaseSet, Types, Wire, Fresh, Counted, Live, InStep,
         Settled, Under
  <2> QED
    BY <2>1, <2>2, <2>3, <2>4, <2>5, <2>6, <2>7, <2>8 DEF IInv
<1>5. CASE start' = [start EXCEPT ![c] = "refused"] /\ node' = node /\ faults' \in 0 .. MaxFaults
  <2>0. /\ start' \in [Calls -> Requests] /\ start'[c] = "refused"
        /\ \A x \in Calls \ {c} : start'[x] = start[x]
    BY <1>1, <1>5 DEF Types, Requests
  <2>1. Types'
    BY <1>1, <1>5, <2>0, Constants DEF IInv, Types
  <2>2. Wire'
    BY <1>1, <1>5, <2>0, Constants DEF IInv, Types, Wire
  <2>3. Fresh'
    BY <1>1, <1>5, <2>0, Constants DEF IInv, Types, Wire, Fresh, Closed
  <2>4. Openers'
    BY <1>1, <1>5, <2>0, Constants DEF IInv, Types, Wire, Fresh, Openers, Opener, Settled,
         Closed
  <2>5. Executing'
    BY <1>1, <1>5, <2>0, Constants DEF IInv, Types, Wire, Fresh, Executing, Under, Closed
  <2>6. Frames'
    BY <1>1, <1>5, <2>0, Constants DEF IInv, Types, Wire, Fresh, Executing, Frames, Under, Kinds
  <2>7. Called'
    BY <1>1, <1>5, <2>0, Constants DEF IInv, Types, Wire, Called
  <2>8. Counted'
    BY <1>1, <1>5, <2>0, Constants DEF IInv, Types, Wire, Fresh, Counted, Live, InStep, Settled, Under
  <2> QED
    BY <2>1, <2>2, <2>3, <2>4, <2>5, <2>6, <2>7, <2>8 DEF IInv
<1> QED
  BY <1>2, <1>4, <1>5

LEMMA EntersStep == ASSUME IInv, NEW c \in Calls, Enters(c) PROVE IInv'
<1> DEFINE l == seq[c].lease
           r == [open |-> node[l].open, last |-> seq[c].n, framed |-> node[l].framed,
                 executing |-> TRUE]
<1>1. /\ Types /\ act[c] = "sent" /\ l \in Calls /\ seq[c].n \in Nat
      /\ UNCHANGED <<via, status, lease, opening, pc, op, seq, start, ends,
                     stops, faults, cut, late, abandoned>>
  BY DEF IInv, Enters, mainVars, history, Wire, Types, Seq_
<1>2. \/ act' = [act EXCEPT ![c] = "refused"] /\ node' = node /\ ~Admits(l, seq[c].n)
      \/ /\ act' = [act EXCEPT ![c] = "inspects"] /\ node' = [node EXCEPT ![l] = r] /\ r \in Lease
         /\ node[l].open /\ seq[c].n = node[l].last + 1 /\ ~node[l].executing
  <2>1. CASE Admits(l, seq[c].n)
    BY <1>1, <2>1, LeaseFields DEF Enters, Admits, Types, Lease
  <2>2. CASE ~Admits(l, seq[c].n)
    BY <2>2 DEF Enters
  <2> QED
    BY <2>1, <2>2
<1>3. r.open = node[l].open /\ r.last = seq[c].n /\ r.executing = TRUE
      /\ r.framed = node[l].framed
  OBVIOUS
<1> HIDE DEF r, l
<1>4. CASE act' = [act EXCEPT ![c] = "refused"] /\ node' = node /\ ~Admits(l, seq[c].n)
  <2>0. /\ act' \in [Calls -> Requests] /\ act'[c] = "refused"
        /\ \A x \in Calls \ {c} : act'[x] = act[x]
    BY <1>1, <1>4 DEF Types, Requests
  <2>1. Types'
    BY <1>1, <1>4, <2>0, Constants DEF IInv, Admits, l, Types
  <2>2. Wire'
    BY <1>1, <1>4, <2>0, Constants DEF IInv, Admits, l, Types, Wire
  <2>3. Fresh'
    BY <1>1, <1>4, <2>0, Constants DEF IInv, Admits, l, Types, Wire, Fresh, Closed
  <2>4. Openers'
    BY <1>1, <1>4, <2>0, Constants DEF IInv, Admits, l, Types, Wire, Fresh, Openers, Opener,
         Settled, Closed
  <2>5. Executing'
    BY <1>1, <1>4, <2>0, Constants DEF IInv, Admits, l, Types, Wire, Fresh, Executing,
         Under, Closed
  <2>6. Frames'
    BY <1>1, <1>4, <2>0, Constants DEF IInv, Admits, l, Types, Wire, Fresh, Executing,
         Frames, Under, Kinds
  <2>7. Called'
    BY <1>1, <1>4, <2>0, Constants DEF IInv, Admits, l, Types, Wire, Called
  <2>8. Counted'
    BY <1>1, <1>4, <2>0, Constants DEF IInv, Admits, l, Types, Wire, Fresh, Counted, Live, InStep,
         Settled, Under
  <2> QED
    BY <2>1, <2>2, <2>3, <2>4, <2>5, <2>6, <2>7, <2>8 DEF IInv
<1>5. CASE /\ act' = [act EXCEPT ![c] = "inspects"] /\ node' = [node EXCEPT ![l] = r] /\ r \in Lease
           /\ node[l].open /\ seq[c].n = node[l].last + 1 /\ ~node[l].executing
  <2>0. /\ act' \in [Calls -> Requests] /\ act'[c] = "inspects"
        /\ \A x \in Calls \ {c} : act'[x] = act[x]
        /\ LeaseSet(l, r)
    BY <1>1, <1>5, LeaseEdit DEF Types, Requests
  <2>1. Types'
    BY <1>1, <1>3, <1>5, <2>0, LeaseFields, Constants DEF IInv, LeaseSet, l, Types
  <2>2. Wire'
    BY <1>1, <1>3, <1>5, <2>0, LeaseFields, Constants DEF IInv, LeaseSet, l, Types, Wire
  <2>3. Fresh'
    <3>1. node[l] # Closed /\ cut' = cut /\ UNCHANGED <<pc, start, lease, seq>> /\ l \in Calls
      BY <1>1, <1>5 DEF Closed
    <3> QED
      BY <2>0, <3>1, FreshKept
  <2>4. Openers'
    BY <1>1, <1>3, <1>5, <2>0, LeaseFields, Constants DEF IInv, LeaseSet, l, Types, Wire,
         Fresh, Openers, Opener, Settled, Closed
  <2>5. Executing'
    BY <1>1, <1>3, <1>5, <2>0, LeaseFields, Constants DEF IInv, LeaseSet, l, Types, Wire,
         Fresh, Executing, Under, Closed
  <2>6. Frames'
    BY <1>1, <1>3, <1>5, <2>0, LeaseFields, Constants DEF IInv, LeaseSet, l, Types, Wire,
         Fresh, Executing, Frames, Under, Kinds
  <2>7. Called'
    BY <1>1, <1>3, <1>5, <2>0, LeaseFields, Constants DEF IInv, LeaseSet, l, Types, Wire, Called
  <2>8. Counted'
    BY <1>1, <1>3, <1>5, <2>0, LeaseFields, Constants DEF IInv, LeaseSet, l, Types, Wire,
         Fresh, Counted, Live, InStep, Settled, Under
  <2> QED
    BY <2>1, <2>2, <2>3, <2>4, <2>5, <2>6, <2>7, <2>8 DEF IInv
<1> QED
  BY <1>2, <1>4, <1>5

LEMMA RunsStep == ASSUME IInv, NEW c \in Calls, Runs(c) PROVE IInv'
<1> DEFINE l == seq[c].lease
           r == [open |-> node[l].open, last |-> node[l].last, framed |-> node[l].framed,
                 executing |-> FALSE]
<1>1. /\ Types /\ act[c] = "inspects" /\ l \in Calls
      /\ UNCHANGED <<via, status, lease, opening, pc, op, seq, start, ends,
                     stops, cut, abandoned>>
      /\ \A x \in Calls : act[x] \in Under /\ seq[x].lease = l => x = c
      /\ node[l].executing
  BY DEF IInv, Runs, mainVars, Wire, Types, Executing, Under
<1>2. \/ /\ act' = [act EXCEPT ![c] = "runs"] /\ UNCHANGED <<node, faults>>
         /\ op[c] = "input" => node[l].framed
         /\ late' = IF op[c] # "screenshot" /\ l \in cut THEN late \cup {c} ELSE late
      \/ /\ act' = [act EXCEPT ![c] = "failed"] /\ node' = [node EXCEPT ![l] = r] /\ r \in Lease
         /\ UNCHANGED late /\ faults' \in 0 .. MaxFaults
  <2>1. r \in Lease
    BY <1>1, LeaseFields DEF Lease
  <2>2. [node EXCEPT ![l].executing = FALSE] = [node EXCEPT ![l] = r]
    <3>1. node[l] \in Lease
      BY <1>1, LeaseFields
    <3>2. [node[l] EXCEPT !.executing = FALSE] = r
      BY <3>1, LeaseEdits
    <3> QED
      BY <3>2
  <2>3. Fault => faults' \in 0 .. MaxFaults
    BY <1>1, Constants DEF Fault, Types
  <2>4. faults \in 0 .. MaxFaults
    BY <1>1 DEF Types
  <2> HIDE DEF r
  <2> QED
    BY <2>1, <2>2, <2>3, <2>4 DEF Runs, FrameFound
<1>3. r.open = node[l].open /\ r.last = node[l].last /\ r.executing = FALSE
      /\ r.framed = node[l].framed
  OBVIOUS
<1> HIDE DEF r, l
<1>4. CASE /\ act' = [act EXCEPT ![c] = "runs"] /\ UNCHANGED <<node, faults>>
           /\ op[c] = "input" => node[l].framed
           /\ late' = IF op[c] # "screenshot" /\ l \in cut THEN late \cup {c} ELSE late
  <2>0. /\ act' \in [Calls -> Requests] /\ act'[c] = "runs"
        /\ \A x \in Calls \ {c} : act'[x] = act[x]
    BY <1>1, <1>4 DEF Types, Requests
  <2>1. Types'
    BY <1>1, <1>4, <2>0, Constants DEF IInv, l, Types
  <2>2. Wire'
    BY <1>1, <1>4, <2>0, Constants DEF IInv, l, Types, Wire
  <2>3. Fresh'
    BY <1>1, <1>4, <2>0, Constants DEF IInv, l, Types, Wire, Fresh, Closed
  <2>4. Openers'
    BY <1>1, <1>4, <2>0, Constants DEF IInv, l, Types, Wire, Fresh, Openers, Opener,
         Settled, Closed
  <2>5. Executing'
    BY <1>1, <1>4, <2>0, Constants DEF IInv, l, Types, Wire, Fresh, Executing, Under, Closed
  <2>6. Frames'
    BY <1>1, <1>4, <2>0, Constants DEF IInv, l, Types, Wire, Fresh, Executing, Frames,
         Under, Kinds
  <2>7. Called'
    BY <1>1, <1>4, <2>0, Constants DEF IInv, l, Types, Wire, Called
  <2>8. Counted'
    BY <1>1, <1>4, <2>0, Constants DEF IInv, l, Types, Wire, Fresh, Counted, Live, InStep, Settled, Under
  <2> QED
    BY <2>1, <2>2, <2>3, <2>4, <2>5, <2>6, <2>7, <2>8 DEF IInv
<1>5. CASE /\ act' = [act EXCEPT ![c] = "failed"] /\ node' = [node EXCEPT ![l] = r] /\ r \in Lease
           /\ UNCHANGED late /\ faults' \in 0 .. MaxFaults
  <2>0. /\ act' \in [Calls -> Requests] /\ act'[c] = "failed"
        /\ \A x \in Calls \ {c} : act'[x] = act[x]
        /\ LeaseSet(l, r)
    BY <1>1, <1>5, LeaseEdit DEF Types, Requests
  <2>1. Types'
    BY <1>1, <1>3, <1>5, <2>0, LeaseFields, Constants DEF IInv, LeaseSet, l, Types
  <2>2. Wire'
    BY <1>1, <1>3, <1>5, <2>0, LeaseFields, Constants DEF IInv, LeaseSet, l, Types, Wire
  <2>3. Fresh'
    <3>1. node[l] # Closed /\ cut' = cut /\ UNCHANGED <<pc, start, lease, seq>> /\ l \in Calls
      BY <1>1 DEF Closed
    <3> QED
      BY <2>0, <3>1, FreshKept
  <2>4. Openers'
    BY <1>1, <1>3, <1>5, <2>0, LeaseFields, Constants DEF IInv, LeaseSet, l, Types, Wire,
         Fresh, Openers, Opener, Settled, Closed
  <2>5. Executing'
    BY <1>1, <1>3, <1>5, <2>0, LeaseFields, Constants DEF IInv, LeaseSet, l, Types, Wire,
         Fresh, Executing, Under, Closed
  <2>6. Frames'
    BY <1>1, <1>3, <1>5, <2>0, LeaseFields, Constants DEF IInv, LeaseSet, l, Types, Wire,
         Fresh, Executing, Frames, Under, Kinds
  <2>7. Called'
    BY <1>1, <1>3, <1>5, <2>0, LeaseFields, Constants DEF IInv, LeaseSet, l, Types, Wire, Called
  <2>8. Counted'
    BY <1>1, <1>3, <1>5, <2>0, LeaseFields, Constants DEF IInv, LeaseSet, l, Types, Wire,
         Fresh, Counted, Live, InStep, Settled, Under
  <2> QED
    BY <2>1, <2>2, <2>3, <2>4, <2>5, <2>6, <2>7, <2>8 DEF IInv
<1> QED
  BY <1>2, <1>4, <1>5

LEMMA RunEndsStep == ASSUME IInv, NEW c \in Calls, RunEnds(c) PROVE IInv'
<1> DEFINE l == seq[c].lease
           R(f) == [open |-> node[l].open, last |-> node[l].last, framed |-> f,
                    executing |-> FALSE]
<1>1. /\ Types /\ act[c] = "runs" /\ l \in Calls
      /\ UNCHANGED <<via, status, lease, opening, pc, op, seq, start, ends,
                     stops, cut, late, abandoned>>
  BY DEF IInv, RunEnds, mainVars, Wire
<1>2. /\ faults' \in 0 .. MaxFaults
      /\ \/ act' = [act EXCEPT ![c] = "ok"]
         \/ act' = [act EXCEPT ![c] = "failed"]
  <2>1. Fault => faults' \in 0 .. MaxFaults
    BY <1>1, Constants DEF Fault, Types
  <2> QED
    BY <1>1, <2>1 DEF RunEnds, Types
<1>3. PICK f \in BOOLEAN : node' = [node EXCEPT ![l] = R(f)]
  <2>1. /\ node[l] \in Lease /\ node[l].framed \in BOOLEAN
        /\ (op[c] = "screenshot") \in BOOLEAN
    BY <1>1, LeaseFields
  <2>2. /\ [node[l] EXCEPT !.executing = FALSE, !.framed = (op[c] = "screenshot")]
              = R(op[c] = "screenshot")
        /\ [node[l] EXCEPT !.executing = FALSE] = R(node[l].framed)
    BY <2>1, LeaseEdits
  <2>3. \/ node' = [node EXCEPT ![l] = [node[l] EXCEPT !.executing = FALSE,
                                                      !.framed = (op[c] = "screenshot")]]
        \/ node' = [node EXCEPT ![l] = [node[l] EXCEPT !.executing = FALSE]]
    BY DEF RunEnds
  <2> HIDE DEF R
  <2> QED
    BY <2>1, <2>2, <2>3
<1> DEFINE r == R(f)
<1>4. /\ act' \in [Calls -> Requests] /\ act'[c] \in {"ok", "failed"}
      /\ \A x \in Calls \ {c} : act'[x] = act[x]
  BY <1>1, <1>2 DEF Types, Requests
<1>6. /\ r \in Lease
      /\ r.open = node[l].open /\ r.last = node[l].last /\ r.executing = FALSE
  BY <1>1, LeaseFields DEF Lease
<1>7. node' = [node EXCEPT ![l] = r]
  BY <1>3
<1> HIDE DEF r, R
<1>5. LeaseSet(l, r)
  BY <1>1, <1>6, <1>7, LeaseEdit
<1>11. /\ \A x \in Calls : act[x] \in Under /\ seq[x].lease = l => x = c
       /\ node[l].executing
  BY <1>1 DEF IInv, Executing, Under
<1> HIDE DEF l
<1>21. Types'
  BY <1>1, <1>2, <1>4, <1>5, <1>6, <1>11, LeaseFields, Constants DEF IInv, LeaseSet, l, Types
<1>22. Wire'
  BY <1>1, <1>2, <1>4, <1>5, <1>6, <1>11, LeaseFields, Constants DEF IInv, LeaseSet, l, Types, Wire
<1>23. Fresh'
  <2>1. node[l] # Closed /\ cut' = cut /\ UNCHANGED <<pc, start, lease, seq>> /\ l \in Calls
    BY <1>1, <1>11 DEF Closed, l
  <2> QED
    BY <1>5, <2>1, FreshKept
<1>24. Openers'
  <2>1. \A x \in Calls : node'[x].open = node[x].open
    BY <1>5, <1>6 DEF LeaseSet
  <2> QED
    BY <1>1, <2>1 DEF IInv, Openers, Opener, Settled
<1>25. Executing'
  BY <1>1, <1>2, <1>4, <1>5, <1>6, <1>11, LeaseFields, Constants DEF IInv, LeaseSet, l, Types,
       Wire, Fresh, Executing, Under, Closed
<1>26. Frames'
  <2>1. \A x \in Calls : node'[x].open = node[x].open
    BY <1>5, <1>6 DEF LeaseSet
  <2>2. ASSUME NEW x \in Calls, act'[x] = "inspects", seq[x].lease \in cut, via # "local"
        PROVE  ~node'[seq[x].lease].framed
    <3>1. x # c /\ act[x] = "inspects"
      BY <1>4, <2>2
    <3>2. seq[x].lease # l /\ seq[x].lease \in Calls
      BY <1>1, <1>11, <2>2, <3>1 DEF Under, Types
    <3>3. node'[seq[x].lease] = node[seq[x].lease]
      BY <1>5, <3>2 DEF LeaseSet
    <3> QED
      BY <2>2, <3>1, <3>3 DEF IInv, Frames
  <2> QED
    BY <1>1, <2>1, <2>2 DEF IInv, Frames, Types
<1>27. Called'
  BY <1>1, <1>2, <1>4, <1>5, <1>6, <1>11, LeaseFields, Constants DEF IInv, LeaseSet, l, Types,
       Wire, Called
<1>28. Counted'
  BY <1>1, <1>2, <1>4, <1>5, <1>6, <1>11, LeaseFields, Constants DEF IInv, LeaseSet, l, Types,
       Wire, Fresh, Counted, Live, InStep, Settled, Under
<1> QED
  BY <1>21, <1>22, <1>23, <1>24, <1>25, <1>26, <1>27, <1>28 DEF IInv

LEMMA EndArrivesStep == ASSUME IInv, NEW e \in ends, EndArrives(e) PROVE IInv'
<1> DEFINE l == e.lease
           r == IF node[l].open
                THEN [open |-> FALSE, last |-> node[l].last, framed |-> FALSE,
                      executing |-> node[l].executing]
                ELSE node[l]
<1>1. /\ Types /\ l \in Calls /\ ends' \subseteq ends
      /\ cut' = IF node[l].open THEN cut \cup {l} ELSE cut
      /\ UNCHANGED <<via, status, lease, opening, pc, op, seq, start, act,
                     stops, faults, late, abandoned>>
  BY DEF IInv, EndArrives, mainVars, Types
<1>2. node' = [node EXCEPT ![l] = r] /\ r \in Lease
  <2>1. CASE node[l].open
    <3>1. node[l] \in Lease
      BY <1>1, LeaseFields
    <3>2. r \in Lease /\ [node[l] EXCEPT !.open = FALSE, !.framed = FALSE] = r
      BY <2>1, <3>1, LeaseEdits DEF Lease
    <3> HIDE DEF r
    <3> QED
      BY <2>1, <3>2 DEF EndArrives, Ended
  <2>2. CASE ~node[l].open
    BY <1>1, <2>2, LeaseFields DEF EndArrives, Ended, Types, Lease
  <2> QED
    BY <2>1, <2>2
<1>3. /\ r.open = FALSE /\ r.last = node[l].last /\ r.executing = node[l].executing
      /\ node[l].open => r.framed = FALSE
      /\ ~node[l].open => r = node[l]
  BY <1>1, LeaseFields
<1> HIDE DEF l, r
<1>4. LeaseSet(l, r)
  BY <1>1, <1>2, LeaseEdit
<1>21. Types'
  BY <1>1, <1>3, <1>4, Constants DEF IInv, LeaseSet, Types
<1>22. Wire'
  BY <1>1, <1>3, <1>4, Constants DEF IInv, LeaseSet, Types, Wire
<1>23. Fresh'
  BY <1>1, <1>3, <1>4, Constants DEF IInv, LeaseSet, Types, Wire, Fresh, Closed
<1>24. Openers'
  BY <1>1, <1>3, <1>4, Constants DEF IInv, LeaseSet, Types, Wire, Fresh, Openers, Opener,
       Settled, Closed
<1>25. Executing'
  BY <1>1, <1>3, <1>4, Constants DEF IInv, LeaseSet, Types, Wire, Fresh, Executing, Under,
       Closed
<1>26. Frames'
  BY <1>1, <1>3, <1>4, Constants DEF IInv, LeaseSet, Types, Wire, Fresh, Executing, Frames,
       Under, Kinds
<1>27. Called'
  BY <1>1, <1>3, <1>4, Constants DEF IInv, LeaseSet, Types, Wire, Called
<1>28. Counted'
  BY <1>1, <1>3, <1>4, Constants DEF IInv, LeaseSet, Types, Wire, Fresh, Counted, Live, InStep, Settled, Under
<1> QED
  BY <1>21, <1>22, <1>23, <1>24, <1>25, <1>26, <1>27, <1>28 DEF IInv

LEMMA EndLostStep == ASSUME IInv, NEW e \in ends, EndLost(e) PROVE IInv'
<1>1. /\ Types /\ ends' \subseteq ends /\ abandoned' \subseteq Calls
      /\ faults' \in 0 .. MaxFaults
      /\ UNCHANGED <<via, status, lease, opening, pc, op, seq, start, act, node,
                     stops, cut, late>>
  BY Constants DEF IInv, EndLost, Fault, mainVars, Types
<1>2. Types'
  BY <1>1 DEF Types
<1>3. Wire' /\ Fresh' /\ Openers' /\ Executing' /\ Frames' /\ Called'
  BY <1>1 DEF IInv, Wire, Fresh, Openers, Opener, Settled, Executing, Frames, Called
<1>4. Counted'
  BY <1>1 DEF IInv, Counted, Live, InStep
<1> QED
  BY <1>2, <1>3, <1>4 DEF IInv

LEMMA PurgedStep == ASSUME IInv, NEW l \in Calls, Purged(l) PROVE IInv'
<1> DEFINE r == [open |-> FALSE, last |-> node[l].last, framed |-> node[l].framed,
                 executing |-> node[l].executing]
<1>1. /\ Types /\ node[l].open /\ faults' = faults + 1 /\ faults < MaxFaults
      /\ UNCHANGED <<via, status, lease, opening, pc, op, seq, start, act, ends,
                     stops, cut, late, abandoned>>
  BY DEF IInv, Purged, Fault, mainVars, wireVars
<1>2. node' = [node EXCEPT ![l] = r] /\ r \in Lease
  <2>1. node[l] \in Lease /\ r \in Lease /\ [node[l] EXCEPT !.open = FALSE] = r
    BY <1>1, LeaseFields, LeaseEdits DEF Lease
  <2> HIDE DEF r
  <2> QED
    BY <2>1 DEF Purged
<1>3. r.open = FALSE /\ r.last = node[l].last /\ r.framed = node[l].framed
      /\ r.executing = node[l].executing
  OBVIOUS
<1> HIDE DEF r
<1>4. LeaseSet(l, r)
  BY <1>1, <1>2, LeaseEdit
<1>21. Types'
  BY <1>1, <1>3, <1>4, Constants DEF IInv, LeaseSet, Types
<1>22. Wire'
  BY <1>1, <1>3, <1>4, Constants DEF IInv, LeaseSet, Types, Wire
<1>23. Fresh'
  BY <1>1, <1>3, <1>4, Constants DEF IInv, LeaseSet, Types, Wire, Fresh, Closed
<1>24. Openers'
  BY <1>1, <1>3, <1>4, Constants DEF IInv, LeaseSet, Types, Wire, Fresh, Openers, Opener,
       Settled, Closed
<1>25. Executing'
  BY <1>1, <1>3, <1>4, Constants DEF IInv, LeaseSet, Types, Wire, Fresh, Executing, Under,
       Closed
<1>26. Frames'
  BY <1>1, <1>3, <1>4, Constants DEF IInv, LeaseSet, Types, Wire, Fresh, Executing, Frames,
       Under, Kinds
<1>27. Called'
  BY <1>1, <1>3, <1>4, Constants DEF IInv, LeaseSet, Types, Wire, Called
<1>28. Counted'
  BY <1>1, <1>3, <1>4, Constants DEF IInv, LeaseSet, Types, Wire, Fresh, Counted, Live, InStep, Settled, Under
<1> QED
  BY <1>21, <1>22, <1>23, <1>24, <1>25, <1>26, <1>27, <1>28 DEF IInv

LEMMA StutterStep == ASSUME IInv, UNCHANGED vars PROVE IInv'
<1>1. Types'
  BY Constants DEF IInv, vars, mainVars, wireVars, history, Types, Held, Seq_, Lease, PCs,
       Requests, Kinds, None, Closed
<1>2. Wire'
  BY Constants DEF IInv, vars, mainVars, wireVars, history, Types, Wire, Seq_, Held, None
<1>3. Fresh'
  BY Constants DEF IInv, vars, mainVars, wireVars, history, Types, Wire, Fresh, Seq_, Lease,
       Closed, Held, None
<1>4. Openers'
  BY Constants DEF IInv, vars, mainVars, wireVars, history, Types, Wire, Fresh, Openers,
       Opener, Settled, Lease, Closed, Held, None
<1>5. Executing'
  BY Constants DEF IInv, vars, mainVars, wireVars, history, Types, Wire, Fresh, Executing,
       Under, Seq_, Lease, Closed
<1>6. Frames'
  BY Constants DEF IInv, vars, mainVars, wireVars, history, Types, Wire, Fresh, Executing,
       Frames, Under, Seq_, Lease, Closed, Kinds
<1>7. Called'
  BY Constants DEF IInv, vars, mainVars, wireVars, history, Types, Wire, Called, Seq_, Held,
       None
<1>8. Counted'
  BY Constants DEF IInv, vars, mainVars, wireVars, history, Types, Wire, Fresh, Counted, Live, InStep,
       Settled, Under, Seq_, Held, Lease, Closed, None
<1> QED
  BY <1>1, <1>2, <1>3, <1>4, <1>5, <1>6, <1>7, <1>8 DEF IInv

\* Every action of the session keeps the invariant, and so does no action.
LEMMA Step == IInv /\ [Next]_vars => IInv'
<1> SUFFICES ASSUME IInv, [Next]_vars PROVE IInv'
  OBVIOUS
<1>1. CASE Stop
  <2>1. AbortSession(NoLease) /\ stops' \in 0 .. MaxStops
    BY <1>1, Constants DEF Stop, IInv, Types
  <2> QED
    BY <2>1, AbortSessionStep
<1>2. ASSUME NEW c \in Calls, Catch(c) PROVE IInv'
  <2>1. AbortSession(c) /\ stops' \in 0 .. MaxStops
    BY <1>2 DEF Catch, IInv, Types
  <2> QED
    BY <2>1, AbortSessionStep
<1>3. ASSUME NEW c \in Calls, MainStep(c) PROVE IInv'
  BY <1>2, <1>3, ProbedStep, OpenedStep, OpeningFailsStep, ReturnedStep DEF MainStep
<1>4. ASSUME NEW c \in Calls, NodeStep(c) PROVE IInv'
  BY <1>4, StartsLeaseStep, LeaseMadeStep, EntersStep, RunsStep, RunEndsStep DEF NodeStep
<1>5. CASE Expires \/ MainRestarts \/ Delivers
  BY <1>5, ExpiresStep, MainRestartsStep, DeliversStep
<1>6. ASSUME NEW c \in Calls, TimesOut(c) \/ Purged(c) PROVE IInv'
  BY <1>6, TimesOutStep, PurgedStep
<1>7. ASSUME NEW c \in Calls, NEW o \in Operations, Begin(c, o) PROVE IInv'
  BY <1>7, BeginStep
<1>8. ASSUME NEW e \in ends, EndArrives(e) \/ EndLost(e) PROVE IInv'
  BY <1>8, EndArrivesStep, EndLostStep
<1>9. CASE UNCHANGED vars
  BY <1>9, StutterStep
<1> QED
  BY <1>1, <1>3, <1>4, <1>5, <1>6, <1>7, <1>8, <1>9 DEF Next

-----------------------------------------------------------------------------
(***************************************************************************)
(* Theorems                                                                *)
(***************************************************************************)
\* The invariant holds when a session has been approved and no tool was called.
THEOREM Initial == Init => IInv
<1> SUFFICES ASSUME Init PROVE IInv
  OBVIOUS
<1>1. /\ None \in Held /\ None.id = NoLease /\ None.next # 0 /\ None.inFlight = 0
      /\ Closed \in Lease /\ ~Closed.open /\ ~Closed.executing /\ NoLease \notin Calls
  BY Constants DEF None, Held, Closed, Lease
<1>2. Types
  <2>1. op \in [Calls -> Kinds] /\ pc \in [Calls -> PCs] /\ seq \in [Calls -> Seq_]
        /\ start \in [Calls -> Requests] /\ act \in [Calls -> Requests] /\ node \in [Calls -> Lease]
    BY <1>1 DEF Init, Kinds, PCs, Seq_, Requests
  <2>2. 0 \in 0 .. MaxStops /\ 0 \in 0 .. MaxFaults
    BY Constants
  <2> QED
    BY <1>1, <2>1, <2>2 DEF Init, Types
<1>3. Wire /\ Fresh
  BY <1>1 DEF Init, Wire, Fresh
<1>4. Openers
  BY <1>1 DEF Init, Openers, Opener
<1>5. Executing /\ Frames /\ Called
  BY <1>1 DEF Init, Executing, Frames, Called, Under
<1>6. Counted
  BY <1>1 DEF Init, Counted, Live, InStep
<1> QED
  BY <1>2, <1>3, <1>4, <1>5, <1>6 DEF IInv

\* The invariant holds in every reachable state of the session.
THEOREM Invariance == Spec => []IInv
BY Initial, Step, PTL DEF Spec

\* Every variable keeps its type, and a number in flight always has a caller
\* whose end will clear it: no error leaves the lease blocked for ever.
THEOREM TypeCorrect == Spec => []TypeOK
<1>1. IInv => TypeOK
  BY DEF IInv, Types, Called, TypeOK, Seq_, Lease
<1> QED
  BY <1>1, Invariance, PTL

\* The main and the executor never drift apart: whatever was refused, failed,
\* timed out or raced, the next number of a live lease with no operation about
\* is the one the executor wants, before and after the session's end.
THEOREM CountAlike == Spec => []InStep
<1>1. IInv => InStep
  BY DEF IInv, Counted, Live, InStep
<1> QED
  BY <1>1, Invariance, PTL

\* Whatever number of calls race to open it, the session holds one lease at most
\* at the executor.
THEOREM OneLeaseEver == Spec => []OneLease
<1>1. IInv => OneLease
  BY DEF IInv, Openers, Opener, OneLease
<1> QED
  BY <1>1, Invariance, PTL

\* A revoked lease never lets input begin that refers to one of its frames.
THEOREM FramedInput == Spec => []FramedInputStops
<1>1. IInv => FramedInputStops
  BY DEF IInv, Frames, FramedInputStops
<1> QED
  BY <1>1, Invariance, PTL

\* No step sends an operation of a session that is over, though it found or
\* opened the lease while the session was active.
THEOREM NothingSent == Spec => NothingSentWhenOver
<1> DEFINE A == \A c \in Calls : pc[c] # "acts" /\ pc'[c] = "acts" => status = "active"
<1>1. IInv /\ [Next]_vars => [A]_vars
  <2> SUFFICES ASSUME IInv, Next, status # "active", NEW x \in Calls, pc[x] # "acts"
               PROVE  pc'[x] # "acts"
    BY DEF A
  <2>1. Types /\ x \in DOMAIN pc
    BY DEF IInv, Types
  <2>2. ASSUME NEW k \in Calls \cup {NoLease}, AbortSession(k) PROVE pc'[x] # "acts"
    BY <2>2 DEF AbortSession
  <2>3. CASE Stop \/ Expires \/ MainRestarts \/ Delivers
    BY <2>2, <2>3 DEF Stop, Expires, MainRestarts, Delivers, mainVars
  <2>4. ASSUME NEW c \in Calls, MainStep(c) PROVE pc'[x] # "acts"
    <3>1. CASE Probed(c) \/ Returned(c)
      BY <2>1, <3>1 DEF Probed, Returned, Types
    <3>2. CASE Opened(c)
      <4>1. pc' = [pc EXCEPT ![c] = "ends"]
        BY <3>2 DEF Opened, StillApproved
      <4> QED
        BY <2>1, <4>1 DEF Types
    <3>3. CASE OpeningFails(c)
      BY <2>1, <3>3 DEF OpeningFails, Woken
    <3>4. CASE Catch(c)
      BY <2>2, <3>4 DEF Catch
    <3> QED
      BY <2>4, <3>1, <3>2, <3>3, <3>4 DEF MainStep
  <2>5. ASSUME NEW c \in Calls, NodeStep(c) \/ Purged(c) PROVE pc'[x] # "acts"
    BY <2>5 DEF NodeStep, StartsLease, LeaseMade, Enters, Runs, RunEnds, Purged, mainVars
  <2>6. ASSUME NEW c \in Calls, TimesOut(c) PROVE pc'[x] # "acts"
    BY <2>1, <2>6 DEF TimesOut, Woken, Types
  <2>7. ASSUME NEW c \in Calls, NEW o \in Operations, Begin(c, o) PROVE pc'[x] # "acts"
    BY <2>7 DEF Begin
  <2>8. ASSUME NEW e \in ends, EndArrives(e) \/ EndLost(e) PROVE pc'[x] # "acts"
    BY <2>8 DEF EndArrives, EndLost, mainVars
  <2> QED
    BY <2>3, <2>4, <2>5, <2>6, <2>7, <2>8 DEF Next
<1>2. Spec => [][A]_vars
  BY <1>1, Invariance, PTL DEF Spec
<1> QED
  BY <1>2 DEF NothingSentWhenOver, A
=============================================================================
