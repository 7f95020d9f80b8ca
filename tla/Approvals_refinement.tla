------------------------ MODULE Approvals_refinement ------------------------
(***************************************************************************)
(* Approvals implements OneShotPromise, for every value of the constants.  *)
(* A run of the daemon changes the maps several times (expire, then change *)
(* one card); each change moves every card's phase onward or not at all,   *)
(* and such moves compose.  The lemmas follow those of Approvals_proofs.   *)
(***************************************************************************)
EXTENDS Approvals_proofs

Ph(m, d, n, F) == [c \in Cards |-> PhaseOf(m, d, n, F, c)]

\* Every card has stayed where it was, or gone where the promise lets it.
Onward(p, q) == \A c \in Cards : q[c] = p[c] \/ q[c] \in Promise!After(p[c])

LEMMA OnwardStays == ASSUME NEW p PROVE Onward(p, p)
  BY DEF Onward

LEMMA OnwardOn ==
    ASSUME NEW p, NEW q, NEW r, Onward(p, q), Onward(q, r) PROVE Onward(p, r)
  BY DEF Onward, Promise!After, Promise!Phases

\* A card in memory only: the phase is what its flights and the memory say.
LEMMA PhaseCases ==
    ASSUME NEW m, NEW d, NEW n, NEW F, NEW c \in Cards
    PROVE  /\ Ph(m, d, n, F)[c] = PhaseOf(m, d, n, F, c)
           /\ d[c].status \in {"denied", "expired"} => PhaseOf(m, d, n, F, c) = "refused"
           /\ d[c].status \in {"approved", "interrupted"} => PhaseOf(m, d, n, F, c) = "closed"
           /\ d[c].status = "executing" => PhaseOf(m, d, n, F, c) = "claimed"
           /\ d[c].status = "pending" => PhaseOf(m, d, n, F, c) = "open"
           /\ d[c].status = "absent" /\ c >= n => PhaseOf(m, d, n, F, c) = "unasked"
           /\ d[c].status = "absent" /\ ~(c >= n) /\ (\E f \in F : f.card = c)
                => PhaseOf(m, d, n, F, c) = "claimed"
           /\ d[c].status = "absent" /\ ~(c >= n) /\ ~(\E f \in F : f.card = c)
                => PhaseOf(m, d, n, F, c) = IF m[c].status = "pending" THEN "open" ELSE "closed"
  BY DEF Ph, PhaseOf

\* What a card's phase depends on: its own entries, its flights, its id.
LEMMA SamePhase ==
    ASSUME NEW m, NEW d, NEW n, NEW F, NEW m2, NEW d2, NEW n2, NEW F2, NEW c \in Cards,
           m2[c] = m[c], d2[c] = d[c], c >= n2 <=> c >= n,
           (\E f \in F2 : f.card = c) <=> (\E f \in F : f.card = c)
    PROVE  Ph(m2, d2, n2, F2)[c] = Ph(m, d, n, F)[c]
  BY DEF Ph, PhaseOf

-----------------------------------------------------------------------------
(***************************************************************************)
(* Each step of the store moves the phases onward.                         *)
(***************************************************************************)
LEMMA RefusalMoves ==
    ASSUME NEW m, NEW d, NEW n, NEW F, NEW r, Good(m, d, n, F, r),
           NEW st \in {"denied", "expired"}, NEW Q, NEW P \in SUBSET Q,
           \A c \in Cards : c \in Q => m[c].status = "pending"
    PROVE  /\ Onward(Ph(m, d, n, F), Ph(Decided(m, Q, st), Decided(d, P, st), n, F))
           /\ Onward(Ph(m, d, n, F), Ph(Decided(m, Q, st), d, n, F))
<1> DEFINE m2 == Decided(m, Q, st)
           d2 == Decided(d, P, st)
<1>0. st \in Statuses \ {"absent"} /\ m \in [Cards -> Card] /\ d \in [Cards -> Card]
  BY DEF Good, Statuses
<1>1. \A c \in Cards : /\ c \in Q => m2[c].status = st
                       /\ c \notin Q => m2[c] = m[c]
  BY <1>0, DecidedCard
<1>2. \A c \in Cards : /\ c \in P /\ d[c].status # "absent" => d2[c].status = st
                       /\ ~(c \in P /\ d[c].status # "absent") => d2[c] = d[c]
  BY <1>0, DecidedCard
<1>3. \A c \in Cards : c \in Q => /\ d[c].status \in {"pending", "absent"}
                                  /\ ~(c >= n)
                                  /\ ~(\E f \in F : f.card = c)
  BY DEF Good, Aligned, Known, Absent, FlightsClaimed
<1> HIDE DEF m2, d2
<1>4. ASSUME NEW c \in Cards, c \notin Q
      PROVE  /\ Ph(m2, d2, n, F)[c] = Ph(m, d, n, F)[c]
             /\ Ph(m2, d, n, F)[c] = Ph(m, d, n, F)[c]
  BY <1>1, <1>2, <1>4, SamePhase
<1>5. ASSUME NEW c \in Cards, c \in Q
      PROVE  /\ Ph(m, d, n, F)[c] = "open"
             /\ Ph(m2, d2, n, F)[c] \in {"open", "refused", "closed"}
             /\ Ph(m2, d, n, F)[c] \in {"open", "closed"}
  <2>1. Ph(m, d, n, F)[c] = "open"
    BY <1>3, <1>5, PhaseCases
  <2>2. Ph(m2, d2, n, F)[c] \in {"open", "refused", "closed"}
    BY <1>1, <1>2, <1>3, <1>5, PhaseCases
  <2>3. Ph(m2, d, n, F)[c] \in {"open", "closed"}
    BY <1>1, <1>3, <1>5, PhaseCases
  <2> QED BY <2>1, <2>2, <2>3
<1> QED BY <1>4, <1>5 DEF Onward, Promise!After, Promise!Phases, m2, d2

LEMMA CreationMoves ==
    ASSUME NEW m, NEW d, NEW n, NEW F, NEW r, Good(m, d, n, F, r), n \in Cards,
           NEW card \in Card, card.status = "pending"
    PROVE  /\ Onward(Ph(m, d, n, F), Ph([m EXCEPT ![n] = card], [d EXCEPT ![n] = card], n + 1, F))
           /\ Onward(Ph(m, d, n, F), Ph([m EXCEPT ![n] = card], d, n + 1, F))
<1> DEFINE m2 == [m EXCEPT ![n] = card]
           d2 == [d EXCEPT ![n] = card]
<1>1. /\ m \in [Cards -> Card] /\ d \in [Cards -> Card] /\ n \in Nat
      /\ m2[n] = card /\ \A c \in Cards : c # n => m2[c] = m[c] /\ d2[c] = d[c]
  BY DEF Good, Cards
<1>2. d[n].status = "absent" /\ n >= n
  BY <1>1 DEF Good, Known, Absent
<1>3. \A c \in Cards : c # n => (c >= n + 1 <=> c >= n)
  BY <1>1 DEF Cards
<1> HIDE DEF m2, d2
<1>4. Ph(m, d, n, F)[n] = "unasked"
  BY <1>2, PhaseCases
<1>5. \A c \in Cards : c # n => /\ Ph(m2, d2, n + 1, F)[c] = Ph(m, d, n, F)[c]
                                /\ Ph(m2, d, n + 1, F)[c] = Ph(m, d, n, F)[c]
  BY <1>1, <1>3 DEF Ph, PhaseOf
<1>6. d2[n].status = "pending" /\ ~(n >= n + 1)
  BY <1>1 DEF d2
<1>7. Ph(m2, d2, n + 1, F)[n] = "open"
  BY <1>6, PhaseCases
<1>8. Ph(m2, d, n + 1, F)[n] \in {"open", "claimed", "closed"}
  BY <1>1, <1>2, <1>6, PhaseCases
<1> QED BY <1>4, <1>5, <1>7, <1>8 DEF Onward, Promise!After, Promise!Phases, m2, d2

LEMMA ClaimingMoves ==
    ASSUME NEW m, NEW d, NEW n, NEW F, NEW r, Good(m, d, n, F, r),
           NEW c \in Cards, m[c].status = "pending",
           NEW e \in Nat, NEW by \in {"surface", "owner"}
    PROVE  /\ Onward(Ph(m, d, n, F), Ph(Claimed(m, c, e), Claimed(d, c, e), n, F \cup {Fly(c, e, by)}))
           /\ Onward(Ph(m, d, n, F), Ph(Claimed(m, c, e), d, n, F))
           /\ Onward(Ph(m, d, n, F), Ph(Claimed(m, c, e), Claimed(d, c, e), n, F))
<1> DEFINE m2 == Claimed(m, c, e)
           d2 == Claimed(d, c, e)
           G == F \cup {Fly(c, e, by)}
<1>0. m \in [Cards -> Card] /\ d \in [Cards -> Card]
  BY DEF Good
<1>1. m2[c].status = "executing" /\ \A x \in Cards : x # c => m2[x] = m[x]
  BY <1>0, ClaimedCard
<1>2. /\ d[c].status = "pending" => d2[c].status = "executing"
      /\ d[c].status # "pending" => d2[c] = d[c]
      /\ \A x \in Cards : x # c => d2[x] = d[x]
  BY <1>0, ClaimedCard
<1>3. d[c].status \in {"pending", "absent"} /\ ~(c >= n) /\ ~(\E f \in F : f.card = c)
  BY DEF Good, Aligned, Known, Absent, FlightsClaimed
<1>4. \A x \in Cards : (\E f \in G : f.card = x) <=> (x = c \/ \E f \in F : f.card = x)
  <2>1. Fly(c, e, by).card = c
    BY DEF Fly
  <2> HIDE DEF m2, d2
  <2> QED BY <2>1
<1> HIDE DEF m2, d2, G
<1>5. Ph(m, d, n, F)[c] = "open"
  BY <1>3, PhaseCases
<1>6. ASSUME NEW x \in Cards, x # c
      PROVE  /\ Ph(m2, d2, n, G)[x] = Ph(m, d, n, F)[x]
             /\ Ph(m2, d, n, F)[x] = Ph(m, d, n, F)[x]
             /\ Ph(m2, d2, n, F)[x] = Ph(m, d, n, F)[x]
  <2>1. m2[x] = m[x] /\ d2[x] = d[x] /\ ((\E f \in G : f.card = x) <=> (\E f \in F : f.card = x))
    BY <1>1, <1>2, <1>4, <1>6
  <2> QED BY <2>1 DEF Ph, PhaseOf
<1>7. Ph(m2, d2, n, G)[c] = "claimed"
  BY <1>2, <1>3, <1>4, PhaseCases
<1>8. Ph(m2, d, n, F)[c] \in {"open", "closed"}
  BY <1>1, <1>3, PhaseCases
<1>9. Ph(m2, d2, n, F)[c] \in {"claimed", "closed"}
  BY <1>1, <1>2, <1>3, PhaseCases
<1> QED BY <1>5, <1>6, <1>7, <1>8, <1>9 DEF Onward, Promise!After, Promise!Phases, m2, d2, G

LEMMA FinishingMoves ==
    ASSUME NEW m, NEW d, NEW n, NEW F, NEW r, Good(m, d, n, F, r), NEW f \in F,
           NEW S \in SUBSET {f.card}
    PROVE  /\ Onward(Ph(m, d, n, F), Ph(Decided(m, S, "approved"), Decided(d, S, "approved"), n, F \ {f}))
           /\ Onward(Ph(m, d, n, F), Ph(Decided(m, S, "approved"), d, n, F \ {f}))
           /\ Onward(Ph(m, d, n, F), Ph(m, d, n, F \ {f}))
<1> DEFINE m2 == Decided(m, S, "approved")
           d2 == Decided(d, S, "approved")
           G == F \ {f}
<1>0. /\ "approved" \in Statuses \ {"absent"}
      /\ m \in [Cards -> Card] /\ d \in [Cards -> Card] /\ f.card \in Cards
  BY DEF Good, Statuses, Flight
<1>1. \A c \in Cards : /\ c # f.card => m2[c] = m[c]
                       /\ m2[c].status \in {m[c].status, "approved"}
  BY <1>0, DecidedCard
<1>2. \A c \in Cards : /\ c # f.card => d2[c] = d[c]
                       /\ d2[c].status = d[c].status \/ (d2[c].status = "approved" /\ d[c].status # "absent")
  BY <1>0, DecidedCard
<1>3. /\ m[f.card].status = "executing" /\ d[f.card].status \in {"executing", "absent"}
      /\ ~(f.card >= n) /\ ~(\E g \in G : g.card = f.card)
  BY <1>0 DEF Good, FlightsClaimed, Known, Absent
<1>4. \A c \in Cards : c # f.card => ((\E g \in G : g.card = c) <=> (\E g \in F : g.card = c))
  OBVIOUS
<1> HIDE DEF m2, d2, G
<1>5. Ph(m, d, n, F)[f.card] = "claimed"
  BY <1>0, <1>3, PhaseCases
<1>6. ASSUME NEW c \in Cards, c # f.card
      PROVE  /\ Ph(m2, d2, n, G)[c] = Ph(m, d, n, F)[c]
             /\ Ph(m2, d, n, G)[c] = Ph(m, d, n, F)[c]
             /\ Ph(m, d, n, G)[c] = Ph(m, d, n, F)[c]
  <2>1. m2[c] = m[c] /\ d2[c] = d[c] /\ ((\E g \in G : g.card = c) <=> (\E g \in F : g.card = c))
    BY <1>1, <1>2, <1>4, <1>6
  <2> QED BY <2>1 DEF Ph, PhaseOf
<1>7. Ph(m2, d2, n, G)[f.card] \in {"claimed", "closed"}
  BY <1>0, <1>1, <1>2, <1>3, PhaseCases
<1>8. /\ Ph(m2, d, n, G)[f.card] \in {"claimed", "closed"}
      /\ Ph(m, d, n, G)[f.card] \in {"claimed", "closed"}
  BY <1>0, <1>1, <1>3, PhaseCases
<1> QED BY <1>5, <1>6, <1>7, <1>8 DEF Onward, Promise!After, Promise!Phases, m2, d2, G

\* A crash forgets the memory and the calls under way: a card the journal does
\* not know closes, every other keeps the phase the journal gives it.
LEMMA CrashingMoves ==
    ASSUME NEW m, NEW d, NEW n, NEW F, NEW r, Good(m, d, n, F, r)
    PROVE  Onward(Ph(m, d, n, F), Ph(NoCards, d, n, {}))
<1>1. ASSUME NEW c \in Cards
      PROVE  Ph(NoCards, d, n, {})[c] = Ph(m, d, n, F)[c] \/ Ph(NoCards, d, n, {})[c] \in Promise!After(Ph(m, d, n, F)[c])
  <2>1. NoCards[c].status = "absent"
    BY DEF NoCards, Absent
  <2>2. d[c].status \in Statuses
    BY DEF Good, Card
  <2>3. CASE d[c].status # "absent"
    BY <2>2, <2>3, PhaseCases DEF Statuses
  <2>4. CASE d[c].status = "absent" /\ c >= n
    BY <2>4, PhaseCases
  <2>5. CASE d[c].status = "absent" /\ ~(c >= n)
    <3>1. Ph(m, d, n, F)[c] \in {"open", "claimed", "closed"}
      BY <2>5, PhaseCases
    <3>2. Ph(NoCards, d, n, {})[c] = "closed"
      BY <2>1, <2>5, PhaseCases
    <3> QED BY <3>1, <3>2 DEF Promise!After, Promise!Phases
  <2> QED BY <2>3, <2>4, <2>5
<1> QED BY <1>1 DEF Onward

LEMMA RecoveringMoves ==
    ASSUME NEW d, NEW n, NEW r, Good(NoCards, d, n, {}, r)
    PROVE  Onward(Ph(NoCards, d, n, {}), Ph(Recovered(d), Recovered(d), n, {}))
<1> DEFINE X == {c \in Cards : d[c].status = "executing"}
           d2 == Decided(d, X, "interrupted")
           d3 == Decided(d2, Expirable(d), "expired")
<1>0. /\ "interrupted" \in Statuses \ {"absent"} /\ "expired" \in Statuses \ {"absent"}
      /\ d \in [Cards -> Card]
  BY DEF Good, Statuses
<1>1. /\ d2 \in [Cards -> Card]
      /\ \A c \in Cards : /\ d[c].status = "executing" => d2[c].status = "interrupted"
                          /\ d[c].status # "executing" => d2[c] = d[c]
  BY <1>0, DecidedCard
<1>2. \A c \in Cards : /\ d3[c].status = d2[c].status
                            \/ (d[c].status = "pending" /\ d3[c].status = "expired")
  <2> HIDE DEF d2
  <2>1. \A c \in Cards : c \in Expirable(d) => d[c].status = "pending"
    BY DEF Expirable
  <2>2. \A c \in Cards : /\ c \in Expirable(d) /\ d2[c].status # "absent" => d3[c].status = "expired"
                         /\ ~(c \in Expirable(d) /\ d2[c].status # "absent") => d3[c] = d2[c]
    BY <1>0, <1>1, DecidedCard
  <2> QED BY <2>1, <2>2
<1> HIDE DEF d2, d3
<1>3. ASSUME NEW c \in Cards
      PROVE  Ph(d3, d3, n, {})[c] = Ph(NoCards, d, n, {})[c] \/ Ph(d3, d3, n, {})[c] \in Promise!After(Ph(NoCards, d, n, {})[c])
  <2>1. d[c].status \in Statuses /\ NoCards[c].status = "absent"
    BY DEF Good, Card, NoCards, Absent
  <2>2. CASE d[c].status = "absent"
    <3>1. d3[c].status = "absent"
      BY <1>1, <1>2, <2>2
    <3> QED BY <2>1, <2>2, <3>1, PhaseCases
  <2>3. CASE d[c].status \in {"denied", "expired", "approved", "interrupted"}
    <3>1. d3[c].status = d[c].status
      BY <1>1, <1>2, <2>3
    <3> QED BY <2>3, <3>1, PhaseCases
  <2>4. CASE d[c].status = "executing"
    <3>1. Ph(d3, d3, n, {})[c] = "closed"
      BY <1>1, <1>2, <2>4, PhaseCases
    <3>2. Ph(NoCards, d, n, {})[c] = "claimed"
      BY <2>4, PhaseCases
    <3> QED BY <3>1, <3>2 DEF Promise!After, Promise!Phases
  <2>5. CASE d[c].status = "pending"
    <3>1. Ph(d3, d3, n, {})[c] \in {"open", "refused"}
      BY <1>1, <1>2, <2>5, PhaseCases
    <3>2. Ph(NoCards, d, n, {})[c] = "open"
      BY <2>5, PhaseCases
    <3> QED BY <3>1, <3>2 DEF Promise!After, Promise!Phases
  <2> QED BY <2>1, <2>2, <2>3, <2>4, <2>5 DEF Statuses
<1> QED BY <1>3 DEF Onward, Recovered, d2, d3

-----------------------------------------------------------------------------
(***************************************************************************)
(* Each action does, in any state of the inductive invariant.              *)
(***************************************************************************)
Moved == Onward(Ph(mem, disk, nextId, flights), Ph(mem', disk', nextId', flights'))

LEMMA ExpiryMoves ==
    ASSUME IInv, NEW E \in {{}, Expirable(mem)}
    PROVE  Onward(Ph(mem, disk, nextId, flights),
                  Ph(Decided(mem, E, "expired"), Decided(disk, E, "expired"), nextId, flights))
<1>1. \A c \in Cards : c \in E => mem[c].status = "pending"
  BY DEF Expirable
<1> QED BY <1>1, RefusalMoves DEF IInv

LEMMA CutMoves ==
    ASSUME IInv, NEW x \in Expirable(mem), ExpiryCut(x)
    PROVE  Onward(Ph(mem, disk, nextId, flights), Ph(mem', disk', nextId, flights))
<1> DEFINE Q == {c \in Expirable(mem) : c <= x}
           P == {c \in Expirable(mem) : c < x}
<1>1. \A c \in Cards : c \in Q => mem[c].status = "pending"
  BY DEF Expirable
<1>2. P \in SUBSET Q
  BY DEF Expirable, Cards
<1> HIDE DEF P, Q
<1>3. Onward(Ph(mem, disk, nextId, flights),
             Ph(Decided(mem, Q, "expired"), Decided(disk, P, "expired"), nextId, flights))
  BY <1>1, <1>2, RefusalMoves DEF IInv
<1> QED BY <1>3 DEF ExpiryCut, P, Q

LEMMA ListMoves == ASSUME IInv, List \/ ExpiryThrows PROVE Moved
<1>1. CASE List
  BY <1>1, ExpiryMoves DEF List, Moved
<1>2. CASE ExpiryThrows
  BY <1>2, CutMoves DEF ExpiryThrows, Moved
<1> QED BY <1>1, <1>2

LEMMA EnqueueMoves ==
    ASSUME IInv, NEW mode \in {"queue", "chat"}, NEW k \in Keys \cup {NoKey},
           NEW s \in Sessions, NEW ttl \in Ttls, Enqueue(mode, k, s, ttl)
    PROVE  Moved
<1> DEFINE E == IF k = NoKey THEN {} ELSE Expirable(mem)
           m == Decided(mem, E, "expired")
           d == Decided(disk, E, "expired")
           p0 == Ph(mem, disk, nextId, flights)
<1>1. Good(m, d, nextId, flights, ran) /\ Onward(p0, Ph(m, d, nextId, flights))
  BY ExpiryFirst, ExpiryMoves
<1> HIDE DEF m, d
<1>2. flights' = flights
  BY DEF Enqueue
<1>3. CASE mem' = m /\ disk' = d /\ nextId' = nextId
  BY <1>1, <1>2, <1>3 DEF Moved
<1>4. CASE /\ nextId <= MaxCards /\ nextId' = nextId + 1
           /\ \E code \in NewCodes(m) :
                LET card == NewCard(mode, k, s, code, ttl)
                IN  /\ mem' = [m EXCEPT ![nextId] = card]
                    /\ disk' = [d EXCEPT ![nextId] = card] \/ disk' = d
  <2>1. PICK code \in NewCodes(m) :
          /\ mem' = [m EXCEPT ![nextId] = NewCard(mode, k, s, code, ttl)]
          /\ disk' = [d EXCEPT ![nextId] = NewCard(mode, k, s, code, ttl)] \/ disk' = d
    BY <1>4
  <2> DEFINE card == NewCard(mode, k, s, code, ttl)
  <2>2. code \in Codes \cup {NoCode}
    BY DEF NewCodes
  <2>3. card \in Card /\ card.status = "pending"
    BY <2>2, BoundsAssumption DEF NewCard, Card, Statuses, IInv, Rest
  <2>4. nextId \in Cards
    BY <1>4 DEF IInv, Good, Cards
  <2> HIDE DEF card
  <2>5. /\ Onward(Ph(m, d, nextId, flights),
                  Ph([m EXCEPT ![nextId] = card], [d EXCEPT ![nextId] = card], nextId + 1, flights))
        /\ Onward(Ph(m, d, nextId, flights), Ph([m EXCEPT ![nextId] = card], d, nextId + 1, flights))
    BY <1>1, <2>3, <2>4, CreationMoves
  <2>6. Onward(Ph(m, d, nextId, flights), Ph(mem', disk', nextId', flights'))
    BY <1>2, <1>4, <2>1, <2>5 DEF card
  <2> QED BY <1>1, <2>6, OnwardOn DEF Moved
<1> QED BY <1>3, <1>4 DEF Enqueue, m, d

LEMMA ApproveMoves == ASSUME IInv, NEW c \in Cards, Approve(c) PROVE Moved
<1> DEFINE m == Decided(mem, Expirable(mem), "expired")
           d == Decided(disk, Expirable(mem), "expired")
           e == claims[c] + 1
<1>1. /\ Good(m, d, nextId, flights, ran)
      /\ Onward(Ph(mem, disk, nextId, flights), Ph(m, d, nextId, flights))
  BY ExpiryFirst, ExpiryMoves
<1>2. e \in Nat /\ m[c].status = "pending"
  BY DEF Approve, Claimable, IInv, Rest
<1> HIDE DEF m, d
<1>3. /\ Onward(Ph(m, d, nextId, flights),
                Ph(Claimed(m, c, e), Claimed(d, c, e), nextId, flights \cup {Fly(c, e, "surface")}))
      /\ Onward(Ph(m, d, nextId, flights), Ph(Claimed(m, c, e), d, nextId, flights))
  BY <1>1, <1>2, ClaimingMoves
<1>4. Onward(Ph(m, d, nextId, flights), Ph(mem', disk', nextId', flights'))
  BY <1>3 DEF Approve, m, d
<1> QED BY <1>1, <1>4, OnwardOn DEF Moved

LEMMA DenyMoves == ASSUME IInv, NEW c \in Cards, Deny(c) PROVE Moved
<1> DEFINE m == Decided(mem, Expirable(mem), "expired")
           d == Decided(disk, Expirable(mem), "expired")
           S == IF MayDecide(m, c, 0) THEN {c} ELSE {}
<1>1. /\ Good(m, d, nextId, flights, ran)
      /\ Onward(Ph(mem, disk, nextId, flights), Ph(m, d, nextId, flights))
  BY ExpiryFirst, ExpiryMoves
<1>2. \A x \in Cards : x \in S => m[x].status = "pending"
  BY DEF MayDecide
<1> HIDE DEF m, d, S
<1>3. /\ Onward(Ph(m, d, nextId, flights),
                Ph(Decided(m, S, "denied"), Decided(d, S, "denied"), nextId, flights))
      /\ Onward(Ph(m, d, nextId, flights), Ph(Decided(m, S, "denied"), d, nextId, flights))
  BY <1>1, <1>2, RefusalMoves
<1>4. Onward(Ph(m, d, nextId, flights), Ph(mem', disk', nextId', flights'))
  BY <1>3 DEF Deny, m, d, S
<1> QED BY <1>1, <1>4, OnwardOn DEF Moved

LEMMA FinishMoves == ASSUME IInv, NEW f \in flights, Finish(f) PROVE Moved
<1> DEFINE m == Decided(mem, Expirable(mem), "expired")
           d == Decided(disk, Expirable(mem), "expired")
           S == IF MayDecide(m, f.card, f.exec) THEN {f.card} ELSE {}
           G == flights \ {f}
<1>1. /\ Good(m, d, nextId, flights, ran)
      /\ Onward(Ph(mem, disk, nextId, flights), Ph(m, d, nextId, flights))
  BY ExpiryFirst, ExpiryMoves
<1>2. S \in SUBSET {f.card}
  OBVIOUS
<1> HIDE DEF m, d, S
<1>3. /\ Onward(Ph(m, d, nextId, flights),
                Ph(Decided(m, S, "approved"), Decided(d, S, "approved"), nextId, G))
      /\ Onward(Ph(m, d, nextId, flights), Ph(Decided(m, S, "approved"), d, nextId, G))
  BY <1>1, <1>2, FinishingMoves
<1>4. ASSUME /\ mem' = Decided(m, S, "approved")
             /\ disk' = Decided(d, S, "approved") \/ (DiskFaults /\ disk' = d)
      PROVE  Moved
  <2>1. Onward(Ph(m, d, nextId, flights), Ph(mem', disk', nextId', flights'))
    BY <1>3, <1>4 DEF Finish
  <2> QED BY <1>1, <2>1, OnwardOn DEF Moved
<1>5. ASSUME NEW x \in Expirable(mem), ExpiryCut(x) PROVE Moved
  <2>1. /\ Good(mem', disk', nextId, flights, ran)
        /\ Onward(Ph(mem, disk, nextId, flights), Ph(mem', disk', nextId, flights))
    BY <1>5, CutExpiry, CutMoves
  <2>2. Onward(Ph(mem', disk', nextId, flights), Ph(mem', disk', nextId, G))
    BY <2>1, FinishingMoves
  <2>3. Onward(Ph(mem, disk, nextId, flights), Ph(mem', disk', nextId, G))
    BY <2>1, <2>2, OnwardOn
  <2> QED BY <2>3 DEF Finish, Moved
<1> QED BY <1>4, <1>5 DEF Finish, m, d, S

-----------------------------------------------------------------------------
\* The runs of ownerInvoke, map by map.
LEMMA OwnerMoves ==
    ASSUME IInv, nextId \in Cards, NEW k \in Keys, NEW s \in Sessions
    PROVE  LET p0 == Ph(mem, disk, nextId, flights)
               n == nextId + 1
           IN  /\ Onward(p0, Ph(AfterOwnerEnqueue(mem, k, s), AfterOwnerEnqueue(disk, k, s), n, flights))
               /\ Onward(p0, Ph(AfterOwnerEnqueue(mem, k, s), disk, n, flights))
               /\ Onward(p0, Ph(AfterOwnerClaim(mem, k, s), AfterOwnerExpiry(disk, k, s), n, flights))
               /\ Onward(p0, Ph(AfterOwnerClaim(mem, k, s), AfterOwnerClaim(disk, k, s), n,
                                flights \cup {Fly(nextId, 1, "owner")}))
               /\ Onward(p0, Ph(AfterOwnerClaim(mem, k, s), AfterOwnerClaim(disk, k, s), n, flights))
<1> DEFINE card == OwnerCard(k, s)
           m1 == AfterOwnerEnqueue(mem, k, s)
           d1 == AfterOwnerEnqueue(disk, k, s)
           m2 == AfterOwnerExpiry(mem, k, s)
           d2 == AfterOwnerExpiry(disk, k, s)
           p0 == Ph(mem, disk, nextId, flights)
           n == nextId + 1
<1>1. card \in Card /\ card.status = "pending" /\ card.createdAt # 0
  BY BoundsAssumption DEF OwnerCard, NewCard, Card, Statuses, IInv, Rest
<1> HIDE DEF card
<1>2. Onward(p0, Ph(m1, d1, n, flights)) /\ Onward(p0, Ph(m1, disk, n, flights))
  BY <1>1, CreationMoves DEF IInv, AfterOwnerEnqueue, card
<1>3. Good(m1, d1, n, flights, ran)
  BY <1>1, Creation DEF IInv, AfterOwnerEnqueue, card
<1>4. \A c \in Cards : c \in Expirable(mem) => m1[c].status = "pending"
  BY <1>1 DEF Expirable, AfterOwnerEnqueue, card, IInv, Good
<1>5. m1[nextId].status = "pending" /\ nextId \notin Expirable(mem)
  BY <1>1 DEF AfterOwnerEnqueue, card, IInv, Good, Known, Absent, Expirable, Cards
<1> HIDE DEF m1, d1, p0, n
<1>6. Good(m2, d2, n, flights, ran) /\ Onward(Ph(m1, d1, n, flights), Ph(m2, d2, n, flights))
  BY <1>3, <1>4, Refusal, RefusalMoves DEF AfterOwnerExpiry, m1, d1
<1>7. m2[nextId].status = "pending"
  <2>1. m1 \in [Cards -> Card] /\ "expired" \in Statuses \ {"absent"}
    BY <1>3 DEF Good, Statuses
  <2>2. m2[nextId] = m1[nextId]
    BY <1>5, <2>1, DecidedCard DEF AfterOwnerExpiry, m1
  <2> QED BY <1>5, <2>2
<1>8. Onward(p0, Ph(m2, d2, n, flights))
  BY <1>2, <1>6, OnwardOn
<1> HIDE DEF m2, d2
<1> DEFINE m3 == Claimed(m2, nextId, 1)
           d3 == Claimed(d2, nextId, 1)
<1>9. /\ Onward(Ph(m2, d2, n, flights), Ph(m3, d3, n, flights \cup {Fly(nextId, 1, "owner")}))
      /\ Onward(Ph(m2, d2, n, flights), Ph(m3, d2, n, flights))
      /\ Onward(Ph(m2, d2, n, flights), Ph(m3, d3, n, flights))
  BY <1>6, <1>7, ClaimingMoves
<1> HIDE DEF m3, d3
<1>10. /\ Onward(p0, Ph(m3, d3, n, flights \cup {Fly(nextId, 1, "owner")}))
       /\ Onward(p0, Ph(m3, d2, n, flights))
       /\ Onward(p0, Ph(m3, d3, n, flights))
  BY <1>8, <1>9, OnwardOn
<1> QED BY <1>2, <1>10 DEF AfterOwnerClaim, m1, d1, m2, d2, m3, d3, n, p0

LEMMA OwnerRunMoves ==
    ASSUME IInv, NEW k \in Keys, NEW s \in Sessions, OwnerRun(k, s) PROVE Moved
<1> DEFINE m3 == AfterOwnerClaim(mem, k, s)
           d3 == AfterOwnerClaim(disk, k, s)
           X == OwnerSupersedes(k, s)
           G == flights \cup {Fly(nextId, 1, "owner")}
           n == nextId + 1
<1>1. OwnerBegins /\ nextId \in Cards
  BY OwnerRest DEF OwnerRun
<1>2. Good(m3, d3, n, G, ran) /\ Onward(Ph(mem, disk, nextId, flights), Ph(m3, d3, n, G))
  BY <1>1, OwnerMaps, OwnerMoves
<1>3. \A c \in Cards : c \in X => m3[c].status = "pending"
  BY DEF OwnerSupersedes, Superseded
<1> HIDE DEF m3, d3, X, G
<1>4. Onward(Ph(m3, d3, n, G), Ph(Decided(m3, X, "denied"), Decided(d3, X, "denied"), n, G))
  BY <1>2, <1>3, RefusalMoves
<1>5. mem' = Decided(m3, X, "denied") /\ disk' = Decided(d3, X, "denied") /\ nextId' = n /\ flights' = G
  BY <1>1, OwnerRest DEF OwnerRun, m3, d3, X, G
<1> QED BY <1>2, <1>4, <1>5, OnwardOn DEF Moved

LEMMA OwnerCutMoves ==
    ASSUME IInv, OwnerBegins, NEW k \in Keys, NEW s \in Sessions,
           NEW x \in OwnerSupersedes(k, s)
    PROVE  Onward(Ph(mem, disk, nextId, flights),
                  Ph(Decided(AfterOwnerClaim(mem, k, s), {c \in OwnerSupersedes(k, s) : c >= x}, "denied"),
                     Decided(AfterOwnerClaim(disk, k, s), {c \in OwnerSupersedes(k, s) : c > x}, "denied"),
                     nextId + 1, flights))
<1> DEFINE Q == {c \in OwnerSupersedes(k, s) : c >= x}
           P == {c \in OwnerSupersedes(k, s) : c > x}
           m3 == AfterOwnerClaim(mem, k, s)
           d3 == AfterOwnerClaim(disk, k, s)
           n == nextId + 1
<1>1. Good(m3, d3, n, flights, ran) /\ Onward(Ph(mem, disk, nextId, flights), Ph(m3, d3, n, flights))
  BY OwnerRest, OwnerMaps, OwnerMoves
<1>2. \A c \in Cards : c \in Q => m3[c].status = "pending"
  BY DEF OwnerSupersedes, Superseded
<1>3. P \in SUBSET Q
  BY DEF OwnerSupersedes, Superseded, Cards
<1> HIDE DEF m3, d3, P, Q
<1>4. Onward(Ph(m3, d3, n, flights), Ph(Decided(m3, Q, "denied"), Decided(d3, P, "denied"), n, flights))
  BY <1>1, <1>2, <1>3, RefusalMoves
<1> QED BY <1>1, <1>4, OnwardOn DEF m3, d3, P, Q

LEMMA OwnerExpiryMoves ==
    ASSUME IInv, OwnerBegins, NEW k \in Keys, NEW s \in Sessions, NEW x \in Expirable(mem)
    PROVE  Onward(Ph(mem, disk, nextId, flights),
                  Ph(Decided(AfterOwnerEnqueue(mem, k, s), {c \in Expirable(mem) : c <= x}, "expired"),
                     Decided(AfterOwnerEnqueue(disk, k, s), {c \in Expirable(mem) : c < x}, "expired"),
                     nextId + 1, flights))
<1> DEFINE Q == {c \in Expirable(mem) : c <= x}
           P == {c \in Expirable(mem) : c < x}
           m1 == AfterOwnerEnqueue(mem, k, s)
           d1 == AfterOwnerEnqueue(disk, k, s)
           n == nextId + 1
<1>1. Good(m1, d1, n, flights, ran) /\ Onward(Ph(mem, disk, nextId, flights), Ph(m1, d1, n, flights))
  BY OwnerRest, OwnerMaps, OwnerMoves
<1>2. \A c \in Cards : c \in Q => m1[c].status = "pending"
  BY OwnerPends
<1>3. P \in SUBSET Q
  BY DEF Expirable, Cards
<1> HIDE DEF m1, d1, P, Q
<1>4. Onward(Ph(m1, d1, n, flights), Ph(Decided(m1, Q, "expired"), Decided(d1, P, "expired"), n, flights))
  BY <1>1, <1>2, <1>3, RefusalMoves
<1> QED BY <1>1, <1>4, OnwardOn DEF m1, d1, P, Q

LEMMA OwnerRunThrowsMoves ==
    ASSUME IInv, NEW k \in Keys, NEW s \in Sessions, OwnerRunThrows(k, s) PROVE Moved
<1>1. OwnerBegins /\ nextId \in Cards /\ nextId' = nextId + 1 /\ flights' = flights
  BY OwnerRest DEF OwnerRunThrows
<1>2. ASSUME mem' = AfterOwnerEnqueue(mem, k, s), disk' = disk PROVE Moved
  BY <1>1, <1>2, OwnerMoves DEF Moved
<1>3. ASSUME mem' = AfterOwnerClaim(mem, k, s), disk' = AfterOwnerExpiry(disk, k, s) PROVE Moved
  BY <1>1, <1>3, OwnerMoves DEF Moved
<1>4. ASSUME NEW x \in OwnerSupersedes(k, s),
             mem' = Decided(AfterOwnerClaim(mem, k, s),
                            {c \in OwnerSupersedes(k, s) : c >= x}, "denied"),
             disk' = Decided(AfterOwnerClaim(disk, k, s),
                             {c \in OwnerSupersedes(k, s) : c > x}, "denied")
      PROVE  Moved
  BY <1>1, <1>4, OwnerCutMoves DEF Moved
<1>5. ASSUME NEW x \in Expirable(mem),
             mem' = Decided(AfterOwnerEnqueue(mem, k, s),
                            {c \in Expirable(mem) : c <= x}, "expired"),
             disk' = Decided(AfterOwnerEnqueue(disk, k, s),
                             {c \in Expirable(mem) : c < x}, "expired")
      PROVE  Moved
  BY <1>1, <1>5, OwnerExpiryMoves DEF Moved
<1> QED BY <1>2, <1>3, <1>4, <1>5 DEF OwnerRunThrows

LEMMA OwnerRunCrashesMoves ==
    ASSUME IInv, NEW k \in Keys, NEW s \in Sessions, OwnerRunCrashes(k, s) PROVE Moved
<1> DEFINE p0 == Ph(mem, disk, nextId, flights)
           n == nextId + 1
<1>1. OwnerBegins /\ Wiped /\ nextId \in Cards /\ nextId' = n
  BY OwnerRest DEF OwnerRunCrashes
<1>2. \E m : Good(m, disk', n, flights, ran) /\ Onward(p0, Ph(m, disk', n, flights))
  <2>1. ASSUME disk' = AfterOwnerEnqueue(disk, k, s)
        PROVE  \E m : Good(m, disk', n, flights, ran) /\ Onward(p0, Ph(m, disk', n, flights))
    <3>1. /\ Good(AfterOwnerEnqueue(mem, k, s), disk', n, flights, ran)
          /\ Onward(p0, Ph(AfterOwnerEnqueue(mem, k, s), disk', n, flights))
      BY <1>1, <2>1, OwnerMaps, OwnerMoves
    <3> QED BY <3>1
  <2>2. ASSUME NEW x \in OwnerSupersedes(k, s),
               disk' = Decided(AfterOwnerClaim(disk, k, s),
                               {c \in OwnerSupersedes(k, s) : c > x}, "denied")
        PROVE  \E m : Good(m, disk', n, flights, ran) /\ Onward(p0, Ph(m, disk', n, flights))
    <3> DEFINE m == Decided(AfterOwnerClaim(mem, k, s), {c \in OwnerSupersedes(k, s) : c >= x}, "denied")
    <3>1. Good(m, disk', n, flights, ran) /\ Onward(p0, Ph(m, disk', n, flights))
      BY <1>1, <2>2, OwnerCut, OwnerCutMoves
    <3> QED BY <3>1
  <2> QED BY <2>1, <2>2 DEF OwnerRunCrashes
<1>3. PICK m : Good(m, disk', n, flights, ran) /\ Onward(p0, Ph(m, disk', n, flights))
  BY <1>2
<1> HIDE DEF p0, n
<1>4. Onward(Ph(m, disk', n, flights), Ph(NoCards, disk', n, {}))
  BY <1>3, CrashingMoves
<1>5. Onward(p0, Ph(NoCards, disk', n, {}))
  BY <1>3, <1>4, OnwardOn
<1> QED BY <1>1, <1>5, WipedRest DEF Moved, p0

LEMMA CrashMoves == ASSUME IInv, Crash \/ Restart PROVE Moved
<1>1. CASE Crash
  <2>1. Onward(Ph(mem, disk, nextId, flights), Ph(NoCards, disk, nextId, {}))
    BY CrashingMoves DEF IInv
  <2> QED BY <1>1, <2>1, WipedRest DEF Crash, Moved
<1>2. CASE Restart
  <2>1. mem = NoCards /\ flights = {} /\ Good(NoCards, disk, nextId, {}, ran)
    BY <1>2 DEF Restart, IInv, Rest
  <2>2. Onward(Ph(NoCards, disk, nextId, {}), Ph(Recovered(disk), Recovered(disk), nextId, {}))
    BY <2>1, RecoveringMoves
  <2> QED BY <1>2, <2>1, <2>2 DEF Restart, Moved
<1> QED BY <1>1, <1>2

-----------------------------------------------------------------------------
(***************************************************************************)
(* The handler's effect is the promise's Acts; every other step moves.     *)
(***************************************************************************)

\* The abstract step, with the phases written out.
AbstractNext ==
    /\ Ph(mem', disk', nextId', flights') \in [Cards -> Promise!Phases]
    /\ ran' \in [Cards -> 0 .. 1]
    /\ \A c \in Cards :
         LET p == Ph(mem, disk, nextId, flights)[c]
             q == Ph(mem', disk', nextId', flights')[c]
         IN  \/ q \in Promise!After(p) /\ ran'[c] = ran[c]
             \/ p = "claimed" /\ q = "claimed" /\ ran[c] = 0 /\ ran'[c] = 1
             \/ q = p /\ ran'[c] = ran[c]

LEMMA HandlerActsAbstract == ASSUME IInv, NEW f \in flights, HandlerActs(f)
    PROVE  \A c \in Cards :
             LET p == Ph(mem, disk, nextId, flights)[c]
                 q == Ph(mem', disk', nextId', flights')[c]
             IN  \/ p = "claimed" /\ q = "claimed" /\ ran[c] = 0 /\ ran'[c] = 1
                 \/ q = p /\ ran'[c] = ran[c]
<1> DEFINE g == [f EXCEPT !.acted = TRUE]
<1>1. /\ f \in Flight /\ f.card \in Cards /\ g.card = f.card
      /\ ran[f.card] = 0 /\ disk[f.card].status \in {"executing", "absent"}
      /\ mem[f.card].status = "executing" /\ ran \in [Cards -> Nat]
  BY DEF IInv, Good, FlightsClaimed, Flight, HandlerActs
<1>2. ~(f.card >= nextId)
  BY <1>1 DEF IInv, Good, Known, Absent
<1>3. mem' = mem /\ disk' = disk /\ nextId' = nextId /\ flights' = (flights \ {f}) \cup {g}
  BY DEF HandlerActs
<1>4. ran'[f.card] = 1 /\ \A c \in Cards : c # f.card => ran'[c] = ran[c]
  BY <1>1 DEF HandlerActs
<1> HIDE DEF g
<1>5. \A c \in Cards : (\E h \in flights' : h.card = c) <=> (\E h \in flights : h.card = c)
  BY <1>1, <1>3
<1>6. \A c \in Cards : Ph(mem', disk', nextId', flights')[c] = Ph(mem, disk, nextId, flights)[c]
  BY <1>3, <1>5 DEF Ph, PhaseOf
<1>7. Ph(mem, disk, nextId, flights)[f.card] = "claimed"
  BY <1>1, <1>2, PhaseCases
<1> QED BY <1>1, <1>4, <1>6, <1>7

LEMMA StepAbstract == ASSUME IInv, [Next]_vars PROVE AbstractNext
<1>1. IInv'
  BY StepIInv DEF StepOK
<1>2. Ph(mem', disk', nextId', flights') \in [Cards -> Promise!Phases]
  BY DEF Ph, PhaseOf, Promise!Phases
<1>3. ran' \in [Cards -> 0 .. 1]
  BY <1>1 DEF IInv, Good, SpentStaysSpent
<1>4. ASSUME Moved, ran' = ran
      PROVE  AbstractNext
  BY <1>2, <1>3, <1>4 DEF Moved, Onward, AbstractNext
<1>5. CASE UNCHANGED vars
  BY <1>4, <1>5, OnwardStays DEF vars, Moved
<1>6. CASE List \/ ExpiryThrows \/ Crash \/ Restart
  BY <1>4, <1>6, ListMoves, CrashMoves DEF List, ExpiryThrows, Crash, Restart
<1>7. CASE Tick
  BY <1>4, <1>7, OnwardStays DEF Tick, Moved
<1>8. CASE \E k \in Keys \cup {NoKey}, s \in Sessions, ttl \in Ttls :
             Enqueue("queue", k, s, ttl) \/ Enqueue("chat", k, s, ttl)
  BY <1>4, <1>8, EnqueueMoves DEF Enqueue
<1>9. CASE \E k \in Keys, s \in Sessions :
             OwnerRun(k, s) \/ OwnerRunThrows(k, s) \/ OwnerRunCrashes(k, s)
  <2>1. Moved
    BY <1>9, OwnerRunMoves, OwnerRunThrowsMoves, OwnerRunCrashesMoves
  <2>2. ran' = ran
    BY <1>9 DEF OwnerRun, OwnerRunThrows, OwnerRunCrashes, OwnerBegins
  <2> QED BY <1>4, <2>1, <2>2
<1>10. CASE \E c \in Cards : Approve(c) \/ Deny(c)
  BY <1>4, <1>10, ApproveMoves, DenyMoves DEF Approve, Deny
<1>11. CASE \E f \in flights : Finish(f)
  BY <1>4, <1>11, FinishMoves DEF Finish
<1>12. CASE \E f \in flights : HandlerActs(f)
  BY <1>2, <1>3, <1>12, HandlerActsAbstract DEF AbstractNext
<1> QED BY <1>5, <1>6, <1>7, <1>8, <1>9, <1>10, <1>11, <1>12 DEF Next

\* The store keeps the promise: every behaviour of Approvals, with its racing
\* surfaces, failing appends and crashes, is one of OneShotPromise.
THEOREM Implements == Spec => KeepsPromise
<1>1. Init => Promise!Init
  <2> SUFFICES ASSUME Init PROVE Promise!Init
    OBVIOUS
  <2>1. \A c \in Cards : PhaseOf(mem, disk, nextId, flights, c) = "unasked"
    BY DEF Init, NoCards, Absent, PhaseOf, Cards
  <2> QED BY <2>1 DEF Init, Promise!Init
<1>2. IInv /\ [Next]_vars => [Promise!Next]_Promise!vars
  BY StepAbstract DEF AbstractNext, Ph, Promise!Next, Promise!Moves, Promise!Acts, Promise!Stays
<1> QED BY Inductive, <1>1, <1>2, PTL DEF Spec, KeepsPromise, Promise!Spec
=============================================================================
