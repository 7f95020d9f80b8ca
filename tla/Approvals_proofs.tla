--------------------------- MODULE Approvals_proofs ---------------------------
(***************************************************************************)
(* Proofs about Approvals, for every number of cards, every set of keys,   *)
(* chats, codes and lifetimes, any number of crashes, and with or without  *)
(* journal appends that throw.                                             *)
(***************************************************************************)
EXTENDS Approvals, TLAPS

(***************************************************************************)
(* The inductive invariant.  AtMostOnce and RefusedNeverRan speak of the   *)
(* effect of a tool; what makes them hold is how the three places a claim  *)
(* is recorded (memory m, journal d, flights F) stay aligned.  The parts   *)
(* take the maps as parameters, because one run of the daemon goes through *)
(* several: expire, then change one card.                                  *)
(***************************************************************************)

\* A present card has a creation time; an id not given out has left no trace.
Known(m, d, n) ==
    \A c \in Cards :
        /\ m[c].status # "absent" => m[c].createdAt # 0
        /\ d[c].status # "absent" => d[c].createdAt # 0
        /\ c >= n => m[c] = Absent /\ d[c] = Absent

\* The journal is never ahead of a card that can still move.
Aligned(m, d) ==
    \A c \in Cards :
        /\ m[c].status = "pending" => d[c].status \in {"pending", "absent"}
        /\ m[c].status = "executing"
             => d[c].status \in {"pending", "executing", "absent"}

\* A handler flies only under a claim that reached the journal (or whose card
\* never did, so that no replay can offer it again), and alone.
FlightsClaimed(m, d, F, r) ==
    /\ \A f \in F : /\ m[f.card].status = "executing"
                    /\ d[f.card].status \in {"executing", "absent"}
                    /\ ~f.acted => r[f.card] = 0
    /\ \A f, g \in F : f.card = g.card => f = g

\* A card whose tool took effect is never pending, denied or expired again.
Spent == {"absent", "executing", "approved", "interrupted"}
SpentStaysSpent(m, d, n, r) ==
    \A c \in Cards :
        /\ r[c] <= 1
        /\ r[c] # 0 => c < n /\ m[c].status \in Spent /\ d[c].status \in Spent

Good(m, d, n, F, r) ==
    /\ m \in [Cards -> Card] /\ d \in [Cards -> Card]
    /\ n \in 1 .. MaxCards + 1 /\ F \subseteq Flight /\ r \in [Cards -> Nat]
    /\ Known(m, d, n) /\ Aligned(m, d)
    /\ FlightsClaimed(m, d, F, r) /\ SpentStaysSpent(m, d, n, r)

\* The variables Good does not speak of.
Rest ==
    /\ up \in BOOLEAN /\ now \in 1 .. MaxNow /\ restarts \in Nat
    /\ claims \in [Cards -> Nat]
    /\ ~up => mem = NoCards /\ flights = {}
    /\ \A c \in Cards : c >= nextId => claims[c] = 0

IInv == Rest /\ Good(mem, disk, nextId, flights, ran)

\* Nothing the journal called over is touched on the way from d to d2.
Keeps(d, d2) == \A c \in Cards : d[c].status \in Terminal => d2[c].status = d[c].status

-----------------------------------------------------------------------------
(***************************************************************************)
(* What the store's steps do to one card.                                  *)
(***************************************************************************)

\* A decide event changes nothing but the status, and only of present cards
\* among those it names.
LEMMA DecidedCard ==
    ASSUME NEW m \in [Cards -> Card], NEW S, NEW st \in Statuses \ {"absent"}
    PROVE  /\ Decided(m, S, st) \in [Cards -> Card]
           /\ \A c \in Cards :
                /\ c \in S /\ m[c].status # "absent" => Decided(m, S, st)[c].status = st
                /\ ~(c \in S /\ m[c].status # "absent") => Decided(m, S, st)[c] = m[c]
                /\ Decided(m, S, st)[c].createdAt = m[c].createdAt
                /\ Decided(m, S, st)[c].mode = m[c].mode
                /\ Decided(m, S, st)[c].key = m[c].key
                /\ Decided(m, S, st)[c].session = m[c].session
                /\ m[c].status = "absent" <=> Decided(m, S, st)[c].status = "absent"
  BY DEF Decided, Card, Statuses

\* A claim event moves one pending card to executing and changes nothing else.
LEMMA ClaimedCard ==
    ASSUME NEW m \in [Cards -> Card], NEW x \in Cards, NEW e \in Nat
    PROVE  /\ Claimed(m, x, e) \in [Cards -> Card]
           /\ m[x].status = "pending" => Claimed(m, x, e)[x].status = "executing"
           /\ \A c \in Cards :
                /\ c # x => Claimed(m, x, e)[c] = m[c]
                /\ m[c].status # "pending" => Claimed(m, x, e)[c] = m[c]
                /\ Claimed(m, x, e)[c].createdAt = m[c].createdAt
                /\ Claimed(m, x, e)[c].mode = m[c].mode
                /\ Claimed(m, x, e)[c].key = m[c].key
                /\ Claimed(m, x, e)[c].session = m[c].session
  BY DEF Claimed, Claimable, Card, Statuses

-----------------------------------------------------------------------------
(***************************************************************************)
(* Each step of the store keeps the maps good.                             *)
(***************************************************************************)

\* Refusing (expiring, denying) some pending cards, when the journal has only
\* got as far as some of them.
LEMMA Refusal ==
    ASSUME NEW m, NEW d, NEW n, NEW F, NEW r, Good(m, d, n, F, r),
           NEW st \in {"denied", "expired"}, NEW Q, NEW P \in SUBSET Q,
           \A c \in Cards : c \in Q => m[c].status = "pending"
    PROVE  /\ Good(Decided(m, Q, st), Decided(d, P, st), n, F, r)
           /\ Good(Decided(m, Q, st), d, n, F, r)
           /\ Keeps(d, Decided(d, P, st))
<1> DEFINE m2 == Decided(m, Q, st)
           d2 == Decided(d, P, st)
<1>0. st \in Statuses \ {"absent"} /\ m \in [Cards -> Card] /\ d \in [Cards -> Card]
  BY DEF Good, Statuses
<1>1. /\ m2 \in [Cards -> Card]
      /\ \A c \in Cards : /\ c \in Q => m2[c].status = st
                          /\ c \notin Q => m2[c] = m[c]
                          /\ m2[c].createdAt = m[c].createdAt
                          /\ m[c].status = "absent" <=> m2[c].status = "absent"
  BY <1>0, DecidedCard
<1>2. /\ d2 \in [Cards -> Card]
      /\ \A c \in Cards : /\ c \in P /\ d[c].status # "absent" => d2[c].status = st
                          /\ ~(c \in P /\ d[c].status # "absent") => d2[c] = d[c]
                          /\ d2[c].createdAt = d[c].createdAt
                          /\ d[c].status = "absent" <=> d2[c].status = "absent"
  BY <1>0, DecidedCard
<1>3. \A c \in Cards : c \in Q => d[c].status \in {"pending", "absent"}
  BY DEF Good, Aligned
<1>4. \A c \in Cards : c \in Q => c < n /\ r[c] = 0
  <2>1. \A c \in Cards : m[c].status = "pending" => c < n
    BY <1>0 DEF Good, Known, Absent, Cards
  <2>2. \A c \in Cards : m[c].status = "pending" => r[c] = 0
    BY DEF Good, SpentStaysSpent, Spent
  <2> QED BY <2>1, <2>2
<1>5. \A f \in F : f.card \in Cards /\ f.card \notin Q
  BY DEF Good, FlightsClaimed, Flight
<1> HIDE DEF m2, d2
<1>6. Known(m2, d2, n) /\ Known(m2, d, n)
  BY <1>1, <1>2, <1>4 DEF Good, Known, Cards
<1>7. Aligned(m2, d2) /\ Aligned(m2, d)
  BY <1>1, <1>2 DEF Good, Aligned
<1>8. FlightsClaimed(m2, d2, F, r) /\ FlightsClaimed(m2, d, F, r)
  BY <1>1, <1>2, <1>5 DEF Good, FlightsClaimed
<1>9. SpentStaysSpent(m2, d2, n, r) /\ SpentStaysSpent(m2, d, n, r)
  BY <1>1, <1>2, <1>4 DEF Good, SpentStaysSpent
<1>10. Keeps(d, d2)
  BY <1>2, <1>3 DEF Keeps, Terminal
<1> QED BY <1>1, <1>2, <1>6, <1>7, <1>8, <1>9, <1>10 DEF Good, m2, d2

\* A new pending card enters the memory, and perhaps the journal.
LEMMA Creation ==
    ASSUME NEW m, NEW d, NEW n, NEW F, NEW r, Good(m, d, n, F, r), n \in Cards,
           NEW card \in Card, card.status = "pending", card.createdAt # 0
    PROVE  /\ Good([m EXCEPT ![n] = card], [d EXCEPT ![n] = card], n + 1, F, r)
           /\ Good([m EXCEPT ![n] = card], d, n + 1, F, r)
           /\ Keeps(d, [d EXCEPT ![n] = card])
<1> DEFINE m2 == [m EXCEPT ![n] = card]
           d2 == [d EXCEPT ![n] = card]
<1>0. m \in [Cards -> Card] /\ d \in [Cards -> Card] /\ n \in Nat /\ n <= MaxCards
  BY DEF Good, Cards
<1>1. /\ m2 \in [Cards -> Card] /\ m2[n] = card
      /\ \A c \in Cards : c # n => m2[c] = m[c]
  BY <1>0
<1>2. /\ d2 \in [Cards -> Card] /\ d2[n] = card
      /\ \A c \in Cards : c # n => d2[c] = d[c]
  BY <1>0
<1>3. m[n].status = "absent" /\ d[n].status = "absent" /\ r[n] = 0
  BY <1>0 DEF Good, Known, Absent, SpentStaysSpent, Cards
<1>4. \A f \in F : f.card \in Cards /\ f.card # n
  BY <1>3 DEF Good, FlightsClaimed, Flight
<1>5. n + 1 \in 1 .. MaxCards + 1 /\ \A c \in Cards : c >= n + 1 => c >= n /\ c # n
  BY <1>0, BoundsAssumption DEF Cards
<1>6. \A c \in Cards : c < n => c < n + 1
  BY <1>0 DEF Cards
<1> HIDE DEF m2, d2
<1>7. Known(m2, d2, n + 1) /\ Known(m2, d, n + 1)
  BY <1>1, <1>2, <1>3, <1>5 DEF Good, Known
<1>8. Aligned(m2, d2) /\ Aligned(m2, d)
  BY <1>1, <1>2, <1>3 DEF Good, Aligned
<1>9. FlightsClaimed(m2, d2, F, r) /\ FlightsClaimed(m2, d, F, r)
  BY <1>1, <1>2, <1>4 DEF Good, FlightsClaimed
<1>10. SpentStaysSpent(m2, d2, n + 1, r) /\ SpentStaysSpent(m2, d, n + 1, r)
  BY <1>1, <1>2, <1>3, <1>6 DEF Good, SpentStaysSpent
<1>11. Keeps(d, d2)
  BY <1>2, <1>3 DEF Keeps, Terminal
<1> QED BY <1>0, <1>1, <1>2, <1>5, <1>7, <1>8, <1>9, <1>10, <1>11 DEF Good, m2, d2

\* A pending card is claimed and its handler called; or the journal failed, and
\* nothing is called.
LEMMA Claiming ==
    ASSUME NEW m, NEW d, NEW n, NEW F, NEW r, Good(m, d, n, F, r),
           NEW c \in Cards, m[c].status = "pending",
           NEW e \in Nat, NEW by \in {"surface", "owner"}
    PROVE  /\ Good(Claimed(m, c, e), Claimed(d, c, e), n, F \cup {Fly(c, e, by)}, r)
           /\ Good(Claimed(m, c, e), d, n, F, r)
           /\ Keeps(d, Claimed(d, c, e))
<1> DEFINE m2 == Claimed(m, c, e)
           d2 == Claimed(d, c, e)
           G == F \cup {Fly(c, e, by)}
<1>0. m \in [Cards -> Card] /\ d \in [Cards -> Card]
  BY DEF Good
<1>1. /\ m2 \in [Cards -> Card] /\ m2[c].status = "executing"
      /\ \A x \in Cards : /\ x # c => m2[x] = m[x]
                          /\ m2[x].createdAt = m[x].createdAt
  BY <1>0, ClaimedCard
<1>2. /\ d2 \in [Cards -> Card]
      /\ d[c].status = "pending" => d2[c].status = "executing"
      /\ \A x \in Cards : /\ x # c => d2[x] = d[x]
                          /\ d[x].status # "pending" => d2[x] = d[x]
                          /\ d2[x].createdAt = d[x].createdAt
  BY <1>0, ClaimedCard
<1>3. d[c].status \in {"pending", "absent"} /\ d2[c].status \in {"executing", "absent"}
  BY <1>2 DEF Good, Aligned
<1>4. c < n /\ r[c] = 0 /\ m[c].createdAt # 0
  <2>1. c < n /\ m[c].createdAt # 0
    BY <1>0 DEF Good, Known, Absent, Cards
  <2> QED BY <2>1 DEF Good, SpentStaysSpent, Spent
<1>5. \A f \in F : f.card \in Cards /\ f.card # c
  BY DEF Good, FlightsClaimed, Flight
<1>6. Fly(c, e, by) \in Flight /\ Fly(c, e, by).card = c /\ ~Fly(c, e, by).acted
  BY DEF Fly, Flight
<1>7. \A x \in Cards : x >= n => x # c
  BY <1>4 DEF Good, Cards
<1> HIDE DEF m2, d2
<1>8. Known(m2, d2, n) /\ Known(m2, d, n)
  BY <1>1, <1>2, <1>4, <1>7 DEF Good, Known
<1>9. Aligned(m2, d2) /\ Aligned(m2, d)
  BY <1>1, <1>2, <1>3 DEF Good, Aligned
<1>10. FlightsClaimed(m2, d2, G, r) /\ FlightsClaimed(m2, d, F, r)
  BY <1>1, <1>2, <1>3, <1>4, <1>5, <1>6 DEF Good, FlightsClaimed
<1>11. SpentStaysSpent(m2, d2, n, r) /\ SpentStaysSpent(m2, d, n, r)
  BY <1>1, <1>2, <1>4 DEF Good, SpentStaysSpent
<1>12. Keeps(d, d2)
  BY <1>2, <1>3 DEF Keeps, Terminal
<1> QED BY <1>0, <1>1, <1>2, <1>6, <1>8, <1>9, <1>10, <1>11, <1>12 DEF Good, m2, d2

\* A handler that returned: its claim is decided, or the journal failed first.
LEMMA Finishing ==
    ASSUME NEW m, NEW d, NEW n, NEW F, NEW r, Good(m, d, n, F, r), NEW f \in F,
           NEW S \in SUBSET {f.card}
    PROVE  /\ Good(Decided(m, S, "approved"), Decided(d, S, "approved"), n, F \ {f}, r)
           /\ Good(Decided(m, S, "approved"), d, n, F \ {f}, r)
           /\ Good(m, d, n, F \ {f}, r)
           /\ Keeps(d, Decided(d, S, "approved"))
<1> DEFINE m2 == Decided(m, S, "approved")
           d2 == Decided(d, S, "approved")
           G == F \ {f}
<1>0. /\ "approved" \in Statuses \ {"absent"}
      /\ m \in [Cards -> Card] /\ d \in [Cards -> Card] /\ f.card \in Cards
  BY DEF Good, Statuses, Flight
<1>1. /\ m2 \in [Cards -> Card]
      /\ \A c \in Cards : /\ c \in S /\ m[c].status # "absent" => m2[c].status = "approved"
                          /\ ~(c \in S /\ m[c].status # "absent") => m2[c] = m[c]
                          /\ m2[c].createdAt = m[c].createdAt
                          /\ m[c].status = "absent" <=> m2[c].status = "absent"
  BY <1>0, DecidedCard
<1>2. /\ d2 \in [Cards -> Card]
      /\ \A c \in Cards : /\ c \in S /\ d[c].status # "absent" => d2[c].status = "approved"
                          /\ ~(c \in S /\ d[c].status # "absent") => d2[c] = d[c]
                          /\ d2[c].createdAt = d[c].createdAt
                          /\ d[c].status = "absent" <=> d2[c].status = "absent"
  BY <1>0, DecidedCard
<1>3. /\ m[f.card].status = "executing"
      /\ d[f.card].status \in {"executing", "absent"}
      /\ \A g \in G : g.card # f.card /\ g.card \in Cards
  BY DEF Good, FlightsClaimed, Flight
<1>4. \A c \in Cards : c >= n => m[c].status = "absent" /\ d[c].status = "absent"
  BY DEF Good, Known, Absent
<1> HIDE DEF m2, d2
<1>5. Known(m2, d2, n) /\ Known(m2, d, n)
  BY <1>1, <1>2, <1>4 DEF Good, Known
<1>6. Aligned(m2, d2) /\ Aligned(m2, d)
  BY <1>1, <1>2, <1>3 DEF Good, Aligned
<1>7. FlightsClaimed(m2, d2, G, r) /\ FlightsClaimed(m2, d, G, r) /\ FlightsClaimed(m, d, G, r)
  BY <1>1, <1>2, <1>3 DEF Good, FlightsClaimed
<1>8. SpentStaysSpent(m2, d2, n, r) /\ SpentStaysSpent(m2, d, n, r)
  BY <1>1, <1>2 DEF Good, SpentStaysSpent, Spent
<1>9. Keeps(d, d2)
  BY <1>2, <1>3 DEF Keeps, Terminal
<1> QED BY <1>1, <1>2, <1>5, <1>6, <1>7, <1>8, <1>9 DEF Good, m2, d2

\* The handler of a flight that had no effect yet has its effect.
LEMMA Acting ==
    ASSUME NEW m, NEW d, NEW n, NEW F, NEW r, Good(m, d, n, F, r), NEW f \in F, ~f.acted
    PROVE  Good(m, d, n, (F \ {f}) \cup {[f EXCEPT !.acted = TRUE]},
                [r EXCEPT ![f.card] = @ + 1])
<1> DEFINE f2 == [f EXCEPT !.acted = TRUE]
           G == (F \ {f}) \cup {f2}
           r2 == [r EXCEPT ![f.card] = @ + 1]
<1>1. /\ f \in Flight /\ f2 \in Flight /\ f2.card = f.card /\ f2.acted /\ f.card \in Cards
      /\ G \subseteq Flight
  BY DEF Good, Flight
<1>2. /\ m[f.card].status = "executing" /\ d[f.card].status \in {"executing", "absent"}
      /\ r[f.card] = 0 /\ \A g \in F \ {f} : g.card # f.card /\ g.card \in Cards
  BY DEF Good, FlightsClaimed, Flight
<1>3. /\ r2 \in [Cards -> Nat] /\ r2[f.card] = 1
      /\ \A c \in Cards : c # f.card => r2[c] = r[c]
  BY <1>1, <1>2 DEF Good
<1>4. f.card < n
  BY <1>1, <1>2 DEF Good, Known, Absent, Cards
<1> HIDE DEF f2, r2
<1>5. FlightsClaimed(m, d, G, r2)
  BY <1>1, <1>2, <1>3 DEF Good, FlightsClaimed
<1>6. SpentStaysSpent(m, d, n, r2)
  BY <1>2, <1>3, <1>4 DEF Good, SpentStaysSpent, Spent
<1> QED BY <1>1, <1>3, <1>5, <1>6 DEF Good, f2, r2

\* A crash leaves the journal; the recovery closes what was executing and
\* expires what was due, in both.
LEMMA Crashing ==
    ASSUME NEW m, NEW d, NEW n, NEW F, NEW r, Good(m, d, n, F, r)
    PROVE  Good(NoCards, d, n, {}, r)
<1>1. Absent \in Card
  BY BoundsAssumption DEF Absent, Card, Statuses
<1>2. NoCards \in [Cards -> Card] /\ \A c \in Cards : NoCards[c] = Absent
  BY <1>1 DEF NoCards
<1>3. Absent.status = "absent"
  BY DEF Absent
<1> QED BY <1>2, <1>3 DEF Good, Known, Aligned, FlightsClaimed, SpentStaysSpent, Spent

LEMMA Recovering ==
    ASSUME NEW d, NEW n, NEW r, Good(NoCards, d, n, {}, r)
    PROVE  Good(Recovered(d), Recovered(d), n, {}, r) /\ Keeps(d, Recovered(d))
<1> DEFINE X == {c \in Cards : d[c].status = "executing"}
           d2 == Decided(d, X, "interrupted")
<1>0. "interrupted" \in Statuses \ {"absent"} /\ d \in [Cards -> Card]
  BY DEF Good, Statuses
<1>1. /\ d2 \in [Cards -> Card]
      /\ \A c \in Cards : /\ d[c].status = "executing" => d2[c].status = "interrupted"
                          /\ d[c].status # "executing" => d2[c] = d[c]
                          /\ d2[c].createdAt = d[c].createdAt
                          /\ d[c].status = "absent" <=> d2[c].status = "absent"
  BY <1>0, DecidedCard
<1>2. \A c \in Cards : c >= n => d[c].status = "absent" /\ d[c] = Absent
  BY DEF Good, Known, Absent
<1> HIDE DEF d2
<1>3. Known(d2, d2, n) /\ Aligned(d2, d2) /\ FlightsClaimed(d2, d2, {}, r)
  BY <1>1, <1>2 DEF Good, Known, Aligned, FlightsClaimed
<1>4. SpentStaysSpent(d2, d2, n, r)
  BY <1>1 DEF Good, SpentStaysSpent, Spent
<1>5. Good(d2, d2, n, {}, r) /\ Keeps(d, d2)
  BY <1>1, <1>3, <1>4 DEF Good, Keeps, Terminal
<1>6. \A c \in Cards : c \in Expirable(d) => d2[c].status = "pending"
  BY <1>1 DEF Expirable
<1>7. /\ Good(Decided(d2, Expirable(d), "expired"), Decided(d2, Expirable(d), "expired"), n, {}, r)
      /\ Keeps(d2, Decided(d2, Expirable(d), "expired"))
  BY <1>5, <1>6, Refusal
<1> QED BY <1>5, <1>7 DEF Recovered, Keeps, d2

-----------------------------------------------------------------------------
(***************************************************************************)
(* The invariant holds initially and every action of Next keeps it.        *)
(***************************************************************************)
LEMMA InitIInv == Init => IInv
<1> SUFFICES ASSUME Init PROVE IInv
  OBVIOUS
<1>1. Absent \in Card /\ Absent.status = "absent"
  BY BoundsAssumption DEF Absent, Card, Statuses
<1>2. NoCards \in [Cards -> Card] /\ \A c \in Cards : NoCards[c] = Absent
  BY <1>1 DEF NoCards
<1>3. /\ ran \in [Cards -> Nat] /\ claims \in [Cards -> Nat]
      /\ \A c \in Cards : ran[c] = 0 /\ claims[c] = 0
      /\ 1 \in 1 .. MaxNow /\ 1 \in 1 .. MaxCards + 1
  BY BoundsAssumption DEF Init, Times
<1>4. Rest
  BY <1>1, <1>2, <1>3 DEF Init, Rest
<1>5. Good(mem, disk, nextId, flights, ran)
  BY <1>1, <1>2, <1>3 DEF Init, Good, Known, Aligned, FlightsClaimed, SpentStaysSpent, Spent
<1> QED BY <1>4, <1>5 DEF IInv

LEMMA IInvTypes == IInv => TypeOK
<1> SUFFICES ASSUME IInv PROVE TypeOK
  OBVIOUS
<1>1. \A c \in Cards : c >= nextId => ran[c] = 0
  BY DEF IInv, Good, SpentStaysSpent, Cards
<1>2. \A f \in flights : f.card < nextId
  BY DEF IInv, Good, FlightsClaimed, Known, Absent, Flight, Cards
<1> QED BY <1>1, <1>2 DEF TypeOK, IInv, Rest, Good, Known

\* What the proof of one action has to show.
StepOK == IInv' /\ Keeps(disk, disk')

\* The maps every store call works on once _expirePending has run.
LEMMA ExpiryFirst ==
    ASSUME IInv, NEW E \in {{}, Expirable(mem)}
    PROVE  /\ Good(Decided(mem, E, "expired"), Decided(disk, E, "expired"), nextId, flights, ran)
           /\ Keeps(disk, Decided(disk, E, "expired"))
<1>1. \A c \in Cards : c \in E => mem[c].status = "pending"
  BY DEF Expirable
<1> QED BY <1>1, Refusal DEF IInv

LEMMA CutExpiry ==
    ASSUME IInv, NEW x \in Expirable(mem), ExpiryCut(x)
    PROVE  Good(mem', disk', nextId, flights, ran) /\ Keeps(disk, disk')
<1> DEFINE Q == {c \in Expirable(mem) : c <= x}
           P == {c \in Expirable(mem) : c < x}
<1>1. \A c \in Cards : c \in Q => mem[c].status = "pending"
  BY DEF Expirable
<1>2. P \in SUBSET Q
  BY DEF Expirable, Cards
<1> HIDE DEF P, Q
<1>3. /\ Good(Decided(mem, Q, "expired"), Decided(disk, P, "expired"), nextId, flights, ran)
      /\ Keeps(disk, Decided(disk, P, "expired"))
  BY <1>1, <1>2, Refusal DEF IInv
<1> QED BY <1>3 DEF ExpiryCut, P, Q

LEMMA KeepsAll ==
    ASSUME NEW d PROVE Keeps(d, d)
  BY DEF Keeps

LEMMA KeepsOn ==
    ASSUME NEW a, NEW b, NEW c, Keeps(a, b), Keeps(b, c) PROVE Keeps(a, c)
  BY DEF Keeps

LEMMA ListStep == ASSUME IInv, List PROVE StepOK
<1>1. Good(mem', disk', nextId', flights', ran') /\ Keeps(disk, disk')
  BY ExpiryFirst DEF List
<1>2. Rest'
  BY DEF List, IInv, Rest
<1> QED BY <1>1, <1>2 DEF StepOK, IInv

LEMMA ExpiryThrowsStep == ASSUME IInv, ExpiryThrows PROVE StepOK
<1>1. Good(mem', disk', nextId', flights', ran') /\ Keeps(disk, disk')
  BY CutExpiry DEF ExpiryThrows
<1>2. Rest'
  BY DEF ExpiryThrows, IInv, Rest
<1> QED BY <1>1, <1>2 DEF StepOK, IInv

LEMMA EnqueueStep ==
    ASSUME IInv, NEW mode \in {"queue", "chat"}, NEW k \in Keys \cup {NoKey},
           NEW s \in Sessions, NEW ttl \in Ttls, Enqueue(mode, k, s, ttl)
    PROVE  StepOK
<1> DEFINE E == IF k = NoKey THEN {} ELSE Expirable(mem)
           m == Decided(mem, E, "expired")
           d == Decided(disk, E, "expired")
<1>1. Good(m, d, nextId, flights, ran) /\ Keeps(disk, d)
  BY ExpiryFirst
<1> HIDE DEF m, d
<1>2. UNCHANGED <<up, now, flights, claims, ran, restarts>> /\ up
  BY DEF Enqueue
<1>3. CASE mem' = m /\ disk' = d /\ UNCHANGED nextId
  <2>1. Good(mem', disk', nextId', flights', ran') /\ Keeps(disk, disk')
    BY <1>1, <1>2, <1>3
  <2> QED BY <1>2, <1>3, <2>1 DEF StepOK, IInv, Rest
<1>4. CASE /\ nextId <= MaxCards /\ nextId' = nextId + 1
           /\ \E code \in NewCodes(m) :
                LET card == NewCard(mode, k, s, code, ttl)
                IN  /\ mem' = [m EXCEPT ![nextId] = card]
                    /\ \/ disk' = [d EXCEPT ![nextId] = card]
                       \/ DiskFaults /\ disk' = d
  <2>1. PICK code \in NewCodes(m) :
          /\ mem' = [m EXCEPT ![nextId] = NewCard(mode, k, s, code, ttl)]
          /\ \/ disk' = [d EXCEPT ![nextId] = NewCard(mode, k, s, code, ttl)]
             \/ disk' = d
    BY <1>4
  <2> DEFINE card == NewCard(mode, k, s, code, ttl)
  <2>2. code \in Codes \cup {NoCode}
    BY DEF NewCodes
  <2>3. card \in Card /\ card.status = "pending" /\ card.createdAt # 0
    BY <2>2, BoundsAssumption DEF NewCard, Card, Statuses, IInv, Rest
  <2>4. nextId \in Cards
    BY <1>4 DEF IInv, Good, Cards
  <2> HIDE DEF card
  <2>5. /\ Good([m EXCEPT ![nextId] = card], [d EXCEPT ![nextId] = card], nextId + 1, flights, ran)
        /\ Good([m EXCEPT ![nextId] = card], d, nextId + 1, flights, ran)
        /\ Keeps(d, [d EXCEPT ![nextId] = card])
    BY <1>1, <2>3, <2>4, Creation
  <2>6. Good(mem', disk', nextId', flights', ran') /\ Keeps(disk, disk')
    BY <1>1, <1>2, <1>4, <2>1, <2>5, KeepsOn DEF card
  <2>7. \A c \in Cards : c >= nextId' => c >= nextId
    BY <1>4, <2>1, <2>4 DEF IInv, Rest, Good, Times, Cards
  <2> QED BY <1>2, <2>6, <2>7 DEF StepOK, IInv, Rest
<1> QED BY <1>3, <1>4 DEF Enqueue, m, d

LEMMA ApproveStep == ASSUME IInv, NEW c \in Cards, Approve(c) PROVE StepOK
<1> DEFINE m == Decided(mem, Expirable(mem), "expired")
           d == Decided(disk, Expirable(mem), "expired")
           e == claims[c] + 1
<1>1. Good(m, d, nextId, flights, ran) /\ Keeps(disk, d)
  BY ExpiryFirst
<1>2. e \in Nat /\ m[c].status = "pending"
  BY DEF Approve, Claimable, IInv, Rest
<1> HIDE DEF m, d
<1>3. /\ Good(Claimed(m, c, e), Claimed(d, c, e), nextId, flights \cup {Fly(c, e, "surface")}, ran)
      /\ Good(Claimed(m, c, e), d, nextId, flights, ran)
      /\ Keeps(d, Claimed(d, c, e))
  BY <1>1, <1>2, Claiming
<1>4. Good(mem', disk', nextId', flights', ran') /\ Keeps(disk, disk')
  BY <1>1, <1>3, KeepsOn DEF Approve, m, d
<1>5. \A x \in Cards : x >= nextId => x # c
  BY <1>1, <1>2 DEF Good, Known, Absent, Cards
<1>6. Rest'
  <2>1. claims' \in [Cards -> Nat] /\ \A x \in Cards : x >= nextId => claims'[x] = 0
    BY <1>2, <1>5 DEF Approve, IInv, Rest
  <2> QED BY <2>1 DEF Approve, IInv, Rest
<1> QED BY <1>4, <1>6 DEF StepOK, IInv

LEMMA DenyStep == ASSUME IInv, NEW c \in Cards, Deny(c) PROVE StepOK
<1> DEFINE m == Decided(mem, Expirable(mem), "expired")
           d == Decided(disk, Expirable(mem), "expired")
           S == IF MayDecide(m, c, 0) THEN {c} ELSE {}
<1>1. Good(m, d, nextId, flights, ran) /\ Keeps(disk, d)
  BY ExpiryFirst
<1>2. \A x \in Cards : x \in S => m[x].status = "pending"
  BY DEF MayDecide
<1> HIDE DEF m, d, S
<1>3. /\ Good(Decided(m, S, "denied"), Decided(d, S, "denied"), nextId, flights, ran)
      /\ Good(Decided(m, S, "denied"), d, nextId, flights, ran)
      /\ Keeps(d, Decided(d, S, "denied"))
  BY <1>1, <1>2, Refusal
<1>4. Good(mem', disk', nextId', flights', ran') /\ Keeps(disk, disk')
  BY <1>1, <1>3, KeepsOn DEF Deny, m, d, S
<1>5. Rest'
  BY DEF Deny, IInv, Rest
<1> QED BY <1>4, <1>5 DEF StepOK, IInv

LEMMA HandlerActsStep == ASSUME IInv, NEW f \in flights, HandlerActs(f) PROVE StepOK
<1>1. Good(mem', disk', nextId', flights', ran')
  BY Acting DEF HandlerActs, IInv
<1>2. Rest'
  BY DEF HandlerActs, IInv, Rest
<1> QED BY <1>1, <1>2, KeepsAll DEF StepOK, IInv, HandlerActs

LEMMA FinishStep == ASSUME IInv, NEW f \in flights, Finish(f) PROVE StepOK
<1> DEFINE m == Decided(mem, Expirable(mem), "expired")
           d == Decided(disk, Expirable(mem), "expired")
           S == IF MayDecide(m, f.card, f.exec) THEN {f.card} ELSE {}
<1>1. Good(m, d, nextId, flights, ran) /\ Keeps(disk, d)
  BY ExpiryFirst
<1>2. S \in SUBSET {f.card}
  OBVIOUS
<1> HIDE DEF m, d, S
<1>3. /\ Good(Decided(m, S, "approved"), Decided(d, S, "approved"), nextId, flights \ {f}, ran)
      /\ Good(Decided(m, S, "approved"), d, nextId, flights \ {f}, ran)
      /\ Keeps(d, Decided(d, S, "approved"))
  BY <1>1, <1>2, Finishing
<1>4. ASSUME /\ mem' = Decided(m, S, "approved")
             /\ disk' = Decided(d, S, "approved") \/ (DiskFaults /\ disk' = d)
      PROVE  Good(mem', disk', nextId', flights', ran') /\ Keeps(disk, disk')
  BY <1>1, <1>3, <1>4, KeepsOn DEF Finish
<1>5. ASSUME \E x \in Expirable(mem) : ExpiryCut(x)
      PROVE  Good(mem', disk', nextId', flights', ran') /\ Keeps(disk, disk')
  <2>1. Good(mem', disk', nextId, flights, ran) /\ Keeps(disk, disk')
    BY <1>5, CutExpiry
  <2>2. Good(mem', disk', nextId, flights \ {f}, ran)
    BY <2>1, Finishing
  <2> QED BY <2>1, <2>2 DEF Finish
<1>6. Good(mem', disk', nextId', flights', ran') /\ Keeps(disk, disk')
  BY <1>4, <1>5 DEF Finish, m, d, S
<1>7. Rest'
  BY DEF Finish, IInv, Rest
<1> QED BY <1>6, <1>7 DEF StepOK, IInv

-----------------------------------------------------------------------------
\* The runs of ownerInvoke: create, expire, claim, refuse; each on good maps.
LEMMA OwnerMaps ==
    ASSUME IInv, nextId \in Cards, NEW k \in Keys, NEW s \in Sessions
    PROVE  /\ Good(AfterOwnerEnqueue(mem, k, s), AfterOwnerEnqueue(disk, k, s), nextId + 1, flights, ran)
           /\ Good(AfterOwnerEnqueue(mem, k, s), disk, nextId + 1, flights, ran)
           /\ Good(AfterOwnerClaim(mem, k, s), AfterOwnerExpiry(disk, k, s), nextId + 1, flights, ran)
           /\ Good(AfterOwnerClaim(mem, k, s), AfterOwnerClaim(disk, k, s), nextId + 1,
                   flights \cup {Fly(nextId, 1, "owner")}, ran)
           /\ Good(AfterOwnerClaim(mem, k, s), AfterOwnerClaim(disk, k, s), nextId + 1, flights, ran)
           /\ Keeps(disk, AfterOwnerEnqueue(disk, k, s))
           /\ Keeps(disk, AfterOwnerExpiry(disk, k, s))
           /\ Keeps(disk, AfterOwnerClaim(disk, k, s))
<1> DEFINE card == OwnerCard(k, s)
           m1 == AfterOwnerEnqueue(mem, k, s)
           d1 == AfterOwnerEnqueue(disk, k, s)
           m2 == AfterOwnerExpiry(mem, k, s)
           d2 == AfterOwnerExpiry(disk, k, s)
<1>1. card \in Card /\ card.status = "pending" /\ card.createdAt # 0
  BY BoundsAssumption DEF OwnerCard, NewCard, Card, Statuses, IInv, Rest
<1> HIDE DEF card
<1>2. /\ Good(m1, d1, nextId + 1, flights, ran) /\ Good(m1, disk, nextId + 1, flights, ran)
      /\ Keeps(disk, d1)
  BY <1>1, Creation DEF IInv, AfterOwnerEnqueue, card
<1>3. \A c \in Cards : c \in Expirable(mem) => m1[c].status = "pending"
  BY <1>1 DEF Expirable, AfterOwnerEnqueue, card, IInv, Good
<1>4. m1[nextId].status = "pending" /\ nextId \notin Expirable(mem)
  BY <1>1 DEF AfterOwnerEnqueue, card, IInv, Good, Known, Absent, Expirable, Cards
<1> HIDE DEF m1, d1
<1>5. Good(m2, d2, nextId + 1, flights, ran) /\ Keeps(d1, d2)
  BY <1>2, <1>3, Refusal DEF AfterOwnerExpiry, m1, d1
<1>6. m2[nextId].status = "pending"
  <2>1. m1 \in [Cards -> Card] /\ "expired" \in Statuses \ {"absent"}
    BY <1>2 DEF Good, Statuses
  <2>2. m2[nextId] = m1[nextId]
    BY <1>4, <2>1, DecidedCard DEF AfterOwnerExpiry, m1
  <2> QED BY <1>4, <2>2
<1> HIDE DEF m2, d2
<1>7. /\ Good(Claimed(m2, nextId, 1), Claimed(d2, nextId, 1), nextId + 1,
              flights \cup {Fly(nextId, 1, "owner")}, ran)
      /\ Good(Claimed(m2, nextId, 1), d2, nextId + 1, flights, ran)
      /\ Keeps(d2, Claimed(d2, nextId, 1))
  BY <1>5, <1>6, Claiming
<1>8. Good(Claimed(m2, nextId, 1), Claimed(d2, nextId, 1), nextId + 1, flights, ran)
  BY <1>7 DEF Good, FlightsClaimed
<1> QED BY <1>2, <1>5, <1>7, <1>8, KeepsOn DEF AfterOwnerClaim, m1, d1, m2, d2

LEMMA OwnerRest ==
    ASSUME IInv, OwnerBegins
    PROVE  /\ nextId \in Cards /\ nextId' = nextId + 1
           /\ claims' \in [Cards -> Nat] /\ \A c \in Cards : c >= nextId' => claims'[c] = 0
           /\ up /\ now' = now /\ ran' = ran
<1>1. nextId \in Cards /\ nextId' = nextId + 1
  BY DEF OwnerBegins, IInv, Good, Cards
<1>2. \A c \in Cards : c >= nextId' => c >= nextId /\ c # nextId
  BY <1>1 DEF Cards
<1> QED BY <1>1, <1>2 DEF OwnerBegins, IInv, Rest

LEMMA OwnerRunStep ==
    ASSUME IInv, NEW k \in Keys, NEW s \in Sessions, OwnerRun(k, s) PROVE StepOK
<1> DEFINE m3 == AfterOwnerClaim(mem, k, s)
           d3 == AfterOwnerClaim(disk, k, s)
           X == OwnerSupersedes(k, s)
           G == flights \cup {Fly(nextId, 1, "owner")}
<1>1. OwnerBegins
  BY DEF OwnerRun
<1>2. Good(m3, d3, nextId + 1, G, ran) /\ Keeps(disk, d3)
  BY <1>1, OwnerRest, OwnerMaps
<1>3. \A c \in Cards : c \in X => m3[c].status = "pending"
  BY DEF OwnerSupersedes, Superseded
<1> HIDE DEF m3, d3, X, G
<1>4. /\ Good(Decided(m3, X, "denied"), Decided(d3, X, "denied"), nextId + 1, G, ran)
      /\ Keeps(d3, Decided(d3, X, "denied"))
  BY <1>2, <1>3, Refusal
<1>5. Good(mem', disk', nextId', flights', ran') /\ Keeps(disk, disk')
  BY <1>1, <1>2, <1>4, OwnerRest, KeepsOn DEF OwnerRun, m3, d3, X, G
<1>6. Rest'
  BY <1>1, OwnerRest DEF OwnerRun, IInv, Rest
<1> QED BY <1>5, <1>6 DEF StepOK, IInv

\* The first of the superseded cards are denied on disk, one card more in memory.
LEMMA OwnerCut ==
    ASSUME IInv, OwnerBegins, NEW k \in Keys, NEW s \in Sessions,
           NEW x \in OwnerSupersedes(k, s)
    PROVE  LET Q == {c \in OwnerSupersedes(k, s) : c >= x}
               P == {c \in OwnerSupersedes(k, s) : c > x}
               d == Decided(AfterOwnerClaim(disk, k, s), P, "denied")
           IN  /\ Good(Decided(AfterOwnerClaim(mem, k, s), Q, "denied"), d, nextId + 1, flights, ran)
               /\ Keeps(disk, d)
<1> DEFINE Q == {c \in OwnerSupersedes(k, s) : c >= x}
           P == {c \in OwnerSupersedes(k, s) : c > x}
           m3 == AfterOwnerClaim(mem, k, s)
           d3 == AfterOwnerClaim(disk, k, s)
<1>1. Good(m3, d3, nextId + 1, flights, ran) /\ Keeps(disk, d3)
  BY OwnerRest, OwnerMaps
<1>2. \A c \in Cards : c \in Q => m3[c].status = "pending"
  BY DEF OwnerSupersedes, Superseded
<1>3. P \in SUBSET Q
  BY DEF OwnerSupersedes, Superseded, Cards
<1> HIDE DEF m3, d3, P, Q
<1>4. /\ Good(Decided(m3, Q, "denied"), Decided(d3, P, "denied"), nextId + 1, flights, ran)
      /\ Keeps(d3, Decided(d3, P, "denied"))
  BY <1>1, <1>2, <1>3, Refusal
<1> QED BY <1>1, <1>4, KeepsOn DEF m3, d3, P, Q

\* What was about to expire still is once the owner's card is there.
LEMMA OwnerPends ==
    ASSUME IInv, OwnerBegins, NEW k \in Keys, NEW s \in Sessions
    PROVE  \A c \in Cards : c \in Expirable(mem) => AfterOwnerEnqueue(mem, k, s)[c].status = "pending"
<1>1. nextId \in Cards /\ mem \in [Cards -> Card]
  BY OwnerRest DEF IInv, Good
<1>2. OwnerCard(k, s).status = "pending"
  BY DEF OwnerCard, NewCard
<1> QED BY <1>1, <1>2 DEF Expirable, AfterOwnerEnqueue

\* The expiry that the claim begins with is cut short.
LEMMA OwnerExpiryCut ==
    ASSUME IInv, OwnerBegins, NEW k \in Keys, NEW s \in Sessions, NEW x \in Expirable(mem)
    PROVE  LET Q == {c \in Expirable(mem) : c <= x}
               P == {c \in Expirable(mem) : c < x}
               d == Decided(AfterOwnerEnqueue(disk, k, s), P, "expired")
           IN  /\ Good(Decided(AfterOwnerEnqueue(mem, k, s), Q, "expired"), d, nextId + 1, flights, ran)
               /\ Keeps(disk, d)
<1> DEFINE Q == {c \in Expirable(mem) : c <= x}
           P == {c \in Expirable(mem) : c < x}
           m1 == AfterOwnerEnqueue(mem, k, s)
           d1 == AfterOwnerEnqueue(disk, k, s)
<1>1. Good(m1, d1, nextId + 1, flights, ran) /\ Keeps(disk, d1)
  BY OwnerRest, OwnerMaps
<1>2. \A c \in Cards : c \in Q => m1[c].status = "pending"
  BY OwnerPends
<1>3. P \in SUBSET Q
  BY DEF Expirable, Cards
<1> HIDE DEF m1, d1, P, Q
<1>4. /\ Good(Decided(m1, Q, "expired"), Decided(d1, P, "expired"), nextId + 1, flights, ran)
      /\ Keeps(d1, Decided(d1, P, "expired"))
  BY <1>1, <1>2, <1>3, Refusal
<1> QED BY <1>1, <1>4, KeepsOn DEF m1, d1, P, Q

LEMMA OwnerRunThrowsStep ==
    ASSUME IInv, NEW k \in Keys, NEW s \in Sessions, OwnerRunThrows(k, s) PROVE StepOK
<1>1. OwnerBegins
  BY DEF OwnerRunThrows
<1>2. nextId \in Cards
  BY <1>1, OwnerRest
<1>3. Good(mem', disk', nextId + 1, flights, ran) /\ Keeps(disk, disk')
  <2>1. ASSUME mem' = AfterOwnerEnqueue(mem, k, s), disk' = disk
        PROVE  Good(mem', disk', nextId + 1, flights, ran) /\ Keeps(disk, disk')
    BY <1>2, <2>1, OwnerMaps, KeepsAll
  <2>2. ASSUME mem' = AfterOwnerClaim(mem, k, s), disk' = AfterOwnerExpiry(disk, k, s)
        PROVE  Good(mem', disk', nextId + 1, flights, ran) /\ Keeps(disk, disk')
    BY <1>2, <2>2, OwnerMaps
  <2>3. ASSUME NEW x \in OwnerSupersedes(k, s),
               mem' = Decided(AfterOwnerClaim(mem, k, s),
                              {c \in OwnerSupersedes(k, s) : c >= x}, "denied"),
               disk' = Decided(AfterOwnerClaim(disk, k, s),
                               {c \in OwnerSupersedes(k, s) : c > x}, "denied")
        PROVE  Good(mem', disk', nextId + 1, flights, ran) /\ Keeps(disk, disk')
    BY <1>1, <2>3, OwnerCut
  <2>4. ASSUME NEW x \in Expirable(mem),
               mem' = Decided(AfterOwnerEnqueue(mem, k, s),
                              {c \in Expirable(mem) : c <= x}, "expired"),
               disk' = Decided(AfterOwnerEnqueue(disk, k, s),
                               {c \in Expirable(mem) : c < x}, "expired")
        PROVE  Good(mem', disk', nextId + 1, flights, ran) /\ Keeps(disk, disk')
    BY <1>1, <2>4, OwnerExpiryCut
  <2> QED BY <2>1, <2>2, <2>3, <2>4 DEF OwnerRunThrows
<1>4. Rest'
  BY <1>1, OwnerRest DEF OwnerRunThrows, IInv, Rest
<1> QED BY <1>1, <1>3, <1>4, OwnerRest DEF StepOK, IInv, OwnerRunThrows

LEMMA WipedRest ==
    ASSUME IInv, Wiped PROVE up' = FALSE /\ mem' = NoCards /\ flights' = {} /\ restarts' \in Nat
  BY DEF IInv, Rest, Wiped

LEMMA CrashStep == ASSUME IInv, Crash PROVE StepOK
<1>1. Good(mem', disk', nextId', flights', ran')
  BY Crashing, WipedRest DEF Crash, IInv
<1>2. Rest'
  BY WipedRest DEF Crash, IInv, Rest
<1> QED BY <1>1, <1>2, KeepsAll DEF StepOK, IInv, Crash

LEMMA OwnerRunCrashesStep ==
    ASSUME IInv, NEW k \in Keys, NEW s \in Sessions, OwnerRunCrashes(k, s) PROVE StepOK
<1>1. OwnerBegins /\ Wiped
  BY DEF OwnerRunCrashes
<1>2. nextId \in Cards
  BY <1>1, OwnerRest
<1>3. \E m : Good(m, disk', nextId + 1, flights, ran) /\ Keeps(disk, disk')
  <2>1. ASSUME disk' = AfterOwnerEnqueue(disk, k, s)
        PROVE  Good(AfterOwnerEnqueue(mem, k, s), disk', nextId + 1, flights, ran) /\ Keeps(disk, disk')
    BY <1>2, <2>1, OwnerMaps
  <2>2. ASSUME NEW x \in OwnerSupersedes(k, s),
               disk' = Decided(AfterOwnerClaim(disk, k, s),
                               {c \in OwnerSupersedes(k, s) : c > x}, "denied")
        PROVE  \E m : Good(m, disk', nextId + 1, flights, ran) /\ Keeps(disk, disk')
    BY <1>1, <2>2, OwnerCut
  <2> QED BY <2>1, <2>2 DEF OwnerRunCrashes
<1>4. Good(NoCards, disk', nextId + 1, {}, ran) /\ Keeps(disk, disk')
  BY <1>3, Crashing
<1>5. Rest'
  BY <1>1, OwnerRest, WipedRest DEF Rest, IInv
<1> QED BY <1>1, <1>4, <1>5, OwnerRest, WipedRest DEF StepOK, IInv

LEMMA RestartStep == ASSUME IInv, Restart PROVE StepOK
<1>1. Good(NoCards, disk, nextId, {}, ran) /\ flights' = {}
  BY DEF Restart, IInv, Rest
<1>2. Good(mem', disk', nextId', flights', ran') /\ Keeps(disk, disk')
  BY <1>1, Recovering DEF Restart
<1>3. Rest'
  BY DEF Restart, IInv, Rest
<1> QED BY <1>2, <1>3 DEF StepOK, IInv

LEMMA TickStep == ASSUME IInv, Tick PROVE StepOK
<1>1. Good(mem', disk', nextId', flights', ran')
  BY DEF Tick, IInv
<1>2. Rest'
  BY BoundsAssumption DEF Tick, IInv, Rest
<1> QED BY <1>1, <1>2, KeepsAll DEF StepOK, IInv, Tick

LEMMA StepIInv == IInv /\ [Next]_vars => StepOK
<1> SUFFICES ASSUME IInv, [Next]_vars PROVE StepOK
  OBVIOUS
<1>1. CASE UNCHANGED vars
  <2>1. IInv'
    BY <1>1 DEF vars, IInv, Rest
  <2> QED BY <1>1, <2>1, KeepsAll DEF StepOK, vars
<1>2. CASE List \/ ExpiryThrows \/ Crash \/ Restart \/ Tick
  BY <1>2, ListStep, ExpiryThrowsStep, CrashStep, RestartStep, TickStep
<1>3. CASE \E k \in Keys \cup {NoKey}, s \in Sessions, ttl \in Ttls :
             Enqueue("queue", k, s, ttl) \/ Enqueue("chat", k, s, ttl)
  BY <1>3, EnqueueStep
<1>4. CASE \E k \in Keys, s \in Sessions :
             OwnerRun(k, s) \/ OwnerRunThrows(k, s) \/ OwnerRunCrashes(k, s)
  BY <1>4, OwnerRunStep, OwnerRunThrowsStep, OwnerRunCrashesStep
<1>5. CASE \E c \in Cards : Approve(c) \/ Deny(c)
  BY <1>5, ApproveStep, DenyStep
<1>6. CASE \E f \in flights : HandlerActs(f) \/ Finish(f)
  BY <1>6, HandlerActsStep, FinishStep
<1> QED BY <1>1, <1>2, <1>3, <1>4, <1>5, <1>6 DEF Next

LEMMA IInvSafe == IInv => AtMostOnce /\ RefusedNeverRan
<1> SUFFICES ASSUME IInv PROVE AtMostOnce /\ RefusedNeverRan
  OBVIOUS
<1>1. AtMostOnce
  BY DEF IInv, Good, SpentStaysSpent, AtMostOnce
<1>2. RefusedNeverRan
  BY DEF IInv, Good, SpentStaysSpent, Spent, FlightsClaimed, RefusedNeverRan
<1> QED BY <1>1, <1>2

-----------------------------------------------------------------------------
(***************************************************************************)
(* The theorems.                                                           *)
(***************************************************************************)

\* The strengthening holds in every reachable state.
THEOREM Inductive == Spec => []IInv
<1>1. IInv /\ [Next]_vars => IInv'
  BY StepIInv DEF StepOK
<1> QED BY InitIInv, <1>1, PTL DEF Spec

\* Type correctness of the store, the journal and the flights.
THEOREM TypeCorrect == Spec => []TypeOK
  BY Inductive, IInvTypes, PTL

\* A tool takes effect at most once per card, for any number of surfaces,
\* crashes (also between the appends of one run) and throwing appends.
THEOREM OneShot == Spec => []AtMostOnce
<1>1. IInv => AtMostOnce
  BY IInvSafe
<1> QED BY Inductive, <1>1, PTL

\* A card denied or expired, in memory or in the journal, never had an effect
\* and has no handler under way.
THEOREM RefusalsHold == Spec => []RefusedNeverRan
<1>1. IInv => RefusedNeverRan
  BY IInvSafe
<1> QED BY Inductive, <1>1, PTL

\* The outcome the journal records for a card never changes.
THEOREM OutcomesAreFinal == Spec => DurableFinality
<1>1. IInv /\ [Next]_vars
        => [\A c \in Cards : disk[c].status \in Terminal
                                => disk'[c].status = disk[c].status]_vars
  BY StepIInv DEF StepOK, Keeps
<1> QED BY Inductive, <1>1, PTL DEF Spec, DurableFinality
=============================================================================
