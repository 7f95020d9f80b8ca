-------------------------- MODULE Approvals_exclusion --------------------------
(***************************************************************************)
(* Proofs about Approvals of the properties that relate two cards: what    *)
(* the owner is asked once, which card a code names, what an owner's run   *)
(* excludes.  The first two hold while the disk works: a denial that was   *)
(* not journaled comes back pending beside the card asked for since.       *)
(***************************************************************************)
EXTENDS Approvals_proofs

(***************************************************************************)
(* The three properties, of a map of cards.                                *)
(***************************************************************************)
AskedOnceIn(m) ==
    \A a, b \in Cards :
        /\ m[a].status = "pending" /\ m[b].status = "pending"
        /\ m[a].mode # "owner" /\ m[b].mode # "owner"
        /\ m[a].key = m[b].key /\ m[a].key # NoKey
        => a = b

CodesRetiredIn(m) ==
    \A a, b \in Cards :
        /\ a < b /\ m[a].status # "absent" /\ m[b].status # "absent"
        /\ m[a].code = m[b].code /\ m[a].code # NoCode
        => /\ m[b].createdAt > m[a].createdAt + CodeRetire
           /\ ~(m[a].status = "pending" /\ m[b].status = "pending")

ExclusiveIn(m, F) ==
    \A f \in F, c \in Cards :
        /\ f.by = "owner" /\ c < f.card
        /\ m[c].mode = "chat" /\ m[c].key = m[f.card].key
        /\ m[c].session = m[f.card].session
        => m[c].status # "pending"

\* While the disk works, the journal has what the memory has.
Synced == up => mem = disk

\* Cards only ever leave "pending", and keep everything but their status.
Fades(m, m2) ==
    \A c \in Cards :
        /\ m2[c].mode = m[c].mode /\ m2[c].key = m[c].key
        /\ m2[c].session = m[c].session /\ m2[c].code = m[c].code
        /\ m2[c].createdAt = m[c].createdAt
        /\ m2[c].status = "absent" <=> m[c].status = "absent"
        /\ m2[c].status = "pending" => m[c].status = "pending"

\* The flights of G have the cards and the callers of flights of F.
Among(G, F) == \A g \in G : \E f \in F : g.card = f.card /\ g.by = f.by

-----------------------------------------------------------------------------
LEMMA FadesAll == ASSUME NEW m PROVE Fades(m, m)
  BY DEF Fades

LEMMA FadesOn ==
    ASSUME NEW a, NEW b, NEW c, Fades(a, b), Fades(b, c) PROVE Fades(a, c)
  BY DEF Fades

LEMMA DecidedFades ==
    ASSUME NEW m \in [Cards -> Card], NEW S,
           NEW st \in {"approved", "denied", "expired", "interrupted"}
    PROVE  Decided(m, S, st) \in [Cards -> Card] /\ Fades(m, Decided(m, S, st))
  BY DEF Decided, Fades, Card, Statuses

LEMMA ClaimedFades ==
    ASSUME NEW m \in [Cards -> Card], NEW x \in Cards, NEW e \in Nat
    PROVE  Claimed(m, x, e) \in [Cards -> Card] /\ Fades(m, Claimed(m, x, e))
  BY DEF Claimed, Claimable, Fades, Card, Statuses

\* What fades keeps the three properties.
LEMMA FadesKeep ==
    ASSUME NEW m, NEW m2, Fades(m, m2)
    PROVE  /\ AskedOnceIn(m) => AskedOnceIn(m2)
           /\ CodesRetiredIn(m) => CodesRetiredIn(m2)
<1>1. AskedOnceIn(m) => AskedOnceIn(m2)
  BY DEF Fades, AskedOnceIn
<1>2. CodesRetiredIn(m) => CodesRetiredIn(m2)
  BY DEF Fades, CodesRetiredIn
<1> QED BY <1>1, <1>2

LEMMA FadesExclude ==
    ASSUME NEW m, NEW m2, NEW F, NEW G, \A f \in F : f.card \in Cards,
           Fades(m, m2), Among(G, F), ExclusiveIn(m, F)
    PROVE  ExclusiveIn(m2, G)
<1> SUFFICES ASSUME NEW g \in G, NEW c \in Cards, g.by = "owner", c < g.card,
                    m2[c].mode = "chat", m2[c].key = m2[g.card].key,
                    m2[c].session = m2[g.card].session
             PROVE  m2[c].status # "pending"
  BY DEF ExclusiveIn
<1>1. PICK f \in F : g.card = f.card /\ g.by = f.by
  BY DEF Among
<1>2. m[c].mode = "chat" /\ m[c].key = m[f.card].key /\ m[c].session = m[f.card].session
  BY <1>1 DEF Fades
<1>3. m[c].status # "pending"
  BY <1>1, <1>2 DEF ExclusiveIn
<1> QED BY <1>3 DEF Fades

\* The three properties, of a map that a new card enters.
LEMMA NewcomerAsked ==
    ASSUME NEW m \in [Cards -> Card], NEW n \in Cards, m[n].status = "absent",
           NEW card \in Card, AskedOnceIn(m),
           card.mode = "owner" \/ Reusable(m, card.key) = {}
    PROVE  AskedOnceIn([m EXCEPT ![n] = card])
<1> DEFINE m2 == [m EXCEPT ![n] = card]
<1>1. m2[n] = card /\ \A c \in Cards : c # n => m2[c] = m[c]
  OBVIOUS
<1>2. \A c \in Cards : card.mode # "owner" /\ card.key # NoKey /\ m[c].key = card.key
                         => m[c].status # "pending"
  BY DEF Reusable
<1> HIDE DEF m2
<1>3. AskedOnceIn(m2)
  BY <1>1, <1>2 DEF AskedOnceIn
<1> QED BY <1>3 DEF m2

LEMMA NewcomerCode ==
    ASSUME NEW m \in [Cards -> Card], NEW n \in Cards, now \in Nat,
           \A c \in Cards : c >= n => m[c].status = "absent",
           NEW card \in Card, CodesRetiredIn(m), card.createdAt = now,
           card.code = NoCode \/ card.code \notin TakenCodes(m)
    PROVE  CodesRetiredIn([m EXCEPT ![n] = card])
<1> DEFINE m2 == [m EXCEPT ![n] = card]
<1>1. m2[n] = card /\ \A c \in Cards : c # n => m2[c] = m[c]
  OBVIOUS
<1>2. ASSUME NEW c \in Cards, m[c].status # "absent", m[c].code = card.code,
             card.code # NoCode
      PROVE  m[c].status # "pending" /\ card.createdAt > m[c].createdAt + CodeRetire
  <2>1. /\ m[c].status # "pending"
        /\ ~(m[c].createdAt >= now - CodeRetire)
    BY <1>2 DEF TakenCodes
  <2>2. m[c].createdAt \in Nat /\ CodeRetire \in Nat
    BY BoundsAssumption DEF Card
  <2> QED BY <2>1, <2>2
<1> HIDE DEF m2
<1>3. ASSUME NEW a \in Cards, NEW b \in Cards, a < b, m2[a].status # "absent",
             m2[b].status # "absent", m2[a].code = m2[b].code, m2[a].code # NoCode
      PROVE  /\ m2[b].createdAt > m2[a].createdAt + CodeRetire
             /\ ~(m2[a].status = "pending" /\ m2[b].status = "pending")
  <2>1. a # n
    BY <1>1, <1>3 DEF Cards
  <2>2. CASE b = n
    BY <1>1, <1>2, <1>3, <2>1, <2>2
  <2>3. CASE b # n
    BY <1>1, <1>3, <2>1, <2>3 DEF CodesRetiredIn
  <2> QED BY <2>2, <2>3
<1>4. CodesRetiredIn(m2)
  BY <1>3 DEF CodesRetiredIn
<1> QED BY <1>4 DEF m2

LEMMA NewcomerExcluded ==
    ASSUME NEW m \in [Cards -> Card], NEW n \in Cards, NEW card, NEW F,
           \A f \in F : f.card \in Cards /\ f.card < n, ExclusiveIn(m, F)
    PROVE  ExclusiveIn([m EXCEPT ![n] = card], F)
<1> DEFINE m2 == [m EXCEPT ![n] = card]
<1>1. \A c \in Cards : c # n => m2[c] = m[c]
  OBVIOUS
<1>2. \A f \in F, c \in Cards : f.card # n /\ (c < f.card => c # n)
  BY DEF Cards
<1> HIDE DEF m2
<1>3. ExclusiveIn(m2, F)
  BY <1>1, <1>2 DEF ExclusiveIn
<1> QED BY <1>3 DEF m2

-----------------------------------------------------------------------------
(***************************************************************************)
(* What an owner's run does to a map: a card of its own, then fading.      *)
(***************************************************************************)
LEMMA OwnerFades ==
    ASSUME IInv, nextId \in Cards, NEW k \in Keys, NEW s \in Sessions,
           NEW m \in [Cards -> Card], NEW S
    PROVE  /\ OwnerCard(k, s) \in Card /\ OwnerCard(k, s).mode = "owner"
           /\ OwnerCard(k, s).code = NoCode /\ OwnerCard(k, s).createdAt = now
           /\ AfterOwnerEnqueue(m, k, s) \in [Cards -> Card]
           /\ Fades(AfterOwnerEnqueue(m, k, s), AfterOwnerExpiry(m, k, s))
           /\ AfterOwnerClaim(m, k, s) \in [Cards -> Card]
           /\ Fades(AfterOwnerEnqueue(m, k, s), AfterOwnerClaim(m, k, s))
           /\ Fades(AfterOwnerEnqueue(m, k, s), Decided(AfterOwnerClaim(m, k, s), S, "denied"))
<1> DEFINE m1 == AfterOwnerEnqueue(m, k, s)
           m2 == AfterOwnerExpiry(m, k, s)
           m3 == AfterOwnerClaim(m, k, s)
<1>1. /\ OwnerCard(k, s) \in Card /\ OwnerCard(k, s).mode = "owner"
      /\ OwnerCard(k, s).code = NoCode /\ OwnerCard(k, s).createdAt = now
  BY DEF OwnerCard, NewCard, Card, Statuses, IInv, Rest
<1>2. m1 \in [Cards -> Card]
  BY <1>1 DEF AfterOwnerEnqueue
<1> HIDE DEF m1
<1>3. m2 \in [Cards -> Card] /\ Fades(m1, m2)
  BY <1>2, DecidedFades DEF AfterOwnerExpiry, m1
<1> HIDE DEF m2
<1>4. m3 \in [Cards -> Card] /\ Fades(m2, m3)
  BY <1>3, ClaimedFades DEF AfterOwnerClaim, m2
<1> HIDE DEF m3
<1>5. Fades(m3, Decided(m3, S, "denied"))
  BY <1>4, DecidedFades
<1> QED BY <1>1, <1>2, <1>3, <1>4, <1>5, FadesOn DEF m1, m2, m3

-----------------------------------------------------------------------------
(***************************************************************************)
(* An owner's run excludes the earlier chat cards for the same call, with  *)
(* or without throwing appends.                                            *)
(***************************************************************************)
LEMMA FlightCards == ASSUME IInv PROVE \A f \in flights : f.card \in Cards /\ f.card < nextId
  BY IInvTypes DEF TypeOK, Flight

\* What only fades, with no new flight, excludes what it excluded.
LEMMA FadingExcludes ==
    ASSUME IInv, OwnerRunExclusive, Fades(mem, mem'), Among(flights', flights)
    PROVE  OwnerRunExclusive'
<1>1. ExclusiveIn(mem, flights)
  BY DEF OwnerRunExclusive, ExclusiveIn
<1>2. ExclusiveIn(mem', flights')
  BY <1>1, FlightCards, FadesExclude
<1> QED BY <1>2 DEF OwnerRunExclusive, ExclusiveIn

\* So does a new card followed by fading.
LEMMA NewcomerFadingExcludes ==
    ASSUME IInv, OwnerRunExclusive, nextId \in Cards, NEW card,
           Fades([mem EXCEPT ![nextId] = card], mem'), flights' = flights
    PROVE  OwnerRunExclusive'
<1>1. ExclusiveIn(mem, flights) /\ mem \in [Cards -> Card]
  BY DEF OwnerRunExclusive, ExclusiveIn, IInv, Good
<1>2. ExclusiveIn([mem EXCEPT ![nextId] = card], flights)
  BY <1>1, FlightCards, NewcomerExcluded
<1>3. Among(flights, flights)
  BY DEF Among
<1>4. ExclusiveIn(mem', flights')
  BY <1>2, <1>3, FlightCards, FadesExclude
<1> QED BY <1>4 DEF OwnerRunExclusive, ExclusiveIn

LEMMA NoFlightExcludes == ASSUME flights' = {} PROVE OwnerRunExclusive'
  BY DEF OwnerRunExclusive

LEMMA EnqueueExcludes ==
    ASSUME IInv, OwnerRunExclusive, NEW mode \in {"queue", "chat"},
           NEW k \in Keys \cup {NoKey}, NEW s \in Sessions, NEW ttl \in Ttls,
           Enqueue(mode, k, s, ttl)
    PROVE  OwnerRunExclusive'
<1> DEFINE m == Decided(mem, IF k = NoKey THEN {} ELSE Expirable(mem), "expired")
<1>1. m \in [Cards -> Card] /\ Fades(mem, m) /\ flights' = flights
  BY DecidedFades DEF IInv, Good, Enqueue
<1>2. CASE mem' = m
  BY <1>1, <1>2, FadingExcludes DEF Among
<1>3. ASSUME nextId <= MaxCards, NEW card, mem' = [m EXCEPT ![nextId] = card]
      PROVE  OwnerRunExclusive'
  <2>1. nextId \in Cards
    BY <1>3 DEF IInv, Good, Cards
  <2>2. Fades([mem EXCEPT ![nextId] = card], mem')
    BY <1>1, <1>3 DEF Fades, IInv, Good
  <2> QED BY <1>1, <2>1, <2>2, NewcomerFadingExcludes
<1> QED BY <1>2, <1>3 DEF Enqueue, m

LEMMA OwnerRunExcludes ==
    ASSUME IInv, OwnerRunExclusive, NEW k \in Keys, NEW s \in Sessions, OwnerRun(k, s)
    PROVE  OwnerRunExclusive'
<1> DEFINE m1 == AfterOwnerEnqueue(mem, k, s)
           m3 == AfterOwnerClaim(mem, k, s)
           X == OwnerSupersedes(k, s)
<1>1. nextId \in Cards /\ mem \in [Cards -> Card] /\ ExclusiveIn(mem, flights)
  BY OwnerRest DEF OwnerRun, IInv, Good, OwnerRunExclusive, ExclusiveIn
<1>2. /\ m3 \in [Cards -> Card] /\ mem' = Decided(m3, X, "denied")
      /\ Fades(m1, m3) /\ Fades(m1, mem')
  BY <1>1, OwnerFades DEF OwnerRun
<1>3. Fades(m3, mem')
  BY <1>2, DecidedFades
<1>4. m1[nextId].key = k /\ m1[nextId].session = s
  BY <1>1 DEF AfterOwnerEnqueue, OwnerCard, NewCard
<1>5. ExclusiveIn(m1, flights)
  BY <1>1, FlightCards, NewcomerExcluded DEF AfterOwnerEnqueue
<1>6. Among(flights, flights)
  BY DEF Among
<1>7. ExclusiveIn(mem', flights)
  BY <1>2, <1>5, <1>6, FlightCards, FadesExclude
<1>8. flights' = flights \cup {Fly(nextId, 1, "owner")}
  BY DEF OwnerRun
<1>9. ASSUME NEW c \in Cards, mem'[c].mode = "chat", mem'[c].key = mem'[nextId].key,
             mem'[c].session = mem'[nextId].session
      PROVE  mem'[c].status # "pending"
  <2>1. mem'[nextId].key = k /\ mem'[nextId].session = s
    BY <1>1, <1>2, <1>4 DEF Fades
  <2>2. m3[c].mode = "chat" /\ m3[c].key = k /\ m3[c].session = s
    BY <1>3, <1>9, <2>1 DEF Fades
  <2>3. CASE m3[c].status = "pending"
    <3>1. c \in X
      BY <2>2, <2>3 DEF OwnerSupersedes, Superseded
    <3>2. mem'[c].status = "denied"
      BY <1>2, <2>3, <3>1, DecidedCard DEF Statuses
    <3> QED BY <3>2
  <2>4. CASE m3[c].status # "pending"
    BY <1>3, <2>4 DEF Fades
  <2> QED BY <2>3, <2>4
<1>10. Fly(nextId, 1, "owner").card = nextId
  BY DEF Fly
<1> HIDE DEF m1, m3, X
<1>11. ExclusiveIn(mem', flights')
  BY <1>7, <1>8, <1>9, <1>10 DEF ExclusiveIn
<1> QED BY <1>11 DEF OwnerRunExclusive, ExclusiveIn

LEMMA OwnerRunThrowsExcludes ==
    ASSUME IInv, OwnerRunExclusive, NEW k \in Keys, NEW s \in Sessions, OwnerRunThrows(k, s)
    PROVE  OwnerRunExclusive'
<1>1. nextId \in Cards /\ mem \in [Cards -> Card] /\ flights' = flights
  BY OwnerRest DEF OwnerRunThrows, IInv, Good
<1>2. Fades(AfterOwnerEnqueue(mem, k, s), mem')
  <2>1. CASE mem' = AfterOwnerEnqueue(mem, k, s)
    BY <2>1, FadesAll
  <2>2. CASE mem' = AfterOwnerClaim(mem, k, s)
    BY <1>1, <2>2, OwnerFades
  <2>3. ASSUME NEW x \in OwnerSupersedes(k, s),
               mem' = Decided(AfterOwnerClaim(mem, k, s),
                              {c \in OwnerSupersedes(k, s) : c >= x}, "denied")
        PROVE  Fades(AfterOwnerEnqueue(mem, k, s), mem')
    BY <1>1, <2>3, OwnerFades
  <2>4. ASSUME NEW x \in Expirable(mem),
               mem' = Decided(AfterOwnerEnqueue(mem, k, s),
                              {c \in Expirable(mem) : c <= x}, "expired")
        PROVE  Fades(AfterOwnerEnqueue(mem, k, s), mem')
    <3>1. AfterOwnerEnqueue(mem, k, s) \in [Cards -> Card]
      BY <1>1, OwnerFades
    <3> QED BY <2>4, <3>1, DecidedFades
  <2> QED BY <2>1, <2>2, <2>3, <2>4 DEF OwnerRunThrows
<1> QED BY <1>1, <1>2, NewcomerFadingExcludes DEF AfterOwnerEnqueue

\* The steps that create no card and start no owner's run.
LEMMA OtherExcludes ==
    ASSUME IInv, OwnerRunExclusive,
           \/ List \/ ExpiryThrows \/ Crash \/ Restart \/ Tick
           \/ \E c \in Cards : Approve(c) \/ Deny(c)
           \/ \E f \in flights : HandlerActs(f) \/ Finish(f)
    PROVE  OwnerRunExclusive'
<1> DEFINE m == Decided(mem, Expirable(mem), "expired")
<1>1. mem \in [Cards -> Card] /\ m \in [Cards -> Card] /\ Fades(mem, m)
  BY DecidedFades DEF IInv, Good
<1>2. ASSUME NEW x, ExpiryCut(x) PROVE Fades(mem, mem')
  BY <1>1, <1>2, DecidedFades DEF ExpiryCut
<1>3. CASE List \/ ExpiryThrows
  <2>1. Fades(mem, mem') /\ flights' = flights
    BY <1>1, <1>2, <1>3 DEF List, ExpiryThrows
  <2> QED BY <2>1, FadingExcludes DEF Among
<1>4. CASE Crash \/ Restart
  <2>1. flights' = {}
    BY <1>4 DEF Crash, Wiped, Restart, IInv, Rest
  <2> QED BY <2>1, NoFlightExcludes
<1>5. CASE Tick
  <2>1. Fades(mem, mem') /\ flights' = flights
    BY <1>5, FadesAll DEF Tick
  <2> QED BY <2>1, FadingExcludes DEF Among
<1>6. ASSUME NEW c \in Cards, Approve(c) PROVE OwnerRunExclusive'
  <2>1. claims[c] + 1 \in Nat /\ mem' = Claimed(m, c, claims[c] + 1)
    BY <1>6 DEF Approve, IInv, Rest
  <2>2. Fades(mem, mem')
    BY <1>1, <2>1, ClaimedFades, FadesOn
  <2>3. \A g \in flights' : g.by = "owner" => g \in flights
    BY <1>6 DEF Approve, Fly
  <2>4. \A f \in flights, x \in Cards :
          /\ f.by = "owner" /\ x < f.card
          /\ mem'[x].mode = "chat" /\ mem'[x].key = mem'[f.card].key
          /\ mem'[x].session = mem'[f.card].session
          => mem'[x].status # "pending"
    <3>1. ExclusiveIn(mem, flights) /\ Among(flights, flights)
      BY DEF ExclusiveIn, OwnerRunExclusive, Among
    <3>2. ExclusiveIn(mem', flights)
      BY <2>2, <3>1, FlightCards, FadesExclude
    <3> QED BY <3>2 DEF ExclusiveIn
  <2> QED BY <2>3, <2>4 DEF OwnerRunExclusive
<1>7. ASSUME NEW c \in Cards, Deny(c) PROVE OwnerRunExclusive'
  <2>1. Fades(mem, mem') /\ flights' = flights
    BY <1>1, <1>7, DecidedFades, FadesOn DEF Deny
  <2> QED BY <2>1, FadingExcludes DEF Among
<1>8. ASSUME NEW f \in flights, HandlerActs(f) PROVE OwnerRunExclusive'
  <2>1. f \in Flight
    BY DEF IInv, Good
  <2>2. Fades(mem, mem') /\ Among(flights', flights)
    BY <1>8, <2>1, FadesAll DEF HandlerActs, Among, Flight
  <2> QED BY <2>2, FadingExcludes
<1>9. ASSUME NEW f \in flights, Finish(f) PROVE OwnerRunExclusive'
  <2>1. Among(flights', flights)
    BY <1>9 DEF Finish, Among
  <2>2. Fades(mem, mem')
    BY <1>1, <1>2, <1>9, DecidedFades, FadesOn DEF Finish
  <2> QED BY <2>1, <2>2, FadingExcludes
<1> QED BY <1>3, <1>4, <1>5, <1>6, <1>7, <1>8, <1>9

LEMMA StepExcludes == IInv /\ OwnerRunExclusive /\ [Next]_vars => OwnerRunExclusive'
<1> SUFFICES ASSUME IInv, OwnerRunExclusive, [Next]_vars PROVE OwnerRunExclusive'
  OBVIOUS
<1>1. CASE UNCHANGED vars
  BY <1>1 DEF vars, OwnerRunExclusive
<1>2. CASE \E k \in Keys \cup {NoKey}, s \in Sessions, ttl \in Ttls :
             Enqueue("queue", k, s, ttl) \/ Enqueue("chat", k, s, ttl)
  BY <1>2, EnqueueExcludes
<1>3. ASSUME NEW k \in Keys, NEW s \in Sessions,
             OwnerRun(k, s) \/ OwnerRunThrows(k, s) \/ OwnerRunCrashes(k, s)
      PROVE  OwnerRunExclusive'
  <2>1. CASE OwnerRunCrashes(k, s)
    BY <2>1, NoFlightExcludes DEF OwnerRunCrashes, Wiped
  <2> QED BY <1>3, <2>1, OwnerRunExcludes, OwnerRunThrowsExcludes
<1>4. CASE \/ List \/ ExpiryThrows \/ Crash \/ Restart \/ Tick
           \/ \E c \in Cards : Approve(c) \/ Deny(c)
           \/ \E f \in flights : HandlerActs(f) \/ Finish(f)
  BY <1>4, OtherExcludes
<1> QED BY <1>1, <1>2, <1>3, <1>4 DEF Next

\* While an owner's run of a call is under way, no earlier chat card for the
\* same call in the same chat can be approved.
THEOREM OwnerRunsExclude == Spec => []OwnerRunExclusive
<1>1. Init => OwnerRunExclusive
  BY DEF Init, OwnerRunExclusive
<1> QED BY <1>1, StepExcludes, Inductive, PTL DEF Spec

-----------------------------------------------------------------------------
(***************************************************************************)
(* What the owner is asked once and which card a code names, while the     *)
(* disk works: the journal is sound, and the memory is the journal.        *)
(***************************************************************************)
Sound == Synced /\ AskedOnceIn(disk) /\ CodesRetiredIn(disk)

LEMMA SoundMeans == IInv /\ Sound => OnePendingPerRequest /\ CodesRetired
<1> SUFFICES ASSUME IInv, Sound PROVE OnePendingPerRequest /\ CodesRetired
  OBVIOUS
<1>1. CASE mem = disk
  BY <1>1 DEF Sound, AskedOnceIn, CodesRetiredIn, OnePendingPerRequest, CodesRetired
<1>2. CASE ~up
  <2>1. \A c \in Cards : mem[c].status = "absent"
    BY <1>2 DEF IInv, Rest, NoCards, Absent
  <2> QED BY <2>1 DEF OnePendingPerRequest, CodesRetired
<1> QED BY <1>1, <1>2 DEF Sound, Synced

\* A journal that only fades, or takes in a card and fades, stays sound.
LEMMA FadingSound ==
    ASSUME Sound, Fades(disk, disk'), up' => mem' = disk' PROVE Sound'
<1>1. AskedOnceIn(disk') /\ CodesRetiredIn(disk')
  BY FadesKeep DEF Sound
<1> QED BY <1>1 DEF Sound, Synced, AskedOnceIn, CodesRetiredIn

LEMMA NewcomerSound ==
    ASSUME NEW d \in [Cards -> Card], AskedOnceIn(d), CodesRetiredIn(d),
           now \in Nat, nextId \in Cards,
           \A c \in Cards : c >= nextId => d[c].status = "absent",
           NEW card \in Card, card.createdAt = now,
           card.mode = "owner" \/ Reusable(d, card.key) = {},
           card.code = NoCode \/ card.code \notin TakenCodes(d),
           Fades([d EXCEPT ![nextId] = card], disk'), up' => mem' = disk'
    PROVE  Sound'
<1>1. d[nextId].status = "absent"
  BY DEF Cards
<1>2. AskedOnceIn([d EXCEPT ![nextId] = card])
  BY <1>1, NewcomerAsked
<1>3. CodesRetiredIn([d EXCEPT ![nextId] = card])
  BY NewcomerCode
<1>4. AskedOnceIn(disk') /\ CodesRetiredIn(disk')
  BY <1>2, <1>3, FadesKeep
<1> QED BY <1>4 DEF Sound, Synced, AskedOnceIn, CodesRetiredIn

LEMMA EnqueueSound ==
    ASSUME ~DiskFaults, IInv, Sound, NEW mode \in {"queue", "chat"},
           NEW k \in Keys \cup {NoKey}, NEW s \in Sessions, NEW ttl \in Ttls,
           Enqueue(mode, k, s, ttl)
    PROVE  Sound'
<1> DEFINE E == IF k = NoKey THEN {} ELSE Expirable(mem)
           m == Decided(mem, E, "expired")
           d == Decided(disk, E, "expired")
<1>1. up /\ up' = up /\ mem = disk
  BY DEF Enqueue, Sound, Synced
<1>2. d \in [Cards -> Card] /\ Fades(disk, d) /\ m = d
  BY <1>1, DecidedFades DEF IInv, Good
<1>3. CASE mem' = m /\ disk' = d
  BY <1>2, <1>3, FadingSound
<1>4. ASSUME Reusable(m, k) = {}, nextId <= MaxCards, NEW code \in NewCodes(m),
             mem' = [m EXCEPT ![nextId] = NewCard(mode, k, s, code, ttl)],
             disk' = [d EXCEPT ![nextId] = NewCard(mode, k, s, code, ttl)]
      PROVE  Sound'
  <2> DEFINE card == NewCard(mode, k, s, code, ttl)
  <2>1. nextId \in Cards /\ now \in Nat
    BY <1>4, BoundsAssumption DEF IInv, Rest, Good, Cards
  <2>2. code \in Codes \cup {NoCode} /\ (code = NoCode \/ code \notin TakenCodes(d))
    BY <1>2, <1>4 DEF NewCodes
  <2>3. card \in Card /\ card.createdAt = now /\ card.key = k /\ card.code = code
    BY <2>1, <2>2, BoundsAssumption DEF NewCard, Card, Statuses
  <2>4. \A c \in Cards : c >= nextId => d[c].status = "absent"
    BY <1>2 DEF IInv, Good, Known, Absent, Fades
  <2>5. AskedOnceIn(d) /\ CodesRetiredIn(d)
    BY <1>2, FadesKeep DEF Sound
  <2>6. Fades([d EXCEPT ![nextId] = card], disk') /\ mem' = disk'
    BY <1>2, <1>4, FadesAll
  <2> HIDE DEF card
  <2> QED BY <1>2, <1>4, <2>1, <2>2, <2>3, <2>4, <2>5, <2>6, NewcomerSound
<1> QED BY <1>3, <1>4 DEF Enqueue, m, d, E

\* An owner's run leaves the journal as after its card and some fading.
LEMMA OwnerSound ==
    ASSUME IInv, Sound, nextId \in Cards, NEW k \in Keys, NEW s \in Sessions,
           Fades(AfterOwnerEnqueue(disk, k, s), disk'), up' => mem' = disk'
    PROVE  Sound'
<1> DEFINE card == OwnerCard(k, s)
<1>1. disk \in [Cards -> Card] /\ now \in Nat
  BY BoundsAssumption DEF IInv, Rest, Good
<1>2. /\ card \in Card /\ card.mode = "owner"
      /\ card.code = NoCode /\ card.createdAt = now
  BY <1>1, OwnerFades
<1>3. \A c \in Cards : c >= nextId => disk[c].status = "absent"
  BY DEF IInv, Good, Known, Absent
<1>4. Fades([disk EXCEPT ![nextId] = card], disk')
  BY DEF AfterOwnerEnqueue
<1>5. AskedOnceIn(disk) /\ CodesRetiredIn(disk)
  BY DEF Sound
<1> HIDE DEF card
<1> QED BY <1>1, <1>2, <1>3, <1>4, <1>5, NewcomerSound

LEMMA OwnerRunSound ==
    ASSUME IInv, Sound, NEW k \in Keys, NEW s \in Sessions,
           OwnerRun(k, s) \/ OwnerRunCrashes(k, s)
    PROVE  Sound'
<1>1. nextId \in Cards /\ disk \in [Cards -> Card]
  BY OwnerRest DEF OwnerRun, OwnerRunCrashes, IInv, Good
<1>2. CASE OwnerRun(k, s)
  <2>1. mem = disk
    BY <1>2 DEF Sound, Synced, OwnerRun, OwnerBegins
  <2>2. mem' = disk'
    BY <1>2, <2>1 DEF OwnerRun
  <2>3. Fades(AfterOwnerEnqueue(disk, k, s), disk')
    BY <1>1, <1>2, OwnerFades DEF OwnerRun
  <2> QED BY <1>1, <2>2, <2>3, OwnerSound
<1>3. CASE OwnerRunCrashes(k, s)
  <2>1. ~up'
    BY <1>3 DEF OwnerRunCrashes, Wiped
  <2>2. Fades(AfterOwnerEnqueue(disk, k, s), disk')
    <3>1. CASE disk' = AfterOwnerEnqueue(disk, k, s)
      BY <3>1, FadesAll
    <3>2. ASSUME NEW x \in OwnerSupersedes(k, s),
                 disk' = Decided(AfterOwnerClaim(disk, k, s),
                                 {c \in OwnerSupersedes(k, s) : c > x}, "denied")
          PROVE  Fades(AfterOwnerEnqueue(disk, k, s), disk')
      BY <1>1, <3>2, OwnerFades
    <3> QED BY <1>3, <3>1, <3>2 DEF OwnerRunCrashes
  <2> QED BY <1>1, <2>1, <2>2, OwnerSound
<1> QED BY <1>2, <1>3

\* The steps that create no card.
LEMMA OtherSound ==
    ASSUME ~DiskFaults, IInv, Sound,
           \/ List \/ Crash \/ Restart \/ Tick
           \/ \E c \in Cards : Approve(c) \/ Deny(c)
           \/ \E f \in flights : HandlerActs(f) \/ Finish(f)
    PROVE  Sound'
<1> DEFINE d == Decided(disk, Expirable(mem), "expired")
<1>1. disk \in [Cards -> Card] /\ d \in [Cards -> Card] /\ Fades(disk, d)
  BY DecidedFades DEF IInv, Good
<1>2. up => mem = disk
  BY DEF Sound, Synced
<1>3. CASE List
  BY <1>1, <1>2, <1>3, FadingSound DEF List
<1>4. CASE Crash
  BY <1>4, FadesAll, FadingSound DEF Crash, Wiped
<1>5. CASE Restart
  <2>1. mem' = Recovered(disk) /\ disk' = Recovered(disk)
    BY <1>5 DEF Restart
  <2>2. Fades(disk, Recovered(disk))
    BY <1>1, DecidedFades, FadesOn DEF Recovered
  <2> QED BY <2>1, <2>2, FadingSound
<1>6. CASE Tick
  BY <1>2, <1>6, FadesAll, FadingSound DEF Tick
<1>7. ASSUME NEW c \in Cards, Approve(c) PROVE Sound'
  <2>1. claims[c] + 1 \in Nat /\ disk' = Claimed(d, c, claims[c] + 1) /\ mem' = disk'
    BY <1>2, <1>7 DEF Approve, IInv, Rest
  <2>2. Fades(disk, disk')
    BY <1>1, <2>1, ClaimedFades, FadesOn
  <2> QED BY <2>1, <2>2, FadingSound
<1>8. ASSUME NEW c \in Cards, Deny(c) PROVE Sound'
  <2>1. mem' = disk'
    BY <1>2, <1>8 DEF Deny
  <2>2. Fades(disk, disk')
    BY <1>1, <1>8, DecidedFades, FadesOn DEF Deny
  <2> QED BY <2>1, <2>2, FadingSound
<1>9. ASSUME NEW f \in flights, HandlerActs(f) PROVE Sound'
  BY <1>2, <1>9, FadesAll, FadingSound DEF HandlerActs
<1>10. ASSUME NEW f \in flights, Finish(f) PROVE Sound'
  <2>1. mem' = disk'
    BY <1>2, <1>10 DEF Finish
  <2>2. Fades(disk, disk')
    BY <1>1, <1>10, DecidedFades, FadesOn DEF Finish
  <2> QED BY <2>1, <2>2, FadingSound
<1> QED BY <1>3, <1>4, <1>5, <1>6, <1>7, <1>8, <1>9, <1>10

LEMMA StepSound == ASSUME ~DiskFaults PROVE IInv /\ Sound /\ [Next]_vars => Sound'
<1> SUFFICES ASSUME IInv, Sound, [Next]_vars PROVE Sound'
  OBVIOUS
<1>1. CASE UNCHANGED vars
  BY <1>1, FadesAll, FadingSound DEF vars, Sound, Synced
<1>2. CASE \E k \in Keys \cup {NoKey}, s \in Sessions, ttl \in Ttls :
             Enqueue("queue", k, s, ttl) \/ Enqueue("chat", k, s, ttl)
  BY <1>2, EnqueueSound
<1>3. CASE \E k \in Keys, s \in Sessions :
             OwnerRun(k, s) \/ OwnerRunThrows(k, s) \/ OwnerRunCrashes(k, s)
  BY <1>3, OwnerRunSound DEF OwnerRunThrows
<1>4. CASE \/ List \/ ExpiryThrows \/ Crash \/ Restart \/ Tick
           \/ \E c \in Cards : Approve(c) \/ Deny(c)
           \/ \E f \in flights : HandlerActs(f) \/ Finish(f)
  BY <1>4, OtherSound DEF ExpiryThrows
<1> QED BY <1>1, <1>2, <1>3, <1>4 DEF Next

LEMMA InitSound == Init => Sound
<1> SUFFICES ASSUME Init PROVE Sound
  OBVIOUS
<1>1. mem = disk /\ \A c \in Cards : disk[c].status = "absent"
  BY DEF Init, NoCards, Absent
<1> QED BY <1>1 DEF Sound, Synced, AskedOnceIn, CodesRetiredIn

LEMMA SoundAlways == ASSUME ~DiskFaults PROVE Spec => [](IInv /\ Sound)
<1>1. IInv /\ Sound /\ [Next]_vars => Sound'
  BY StepSound
<1> QED BY InitSound, <1>1, Inductive, PTL DEF Spec

\* While the disk works, the owner is never shown two open cards for the same
\* request, also across crashes and expiries.
THEOREM AskedOnce == ASSUME ~DiskFaults PROVE Spec => []OnePendingPerRequest
  BY SoundAlways, SoundMeans, PTL

\* While the disk works, a spoken code names one open card and is not given to
\* another within the retirement window.
THEOREM CodesRetire == ASSUME ~DiskFaults PROVE Spec => []CodesRetired
  BY SoundAlways, SoundMeans, PTL
=============================================================================
