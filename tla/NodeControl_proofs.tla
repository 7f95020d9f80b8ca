-------------------------- MODULE NodeControl_proofs --------------------------
(***************************************************************************)
(* Proofs about NodeControl, for any number of commands, sessions, slots   *)
(* and faults, any bound of the queue and size of the cache.               *)
(***************************************************************************)
EXTENDS NodeControl, FiniteSetTheorems, SequenceTheorems, WellFoundedInduction, TLAPS

-----------------------------------------------------------------------------
(***************************************************************************)
(* What a filter leaves of a sequence.  The library's induction theorems   *)
(* take a predicate; a set of numbers does as well, and can be cited.      *)
(***************************************************************************)
LEMMA SetInduction ==
    ASSUME NEW T, 0 \in T, \A n \in Nat : n \in T => n + 1 \in T
    PROVE  Nat \subseteq T
<1> SUFFICES ASSUME NEW x \in Nat \ T PROVE FALSE
  OBVIOUS
<1> DEFINE B == Nat \ T
           R == OpToRel(<, Nat)
<1>1. IsWellFoundedOn(R, Nat) /\ B \subseteq Nat /\ B # {}
  BY NatLessThanWellFounded
<1>2. \A a, b \in Nat : a < b => <<a, b>> \in R
  BY DEF OpToRel
<1> HIDE DEF R, B
<1>3. PICK m \in B : \A k \in B : <<k, m>> \notin R
  BY <1>1, WFMin
<1>4. m \in Nat /\ m # 0 /\ m \notin T
  BY <1>3 DEF B
<1>5. m - 1 \in Nat /\ m - 1 \in B
  BY <1>4 DEF B
<1>6. m - 1 < m
  BY <1>4
<1> QED BY <1>2, <1>3, <1>4, <1>5, <1>6

\* g is the table that Without computes for q and S, up to n.
Keeping(q, S, n, g) ==
    g = [i \in 0 .. n |->
            IF i = 0 THEN <<>>
            ELSE IF q[i] \in S THEN g[i - 1] ELSE Append(g[i - 1], q[i])]

\* r has the elements of q up to n that are not in S, in their order: at says
\* where each comes from.
Left(q, S, n, r) ==
    /\ Len(r) <= n
    /\ \A i \in 1 .. n : q[i] \in S => Len(r) < n
    /\ \A i \in 1 .. n : q[i] \notin S => \E k \in 1 .. Len(r) : r[k] = q[i]
    /\ \E at \in [1 .. Len(r) -> 1 .. n] :
         /\ \A k \in 1 .. Len(r) : r[k] = q[at[k]] /\ q[at[k]] \notin S
         /\ \A k, m \in 1 .. Len(r) : k < m => at[k] < at[m]

LEMMA LeftStep ==
    ASSUME NEW T, NEW q \in Seq(T), NEW S, NEW n \in Nat, n + 1 <= Len(q),
           NEW r \in Seq(T), Left(q, S, n, r)
    PROVE  LET r2 == IF q[n + 1] \in S THEN r ELSE Append(r, q[n + 1])
           IN  r2 \in Seq(T) /\ Left(q, S, n + 1, r2)
<1>1. CASE q[n + 1] \in S
  <2>1. Len(r) \in Nat
    OBVIOUS
  <2>2. PICK at \in [1 .. Len(r) -> 1 .. n] :
          /\ \A k \in 1 .. Len(r) : r[k] = q[at[k]] /\ q[at[k]] \notin S
          /\ \A k, m \in 1 .. Len(r) : k < m => at[k] < at[m]
    BY DEF Left
  <2>3. at \in [1 .. Len(r) -> 1 .. n + 1]
    OBVIOUS
  <2>4. \A i \in 1 .. n + 1 : i \in 1 .. n \/ i = n + 1
    OBVIOUS
  <2>5. /\ Len(r) <= n
        /\ \A i \in 1 .. n : q[i] \notin S => \E k \in 1 .. Len(r) : r[k] = q[i]
    BY DEF Left
  <2>6. Len(r) < n + 1
    BY <2>1, <2>5
  <2>7. \A i \in 1 .. n + 1 : q[i] \notin S => \E k \in 1 .. Len(r) : r[k] = q[i]
    BY <1>1, <2>4, <2>5
  <2>8. Left(q, S, n + 1, r)
    <3>1. Len(r) <= n + 1 /\ \A i \in 1 .. n + 1 : q[i] \in S => Len(r) < n + 1
      BY <2>1, <2>6
    <3> QED BY <2>2, <2>3, <2>7, <3>1 DEF Left
  <2> QED BY <1>1, <2>8
<1>2. CASE q[n + 1] \notin S
  <2> DEFINE r2 == Append(r, q[n + 1])
  <2>1. /\ q[n + 1] \in T /\ Len(r) \in Nat /\ r2 \in Seq(T) /\ Len(r2) = Len(r) + 1
        /\ r2[Len(r) + 1] = q[n + 1] /\ \A k \in 1 .. Len(r) : r2[k] = r[k]
    OBVIOUS
  <2>2. PICK at \in [1 .. Len(r) -> 1 .. n] :
          /\ \A k \in 1 .. Len(r) : r[k] = q[at[k]] /\ q[at[k]] \notin S
          /\ \A k, m \in 1 .. Len(r) : k < m => at[k] < at[m]
    BY DEF Left
  <2> DEFINE at2 == [k \in 1 .. Len(r2) |-> IF k \in 1 .. Len(r) THEN at[k] ELSE n + 1]
  <2> HIDE DEF r2
  <2>3. /\ at2 \in [1 .. Len(r2) -> 1 .. n + 1]
        /\ at2[Len(r) + 1] = n + 1 /\ \A k \in 1 .. Len(r) : at2[k] = at[k]
    BY <2>1
  <2>4. \A k \in 1 .. Len(r2) : k \in 1 .. Len(r) \/ k = Len(r) + 1
    BY <2>1
  <2> HIDE DEF at2
  <2>5. \A k \in 1 .. Len(r2) : r2[k] = q[at2[k]] /\ q[at2[k]] \notin S
    BY <1>2, <2>1, <2>2, <2>3, <2>4
  <2>6. \A k, m \in 1 .. Len(r2) : k < m => at2[k] < at2[m]
    <3> SUFFICES ASSUME NEW k \in 1 .. Len(r2), NEW m \in 1 .. Len(r2), k < m
                 PROVE  at2[k] < at2[m]
      OBVIOUS
    <3>1. k \in 1 .. Len(r) /\ at[k] \in 1 .. n
      BY <2>1, <2>2
    <3>2. CASE m = Len(r) + 1
      BY <2>3, <3>1, <3>2
    <3>3. CASE m \in 1 .. Len(r)
      BY <2>2, <2>3, <3>1, <3>3
    <3> QED BY <2>4, <3>2, <3>3
  <2>7. \A i \in 1 .. n + 1 : q[i] \notin S => \E k \in 1 .. Len(r2) : r2[k] = q[i]
    <3> SUFFICES ASSUME NEW i \in 1 .. n + 1, q[i] \notin S
                 PROVE  \E k \in 1 .. Len(r2) : r2[k] = q[i]
      OBVIOUS
    <3>1. CASE i = n + 1
      BY <2>1, <3>1
    <3>2. CASE i \in 1 .. n
      <4>1. PICK k \in 1 .. Len(r) : r[k] = q[i]
        BY <3>2 DEF Left
      <4> QED BY <2>1, <4>1
    <3> QED BY <3>1, <3>2
  <2>8. Len(r2) <= n + 1 /\ \A i \in 1 .. n + 1 : q[i] \in S => Len(r2) < n + 1
    <3>1. Len(r) <= n /\ \A i \in 1 .. n : q[i] \in S => Len(r) < n
      BY DEF Left
    <3>2. \A i \in 1 .. n + 1 : i \in 1 .. n \/ i = n + 1
      OBVIOUS
    <3> QED BY <1>2, <2>1, <3>1, <3>2
  <2>9. Left(q, S, n + 1, r2)
    BY <2>3, <2>5, <2>6, <2>7, <2>8 DEF Left
  <2> QED BY <1>2, <2>1, <2>9 DEF r2
<1> QED BY <1>1, <1>2

\* The table exists, and each of its entries is what is left of q up to it.
LEMMA KeepingExists ==
    ASSUME NEW T, NEW q \in Seq(T), NEW S, NEW n \in Nat, n <= Len(q)
    PROVE  \E g : Keeping(q, S, n, g)
<1> DEFINE N == {m \in Nat : m <= Len(q) => \E g : Keeping(q, S, m, g)}
<1>1. 0 \in N
  <2> DEFINE g == [i \in 0 .. 0 |-> <<>>]
  <2>1. Keeping(q, S, 0, g)
    BY DEF Keeping
  <2> QED BY <2>1
<1>2. ASSUME NEW m \in Nat, m \in N PROVE m + 1 \in N
  <2> SUFFICES ASSUME m + 1 <= Len(q) PROVE \E g : Keeping(q, S, m + 1, g)
    OBVIOUS
  <2>1. PICK g : Keeping(q, S, m, g)
    BY <1>2
  <2> DEFINE r == IF q[m + 1] \in S THEN g[m] ELSE Append(g[m], q[m + 1])
             h == [i \in 0 .. m + 1 |-> IF i = m + 1 THEN r ELSE g[i]]
             d(f, i) == IF i = 0 THEN <<>>
                        ELSE IF q[i] \in S THEN f[i - 1] ELSE Append(f[i - 1], q[i])
  <2>2. h[m + 1] = r /\ \A i \in 0 .. m : h[i] = g[i]
    OBVIOUS
  <2>3. h = [i \in 0 .. m + 1 |-> h[i]]
    OBVIOUS
  <2>4. r = d(h, m + 1)
    <3>1. m + 1 # 0 /\ m + 1 - 1 = m /\ h[m] = g[m]
      BY <2>2
    <3> HIDE DEF h
    <3> QED BY <3>1
  <2> HIDE DEF r, h
  <2>5. \A i \in 0 .. m : h[i] = d(h, i)
    <3> SUFFICES ASSUME NEW i \in 0 .. m PROVE h[i] = d(h, i)
      OBVIOUS
    <3>1. g[i] = d(g, i)
      BY <2>1 DEF Keeping
    <3>2. i # 0 => h[i - 1] = g[i - 1]
      BY <2>2
    <3> QED BY <2>2, <3>1, <3>2
  <2> HIDE DEF d
  <2>6. \A i \in 0 .. m + 1 : h[i] = d(h, i)
    <3>1. \A i \in 0 .. m + 1 : i \in 0 .. m \/ i = m + 1
      OBVIOUS
    <3> QED BY <2>2, <2>4, <2>5, <3>1
  <2>7. h = [i \in 0 .. m + 1 |-> d(h, i)]
    BY <2>3, <2>6
  <2> QED BY <2>7 DEF Keeping, d
<1> HIDE DEF N
<1>3. Nat \subseteq N
  BY <1>1, <1>2, SetInduction
<1> QED BY <1>3 DEF N

LEMMA KeepingLeft ==
    ASSUME NEW T, NEW q \in Seq(T), NEW S, NEW g, Keeping(q, S, Len(q), g)
    PROVE  g[Len(q)] \in Seq(T) /\ Left(q, S, Len(q), g[Len(q)])
<1> DEFINE N == {n \in Nat : n <= Len(q) => g[n] \in Seq(T) /\ Left(q, S, n, g[n])}
<1>1. 0 \in N
  <2>1. g[0] = <<>>
    BY DEF Keeping
  <2>2. Left(q, S, 0, <<>>)
    <3> DEFINE at == [k \in 1 .. 0 |-> k]
    <3>1. at \in [1 .. Len(<<>>) -> 1 .. 0] /\ Len(<<>>) <= 0 /\ 1 .. Len(<<>>) = {}
      OBVIOUS
    <3>2. 1 .. 0 = {}
      OBVIOUS
    <3> HIDE DEF at
    <3>3. \E a \in [1 .. Len(<<>>) -> 1 .. 0] :
         /\ \A k \in 1 .. Len(<<>>) : <<>>[k] = q[a[k]] /\ q[a[k]] \notin S
         /\ \A k, m \in 1 .. Len(<<>>) : k < m => a[k] < a[m]
      BY <3>1
    <3> QED BY <3>1, <3>2, <3>3 DEF Left
  <2>3. <<>> \in Seq(T)
    OBVIOUS
  <2> QED BY <2>1, <2>2, <2>3
<1>2. ASSUME NEW n \in Nat, n \in N PROVE n + 1 \in N
  <2> SUFFICES ASSUME n + 1 <= Len(q)
               PROVE  g[n + 1] \in Seq(T) /\ Left(q, S, n + 1, g[n + 1])
    OBVIOUS
  <2>1. g[n + 1] = IF q[n + 1] \in S THEN g[n] ELSE Append(g[n], q[n + 1])
    <3>1. n + 1 \in 0 .. Len(q) /\ n + 1 # 0 /\ n + 1 - 1 = n
      OBVIOUS
    <3> DEFINE d(i) == IF i = 0 THEN <<>>
                       ELSE IF q[i] \in S THEN g[i - 1] ELSE Append(g[i - 1], q[i])
    <3>2. \A i \in 0 .. Len(q) : g[i] = d(i)
      BY DEF Keeping
    <3> QED BY <3>1, <3>2
  <2>2. g[n] \in Seq(T) /\ Left(q, S, n, g[n])
    BY <1>2
  <2> QED BY <2>1, <2>2, LeftStep
<1> HIDE DEF N
<1>3. Nat \subseteq N
  BY <1>1, <1>2, SetInduction
<1> QED BY <1>3 DEF N

LEMMA WithoutLeft ==
    ASSUME NEW T, NEW q \in Seq(T), NEW S
    PROVE  Without(q, S) \in Seq(T) /\ Left(q, S, Len(q), Without(q, S))
<1> DEFINE kept == CHOOSE g : Keeping(q, S, Len(q), g)
<1>1. Keeping(q, S, Len(q), kept)
  <2>1. Len(q) \in Nat /\ Len(q) <= Len(q)
    OBVIOUS
  <2> QED BY <2>1, KeepingExists
<1>2. Without(q, S) = kept[Len(q)]
  BY DEF Without, Keeping
<1> HIDE DEF kept
<1> QED BY <1>1, <1>2, KeepingLeft

\* r has some of the elements of q, in their order.
Thinner(q, r) ==
    /\ Len(r) <= Len(q)
    /\ \A c : Contains(r, c) => Contains(q, c)
    /\ \A k, m \in 1 .. Len(r) : k < m =>
         \E i, j \in 1 .. Len(q) : i < j /\ q[i] = r[k] /\ q[j] = r[m]

\* What Without leaves: a subsequence, with all that is not in S, and shorter
\* when S has something to take.
LEMMA WithoutFacts ==
    ASSUME NEW T, NEW q \in Seq(T), NEW S
    PROVE  /\ Without(q, S) \in Seq(T)
           /\ Thinner(q, Without(q, S))
           /\ \A c : Contains(Without(q, S), c) <=> Contains(q, c) /\ c \notin S
           /\ \A c \in S : Contains(q, c) => Len(Without(q, S)) < Len(q)
<1> DEFINE r == Without(q, S)
<1>1. r \in Seq(T) /\ Left(q, S, Len(q), r)
  BY WithoutLeft
<1> HIDE DEF r
<1>2. PICK at \in [1 .. Len(r) -> 1 .. Len(q)] :
        /\ \A k \in 1 .. Len(r) : r[k] = q[at[k]] /\ q[at[k]] \notin S
        /\ \A k, m \in 1 .. Len(r) : k < m => at[k] < at[m]
  BY <1>1 DEF Left
<1>3. /\ Len(r) <= Len(q)
      /\ \A i \in 1 .. Len(q) : q[i] \in S => Len(r) < Len(q)
      /\ \A i \in 1 .. Len(q) : q[i] \notin S => \E k \in 1 .. Len(r) : r[k] = q[i]
  BY <1>1 DEF Left
<1>4. \A c : Contains(r, c) => Contains(q, c) /\ c \notin S
  BY <1>2 DEF Contains
<1>5. \A c : Contains(q, c) /\ c \notin S => Contains(r, c)
  BY <1>3 DEF Contains
<1>6. \A c \in S : Contains(q, c) => Len(r) < Len(q)
  BY <1>3 DEF Contains
<1>7. ASSUME NEW k \in 1 .. Len(r), NEW m \in 1 .. Len(r), k < m
      PROVE  \E i, j \in 1 .. Len(q) : i < j /\ q[i] = r[k] /\ q[j] = r[m]
  BY <1>2, <1>7
<1>8. Thinner(q, r)
  BY <1>3, <1>4, <1>7 DEF Thinner
<1> QED BY <1>1, <1>4, <1>5, <1>6, <1>8 DEF r

LEMMA ThinnerReflexive ==
    ASSUME NEW T, NEW q \in Seq(T) PROVE Thinner(q, q)
BY DEF Thinner

LEMMA ThinnerEmpty ==
    ASSUME NEW T, NEW q \in Seq(T) PROVE Thinner(q, <<>>)
BY DEF Thinner, Contains

LEMMA ThinnerTransitive ==
    ASSUME NEW T, NEW p \in Seq(T), NEW q \in Seq(T), NEW r \in Seq(T),
           Thinner(p, q), Thinner(q, r)
    PROVE  Thinner(p, r)
<1>1. Len(r) <= Len(p)
  BY DEF Thinner
<1>2. \A c : Contains(r, c) => Contains(p, c)
  BY DEF Thinner
<1>3. ASSUME NEW k \in 1 .. Len(r), NEW m \in 1 .. Len(r), k < m
      PROVE  \E i, j \in 1 .. Len(p) : i < j /\ p[i] = r[k] /\ p[j] = r[m]
  <2>1. PICK i, j \in 1 .. Len(q) : i < j /\ q[i] = r[k] /\ q[j] = r[m]
    BY <1>3 DEF Thinner
  <2>2. PICK a, b \in 1 .. Len(p) : a < b /\ p[a] = q[i] /\ p[b] = q[j]
    BY <2>1 DEF Thinner
  <2> QED BY <2>1, <2>2
<1> QED BY <1>1, <1>2, <1>3 DEF Thinner

LEMMA ThinnerInjective ==
    ASSUME NEW T, NEW q \in Seq(T), NEW r \in Seq(T), Thinner(q, r), IsInjective(q)
    PROVE  IsInjective(r)
<1>1. \A i, j \in 1 .. Len(q) : q[i] = q[j] => i = j
  BY DEF IsInjective
<1>2. ASSUME NEW k \in 1 .. Len(r), NEW m \in 1 .. Len(r), k < m PROVE r[k] # r[m]
  <2>1. PICK i, j \in 1 .. Len(q) : i < j /\ q[i] = r[k] /\ q[j] = r[m]
    BY <1>2 DEF Thinner
  <2> QED BY <1>1, <2>1
<1>3. DOMAIN r = 1 .. Len(r) /\ Len(r) \in Nat
  OBVIOUS
<1>4. \A k, m \in 1 .. Len(r) : k < m \/ k = m \/ m < k
  BY <1>3
<1> QED BY <1>2, <1>3, <1>4 DEF IsInjective

\* Min is well defined.
LEMMA MinFacts ==
    ASSUME NEW S \in SUBSET Nat, S # {}
    PROVE  Min(S) \in S /\ \A k \in S : Min(S) <= k
<1> DEFINE R == OpToRel(<, Nat)
<1>1. IsWellFoundedOn(R, Nat)
  BY NatLessThanWellFounded
<1>2. \A a, b \in Nat : a < b => <<a, b>> \in R
  BY DEF OpToRel
<1> HIDE DEF R
<1>3. PICK m \in S : \A k \in S : <<k, m>> \notin R
  BY <1>1, WFMin
<1>4. ASSUME NEW k \in S PROVE m <= k
  <2>1. k \in Nat /\ m \in Nat /\ ~(k < m)
    BY <1>2, <1>3
  <2> QED BY <2>1
<1> QED BY <1>3, <1>4 DEF Min

-----------------------------------------------------------------------------
(***************************************************************************)
(* The broker's methods                                                    *)
(***************************************************************************)
Answering(f) == DOMAIN f \subseteq Ids /\ \A c \in DOMAIN f : f[c] \in Answers

LEMMA AnsweredFacts ==
    ASSUME NEW b \in Broker, NEW f, Answering(f)
    PROVE  /\ Answered(b, f) \in Broker
           /\ Answered(b, f).cmd = b.cmd /\ Answered(b, f).queue = b.queue
           /\ Answered(b, f).parked = b.parked /\ Answered(b, f).known = b.known
           /\ \A c \in Ids : /\ Answered(b, f).pend[c]
                                  = IF c \in DOMAIN f THEN "gone" ELSE b.pend[c]
                             /\ Answered(b, f).told[c]
                                  = IF c \in DOMAIN f THEN f[c] ELSE b.told[c]
<1> DEFINE p == [c \in Ids |-> IF c \in DOMAIN f THEN "gone" ELSE b.pend[c]]
           t == [c \in Ids |-> IF c \in DOMAIN f THEN f[c] ELSE b.told[c]]
           s == b.settled \cup DOMAIN f
<1>1. /\ p \in [Ids -> {"new", "waiting", "delivered", "gone"}]
      /\ t \in [Ids -> Answers] /\ s \in SUBSET Ids
  BY DEF Broker, Answering
<1>2. Answered(b, f) = [b EXCEPT !.pend = p, !.told = t, !.settled = s]
  BY DEF Answered, Broker
<1>3. \A c \in Ids : /\ p[c] = IF c \in DOMAIN f THEN "gone" ELSE b.pend[c]
                     /\ t[c] = IF c \in DOMAIN f THEN f[c] ELSE b.told[c]
  OBVIOUS
<1> HIDE DEF p, t, s
<1> QED BY <1>1, <1>2, <1>3 DEF Broker

LEMMA UnqueuedFacts ==
    ASSUME NEW b \in Broker, NEW S
    PROVE  /\ Unqueued(b, S) \in Broker
           /\ Unqueued(b, S).cmd = b.cmd /\ Unqueued(b, S).parked = b.parked
           /\ Unqueued(b, S).pend = b.pend /\ Unqueued(b, S).told = b.told
           /\ Unqueued(b, S).known = b.known
           /\ Unqueued(b, S).queue = Without(b.queue, S)
<1>1. b.queue \in Seq(Ids)
  BY DEF Broker
<1>2. Without(b.queue, S) \in Seq(Ids)
  BY <1>1, WithoutFacts
<1> QED BY <1>2 DEF Unqueued, Broker

\* From b to b2 commands leave the queue and callers are answered.  No one is
\* told "never" but the callers of N, of revocations, and of what was waiting or
\* queued and is queued no more.
Settles(b, b2, N) ==
    /\ b2 \in Broker /\ b2.cmd = b.cmd
    /\ Thinner(b.queue, b2.queue)
    /\ b2.parked = "any" => b.parked = "any" \/ \A c : ~Contains(b2.queue, c)
    /\ \A c \in Ids :
         /\ b2.pend[c] = "waiting" => b.pend[c] = "waiting"
         /\ c \in Pending(b2) => c \in Pending(b)
         /\ b2.told[c] = "never" =>
              \/ b.told[c] = "never" \/ c \in N \/ IsEnd(b, c)
              \/ /\ b.pend[c] = "waiting" \/ Contains(b.queue, c)
                 /\ ~Contains(b2.queue, c)

LEMMA SettlesTransitive ==
    ASSUME NEW b1 \in Broker, NEW b2, NEW b3, NEW N,
           Settles(b1, b2, N), Settles(b2, b3, N)
    PROVE  Settles(b1, b3, N)
<1>1. /\ b1.queue \in Seq(Ids) /\ b2.queue \in Seq(Ids) /\ b3.queue \in Seq(Ids)
      /\ Thinner(b1.queue, b2.queue) /\ Thinner(b2.queue, b3.queue)
  BY DEF Settles, Broker
<1>2. Thinner(b1.queue, b3.queue)
  BY <1>1, ThinnerTransitive
<1>3. \A c : /\ Contains(b3.queue, c) => Contains(b2.queue, c)
             /\ Contains(b2.queue, c) => Contains(b1.queue, c)
  BY <1>1 DEF Thinner
<1> QED BY <1>2, <1>3 DEF Settles, IsEnd

\* The callers in the domain of f are answered, and S is not queued any more.
LEMMA SettlesBy ==
    ASSUME NEW b \in Broker, NEW b2 \in Broker, NEW f, NEW S, NEW N,
           b2.cmd = b.cmd, b2.parked = b.parked,
           Thinner(b.queue, b2.queue), \A c \in S : ~Contains(b2.queue, c),
           \A c \in Ids : /\ b2.pend[c] = IF c \in DOMAIN f THEN "gone" ELSE b.pend[c]
                          /\ b2.told[c] = IF c \in DOMAIN f THEN f[c] ELSE b.told[c],
           \A c \in DOMAIN f : f[c] = "never" =>
               \/ IsEnd(b, c) \/ c \in N
               \/ c \in S /\ (b.pend[c] = "waiting" \/ Contains(b.queue, c))
    PROVE  Settles(b, b2, N)
<1> SUFFICES ASSUME NEW c \in Ids
             PROVE  /\ b2.pend[c] = "waiting" => b.pend[c] = "waiting"
                    /\ c \in Pending(b2) => c \in Pending(b)
                    /\ b2.told[c] = "never" =>
                         \/ b.told[c] = "never" \/ c \in N \/ IsEnd(b, c)
                         \/ /\ b.pend[c] = "waiting" \/ Contains(b.queue, c)
                            /\ ~Contains(b2.queue, c)
  BY DEF Settles
<1>1. CASE c \in DOMAIN f
  BY <1>1 DEF Pending
<1>2. CASE c \notin DOMAIN f
  BY <1>2 DEF Pending
<1> QED BY <1>1, <1>2

\* Answered, then Unqueued: _rejectCommand, and what shedding and expiry do.
LEMMA AnsweredUnqueued ==
    ASSUME NEW b \in Broker, NEW f, Answering(f), NEW S, NEW N,
           \A c \in DOMAIN f : f[c] = "never" =>
               \/ IsEnd(b, c) \/ c \in N
               \/ c \in S /\ (b.pend[c] = "waiting" \/ Contains(b.queue, c))
    PROVE  LET b2 == Unqueued(Answered(b, f), S)
           IN  /\ Settles(b, b2, N) /\ b2.queue = Without(b.queue, S)
               /\ b2.parked = b.parked
<1> DEFINE b1 == Answered(b, f)
           b2 == Unqueued(b1, S)
<1>1. /\ b1 \in Broker /\ b1.cmd = b.cmd /\ b1.queue = b.queue
      /\ b1.parked = b.parked
      /\ \A c \in Ids : /\ b1.pend[c] = IF c \in DOMAIN f THEN "gone" ELSE b.pend[c]
                        /\ b1.told[c] = IF c \in DOMAIN f THEN f[c] ELSE b.told[c]
  BY AnsweredFacts
<1> HIDE DEF b1
<1>2. /\ b2 \in Broker /\ b2.cmd = b1.cmd /\ b2.parked = b1.parked
      /\ b2.pend = b1.pend /\ b2.told = b1.told
      /\ b2.queue = Without(b1.queue, S)
  BY <1>1, UnqueuedFacts
<1> HIDE DEF b2
<1>3. b.queue \in Seq(Ids)
  BY DEF Broker
<1>4. Thinner(b.queue, b2.queue) /\ \A c \in S : ~Contains(b2.queue, c)
  BY <1>1, <1>2, <1>3, WithoutFacts
<1>5. /\ b2.cmd = b.cmd /\ b2.parked = b.parked
      /\ \A c \in Ids : /\ b2.pend[c] = IF c \in DOMAIN f THEN "gone" ELSE b.pend[c]
                        /\ b2.told[c] = IF c \in DOMAIN f THEN f[c] ELSE b.told[c]
  BY <1>1, <1>2
<1>6. Settles(b, b2, N)
  BY <1>2, <1>4, <1>5, SettlesBy
<1> QED BY <1>1, <1>2, <1>6 DEF b1, b2

LEMMA HonestFacts ==
    ASSUME NEW b \in Broker, NEW S
    PROVE  /\ Answering(Honest(b, S)) /\ Answering(Never(b, S))
           /\ DOMAIN Honest(b, S) = S \cap Pending(b)
           /\ DOMAIN Never(b, S) = S \cap Pending(b)
           /\ \A c \in DOMAIN Honest(b, S) :
                Honest(b, S)[c] = "never" => b.pend[c] = "waiting"
<1>1. Pending(b) \subseteq Ids
      /\ \A c \in Pending(b) : b.pend[c] # "delivered" => b.pend[c] = "waiting"
  BY DEF Pending
<1> QED BY <1>1 DEF Honest, Never, Answering, Answers

LEMMA RejectedFacts ==
    ASSUME NEW b \in Broker, NEW f, Answering(f), NEW N,
           \A c \in DOMAIN f : f[c] = "never" =>
               \/ IsEnd(b, c) \/ c \in N \/ b.pend[c] = "waiting"
    PROVE  Settles(b, Rejected(b, f), N) /\ Rejected(b, f).parked = b.parked
BY AnsweredUnqueued DEF Rejected

LEMMA VictimFacts ==
    ASSUME NEW b \in Broker, b.queue # <<>>
    PROVE  /\ Victim(b) \in Ids /\ Contains(b.queue, Victim(b))
           /\ (\E i \in 1 .. Len(b.queue) : ~IsEnd(b, b.queue[i])) => ~IsEnd(b, Victim(b))
<1>1. b.queue \in Seq(Ids) /\ Len(b.queue) \in Nat /\ Len(b.queue) # 0
  BY DEF Broker
<1>2. Ordinary(b) \in SUBSET Nat /\ Ordinary(b) \subseteq 1 .. Len(b.queue)
      /\ \A i \in Ordinary(b) : ~IsEnd(b, b.queue[i])
  BY <1>1 DEF Ordinary
<1>3. CASE Ordinary(b) = {}
  <2>1. Victim(b) = b.queue[Len(b.queue)] /\ Len(b.queue) \in 1 .. Len(b.queue)
    BY <1>1, <1>3 DEF Victim
  <2>2. \A i \in 1 .. Len(b.queue) : IsEnd(b, b.queue[i])
    BY <1>1, <1>3 DEF Ordinary
  <2> QED BY <1>1, <2>1, <2>2 DEF Contains
<1>4. CASE Ordinary(b) # {}
  <2>1. Victim(b) = b.queue[Min(Ordinary(b))] /\ Min(Ordinary(b)) \in Ordinary(b)
    BY <1>2, <1>4, MinFacts DEF Victim
  <2> QED BY <1>1, <1>2, <2>1 DEF Contains
<1> QED BY <1>3, <1>4

\* Shedding makes room for one.
LEMMA ShedFacts ==
    ASSUME NEW b \in Broker
    PROVE  /\ Settles(b, Shed(b), {}) /\ Shed(b).parked = b.parked
           /\ Len(b.queue) <= MaxQueue + 1 => Len(Shed(b).queue) <= MaxQueue
           /\ (\E i \in 1 .. Len(b.queue) : ~IsEnd(b, b.queue[i])) =>
                \A d : Contains(b.queue, d) /\ IsEnd(b, d) => Contains(Shed(b).queue, d)
<1>0. /\ b.queue \in Seq(Ids) /\ Len(b.queue) \in Nat /\ MaxQueue \in Nat
      /\ \A c \in Ids : c \in {} => FALSE
  BY BrokerAssumption DEF Broker
<1>1. CASE Len(b.queue) <= MaxQueue
  <2>1. Shed(b) = b
    BY <1>1 DEF Shed
  <2>2. Thinner(b.queue, b.queue)
    BY <1>0, ThinnerReflexive
  <2>3. Settles(b, b, {})
    BY <2>2 DEF Settles
  <2> QED BY <1>1, <2>1, <2>3
<1>2. CASE ~(Len(b.queue) <= MaxQueue)
  <2> DEFINE v == Victim(b)
             f == Never(b, {v})
  <2>0. b.queue # <<>>
    BY <1>0, <1>2
  <2>1. /\ v \in Ids /\ Contains(b.queue, v)
        /\ (\E i \in 1 .. Len(b.queue) : ~IsEnd(b, b.queue[i])) => ~IsEnd(b, v)
    BY <2>0, VictimFacts
  <2>2. Shed(b) = Unqueued(Answered(b, f), {v})
    BY <1>2 DEF Shed
  <2>3. Answering(f) /\ DOMAIN f \subseteq {v}
    BY HonestFacts
  <2> HIDE DEF v, f
  <2>4. /\ Settles(b, Shed(b), {}) /\ Shed(b).queue = Without(b.queue, {v})
        /\ Shed(b).parked = b.parked
    BY <2>1, <2>2, <2>3, AnsweredUnqueued
  <2>5. /\ Len(Shed(b).queue) < Len(b.queue) /\ Shed(b).queue \in Seq(Ids)
        /\ \A d : Contains(b.queue, d) /\ d # v => Contains(Shed(b).queue, d)
    BY <1>0, <2>1, <2>4, WithoutFacts
  <2>6. Len(b.queue) <= MaxQueue + 1 => Len(Shed(b).queue) <= MaxQueue
    BY <1>0, <2>5
  <2> QED BY <2>1, <2>4, <2>5, <2>6
<1> QED BY <1>1, <1>2

\* The timer of ordinary work.
LEMMA TimedOutWork ==
    ASSUME NEW b \in Broker, NEW c \in Ids, ~IsEnd(b, c)
    PROVE  Settles(b, TimedOut(b, c), {}) /\ TimedOut(b, c).parked = b.parked
<1> DEFINE b1 == Unqueued(b, {c})
           f == Honest(b, {c})
           b2 == Answered(b1, f)
           S == {c}
           N == {}
<1>1. TimedOut(b, c) = b2
  BY DEF TimedOut
<1>2. /\ b1 \in Broker /\ b1.cmd = b.cmd /\ b1.parked = b.parked
      /\ b1.pend = b.pend /\ b1.told = b.told
      /\ b1.queue = Without(b.queue, {c})
  BY UnqueuedFacts
<1> HIDE DEF b1
<1>3. /\ Answering(f) /\ DOMAIN f \subseteq {c}
      /\ \A d \in DOMAIN f : f[d] = "never" => b.pend[d] = "waiting"
  BY HonestFacts
<1> HIDE DEF f
<1>4. /\ b2 \in Broker /\ b2.cmd = b.cmd /\ b2.parked = b.parked
      /\ b2.queue = b1.queue
      /\ \A d \in Ids : /\ b2.pend[d] = IF d \in DOMAIN f THEN "gone" ELSE b.pend[d]
                        /\ b2.told[d] = IF d \in DOMAIN f THEN f[d] ELSE b.told[d]
  BY <1>2, <1>3, AnsweredFacts
<1> HIDE DEF b2
<1>5. b.queue \in Seq(Ids)
  BY DEF Broker
<1>6. Thinner(b.queue, b2.queue) /\ \A d \in S : ~Contains(b2.queue, d)
  BY <1>2, <1>4, <1>5, WithoutFacts
<1>7. \A d \in DOMAIN f : f[d] = "never" =>
        \/ IsEnd(b, d) \/ d \in N
        \/ d \in S /\ (b.pend[d] = "waiting" \/ Contains(b.queue, d))
  BY <1>3
<1>8. b2.parked = b.parked
  BY <1>4
<1> HIDE DEF S, N
<1>9. Settles(b, b2, N)
  BY <1>4, <1>6, <1>7, <1>8, SettlesBy
<1> QED BY <1>1, <1>4, <1>9 DEF N

LEMMA TimedOutEnd ==
    ASSUME NEW b \in Broker, NEW c \in Ids, IsEnd(b, c), Retained(b, c) \in Broker,
           Retained(b, c).cmd = b.cmd
    PROVE  /\ Settles(Retained(b, c), TimedOut(b, c), {})
           /\ TimedOut(b, c).queue = Retained(b, c).queue
           /\ TimedOut(b, c).parked = Retained(b, c).parked
<1> DEFINE b1 == Retained(b, c)
           f == Honest(b, {c})
           b2 == Answered(b1, f)
           N == {}
<1>1. TimedOut(b, c) = b2
  BY DEF TimedOut
<1>2. b1 \in Broker /\ b1.cmd = b.cmd
  OBVIOUS
<1> HIDE DEF b1
<1>3. Answering(f) /\ DOMAIN f \subseteq {c}
  BY HonestFacts
<1> HIDE DEF f
<1>4. /\ b2 \in Broker /\ b2.cmd = b1.cmd /\ b2.parked = b1.parked
      /\ b2.queue = b1.queue
      /\ \A d \in Ids : /\ b2.pend[d] = IF d \in DOMAIN f THEN "gone" ELSE b1.pend[d]
                        /\ b2.told[d] = IF d \in DOMAIN f THEN f[d] ELSE b1.told[d]
  BY <1>2, <1>3, AnsweredFacts
<1> HIDE DEF b2
<1>5. b1.queue \in Seq(Ids)
  BY <1>2 DEF Broker
<1>6. Thinner(b1.queue, b2.queue) /\ \A d \in N : ~Contains(b2.queue, d)
  BY <1>4, <1>5, ThinnerReflexive
<1>7. \A d \in DOMAIN f : f[d] = "never" =>
        \/ IsEnd(b1, d) \/ d \in N
        \/ d \in N /\ (b1.pend[d] = "waiting" \/ Contains(b1.queue, d))
  BY <1>2, <1>3 DEF IsEnd
<1>8. b2.parked = b1.parked
  BY <1>4
<1> HIDE DEF N
<1>9. Settles(b1, b2, N)
  BY <1>2, <1>4, <1>6, <1>7, <1>8, SettlesBy
<1> QED BY <1>1, <1>4, <1>9 DEF b1, N

LEMMA CancelledFacts ==
    ASSUME NEW b \in Broker, NEW s
    PROVE  Settles(b, Cancelled(b, s), {}) /\ Cancelled(b, s).parked = b.parked
BY HonestFacts, RejectedFacts DEF Cancelled

\* What every caller is told when their node or their main goes.
LEMMA GoneFacts ==
    ASSUME NEW b \in Broker
    PROVE  Settles(b, Rejected(b, [c \in Pending(b) |-> "gone"]), {})
<1>1. Answering([c \in Pending(b) |-> "gone"])
  BY DEF Answering, Answers, Pending
<1> QED BY <1>1, RejectedFacts

LEMMA EmptiedFacts ==
    ASSUME NEW b \in Broker, NEW b1, Settles(b, b1, {}), NEW b2 \in Broker,
           b2.cmd = b1.cmd, b2.pend = b1.pend, b2.told = b1.told,
           b2.queue = <<>>, b2.parked = "none"
    PROVE  Settles(b, b2, {})
<1>1. b1.queue \in Seq(Ids) /\ b.queue \in Seq(Ids)
  BY DEF Settles, Broker
<1>2. Thinner(b.queue, <<>>)
  BY <1>1, ThinnerEmpty
<1>3. ~ \E c : Contains(<<>>, c)
  BY DEF Contains
<1> QED BY <1>2, <1>3 DEF Settles, Pending

LEMMA RemovedFacts ==
    ASSUME NEW b \in Broker
    PROVE  /\ Settles(b, Removed(b), {}) /\ Removed(b).queue = <<>>
           /\ Removed(b).parked = "none"
<1> DEFINE b1 == Rejected(b, [c \in Pending(b) |-> "gone"])
           b2 == Removed(b)
<1>1. Settles(b, b1, {}) /\ b1 \in Broker
  BY GoneFacts DEF Settles
<1>2. b2 = [b1 EXCEPT !.queue = <<>>, !.parked = "none", !.known = FALSE]
  BY DEF Removed
<1> HIDE DEF b1, b2
<1>a. <<>> \in Seq(Ids)
  OBVIOUS
<1>3. /\ b2 \in Broker /\ b2.cmd = b1.cmd /\ b2.pend = b1.pend /\ b2.told = b1.told
      /\ b2.queue = <<>> /\ b2.parked = "none"
  BY <1>1, <1>2, <1>a DEF Broker
<1> QED BY <1>1, <1>3, EmptiedFacts DEF b2

LEMMA ClosedFacts ==
    ASSUME NEW b \in Broker
    PROVE  /\ Settles(b, Closed(b), {}) /\ Closed(b).queue = <<>>
           /\ Closed(b).parked = "none"
<1> DEFINE b1 == Rejected(b, [c \in Pending(b) |-> "gone"])
           b2 == Closed(b)
<1>1. Settles(b, b1, {}) /\ b1 \in Broker
  BY GoneFacts DEF Settles
<1>2. b2 = [b1 EXCEPT !.queue = <<>>, !.settled = {}, !.parked = "none",
                      !.known = FALSE]
  BY DEF Closed, FreshBroker
<1> HIDE DEF b1, b2
<1>a. <<>> \in Seq(Ids)
  OBVIOUS
<1>3. /\ b2 \in Broker /\ b2.cmd = b1.cmd /\ b2.pend = b1.pend /\ b2.told = b1.told
      /\ b2.queue = <<>> /\ b2.parked = "none"
  BY <1>1, <1>2, <1>a DEF Broker
<1> QED BY <1>1, <1>3, EmptiedFacts DEF b2

\* A result settles its caller; only one that says so had no effect.
LEMMA DeliveredFacts ==
    ASSUME NEW b \in Broker, NEW c \in Ids, NEW outcome \in Outcomes
    PROVE  LET N == {d \in {c} : c \in Pending(b) /\ outcome \in {"rejected", "expired"}}
           IN  /\ Settles(b, Delivered(b, c, outcome), N)
               /\ Delivered(b, c, outcome).parked = b.parked
<1> DEFINE N == {d \in {c} : c \in Pending(b) /\ outcome \in {"rejected", "expired"}}
           b2 == Delivered(b, c, outcome)
<1>1. CASE c \in Pending(b)
  <2> DEFINE f == [x \in {c} |-> Said(outcome)]
  <2>1. Said(outcome) \in Answers
        /\ (Said(outcome) = "never" => outcome \in {"rejected", "expired"})
    BY DEF Said, Outcomes, Answers
  <2>2. Answering(f) /\ DOMAIN f = {c} /\ f[c] = Said(outcome)
    BY <2>1 DEF Answering
  <2>3. b2 = Rejected(b, f)
    BY <1>1 DEF Delivered
  <2> HIDE DEF f
  <2> QED BY <1>1, <2>1, <2>2, <2>3, RejectedFacts
<1>2. CASE c \notin Pending(b) /\ c \in b.settled
  <2>1. b2 = Unqueued(b, {c})
    BY <1>2 DEF Delivered
  <2>2. /\ b2 \in Broker /\ b2.cmd = b.cmd /\ b2.parked = b.parked
        /\ b2.pend = b.pend /\ b2.told = b.told
        /\ b2.queue = Without(b.queue, {c})
    BY <2>1, UnqueuedFacts
  <2>3. b.queue \in Seq(Ids)
    BY DEF Broker
  <2>4. Thinner(b.queue, b2.queue)
    BY <2>2, <2>3, WithoutFacts
  <2> QED BY <2>2, <2>4 DEF Settles, Pending
<1>3. CASE c \notin Pending(b) /\ c \notin b.settled
  <2>1. b2 = b
    BY <1>3 DEF Delivered
  <2>2. b.queue \in Seq(Ids)
    BY DEF Broker
  <2>3. Thinner(b.queue, b.queue)
    BY <2>2, ThinnerReflexive
  <2> QED BY <2>1, <2>3 DEF Settles
<1> QED BY <1>1, <1>2, <1>3

\* A poll's scan, up to where it hands a command over.
Scanned(b, only) ==
    [Unqueued(Answered(b, Never(b, Expired(b, only))), Expired(b, only))
        EXCEPT !.known = TRUE]

LEMMA ScanFacts ==
    ASSUME NEW b \in Broker, NEW only \in BOOLEAN
    PROVE  LET s == Scanned(b, only)
           IN  /\ Settles(b, s, {}) /\ s.parked = b.parked
               /\ \A c : Contains(s.queue, c) <=>
                           Contains(b.queue, c) /\ c \notin Expired(b, only)
<1> DEFINE E == Expired(b, only)
           b1 == Unqueued(Answered(b, Never(b, E)), E)
           s == [b1 EXCEPT !.known = TRUE]
           N == {}
<1>0. b.queue \in Seq(Ids)
  BY DEF Broker
<1>1. E \subseteq Ids /\ \A c \in E : Contains(b.queue, c)
  BY <1>0 DEF Expired, Contains
<1> HIDE DEF E
<1>2. Answering(Never(b, E)) /\ DOMAIN Never(b, E) = E \cap Pending(b)
  BY HonestFacts
<1>3. \A c \in DOMAIN Never(b, E) : Never(b, E)[c] = "never" =>
        \/ IsEnd(b, c) \/ c \in N
        \/ c \in E /\ (b.pend[c] = "waiting" \/ Contains(b.queue, c))
  BY <1>1, <1>2
<1> HIDE DEF N
<1>4. Settles(b, b1, N) /\ b1.queue = Without(b.queue, E) /\ b1.parked = b.parked
  BY <1>2, <1>3, AnsweredUnqueued
<1> HIDE DEF b1
<1>5. b1 \in Broker
  BY <1>4 DEF Settles
<1>6. /\ s \in Broker /\ s.cmd = b1.cmd /\ s.pend = b1.pend /\ s.told = b1.told
      /\ s.queue = b1.queue /\ s.parked = b1.parked
  BY <1>5 DEF Broker
<1> HIDE DEF s
<1>7. Settles(b, s, N)
  BY <1>4, <1>6 DEF Settles, Pending
<1>8. \A c : Contains(s.queue, c) <=> Contains(b.queue, c) /\ c \notin E
  BY <1>0, <1>4, <1>6, WithoutFacts
<1> QED BY <1>4, <1>6, <1>7, <1>8 DEF s, b1, E, N, Scanned

LEMMA HandedOverFacts ==
    ASSUME NEW b \in Broker, NEW c \in Ids
    PROVE  LET b2 == HandedOver(b, c)
           IN  /\ Settles(b, b2, {}) /\ b2.parked = b.parked
               /\ b2.pend[c] # "waiting" /\ b2.told = b.told
               /\ ~Contains(b2.queue, c)
<1> DEFINE b1 == Unqueued(b, {c})
           p == IF b1.pend[c] = "waiting" THEN "delivered" ELSE b1.pend[c]
           b2 == [b1 EXCEPT !.pend[c] = p]
<1>1. b2 = HandedOver(b, c)
  BY DEF HandedOver
<1>2. /\ b1 \in Broker /\ b1.cmd = b.cmd /\ b1.parked = b.parked
      /\ b1.pend = b.pend /\ b1.told = b.told
      /\ b1.queue = Without(b.queue, {c})
  BY UnqueuedFacts
<1> HIDE DEF b1
<1>3. b.queue \in Seq(Ids)
  BY DEF Broker
<1>4. Thinner(b.queue, b1.queue) /\ ~Contains(b1.queue, c)
  BY <1>2, <1>3, WithoutFacts
<1>5. /\ p \in {"new", "waiting", "delivered", "gone"} /\ p # "waiting"
      /\ p \in {"waiting", "delivered"} => c \in Pending(b)
  BY <1>2 DEF Broker, Pending
<1> HIDE DEF p
<1>6. /\ b2 \in Broker /\ b2.cmd = b1.cmd /\ b2.told = b1.told
      /\ b2.queue = b1.queue /\ b2.parked = b1.parked
      /\ b2.pend[c] = p /\ \A d \in Ids : d # c => b2.pend[d] = b1.pend[d]
  BY <1>2, <1>5 DEF Broker
<1> HIDE DEF b2
<1>7. ASSUME NEW d \in Ids
      PROVE  /\ b2.pend[d] = "waiting" => b.pend[d] = "waiting"
             /\ d \in Pending(b2) => d \in Pending(b)
  BY <1>2, <1>5, <1>6 DEF Pending
<1>8. Settles(b, b2, {})
  BY <1>2, <1>4, <1>6, <1>7 DEF Settles
<1> QED BY <1>1, <1>2, <1>4, <1>5, <1>6, <1>8

\* What a poll finds: the oldest of what it may carry and has not expired.
LEMMA FoundFacts ==
    ASSUME NEW b \in Broker, NEW only \in BOOLEAN, Found(b, only)
    PROVE  LET c == Taken(b, only)
           IN  /\ c \in Ids /\ Contains(b.queue, c) /\ c \notin Expired(b, only)
               /\ \/ IsEnd(b, c)
                  \/ \A d : d # c /\ Contains(b.queue, d) /\ d \notin Expired(b, only) =>
                       \E i, k \in 1 .. Len(b.queue) :
                          i < k /\ b.queue[i] = c /\ b.queue[k] = d
<1> DEFINE F == Fits(b, only)
           m == Min(F)
           c == Taken(b, only)
<1>0. b.queue \in Seq(Ids) /\ DOMAIN b.queue = 1 .. Len(b.queue) /\ Len(b.queue) \in Nat
  BY DEF Broker
<1>1. F \subseteq 1 .. Len(b.queue) /\ F \in SUBSET Nat /\ F # {}
  BY <1>0 DEF Fits, Found
<1>2. m \in F /\ \A k \in F : m <= k
  BY <1>1, MinFacts
<1>3. c = b.queue[m] /\ m \in 1 .. Len(b.queue)
  BY <1>1, <1>2 DEF Taken
<1>4. c \notin late /\ (only => IsEnd(b, c))
  BY <1>2, <1>3 DEF Fits
<1>5. c \notin Expired(b, only)
  BY <1>4 DEF Expired
<1>6. ASSUME ~only, NEW d, d # c, Contains(b.queue, d), d \notin Expired(b, only)
      PROVE  \E i, k \in 1 .. Len(b.queue) : i < k /\ b.queue[i] = c /\ b.queue[k] = d
  <2>1. PICK k \in 1 .. Len(b.queue) : b.queue[k] = d
    BY <1>6 DEF Contains
  <2>2. CASE k \in F
    <3>1. m <= k /\ m # k
      BY <1>2, <1>3, <1>6, <2>1, <2>2
    <3>2. m < k
      BY <1>3, <3>1
    <3> QED BY <1>3, <2>1, <3>2
  <2>3. CASE k \notin F
    <3>1. d \in late
      BY <1>0, <1>6, <2>1, <2>3 DEF Fits
    <3>2. ~(k < m)
      BY <1>0, <1>6, <2>1, <3>1 DEF Expired
    <3>3. m < k
      BY <1>3, <1>6, <2>1, <3>2
    <3> QED BY <1>3, <2>1, <3>3
  <2> QED BY <2>2, <2>3
<1>7. c \in Ids /\ Contains(b.queue, c)
  BY <1>0, <1>3 DEF Contains
<1> QED BY <1>4, <1>5, <1>6, <1>7

LEMMA PrunedFacts ==
    ASSUME NEW b \in Broker
    PROVE  LET p == Pruned(b)
           IN  /\ p \in Broker /\ p.cmd = b.cmd /\ p.queue = b.queue /\ p.pend = b.pend
               /\ p.told = b.told /\ p.parked = b.parked
               /\ \A only : /\ Found(p, only) = Found(b, only)
                            /\ Taken(p, only) = Taken(b, only)
<1> DEFINE p == Pruned(b)
<1>1. /\ p \in Broker /\ p.cmd = b.cmd /\ p.queue = b.queue /\ p.pend = b.pend
      /\ p.told = b.told /\ p.parked = b.parked
  BY DEF Pruned, Broker
<1> HIDE DEF p
<1>2. \A only : Fits(p, only) = Fits(b, only)
  BY <1>1 DEF Fits, IsEnd
<1> QED BY <1>1, <1>2 DEF Found, Taken, p

\* A poll only takes from the queue; what it takes comes before all work left.
LEMMA PolledFacts ==
    ASSUME NEW b \in Broker, NEW only \in BOOLEAN
    PROVE  LET b2 == Polled(Pruned(b), only)
               c == Taken(b, only)
           IN  /\ Settles(b, b2, {}) /\ Len(b2.queue) <= Len(b.queue)
               /\ Found(b, only) =>
                    /\ c \in Ids /\ Contains(b.queue, c) /\ ~Contains(b2.queue, c)
                    /\ b2.pend[c] # "waiting" /\ b2.parked = b.parked
                    /\ b2.told[c] = "never" => b.told[c] = "never" \/ IsEnd(b, c)
                    /\ \/ IsEnd(b, c)
                       \/ \A d : Contains(b2.queue, d) =>
                            \E i, k \in 1 .. Len(b.queue) :
                               i < k /\ b.queue[i] = c /\ b.queue[k] = d
               /\ ~Found(b, only) => b2.parked # "none"
<1> DEFINE p == Pruned(b)
           s == Scanned(p, only)
           b2 == Polled(p, only)
           c == Taken(b, only)
<1>1. /\ p \in Broker /\ p.cmd = b.cmd /\ p.queue = b.queue /\ p.pend = b.pend
      /\ p.told = b.told /\ p.parked = b.parked
      /\ Found(p, only) = Found(b, only) /\ Taken(p, only) = c
  BY PrunedFacts
<1>2. b2 = IF Found(p, only) THEN HandedOver(s, Taken(p, only))
           ELSE [s EXCEPT !.parked = IF only THEN "ends" ELSE "any"]
  BY DEF Polled, Scanned
<1> HIDE DEF p, b2, c
<1>3. /\ Settles(p, s, {}) /\ s.parked = p.parked /\ s \in Broker
      /\ \A d : Contains(s.queue, d) <=> Contains(p.queue, d) /\ d \notin Expired(p, only)
  BY <1>1, ScanFacts DEF Settles
<1> HIDE DEF s
<1>4. /\ Settles(b, s, {})
      /\ \A d : IsEnd(p, d) = IsEnd(b, d)
  BY <1>1, <1>3 DEF Settles, IsEnd, Pending
<1>5. CASE Found(b, only)
  <2>1. b2 = HandedOver(s, c)
    BY <1>1, <1>2, <1>5
  <2>2. /\ c \in Ids /\ Contains(p.queue, c) /\ c \notin Expired(p, only)
        /\ \/ IsEnd(p, c)
           \/ \A d : d # c /\ Contains(p.queue, d) /\ d \notin Expired(p, only) =>
                \E i, k \in 1 .. Len(p.queue) :
                   i < k /\ p.queue[i] = c /\ p.queue[k] = d
    <3> DEFINE e == Taken(p, only)
    <3>0. Found(p, only)
      BY <1>1, <1>5, Zenon
    <3>1. Found(p, only) /\ p \in Broker /\ e = c
      BY <1>1, <3>0
    <3>2. /\ e \in Ids /\ Contains(p.queue, e) /\ e \notin Expired(p, only)
          /\ \/ IsEnd(p, e)
             \/ \A d : d # e /\ Contains(p.queue, d) /\ d \notin Expired(p, only) =>
                  \E i, k \in 1 .. Len(p.queue) :
                     i < k /\ p.queue[i] = e /\ p.queue[k] = d
      BY <3>1, FoundFacts
    <3> HIDE DEF e
    <3> QED BY <3>1, <3>2
  <2>3. /\ Settles(s, b2, {}) /\ b2.parked = s.parked /\ b2.pend[c] # "waiting"
        /\ b2.told = s.told /\ ~Contains(b2.queue, c)
    BY <1>3, <2>1, <2>2, HandedOverFacts
  <2>4. Settles(b, b2, {})
    BY <1>4, <2>3, SettlesTransitive
  <2>5. \A d : Contains(b2.queue, d) => d # c /\ Contains(s.queue, d)
    BY <2>3 DEF Settles, Thinner
  <2>6. Contains(s.queue, c)
    BY <1>3, <2>2
  <2>7. b2.told[c] = "never" => b.told[c] = "never" \/ IsEnd(b, c)
    BY <1>4, <2>2, <2>3, <2>6 DEF Settles
  <2>8. \/ IsEnd(b, c)
        \/ \A d : Contains(b2.queue, d) =>
             \E i, k \in 1 .. Len(b.queue) : i < k /\ b.queue[i] = c /\ b.queue[k] = d
    BY <1>1, <1>3, <1>4, <2>2, <2>5
  <2>9. Len(b2.queue) <= Len(b.queue)
    BY <2>4 DEF Settles, Thinner
  <2> QED BY <1>1, <1>3, <1>5, <2>2, <2>3, <2>4, <2>7, <2>8, <2>9 DEF p, b2, c
<1>6. CASE ~Found(b, only)
  <2> DEFINE k == IF only THEN "ends" ELSE "any"
  <2>1. b2 = [s EXCEPT !.parked = k] /\ k \in {"none", "any", "ends"} /\ k # "none"
    BY <1>1, <1>2, <1>6
  <2>2. k = "any" => ~only
    OBVIOUS
  <2> HIDE DEF k
  <2>3. /\ b2 \in Broker /\ b2.cmd = s.cmd /\ b2.told = s.told /\ b2.pend = s.pend
        /\ b2.queue = s.queue /\ b2.parked = k
    BY <1>3, <2>1 DEF Broker
  <2>4. ASSUME ~only, NEW d, Contains(s.queue, d) PROVE FALSE
    <3>1. p.queue \in Seq(Ids) /\ DOMAIN p.queue = 1 .. Len(p.queue)
      BY <1>1 DEF Broker
    <3>2. PICK i \in 1 .. Len(p.queue) : p.queue[i] = d
      BY <1>3, <2>4 DEF Contains
    <3>3. d \in late
      BY <1>1, <1>6, <2>4, <3>1, <3>2 DEF Found, Fits
    <3>4. d \in Expired(p, only)
      BY <1>1, <1>6, <3>1, <3>2, <3>3 DEF Expired
    <3> QED BY <1>3, <2>4, <3>4
  <2>5. Settles(b, b2, {})
    BY <1>4, <2>2, <2>3, <2>4 DEF Settles, Pending
  <2>6. Len(b2.queue) <= Len(b.queue)
    BY <2>5 DEF Settles, Thinner
  <2> QED BY <1>6, <2>1, <2>3, <2>5, <2>6 DEF p, b2, c
<1> QED BY <1>5, <1>6

-----------------------------------------------------------------------------
(***************************************************************************)
(* The inductive invariant, over the broker b, the next id n, the command  *)
(* ans in the answer, the worker w, the effects ac and the results R that  *)
(* the worker or the network holds.                                        *)
(***************************************************************************)
Works(b, c) == b.cmd[c].kind = "work"
Seen(w, ac, c) == c \in w.inFlight \/ ac[c] > 0    \* the node had it
Reports(w, st) == Range(w.completed) \cup Range(w.results) \cup st

Typed(b, n, ans, w, ac, st) ==
    /\ b \in Broker /\ IsInjective(b.queue)
    /\ n \in 1 .. MaxCmds + 1 /\ ans \in Ids \cup {0}
    /\ w \in Worker /\ w.effect \subseteq w.running /\ w.running \subseteq w.inFlight
    /\ ac \in [Ids -> Nat] /\ st \subseteq Envelope

\* No one has heard of a command before it is dispatched.
FreshOnes(b, n, ans, w, ac, R) ==
    \A c \in Ids : IF c < n THEN b.cmd[c].kind # "none" ELSE
        /\ b.cmd[c] = NoCommand /\ c \notin Pending(b) /\ b.told[c] # "never"
        /\ ~Contains(b.queue, c) /\ ans # c /\ c \notin w.inFlight /\ ac[c] = 0
        /\ \A e \in R : e.id # c

\* Work goes through the queue, the answer and the node in the order dispatched,
\* so that what the main still has, the node has not seen.
InOrder(b, ans, w, ac) ==
    /\ \A i, k \in 1 .. Len(b.queue) :
         i < k /\ Works(b, b.queue[i]) /\ Works(b, b.queue[k]) => b.queue[i] < b.queue[k]
    /\ \A c, d \in Ids : Works(b, c) /\ Works(b, d) =>
         /\ Contains(b.queue, d) /\ (c = ans \/ Seen(w, ac, c)) => c < d
         /\ d = ans /\ Seen(w, ac, c) => c < d
    /\ b.parked = "any" => \A c \in Ids : Works(b, c) => ~Contains(b.queue, c)

\* Work that was never handed over, or is said to have had no effect, is nowhere
\* past the main, and the latter not on it either.
ToldTruly(b, ans, w, ac) ==
    \A c \in Ids : Works(b, c) =>
       /\ b.pend[c] = "waiting" => c # ans /\ ~Seen(w, ac, c)
       /\ b.told[c] = "never" => ~Contains(b.queue, c) /\ c # ans /\ ~Seen(w, ac, c)

\* Work with a result is over, and has had no effect if the result says so.
Reported(b, ans, w, ac, R) ==
    \A e \in R : Works(b, e.id) =>
       /\ ~Contains(b.queue, e.id) /\ e.id # ans /\ e.id \notin w.inFlight
       /\ e.outcome \in {"rejected", "expired"} => ac[e.id] = 0

\* Effects are counted for work only, and at most once.
ActedOnce(b, w, ac) ==
    \A c \in Ids :
       /\ ac[c] <= 1 /\ (~Works(b, c) => ac[c] = 0)
       /\ c \in w.inFlight \ w.effect => ac[c] = 0

\* The chain of a session is its work in flight, in the order dispatched, after
\* all its work that took effect; only its head is running.
Ascending(t) == \A i, k \in 1 .. Len(t) : i < k => t[i] < t[k]
HeadRuns(w, t) == \A c \in w.running : Contains(t, c) => c = t[1]
Chain(b, w, s, t) ==
    \A c \in Ids : Contains(t, c) <=> c \in w.inFlight /\ Works(b, c) /\ b.cmd[c].session = s
Follows(b, ac, s, t) ==
    \A c, d \in Ids :
       Contains(t, c) /\ Works(b, d) /\ b.cmd[d].session = s /\ ac[d] > 0 => d <= c
Lane(b, w, ac, s, t) ==
    Ascending(t) /\ HeadRuns(w, t) /\ Chain(b, w, s, t) /\ Follows(b, ac, s, t)

Lanes(b, w, ac) == \A s \in Sessions : Lane(b, w, ac, s, w.tails[s])

Core(b, n, ans, w, ac, st) ==
    /\ Typed(b, n, ans, w, ac, st)
    /\ FreshOnes(b, n, ans, w, ac, Reports(w, st))
    /\ InOrder(b, ans, w, ac) /\ ToldTruly(b, ans, w, ac)
    /\ Reported(b, ans, w, ac, Reports(w, st))
    /\ ActedOnce(b, w, ac) /\ Lanes(b, w, ac)

\* What Core leaves of TypeOK.
Rest ==
    /\ late \cup nodeLate \subseteq Ids
    /\ leases \subseteq Sessions /\ paired \in BOOLEAN /\ live \in BOOLEAN
    /\ ghosts \subseteq BOOLEAN
    /\ reached \cup dropped \cup cancelled \cup excused \subseteq Stops
    /\ live => broker.parked # "none" /\ answer = 0
    /\ Len(broker.queue) <= MaxQueue

Inv == Rest /\ Core(broker, nextId, answer, worker, acts, strays)

LEMMA RangeFacts ==
    ASSUME NEW T, NEW q \in Seq(T)
    PROVE  /\ Range(q) \subseteq T /\ \A c : c \in Range(q) <=> Contains(q, c)
           /\ DOMAIN q = 1 .. Len(q) /\ Len(q) \in Nat
BY DEF Range, Contains

LEMMA ReportsTyped ==
    ASSUME NEW w \in Worker, NEW st \in SUBSET Envelope
    PROVE  /\ Reports(w, st) \subseteq Envelope
           /\ \A e \in Envelope : e.id \in Ids /\ e.outcome \in Outcomes
<1>1. w.completed \in Seq(Envelope) /\ w.results \in Seq(Envelope)
  BY DEF Worker
<1>2. Range(w.completed) \subseteq Envelope /\ Range(w.results) \subseteq Envelope
  BY <1>1, RangeFacts
<1> QED BY <1>2, ControlAssumption DEF Reports, Envelope

\* The main settles callers and takes from its queue.
LEMMA CoreSettles ==
    ASSUME NEW b, NEW n, NEW ans, NEW w, NEW ac, NEW st, Core(b, n, ans, w, ac, st),
           NEW b2, NEW N, Settles(b, b2, N), NEW ans2 \in {ans, 0}, NEW st2 \in SUBSET st,
           \A c \in N : /\ ~Contains(b.queue, c) /\ c # ans /\ ~Seen(w, ac, c)
                        /\ c \in Pending(b)
    PROVE  Core(b2, n, ans2, w, ac, st2)
<1> DEFINE R == Reports(w, st)
           R2 == Reports(w, st2)
<1>0. /\ Typed(b, n, ans, w, ac, st) /\ FreshOnes(b, n, ans, w, ac, R)
      /\ InOrder(b, ans, w, ac) /\ ToldTruly(b, ans, w, ac)
      /\ Reported(b, ans, w, ac, R) /\ ActedOnce(b, w, ac) /\ Lanes(b, w, ac)
  BY DEF Core
<1>1. R2 \subseteq R
  BY DEF Reports
<1> HIDE DEF R, R2
<1>2. /\ b2 \in Broker /\ b2.cmd = b.cmd /\ b2.queue \in Seq(Ids)
      /\ Thinner(b.queue, b2.queue)
      /\ \A c : Contains(b2.queue, c) => Contains(b.queue, c)
      /\ \A c \in Ids : /\ b2.pend[c] = "waiting" => b.pend[c] = "waiting"
                        /\ c \in Pending(b2) => c \in Pending(b)
  BY DEF Settles, Thinner, Broker
<1>3. b.queue \in Seq(Ids)
  BY <1>0 DEF Typed, Broker
<1>4. ans \in Ids \cup {0} /\ 0 \notin Ids /\ ans2 \in Ids \cup {0}
  BY <1>0 DEF Typed, Ids
<1>5. Typed(b2, n, ans2, w, ac, st2)
  <2>1. IsInjective(b2.queue)
    BY <1>0, <1>2, <1>3, ThinnerInjective DEF Typed
  <2> QED BY <1>0, <1>2, <1>4, <2>1 DEF Typed
<1>6. \A c \in Ids : b2.told[c] = "never" =>
        \/ b.told[c] = "never" \/ c \in N \/ IsEnd(b, c)
        \/ (b.pend[c] = "waiting" \/ Contains(b.queue, c)) /\ ~Contains(b2.queue, c)
  BY DEF Settles
<1>7. FreshOnes(b2, n, ans2, w, ac, R2)
  <2> SUFFICES ASSUME NEW c \in Ids
               PROVE  IF c < n THEN b2.cmd[c].kind # "none" ELSE
                      /\ b2.cmd[c] = NoCommand /\ c \notin Pending(b2)
                      /\ b2.told[c] # "never" /\ ~Contains(b2.queue, c) /\ ans2 # c
                      /\ c \notin w.inFlight /\ ac[c] = 0 /\ \A e \in R2 : e.id # c
    BY DEF FreshOnes
  <2>1. CASE c < n
    BY <1>0, <1>2, <2>1 DEF FreshOnes
  <2>2. CASE ~(c < n)
    <3>1. /\ b.cmd[c] = NoCommand /\ c \notin Pending(b) /\ b.told[c] # "never"
          /\ ~Contains(b.queue, c) /\ ans # c /\ c \notin w.inFlight /\ ac[c] = 0
          /\ \A e \in R : e.id # c
      BY <1>0, <2>2 DEF FreshOnes
    <3>2. b.pend[c] # "waiting" /\ ~IsEnd(b, c)
      BY <3>1 DEF Pending, IsEnd, NoCommand
    <3>3. b2.told[c] # "never"
      BY <1>6, <3>1, <3>2
    <3>4. ans2 # c
      BY <1>4, <3>1
    <3> QED BY <1>1, <1>2, <2>2, <3>1, <3>3, <3>4
  <2> QED BY <2>1, <2>2
<1>8. InOrder(b2, ans2, w, ac)
  <2>1. ASSUME NEW k \in 1 .. Len(b2.queue), NEW m \in 1 .. Len(b2.queue), k < m,
               Works(b2, b2.queue[k]), Works(b2, b2.queue[m])
        PROVE  b2.queue[k] < b2.queue[m]
    <3>1. PICK i, j \in 1 .. Len(b.queue) :
            i < j /\ b.queue[i] = b2.queue[k] /\ b.queue[j] = b2.queue[m]
      BY <1>2, <2>1 DEF Thinner
    <3> QED BY <1>0, <1>2, <2>1, <3>1 DEF InOrder, Works
  <2>2. \A c, d \in Ids : Works(b2, c) /\ Works(b2, d) =>
          /\ Contains(b2.queue, d) /\ (c = ans2 \/ Seen(w, ac, c)) => c < d
          /\ d = ans2 /\ Seen(w, ac, c) => c < d
    BY <1>0, <1>2, <1>4 DEF InOrder, Works
  <2>3. b2.parked = "any" => \A c \in Ids : Works(b2, c) => ~Contains(b2.queue, c)
    BY <1>0, <1>2 DEF InOrder, Works, Settles
  <2> QED BY <2>1, <2>2, <2>3 DEF InOrder
<1>9. ToldTruly(b2, ans2, w, ac)
  <2> SUFFICES ASSUME NEW c \in Ids, Works(b2, c)
               PROVE  /\ b2.pend[c] = "waiting" => c # ans2 /\ ~Seen(w, ac, c)
                      /\ b2.told[c] = "never" =>
                           ~Contains(b2.queue, c) /\ c # ans2 /\ ~Seen(w, ac, c)
    BY DEF ToldTruly
  <2>1. Works(b, c) /\ ~IsEnd(b, c)
    BY <1>2 DEF Works, IsEnd
  <2>2. b.pend[c] = "waiting" => c # ans2 /\ ~Seen(w, ac, c)
    BY <1>0, <1>4, <2>1 DEF ToldTruly
  <2>3. Contains(b.queue, c) => c # ans2 /\ ~Seen(w, ac, c)
    <3>1. c \in Nat
      BY DEF Ids
    <3> QED BY <1>0, <1>4, <2>1, <3>1 DEF InOrder
  <2>4. b.told[c] = "never" => ~Contains(b2.queue, c) /\ c # ans2 /\ ~Seen(w, ac, c)
    BY <1>0, <1>2, <1>4, <2>1 DEF ToldTruly
  <2>5. c \in N => ~Contains(b2.queue, c) /\ c # ans2 /\ ~Seen(w, ac, c)
    BY <1>2, <1>4
  <2> QED BY <1>2, <1>6, <2>1, <2>2, <2>3, <2>4, <2>5
<1>10. Reported(b2, ans2, w, ac, R2)
  <2> SUFFICES ASSUME NEW e \in R2, Works(b2, e.id)
               PROVE  /\ ~Contains(b2.queue, e.id) /\ e.id # ans2
                      /\ e.id \notin w.inFlight
                      /\ e.outcome \in {"rejected", "expired"} => ac[e.id] = 0
    BY DEF Reported
  <2>1. e \in R /\ Works(b, e.id)
    BY <1>1, <1>2 DEF Works
  <2>2. e.id \in Ids
    BY <1>0, <2>1, ReportsTyped DEF R, Typed
  <2> QED BY <1>0, <1>2, <1>4, <2>1, <2>2 DEF Reported
<1>11. ActedOnce(b2, w, ac) /\ Lanes(b2, w, ac)
  BY <1>0, <1>2 DEF ActedOnce, Lanes, Lane, HeadRuns, Chain, Follows, Works
<1> QED BY <1>5, <1>7, <1>8, <1>9, <1>10, <1>11 DEF Core, R2

\* A queue with one more at its front, and at its end.
LEMMA PushFacts ==
    ASSUME NEW T, NEW q \in Seq(T), NEW c \in T
    PROVE  LET r == <<c>> \o q
           IN  /\ r \in Seq(T) /\ Len(r) = Len(q) + 1
               /\ \A d : Contains(r, d) <=> d = c \/ Contains(q, d)
               /\ IsInjective(q) /\ ~Contains(q, c) => IsInjective(r)
               /\ r[1] = c /\ \A i \in 2 .. Len(r) : i - 1 \in 1 .. Len(q) /\ r[i] = q[i - 1]
<1> DEFINE r == <<c>> \o q
<1>1. /\ r \in Seq(T) /\ Len(r) = Len(q) + 1 /\ Len(q) \in Nat /\ r[1] = c
      /\ \A i \in 2 .. Len(r) : i - 1 \in 1 .. Len(q) /\ r[i] = q[i - 1]
      /\ \A i \in 1 .. Len(q) : i + 1 \in 2 .. Len(r) /\ r[i + 1] = q[i]
      /\ DOMAIN r = 1 .. Len(r) /\ DOMAIN q = 1 .. Len(q)
  OBVIOUS
<1> HIDE DEF r
<1>2. \A i \in 1 .. Len(r) : i = 1 \/ i \in 2 .. Len(r)
  BY <1>1
<1>3. \A d : Contains(r, d) <=> d = c \/ Contains(q, d)
  <2>1. ASSUME NEW d, Contains(r, d) PROVE d = c \/ Contains(q, d)
    BY <1>1, <1>2, <2>1 DEF Contains
  <2>2. ASSUME NEW d, Contains(q, d) PROVE Contains(r, d)
    <3>1. PICK i \in 1 .. Len(q) : q[i] = d
      BY <2>2 DEF Contains
    <3>2. i + 1 \in 1 .. Len(r) /\ r[i + 1] = d
      BY <1>1, <3>1
    <3> QED BY <3>2 DEF Contains
  <2>3. Contains(r, c)
    <3>1. 1 \in 1 .. Len(r)
      BY <1>1
    <3> QED BY <1>1, <3>1 DEF Contains
  <2> QED BY <2>1, <2>2, <2>3
<1>4. ASSUME IsInjective(q), ~Contains(q, c) PROVE IsInjective(r)
  <2> SUFFICES ASSUME NEW i \in 1 .. Len(r), NEW k \in 1 .. Len(r), r[i] = r[k], i # k
               PROVE  FALSE
    BY <1>1 DEF IsInjective
  <2>1. CASE i = 1
    BY <1>1, <1>2, <1>4, <2>1 DEF Contains
  <2>2. CASE k = 1
    BY <1>1, <1>2, <1>4, <2>2 DEF Contains
  <2>3. CASE i \in 2 .. Len(r) /\ k \in 2 .. Len(r)
    <3>1. i - 1 \in DOMAIN q /\ k - 1 \in DOMAIN q /\ q[i - 1] = q[k - 1] /\ i - 1 # k - 1
      BY <1>1, <2>3
    <3> QED BY <1>4, <3>1 DEF IsInjective
  <2> QED BY <1>2, <2>1, <2>2, <2>3
<1> QED BY <1>1, <1>3, <1>4 DEF r

LEMMA AppendFacts ==
    ASSUME NEW T, NEW q \in Seq(T), NEW c \in T
    PROVE  LET r == Append(q, c)
           IN  /\ r \in Seq(T) /\ Len(r) = Len(q) + 1
               /\ \A d : Contains(r, d) <=> d = c \/ Contains(q, d)
               /\ IsInjective(q) /\ ~Contains(q, c) => IsInjective(r)
               /\ r[Len(r)] = c /\ \A i \in 1 .. Len(q) : r[i] = q[i]
<1> DEFINE r == Append(q, c)
<1>1. /\ r \in Seq(T) /\ Len(r) = Len(q) + 1 /\ Len(q) \in Nat /\ r[Len(r)] = c
      /\ \A i \in 1 .. Len(q) : r[i] = q[i]
      /\ DOMAIN r = 1 .. Len(r) /\ DOMAIN q = 1 .. Len(q)
  OBVIOUS
<1> HIDE DEF r
<1>2. \A i \in 1 .. Len(r) : i = Len(r) \/ i \in 1 .. Len(q)
  BY <1>1
<1>3. \A d : Contains(r, d) <=> d = c \/ Contains(q, d)
  <2>1. Len(r) \in 1 .. Len(r) /\ 1 .. Len(q) \subseteq 1 .. Len(r)
    BY <1>1
  <2> QED BY <1>1, <1>2, <2>1 DEF Contains
<1>4. ASSUME IsInjective(q), ~Contains(q, c) PROVE IsInjective(r)
  BY <1>1, <1>2, <1>4 DEF IsInjective, Contains
<1> QED BY <1>1, <1>3, <1>4 DEF r

\* A new command: ordinary work waits at the end of the queue, a revocation at
\* its front, or the parked poll takes it along.
Waiting(b, c, cmd) ==
    [b EXCEPT !.cmd[c] = cmd, !.pend[c] = "waiting",
              !.queue = IF cmd.kind = "end" THEN <<c>> \o @ ELSE Append(@, c)]
Along(b, c, cmd) ==
    [b EXCEPT !.cmd[c] = cmd, !.pend[c] = "delivered", !.parked = "none"]

LEMMA DispatchedIs ==
    ASSUME NEW b \in Broker, NEW c \in Ids, NEW cmd \in Command
    PROVE  Dispatched(b, c, cmd) = IF Accepts(b.parked, cmd) THEN Along(b, c, cmd)
                                   ELSE Shed(Waiting(b, c, cmd))
BY DEF Dispatched, Along, Waiting, Broker

LEMMA AlongFacts ==
    ASSUME NEW b \in Broker, NEW c \in Ids, NEW cmd \in Command, NEW a, a = Along(b, c, cmd)
    PROVE  /\ a \in Broker /\ a.queue = b.queue /\ a.parked = "none" /\ a.told = b.told
           /\ a.cmd[c] = cmd /\ a.pend[c] = "delivered"
           /\ \A d \in Ids \ {c} : a.cmd[d] = b.cmd[d] /\ a.pend[d] = b.pend[d]
BY DEF Along, Broker

LEMMA WaitingFacts ==
    ASSUME NEW b \in Broker, NEW c \in Ids, NEW cmd \in Command, NEW a, a = Waiting(b, c, cmd)
    PROVE  /\ a \in Broker /\ a.parked = b.parked /\ a.told = b.told
           /\ a.queue = IF cmd.kind = "end" THEN <<c>> \o b.queue ELSE Append(b.queue, c)
           /\ a.cmd[c] = cmd /\ a.pend[c] = "waiting"
           /\ \A d \in Ids \ {c} : a.cmd[d] = b.cmd[d] /\ a.pend[d] = b.pend[d]
<1>1. b.queue \in Seq(Ids) /\ <<c>> \o b.queue \in Seq(Ids) /\ Append(b.queue, c) \in Seq(Ids)
  BY PushFacts, AppendFacts DEF Broker
<1> DEFINE q == IF cmd.kind = "end" THEN <<c>> \o b.queue ELSE Append(b.queue, c)
           cm == [b.cmd EXCEPT ![c] = cmd]
           pn == [b.pend EXCEPT ![c] = "waiting"]
<1>2. q \in Seq(Ids)
  BY <1>1
<1>3. a = [b EXCEPT !.cmd = cm, !.pend = pn, !.queue = q]
  BY DEF Waiting, Broker
<1>4. /\ cm \in [Ids -> Command \cup {NoCommand}] /\ cm[c] = cmd
      /\ pn \in [Ids -> {"new", "waiting", "delivered", "gone"}] /\ pn[c] = "waiting"
      /\ \A d \in Ids \ {c} : cm[d] = b.cmd[d] /\ pn[d] = b.pend[d]
  BY DEF Broker
<1> HIDE DEF q, cm, pn
<1>5. /\ a \in Broker /\ a.parked = b.parked /\ a.told = b.told /\ a.queue = q
      /\ a.cmd[c] = cmd /\ a.pend[c] = "waiting"
      /\ \A d \in Ids \ {c} : a.cmd[d] = b.cmd[d] /\ a.pend[d] = b.pend[d]
  BY <1>2, <1>3, <1>4 DEF Broker
<1> QED BY <1>5 DEF q

\* What a new command leaves alone: the node has not heard of it.
LEMMA CoreNew ==
    ASSUME NEW b, NEW n \in Ids, NEW ans, NEW w, NEW ac, NEW st, Core(b, n, ans, w, ac, st),
           NEW b2 \in Broker, NEW cmd \in Command, b2.cmd[n] = cmd, b2.told = b.told,
           \A d \in Ids \ {n} : b2.cmd[d] = b.cmd[d] /\ b2.pend[d] = b.pend[d],
           \A d : Contains(b2.queue, d) => d = n \/ Contains(b.queue, d),
           NEW ans2 \in {ans, n},
           ans2 = n => ~Contains(b2.queue, n)
    PROVE  /\ FreshOnes(b2, n + 1, ans2, w, ac, Reports(w, st))
           /\ Reported(b2, ans2, w, ac, Reports(w, st))
           /\ ActedOnce(b2, w, ac) /\ Lanes(b2, w, ac)
<1> DEFINE R == Reports(w, st)
<1>0. /\ Typed(b, n, ans, w, ac, st) /\ FreshOnes(b, n, ans, w, ac, R)
      /\ Reported(b, ans, w, ac, R) /\ ActedOnce(b, w, ac) /\ Lanes(b, w, ac)
  BY DEF Core
<1>1. \A e \in R : e.id \in Ids
  BY <1>0, ReportsTyped DEF Typed
<1> HIDE DEF R
<1>2. n \in Nat /\ \A c \in Ids : c \in Nat
  BY DEF Ids
<1>3. /\ b.cmd[n] = NoCommand /\ ~Contains(b.queue, n) /\ b.told[n] # "never"
      /\ n \notin w.inFlight /\ ac[n] = 0 /\ ans # n /\ \A e \in R : e.id # n
  BY <1>0, <1>2 DEF FreshOnes
<1>4. cmd.kind # "none"
  BY DEF Command
<1>5. FreshOnes(b2, n + 1, ans2, w, ac, R)
  <2> SUFFICES ASSUME NEW c \in Ids
               PROVE  IF c < n + 1 THEN b2.cmd[c].kind # "none" ELSE
                      /\ b2.cmd[c] = NoCommand /\ c \notin Pending(b2)
                      /\ b2.told[c] # "never" /\ ~Contains(b2.queue, c) /\ ans2 # c
                      /\ c \notin w.inFlight /\ ac[c] = 0 /\ \A e \in R : e.id # c
    BY DEF FreshOnes
  <2>1. CASE c = n
    BY <1>2, <1>4, <2>1
  <2>2. CASE c < n
    BY <1>0, <1>2, <2>2 DEF FreshOnes
  <2>3. CASE ~(c < n + 1)
    <3>1. c # n /\ ~(c < n)
      <4>1. c \in Nat /\ n \in Nat
        BY <1>2
      <4> QED BY <2>3, <4>1
    <3>2. /\ b.cmd[c] = NoCommand /\ c \notin Pending(b) /\ b.told[c] # "never"
          /\ ~Contains(b.queue, c) /\ ans # c /\ c \notin w.inFlight /\ ac[c] = 0
          /\ \A e \in R : e.id # c
      BY <1>0, <3>1 DEF FreshOnes
    <3> QED BY <2>3, <3>1, <3>2 DEF Pending
  <2> QED BY <1>2, <2>1, <2>2, <2>3
<1>6. Reported(b2, ans2, w, ac, R)
  <2> SUFFICES ASSUME NEW e \in R, Works(b2, e.id)
               PROVE  /\ ~Contains(b2.queue, e.id) /\ e.id # ans2
                      /\ e.id \notin w.inFlight
                      /\ e.outcome \in {"rejected", "expired"} => ac[e.id] = 0
    BY DEF Reported
  <2>1. e.id \in Ids \ {n}
    BY <1>1, <1>3
  <2>2. Works(b, e.id)
    BY <2>1 DEF Works
  <2> QED BY <1>0, <2>1, <2>2 DEF Reported
<1>7. ActedOnce(b2, w, ac)
  <2> SUFFICES ASSUME NEW c \in Ids
               PROVE  /\ ac[c] <= 1 /\ (~Works(b2, c) => ac[c] = 0)
                      /\ c \in w.inFlight \ w.effect => ac[c] = 0
    BY DEF ActedOnce
  <2>1. CASE c = n
    BY <1>0, <1>3, <2>1 DEF ActedOnce
  <2>2. CASE c # n
    BY <1>0, <2>2 DEF ActedOnce, Works
  <2> QED BY <2>1, <2>2
<1>8. Lanes(b2, w, ac)
  <2> SUFFICES ASSUME NEW s \in Sessions PROVE Lane(b2, w, ac, s, w.tails[s])
    BY DEF Lanes
  <2> DEFINE t == w.tails[s]
  <2>0. Lane(b, w, ac, s, t)
    BY <1>0 DEF Lanes
  <2> HIDE DEF t
  <2>1. Chain(b2, w, s, t)
    BY <1>3, <2>0 DEF Lane, Chain, Works
  <2>2. Follows(b2, ac, s, t)
    BY <1>3, <2>0 DEF Lane, Follows, Works
  <2> QED BY <2>0, <2>1, <2>2 DEF Lane, t
<1> QED BY <1>5, <1>6, <1>7, <1>8 DEF R

LEMMA CoreAlong ==
    ASSUME NEW b, NEW n \in Ids, NEW ans, NEW w, NEW ac, NEW st, Core(b, n, ans, w, ac, st),
           NEW cmd \in Command, Accepts(b.parked, cmd),
           NEW ans2 \in {ans, n}, ans2 = n => ans = 0
    PROVE  Core(Along(b, n, cmd), n + 1, ans2, w, ac, st)
<1> DEFINE b2 == Along(b, n, cmd)
<1>0. /\ Typed(b, n, ans, w, ac, st) /\ FreshOnes(b, n, ans, w, ac, Reports(w, st))
      /\ InOrder(b, ans, w, ac) /\ ToldTruly(b, ans, w, ac)
  BY DEF Core
<1>1. b \in Broker /\ n \in Nat /\ \A c \in Ids : c \in Nat /\ c <= MaxCmds
  BY <1>0 DEF Typed, Ids
<1>2. /\ b2 \in Broker /\ b2.queue = b.queue /\ b2.parked = "none" /\ b2.told = b.told
      /\ b2.cmd[n] = cmd /\ b2.pend[n] = "delivered"
      /\ \A d \in Ids \ {n} : b2.cmd[d] = b.cmd[d] /\ b2.pend[d] = b.pend[d]
  BY <1>1, AlongFacts
<1> HIDE DEF b2
<1>3. /\ ~Contains(b.queue, n) /\ b.told[n] # "never" /\ ~Seen(w, ac, n) /\ ans # n
      /\ \A c \in Ids : Contains(b.queue, c) \/ c = ans \/ Seen(w, ac, c) => c < n
  BY <1>0, <1>1 DEF FreshOnes, Seen, Typed
<1>4. /\ FreshOnes(b2, n + 1, ans2, w, ac, Reports(w, st))
      /\ Reported(b2, ans2, w, ac, Reports(w, st))
      /\ ActedOnce(b2, w, ac) /\ Lanes(b2, w, ac)
  BY <1>2, <1>3, CoreNew
<1>5. Typed(b2, n + 1, ans2, w, ac, st)
  <2>1. n + 1 \in 1 .. MaxCmds + 1
    BY <1>1, BrokerAssumption
  <2> QED BY <1>0, <1>2, <2>1 DEF Typed
<1>6. InOrder(b2, ans2, w, ac)
  <2>1. b.queue \in Seq(Ids) /\ \A i \in 1 .. Len(b.queue) : Contains(b.queue, b.queue[i])
    BY <1>1 DEF Broker, Contains
  <2>2. \A i \in 1 .. Len(b.queue) :
          Works(b2, b.queue[i]) => Works(b, b.queue[i]) /\ b.queue[i] # n
    BY <1>2, <1>3, <2>1 DEF Works
  <2>3. \A i, k \in 1 .. Len(b2.queue) : i < k /\ Works(b2, b2.queue[i]) /\ Works(b2, b2.queue[k])
          => b2.queue[i] < b2.queue[k]
    BY <1>0, <1>2, <2>2 DEF InOrder
  <2>4. ASSUME NEW c \in Ids, NEW d \in Ids, Works(b2, c), Works(b2, d)
        PROVE  /\ Contains(b2.queue, d) /\ (c = ans2 \/ Seen(w, ac, c)) => c < d
               /\ d = ans2 /\ Seen(w, ac, c) => c < d
    <3>1. CASE ans2 = n /\ c = n
      <4>1. Contains(b2.queue, d) => FALSE
        <5>1. cmd.kind = "work" /\ b.parked = "any"
          BY <1>2, <2>4, <3>1 DEF Works, Accepts
        <5>2. Contains(b2.queue, d) => d # n /\ Works(b, d)
          BY <1>2, <1>3, <2>4 DEF Works
        <5> QED BY <1>0, <1>2, <5>1, <5>2 DEF InOrder
      <4> QED BY <1>3, <3>1, <4>1
    <3>2. CASE ans2 = n /\ c # n
      <4>1. Works(b, c)
        BY <1>2, <2>4, <3>2 DEF Works
      <4>2. Contains(b2.queue, d) => d # n /\ Works(b, d)
        BY <1>2, <1>3, <2>4 DEF Works
      <4>3. Contains(b2.queue, d) /\ (c = ans2 \/ Seen(w, ac, c)) => c < d
        BY <1>0, <1>2, <3>2, <4>1, <4>2 DEF InOrder
      <4> QED BY <1>3, <3>2, <4>3
    <3>3. CASE ans2 # n /\ c # n
      <4>1. Works(b, c) /\ ans2 = ans
        BY <1>2, <2>4, <3>3 DEF Works
      <4>2. Contains(b2.queue, d) \/ d = ans2 => d # n /\ Works(b, d)
        BY <1>2, <1>3, <2>4, <3>3 DEF Works
      <4> QED BY <1>0, <1>2, <4>1, <4>2 DEF InOrder
    <3>4. CASE ans2 # n /\ c = n
      BY <1>3, <3>4
    <3> QED BY <3>1, <3>2, <3>3, <3>4
  <2>5. b2.parked # "any"
    BY <1>2
  <2> QED BY <2>3, <2>4, <2>5 DEF InOrder
<1>7. ToldTruly(b2, ans2, w, ac)
  <2> SUFFICES ASSUME NEW c \in Ids, Works(b2, c)
               PROVE  /\ b2.pend[c] = "waiting" => c # ans2 /\ ~Seen(w, ac, c)
                      /\ b2.told[c] = "never" =>
                           ~Contains(b2.queue, c) /\ c # ans2 /\ ~Seen(w, ac, c)
    BY DEF ToldTruly
  <2>1. CASE c = n
    BY <1>2, <1>3, <2>1
  <2>2. CASE c # n
    <3>1. Works(b, c) /\ (c = ans2 => c = ans)
      BY <1>2, <2>2 DEF Works
    <3> QED BY <1>0, <1>2, <2>2, <3>1 DEF ToldTruly
  <2> QED BY <2>1, <2>2
<1> QED BY <1>4, <1>5, <1>6, <1>7 DEF Core, b2

LEMMA CoreWaiting ==
    ASSUME NEW b, NEW n \in Ids, NEW ans, NEW w, NEW ac, NEW st, Core(b, n, ans, w, ac, st),
           NEW cmd \in Command, ~Accepts(b.parked, cmd)
    PROVE  Core(Waiting(b, n, cmd), n + 1, ans, w, ac, st)
<1> DEFINE b2 == Waiting(b, n, cmd)
<1>0. /\ Typed(b, n, ans, w, ac, st) /\ FreshOnes(b, n, ans, w, ac, Reports(w, st))
      /\ InOrder(b, ans, w, ac) /\ ToldTruly(b, ans, w, ac)
  BY DEF Core
<1>1. b \in Broker /\ b.queue \in Seq(Ids) /\ n \in Nat /\ \A c \in Ids : c \in Nat /\ c <= MaxCmds
  BY <1>0 DEF Typed, Ids, Broker
<1>2. /\ b2 \in Broker /\ b2.parked = b.parked /\ b2.told = b.told
      /\ b2.queue = IF cmd.kind = "end" THEN <<n>> \o b.queue ELSE Append(b.queue, n)
      /\ b2.cmd[n] = cmd /\ b2.pend[n] = "waiting"
      /\ \A d \in Ids \ {n} : b2.cmd[d] = b.cmd[d] /\ b2.pend[d] = b.pend[d]
  BY <1>1, WaitingFacts
<1> HIDE DEF b2
<1>3. /\ ~Contains(b.queue, n) /\ b.told[n] # "never" /\ ~Seen(w, ac, n) /\ ans # n
      /\ \A c \in Ids : Contains(b.queue, c) \/ c = ans \/ Seen(w, ac, c) => c < n
  BY <1>0, <1>1 DEF FreshOnes, Seen, Typed
<1>4. cmd.kind \in {"work", "end"}
  BY DEF Command
<1>5. /\ \A d : Contains(b2.queue, d) <=> d = n \/ Contains(b.queue, d)
      /\ IsInjective(b2.queue)
  <2>1. CASE cmd.kind = "end"
    BY <1>0, <1>1, <1>2, <1>3, <2>1, PushFacts DEF Typed
  <2>2. CASE cmd.kind # "end"
    BY <1>0, <1>1, <1>2, <1>3, <2>2, AppendFacts DEF Typed
  <2> QED BY <2>1, <2>2
<1>6. /\ FreshOnes(b2, n + 1, ans, w, ac, Reports(w, st))
      /\ Reported(b2, ans, w, ac, Reports(w, st))
      /\ ActedOnce(b2, w, ac) /\ Lanes(b2, w, ac)
  BY <1>2, <1>3, <1>5, CoreNew
<1>7. Typed(b2, n + 1, ans, w, ac, st)
  <2>1. n + 1 \in 1 .. MaxCmds + 1
    BY <1>1, BrokerAssumption
  <2> QED BY <1>0, <1>2, <1>5, <2>1 DEF Typed
<1>8. InOrder(b2, ans, w, ac)
  <2>1. \A c \in Ids \ {n} : Works(b2, c) <=> Works(b, c)
    BY <1>2 DEF Works
  <2>2. \A i \in 1 .. Len(b.queue) :
          /\ b.queue[i] \in Ids \ {n} /\ b.queue[i] < n
          /\ Works(b2, b.queue[i]) <=> Works(b, b.queue[i])
    <3>1. ASSUME NEW i \in 1 .. Len(b.queue)
          PROVE  b.queue[i] \in Ids /\ Contains(b.queue, b.queue[i])
      BY <1>1 DEF Contains
    <3>2. \A c \in Ids : Contains(b.queue, c) => c < n /\ c # n
      BY <1>1, <1>3
    <3> QED BY <2>1, <3>1, <3>2
  <2>3. ASSUME NEW i \in 1 .. Len(b2.queue), NEW k \in 1 .. Len(b2.queue), i < k,
               Works(b2, b2.queue[i]), Works(b2, b2.queue[k])
        PROVE  b2.queue[i] < b2.queue[k]
    <3>1. CASE cmd.kind = "end"
      <4>1. /\ b2.queue[1] = n /\ Len(b2.queue) \in Nat
            /\ \A j \in 2 .. Len(b2.queue) :
                 j - 1 \in 1 .. Len(b.queue) /\ b2.queue[j] = b.queue[j - 1]
        BY <1>1, <1>2, <3>1, PushFacts
      <4>2. ~Works(b2, n)
        BY <1>2, <3>1 DEF Works
      <4>3. i # 1 /\ k # 1
        BY <2>3, <4>1, <4>2
      <4>4. i \in 2 .. Len(b2.queue) /\ k \in 2 .. Len(b2.queue) /\ i - 1 < k - 1
        BY <2>3, <4>1, <4>3
      <4> QED BY <1>0, <2>2, <2>3, <4>1, <4>4 DEF InOrder
    <3>2. CASE cmd.kind # "end"
      <4>1. /\ b2.queue[Len(b2.queue)] = n /\ Len(b2.queue) = Len(b.queue) + 1
            /\ Len(b.queue) \in Nat
            /\ \A j \in 1 .. Len(b.queue) : b2.queue[j] = b.queue[j]
        BY <1>1, <1>2, <3>2, AppendFacts
      <4>2. i \in 1 .. Len(b.queue)
        BY <2>3, <4>1
      <4>3. CASE k = Len(b2.queue)
        BY <2>2, <4>1, <4>2, <4>3
      <4>4. CASE k \in 1 .. Len(b.queue)
        BY <1>0, <2>2, <2>3, <4>1, <4>2, <4>4 DEF InOrder
      <4> QED BY <4>1, <4>3, <4>4
    <3> QED BY <3>1, <3>2
  <2>4. ASSUME NEW c \in Ids, NEW d \in Ids, Works(b2, c), Works(b2, d)
        PROVE  /\ Contains(b2.queue, d) /\ (c = ans \/ Seen(w, ac, c)) => c < d
               /\ d = ans /\ Seen(w, ac, c) => c < d
    <3>1. CASE c = n
      BY <1>3, <3>1
    <3>2. CASE c # n /\ d = n
      BY <1>3, <3>2
    <3>3. CASE c # n /\ d # n
      BY <1>0, <1>5, <2>1, <2>4, <3>3 DEF InOrder
    <3> QED BY <3>1, <3>2, <3>3
  <2>5. ASSUME b2.parked = "any", NEW c \in Ids, Works(b2, c) PROVE ~Contains(b2.queue, c)
    <3>1. cmd.kind # "work" /\ c # n
      BY <1>2, <2>5 DEF Accepts, Works
    <3> QED BY <1>0, <1>2, <1>5, <2>1, <2>5, <3>1 DEF InOrder
  <2> QED BY <2>3, <2>4, <2>5 DEF InOrder
<1>9. ToldTruly(b2, ans, w, ac)
  <2> SUFFICES ASSUME NEW c \in Ids, Works(b2, c)
               PROVE  /\ b2.pend[c] = "waiting" => c # ans /\ ~Seen(w, ac, c)
                      /\ b2.told[c] = "never" =>
                           ~Contains(b2.queue, c) /\ c # ans /\ ~Seen(w, ac, c)
    BY DEF ToldTruly
  <2>1. CASE c = n
    BY <1>2, <1>3, <2>1
  <2>2. CASE c # n
    <3>1. Works(b, c)
      BY <1>2, <2>2 DEF Works
    <3> QED BY <1>0, <1>2, <1>5, <2>2, <3>1 DEF ToldTruly
  <2> QED BY <2>1, <2>2
<1> QED BY <1>6, <1>7, <1>8, <1>9 DEF Core, b2

\* A revocation goes back to the front of the queue.
LEMMA CoreAgain ==
    ASSUME NEW b, NEW n, NEW ans, NEW w, NEW ac, NEW st, Core(b, n, ans, w, ac, st),
           NEW c \in Ids, IsEnd(b, c), ~Contains(b.queue, c)
    PROVE  Core([b EXCEPT !.queue = <<c>> \o @], n, ans, w, ac, st)
<1> DEFINE b2 == [b EXCEPT !.queue = <<c>> \o @]
<1>0. /\ Typed(b, n, ans, w, ac, st) /\ FreshOnes(b, n, ans, w, ac, Reports(w, st))
      /\ InOrder(b, ans, w, ac) /\ ToldTruly(b, ans, w, ac)
      /\ Reported(b, ans, w, ac, Reports(w, st)) /\ ActedOnce(b, w, ac) /\ Lanes(b, w, ac)
  BY DEF Core
<1>1. b \in Broker /\ b.queue \in Seq(Ids) /\ IsInjective(b.queue)
  BY <1>0 DEF Typed, Broker
<1> DEFINE q == <<c>> \o b.queue
<1>2. /\ q \in Seq(Ids) /\ Len(q) \in Nat
      /\ \A d : Contains(q, d) <=> d = c \/ Contains(b.queue, d)
      /\ IsInjective(q) /\ q[1] = c
      /\ \A j \in 2 .. Len(q) : j - 1 \in 1 .. Len(b.queue) /\ q[j] = b.queue[j - 1]
  BY <1>1, PushFacts
<1> HIDE DEF q
<1>3. b2 = [b EXCEPT !.queue = q]
  BY DEF q
<1> HIDE DEF b2
<1>4. /\ b2 \in Broker /\ b2.queue = q /\ b2.cmd = b.cmd /\ b2.pend = b.pend
      /\ b2.told = b.told /\ b2.parked = b.parked
  BY <1>1, <1>2, <1>3 DEF Broker
<1>5. ~Works(b, c) /\ \A d : Works(b2, d) <=> Works(b, d)
  BY <1>4 DEF Works, IsEnd
<1>6. Typed(b2, n, ans, w, ac, st)
  BY <1>0, <1>2, <1>4 DEF Typed
<1>7. FreshOnes(b2, n, ans, w, ac, Reports(w, st))
  <2>1. \A d \in Ids : ~(d < n) => d # c
    BY <1>0 DEF FreshOnes, IsEnd, NoCommand
  <2> QED BY <1>0, <1>2, <1>4, <2>1 DEF FreshOnes, Pending
<1>8. InOrder(b2, ans, w, ac)
  <2>1. ASSUME NEW i \in 1 .. Len(q), NEW k \in 1 .. Len(q), i < k,
               Works(b2, q[i]), Works(b2, q[k])
        PROVE  q[i] < q[k]
    <3>1. i # 1 /\ k # 1
      BY <1>2, <1>5, <2>1
    <3>2. i \in 2 .. Len(q) /\ k \in 2 .. Len(q) /\ i - 1 < k - 1
      BY <1>2, <2>1, <3>1
    <3> QED BY <1>0, <1>2, <1>5, <2>1, <3>2 DEF InOrder
  <2>2. \A d, e \in Ids : Works(b2, d) /\ Works(b2, e) =>
          /\ Contains(q, e) /\ (d = ans \/ Seen(w, ac, d)) => d < e
          /\ e = ans /\ Seen(w, ac, d) => d < e
    BY <1>0, <1>2, <1>5 DEF InOrder
  <2>3. b2.parked = "any" => \A d \in Ids : Works(b2, d) => ~Contains(q, d)
    BY <1>0, <1>2, <1>4, <1>5 DEF InOrder
  <2> QED BY <1>4, <2>1, <2>2, <2>3 DEF InOrder
<1>9. ToldTruly(b2, ans, w, ac)
  BY <1>0, <1>2, <1>4, <1>5 DEF ToldTruly
<1>10. Reported(b2, ans, w, ac, Reports(w, st))
  BY <1>0, <1>2, <1>4, <1>5 DEF Reported
<1>11. ActedOnce(b2, w, ac) /\ Lanes(b2, w, ac)
  BY <1>0, <1>4 DEF ActedOnce, Lanes, Lane, HeadRuns, Chain, Follows, Works
<1> QED BY <1>6, <1>7, <1>8, <1>9, <1>10, <1>11 DEF Core, b2

\* A poll brings a command along: what it finds becomes the answer.
LEMMA CoreTaken ==
    ASSUME NEW b, NEW n, NEW w, NEW ac, NEW st, Core(b, n, 0, w, ac, st),
           NEW only \in BOOLEAN, Found(b, only)
    PROVE  Core(Polled(Pruned(b), only), n, Taken(b, only), w, ac, st)
<1> DEFINE b2 == Polled(Pruned(b), only)
           c == Taken(b, only)
<1>0. /\ Typed(b, n, 0, w, ac, st) /\ FreshOnes(b, n, 0, w, ac, Reports(w, st))
      /\ InOrder(b, 0, w, ac) /\ ToldTruly(b, 0, w, ac)
      /\ Reported(b, 0, w, ac, Reports(w, st))
  BY DEF Core
<1>1. b \in Broker /\ b.queue \in Seq(Ids) /\ 0 \notin Ids /\ \A d \in Ids : d \in Nat
  BY <1>0 DEF Typed, Broker, Ids
<1>2. /\ Settles(b, b2, {})
      /\ c \in Ids /\ Contains(b.queue, c) /\ ~Contains(b2.queue, c)
      /\ b2.pend[c] # "waiting" /\ b2.parked = b.parked
      /\ b2.told[c] = "never" => b.told[c] = "never" \/ IsEnd(b, c)
      /\ \/ IsEnd(b, c)
         \/ \A d : Contains(b2.queue, d) =>
              \E i, k \in 1 .. Len(b.queue) : i < k /\ b.queue[i] = c /\ b.queue[k] = d
  BY <1>1, PolledFacts
<1>3. Core(b2, n, 0, w, ac, st)
  BY <1>2, CoreSettles
<1> HIDE DEF b2, c
<1>4. /\ Typed(b2, n, 0, w, ac, st) /\ FreshOnes(b2, n, 0, w, ac, Reports(w, st))
      /\ InOrder(b2, 0, w, ac) /\ ToldTruly(b2, 0, w, ac)
      /\ Reported(b2, 0, w, ac, Reports(w, st)) /\ ActedOnce(b2, w, ac) /\ Lanes(b2, w, ac)
  BY <1>3 DEF Core
<1>5. b2.cmd = b.cmd
  BY <1>2 DEF Settles
<1>6. Works(b, c) => ~Seen(w, ac, c) /\ b2.told[c] # "never"
  <2>1. Works(b, c) => ~Seen(w, ac, c)
    BY <1>0, <1>1, <1>2 DEF InOrder
  <2>2. Works(b, c) => ~IsEnd(b, c) /\ b.told[c] # "never"
    BY <1>0, <1>2 DEF ToldTruly, Works, IsEnd
  <2> QED BY <1>2, <2>1, <2>2
<1>7. Typed(b2, n, c, w, ac, st)
  BY <1>2, <1>4 DEF Typed
<1>8. FreshOnes(b2, n, c, w, ac, Reports(w, st))
  <2>1. c < n
    BY <1>0, <1>2 DEF FreshOnes
  <2> QED BY <1>4, <2>1 DEF FreshOnes
<1>9. InOrder(b2, c, w, ac)
  <2>1. ASSUME NEW a \in Ids, NEW d \in Ids, Works(b2, a), Works(b2, d)
        PROVE  /\ Contains(b2.queue, d) /\ (a = c \/ Seen(w, ac, a)) => a < d
               /\ d = c /\ Seen(w, ac, a) => a < d
    <3>1. Works(b, a) /\ Works(b, d)
      BY <1>5, <2>1 DEF Works
    <3>2. ASSUME Contains(b2.queue, d), a = c PROVE a < d
      <4>1. ~IsEnd(b, c)
        BY <3>1, <3>2 DEF Works, IsEnd
      <4>2. PICK i, k \in 1 .. Len(b.queue) : i < k /\ b.queue[i] = c /\ b.queue[k] = d
        BY <1>2, <3>2, <4>1
      <4> QED BY <1>0, <3>1, <3>2, <4>2 DEF InOrder
    <3>3. Contains(b2.queue, d) /\ Seen(w, ac, a) => a < d
      BY <1>4, <2>1 DEF InOrder
    <3>4. d = c /\ Seen(w, ac, a) => a < d
      BY <1>0, <1>2, <3>1 DEF InOrder
    <3> QED BY <3>2, <3>3, <3>4
  <2> QED BY <1>4, <2>1 DEF InOrder
<1>10. ToldTruly(b2, c, w, ac)
  BY <1>2, <1>4, <1>5, <1>6 DEF ToldTruly, Works
<1>11. Reported(b2, c, w, ac, Reports(w, st))
  BY <1>0, <1>2, <1>4, <1>5 DEF Reported, Works
<1> QED BY <1>4, <1>7, <1>8, <1>9, <1>10, <1>11 DEF Core, b2, c

-----------------------------------------------------------------------------
(***************************************************************************)
(* The worker's functions                                                  *)
(***************************************************************************)

\* From w to w2 the worker loses commands and reports: a restart, or a result
\* that was accepted.
LEMMA CoreForgets ==
    ASSUME NEW b, NEW n, NEW ans, NEW w, NEW ac, NEW st, Core(b, n, ans, w, ac, st),
           NEW w2 \in Worker, NEW st2 \in SUBSET Envelope,
           Reports(w2, st2) \subseteq Reports(w, st),
           \/ /\ w2.inFlight = w.inFlight /\ w2.tails = w.tails
              /\ w2.running = w.running /\ w2.effect = w.effect
           \/ /\ w2.inFlight = {} /\ w2.running = {} /\ w2.effect = {}
              /\ \A s \in Sessions : w2.tails[s] = <<>>
    PROVE  Core(b, n, ans, w2, ac, st2)
<1> DEFINE R == Reports(w, st)
           R2 == Reports(w2, st2)
<1>0. /\ Typed(b, n, ans, w, ac, st) /\ FreshOnes(b, n, ans, w, ac, R)
      /\ InOrder(b, ans, w, ac) /\ ToldTruly(b, ans, w, ac)
      /\ Reported(b, ans, w, ac, R) /\ ActedOnce(b, w, ac) /\ Lanes(b, w, ac)
  BY DEF Core
<1>1. R2 \subseteq R
  OBVIOUS
<1> HIDE DEF R, R2
<1>2. w2.inFlight \subseteq w.inFlight /\ \A c : Seen(w2, ac, c) => Seen(w, ac, c)
  BY DEF Seen
<1>3. Typed(b, n, ans, w2, ac, st2)
  BY <1>0 DEF Typed
<1>4. FreshOnes(b, n, ans, w2, ac, R2)
  BY <1>0, <1>1, <1>2 DEF FreshOnes
<1>5. InOrder(b, ans, w2, ac) /\ ToldTruly(b, ans, w2, ac)
  BY <1>0, <1>2 DEF InOrder, ToldTruly
<1>6. Reported(b, ans, w2, ac, R2)
  BY <1>0, <1>1, <1>2 DEF Reported
<1>7. ActedOnce(b, w2, ac)
  BY <1>0 DEF ActedOnce
<1>8. Lanes(b, w2, ac)
  <2> SUFFICES ASSUME NEW s \in Sessions PROVE Lane(b, w2, ac, s, w2.tails[s])
    BY DEF Lanes
  <2>0. Lane(b, w, ac, s, w.tails[s])
    BY <1>0 DEF Lanes
  <2>1. CASE /\ w2.inFlight = w.inFlight /\ w2.tails = w.tails
             /\ w2.running = w.running /\ w2.effect = w.effect
    BY <2>0, <2>1 DEF Lane, HeadRuns, Chain
  <2>2. CASE /\ w2.inFlight = {} /\ w2.running = {} /\ w2.tails[s] = <<>>
    <3>1. Len(<<>>) = 0 /\ \A i : i \notin 1 .. Len(<<>>)
      OBVIOUS
    <3>2. \A c : ~Contains(<<>>, c)
      BY <3>1 DEF Contains
    <3> DEFINE t == w2.tails[s]
    <3>3. Ascending(t)
      BY <2>2, <3>1 DEF Ascending
    <3>4. \A c : ~Contains(t, c)
      BY <2>2, <3>2
    <3> HIDE DEF t
    <3>5. HeadRuns(w2, t) /\ Chain(b, w2, s, t) /\ Follows(b, ac, s, t)
      BY <2>2, <3>4 DEF HeadRuns, Chain, Follows
    <3> QED BY <3>3, <3>5 DEF Lane, t
  <2> QED BY <2>1, <2>2
<1> QED BY <1>3, <1>4, <1>5, <1>6, <1>7, <1>8 DEF Core, R2

LEMMA SettlesReflexive ==
    ASSUME NEW b \in Broker PROVE Settles(b, b, {})
<1>1. b.queue \in Seq(Ids)
  BY DEF Broker
<1>2. Thinner(b.queue, b.queue)
  BY <1>1, ThinnerReflexive
<1> QED BY <1>2 DEF Settles

LEMMA ResultQueuedFacts ==
    ASSUME NEW w \in Worker, NEW e \in Envelope, NEW w2, w2 = ResultQueued(w, e)
    PROVE  /\ w2 \in Worker /\ w2.inFlight = w.inFlight /\ w2.tails = w.tails
           /\ w2.running = w.running /\ w2.effect = w.effect
           /\ w2.completed = w.completed
           /\ Range(w2.results) \subseteq Range(w.results) \cup {e}
<1>0. w.results \in Seq(Envelope)
  BY DEF Worker
<1>1. CASE e.id \in Ids_(w.results)
  <2>1. w2 = w
    BY <1>1 DEF ResultQueued
  <2> QED BY <2>1
<1>2. CASE e.id \notin Ids_(w.results)
  <2> DEFINE r == Append(w.results, e)
  <2>1. w2 = [w EXCEPT !.results = r]
    BY <1>2 DEF ResultQueued, Worker
  <2>2. r \in Seq(Envelope) /\ \A d : Contains(r, d) <=> d = e \/ Contains(w.results, d)
    BY <1>0, AppendFacts
  <2>3. Range(r) \subseteq Range(w.results) \cup {e}
    BY <1>0, <2>2, RangeFacts
  <2> HIDE DEF r
  <2> QED BY <2>1, <2>2, <2>3 DEF Worker
<1> QED BY <1>1, <1>2

LEMMA TailFacts ==
    ASSUME NEW T, NEW q \in Seq(T), q # <<>>
    PROVE  /\ Tail(q) \in Seq(T) /\ Range(Tail(q)) \subseteq Range(q)
           /\ Head(q) = q[1] /\ Head(q) \in Range(q) /\ Head(q) \in T
           /\ Len(q) \in Nat /\ Len(Tail(q)) = Len(q) - 1 /\ 1 \in 1 .. Len(q)
           /\ \A i \in 1 .. Len(Tail(q)) : i + 1 \in 1 .. Len(q) /\ Tail(q)[i] = q[i + 1]
<1>1. /\ Tail(q) \in Seq(T) /\ Head(q) = q[1] /\ Head(q) \in T
      /\ Len(q) \in Nat /\ Len(Tail(q)) = Len(q) - 1 /\ 1 \in 1 .. Len(q)
      /\ \A i \in 1 .. Len(Tail(q)) : i + 1 \in 1 .. Len(q) /\ Tail(q)[i] = q[i + 1]
      /\ DOMAIN q = 1 .. Len(q) /\ DOMAIN Tail(q) = 1 .. Len(Tail(q))
  OBVIOUS
<1> QED BY <1>1 DEF Range

LEMMA RememberedFacts ==
    ASSUME NEW w \in Worker, NEW e \in Envelope, NEW w2, w2 = Remembered(w, e)
    PROVE  /\ w2 \in Worker /\ w2.inFlight = w.inFlight /\ w2.tails = w.tails
           /\ w2.running = w.running /\ w2.effect = w.effect /\ w2.results = w.results
           /\ Range(w2.completed) \subseteq Range(w.completed) \cup {e}
<1>0. w.completed \in Seq(Envelope)
  BY DEF Worker
<1> DEFINE all == Append(w.completed, e)
           k == IF Len(all) <= CacheSize THEN all ELSE Tail(all)
<1>1. /\ all \in Seq(Envelope) /\ all # <<>>
      /\ \A d : Contains(all, d) <=> d = e \/ Contains(w.completed, d)
  BY <1>0, AppendFacts
<1>2. Range(all) \subseteq Range(w.completed) \cup {e}
  BY <1>0, <1>1, RangeFacts
<1>3. w2 = [w EXCEPT !.completed = k]
  BY DEF Remembered, Worker
<1> HIDE DEF all
<1>4. k \in Seq(Envelope) /\ Range(k) \subseteq Range(w.completed) \cup {e}
  BY <1>1, <1>2, TailFacts
<1> HIDE DEF k
<1> QED BY <1>3, <1>4 DEF Worker

\* The worker takes a command it does not have into flight.
Taking(w, c, cmd) ==
    [w EXCEPT !.inFlight = @ \cup {c},
              !.tails = IF Chained(cmd)
                        THEN [w.tails EXCEPT ![cmd.session] = Append(@, c)] ELSE @]

LEMMA TakingFacts ==
    ASSUME NEW w \in Worker, NEW c \in Ids, NEW cmd \in Command \cup {NoCommand},
           NEW w2, w2 = Taking(w, c, cmd)
    PROVE  /\ w2 \in Worker /\ w2.inFlight = w.inFlight \cup {c}
           /\ w2.running = w.running /\ w2.effect = w.effect
           /\ w2.completed = w.completed /\ w2.results = w.results
           /\ \A s \in Sessions : /\ w.tails[s] \in Seq(Ids)
                /\ w2.tails[s] = IF Chained(cmd) /\ cmd.session = s
                                 THEN Append(w.tails[s], c) ELSE w.tails[s]
<1>0. WorkerIds = Ids /\ WorkerSessions = Sessions
  BY ControlAssumption
<1>1. w.tails \in [Sessions -> Seq(Ids)]
  BY <1>0 DEF Worker
<1> DEFINE t == IF Chained(cmd) THEN [w.tails EXCEPT ![cmd.session] = Append(@, c)]
                ELSE w.tails
<1>2. \A s \in Sessions : Append(w.tails[s], c) \in Seq(Ids)
  BY <1>1, AppendFacts
<1>3. /\ t \in [Sessions -> Seq(Ids)]
      /\ \A s \in Sessions : t[s] = IF Chained(cmd) /\ cmd.session = s
                                    THEN Append(w.tails[s], c) ELSE w.tails[s]
  BY <1>1, <1>2
<1> DEFINE f == w.inFlight \cup {c}
<1>4. w2 = [w EXCEPT !.inFlight = f, !.tails = t]
  BY DEF Taking
<1>5. f \in SUBSET Ids
  BY <1>0 DEF Worker
<1> HIDE DEF t, f
<1>6. /\ w2 \in Worker /\ w2.inFlight = f /\ w2.tails = t
      /\ w2.running = w.running /\ w2.effect = w.effect
      /\ w2.completed = w.completed /\ w2.results = w.results
  BY <1>0, <1>3, <1>4, <1>5 DEF Worker
<1> QED BY <1>1, <1>3, <1>6 DEF f

LEMMA CoreTaking ==
    ASSUME NEW b, NEW n, NEW c \in Ids, NEW w, NEW ac, NEW st, Core(b, n, c, w, ac, st),
           c \notin w.inFlight
    PROVE  Core(b, n, 0, Taking(w, c, b.cmd[c]), ac, st)
<1> DEFINE w2 == Taking(w, c, b.cmd[c])
           R == Reports(w, st)
           R2 == Reports(w2, st)
<1>0. /\ Typed(b, n, c, w, ac, st) /\ FreshOnes(b, n, c, w, ac, R)
      /\ InOrder(b, c, w, ac) /\ ToldTruly(b, c, w, ac)
      /\ Reported(b, c, w, ac, R) /\ ActedOnce(b, w, ac) /\ Lanes(b, w, ac)
  BY DEF Core
<1>1. /\ b \in Broker /\ w \in Worker /\ w.running \subseteq w.inFlight
      /\ w.effect \subseteq w.running /\ w.inFlight \subseteq Ids
      /\ 0 \notin Ids /\ \A d \in Ids : d \in Nat
  BY <1>0, ControlAssumption DEF Typed, Ids, Worker
<1>2. /\ w2 \in Worker /\ w2.inFlight = w.inFlight \cup {c}
      /\ w2.running = w.running /\ w2.effect = w.effect
      /\ w2.completed = w.completed /\ w2.results = w.results
      /\ \A s \in Sessions : /\ w.tails[s] \in Seq(Ids)
           /\ w2.tails[s] = IF Chained(b.cmd[c]) /\ b.cmd[c].session = s
                            THEN Append(w.tails[s], c) ELSE w.tails[s]
  <2> DEFINE cmd == b.cmd[c]
  <2>1. w2 = Taking(w, c, cmd) /\ cmd \in Command \cup {NoCommand}
    BY <1>1 DEF Broker
  <2> HIDE DEF w2, cmd
  <2>2. /\ w2 \in Worker /\ w2.inFlight = w.inFlight \cup {c}
        /\ w2.running = w.running /\ w2.effect = w.effect
        /\ w2.completed = w.completed /\ w2.results = w.results
        /\ \A s \in Sessions : /\ w.tails[s] \in Seq(Ids)
             /\ w2.tails[s] = IF Chained(cmd) /\ cmd.session = s
                              THEN Append(w.tails[s], c) ELSE w.tails[s]
    BY <1>1, <2>1, TakingFacts
  <2> QED BY <2>2 DEF cmd
<1>3. R2 = R
  BY <1>2 DEF Reports
<1> HIDE DEF w2, R, R2
<1>4. /\ ac[c] = 0
      /\ Works(b, c) => ~Contains(b.queue, c) /\ ~Seen(w, ac, c)
      /\ \A d \in Ids : Seen(w2, ac, d) => d = c \/ Seen(w, ac, d)
  <2>1. Works(b, c) => ~Contains(b.queue, c) /\ ~Seen(w, ac, c)
    BY <1>0, <1>1 DEF InOrder
  <2>2. Works(b, c) => ac[c] = 0
    BY <1>0, <2>1 DEF Seen, Typed
  <2>3. ~Works(b, c) => ac[c] = 0
    BY <1>0 DEF ActedOnce
  <2> QED BY <1>2, <2>1, <2>2, <2>3 DEF Seen
<1>5. Typed(b, n, 0, w2, ac, st)
  BY <1>0, <1>1, <1>2 DEF Typed
<1>6. FreshOnes(b, n, 0, w2, ac, R2)
  BY <1>0, <1>1, <1>2, <1>3 DEF FreshOnes
<1>7. InOrder(b, 0, w2, ac)
  <2>1. ASSUME NEW a \in Ids, NEW d \in Ids, Works(b, a), Works(b, d),
               Contains(b.queue, d), Seen(w2, ac, a)
        PROVE  a < d
    BY <1>0, <1>4, <2>1 DEF InOrder
  <2> QED BY <1>0, <1>1, <2>1 DEF InOrder
<1>8. ToldTruly(b, 0, w2, ac)
  BY <1>0, <1>1, <1>4 DEF ToldTruly
<1>9. Reported(b, 0, w2, ac, R2)
  <2>1. \A e \in R : e.id \in Ids
    BY <1>0, ReportsTyped DEF Typed, R
  <2> QED BY <1>0, <1>1, <1>2, <1>3, <2>1 DEF Reported
<1>10. ActedOnce(b, w2, ac)
  BY <1>0, <1>2, <1>4 DEF ActedOnce
<1>11. Lanes(b, w2, ac)
  <2> SUFFICES ASSUME NEW s \in Sessions PROVE Lane(b, w2, ac, s, w2.tails[s])
    BY DEF Lanes
  <2> DEFINE t == w.tails[s]
             t2 == w2.tails[s]
  <2>a. t \in Seq(Ids) /\ Len(t) \in Nat
    BY <1>2
  <2>b. Lane(b, w, ac, s, t)
    BY <1>0 DEF Lanes
  <2>c. \A i, k \in 1 .. Len(t) : i < k => t[i] < t[k]
    BY <2>b DEF Lane, Ascending
  <2>d. \A d \in Ids : Contains(t, d) <=>
          d \in w.inFlight /\ Works(b, d) /\ b.cmd[d].session = s
    BY <2>b DEF Lane, Chain
  <2>e. \A d, a \in Ids :
          Contains(t, d) /\ Works(b, a) /\ b.cmd[a].session = s /\ ac[a] > 0 => a <= d
    BY <2>b DEF Lane, Follows
  <2>f. \A d \in w.running : Contains(t, d) => d = t[1]
    BY <2>b DEF Lane, HeadRuns
  <2>1. CASE Chained(b.cmd[c]) /\ b.cmd[c].session = s
    <3>1. t2 = Append(t, c) /\ Works(b, c)
      BY <1>2, <2>1 DEF Chained, Works
    <3>2. /\ Len(t2) = Len(t) + 1 /\ t2[Len(t2)] = c
          /\ \A i \in 1 .. Len(t) : t2[i] = t[i]
          /\ \A d : Contains(t2, d) <=> d = c \/ Contains(t, d)
      BY <2>a, <3>1, AppendFacts
    <3> HIDE DEF t, t2
    <3>3. \A d \in Ids : Contains(t, d) \/ (Works(b, d) /\ ac[d] > 0) => d < c
      BY <1>0, <2>c, <2>d, <2>e, <2>f, <3>1 DEF InOrder, Seen
    <3>4. ASSUME NEW i \in 1 .. Len(t2), NEW k \in 1 .. Len(t2), i < k PROVE t2[i] < t2[k]
      <4>1. i \in 1 .. Len(t) /\ t[i] \in Ids /\ Contains(t, t[i])
        BY <2>a, <3>2, <3>4 DEF Contains
      <4>2. CASE k = Len(t2)
        BY <3>2, <3>3, <4>1, <4>2
      <4>3. CASE k # Len(t2)
        <5>1. k \in 1 .. Len(t)
          BY <2>a, <3>2, <4>3
        <5> QED BY <2>c, <2>d, <2>e, <2>f, <3>2, <3>4, <4>1, <5>1
      <4> QED BY <4>2, <4>3
    <3>5. \A d \in Ids : Contains(t2, d) <=>
            d \in w2.inFlight /\ Works(b, d) /\ b.cmd[d].session = s
      BY <1>2, <2>c, <2>d, <2>e, <2>f, <2>1, <3>1, <3>2
    <3>6. ASSUME NEW d \in Ids, NEW a \in Ids, Contains(t2, d), Works(b, a),
                 b.cmd[a].session = s, ac[a] > 0
          PROVE  a <= d
      <4>1. a < c /\ a \in Nat /\ c \in Nat
        BY <1>1, <3>3, <3>6
      <4> QED BY <2>c, <2>d, <2>e, <2>f, <3>2, <3>6, <4>1
    <3>7. ASSUME NEW d \in w2.running, Contains(t2, d) PROVE d = t2[1]
      <4>1. d \in w.running /\ Contains(t, d)
        BY <1>1, <1>2, <3>2, <3>7
      <4>2. 1 \in 1 .. Len(t)
        BY <2>a, <4>1 DEF Contains
      <4> QED BY <2>c, <2>d, <2>e, <2>f, <3>2, <4>1, <4>2
    <3>8. Ascending(t2)
      BY <3>4 DEF Ascending
    <3>9. HeadRuns(w2, t2)
      BY <3>7 DEF HeadRuns
    <3>10. Chain(b, w2, s, t2)
      BY <3>5 DEF Chain
    <3>11. Follows(b, ac, s, t2)
      BY <3>6 DEF Follows
    <3> QED BY <3>8, <3>9, <3>10, <3>11 DEF Lane, t2
  <2>2. CASE ~(Chained(b.cmd[c]) /\ b.cmd[c].session = s)
    <3>1. t2 = t
      BY <1>2, <2>2
    <3>2. ~(Works(b, c) /\ b.cmd[c].session = s)
      BY <2>2, ControlAssumption DEF Chained, Works
    <3> HIDE DEF t, t2
    <3>3. \A d \in Ids : Contains(t2, d) <=>
            d \in w2.inFlight /\ Works(b, d) /\ b.cmd[d].session = s
      BY <1>2, <2>c, <2>d, <2>e, <2>f, <3>1, <3>2
    <3>4. Chain(b, w2, s, t2)
      BY <3>3 DEF Chain
    <3>5. HeadRuns(w2, t2)
      BY <1>2, <2>b, <3>1 DEF Lane, HeadRuns
    <3> QED BY <2>b, <3>1, <3>4, <3>5 DEF Lane, t2
  <2> QED BY <2>1, <2>2
<1> QED BY <1>5, <1>6, <1>7, <1>8, <1>9, <1>10, <1>11 DEF Core, R2, w2

\* The head of a lane, and a command that may begin.
LEMMA LaneFacts ==
    ASSUME NEW b, NEW w \in Worker, NEW ac, NEW s \in Sessions, Lane(b, w, ac, s, w.tails[s]),
           NEW c \in Ids, c \in w.inFlight, Works(b, c), b.cmd[c].session = s
    PROVE  /\ w.tails[s] \in Seq(Ids) /\ w.tails[s] # <<>>
           /\ Head(w.tails[s]) = w.tails[s][1] /\ Contains(w.tails[s], c)
<1> DEFINE t == w.tails[s]
<1>1. t \in Seq(Ids)
  BY ControlAssumption DEF Worker
<1>2. Contains(t, c)
  BY DEF Lane, Chain
<1> HIDE DEF t
<1>3. t # <<>>
  BY <1>1, <1>2 DEF Contains
<1> QED BY <1>1, <1>2, <1>3 DEF t

\* executeCommand begins, with or without an effect.
LEMMA CoreStarted ==
    ASSUME NEW b, NEW n, NEW ans, NEW w, NEW ac, NEW st, Core(b, n, ans, w, ac, st),
           NEW c \in Ids, Ready(w, c, b.cmd[c]), NEW effect \in BOOLEAN,
           NEW ac2, ac2 = IF effect /\ ~IsEnd(b, c) THEN [ac EXCEPT ![c] = @ + 1] ELSE ac
    PROVE  Core(b, n, ans, Started(w, c, effect), ac2, st)
<1> DEFINE w2 == Started(w, c, effect)
           R == Reports(w, st)
           R2 == Reports(w2, st)
<1>0. /\ Typed(b, n, ans, w, ac, st) /\ FreshOnes(b, n, ans, w, ac, R)
      /\ InOrder(b, ans, w, ac) /\ ToldTruly(b, ans, w, ac)
      /\ Reported(b, ans, w, ac, R) /\ ActedOnce(b, w, ac) /\ Lanes(b, w, ac)
  BY DEF Core
<1>1. /\ b \in Broker /\ w \in Worker /\ ac \in [Ids -> Nat]
      /\ w.running \subseteq w.inFlight /\ w.effect \subseteq w.running
      /\ w.inFlight \subseteq Ids /\ \A d \in Ids : d \in Nat
      /\ c \in w.inFlight /\ c \notin w.running
  BY <1>0, ControlAssumption DEF Typed, Ids, Worker, Ready
<1>2. /\ w2 \in Worker /\ w2.inFlight = w.inFlight /\ w2.tails = w.tails
      /\ w2.running = w.running \cup {c}
      /\ w2.effect = IF effect THEN w.effect \cup {c} ELSE w.effect
      /\ w2.completed = w.completed /\ w2.results = w.results
  <2> DEFINE r == w.running \cup {c}
             f == IF effect THEN w.effect \cup {c} ELSE w.effect
  <2>1. r \in SUBSET WorkerIds /\ f \in SUBSET WorkerIds
    BY <1>1, ControlAssumption DEF Worker
  <2>2. w2 = [w EXCEPT !.running = r, !.effect = f]
    BY DEF Started
  <2> HIDE DEF w2, r, f
  <2>3. /\ w2 \in Worker /\ w2.inFlight = w.inFlight /\ w2.tails = w.tails
        /\ w2.running = r /\ w2.effect = f
        /\ w2.completed = w.completed /\ w2.results = w.results
    BY <1>1, <2>1, <2>2 DEF Worker
  <2> QED BY <2>3 DEF r, f
<1>3. R2 = R
  BY <1>2 DEF Reports
<1> HIDE DEF w2, R, R2
<1>4. b.cmd[c].kind # "none" /\ c < n
  BY <1>0, <1>1 DEF FreshOnes
<1>5. ~IsEnd(b, c) <=> Works(b, c)
  <2>1. b.cmd[c] \in Command \cup {NoCommand}
    BY <1>1 DEF Broker
  <2>2. b.cmd[c].kind \in {"work", "end"}
    BY <1>4, <2>1 DEF Command, NoCommand
  <2> QED BY <2>2 DEF IsEnd, Works
<1>6. /\ ac[c] = 0 /\ ac2 \in [Ids -> Nat]
      /\ ac2[c] = IF effect /\ Works(b, c) THEN 1 ELSE 0
      /\ \A d \in Ids \ {c} : ac2[d] = ac[d]
  <2>1. ac[c] = 0
    BY <1>0, <1>1 DEF ActedOnce
  <2> QED BY <1>1, <1>5, <2>1
<1>7. \A d \in Ids : Seen(w2, ac2, d) <=> Seen(w, ac, d)
  BY <1>1, <1>2, <1>6 DEF Seen
<1>8. Typed(b, n, ans, w2, ac2, st)
  BY <1>0, <1>1, <1>2, <1>6 DEF Typed
<1>9. FreshOnes(b, n, ans, w2, ac2, R2)
  <2>1. \A d \in Ids : ~(d < n) => d # c
    BY <1>4
  <2> QED BY <1>0, <1>2, <1>3, <1>6, <2>1 DEF FreshOnes
<1>10. InOrder(b, ans, w2, ac2) /\ ToldTruly(b, ans, w2, ac2)
  BY <1>0, <1>7 DEF InOrder, ToldTruly
<1>11. Reported(b, ans, w2, ac2, R2)
  <2> SUFFICES ASSUME NEW e \in R, Works(b, e.id)
               PROVE  /\ ~Contains(b.queue, e.id) /\ e.id # ans /\ e.id \notin w2.inFlight
                      /\ e.outcome \in {"rejected", "expired"} => ac2[e.id] = 0
    BY <1>3 DEF Reported
  <2>1. e.id \in Ids
    BY <1>0, ReportsTyped DEF Typed, R
  <2>2. e.id \notin w.inFlight
    BY <1>0 DEF Reported
  <2>3. e.id # c
    BY <1>1, <2>2
  <2> QED BY <1>0, <1>2, <1>6, <2>1, <2>3 DEF Reported
<1>12. ActedOnce(b, w2, ac2)
  <2> SUFFICES ASSUME NEW d \in Ids
               PROVE  /\ ac2[d] <= 1 /\ (~Works(b, d) => ac2[d] = 0)
                      /\ d \in w2.inFlight \ w2.effect => ac2[d] = 0
    BY DEF ActedOnce
  <2>1. CASE d = c
    BY <1>2, <1>6, <2>1
  <2>2. CASE d # c
    BY <1>0, <1>2, <1>6, <2>2 DEF ActedOnce
  <2> QED BY <2>1, <2>2
<1>13. Lanes(b, w2, ac2)
  <2> SUFFICES ASSUME NEW s \in Sessions PROVE Lane(b, w2, ac2, s, w.tails[s])
    BY <1>2 DEF Lanes
  <2>0. Lane(b, w, ac, s, w.tails[s])
    BY <1>0 DEF Lanes
  <2> DEFINE t == w.tails[s]
  <2>1. CASE Works(b, c) /\ b.cmd[c].session = s
    <3>1. /\ t \in Seq(Ids) /\ t # <<>> /\ Head(t) = t[1] /\ Contains(t, c)
      BY <1>1, <2>0, <2>1, LaneFacts
    <3>2. c = t[1]
      BY <2>1, <3>1, ControlAssumption DEF Ready, Chained, Works
    <3> HIDE DEF t
    <3>3. HeadRuns(w2, t)
      BY <1>2, <2>0, <3>2 DEF Lane, HeadRuns, t
    <3>4. Chain(b, w2, s, t)
      BY <1>2, <2>0 DEF Lane, Chain, t
    <3>5. Ascending(t)
      BY <2>0 DEF Lane, t
    <3>6. \A d \in Ids : Contains(t, d) => c <= d
      <4> SUFFICES ASSUME NEW d \in Ids, Contains(t, d) PROVE c <= d
        OBVIOUS
      <4>1. PICK i \in 1 .. Len(t) : t[i] = d
        BY DEF Contains
      <4>2. CASE i = 1
        BY <1>1, <3>2, <4>1, <4>2
      <4>3. CASE i # 1
        <5>1. Len(t) \in Nat /\ 1 \in 1 .. Len(t) /\ 1 < i
          BY <3>1, <4>1, <4>3
        <5>2. t[1] < t[i]
          BY <3>5, <4>1, <5>1 DEF Ascending
        <5> QED BY <1>1, <3>2, <4>1, <5>2
      <4> QED BY <4>2, <4>3
    <3>7. Follows(b, ac2, s, t)
      <4> SUFFICES ASSUME NEW a \in Ids, NEW d \in Ids, Contains(t, a), Works(b, d),
                          b.cmd[d].session = s, ac2[d] > 0
                   PROVE  d <= a
        BY DEF Follows
      <4>1. CASE d = c
        BY <3>6, <4>1
      <4>2. CASE d # c
        BY <1>6, <2>0, <4>2 DEF Lane, Follows, t
      <4> QED BY <4>1, <4>2
    <3> QED BY <3>3, <3>4, <3>5, <3>7 DEF Lane, t
  <2>2. CASE ~(Works(b, c) /\ b.cmd[c].session = s)
    <3>1. ~Contains(t, c)
      BY <2>0, <2>2 DEF Lane, Chain
    <3>2. HeadRuns(w2, t)
      BY <1>2, <2>0, <3>1 DEF Lane, HeadRuns
    <3>3. Chain(b, w2, s, t)
      BY <1>2, <2>0 DEF Lane, Chain
    <3>4. Follows(b, ac2, s, t)
      BY <1>6, <2>0, <2>2 DEF Lane, Follows
    <3> QED BY <2>0, <3>2, <3>3, <3>4 DEF Lane
  <2> QED BY <2>1, <2>2
<1> QED BY <1>8, <1>9, <1>10, <1>11, <1>12, <1>13 DEF Core, R2, w2

\* executeCommand settles: the command leaves the flight and its lane.
Ending(w, c, cmd) ==
    [w EXCEPT !.inFlight = @ \ {c}, !.running = @ \ {c}, !.effect = @ \ {c},
              !.tails = IF Chained(cmd)
                        THEN [w.tails EXCEPT ![cmd.session] = Tail(@)] ELSE @]

LEMMA EndingFacts ==
    ASSUME NEW w \in Worker, NEW c \in Ids, NEW cmd \in Command \cup {NoCommand},
           Chained(cmd) => w.tails[cmd.session] # <<>>,
           NEW w2, w2 = Ending(w, c, cmd)
    PROVE  /\ w2 \in Worker /\ w2.inFlight = w.inFlight \ {c}
           /\ w2.running = w.running \ {c} /\ w2.effect = w.effect \ {c}
           /\ w2.completed = w.completed /\ w2.results = w.results
           /\ \A s \in Sessions : w2.tails[s] = IF Chained(cmd) /\ cmd.session = s
                                                THEN Tail(w.tails[s]) ELSE w.tails[s]
<1>0. WorkerIds = Ids /\ WorkerSessions = Sessions
  BY ControlAssumption
<1>1. w.tails \in [Sessions -> Seq(Ids)]
  BY <1>0 DEF Worker
<1> DEFINE t == IF Chained(cmd) THEN [w.tails EXCEPT ![cmd.session] = Tail(@)]
                ELSE w.tails
           f == w.inFlight \ {c}
           r == w.running \ {c}
           g == w.effect \ {c}
<1>2. Chained(cmd) => Tail(w.tails[cmd.session]) \in Seq(Ids) /\ cmd.session \in Sessions
  BY <1>0, <1>1, TailFacts DEF Chained
<1>3. /\ t \in [Sessions -> Seq(Ids)]
      /\ \A s \in Sessions : t[s] = IF Chained(cmd) /\ cmd.session = s
                                    THEN Tail(w.tails[s]) ELSE w.tails[s]
  BY <1>1, <1>2
<1>4. w2 = [w EXCEPT !.inFlight = f, !.running = r, !.effect = g, !.tails = t]
  BY DEF Ending
<1>5. f \in SUBSET Ids /\ r \in SUBSET Ids /\ g \in SUBSET Ids
  BY <1>0 DEF Worker
<1> HIDE DEF t, f, r, g
<1>6. /\ w2 \in Worker /\ w2.inFlight = f /\ w2.tails = t
      /\ w2.running = r /\ w2.effect = g
      /\ w2.completed = w.completed /\ w2.results = w.results
  BY <1>0, <1>3, <1>4, <1>5 DEF Worker
<1> QED BY <1>3, <1>6 DEF f, r, g

LEMMA FinishedFacts ==
    ASSUME NEW w \in Worker, NEW c \in Ids, NEW cmd \in Command \cup {NoCommand},
           Chained(cmd) => w.tails[cmd.session] # <<>>, NEW outcome \in Outcomes,
           NEW w2, w2 = Finished(w, c, cmd, outcome)
    PROVE  /\ w2 \in Worker /\ w2.inFlight = w.inFlight \ {c}
           /\ w2.running = w.running \ {c} /\ w2.effect = w.effect \ {c}
           /\ \A s \in Sessions : w2.tails[s] = IF Chained(cmd) /\ cmd.session = s
                                                THEN Tail(w.tails[s]) ELSE w.tails[s]
           /\ \A st : Reports(w2, st) \subseteq
                        Reports(w, st) \cup {[id |-> c, outcome |-> outcome]}
<1> DEFINE e == [id |-> c, outcome |-> outcome]
           w0 == Ending(w, c, cmd)
           w1 == Remembered(w0, e)
<1>1. e \in Envelope
  BY ControlAssumption DEF Envelope
<1>2. w2 = ResultQueued(w1, e)
  BY DEF Finished, Ending
<1> HIDE DEF e
<1>3. /\ w0 \in Worker /\ w0.inFlight = w.inFlight \ {c}
      /\ w0.running = w.running \ {c} /\ w0.effect = w.effect \ {c}
      /\ w0.completed = w.completed /\ w0.results = w.results
      /\ \A s \in Sessions : w0.tails[s] = IF Chained(cmd) /\ cmd.session = s
                                           THEN Tail(w.tails[s]) ELSE w.tails[s]
  BY EndingFacts
<1> HIDE DEF w0
<1>4. /\ w1 \in Worker /\ w1.inFlight = w0.inFlight /\ w1.tails = w0.tails
      /\ w1.running = w0.running /\ w1.effect = w0.effect /\ w1.results = w0.results
      /\ Range(w1.completed) \subseteq Range(w0.completed) \cup {e}
  BY <1>1, <1>3, RememberedFacts
<1> HIDE DEF w1
<1>5. /\ w2 \in Worker /\ w2.inFlight = w1.inFlight /\ w2.tails = w1.tails
      /\ w2.running = w1.running /\ w2.effect = w1.effect
      /\ w2.completed = w1.completed
      /\ Range(w2.results) \subseteq Range(w1.results) \cup {e}
  BY <1>1, <1>2, <1>4, ResultQueuedFacts
<1>6. \A st : Reports(w2, st) \subseteq Reports(w, st) \cup {e}
  BY <1>3, <1>4, <1>5 DEF Reports
<1> QED BY <1>3, <1>4, <1>5, <1>6 DEF e

LEMMA CoreFinished ==
    ASSUME NEW b, NEW n, NEW ans, NEW w, NEW ac, NEW st, Core(b, n, ans, w, ac, st),
           NEW c \in Ids, c \in w.inFlight,
           Chained(b.cmd[c]) => c = Head(w.tails[b.cmd[c].session]),
           NEW outcome \in Outcomes, outcome \in {"rejected", "expired"} => ac[c] = 0
    PROVE  Core(b, n, ans, Finished(w, c, b.cmd[c], outcome), ac, st)
<1> DEFINE cmd == b.cmd[c]
           w2 == Finished(w, c, cmd, outcome)
           e == [id |-> c, outcome |-> outcome]
           R == Reports(w, st)
           R2 == Reports(w2, st)
<1>0. /\ Typed(b, n, ans, w, ac, st) /\ FreshOnes(b, n, ans, w, ac, R)
      /\ InOrder(b, ans, w, ac) /\ ToldTruly(b, ans, w, ac)
      /\ Reported(b, ans, w, ac, R) /\ ActedOnce(b, w, ac) /\ Lanes(b, w, ac)
  BY DEF Core
<1>1. /\ b \in Broker /\ w \in Worker /\ ac \in [Ids -> Nat]
      /\ w.running \subseteq w.inFlight /\ w.effect \subseteq w.running
      /\ w.inFlight \subseteq Ids /\ \A d \in Ids : d \in Nat
      /\ cmd \in Command \cup {NoCommand}
  <2>1. b \in Broker /\ w \in Worker
    BY <1>0 DEF Typed
  <2>2. cmd \in Command \cup {NoCommand}
    BY <2>1 DEF Broker
  <2>3. w.inFlight \subseteq Ids /\ \A d \in Ids : d \in Nat
    BY <2>1, ControlAssumption DEF Worker, Ids
  <2> QED BY <1>0, <2>1, <2>2, <2>3 DEF Typed
<1>2. Chained(cmd) => w.tails[cmd.session] # <<>>
  <2> SUFFICES ASSUME Chained(cmd) PROVE w.tails[cmd.session] # <<>>
    OBVIOUS
  <2>1. cmd.session \in Sessions /\ Works(b, c)
    BY ControlAssumption DEF Chained, Works
  <2>2. Lane(b, w, ac, cmd.session, w.tails[cmd.session])
    BY <1>0, <2>1 DEF Lanes
  <2> DEFINE s == cmd.session
  <2> QED BY <1>1, <2>1, <2>2, LaneFacts
<1>3. /\ w2 \in Worker /\ w2.inFlight = w.inFlight \ {c}
      /\ w2.running = w.running \ {c} /\ w2.effect = w.effect \ {c}
      /\ \A s \in Sessions : w2.tails[s] = IF Chained(cmd) /\ cmd.session = s
                                           THEN Tail(w.tails[s]) ELSE w.tails[s]
      /\ R2 \subseteq R \cup {e}
  <2>1. w2 = Finished(w, c, cmd, outcome)
    OBVIOUS
  <2> HIDE DEF w2, cmd
  <2> QED BY <1>1, <1>2, <2>1, FinishedFacts
<1>a. cmd = b.cmd[c]
  OBVIOUS
<1>4. e.id = c /\ e.outcome = outcome
  OBVIOUS
<1> HIDE DEF w2, R, R2, e, cmd
<1>5. \A d : Seen(w2, ac, d) => Seen(w, ac, d)
  BY <1>3 DEF Seen
<1>6. Typed(b, n, ans, w2, ac, st)
  BY <1>0, <1>3 DEF Typed
<1>7. FreshOnes(b, n, ans, w2, ac, R2)
  <2>1. c < n
    BY <1>0, <1>1 DEF FreshOnes
  <2>2. \A d \in Ids : ~(d < n) => d # c
    BY <2>1
  <2> QED BY <1>0, <1>3, <1>4, <2>2 DEF FreshOnes
<1>8. InOrder(b, ans, w2, ac) /\ ToldTruly(b, ans, w2, ac)
  BY <1>0, <1>5 DEF InOrder, ToldTruly
<1>9. Reported(b, ans, w2, ac, R2)
  <2> SUFFICES ASSUME NEW x \in R2, Works(b, x.id)
               PROVE  /\ ~Contains(b.queue, x.id) /\ x.id # ans /\ x.id \notin w2.inFlight
                      /\ x.outcome \in {"rejected", "expired"} => ac[x.id] = 0
    BY DEF Reported
  <2>1. CASE x = e
    <3>1. Seen(w, ac, c) /\ Works(b, c)
      BY <1>4, <2>1 DEF Seen
    <3>2. ~Contains(b.queue, c) /\ c # ans
      BY <1>0, <1>1, <3>1 DEF InOrder
    <3> QED BY <1>3, <1>4, <2>1, <3>2
  <2>2. CASE x \in R
    BY <1>0, <1>3, <2>2 DEF Reported
  <2> QED BY <1>3, <2>1, <2>2
<1>10. ActedOnce(b, w2, ac)
  BY <1>0, <1>3 DEF ActedOnce
<1>11. Lanes(b, w2, ac)
  <2> SUFFICES ASSUME NEW s \in Sessions PROVE Lane(b, w2, ac, s, w2.tails[s])
    BY DEF Lanes
  <2> DEFINE t == w.tails[s]
             t2 == w2.tails[s]
  <2>0. Lane(b, w, ac, s, t)
    BY <1>0 DEF Lanes
  <2>1. CASE Chained(cmd) /\ cmd.session = s
    <3>1. t2 = Tail(t) /\ Works(b, c) /\ b.cmd[c].session = s
      BY <1>3, <1>a, <2>1 DEF Chained, Works
    <3>2. t \in Seq(Ids) /\ t # <<>> /\ Head(t) = t[1] /\ c = t[1]
      BY <1>1, <1>a, <2>0, <2>1, <3>1, LaneFacts
    <3> HIDE DEF t, t2
    <3>3. /\ t2 \in Seq(Ids) /\ Len(t) \in Nat /\ Len(t2) = Len(t) - 1 /\ 1 \in 1 .. Len(t)
          /\ \A i \in 1 .. Len(t2) : i + 1 \in 1 .. Len(t) /\ t2[i] = t[i + 1]
      BY <3>1, <3>2, TailFacts
    <3>4. \A i, k \in 1 .. Len(t) : i < k => t[i] < t[k]
      BY <2>0 DEF Lane, Ascending
    <3>5. \A d : Contains(t2, d) => Contains(t, d) /\ d # c
      <4> SUFFICES ASSUME NEW d, Contains(t2, d) PROVE Contains(t, d) /\ d # c
        OBVIOUS
      <4>1. PICK i \in 1 .. Len(t2) : t2[i] = d
        BY DEF Contains
      <4>2. i + 1 \in 1 .. Len(t) /\ t[i + 1] = d /\ 1 < i + 1
        BY <3>3, <4>1
      <4>3. t[1] < t[i + 1] /\ c \in Nat
        BY <1>1, <3>3, <3>4, <4>2
      <4>4. t[i + 1] \in Ids
        BY <3>2, <4>2
      <4>5. d # c
        BY <1>1, <3>2, <4>2, <4>3, <4>4
      <4> QED BY <4>2, <4>5 DEF Contains
    <3>6. ASSUME NEW d, Contains(t, d), d # c PROVE Contains(t2, d)
      <4>1. PICK i \in 1 .. Len(t) : t[i] = d
        BY <3>6 DEF Contains
      <4>2. i # 1
        BY <3>2, <3>6, <4>1
      <4>3. i - 1 \in 1 .. Len(t2) /\ (i - 1) + 1 = i
        BY <3>3, <4>1, <4>2
      <4>4. t2[i - 1] = d
        BY <3>3, <4>1, <4>3
      <4> QED BY <4>3, <4>4 DEF Contains
    <3>7. Ascending(t2)
      <4> SUFFICES ASSUME NEW i \in 1 .. Len(t2), NEW k \in 1 .. Len(t2), i < k
                   PROVE  t2[i] < t2[k]
        BY DEF Ascending
      <4>1. i + 1 < k + 1
        OBVIOUS
      <4> QED BY <3>3, <3>4, <4>1
    <3>8. HeadRuns(w2, t2)
      BY <1>3, <2>0, <3>2, <3>5 DEF Lane, HeadRuns
    <3>9. Chain(b, w2, s, t2)
      BY <1>3, <2>0, <3>5, <3>6 DEF Lane, Chain
    <3>10. Follows(b, ac, s, t2)
      BY <2>0, <3>5 DEF Lane, Follows
    <3> QED BY <3>7, <3>8, <3>9, <3>10 DEF Lane, t2
  <2>2. CASE ~(Chained(cmd) /\ cmd.session = s)
    <3>1. t2 = t
      BY <1>3, <2>2
    <3>2. ~(Works(b, c) /\ b.cmd[c].session = s)
      BY <1>a, <2>2, ControlAssumption DEF Chained, Works
    <3>3. Chain(b, w2, s, t)
      BY <1>3, <2>0, <3>2 DEF Lane, Chain
    <3>4. HeadRuns(w2, t)
      BY <1>3, <2>0 DEF Lane, HeadRuns
    <3> QED BY <2>0, <3>1, <3>3, <3>4 DEF Lane
  <2> QED BY <2>1, <2>2
<1> QED BY <1>6, <1>7, <1>8, <1>9, <1>10, <1>11 DEF Core, R2, w2, cmd

\* An accepted result leaves the queue of results.
LEMMA CoreAcknowledged ==
    ASSUME NEW b, NEW n, NEW ans, NEW w, NEW ac, NEW st, Core(b, n, ans, w, ac, st),
           NEW e
    PROVE  Core(b, n, ans, Acknowledged(w, e), ac, st)
<1>1. w \in Worker /\ w.results \in Seq(Envelope) /\ st \in SUBSET Envelope
  BY DEF Core, Typed, Worker
<1>2. CASE w.results # <<>> /\ Head(w.results) = e
  <2> DEFINE r == Tail(w.results)
             w2 == [w EXCEPT !.results = r]
  <2>1. Acknowledged(w, e) = w2
    BY <1>2 DEF Acknowledged
  <2>2. r \in Seq(Envelope) /\ Range(r) \subseteq Range(w.results)
    BY <1>1, <1>2, TailFacts
  <2> HIDE DEF r
  <2>3. /\ w2 \in Worker /\ w2.inFlight = w.inFlight /\ w2.tails = w.tails
        /\ w2.running = w.running /\ w2.effect = w.effect
        /\ w2.completed = w.completed /\ w2.results = r
    BY <1>1, <2>2 DEF Worker
  <2> HIDE DEF w2
  <2>4. Reports(w2, st) \subseteq Reports(w, st)
    BY <2>2, <2>3 DEF Reports
  <2> QED BY <1>1, <2>1, <2>3, <2>4, CoreForgets
<1>3. CASE ~(w.results # <<>> /\ Head(w.results) = e)
  BY <1>3 DEF Acknowledged
<1> QED BY <1>2, <1>3

\* scheduleCommand, with the command of the answer.
LEMMA CoreScheduled ==
    ASSUME NEW b, NEW n, NEW c \in Ids, NEW w, NEW ac, NEW st, Core(b, n, c, w, ac, st)
    PROVE  Core(b, n, 0, Scheduled(w, c, b.cmd), ac, st)
<1>1. /\ b \in Broker /\ w \in Worker /\ st \in SUBSET Envelope
      /\ w.completed \in Seq(Envelope)
  BY DEF Core, Typed, Worker
<1>2. Core(b, n, 0, w, ac, st)
  BY <1>1, SettlesReflexive, CoreSettles
<1>3. CASE c \in Ids_(w.completed)
  <2> DEFINE e == Cached(w, c)
             w2 == ResultQueued(w, e)
  <2>1. Scheduled(w, c, b.cmd) = w2
    BY <1>3 DEF Scheduled
  <2>2. \E x \in Range(w.completed) : x.id = c
    BY <1>3 DEF Ids_, Range
  <2>3. e \in Range(w.completed)
    BY <2>2 DEF Cached
  <2>4. e \in Envelope
    BY <1>1, <2>3, RangeFacts
  <2> HIDE DEF e
  <2>5. /\ w2 \in Worker /\ w2.inFlight = w.inFlight /\ w2.tails = w.tails
        /\ w2.running = w.running /\ w2.effect = w.effect
        /\ w2.completed = w.completed
        /\ Range(w2.results) \subseteq Range(w.results) \cup {e}
    BY <1>1, <2>4, ResultQueuedFacts
  <2> HIDE DEF w2
  <2>6. Reports(w2, st) \subseteq Reports(w, st)
    BY <2>3, <2>5 DEF Reports
  <2> QED BY <1>1, <1>2, <2>1, <2>5, <2>6, CoreForgets
<1>4. CASE /\ c \notin Ids_(w.completed)
           /\ c \in w.inFlight \/ (b.cmd[c].kind = "end" /\ EndsFull(w, b.cmd))
  <2>1. Scheduled(w, c, b.cmd) = w
    BY <1>4 DEF Scheduled
  <2> QED BY <1>2, <2>1
<1>5. CASE /\ c \notin Ids_(w.completed)
           /\ ~(c \in w.inFlight \/ (b.cmd[c].kind = "end" /\ EndsFull(w, b.cmd)))
  <2>1. Scheduled(w, c, b.cmd) = Taking(w, c, b.cmd[c])
    BY <1>5 DEF Scheduled, Taking
  <2> QED BY <1>5, <2>1, CoreTaking
<1> QED BY <1>3, <1>4, <1>5

\* dispatch, when the answer takes the command along if the poll was live.
LEMMA CoreDispatched ==
    ASSUME NEW b, NEW n \in Ids, NEW ans, NEW w, NEW ac, NEW st, Core(b, n, ans, w, ac, st),
           Len(b.queue) <= MaxQueue, NEW cmd \in Command, NEW ans2 \in {ans, n},
           ans2 = n => ans = 0,
           ans2 # ans => b.parked # "none" /\ Dispatched(b, n, cmd).parked = "none"
    PROVE  /\ Core(Dispatched(b, n, cmd), n + 1, ans2, w, ac, st)
           /\ Len(Dispatched(b, n, cmd).queue) <= MaxQueue
           /\ Dispatched(b, n, cmd).parked \in {b.parked, "none"}
           /\ \A d \in Ids : b.cmd[d].kind # "none" => Dispatched(b, n, cmd).cmd[d] = b.cmd[d]
           /\ Dispatched(b, n, cmd).cmd[n] = cmd
           /\ cmd.kind = "work" => \A d \in Ids :
                Contains(b.queue, d) /\ IsEnd(b, d) => Contains(Dispatched(b, n, cmd).queue, d)
<1> DEFINE b2 == Dispatched(b, n, cmd)
<1>0. /\ b \in Broker /\ b.queue \in Seq(Ids) /\ Len(b.queue) \in Nat /\ n \in Nat
      /\ MaxQueue \in Nat /\ 0 \notin Ids
  BY BrokerAssumption DEF Core, Typed, Broker, Ids
<1>1. b2 = IF Accepts(b.parked, cmd) THEN Along(b, n, cmd) ELSE Shed(Waiting(b, n, cmd))
  BY <1>0, DispatchedIs
<1>2. ~Contains(b.queue, n) /\ b.cmd[n] = NoCommand
  BY <1>0 DEF Core, FreshOnes
<1>3. \A d \in Ids : b.cmd[d].kind # "none" => d # n
  BY <1>2 DEF NoCommand
<1> HIDE DEF b2
<1>4. CASE Accepts(b.parked, cmd)
  <2>1. b2 = Along(b, n, cmd)
    BY <1>1, <1>4
  <2>2. /\ b2.queue = b.queue /\ b2.parked = "none" /\ b2.cmd[n] = cmd
        /\ \A d \in Ids \ {n} : b2.cmd[d] = b.cmd[d]
    BY <1>0, <2>1, AlongFacts
  <2>3. Core(b2, n + 1, ans2, w, ac, st)
    BY <1>4, <2>1, CoreAlong
  <2> QED BY <1>3, <2>2, <2>3 DEF b2
<1>5. CASE ~Accepts(b.parked, cmd)
  <2> DEFINE b1 == Waiting(b, n, cmd)
  <2>1. b2 = Shed(b1)
    BY <1>1, <1>5
  <2>2. /\ b1 \in Broker /\ b1.parked = b.parked
        /\ b1.queue = IF cmd.kind = "end" THEN <<n>> \o b.queue ELSE Append(b.queue, n)
        /\ b1.cmd[n] = cmd
        /\ \A d \in Ids \ {n} : b1.cmd[d] = b.cmd[d]
    BY <1>0, WaitingFacts
  <2>3. Core(b1, n + 1, ans, w, ac, st)
    BY <1>5, CoreWaiting
  <2> HIDE DEF b1
  <2>4. /\ b1.queue \in Seq(Ids) /\ Len(b1.queue) = Len(b.queue) + 1
        /\ \A d : Contains(b1.queue, d) <=> d = n \/ Contains(b.queue, d)
    <3>1. CASE cmd.kind = "end"
      BY <1>0, <2>2, <3>1, PushFacts
    <3>2. CASE cmd.kind # "end"
      BY <1>0, <2>2, <3>2, AppendFacts
    <3> QED BY <3>1, <3>2
  <2>5. /\ Settles(b1, b2, {}) /\ b2.parked = b1.parked
        /\ Len(b1.queue) <= MaxQueue + 1 => Len(b2.queue) <= MaxQueue
        /\ (\E i \in 1 .. Len(b1.queue) : ~IsEnd(b1, b1.queue[i])) =>
             \A d : Contains(b1.queue, d) /\ IsEnd(b1, d) => Contains(b2.queue, d)
    BY <2>1, <2>2, ShedFacts
  <2>6. ans2 = ans
    BY <2>2, <2>5 DEF b2
  <2>7. Core(b2, n + 1, ans2, w, ac, st)
    BY <2>3, <2>5, <2>6, CoreSettles
  <2>8. Len(b2.queue) <= MaxQueue
    BY <1>0, <2>4, <2>5
  <2>9. b2.cmd = b1.cmd
    BY <2>5 DEF Settles
  <2>10. ASSUME cmd.kind = "work", NEW d \in Ids, Contains(b.queue, d), IsEnd(b, d)
         PROVE  Contains(b2.queue, d)
    <3>1. Contains(b1.queue, n) /\ ~IsEnd(b1, n)
      BY <2>2, <2>4, <2>10 DEF IsEnd
    <3>2. \E i \in 1 .. Len(b1.queue) : ~IsEnd(b1, b1.queue[i])
      BY <3>1 DEF Contains
    <3>3. IsEnd(b1, d) /\ Contains(b1.queue, d)
      BY <1>2, <2>2, <2>4, <2>10 DEF IsEnd
    <3> QED BY <2>5, <3>2, <3>3
  <2> QED BY <1>3, <2>2, <2>5, <2>7, <2>8, <2>9, <2>10 DEF b2
<1> QED BY <1>4, <1>5

\* The caller's timer.
LEMMA CoreTimedOut ==
    ASSUME NEW b, NEW n, NEW ans, NEW w, NEW ac, NEW st, Core(b, n, ans, w, ac, st),
           Len(b.queue) <= MaxQueue, NEW c \in Ids
    PROVE  /\ Core(TimedOut(b, c), n, ans, w, ac, st)
           /\ Len(TimedOut(b, c).queue) <= MaxQueue /\ TimedOut(b, c).parked = b.parked
           /\ TimedOut(b, c).cmd = b.cmd
<1> DEFINE b2 == TimedOut(b, c)
<1>0. /\ b \in Broker /\ b.queue \in Seq(Ids) /\ Len(b.queue) \in Nat /\ MaxQueue \in Nat
  BY BrokerAssumption DEF Core, Typed, Broker
<1>1. CASE ~IsEnd(b, c)
  <2>1. Settles(b, b2, {}) /\ b2.parked = b.parked
    BY <1>0, <1>1, TimedOutWork
  <2> HIDE DEF b2
  <2>2. Core(b2, n, ans, w, ac, st)
    BY <2>1, CoreSettles
  <2>3. b2.queue \in Seq(Ids) /\ Len(b2.queue) <= Len(b.queue) /\ b2.cmd = b.cmd
    BY <2>1 DEF Settles, Thinner, Broker
  <2>4. Len(b2.queue) <= MaxQueue
    BY <1>0, <2>3
  <2> QED BY <2>1, <2>2, <2>3, <2>4 DEF b2
<1>2. CASE IsEnd(b, c)
  <2> DEFINE b1 == Retained(b, c)
  <2>1. /\ b1 \in Broker /\ b1.cmd = b.cmd /\ b1.parked = b.parked
        /\ Core(b1, n, ans, w, ac, st) /\ Len(b1.queue) <= MaxQueue
    <3>1. CASE Contains(b.queue, c)
      <4>1. b1 = b
        BY <3>1 DEF Retained
      <4> QED BY <1>0, <4>1
    <3>2. CASE ~Contains(b.queue, c)
      <4> DEFINE q == <<c>> \o b.queue
                 p == [b EXCEPT !.queue = <<c>> \o @]
      <4>1. b1 = Shed(p)
        BY <3>2 DEF Retained
      <4>2. Core(p, n, ans, w, ac, st)
        BY <1>2, <3>2, CoreAgain
      <4>3. q \in Seq(Ids) /\ Len(q) = Len(b.queue) + 1
        BY <1>0, PushFacts
      <4>4. p = [b EXCEPT !.queue = q]
        OBVIOUS
      <4> HIDE DEF q, p
      <4>5. /\ p \in Broker /\ p.cmd = b.cmd /\ p.parked = b.parked /\ p.queue = q
        BY <1>0, <4>3, <4>4 DEF Broker
      <4>6. /\ Settles(p, b1, {}) /\ b1.parked = p.parked
            /\ Len(p.queue) <= MaxQueue + 1 => Len(b1.queue) <= MaxQueue
        BY <4>1, <4>5, ShedFacts
      <4>7. Core(b1, n, ans, w, ac, st)
        BY <4>2, <4>6, CoreSettles
      <4>8. Len(b1.queue) <= MaxQueue
        BY <1>0, <4>3, <4>5, <4>6
      <4>9. b1 \in Broker /\ b1.cmd = p.cmd
        BY <4>6 DEF Settles
      <4> QED BY <4>5, <4>6, <4>7, <4>8, <4>9
    <3> QED BY <3>1, <3>2
  <2>2. Settles(b1, b2, {}) /\ b2.queue = b1.queue /\ b2.parked = b1.parked
    BY <1>0, <1>2, <2>1, TimedOutEnd
  <2> HIDE DEF b1, b2
  <2>3. Core(b2, n, ans, w, ac, st)
    BY <2>1, <2>2, CoreSettles
  <2>4. b2.cmd = b.cmd
    BY <2>1, <2>2 DEF Settles
  <2> QED BY <2>1, <2>2, <2>3, <2>4 DEF b2
<1> QED BY <1>1, <1>2

-----------------------------------------------------------------------------
(***************************************************************************)
(* The actions                                                             *)
(***************************************************************************)
LEMMA CoreType ==
    ASSUME NEW b, NEW n, NEW ans, NEW w, NEW ac, NEW st, Core(b, n, ans, w, ac, st)
    PROVE  /\ b \in Broker /\ b.queue \in Seq(Ids) /\ Len(b.queue) \in Nat
           /\ ans \in Ids \cup {0} /\ 0 \notin Ids /\ n \in Nat /\ Ids \subseteq Nat
           /\ n <= MaxCmds => n \in Ids
           /\ w \in Worker /\ w.inFlight \subseteq Ids /\ w.running \subseteq w.inFlight
           /\ w.results \in Seq(Envelope) /\ st \in SUBSET Envelope
           /\ MaxQueue \in Nat /\ MaxCmds \in Nat
<1>1. b \in Broker /\ w \in Worker /\ ans \in Ids \cup {0} /\ n \in 1 .. MaxCmds + 1
      /\ st \in SUBSET Envelope /\ w.running \subseteq w.inFlight
  BY DEF Core, Typed
<1>2. b.queue \in Seq(Ids) /\ Len(b.queue) \in Nat
  BY <1>1 DEF Broker
<1>3. w.inFlight \subseteq Ids /\ w.results \in Seq(Envelope)
  BY <1>1, ControlAssumption DEF Worker
<1>4. MaxQueue \in Nat /\ MaxCmds \in Nat
  BY BrokerAssumption
<1>5. 0 \notin Ids /\ Ids \subseteq Nat /\ n \in Nat /\ (n <= MaxCmds => n \in Ids)
  BY <1>1, <1>4 DEF Ids
<1> QED BY <1>1, <1>2, <1>3, <1>4, <1>5

\* The main does nothing but settle callers and take from its queue.
LEMMA SettlesStep ==
    ASSUME Inv, Settles(broker, broker', {}), answer' \in {answer, 0},
           UNCHANGED <<nextId, worker, acts>>, strays' \subseteq strays
    PROVE  /\ Core(broker', nextId', answer', worker', acts', strays')
           /\ Len(broker'.queue) <= MaxQueue /\ Stops' = Stops
<1>1. Core(broker, nextId, answer, worker, acts, strays)
  BY DEF Inv
<1>2. Core(broker', nextId, answer', worker, acts, strays')
  BY <1>1, CoreSettles
<1>3. /\ Len(broker'.queue) <= Len(broker.queue) /\ broker'.cmd = broker.cmd
      /\ Len(broker'.queue) \in Nat
  BY <1>2, CoreType DEF Settles, Thinner
<1>4. Len(broker'.queue) <= MaxQueue
  BY <1>1, <1>3, CoreType DEF Inv, Rest
<1> QED BY <1>2, <1>3, <1>4 DEF Stops, cmds

LEMMA EmptyAnswerStep ==
    ASSUME Inv, EmptyAnswer PROVE Inv'
<1>1. Core(broker, nextId, answer, worker, acts, strays)
  BY DEF Inv
<1>2. broker \in Broker /\ broker.queue \in Seq(Ids)
  BY <1>1, CoreType
<1>3. broker' = [broker EXCEPT !.parked = "none"]
  BY DEF EmptyAnswer
<1>4. /\ broker' \in Broker /\ broker'.cmd = broker.cmd /\ broker'.queue = broker.queue
      /\ broker'.pend = broker.pend /\ broker'.told = broker.told
      /\ broker'.parked = "none"
  BY <1>2, <1>3 DEF Broker
<1>5. Settles(broker, broker', {})
  BY <1>2, <1>4, ThinnerReflexive DEF Settles, Pending
<1>6. /\ Core(broker', nextId', answer', worker', acts', strays')
      /\ Len(broker'.queue) <= MaxQueue /\ Stops' = Stops
  BY <1>5, SettlesStep DEF EmptyAnswer, wire, stopHistory
<1> QED BY <1>6 DEF Inv, Rest, EmptyAnswer, wire, stopHistory

LEMMA GoesOfflineStep ==
    ASSUME Inv, GoesOffline PROVE Inv'
<1>1. Core(broker, nextId, answer, worker, acts, strays)
  BY DEF Inv
<1>2. broker \in Broker /\ broker.queue \in Seq(Ids)
  BY <1>1, CoreType
<1>3. broker' = [broker EXCEPT !.known = FALSE]
  BY DEF GoesOffline
<1>4. /\ broker' \in Broker /\ broker'.cmd = broker.cmd /\ broker'.queue = broker.queue
      /\ broker'.pend = broker.pend /\ broker'.told = broker.told
      /\ broker'.parked = broker.parked
  BY <1>2, <1>3 DEF Broker
<1>5. Settles(broker, broker', {})
  BY <1>2, <1>4, ThinnerReflexive DEF Settles, Pending
<1>6. /\ Core(broker', nextId', answer', worker', acts', strays')
      /\ Len(broker'.queue) <= MaxQueue /\ Stops' = Stops
  BY <1>5, SettlesStep DEF GoesOffline, wire, stopHistory
<1> QED BY <1>4, <1>6 DEF Inv, Rest, GoesOffline, wire, stopHistory

LEMMA RemoveNodeStep ==
    ASSUME Inv, RemoveNode PROVE Inv'
<1>1. Core(broker, nextId, answer, worker, acts, strays)
  BY DEF Inv
<1>2. broker \in Broker
  BY <1>1, CoreType
<1>3. Settles(broker, broker', {})
  BY <1>2, RemovedFacts DEF RemoveNode
<1>4. /\ Core(broker', nextId', answer', worker', acts', strays')
      /\ Len(broker'.queue) <= MaxQueue /\ Stops' = Stops
  BY <1>3, SettlesStep DEF RemoveNode
<1> QED BY <1>4 DEF Inv, Rest, RemoveNode

LEMMA MainRestartsStep ==
    ASSUME Inv, MainRestarts PROVE Inv'
<1>1. Core(broker, nextId, answer, worker, acts, strays)
  BY DEF Inv
<1>2. broker \in Broker
  BY <1>1, CoreType
<1>3. Settles(broker, broker', {})
  BY <1>2, ClosedFacts DEF MainRestarts
<1>4. /\ Core(broker', nextId', answer', worker', acts', strays')
      /\ Len(broker'.queue) <= MaxQueue /\ Stops' = Stops
  BY <1>3, SettlesStep DEF MainRestarts
<1> QED BY <1>4 DEF Inv, Rest, MainRestarts

LEMMA TimeoutStep ==
    ASSUME Inv, NEW c \in Ids, Timeout(c) PROVE Inv'
<1>1. Core(broker, nextId, answer, worker, acts, strays) /\ Len(broker.queue) <= MaxQueue
  BY DEF Inv, Rest
<1>2. /\ Core(broker', nextId, answer, worker, acts, strays)
      /\ Len(broker'.queue) <= MaxQueue /\ broker'.parked = broker.parked
      /\ broker'.cmd = broker.cmd
  BY <1>1, CoreTimedOut DEF Timeout
<1>3. Stops' = Stops
  BY <1>2 DEF Stops, cmds
<1>4. ShedBy(broker') \subseteq Stops
  BY <1>1, <1>2, CoreType, RangeFacts DEF ShedBy, IsEnd, Stops, cmds
<1> QED BY <1>2, <1>3, <1>4 DEF Inv, Rest, Timeout, wire

LEMMA DispatchStep ==
    ASSUME Inv, NEW s \in Sessions \cup {NoSession}, Dispatch(s)
    PROVE  /\ Inv'
           /\ \A d \in Ids : Contains(broker.queue, d) /\ IsEnd(broker, d)
                               => Contains(broker'.queue, d)
<1>1. Core(broker, nextId, answer, worker, acts, strays) /\ Rest
  BY DEF Inv
<1> DEFINE cmd == [kind |-> "work", session |-> s]
           b == Dispatched(broker, nextId, cmd)
<1>2. cmd \in Command /\ cmd.kind = "work" /\ nextId \in Ids
  BY <1>1, CoreType DEF Dispatch, Command
<1>3. broker' = b /\ nextId' = nextId + 1 /\ Handed(b)
  BY DEF Dispatch
<1>4. answer # nextId
  BY <1>1, <1>2, CoreType DEF Core, FreshOnes
<1> HIDE DEF cmd, b
<1>5. /\ answer' \in {answer, nextId} /\ (answer' = nextId => answer = 0)
      /\ answer' # answer => broker.parked # "none" /\ b.parked = "none"
      /\ live' \in BOOLEAN
      /\ live' => live /\ answer' = answer /\ ~(broker.parked # "none" /\ b.parked = "none")
  BY <1>1, <1>3, <1>4 DEF Rest, Handed
<1>6. /\ Core(b, nextId + 1, answer', worker, acts, strays)
      /\ Len(b.queue) <= MaxQueue /\ b.parked \in {broker.parked, "none"}
      /\ \A d \in Ids : broker.cmd[d].kind # "none" => b.cmd[d] = broker.cmd[d]
      /\ \A d \in Ids : Contains(broker.queue, d) /\ IsEnd(broker, d) => Contains(b.queue, d)
  BY <1>1, <1>2, <1>5, CoreDispatched DEF Rest, b
<1>7. Stops \subseteq Stops'
  BY <1>3, <1>6 DEF Stops, cmds
<1>8. ShedBy(b) \subseteq Stops'
  BY <1>1, <1>3, CoreType, RangeFacts DEF ShedBy, IsEnd, Stops, cmds
<1>9. Core(broker', nextId', answer', worker', acts', strays')
  BY <1>3, <1>6 DEF Dispatch
<1>10. Rest'
  BY <1>1, <1>3, <1>5, <1>6, <1>7, <1>8 DEF Rest, Dispatch, b, cmd
<1> QED BY <1>3, <1>6, <1>9, <1>10 DEF Inv

LEMMA AbortStep ==
    ASSUME Inv, NEW s \in Sessions, Abort(s)
    PROVE  Inv' /\ \A c \in Ids : cmds[c].kind = "none" => cmds'[c].kind # "work"
<1>1. Core(broker, nextId, answer, worker, acts, strays) /\ Rest
  BY DEF Inv
<1> DEFINE b1 == Cancelled(broker, s)
           cmd == [kind |-> "end", session |-> s]
           ends == s \in leases /\ broker.known
           b2 == IF ends THEN Dispatched(b1, nextId, cmd) ELSE b1
<1>2. /\ broker' = b2 /\ nextId' = IF ends THEN nextId + 1 ELSE nextId
      /\ ends => nextId <= MaxCmds
      /\ IF ends THEN Handed(b2) ELSE UNCHANGED <<answer, live>>
      /\ cancelled' = cancelled \cup (OfSession(broker, s) \cap Stops)
      /\ excused' = excused \cup (ShedBy(b2) \ OfSession(broker, s))
      /\ leases' = leases \ {s}
      /\ UNCHANGED <<late, worker, nodeLate, paired, ghosts, strays, acts,
                     reached, dropped, faults>>
  BY DEF Abort
<1>3. Settles(broker, b1, {}) /\ b1.parked = broker.parked /\ cmd \in Command /\ cmd.kind = "end"
  BY <1>1, CoreType, CancelledFacts DEF Command
<1> HIDE DEF b1, cmd, ends
<1>4. Core(b1, nextId, answer, worker, acts, strays)
  BY <1>1, <1>3, CoreSettles
<1>5. Len(b1.queue) <= MaxQueue /\ b1.cmd = broker.cmd
  <2>1. /\ Len(b1.queue) <= Len(broker.queue) /\ b1.cmd = broker.cmd
        /\ Len(b1.queue) \in Nat
    BY <1>3, <1>4, CoreType DEF Settles, Thinner
  <2> QED BY <1>1, <2>1, CoreType DEF Rest
<1>6. /\ Core(b2, nextId', answer', worker, acts, strays) /\ Len(b2.queue) <= MaxQueue
      /\ \A d \in Ids : broker.cmd[d].kind # "none" => b2.cmd[d] = broker.cmd[d]
      /\ \A d \in Ids : broker.cmd[d].kind = "none" => b2.cmd[d].kind # "work"
      /\ live' \in BOOLEAN
      /\ live' => b2.parked # "none" /\ answer' = 0
  <2>1. CASE ends
    <3>1. nextId \in Ids
      BY <1>1, <1>2, <2>1, CoreType
    <3>2. answer # nextId
      BY <1>1, <3>1, CoreType DEF Core, FreshOnes
    <3>3. b2 = Dispatched(b1, nextId, cmd)
      BY <2>1
    <3> HIDE DEF b2
    <3>4. Handed(b2)
      BY <1>2, <2>1
    <3>5. /\ answer' \in {answer, nextId} /\ (answer' = nextId => answer = 0)
          /\ answer' # answer => broker.parked # "none" /\ b2.parked = "none"
          /\ live' \in BOOLEAN
          /\ live' => live /\ answer' = answer
                      /\ ~(broker.parked # "none" /\ b2.parked = "none")
      BY <1>1, <3>2, <3>4 DEF Rest, Handed
    <3> DEFINE x == Dispatched(b1, nextId, cmd)
    <3>a. answer' # answer => b1.parked # "none" /\ x.parked = "none"
      BY <1>3, <3>3, <3>5
    <3>b. /\ Core(x, nextId + 1, answer', worker, acts, strays)
          /\ Len(x.queue) <= MaxQueue /\ x.parked \in {b1.parked, "none"}
          /\ \A d \in Ids : b1.cmd[d].kind # "none" => x.cmd[d] = b1.cmd[d]
          /\ x.cmd[nextId] = cmd
      BY <1>3, <1>4, <1>5, <3>1, <3>5, <3>a, CoreDispatched
    <3> HIDE DEF x
    <3>6. /\ Core(b2, nextId + 1, answer', worker, acts, strays)
          /\ Len(b2.queue) <= MaxQueue /\ b2.parked \in {b1.parked, "none"}
          /\ \A d \in Ids : b1.cmd[d].kind # "none" => b2.cmd[d] = b1.cmd[d]
          /\ b2.cmd[nextId] = cmd
      BY <3>3, <3>b DEF x
    <3>7. ASSUME NEW d \in Ids, broker.cmd[d].kind = "none" PROVE b2.cmd[d].kind # "work"
      <4>1. CASE d = nextId
        BY <1>3, <3>6, <4>1
      <4>2. CASE d < nextId
        BY <1>1, <3>7, <4>2 DEF Core, FreshOnes
      <4>3. CASE nextId < d
        <5>1. ~(d < nextId + 1)
          BY <1>1, <4>3, CoreType
        <5>2. b2.cmd[d] = NoCommand
          BY <3>6, <5>1 DEF Core, FreshOnes
        <5> QED BY <5>2 DEF NoCommand
      <4>4. d \in Nat /\ nextId \in Nat
        BY <1>1, CoreType
      <4> QED BY <4>1, <4>2, <4>3, <4>4
    <3> QED BY <1>1, <1>2, <1>5, <2>1, <3>5, <3>6, <3>7 DEF Rest
  <2>2. CASE ~ends
    <3>1. b2 = b1 /\ nextId' = nextId /\ answer' = answer /\ live' = live
      BY <1>2, <2>2
    <3> QED BY <1>1, <1>3, <1>4, <1>5, <3>1 DEF Rest
  <2> QED BY <2>1, <2>2
<1> HIDE DEF b2
<1>7. Stops \subseteq Stops'
  BY <1>2, <1>6 DEF Stops, cmds
<1>8. ShedBy(b2) \subseteq Stops'
  BY <1>1, <1>2, CoreType, RangeFacts DEF ShedBy, IsEnd, Stops, cmds
<1>9. Core(broker', nextId', answer', worker', acts', strays')
  BY <1>2, <1>6
<1>10. Rest'
  BY <1>1, <1>2, <1>6, <1>7, <1>8 DEF Rest
<1> QED BY <1>2, <1>6, <1>9, <1>10 DEF Inv, cmds

LEMMA PollStep ==
    ASSUME Inv, Poll PROVE Inv'
<1>1. Core(broker, nextId, answer, worker, acts, strays) /\ Rest
  BY DEF Inv
<1> DEFINE o == RevocationsOnly(worker, cmds)
<1>2. o \in BOOLEAN /\ broker \in Broker
  BY <1>1, CoreType DEF RevocationsOnly
<1>3. /\ answer = 0 /\ broker' = Polled(Pruned(broker), o)
      /\ IF Found(broker, o) THEN answer' = Taken(broker, o) /\ UNCHANGED live
         ELSE live' = TRUE /\ UNCHANGED answer
      /\ UNCHANGED <<nextId, late, worker, nodeLate, leases, paired, ghosts, strays,
                     acts, stopHistory, faults>>
  BY DEF Poll, HandlePoll, Idle
<1>4. ~live
  BY DEF Poll, Idle
<1> HIDE DEF o
<1>5. /\ Settles(broker, broker', {}) /\ Len(broker'.queue) <= Len(broker.queue)
      /\ ~Found(broker, o) => broker'.parked # "none"
  BY <1>2, <1>3, PolledFacts
<1>6. Core(broker', nextId, answer', worker, acts, strays)
  <2>1. CASE Found(broker, o)
    BY <1>1, <1>2, <1>3, <2>1, CoreTaken
  <2>2. CASE ~Found(broker, o)
    BY <1>1, <1>3, <1>5, <2>2, CoreSettles
  <2> QED BY <2>1, <2>2
<1>7. Len(broker'.queue) <= MaxQueue
  BY <1>1, <1>5, <1>6, CoreType DEF Rest
<1>8. Stops' = Stops
  BY <1>5 DEF Settles, Stops, cmds
<1> QED BY <1>1, <1>3, <1>4, <1>5, <1>6, <1>7, <1>8 DEF Inv, Rest, stopHistory

LEMMA GiveUpStep ==
    ASSUME Inv, GiveUp PROVE Inv'
<1>1. Core(broker, nextId, answer, worker, acts, strays) /\ Rest
  BY DEF Inv
<1>2. broker' = broker /\ answer' = 0 /\ ~live' /\ live' \in BOOLEAN
  BY DEF GiveUp
<1>3. Settles(broker, broker', {})
  BY <1>1, <1>2, CoreType, SettlesReflexive
<1>4. /\ Core(broker', nextId', answer', worker', acts', strays')
      /\ Len(broker'.queue) <= MaxQueue /\ Stops' = Stops
  BY <1>2, <1>3, SettlesStep DEF GiveUp
<1>5. dropped' \subseteq dropped \cup Stops
  BY DEF GiveUp, Dropped
<1> QED BY <1>1, <1>2, <1>4, <1>5 DEF Inv, Rest, GiveUp

LEMMA GhostArrivesStep ==
    ASSUME Inv, NEW o \in ghosts, GhostArrives(o) PROVE Inv'
<1>1. Core(broker, nextId, answer, worker, acts, strays) /\ Rest
  BY DEF Inv
<1>2. o \in BOOLEAN /\ broker \in Broker
  BY <1>1, CoreType DEF Rest
<1>3. /\ broker' = Polled(Pruned(broker), o) /\ live' = (live /\ Found(broker, o))
      /\ ghosts' = ghosts \ {o}
      /\ Dropped(IF Found(broker, o) THEN {Taken(broker, o)} ELSE {})
      /\ UNCHANGED <<nextId, late, worker, nodeLate, leases, paired, answer, strays,
                     acts, reached, cancelled, excused, faults>>
  BY DEF GhostArrives, HandlePoll
<1>4. /\ Settles(broker, broker', {})
      /\ Found(broker, o) => broker'.parked = broker.parked
  BY <1>2, <1>3, PolledFacts
<1>5. /\ Core(broker', nextId', answer', worker', acts', strays')
      /\ Len(broker'.queue) <= MaxQueue /\ Stops' = Stops
  BY <1>3, <1>4, SettlesStep
<1>6. dropped' \subseteq dropped \cup Stops
  BY <1>3 DEF Dropped
<1>7. live' \in BOOLEAN /\ (live' => live /\ Found(broker, o))
  BY <1>3
<1> QED BY <1>1, <1>3, <1>4, <1>5, <1>6, <1>7 DEF Inv, Rest

LEMMA ReceiveStep ==
    ASSUME Inv, Receive PROVE Inv'
<1>1. Core(broker, nextId, answer, worker, acts, strays) /\ Rest
  BY DEF Inv
<1>2. answer \in Ids
  BY <1>1, CoreType DEF Receive
<1>3. Core(broker, nextId, 0, Scheduled(worker, answer, broker.cmd), acts, strays)
  BY <1>1, <1>2, CoreScheduled
<1>4. Core(broker', nextId', answer', worker', acts', strays')
  BY <1>3 DEF Receive, cmds
<1>5. Stops' = Stops
  BY DEF Stops, cmds, Receive
<1> QED BY <1>1, <1>4, <1>5 DEF Inv, Rest, Receive, stopHistory

LEMMA StartStep ==
    ASSUME Inv, NEW c \in Ids, NEW effect \in BOOLEAN, Start(c, effect) PROVE Inv'
<1>1. Core(broker, nextId, answer, worker, acts, strays) /\ Rest
  BY DEF Inv
<1>2. /\ Ready(worker, c, broker.cmd[c]) /\ (effect => c \notin nodeLate)
      /\ worker' = IF c \in nodeLate THEN Finished(worker, c, broker.cmd[c], "expired")
                   ELSE Started(worker, c, effect)
      /\ acts' = IF effect /\ ~IsEnd(broker, c) THEN [acts EXCEPT ![c] = @ + 1] ELSE acts
      /\ reached' \subseteq reached \cup Stops
      /\ UNCHANGED <<broker, nextId, late, nodeLate, leases, paired, live, answer, ghosts,
                     strays, dropped, cancelled, excused>>
  BY DEF Start, cmds, Stops, IsEnd, wire
<1>3. Core(broker, nextId, answer, worker', acts', strays)
  <2>1. CASE c \in nodeLate
    <3>1. /\ worker' = Finished(worker, c, broker.cmd[c], "expired") /\ acts' = acts
          /\ "expired" \in Outcomes
      BY <1>2, <2>1 DEF Outcomes
    <3>2. /\ c \in worker.inFlight
          /\ Chained(broker.cmd[c]) => c = Head(worker.tails[broker.cmd[c].session])
      BY <1>2 DEF Ready
    <3>3. acts[c] = 0
      BY <1>1, <1>2 DEF Core, Typed, ActedOnce, Ready
    <3> QED BY <1>1, <3>1, <3>2, <3>3, CoreFinished
  <2>2. CASE c \notin nodeLate
    BY <1>1, <1>2, <2>2, CoreStarted
  <2> QED BY <2>1, <2>2
<1>4. Stops' = Stops
  BY <1>2 DEF Stops, cmds
<1> QED BY <1>1, <1>2, <1>3, <1>4 DEF Inv, Rest

LEMMA FinishStep ==
    ASSUME Inv, NEW c \in Ids, NEW outcome \in Outcomes, Finish(c, outcome) PROVE Inv'
<1>1. Core(broker, nextId, answer, worker, acts, strays) /\ Rest
  BY DEF Inv
<1>2. /\ MayFinish(worker, c, cmds[c], outcome)
      /\ worker' = Finished(worker, c, broker.cmd[c], outcome)
      /\ UNCHANGED <<broker, nextId, late, nodeLate, leases, paired, live, answer, ghosts,
                     strays, acts, reached, dropped, cancelled, excused>>
  BY DEF Finish, cmds, wire, stopHistory
<1>3. c \in worker.running /\ c \in worker.inFlight
  BY <1>1, <1>2, CoreType DEF MayFinish
<1>4. Chained(broker.cmd[c]) => c = Head(worker.tails[broker.cmd[c].session])
  <2> SUFFICES ASSUME Chained(broker.cmd[c])
               PROVE  c = Head(worker.tails[broker.cmd[c].session])
    OBVIOUS
  <2> DEFINE s == broker.cmd[c].session
  <2>1. s \in Sessions /\ Works(broker, c) /\ broker.cmd[c].session = s
    BY ControlAssumption DEF Chained, Works
  <2>2. Lane(broker, worker, acts, s, worker.tails[s])
    BY <1>1, <2>1 DEF Core, Lanes
  <2> HIDE DEF s
  <2>0. worker \in Worker
    BY <1>1, CoreType
  <2>3. Head(worker.tails[s]) = worker.tails[s][1] /\ Contains(worker.tails[s], c)
    BY <1>3, <2>0, <2>1, <2>2, LaneFacts
  <2>4. c = worker.tails[s][1]
    BY <1>3, <2>2, <2>3 DEF Lane, HeadRuns
  <2> QED BY <2>3, <2>4 DEF s
<1>5. outcome \in {"rejected", "expired"} => acts[c] = 0
  <2>1. outcome \in {"rejected", "expired"} => c \notin worker.effect
    BY <1>2 DEF MayFinish
  <2> QED BY <1>1, <1>3, <2>1 DEF Core, ActedOnce
<1>6. Core(broker, nextId, answer, worker', acts, strays)
  BY <1>1, <1>2, <1>3, <1>4, <1>5, CoreFinished
<1>7. Stops' = Stops
  BY <1>2 DEF Stops, cmds
<1> QED BY <1>1, <1>2, <1>6, <1>7 DEF Inv, Rest

\* The main processes a result that the node or the network holds.
LEMMA ResultHandled ==
    ASSUME Inv, NEW e \in Reports(worker, strays), HandleResult(e),
           NEW st \in SUBSET strays
    PROVE  /\ Core(broker', nextId, answer, worker, acts, st)
           /\ Len(broker'.queue) <= MaxQueue /\ broker'.cmd = broker.cmd
           /\ broker'.parked = broker.parked
<1>1. Core(broker, nextId, answer, worker, acts, strays) /\ Rest
  BY DEF Inv
<1>2. broker \in Broker /\ e.id \in Ids /\ e.outcome \in Outcomes
  BY <1>1, CoreType, ReportsTyped
<1> DEFINE N == {d \in {e.id} : /\ e.id \in Pending(broker)
                                /\ e.outcome \in {"rejected", "expired"}
                                /\ Works(broker, e.id)}
           N0 == {d \in {e.id} : e.id \in Pending(broker)
                                   /\ e.outcome \in {"rejected", "expired"}}
<1>3. Settles(broker, broker', N0) /\ broker'.parked = broker.parked
  BY <1>2, DeliveredFacts DEF HandleResult
<1>4. \A d \in N0 : d \in N \/ IsEnd(broker, d)
  <2> SUFFICES ASSUME e.id \in Pending(broker), ~Works(broker, e.id)
               PROVE  IsEnd(broker, e.id)
    OBVIOUS
  <2>1. broker.cmd[e.id].kind # "none"
    BY <1>1, <1>2 DEF Core, FreshOnes
  <2>2. broker.cmd[e.id] \in Command \cup {NoCommand}
    BY <1>2 DEF Broker
  <2> QED BY <2>1, <2>2 DEF Works, IsEnd, Command, NoCommand
<1>5. \A d \in N : d = e.id /\ d \in Pending(broker) /\ Works(broker, e.id)
                   /\ e.outcome \in {"rejected", "expired"}
  OBVIOUS
<1> HIDE DEF N, N0
<1>6. Settles(broker, broker', N)
  BY <1>3, <1>4 DEF Settles
<1>7. \A d \in N : /\ ~Contains(broker.queue, d) /\ d # answer /\ ~Seen(worker, acts, d)
                   /\ d \in Pending(broker)
  BY <1>1, <1>5, CoreType DEF Core, Reported, Seen
<1>8. Core(broker', nextId, answer, worker, acts, st)
  BY <1>1, <1>6, <1>7, CoreSettles
<1>9. /\ Len(broker'.queue) <= Len(broker.queue) /\ broker'.cmd = broker.cmd
  BY <1>6 DEF Settles, Thinner
<1>10. Len(broker'.queue) <= MaxQueue
  BY <1>1, <1>8, <1>9, CoreType DEF Rest
<1> QED BY <1>3, <1>8, <1>9, <1>10

LEMMA PostResultStep ==
    ASSUME Inv, NEW heard \in BOOLEAN, PostResult(heard) PROVE Inv'
<1>1. Core(broker, nextId, answer, worker, acts, strays) /\ Rest
  BY DEF Inv
<1> DEFINE e == Head(worker.results)
<1>2. /\ worker.results # <<>> /\ HandleResult(e)
      /\ worker' = worker \/ worker' = Acknowledged(worker, e)
      /\ UNCHANGED <<nextId, late, nodeLate, leases, paired, live, answer, ghosts, strays,
                     acts, reached, dropped, cancelled, excused>>
  BY DEF PostResult, wire
<1>3. e \in Reports(worker, strays)
  BY <1>1, <1>2, CoreType, TailFacts DEF Reports
<1> HIDE DEF e
<1>4. /\ Core(broker', nextId, answer, worker, acts, strays)
      /\ Len(broker'.queue) <= MaxQueue /\ broker'.cmd = broker.cmd
      /\ broker'.parked = broker.parked
  BY <1>2, <1>3, ResultHandled
<1>5. Core(broker', nextId, answer, worker', acts, strays)
  BY <1>2, <1>4, CoreAcknowledged
<1>6. Stops' = Stops
  BY <1>4 DEF Stops, cmds
<1> QED BY <1>1, <1>2, <1>4, <1>5, <1>6 DEF Inv, Rest

LEMMA StrayArrivesStep ==
    ASSUME Inv, NEW e \in strays, StrayArrives(e) PROVE Inv'
<1>1. Core(broker, nextId, answer, worker, acts, strays) /\ Rest
  BY DEF Inv
<1>2. /\ HandleResult(e) /\ strays' = strays \ {e}
      /\ UNCHANGED <<nextId, late, worker, nodeLate, leases, paired, live, answer, ghosts,
                     acts, reached, dropped, cancelled, excused>>
  BY DEF StrayArrives
<1>3. e \in Reports(worker, strays) /\ strays' \in SUBSET strays
  BY <1>2 DEF Reports
<1>4. /\ Core(broker', nextId, answer, worker, acts, strays')
      /\ Len(broker'.queue) <= MaxQueue /\ broker'.cmd = broker.cmd
      /\ broker'.parked = broker.parked
  BY <1>2, <1>3, ResultHandled
<1>5. Stops' = Stops
  BY <1>4 DEF Stops, cmds
<1> QED BY <1>1, <1>2, <1>4, <1>5 DEF Inv, Rest

LEMMA PostLostStep ==
    ASSUME Inv, PostLost PROVE Inv'
<1>1. Core(broker, nextId, answer, worker, acts, strays) /\ Rest
  BY DEF Inv
<1>2. /\ worker.results # <<>> /\ strays' = strays \cup {Head(worker.results)}
      /\ UNCHANGED <<broker, nextId, late, worker, nodeLate, leases, paired, live,
                     answer, ghosts, acts, reached, dropped, cancelled, excused>>
  BY DEF PostLost, stopHistory
<1>3. worker \in Worker /\ worker.results \in Seq(Envelope) /\ strays \in SUBSET Envelope
  BY <1>1, CoreType
<1>4. Head(worker.results) \in Range(worker.results) /\ Head(worker.results) \in Envelope
  BY <1>2, <1>3, TailFacts
<1>5. Reports(worker, strays') \subseteq Reports(worker, strays) /\ strays' \in SUBSET Envelope
  BY <1>2, <1>3, <1>4 DEF Reports
<1>6. Core(broker, nextId, answer, worker, acts, strays')
  BY <1>1, <1>3, <1>5, CoreForgets
<1>7. Stops' = Stops
  BY <1>2 DEF Stops, cmds
<1> QED BY <1>1, <1>2, <1>6, <1>7 DEF Inv, Rest

LEMMA FreshWorkerFacts ==
    /\ FreshWorker \in Worker /\ \A st : Reports(FreshWorker, st) = st
    /\ FreshWorker.inFlight = {} /\ FreshWorker.running = {} /\ FreshWorker.effect = {}
    /\ \A s \in Sessions : FreshWorker.tails[s] = <<>>
<1>1. <<>> \in Seq(Envelope) /\ <<>> \in Seq(WorkerIds) /\ Range(<<>>) = {}
  BY DEF Range
<1>2. [s \in WorkerSessions |-> <<>>] \in [WorkerSessions -> Seq(WorkerIds)]
  BY <1>1
<1> QED BY <1>1, <1>2, ControlAssumption DEF FreshWorker, Worker, Reports

LEMMA NodeRestartsStep ==
    ASSUME Inv, NodeRestarts PROVE Inv'
<1>1. Core(broker, nextId, answer, worker, acts, strays) /\ Rest
  BY DEF Inv
<1>2. /\ worker' = FreshWorker /\ live' = FALSE /\ answer' = 0
      /\ dropped' \subseteq dropped \cup Stops
      /\ UNCHANGED <<broker, nextId, late, nodeLate, leases, paired, ghosts, strays, acts,
                     reached, cancelled, excused>>
  BY DEF NodeRestarts, Dropped
<1>3. Core(broker, nextId, 0, worker, acts, strays)
  BY <1>1, CoreType, SettlesReflexive, CoreSettles
<1>4. Reports(FreshWorker, strays) \subseteq Reports(worker, strays)
  BY FreshWorkerFacts DEF Reports
<1>5. Core(broker, nextId, 0, FreshWorker, acts, strays)
  BY <1>1, <1>3, <1>4, CoreType, FreshWorkerFacts, CoreForgets
<1>6. Stops' = Stops
  BY <1>2 DEF Stops, cmds
<1> QED BY <1>1, <1>2, <1>5, <1>6 DEF Inv, Rest

\* A poll that does not arrive, and the clocks.
LEMMA QuietStep ==
    ASSUME Inv, PollLost \/ \E c \in Ids : MainClock(c) \/ NodeClock(c) PROVE Inv'
<1>1. Core(broker, nextId, answer, worker, acts, strays) /\ Rest
  BY DEF Inv
<1>2. UNCHANGED <<broker, nextId, answer, worker, acts, strays>>
  BY DEF PollLost, MainClock, NodeClock, wire
<1>3. Core(broker', nextId', answer', worker', acts', strays')
  BY <1>1, <1>2
<1>4. Stops' = Stops
  BY <1>2 DEF Stops, cmds
<1>5. CASE PollLost
  <2>1. RevocationsOnly(worker, cmds) \in BOOLEAN
    BY DEF RevocationsOnly
  <2>2. ghosts' = ghosts \cup {RevocationsOnly(worker, cmds)}
    BY <1>5 DEF PollLost
  <2> QED BY <1>1, <1>2, <1>3, <1>4, <1>5, <2>1, <2>2 DEF Inv, Rest, PollLost, stopHistory
<1>6. CASE \E c \in Ids : MainClock(c) \/ NodeClock(c)
  BY <1>1, <1>2, <1>3, <1>4, <1>6 DEF Inv, Rest, MainClock, NodeClock, wire, stopHistory
<1> QED BY <1>5, <1>6

LEMMA InitInv == Init => Inv
<1> SUFFICES ASSUME Init PROVE Inv
  OBVIOUS
<1> DEFINE cmd == [c \in Ids |-> NoCommand]
           pend == [c \in Ids |-> "new"]
           told == [c \in Ids |-> "none"]
<1>1. /\ broker = [cmd |-> cmd, pend |-> pend, told |-> told, queue |-> <<>>,
                   settled |-> {}, parked |-> "none", known |-> FALSE]
      /\ nextId = 1 /\ late = {} /\ worker = FreshWorker /\ nodeLate = {}
      /\ leases = Sessions /\ paired = TRUE /\ live = FALSE /\ answer = 0
      /\ ghosts = {} /\ strays = {} /\ acts = [c \in Ids |-> 0]
      /\ reached = {} /\ dropped = {} /\ cancelled = {} /\ excused = {}
  BY DEF Init, BrokerInit, WorkerInit
<1>2. /\ cmd \in [Ids -> Command \cup {NoCommand}]
      /\ pend \in [Ids -> {"new", "waiting", "delivered", "gone"}]
      /\ told \in [Ids -> Answers]
      /\ \A c \in Ids : cmd[c] = NoCommand /\ pend[c] = "new" /\ told[c] = "none"
  BY DEF Answers
<1>3. <<>> \in Seq(Ids) /\ Len(<<>>) = 0 /\ \A c : ~Contains(<<>>, c)
  BY DEF Contains
<1> HIDE DEF cmd, pend, told
<1>4. /\ broker \in Broker /\ broker.cmd = cmd /\ broker.pend = pend
      /\ broker.told = told /\ broker.queue = <<>> /\ broker.parked = "none"
  BY <1>1, <1>2, <1>3 DEF Broker
<1>5. IsInjective(broker.queue)
  BY <1>4 DEF IsInjective
<1>6. /\ worker \in Worker /\ worker.inFlight = {} /\ worker.running = {}
      /\ worker.effect = {} /\ Reports(worker, strays) = {}
      /\ \A s \in Sessions : worker.tails[s] = <<>>
  <2>1. /\ FreshWorker \in Worker /\ FreshWorker.inFlight = {}
        /\ FreshWorker.running = {} /\ FreshWorker.effect = {}
        /\ FreshWorker.completed = <<>> /\ FreshWorker.results = <<>>
    BY FreshWorkerFacts DEF FreshWorker
  <2>2. \A s \in Sessions : FreshWorker.tails[s] = <<>>
    BY ControlAssumption DEF FreshWorker
  <2>3. Range(FreshWorker.completed) = {} /\ Range(FreshWorker.results) = {}
    BY <2>1 DEF Range
  <2> QED BY <1>1, <2>1, <2>2, <2>3 DEF Reports
<1>7. 1 \in 1 .. MaxCmds + 1 /\ \A c \in Ids : c >= 1
  BY BrokerAssumption DEF Ids
<1>8. acts \in [Ids -> Nat] /\ \A c \in Ids : acts[c] = 0
  BY <1>1
<1>9. \A c \in Ids : /\ broker.cmd[c] = NoCommand /\ c \notin Pending(broker)
                     /\ broker.told[c] = "none" /\ ~Works(broker, c)
  BY <1>2, <1>4 DEF Pending, Works, NoCommand
<1>10. Typed(broker, nextId, answer, worker, acts, strays)
  BY <1>1, <1>4, <1>5, <1>6, <1>7, <1>8 DEF Typed
<1>11. FreshOnes(broker, nextId, answer, worker, acts, Reports(worker, strays))
  <2> SUFFICES ASSUME NEW c \in Ids
               PROVE  /\ ~(c < nextId) /\ broker.cmd[c] = NoCommand
                      /\ c \notin Pending(broker)
                      /\ broker.told[c] # "never" /\ ~Contains(broker.queue, c)
                      /\ answer # c /\ c \notin worker.inFlight /\ acts[c] = 0
                      /\ \A e \in Reports(worker, strays) : e.id # c
    BY DEF FreshOnes
  <2>1. c >= 1 /\ c \in Nat
    BY <1>7, BrokerAssumption DEF Ids
  <2>2. answer # c /\ ~(c < nextId)
    BY <1>1, <2>1
  <2>3. ~Contains(broker.queue, c) /\ broker.told[c] # "never"
    BY <1>3, <1>4, <1>9
  <2>4. c \notin worker.inFlight /\ \A e \in Reports(worker, strays) : e.id # c
    BY <1>6
  <2> QED BY <1>8, <1>9, <2>2, <2>3, <2>4
<1>12. InOrder(broker, answer, worker, acts)
  <2>1. \A i, k \in 1 .. Len(broker.queue) :
          i < k /\ Works(broker, broker.queue[i]) /\ Works(broker, broker.queue[k])
            => broker.queue[i] < broker.queue[k]
    BY <1>3, <1>4
  <2> QED BY <1>9, <2>1 DEF InOrder
<1>13. /\ ToldTruly(broker, answer, worker, acts)
       /\ Reported(broker, answer, worker, acts, Reports(worker, strays))
  BY <1>6, <1>9 DEF ToldTruly, Reported
<1>14. ActedOnce(broker, worker, acts)
  BY <1>6, <1>8 DEF ActedOnce
<1>15. Lanes(broker, worker, acts)
  BY <1>3, <1>6, <1>8, <1>9
  DEF Lanes, Lane, Ascending, HeadRuns, Chain, Follows
<1>16. Rest
  <2>1. MaxQueue \in Nat
    BY BrokerAssumption
  <2>2. Len(broker.queue) <= MaxQueue
    BY <1>3, <1>4, <2>1
  <2>3. reached \cup dropped \cup cancelled \cup excused \subseteq Stops
    BY <1>1
  <2> QED BY <1>1, <2>2, <2>3 DEF Rest
<1> QED BY <1>10, <1>11, <1>12, <1>13, <1>14, <1>15, <1>16 DEF Inv, Core

LEMMA NextInv == Inv /\ [Next]_vars => Inv'
<1> SUFFICES ASSUME Inv, [Next]_vars PROVE Inv'
  OBVIOUS
<1>1. CASE UNCHANGED vars
  BY <1>1 DEF vars, wire, stopHistory, Inv, Rest, Stops, cmds
<1>2. CASE Next
  <2>1. CASE EmptyAnswer \/ GoesOffline \/ RemoveNode \/ MainRestarts \/ NodeRestarts
    BY <2>1, EmptyAnswerStep, GoesOfflineStep, RemoveNodeStep, MainRestartsStep,
       NodeRestartsStep
  <2>2. CASE Poll \/ PollLost \/ GiveUp \/ Receive \/ PostLost
    BY <2>2, PollStep, QuietStep, GiveUpStep, ReceiveStep, PostLostStep
  <2>3. CASE \E s \in Sessions \cup {NoSession} : Dispatch(s)
    BY <2>3, DispatchStep
  <2>4. CASE \E s \in Sessions : Abort(s)
    BY <2>4, AbortStep
  <2>5. CASE \E o \in ghosts : GhostArrives(o)
    BY <2>5, GhostArrivesStep
  <2>6. CASE \E e \in strays : StrayArrives(e)
    BY <2>6, StrayArrivesStep
  <2>7. CASE \E heard \in BOOLEAN : PostResult(heard)
    BY <2>7, PostResultStep
  <2>8. CASE \E c \in Ids : Timeout(c)
    BY <2>8, TimeoutStep
  <2>9. CASE \E c \in Ids : MainClock(c) \/ NodeClock(c)
    BY <2>9, QuietStep
  <2>10. CASE \E c \in Ids : \E effect \in BOOLEAN : Start(c, effect)
    BY <2>10, StartStep
  <2>11. CASE \E c \in Ids : \E outcome \in Outcomes : Finish(c, outcome)
    BY <2>11, FinishStep
  <2> QED BY <1>2, <2>1, <2>2, <2>3, <2>4, <2>5, <2>6, <2>7, <2>8, <2>9, <2>10, <2>11
          DEF Next
<1> QED BY <1>1, <1>2

\* Every step keeps the invariant: the two ends, the wire between them and what the
\* callers were told stay in agreement, through losses, timeouts and restarts.
THEOREM Invariance == Spec => []Inv
BY InitInv, NextInv, PTL DEF Spec

-----------------------------------------------------------------------------
(***************************************************************************)
(* The theorems                                                            *)
(***************************************************************************)

\* The broker and the worker keep their types, the queue its bound and no command
\* twice; a live poll is parked on the main and has no answer under way.
THEOREM TypeCorrect == Spec => []TypeOK
<1>1. Inv => TypeOK
  <2> SUFFICES ASSUME Inv PROVE TypeOK
    OBVIOUS
  <2>1. Typed(broker, nextId, answer, worker, acts, strays) /\ Rest
    BY DEF Inv, Core
  <2> QED BY <2>1 DEF Typed, Rest, TypeOK
<1> QED BY <1>1, Invariance, PTL

\* Ordinary work takes effect at most once, whatever is lost, repeated, timed out
\* or restarted.
THEOREM AtMostOnce == Spec => []WorkAtMostOnce
<1>1. Inv => WorkAtMostOnce
  BY DEF Inv, Core, ActedOnce, WorkAtMostOnce
<1> QED BY <1>1, Invariance, PTL

\* Work whose caller heard that it used no sequence number had no effect and never
\* will.
THEOREM RejectionsHonest == Spec => []HonestRejection
<1>1. Inv => HonestRejection
  <2> SUFFICES ASSUME Inv, NEW c \in Ids, broker.told[c] = "never" PROVE acts[c] = 0
    BY DEF HonestRejection
  <2>1. /\ ToldTruly(broker, answer, worker, acts) /\ ActedOnce(broker, worker, acts)
        /\ acts \in [Ids -> Nat]
    BY DEF Inv, Core, Typed
  <2>2. CASE Works(broker, c)
    BY <2>1, <2>2 DEF ToldTruly, Seen
  <2>3. CASE ~Works(broker, c)
    BY <2>1, <2>3 DEF ActedOnce
  <2> QED BY <2>2, <2>3
<1> QED BY <1>1, Invariance, PTL

\* A command in flight is in the lane of its session, if it has one.
LEMMA LaneNotEmpty ==
    ASSUME Inv, NEW c \in worker.inFlight, Chained(broker.cmd[c])
    PROVE  LET s == broker.cmd[c].session
           IN  /\ s \in Sessions /\ Works(broker, c)
               /\ Lane(broker, worker, acts, s, worker.tails[s])
               /\ worker.tails[s] # <<>> /\ Head(worker.tails[s]) = worker.tails[s][1]
               /\ Contains(worker.tails[s], c)
<1> DEFINE s == broker.cmd[c].session
<1>1. s \in Sessions /\ Works(broker, c) /\ broker.cmd[c].session = s
  BY ControlAssumption DEF Chained, Works
<1>2. Lane(broker, worker, acts, s, worker.tails[s])
  BY <1>1 DEF Inv, Core, Lanes
<1>3. worker \in Worker /\ c \in Ids /\ c \in worker.inFlight
  BY CoreType DEF Inv
<1> HIDE DEF s
<1>4. /\ worker.tails[s] # <<>> /\ Head(worker.tails[s]) = worker.tails[s][1]
      /\ Contains(worker.tails[s], c)
  BY <1>1, <1>2, <1>3, LaneFacts
<1> QED BY <1>1, <1>2, <1>4 DEF s

LEMMA FinishedRuns ==
    ASSUME Inv, NEW c \in worker.inFlight, NEW outcome \in Outcomes,
           worker' = Finished(worker, c, broker.cmd[c], outcome)
    PROVE  worker'.running \subseteq worker.running
<1>1. /\ worker \in Worker /\ c \in Ids /\ broker \in Broker
  BY CoreType DEF Inv
<1>2. broker.cmd[c] \in Command \cup {NoCommand}
  BY <1>1 DEF Broker
<1>3. Chained(broker.cmd[c]) => worker.tails[broker.cmd[c].session] # <<>>
  BY LaneNotEmpty
<1>4. worker'.running = worker.running \ {c}
  BY <1>1, <1>2, <1>3, FinishedFacts
<1> QED BY <1>4

LEMMA ScheduledRuns ==
    ASSUME NEW w \in Worker, NEW c \in Ids, NEW cmd \in [Ids -> Command \cup {NoCommand}]
    PROVE  Scheduled(w, c, cmd).running = w.running
<1>1. CASE c \in Ids_(w.completed)
  <2> DEFINE e == Cached(w, c)
  <2>1. Scheduled(w, c, cmd) = ResultQueued(w, e)
    BY <1>1 DEF Scheduled
  <2>2. \E x \in Range(w.completed) : x.id = c
    BY <1>1 DEF Ids_, Range
  <2>3. e \in Range(w.completed) /\ w.completed \in Seq(Envelope)
    BY <2>2 DEF Cached, Worker
  <2>4. e \in Envelope
    BY <2>3, RangeFacts
  <2> HIDE DEF e
  <2> QED BY <2>1, <2>4, ResultQueuedFacts
<1>2. CASE c \notin Ids_(w.completed) /\ Scheduled(w, c, cmd) # w
  <2>1. Scheduled(w, c, cmd) = Taking(w, c, cmd[c])
    BY <1>2 DEF Scheduled, Taking
  <2> QED BY <2>1, TakingFacts
<1> QED BY <1>1, <1>2

\* Nothing but Start, of a command that has not expired, makes a command run.
LEMMA RunsOnly ==
    ASSUME Inv, [Next]_vars
    PROVE  \/ worker'.running \subseteq worker.running
           \/ \E c \in Ids, effect \in BOOLEAN : Start(c, effect) /\ c \notin nodeLate
<1>0. /\ worker \in Worker /\ broker \in Broker /\ answer \in Ids \cup {0}
      /\ worker.running \subseteq worker.inFlight
  BY CoreType DEF Inv
<1>1. CASE UNCHANGED vars
  BY <1>1 DEF vars
<1>2. CASE EmptyAnswer \/ GoesOffline \/ RemoveNode \/ MainRestarts
  BY <1>2 DEF EmptyAnswer, GoesOffline, RemoveNode, MainRestarts
<1>3. CASE Poll \/ PollLost \/ GiveUp \/ PostLost
  BY <1>3 DEF Poll, PollLost, GiveUp, PostLost
<1>4. CASE NodeRestarts
  <2>1. worker'.running = {}
    BY <1>4 DEF NodeRestarts, FreshWorker
  <2> QED BY <2>1
<1>5. CASE Receive
  <2>1. /\ worker' = Scheduled(worker, answer, broker.cmd) /\ answer \in Ids
        /\ broker.cmd \in [Ids -> Command \cup {NoCommand}]
    BY <1>0, <1>5 DEF Receive, cmds, Broker
  <2> QED BY <1>0, <2>1, ScheduledRuns
<1>6. CASE \/ \E s \in Sessions \cup {NoSession} : Dispatch(s)
           \/ \E s \in Sessions : Abort(s)
  BY <1>6 DEF Dispatch, Abort
<1>7. CASE \/ \E o \in ghosts : GhostArrives(o)
           \/ \E e \in strays : StrayArrives(e)
  BY <1>7 DEF GhostArrives, StrayArrives
<1>8. CASE \E heard \in BOOLEAN : PostResult(heard)
  <2>1. worker' = worker \/ \E e : worker' = Acknowledged(worker, e)
    BY <1>8 DEF PostResult
  <2>2. \A e : Acknowledged(worker, e).running = worker.running
    BY <1>0 DEF Acknowledged, Worker
  <2> QED BY <2>1, <2>2
<1>9. CASE \E c \in Ids : Timeout(c) \/ MainClock(c) \/ NodeClock(c)
  BY <1>9 DEF Timeout, MainClock, NodeClock
<1>10. CASE \E c \in Ids : \E effect \in BOOLEAN : Start(c, effect)
  <2>1. PICK c \in Ids, effect \in BOOLEAN : Start(c, effect)
    BY <1>10
  <2>2. CASE c \in nodeLate
    <3>1. /\ worker' = Finished(worker, c, broker.cmd[c], "expired")
          /\ c \in worker.inFlight /\ "expired" \in Outcomes
      BY <2>1, <2>2 DEF Start, cmds, Ready, Outcomes
    <3> QED BY <3>1, FinishedRuns
  <2> QED BY <2>1, <2>2
<1>11. CASE \E c \in Ids : \E outcome \in Outcomes : Finish(c, outcome)
  <2>1. PICK c \in Ids, outcome \in Outcomes : Finish(c, outcome)
    BY <1>11
  <2>2. c \in worker.inFlight /\ worker' = Finished(worker, c, broker.cmd[c], outcome)
    BY <1>0, <2>1 DEF Finish, MayFinish, cmds
  <2> QED BY <2>2, FinishedRuns
<1> QED BY <1>1, <1>2, <1>3, <1>4, <1>5, <1>6, <1>7, <1>8, <1>9, <1>10, <1>11 DEF Next

\* A session's work runs one command at a time, and no command starts after a later
\* one of its session took effect.
THEOREM SessionsInOrder == Spec => SessionInOrder
<1> DEFINE Ordered ==
      \A c, d \in Ids :
         /\ c \in worker'.running \ worker.running
         /\ cmds[c].kind = "work" /\ cmds[d].kind = "work"
         /\ cmds[c].session = cmds[d].session /\ cmds[c].session # NoSession
         => /\ d \in worker.running => d = c
            /\ acts[d] > 0 => d <= c
<1>1. Inv /\ [Next]_vars => Ordered
  <2> SUFFICES ASSUME Inv, [Next]_vars, NEW c \in Ids, NEW d \in Ids,
                      c \in worker'.running \ worker.running,
                      Works(broker, c), Works(broker, d),
                      broker.cmd[c].session = broker.cmd[d].session,
                      broker.cmd[c].session # NoSession
               PROVE  (d \in worker.running => d = c) /\ (acts[d] > 0 => d <= c)
    BY DEF cmds, Works
  <2> DEFINE s == broker.cmd[c].session
  <2>0. /\ worker \in Worker /\ broker \in Broker
        /\ worker.running \subseteq worker.inFlight
    BY CoreType DEF Inv
  <2>1. PICK x \in Ids, effect \in BOOLEAN : Start(x, effect) /\ x \notin nodeLate
    BY RunsOnly
  <2>2. worker' = Started(worker, x, effect) /\ Ready(worker, x, broker.cmd[x])
    BY <2>1 DEF Start, cmds
  <2>3. worker'.running = worker.running \cup {x}
    BY <2>0, <2>2 DEF Started, Worker
  <2>4. x = c
    BY <2>3
  <2>5. broker.cmd[c] \in Command \cup {NoCommand} /\ s \in Sessions
    BY <2>0 DEF Broker, Command, NoCommand
  <2>6. Chained(broker.cmd[c]) /\ c \in worker.inFlight /\ c = Head(worker.tails[s])
    BY <2>2, <2>4, <2>5, ControlAssumption DEF Chained, Works, Ready
  <2>7. /\ Lane(broker, worker, acts, s, worker.tails[s])
        /\ c = worker.tails[s][1] /\ Contains(worker.tails[s], c)
    BY <2>6, LaneNotEmpty
  <2>8. d \in worker.running => Contains(worker.tails[s], d)
    BY <2>0, <2>7 DEF Lane, Chain
  <2> HIDE DEF s
  <2>9. d \in worker.running => d = c
    BY <2>7, <2>8 DEF Lane, HeadRuns
  <2>10. acts[d] > 0 => d <= c
    BY <2>7 DEF Lane, Follows, s
  <2> QED BY <2>9, <2>10
<1>2. Spec => [][Ordered]_vars
  BY <1>1, Invariance, PTL DEF Spec
<1> QED BY <1>2 DEF SessionInOrder

\* Only dispatch gives a command its kind and its session.
LEMMA CommandsKept ==
    ASSUME Inv, [Next]_vars
    PROVE  \/ \E s \in Sessions \cup {NoSession} : Dispatch(s)
           \/ \E s \in Sessions : Abort(s)
           \/ cmds' = cmds
<1>0. Core(broker, nextId, answer, worker, acts, strays)
  BY DEF Inv
<1>1. CASE EmptyAnswer \/ GoesOffline
  <2>1. broker \in Broker
    BY <1>0, CoreType
  <2> QED BY <1>1, <2>1 DEF EmptyAnswer, GoesOffline, cmds, Broker
<1>2. CASE RemoveNode \/ MainRestarts
  <2>1. Removed(broker).cmd = broker.cmd /\ Closed(broker).cmd = broker.cmd
    BY DEF Removed, Closed, FreshBroker, Rejected, Unqueued, Answered
  <2> QED BY <1>2, <2>1 DEF RemoveNode, MainRestarts, cmds
<1>3. CASE UNCHANGED vars \/ NodeRestarts \/ PollLost \/ GiveUp \/ Receive \/ PostLost
  BY <1>3 DEF vars, NodeRestarts, PollLost, GiveUp, Receive, PostLost, cmds
<1>4. CASE Poll \/ \E o \in ghosts : GhostArrives(o)
  <2>1. PICK o : broker' = Polled(Pruned(broker), o)
    BY <1>4 DEF Poll, GhostArrives, HandlePoll
  <2>2. Polled(Pruned(broker), o).cmd = broker.cmd
    BY DEF Polled, Pruned, HandedOver, Unqueued, Answered
  <2> QED BY <2>1, <2>2 DEF cmds
<1>5. CASE (\E e \in strays : StrayArrives(e)) \/ \E heard \in BOOLEAN : PostResult(heard)
  <2>1. PICK e : broker' = Delivered(broker, e.id, e.outcome)
    BY <1>5 DEF StrayArrives, PostResult, HandleResult
  <2>2. Delivered(broker, e.id, e.outcome).cmd = broker.cmd
    BY DEF Delivered, Rejected, Unqueued, Answered
  <2> QED BY <2>1, <2>2 DEF cmds
<1>6. CASE \E c \in Ids : Timeout(c)
  <2>1. PICK c : broker' = TimedOut(broker, c)
    BY <1>6 DEF Timeout
  <2>2. TimedOut(broker, c).cmd = broker.cmd
    BY DEF TimedOut, Retained, Shed, Unqueued, Answered
  <2> QED BY <2>1, <2>2 DEF cmds
<1>7. CASE \E c \in Ids : MainClock(c) \/ NodeClock(c)
  BY <1>7 DEF MainClock, NodeClock, cmds
<1>8. CASE \E c \in Ids : \/ \E effect \in BOOLEAN : Start(c, effect)
                          \/ \E outcome \in Outcomes : Finish(c, outcome)
  BY <1>8 DEF Start, Finish, cmds
<1> QED BY <1>1, <1>2, <1>3, <1>4, <1>5, <1>6, <1>7, <1>8 DEF Next

\* A revocation that waits is not displaced when ordinary work is dispatched.
THEOREM StopsNotShed == Spec => WorkShedsNoStop
<1> DEFINE Kept ==
      \A c \in Ids :
         cmds[c].kind = "none" /\ cmds'[c].kind = "work"
         => \A d \in Range(broker.queue) :
              IsEnd(broker, d) => Contains(broker'.queue, d)
<1>1. Inv /\ [Next]_vars => Kept
  <2> SUFFICES ASSUME Inv, [Next]_vars, NEW c \in Ids,
                      cmds[c].kind = "none", cmds'[c].kind = "work"
               PROVE  \A d \in Range(broker.queue) :
                         IsEnd(broker, d) => Contains(broker'.queue, d)
    OBVIOUS
  <2>1. broker.queue \in Seq(Ids)
    BY CoreType DEF Inv
  <2>2. \A d \in Range(broker.queue) : d \in Ids /\ Contains(broker.queue, d)
    BY <2>1, RangeFacts
  <2>3. CASE \E s \in Sessions \cup {NoSession} : Dispatch(s)
    BY <2>2, <2>3, DispatchStep
  <2>4. CASE \E s \in Sessions : Abort(s)
    BY <2>4, AbortStep
  <2>5. CASE cmds' = cmds
    BY <2>5
  <2>6. \/ \E s \in Sessions \cup {NoSession} : Dispatch(s)
        \/ \E s \in Sessions : Abort(s)
        \/ cmds' = cmds
    BY CommandsKept
  <2> QED BY <2>3, <2>4, <2>5, <2>6
<1>2. Spec => [][Kept]_vars
  BY <1>1, Invariance, PTL DEF Spec
<1> QED BY <1>2 DEF WorkShedsNoStop

-----------------------------------------------------------------------------
(***************************************************************************)
(* No revocation is forgotten                                              *)
(***************************************************************************)
\* A revocation that has not begun at the node is in the queue, under way, at the
\* node, or has a caller whose timer will queue it again, unless one of the reasons
\* that StopArrives names has excused it.
Excused(c) == c \in reached \cup late \cup cancelled \cup excused \cup dropped
HeldBy(b, c) == Contains(b.queue, c) \/ b.pend[c] = "delivered"
StopHeld ==
    \A c \in Stops :
        Excused(c) \/ HeldBy(broker, c) \/ c = answer \/ c \in worker.inFlight

\* What waits for a poll is in the queue.
WaitingQueued(b) == \A c \in Ids : b.pend[c] = "waiting" => Contains(b.queue, c)

\* The worker has room for the revocation that its poll may bring.
RoomForStops == live \/ answer # 0 => ~EndsFull(worker, cmds)

\* A revocation that runs, or has a result, has begun.
StopReports ==
    \A c \in Stops :
        c \in worker.running \/ (\E e \in Reports(worker, strays) : e.id = c)
        => c \in reached

HInv == Inv /\ WaitingQueued(broker) /\ StopHeld /\ RoomForStops /\ StopReports

\* From b to b2 only what is in S may leave the queue or lose its caller, and no
\* one of S waits.
Keeps(b, b2, S) ==
    \A c \in Ids :
       /\ b2.pend[c] = "waiting" => b.pend[c] = "waiting" /\ c \notin S
       /\ c \notin S => /\ Contains(b.queue, c) => Contains(b2.queue, c)
                        /\ b.pend[c] = "delivered" => b2.pend[c] = "delivered"

LEMMA KeepsWaiting ==
    ASSUME NEW b, NEW b2, NEW S, Keeps(b, b2, S), WaitingQueued(b)
    PROVE  WaitingQueued(b2)
BY DEF Keeps, WaitingQueued

LEMMA KeepsReflexive ==
    ASSUME NEW b, NEW b2, b2.pend = b.pend, b2.queue = b.queue PROVE Keeps(b, b2, {})
BY DEF Keeps

LEMMA KeepsTransitive ==
    ASSUME NEW b1, NEW b2, NEW b3, NEW S, NEW T, Keeps(b1, b2, S), Keeps(b2, b3, T)
    PROVE  Keeps(b1, b3, S \cup T)
BY DEF Keeps

LEMMA KeepsBut ==
    ASSUME NEW b \in Broker, NEW f, NEW S, Answering(f), DOMAIN f = S \cap Pending(b)
    PROVE  Keeps(b, Unqueued(Answered(b, f), S), S)
<1> DEFINE b1 == Answered(b, f)
           b2 == Unqueued(b1, S)
<1>1. /\ b1 \in Broker /\ b1.queue = b.queue
      /\ \A c \in Ids : b1.pend[c] = IF c \in DOMAIN f THEN "gone" ELSE b.pend[c]
  BY AnsweredFacts
<1> HIDE DEF b1
<1>2. b2.pend = b1.pend /\ b2.queue = Without(b1.queue, S)
  BY <1>1, UnqueuedFacts
<1>3. \A c : Contains(b2.queue, c) <=> Contains(b.queue, c) /\ c \notin S
  BY <1>1, <1>2, WithoutFacts DEF Broker
<1> HIDE DEF b2
<1>4. \A c \in Ids : b2.pend[c] = IF c \in S \cap Pending(b) THEN "gone" ELSE b.pend[c]
  BY <1>1, <1>2
<1>5. Keeps(b, b2, S)
  BY <1>3, <1>4 DEF Keeps, Pending
<1> QED BY <1>5 DEF b1, b2

LEMMA RejectedKeeps ==
    ASSUME NEW b \in Broker, NEW f, Answering(f), DOMAIN f \subseteq Pending(b)
    PROVE  Keeps(b, Rejected(b, f), DOMAIN f)
<1>1. DOMAIN f = DOMAIN f \cap Pending(b)
  OBVIOUS
<1> QED BY <1>1, KeepsBut DEF Rejected

\* Shedding takes one command at most, and not a revocation at the front.
LEMMA ShedKeeps ==
    ASSUME NEW b \in Broker, IsInjective(b.queue)
    PROVE  \E S \in SUBSET Ids :
             /\ Keeps(b, Shed(b), S) /\ (IsEnd(b, b.queue[1]) => b.queue[1] \notin S)
             /\ \A c \in S : Contains(b.queue, c) /\ ~Contains(Shed(b).queue, c)
<1>0. /\ b.queue \in Seq(Ids) /\ Len(b.queue) \in Nat /\ MaxQueue \in Nat \ {0}
      /\ DOMAIN b.queue = 1 .. Len(b.queue)
  BY BrokerAssumption DEF Broker
<1>1. CASE Len(b.queue) <= MaxQueue
  <2>1. Shed(b) = b
    BY <1>1 DEF Shed
  <2>2. Keeps(b, Shed(b), {})
    BY <2>1, KeepsReflexive
  <2> QED BY <2>2
<1>2. CASE ~(Len(b.queue) <= MaxQueue)
  <2> DEFINE v == Victim(b)
             f == Never(b, {v})
  <2>1. b.queue # <<>> /\ Len(b.queue) >= 2
    BY <1>0, <1>2
  <2>2. v \in Ids /\ Contains(b.queue, v)
    BY <2>1, VictimFacts
  <2>3. Answering(f) /\ DOMAIN f = {v} \cap Pending(b)
    BY HonestFacts
  <2>4. Shed(b) = Unqueued(Answered(b, f), {v})
    BY <1>2 DEF Shed
  <2>5. IsEnd(b, b.queue[1]) => b.queue[1] # v
    <3> SUFFICES ASSUME IsEnd(b, b.queue[1]) PROVE b.queue[1] # v
      OBVIOUS
    <3>1. CASE Ordinary(b) = {}
      <4>1. v = b.queue[Len(b.queue)]
        BY <3>1 DEF Victim
      <4> DEFINE n == Len(b.queue)
      <4>2. n \in Nat /\ n >= 2 /\ b.queue # <<>>
        BY <1>0, <2>1
      <4> HIDE DEF n
      <4>3. 1 \in 1 .. n /\ n \in 1 .. n /\ 1 # n
        BY <4>2
      <4> QED BY <1>0, <4>1, <4>3 DEF IsInjective, n
    <3>2. CASE Ordinary(b) # {}
      <4>1. \E i \in 1 .. Len(b.queue) : ~IsEnd(b, b.queue[i])
        BY <1>0, <3>2 DEF Ordinary
      <4>2. ~IsEnd(b, v)
        BY <2>1, <4>1, VictimFacts
      <4> QED BY <4>2
    <3> QED BY <3>1, <3>2
  <2> HIDE DEF v, f
  <2>6. Keeps(b, Shed(b), {v})
    BY <2>3, <2>4, KeepsBut
  <2>7. Answered(b, f) \in Broker /\ Answered(b, f).queue = b.queue
    BY <2>3, AnsweredFacts
  <2>8. Shed(b).queue = Without(b.queue, {v})
    BY <2>4, <2>7, UnqueuedFacts
  <2>9. ~Contains(Shed(b).queue, v)
    BY <1>0, <2>8, WithoutFacts
  <2> QED BY <2>2, <2>5, <2>6, <2>9
<1> QED BY <1>1, <1>2

\* HandedOver, which marks a command that waits as delivered.
LEMMA HandedOverKeeps ==
    ASSUME NEW b \in Broker, NEW c \in Ids
    PROVE  /\ Keeps(b, HandedOver(b, c), {c})
           /\ c \in Pending(b) => HandedOver(b, c).pend[c] = "delivered"
<1> DEFINE b1 == Unqueued(b, {c})
           p == IF b1.pend[c] = "waiting" THEN "delivered" ELSE b1.pend[c]
           b2 == [b1 EXCEPT !.pend[c] = p]
<1>1. b2 = HandedOver(b, c)
  BY DEF HandedOver
<1>2. b1 \in Broker /\ b1.pend = b.pend /\ b1.queue = Without(b.queue, {c})
  BY UnqueuedFacts
<1> HIDE DEF b1
<1>3. \A d : Contains(b1.queue, d) <=> Contains(b.queue, d) /\ d # c
  BY <1>2, WithoutFacts DEF Broker
<1>4. p = IF b.pend[c] = "waiting" THEN "delivered" ELSE b.pend[c]
  BY <1>2
<1> HIDE DEF p
<1>5. /\ b2.queue = b1.queue /\ b2.pend[c] = p
      /\ \A d \in Ids : d # c => b2.pend[d] = b.pend[d]
  BY <1>2 DEF Broker
<1> HIDE DEF b2
<1>6. Keeps(b, b2, {c})
  BY <1>3, <1>4, <1>5 DEF Keeps
<1> QED BY <1>1, <1>4, <1>5, <1>6 DEF Pending

\* A poll takes what expired and the one it hands over.
LEMMA PolledKeeps ==
    ASSUME NEW b \in Broker, NEW only \in BOOLEAN
    PROVE  LET b2 == Polled(Pruned(b), only)
               c == Taken(b, only)
           IN  \E S \in SUBSET late :
                 /\ ~Found(b, only) => Keeps(b, b2, S)
                 /\ Found(b, only) => /\ Keeps(b, b2, S \cup {c})
                                      /\ c \in Pending(b) => b2.pend[c] = "delivered"
<1> DEFINE p == Pruned(b)
           E == Expired(p, only)
           f == Never(p, E)
           u == Unqueued(Answered(p, f), E)
           s == [u EXCEPT !.known = TRUE]
           b2 == Polled(p, only)
           c == Taken(b, only)
<1>1. /\ p \in Broker /\ p.pend = b.pend /\ p.queue = b.queue
      /\ Found(p, only) = Found(b, only) /\ Taken(p, only) = c
  BY PrunedFacts
<1>2. b2 = IF Found(p, only) THEN HandedOver(s, Taken(p, only))
           ELSE [s EXCEPT !.parked = IF only THEN "ends" ELSE "any"]
  BY DEF Polled
<1>3. Found(p, only) => Taken(p, only) \in Ids /\ Taken(p, only) \notin E
  BY <1>1, FoundFacts
<1> HIDE DEF p, b2, c
<1>4. E \subseteq late
  BY DEF Expired
<1> HIDE DEF E
<1>5. Answering(f) /\ DOMAIN f = E \cap Pending(p)
  BY <1>1, HonestFacts
<1> HIDE DEF f
<1>6. /\ Keeps(p, u, E) /\ u \in Broker
      /\ \A d \in Ids \ E : u.pend[d] = p.pend[d]
  <2>1. /\ Answered(p, f) \in Broker
        /\ \A d \in Ids \ E : Answered(p, f).pend[d] = p.pend[d]
    BY <1>1, <1>5, AnsweredFacts
  <2> QED BY <1>1, <1>5, <2>1, KeepsBut, UnqueuedFacts
<1> HIDE DEF u
<1>7. s \in Broker /\ s.pend = u.pend /\ s.queue = u.queue
  BY <1>6 DEF Broker
<1> HIDE DEF s
<1>8. Keeps(b, s, E)
  BY <1>1, <1>6, <1>7 DEF Keeps
<1>9. CASE ~Found(b, only)
  <2>1. ~Found(p, only)
    BY <1>1, <1>9, Zenon
  <2>2. b2.pend = s.pend /\ b2.queue = s.queue
    BY <1>2, <1>7, <2>1 DEF Broker
  <2>3. Keeps(b, b2, E)
    BY <1>8, <2>2 DEF Keeps
  <2> QED BY <1>4, <1>9, <2>3 DEF p, b2
<1>10. CASE Found(b, only)
  <2>1. Found(p, only)
    BY <1>1, <1>10, Zenon
  <2>2. b2 = HandedOver(s, c) /\ c \in Ids /\ c \notin E
    BY <1>1, <1>2, <1>3, <2>1
  <2>3. Keeps(s, b2, {c}) /\ (c \in Pending(s) => b2.pend[c] = "delivered")
    BY <1>7, <2>2, HandedOverKeeps
  <2>4. Keeps(b, b2, E \cup {c})
    BY <1>8, <2>3, KeepsTransitive
  <2>5. c \in Pending(b) => b2.pend[c] = "delivered"
    BY <1>1, <1>6, <1>7, <2>2, <2>3 DEF Pending
  <2> QED BY <1>4, <1>10, <2>4, <2>5 DEF p, b2, c
<1> QED BY <1>9, <1>10

\* A result settles its caller and takes the command off the queue.
LEMMA DeliveredKeeps ==
    ASSUME NEW b \in Broker, NEW c \in Ids, NEW outcome \in Outcomes, WaitingQueued(b)
    PROVE  /\ WaitingQueued(Delivered(b, c, outcome)) 
           /\ Keeps(b, Delivered(b, c, outcome), {c})
<1> DEFINE b2 == Delivered(b, c, outcome)
<1>1. CASE c \in Pending(b)
  <2> DEFINE f == [x \in {c} |-> Said(outcome)]
  <2>1. Answering(f) /\ DOMAIN f = {c}
    BY DEF Said, Outcomes, Answers, Answering
  <2>2. b2 = Rejected(b, f)
    BY <1>1 DEF Delivered
  <2> HIDE DEF f
  <2>3. Keeps(b, b2, {c})
    BY <1>1, <2>1, <2>2, RejectedKeeps
  <2> QED BY <2>3, KeepsWaiting
<1>2. CASE c \notin Pending(b) /\ c \in b.settled
  <2>1. b2 = Unqueued(b, {c})
    BY <1>2 DEF Delivered
  <2>2. b2.pend = b.pend /\ b2.queue = Without(b.queue, {c})
    BY <2>1, UnqueuedFacts
  <2>3. \A d : Contains(b2.queue, d) <=> Contains(b.queue, d) /\ d # c
    BY <2>2, WithoutFacts DEF Broker
  <2>4. Keeps(b, b2, {c})
    BY <1>2, <2>2, <2>3 DEF Keeps, Pending
  <2> QED BY <2>4, KeepsWaiting
<1>3. CASE c \notin Pending(b) /\ c \notin b.settled
  <2>1. b2 = b
    BY <1>3 DEF Delivered
  <2>2. Keeps(b, b2, {c})
    BY <1>3, <2>1 DEF Keeps, Pending
  <2> QED BY <2>2, KeepsWaiting
<1> QED BY <1>1, <1>2, <1>3

\* What the queue sheds.
Sheds(b, b2, d) == Contains(b.queue, d) /\ ~Contains(b2.queue, d)

\* The timer of a revocation queues it again, whatever that sheds.
LEMMA TimedOutKeeps ==
    ASSUME NEW b \in Broker, NEW c \in Pending(b), IsInjective(b.queue), WaitingQueued(b)
    PROVE  LET b2 == TimedOut(b, c)
           IN  /\ WaitingQueued(b2)
               /\ \A d \in Ids : IsEnd(b, d) /\ HeldBy(b, d) =>
                                   HeldBy(b2, d) \/ Sheds(b, b2, d)
<1> DEFINE f == Honest(b, {c})
           b2 == TimedOut(b, c)
<1>0. b.queue \in Seq(Ids) /\ c \in Ids
  BY DEF Broker, Pending
<1>1. Answering(f) /\ DOMAIN f = {c}
  <2>1. Answering(f) /\ DOMAIN f = {c} \cap Pending(b)
    BY HonestFacts
  <2> QED BY <2>1
<1> HIDE DEF f
<1>2. CASE ~IsEnd(b, c)
  <2> DEFINE u == Unqueued(b, {c})
  <2>1. b2 = Answered(u, f)
    BY <1>2 DEF TimedOut, f
  <2>2. u \in Broker /\ u.pend = b.pend /\ u.queue = Without(b.queue, {c})
    BY UnqueuedFacts
  <2> HIDE DEF u
  <2>3. /\ b2.queue = u.queue
        /\ \A d \in Ids : b2.pend[d] = IF d = c THEN "gone" ELSE b.pend[d]
    BY <1>1, <2>1, <2>2, AnsweredFacts
  <2>4. \A d : Contains(u.queue, d) <=> Contains(b.queue, d) /\ d # c
    BY <1>0, <2>2, WithoutFacts
  <2> HIDE DEF b2
  <2> QED BY <1>2, <2>3, <2>4 DEF WaitingQueued, HeldBy, b2
<1>3. CASE IsEnd(b, c)
  <2> DEFINE k == Retained(b, c)
  <2>1. b2 = Answered(k, f)
    BY <1>3 DEF TimedOut, f
  <2>2. /\ k \in Broker /\ WaitingQueued(k) /\ Contains(k.queue, c)
        /\ \A d \in Ids : HeldBy(b, d) => HeldBy(k, d) \/ Sheds(b, k, d)
    <3>1. CASE Contains(b.queue, c)
      BY <3>1 DEF Retained
    <3>2. CASE ~Contains(b.queue, c)
      <4> DEFINE q == <<c>> \o b.queue
                 r == [b EXCEPT !.queue = q]
      <4>1. /\ q \in Seq(Ids) /\ IsInjective(q) /\ q[1] = c
            /\ \A d : Contains(q, d) <=> d = c \/ Contains(b.queue, d)
        BY <1>0, <3>2, PushFacts
      <4>2. k = Shed(r)
        BY <3>2 DEF Retained
      <4> HIDE DEF q, k
      <4>3. r \in Broker /\ r.queue = q /\ r.pend = b.pend /\ r.cmd = b.cmd
        BY <4>1 DEF Broker
      <4> HIDE DEF r
      <4>4. WaitingQueued(r) /\ IsEnd(r, c)
        BY <1>3, <4>1, <4>3 DEF WaitingQueued, IsEnd
      <4>5. PICK S \in SUBSET Ids :
              /\ Keeps(r, k, S) /\ (IsEnd(r, r.queue[1]) => r.queue[1] \notin S)
              /\ \A d \in S : Contains(r.queue, d) /\ ~Contains(k.queue, d)
        <5>1. IsInjective(r.queue)
          BY <4>1, <4>3
        <5> QED BY <4>2, <4>3, <5>1, ShedKeeps
      <4>6. c \notin S
        BY <4>1, <4>3, <4>4, <4>5
      <4>7. WaitingQueued(k) /\ k \in Broker
        BY <4>2, <4>3, <4>4, <4>5, KeepsWaiting, ShedFacts DEF Settles
      <4>8. Contains(k.queue, c)
        BY <1>0, <4>1, <4>3, <4>5, <4>6 DEF Keeps
      <4>9. ASSUME NEW d \in Ids, HeldBy(b, d) PROVE HeldBy(k, d) \/ Sheds(b, k, d)
        <5>1. CASE d \in S
          BY <4>1, <4>3, <4>5, <4>6, <5>1 DEF Sheds
        <5>2. CASE d \notin S
          BY <4>1, <4>3, <4>5, <4>9, <5>2 DEF Keeps, HeldBy
        <5> QED BY <5>1, <5>2
      <4> QED BY <4>7, <4>8, <4>9
    <3> QED BY <3>1, <3>2
  <2> HIDE DEF k
  <2>3. /\ b2.queue = k.queue
        /\ \A d \in Ids : b2.pend[d] = IF d = c THEN "gone" ELSE k.pend[d]
    BY <1>1, <2>1, <2>2, AnsweredFacts
  <2> HIDE DEF b2
  <2>4. WaitingQueued(b2)
    BY <2>2, <2>3 DEF WaitingQueued
  <2>5. ASSUME NEW d \in Ids, HeldBy(b, d) PROVE HeldBy(b2, d) \/ Sheds(b, b2, d)
    BY <2>2, <2>3, <2>5 DEF HeldBy, Sheds
  <2> QED BY <2>4, <2>5 DEF b2
<1> QED BY <1>2, <1>3

\* A revocation dispatched is queued or handed over, whatever that sheds.
LEMMA DispatchedKeeps ==
    ASSUME NEW b \in Broker, NEW n \in Ids, NEW cmd \in Command, IsInjective(b.queue),
           ~Contains(b.queue, n), WaitingQueued(b)
    PROVE  LET b2 == Dispatched(b, n, cmd)
           IN  /\ WaitingQueued(b2) /\ b2.cmd = [b.cmd EXCEPT ![n] = cmd]
               /\ cmd.kind = "end" => HeldBy(b2, n)
               /\ \A d \in Ids \ {n} : HeldBy(b, d) => HeldBy(b2, d) \/ Sheds(b, b2, d)
<1> DEFINE b2 == Dispatched(b, n, cmd)
<1>0. b.queue \in Seq(Ids)
  BY DEF Broker
<1>1. b2.cmd = [b.cmd EXCEPT ![n] = cmd]
  BY DEF Dispatched, Shed, Unqueued, Answered
<1>2. CASE Accepts(b.parked, cmd)
  <2> DEFINE a == Along(b, n, cmd)
  <2>1. b2 = a
    BY <1>2, DispatchedIs
  <2>2. /\ a.queue = b.queue /\ a.pend[n] = "delivered"
        /\ \A d \in Ids \ {n} : a.pend[d] = b.pend[d]
    BY AlongFacts
  <2> HIDE DEF a, b2
  <2> QED BY <1>1, <2>1, <2>2 DEF b2, WaitingQueued, HeldBy
<1>3. CASE ~Accepts(b.parked, cmd)
  <2> DEFINE a == Waiting(b, n, cmd)
  <2>1. b2 = Shed(a)
    BY <1>3, DispatchedIs
  <2>2. /\ a \in Broker /\ a.cmd[n] = cmd /\ a.pend[n] = "waiting"
        /\ a.queue = IF cmd.kind = "end" THEN <<n>> \o b.queue ELSE Append(b.queue, n)
        /\ \A d \in Ids \ {n} : a.pend[d] = b.pend[d]
    BY WaitingFacts
  <2> HIDE DEF a, b2
  <2>3. /\ IsInjective(a.queue) /\ (cmd.kind = "end" => a.queue[1] = n)
        /\ \A d : Contains(a.queue, d) <=> d = n \/ Contains(b.queue, d)
    BY <1>0, <2>2, PushFacts, AppendFacts
  <2>4. WaitingQueued(a)
    BY <2>2, <2>3 DEF WaitingQueued
  <2>5. PICK S \in SUBSET Ids :
          /\ Keeps(a, b2, S) /\ (IsEnd(a, a.queue[1]) => a.queue[1] \notin S)
          /\ \A d \in S : Contains(a.queue, d) /\ ~Contains(b2.queue, d)
    BY <2>1, <2>2, <2>3, ShedKeeps
  <2>6. WaitingQueued(b2)
    BY <2>4, <2>5, KeepsWaiting
  <2>7. ASSUME cmd.kind = "end" PROVE HeldBy(b2, n)
    <3>1. n \notin S
      BY <2>2, <2>3, <2>5, <2>7 DEF IsEnd
    <3> QED BY <2>3, <2>5, <3>1 DEF Keeps, HeldBy
  <2>8. ASSUME NEW d \in Ids \ {n}, HeldBy(b, d) PROVE HeldBy(b2, d) \/ Sheds(b, b2, d)
    <3>1. CASE d \in S
      BY <2>3, <2>5, <3>1 DEF Sheds
    <3>2. CASE d \notin S
      BY <2>2, <2>3, <2>5, <2>8, <3>2 DEF Keeps, HeldBy
    <3> QED BY <3>1, <3>2
  <2> QED BY <1>1, <2>6, <2>7, <2>8 DEF b2
<1> QED BY <1>2, <1>3

\* Every caller is answered, and the queue emptied, when the node or the main goes.
LEMMA GoneKeeps ==
    ASSUME NEW b \in Broker PROVE WaitingQueued(Removed(b)) /\ WaitingQueued(Closed(b))
<1> DEFINE f == [c \in Pending(b) |-> "gone"]
           b1 == Rejected(b, f)
<1>1. Answering(f) /\ DOMAIN f = Pending(b)
  BY DEF Answering, Answers, Pending
<1>2. Removed(b).pend = b1.pend /\ Closed(b).pend = b1.pend
  BY DEF Removed, Closed, FreshBroker, Rejected, Unqueued, Answered
<1> HIDE DEF f
<1>3. Keeps(b, b1, Pending(b))
  BY <1>1, RejectedKeeps
<1> HIDE DEF b1
<1>4. \A c \in Ids : b1.pend[c] # "waiting"
  BY <1>3 DEF Keeps, Pending
<1> QED BY <1>2, <1>4 DEF WaitingQueued

LEMMA CancelledKeeps ==
    ASSUME NEW b \in Broker, NEW s
    PROVE  Keeps(b, Cancelled(b, s), OfSession(b, s))
<1>1. /\ Answering(Honest(b, OfSession(b, s)))
      /\ DOMAIN Honest(b, OfSession(b, s)) = OfSession(b, s)
  BY HonestFacts DEF OfSession
<1> QED BY <1>1, RejectedKeeps DEF Cancelled, OfSession

LEMMA RoomKept ==
    ASSUME NEW w, NEW w2, NEW cm, NEW cm2, w.inFlight \subseteq Ids,
           w2.inFlight \subseteq w.inFlight, \A c \in w.inFlight : cm2[c] = cm[c],
           ~EndsFull(w, cm)
    PROVE  ~EndsFull(w2, cm2)
<1>1. IsFiniteSet(Ids)
  BY BrokerAssumption, FS_Interval DEF Ids
<1>2. EndsIn(w2, cm2) \subseteq EndsIn(w, cm) /\ EndsIn(w, cm) \subseteq Ids
  BY DEF EndsIn
<1>3. IsFiniteSet(EndsIn(w, cm)) /\ IsFiniteSet(EndsIn(w2, cm2))
  BY <1>1, <1>2, FS_Subset
<1>4. Cardinality(EndsIn(w2, cm2)) <= Cardinality(EndsIn(w, cm))
  BY <1>2, <1>3, FS_Subset
<1>5. /\ Cardinality(EndsIn(w2, cm2)) \in Nat /\ Cardinality(EndsIn(w, cm)) \in Nat
      /\ MaxEnds \in Nat
  BY <1>3, FS_CardinalityType, WorkerAssumption
<1> QED BY <1>4, <1>5 DEF EndsFull

\* What may happen while no command comes to the worker or leaves it.
LEMMA MainHolds ==
    ASSUME HInv, Inv', WaitingQueued(broker'), UNCHANGED <<cmds, reached>>,
           worker'.inFlight = worker.inFlight, worker'.running = worker.running,
           Reports(worker', strays') \subseteq Reports(worker, strays),
           \A c \in Stops : Excused(c) => Excused(c)',
           \A c \in Stops : HeldBy(broker, c) \/ c = answer =>
              Excused(c)' \/ HeldBy(broker', c) \/ c = answer',
           live' \/ answer' # 0 => live \/ answer # 0 \/ ~EndsFull(worker, cmds)
    PROVE  HInv'
<1>1. Stops' = Stops /\ EndsFull(worker', cmds') = EndsFull(worker, cmds)
  BY DEF Stops, EndsFull, EndsIn
<1>2. StopHeld'
  BY <1>1 DEF HInv, StopHeld
<1>3. RoomForStops'
  BY <1>1 DEF HInv, RoomForStops
<1>4. StopReports'
  BY <1>1 DEF HInv, StopReports
<1> QED BY <1>2, <1>3, <1>4 DEF HInv

LEMMA HInvType ==
    ASSUME HInv
    PROVE  /\ broker \in Broker /\ IsInjective(broker.queue) /\ broker.queue \in Seq(Ids)
           /\ Core(broker, nextId, answer, worker, acts, strays) /\ Rest
<1>1. Core(broker, nextId, answer, worker, acts, strays) /\ Rest
  BY DEF HInv, Inv
<1>2. IsInjective(broker.queue)
  BY <1>1 DEF Core, Typed
<1> QED BY <1>1, <1>2, CoreType

LEMMA QuietHolds ==
    ASSUME HInv, Inv', PollLost \/ PostLost \/ \E c \in Ids : MainClock(c) \/ NodeClock(c)
    PROVE  HInv'
<1>1. /\ UNCHANGED <<broker, worker, live, answer, reached, cancelled, excused, dropped>>
      /\ late \subseteq late'
  BY DEF PollLost, PostLost, MainClock, NodeClock, wire, stopHistory
<1>2. WaitingQueued(broker') /\ UNCHANGED cmds
  BY <1>1 DEF HInv, cmds
<1>3. Reports(worker, strays') \subseteq Reports(worker, strays)
  <2>1. CASE PostLost
    <3>1. worker.results # <<>> /\ strays' = strays \cup {Head(worker.results)}
      BY <2>1 DEF PostLost
    <3>2. worker.results \in Seq(Envelope)
      BY CoreType DEF HInv, Inv
    <3>3. Head(worker.results) \in Range(worker.results)
      BY <3>1, <3>2, TailFacts
    <3> QED BY <3>1, <3>3 DEF Reports
  <2>2. CASE ~PostLost
    BY <2>2 DEF PollLost, MainClock, NodeClock, wire, Reports
  <2> QED BY <2>1, <2>2
<1>4. \A c : Excused(c) => Excused(c)'
  BY <1>1 DEF Excused
<1> QED BY <1>1, <1>2, <1>3, <1>4, MainHolds

LEMMA SilenceHolds ==
    ASSUME HInv, Inv', EmptyAnswer \/ GoesOffline
    PROVE  HInv'
<1>0. broker \in Broker
  BY CoreType DEF HInv, Inv
<1>1. broker'.cmd = broker.cmd /\ broker'.pend = broker.pend /\ broker'.queue = broker.queue
  BY <1>0 DEF EmptyAnswer, GoesOffline, Broker
<1>2. /\ UNCHANGED <<worker, answer, strays, reached, late, cancelled, excused, dropped>>
      /\ live' => live
  BY DEF EmptyAnswer, GoesOffline, wire, stopHistory
<1>3. WaitingQueued(broker') /\ UNCHANGED cmds
  BY <1>1 DEF HInv, cmds, WaitingQueued
<1>4. \A c \in Stops : HeldBy(broker, c) => HeldBy(broker', c)
  BY <1>1 DEF HeldBy
<1>5. \A c : Excused(c) => Excused(c)'
  BY <1>2 DEF Excused
<1> QED BY <1>2, <1>3, <1>4, <1>5, MainHolds

LEMMA EndOfAllHolds ==
    ASSUME HInv, Inv', RemoveNode \/ MainRestarts
    PROVE  HInv'
<1>0. broker \in Broker
  BY CoreType DEF HInv, Inv
<1>1. broker' = Removed(broker) \/ broker' = Closed(broker)
  BY DEF RemoveNode, MainRestarts
<1>2. WaitingQueued(broker')
  BY <1>0, <1>1, GoneKeeps
<1>3. broker'.cmd = broker.cmd
  BY <1>0, <1>1, RemovedFacts, ClosedFacts DEF Settles
<1>4. /\ UNCHANGED <<worker, strays, reached>> /\ live' = FALSE /\ answer' \in {0, answer}
      /\ excused' = Stops
  BY DEF RemoveNode, MainRestarts
<1>5. \A c \in Stops : Excused(c)'
  BY <1>4 DEF Excused
<1> QED BY <1>2, <1>3, <1>4, <1>5, MainHolds DEF cmds

LEMMA TimeoutHolds ==
    ASSUME HInv, Inv', NEW c \in Ids, Timeout(c)
    PROVE  HInv'
<1>0. broker \in Broker /\ IsInjective(broker.queue) /\ broker.queue \in Seq(Ids)
  BY HInvType
<1>1. /\ c \in Pending(broker) /\ broker' = TimedOut(broker, c)
      /\ excused' = excused \cup ShedBy(broker')
      /\ UNCHANGED <<late, worker, live, answer, strays, reached, dropped, cancelled>>
  BY DEF Timeout, wire
<1>2. /\ WaitingQueued(broker')
      /\ \A d \in Ids : IsEnd(broker, d) /\ HeldBy(broker, d) =>
                          HeldBy(broker', d) \/ Sheds(broker, broker', d)
  BY <1>0, <1>1, TimedOutKeeps DEF HInv
<1>3. broker'.cmd = broker.cmd
  <2>1. TimedOut(broker, c).cmd = broker.cmd
    BY DEF TimedOut, Retained, Shed, Unqueued, Answered
  <2> QED BY <1>1, <2>1
<1>4. \A d \in Stops : HeldBy(broker, d) => HeldBy(broker', d) \/ Excused(d)'
  <2> SUFFICES ASSUME NEW d \in Stops, Sheds(broker, broker', d) PROVE Excused(d)'
    BY <1>2 DEF Stops, cmds, IsEnd
  <2>1. d \in Range(broker.queue) /\ IsEnd(broker, d)
    BY <1>0, RangeFacts DEF Sheds, Stops, cmds, IsEnd
  <2>2. d \in ShedBy(broker')
    BY <1>3, <2>1 DEF ShedBy, Sheds, IsEnd
  <2> QED BY <1>1, <2>2 DEF Excused
<1>5. \A d : Excused(d) => Excused(d)'
  BY <1>1 DEF Excused
<1> QED BY <1>1, <1>2, <1>3, <1>4, <1>5, MainHolds DEF cmds

LEMMA PollHolds ==
    ASSUME HInv, Inv', NEW only \in BOOLEAN, HandlePoll(only),
           UNCHANGED <<late, worker, strays, reached, cancelled, excused>>,
           dropped \subseteq dropped',
           live' \/ answer' # 0 => live \/ answer # 0 \/ ~EndsFull(worker, cmds),
           \A c \in Stops : c = answer => c = answer',
           Found(broker, only) => LET c == Taken(broker, only) IN
              c \in Stops /\ c \notin Pending(broker) => c = answer' \/ c \in dropped'
    PROVE  HInv'
<1>0. broker \in Broker
  BY HInvType
<1> DEFINE t == Taken(broker, only)
           f == Found(broker, only)
<1>1. PICK S \in SUBSET late :
        /\ ~f => Keeps(broker, broker', S)
        /\ f => /\ Keeps(broker, broker', S \cup {t})
                /\ t \in Pending(broker) => broker'.pend[t] = "delivered"
  BY <1>0, PolledKeeps DEF HandlePoll
<1>2. broker'.cmd = broker.cmd
  BY <1>0, PolledFacts DEF HandlePoll, Settles
<1>3. f => (t \in Stops /\ t \notin Pending(broker) => t = answer' \/ t \in dropped')
  OBVIOUS
<1> HIDE DEF t, f
<1>4. WaitingQueued(broker')
  BY <1>1, KeepsWaiting DEF HInv
<1>5. \A c \in Stops : HeldBy(broker, c) => Excused(c)' \/ HeldBy(broker', c) \/ c = answer'
  <2> SUFFICES ASSUME NEW c \in Stops, HeldBy(broker, c)
               PROVE  Excused(c)' \/ HeldBy(broker', c) \/ c = answer'
    OBVIOUS
  <2>0. c \in Ids
    BY DEF Stops
  <2>1. CASE c \in S
    BY <2>1 DEF Excused
  <2>2. CASE f /\ c = t
    BY <1>1, <1>3, <2>2 DEF Excused, HeldBy
  <2>3. CASE c \notin S /\ ~(f /\ c = t)
    BY <1>1, <2>0, <2>3 DEF Keeps, HeldBy
  <2> QED BY <2>1, <2>2, <2>3
<1>6. \A c : Excused(c) => Excused(c)'
  BY DEF Excused
<1> QED BY <1>2, <1>4, <1>5, <1>6, MainHolds DEF cmds

LEMMA PollsHold ==
    ASSUME HInv, Inv', Poll \/ \E o \in ghosts : GhostArrives(o)
    PROVE  HInv'
<1>0. ghosts \subseteq BOOLEAN /\ broker \in Broker
  BY HInvType DEF Rest
<1>1. CASE Poll
  <2> DEFINE o == RevocationsOnly(worker, cmds)
  <2>1. o \in BOOLEAN
    BY DEF RevocationsOnly
  <2>2. /\ HandlePoll(o) /\ answer = 0 /\ ~EndsFull(worker, cmds)
        /\ Found(broker, o) => answer' = Taken(broker, o)
        /\ UNCHANGED <<late, worker, strays, reached, cancelled, excused, dropped>>
    BY <1>1 DEF Poll, Idle, MayPoll, stopHistory
  <2>3. \A c \in Stops : c # 0
    BY BrokerAssumption DEF Stops, Ids
  <2> HIDE DEF o
  <2> QED BY <2>1, <2>2, <2>3, PollHolds
<1>2. CASE \E o \in ghosts : GhostArrives(o)
  <2>1. PICK o \in ghosts : GhostArrives(o)
    BY <1>2
  <2>2. /\ HandlePoll(o) /\ o \in BOOLEAN /\ answer' = answer /\ (live' => live)
        /\ Dropped(IF Found(broker, o) THEN {Taken(broker, o)} ELSE {})
        /\ UNCHANGED <<late, worker, strays, reached, cancelled, excused>>
    BY <1>0, <2>1 DEF GhostArrives
  <2>3. dropped \subseteq dropped'
    BY <2>2 DEF Dropped
  <2>4. ASSUME Found(broker, o), Taken(broker, o) \in Stops,
               Taken(broker, o) \notin Pending(broker)
        PROVE  Taken(broker, o) \in dropped'
    <3>1. ~Contains(broker'.queue, Taken(broker, o))
      BY <1>0, <2>2, <2>4, PolledFacts DEF HandlePoll
    <3> QED BY <2>2, <2>4, <3>1 DEF Dropped
  <2> QED BY <2>2, <2>3, <2>4, PollHolds
<1> QED BY <1>1, <1>2

LEMMA GiveUpHolds ==
    ASSUME HInv, Inv', GiveUp
    PROVE  HInv'
<1>1. /\ UNCHANGED <<broker, worker, late, strays, reached, cancelled, excused>>
      /\ live' = FALSE /\ answer' = 0 /\ Dropped({answer})
  BY DEF GiveUp
<1>2. WaitingQueued(broker') /\ UNCHANGED cmds
  BY <1>1 DEF HInv, cmds
<1>3. \A c : Excused(c) => Excused(c)'
  BY <1>1 DEF Excused, Dropped
<1>4. ASSUME NEW c \in Stops, c = answer PROVE Excused(c)' \/ HeldBy(broker, c)
  <2>1. CASE c \in Pending(broker)
    BY <2>1 DEF HInv, WaitingQueued, HeldBy, Pending
  <2>2. CASE c \notin Pending(broker) /\ ~Contains(broker.queue, c)
    <3>1. c \in dropped'
      BY <1>1, <1>4, <2>2 DEF Dropped
    <3> QED BY <3>1 DEF Excused
  <2> QED BY <2>1, <2>2 DEF HeldBy
<1>5. \A c \in Stops : HeldBy(broker, c) => HeldBy(broker', c)
  BY <1>1
<1> QED BY <1>1, <1>2, <1>3, <1>4, <1>5, MainHolds

LEMMA ResultHolds ==
    ASSUME HInv, Inv', NEW e \in Reports(worker, strays), HandleResult(e),
           UNCHANGED <<late, reached, cancelled, excused, dropped, live, answer>>
    PROVE  /\ WaitingQueued(broker') /\ UNCHANGED cmds
           /\ \A c \in Stops : Excused(c) => Excused(c)'
           /\ \A c \in Stops : HeldBy(broker, c) => Excused(c)' \/ HeldBy(broker', c)
<1>0. broker \in Broker /\ e.id \in Ids /\ e.outcome \in Outcomes
  BY HInvType, CoreType, ReportsTyped
<1>1. broker' = Delivered(broker, e.id, e.outcome)
  BY DEF HandleResult
<1>2. WaitingQueued(broker') /\ Keeps(broker, broker', {e.id})
  BY <1>0, <1>1, DeliveredKeeps DEF HInv
<1>3. broker'.cmd = broker.cmd
  BY <1>0, <1>1, DeliveredFacts DEF Settles
<1>4. e.id \in Stops => e.id \in reached
  BY DEF HInv, StopReports
<1>5. \A c \in Stops : c # e.id /\ HeldBy(broker, c) => HeldBy(broker', c)
  BY <1>2 DEF Keeps, HeldBy, Stops
<1> QED BY <1>2, <1>3, <1>4, <1>5 DEF Excused, cmds

LEMMA StrayArrivesHolds ==
    ASSUME HInv, Inv', NEW e \in strays, StrayArrives(e)
    PROVE  HInv'
<1>1. /\ HandleResult(e) /\ strays' = strays \ {e}
      /\ UNCHANGED <<late, worker, reached, cancelled, excused, dropped, live, answer>>
  BY DEF StrayArrives
<1>2. e \in Reports(worker, strays) /\ Reports(worker, strays') \subseteq Reports(worker, strays)
  BY <1>1 DEF Reports
<1>3. /\ WaitingQueued(broker') /\ UNCHANGED cmds
      /\ \A c \in Stops : Excused(c) => Excused(c)'
      /\ \A c \in Stops : HeldBy(broker, c) => Excused(c)' \/ HeldBy(broker', c)
  BY <1>1, <1>2, ResultHolds
<1> QED BY <1>1, <1>2, <1>3, MainHolds

LEMMA PostResultHolds ==
    ASSUME HInv, Inv', NEW heard \in BOOLEAN, PostResult(heard)
    PROVE  HInv'
<1> DEFINE e == Head(worker.results)
<1>1. /\ worker.results # <<>> /\ HandleResult(e)
      /\ worker' = worker \/ worker' = Acknowledged(worker, e)
      /\ UNCHANGED <<late, strays, reached, cancelled, excused, dropped, live, answer>>
  BY DEF PostResult, wire
<1>2. worker \in Worker /\ worker.results \in Seq(Envelope)
  BY HInvType, CoreType
<1>3. e \in Reports(worker, strays) /\ Range(Tail(worker.results)) \subseteq Range(worker.results)
  BY <1>1, <1>2, TailFacts DEF Reports
<1> HIDE DEF e
<1>4. /\ WaitingQueued(broker') /\ UNCHANGED cmds
      /\ \A c \in Stops : Excused(c) => Excused(c)'
      /\ \A c \in Stops : HeldBy(broker, c) => Excused(c)' \/ HeldBy(broker', c)
  BY <1>1, <1>3, ResultHolds
<1>5. /\ worker'.inFlight = worker.inFlight /\ worker'.running = worker.running
      /\ worker'.completed = worker.completed
      /\ Range(worker'.results) \subseteq Range(worker.results)
  BY <1>1, <1>2, <1>3 DEF Acknowledged, Worker
<1>6. Reports(worker', strays') \subseteq Reports(worker, strays)
  BY <1>1, <1>5 DEF Reports
<1> QED BY <1>1, <1>4, <1>5, <1>6, MainHolds

LEMMA ScheduledHolds ==
    ASSUME NEW w \in Worker, NEW c \in Ids, NEW cm \in [Ids -> Command \cup {NoCommand}],
           NEW st
    PROVE  LET w2 == Scheduled(w, c, cm)
           IN  /\ w.inFlight \subseteq w2.inFlight
               /\ Reports(w2, st) \subseteq Reports(w, st)
               /\ \/ c \in w2.inFlight \/ (cm[c].kind = "end" /\ EndsFull(w, cm))
                  \/ \E e \in Reports(w, st) : e.id = c
<1> DEFINE w2 == Scheduled(w, c, cm)
<1>1. CASE c \in Ids_(w.completed)
  <2> DEFINE e == Cached(w, c)
  <2>1. w2 = ResultQueued(w, e)
    BY <1>1 DEF Scheduled
  <2>2. \E x \in Range(w.completed) : x.id = c
    BY <1>1 DEF Ids_, Range
  <2>3. e \in Range(w.completed) /\ w.completed \in Seq(Envelope)
    BY <2>2 DEF Cached, Worker
  <2>4. e \in Envelope
    BY <2>3, RangeFacts
  <2> HIDE DEF e, w2
  <2>5. /\ w2.inFlight = w.inFlight /\ w2.completed = w.completed
        /\ Range(w2.results) \subseteq Range(w.results) \cup {e}
    BY <2>1, <2>4, ResultQueuedFacts
  <2> QED BY <2>2, <2>3, <2>5 DEF Reports, w2
<1>2. CASE /\ c \notin Ids_(w.completed)
           /\ c \in w.inFlight \/ (cm[c].kind = "end" /\ EndsFull(w, cm))
  <2>1. w2 = w
    BY <1>2 DEF Scheduled
  <2> QED BY <1>2, <2>1
<1>3. CASE /\ c \notin Ids_(w.completed)
           /\ ~(c \in w.inFlight \/ (cm[c].kind = "end" /\ EndsFull(w, cm)))
  <2>1. w2 = Taking(w, c, cm[c])
    BY <1>3 DEF Scheduled, Taking
  <2>2. /\ w2.inFlight = w.inFlight \cup {c}
        /\ w2.completed = w.completed /\ w2.results = w.results
    BY <2>1, TakingFacts
  <2> HIDE DEF w2
  <2> QED BY <2>2 DEF Reports, w2
<1> QED BY <1>1, <1>2, <1>3

LEMMA ReceiveHolds ==
    ASSUME HInv, Inv', Receive
    PROVE  HInv'
<1>1. /\ answer # 0 /\ answer' = 0 /\ worker' = Scheduled(worker, answer, cmds)
      /\ UNCHANGED <<broker, live, strays, late, reached, cancelled, excused, dropped>>
  BY DEF Receive, stopHistory
<1>2. /\ worker \in Worker /\ answer \in Ids /\ cmds \in [Ids -> Command \cup {NoCommand}]
  BY <1>1, HInvType, CoreType DEF cmds, Broker
<1>3. /\ worker.inFlight \subseteq worker'.inFlight
      /\ Reports(worker', strays) \subseteq Reports(worker, strays)
      /\ \/ answer \in worker'.inFlight
         \/ cmds[answer].kind = "end" /\ EndsFull(worker, cmds)
         \/ \E e \in Reports(worker, strays) : e.id = answer
      /\ worker'.running = worker.running
  BY <1>1, <1>2, ScheduledHolds, ScheduledRuns
<1>4. Stops' = Stops /\ cmds' = cmds
  BY <1>1 DEF Stops, cmds
<1>5. ~EndsFull(worker, cmds) /\ ~live
  BY <1>1, HInvType DEF HInv, RoomForStops, Rest
<1>6. StopHeld'
  <2> SUFFICES ASSUME NEW c \in Stops
               PROVE  Excused(c)' \/ HeldBy(broker', c) \/ c \in worker'.inFlight
    BY <1>4 DEF StopHeld
  <2>1. c = answer => c \in worker'.inFlight \/ c \in reached
    BY <1>3, <1>5 DEF HInv, StopReports
  <2> QED BY <1>1, <1>3, <2>1 DEF HInv, StopHeld, Excused
<1>7. RoomForStops' /\ StopReports'
  BY <1>1, <1>3, <1>4, <1>5 DEF HInv, RoomForStops, StopReports
<1> QED BY <1>1, <1>6, <1>7 DEF HInv

\* A command begins, or ends: a revocation that leaves the worker has begun.
LEMMA WorkerHolds ==
    ASSUME HInv, Inv', NEW c \in Ids,
           UNCHANGED <<broker, live, answer, strays, late, cancelled, excused, dropped>>,
           reached \subseteq reached', c \in Stops => c \in reached',
           worker'.inFlight \subseteq worker.inFlight,
           worker.inFlight \subseteq worker'.inFlight \cup {c},
           worker'.running \subseteq worker.running \cup {c},
           \A e \in Reports(worker', strays) : e \in Reports(worker, strays) \/ e.id = c
    PROVE  HInv'
<1>1. Stops' = Stops /\ cmds' = cmds
  BY DEF Stops, cmds
<1>2. StopHeld'
  BY <1>1 DEF HInv, StopHeld, Excused
<1>3. worker.inFlight \subseteq Ids
  BY HInvType, CoreType
<1>4. RoomForStops'
  BY <1>1, <1>3, RoomKept DEF HInv, RoomForStops
<1>5. StopReports'
  BY <1>1 DEF HInv, StopReports
<1> QED BY <1>2, <1>4, <1>5 DEF HInv

LEMMA FinishedHolds ==
    ASSUME HInv, Inv', NEW c \in worker.inFlight, NEW outcome \in Outcomes,
           worker' = Finished(worker, c, cmds[c], outcome),
           UNCHANGED <<broker, live, answer, strays, late, cancelled, excused, dropped>>,
           reached \subseteq reached', c \in Stops => c \in reached'
    PROVE  HInv'
<1>1. c \in Ids /\ worker \in Worker /\ broker \in Broker
  BY HInvType, CoreType
<1>2. broker.cmd[c] \in Command \cup {NoCommand}
  BY <1>1 DEF Broker
<1>3. Chained(broker.cmd[c]) => worker.tails[broker.cmd[c].session] # <<>>
  BY LaneNotEmpty DEF HInv
<1>4. /\ worker'.inFlight = worker.inFlight \ {c}
      /\ worker'.running = worker.running \ {c}
      /\ Reports(worker', strays) \subseteq
           Reports(worker, strays) \cup {[id |-> c, outcome |-> outcome]}
  BY <1>1, <1>2, <1>3, FinishedFacts DEF cmds
<1> QED BY <1>1, <1>4, WorkerHolds

LEMMA StartHolds ==
    ASSUME HInv, Inv', NEW c \in Ids, NEW effect \in BOOLEAN, Start(c, effect)
    PROVE  HInv'
<1>1. /\ c \in worker.inFlight /\ reached' = reached \cup ({c} \cap Stops)
      /\ UNCHANGED <<broker, live, answer, strays, late, cancelled, excused, dropped>>
      /\ worker' = IF c \in nodeLate THEN Finished(worker, c, cmds[c], "expired")
                   ELSE Started(worker, c, effect)
  BY DEF Start, Ready, wire
<1>2. CASE c \in nodeLate
  BY <1>1, <1>2, FinishedHolds DEF Outcomes
<1>3. CASE c \notin nodeLate
  <2>1. worker \in Worker
    BY HInvType, CoreType
  <2>2. /\ worker'.inFlight = worker.inFlight /\ worker'.running = worker.running \cup {c}
        /\ worker'.completed = worker.completed /\ worker'.results = worker.results
    BY <1>1, <1>3, <2>1 DEF Started, Worker
  <2>3. Reports(worker', strays) = Reports(worker, strays)
    BY <2>2 DEF Reports
  <2> QED BY <1>1, <2>2, <2>3, WorkerHolds
<1> QED BY <1>2, <1>3

LEMMA FinishHolds ==
    ASSUME HInv, Inv', NEW c \in Ids, NEW outcome \in Outcomes, Finish(c, outcome)
    PROVE  HInv'
<1>1. /\ c \in worker.running /\ worker' = Finished(worker, c, cmds[c], outcome)
      /\ UNCHANGED <<broker, live, answer, strays, late, reached, cancelled, excused, dropped>>
  BY DEF Finish, MayFinish, wire, stopHistory
<1>2. c \in worker.inFlight
  BY <1>1, HInvType, CoreType
<1>3. c \in Stops => c \in reached'
  BY <1>1 DEF HInv, StopReports
<1> QED BY <1>1, <1>2, <1>3, FinishedHolds

LEMMA NodeRestartsHolds ==
    ASSUME HInv, Inv', NodeRestarts
    PROVE  HInv'
<1>1. /\ worker' = FreshWorker /\ live' = FALSE /\ answer' = 0
      /\ Dropped((worker.inFlight \ reached) \cup {answer})
      /\ UNCHANGED <<broker, strays, late, reached, cancelled, excused>>
  BY DEF NodeRestarts
<1>2. Stops' = Stops
  BY <1>1 DEF Stops, cmds
<1>3. StopHeld'
  <2> SUFFICES ASSUME NEW c \in Stops PROVE Excused(c)' \/ HeldBy(broker, c)
    BY <1>1, <1>2 DEF StopHeld
  <2>1. CASE c \in Pending(broker)
    BY <2>1 DEF HInv, WaitingQueued, HeldBy, Pending
  <2>2. CASE /\ c \notin Pending(broker) /\ ~Contains(broker.queue, c)
             /\ c \in (worker.inFlight \ reached) \cup {answer}
    <3>1. c \in dropped'
      BY <1>1, <2>2 DEF Dropped
    <3> QED BY <3>1 DEF Excused
  <2>3. CASE c \notin (worker.inFlight \ reached) \cup {answer}
    BY <1>1, <2>3 DEF HInv, StopHeld, Excused, Dropped
  <2> QED BY <2>1, <2>2, <2>3 DEF HeldBy
<1>4. RoomForStops'
  BY <1>1 DEF RoomForStops
<1>5. Reports(FreshWorker, strays) \subseteq Reports(worker, strays) /\ FreshWorker.running = {}
  BY FreshWorkerFacts DEF Reports
<1>6. StopReports'
  BY <1>1, <1>2, <1>5 DEF HInv, StopReports
<1> QED BY <1>1, <1>3, <1>4, <1>6 DEF HInv

\* What a dispatch does once b1, the broker it starts from, holds what it must.
LEMMA NewHolds ==
    ASSUME HInv, Inv', NEW b1 \in Broker, NEW cmd \in Command, nextId \in Ids,
           b1.cmd = broker.cmd, IsInjective(b1.queue), ~Contains(b1.queue, nextId),
           WaitingQueued(b1), broker' = Dispatched(b1, nextId, cmd), Handed(broker'),
           \A d \in Stops : HeldBy(broker, d) => HeldBy(b1, d) \/ Excused(d)',
           \A d \in Stops : Sheds(b1, broker', d) => Excused(d)',
           UNCHANGED <<worker, strays, late, reached, dropped>>,
           cancelled \subseteq cancelled', excused \subseteq excused'
    PROVE  HInv'
<1>1. /\ WaitingQueued(broker') /\ cmds' = [cmds EXCEPT ![nextId] = cmd]
      /\ cmd.kind = "end" => HeldBy(broker', nextId)
      /\ \A d \in Ids \ {nextId} : HeldBy(b1, d) => HeldBy(broker', d) \/ Sheds(b1, broker', d)
  BY DispatchedKeeps DEF cmds
<1>2. /\ cmds[nextId].kind = "none" /\ nextId \notin worker.inFlight
      /\ \A e \in Reports(worker, strays) : e.id # nextId
  <2>1. FreshOnes(broker, nextId, answer, worker, acts, Reports(worker, strays)) /\ nextId \in Nat
    BY HInvType, CoreType DEF Core
  <2>2. ~(nextId < nextId)
    BY <2>1
  <2> QED BY <2>1, <2>2 DEF FreshOnes, cmds, NoCommand
<1>3. /\ cmds \in [Ids -> Command \cup {NoCommand}]
      /\ worker.inFlight \subseteq Ids /\ worker.running \subseteq worker.inFlight
  <2>1. broker \in Broker
    BY HInvType
  <2> QED BY <2>1, HInvType, CoreType DEF Broker, cmds
<1>4. \A d \in Ids \ {nextId} : cmds'[d] = cmds[d]
  BY <1>1, <1>3
<1>5. \A d \in Stops' : d = nextId \/ (d \in Stops /\ d # nextId)
  BY <1>4 DEF Stops
<1>6. nextId \in Stops' => HeldBy(broker', nextId)
  <2>1. cmds'[nextId] = cmd
    BY <1>1, <1>3
  <2> QED BY <1>1, <2>1 DEF Stops
<1>7. /\ live' \/ answer' # 0 => live \/ answer # 0
      /\ answer # 0 => answer' = answer
  <2>1. live => answer = 0
    BY HInvType DEF Rest
  <2> QED BY <2>1 DEF Handed
<1>8. \A d \in Stops : Excused(d) => Excused(d)'
  BY DEF Excused
<1>9. StopHeld'
  <2> SUFFICES ASSUME NEW d \in Stops'
               PROVE  Excused(d)' \/ HeldBy(broker', d) \/ d = answer' \/ d \in worker.inFlight
    BY DEF StopHeld
  <2>1. CASE d = nextId
    BY <1>6, <2>1
  <2>2. CASE d \in Stops /\ d # nextId
    <3>1. d \in Ids /\ d # 0
      BY <2>2, HInvType, CoreType DEF Stops
    <3>2. CASE HeldBy(broker, d)
      BY <1>1, <2>2, <3>1, <3>2
    <3>3. CASE d = answer
      BY <1>7, <3>1, <3>3
    <3>4. CASE Excused(d) \/ d \in worker.inFlight
      BY <1>8, <2>2, <3>4
    <3> QED BY <2>2, <3>2, <3>3, <3>4 DEF HInv, StopHeld
  <2> QED BY <1>5, <2>1, <2>2
<1>10. RoomForStops'
  <2> SUFFICES ASSUME live \/ answer # 0 PROVE ~EndsFull(worker, cmds')
    BY <1>7 DEF RoomForStops
  <2>1. ~EndsFull(worker, cmds)
    BY DEF HInv, RoomForStops
  <2>2. \A c \in worker.inFlight : cmds'[c] = cmds[c]
    BY <1>2, <1>3, <1>4
  <2> QED BY <1>3, <2>1, <2>2, RoomKept
<1>11. StopReports'
  <2> SUFFICES ASSUME NEW c \in Stops',
                      c \in worker.running \/ \E e \in Reports(worker, strays) : e.id = c
               PROVE  c \in reached
    BY DEF StopReports, Reports
  <2>1. c # nextId
    BY <1>2, <1>3
  <2> QED BY <1>5, <2>1 DEF HInv, StopReports
<1> QED BY <1>1, <1>9, <1>10, <1>11 DEF HInv

LEMMA DispatchHolds ==
    ASSUME HInv, Inv', NEW s \in Sessions \cup {NoSession}, Dispatch(s)
    PROVE  HInv'
<1> DEFINE cmd == [kind |-> "work", session |-> s]
<1>1. /\ broker' = Dispatched(broker, nextId, cmd) /\ Handed(broker')
      /\ excused' = excused \cup ShedBy(broker') /\ nextId <= MaxCmds
      /\ UNCHANGED <<worker, strays, late, reached, dropped, cancelled>>
  BY DEF Dispatch
<1>2. cmd \in Command
  BY DEF Command
<1> HIDE DEF cmd
<1>3. /\ broker \in Broker /\ IsInjective(broker.queue) /\ broker.queue \in Seq(Ids)
      /\ nextId \in Ids /\ ~Contains(broker.queue, nextId) /\ WaitingQueued(broker)
  <2>1. nextId \in Ids /\ ~(nextId < nextId)
    BY <1>1, HInvType, CoreType
  <2> QED BY <2>1, HInvType DEF HInv, Core, FreshOnes
<1>4. \A d \in Stops : Sheds(broker, broker', d) => Excused(d)'
  <2> SUFFICES ASSUME NEW d \in Stops, Sheds(broker, broker', d) PROVE d \in ShedBy(broker')
    BY <1>1 DEF Excused
  <2>1. d \in Ids /\ d # nextId
    BY <1>3 DEF Stops, Sheds
  <2>2. broker'.cmd = [broker.cmd EXCEPT ![nextId] = cmd]
    BY <1>1, <1>2, <1>3, DispatchedKeeps
  <2>3. broker'.cmd[d] = broker.cmd[d]
    BY <1>3, <2>1, <2>2 DEF Broker
  <2> QED BY <1>3, <2>3, RangeFacts DEF ShedBy, Sheds, IsEnd, Stops, cmds
<1> QED BY <1>1, <1>2, <1>3, <1>4, NewHolds
LEMMA AbortHolds ==
    ASSUME HInv, Inv', NEW s \in Sessions, Abort(s)
    PROVE  HInv'
<1> DEFINE b1 == Cancelled(broker, s)
           cmd == [kind |-> "end", session |-> s]
           N == OfSession(broker, s)
<1>1. /\ cancelled' = cancelled \cup (N \cap Stops)
      /\ excused' = excused \cup (ShedBy(broker') \ N)
      /\ UNCHANGED <<worker, strays, late, reached, dropped>>
      /\ \/ /\ broker' = Dispatched(b1, nextId, cmd) /\ Handed(broker')
            /\ nextId <= MaxCmds
         \/ broker' = b1 /\ UNCHANGED <<answer, live>>
  BY DEF Abort
<1>2. /\ broker \in Broker /\ IsInjective(broker.queue) /\ broker.queue \in Seq(Ids)
      /\ WaitingQueued(broker)
  BY HInvType DEF HInv
<1>3. /\ Settles(broker, b1, {}) /\ b1.parked = broker.parked
      /\ Keeps(broker, b1, N) /\ cmd \in Command
  BY <1>2, CancelledFacts, CancelledKeeps DEF Command
<1> HIDE DEF b1, cmd, N
<1>4. /\ b1 \in Broker /\ b1.cmd = broker.cmd /\ b1.queue \in Seq(Ids)
      /\ Thinner(broker.queue, b1.queue)
      /\ \A c : Contains(b1.queue, c) => Contains(broker.queue, c)
  BY <1>3 DEF Settles, Thinner, Broker
<1>5. IsInjective(b1.queue) /\ WaitingQueued(b1)
  BY <1>2, <1>3, <1>4, ThinnerInjective, KeepsWaiting
<1>6. \A d \in Stops : HeldBy(broker, d) => HeldBy(b1, d) \/ Excused(d)'
  <2> SUFFICES ASSUME NEW d \in Stops, d \notin N, HeldBy(broker, d) PROVE HeldBy(b1, d)
    BY <1>1 DEF Excused
  <2> QED BY <1>3 DEF Keeps, HeldBy, Stops
<1>7. \A d : Excused(d) => Excused(d)'
  BY <1>1 DEF Excused
<1>8. CASE broker' = Dispatched(b1, nextId, cmd) /\ Handed(broker') /\ nextId <= MaxCmds
  <2>1. nextId \in Ids /\ ~Contains(b1.queue, nextId)
    <3>1. nextId \in Ids /\ ~(nextId < nextId)
      BY <1>8, HInvType, CoreType
    <3> QED BY <1>4, <3>1, HInvType DEF Core, FreshOnes
  <2>2. \A d \in Stops : Sheds(b1, broker', d) => Excused(d)'
    <3> SUFFICES ASSUME NEW d \in Stops, Sheds(b1, broker', d), d \notin N
                 PROVE  d \in ShedBy(broker')
      BY <1>1 DEF Excused
    <3>1. d \in Ids /\ d # nextId
      BY <2>1 DEF Stops, Sheds
    <3>2. broker'.cmd = [broker.cmd EXCEPT ![nextId] = cmd]
      BY <1>3, <1>4, <1>5, <1>8, <2>1, DispatchedKeeps
    <3>3. broker'.cmd[d] = broker.cmd[d]
      BY <1>2, <3>1, <3>2 DEF Broker
    <3> QED BY <1>2, <1>4, <3>3, RangeFacts DEF ShedBy, Sheds, IsEnd, Stops, cmds
  <2> QED BY <1>1, <1>3, <1>4, <1>5, <1>6, <1>8, <2>1, <2>2, NewHolds
<1>9. CASE broker' = b1 /\ UNCHANGED <<answer, live>>
  <2>1. \A d \in Stops : HeldBy(broker, d) \/ d = answer =>
                           Excused(d)' \/ HeldBy(broker', d) \/ d = answer'
    BY <1>6, <1>9
  <2>2. cmds' = cmds
    BY <1>4, <1>9 DEF cmds
  <2> QED BY <1>1, <1>5, <1>7, <1>9, <2>1, <2>2, MainHolds
<1> QED BY <1>1, <1>8, <1>9

LEMMA InitHolds == Init => HInv
<1> SUFFICES ASSUME Init PROVE HInv
  OBVIOUS
<1>1. Inv
  BY InitInv
<1>2. \A c \in Ids : cmds[c] = NoCommand /\ broker.pend[c] = "new"
  BY DEF Init, BrokerInit, cmds
<1>3. Stops = {}
  BY <1>2 DEF Stops, NoCommand
<1>4. WaitingQueued(broker)
  BY <1>2 DEF WaitingQueued
<1>5. RoomForStops
  BY DEF Init, RoomForStops
<1> QED BY <1>1, <1>3, <1>4, <1>5 DEF HInv, StopHeld, StopReports

LEMMA NextHolds == HInv /\ [Next]_vars => HInv'
<1> SUFFICES ASSUME HInv, [Next]_vars PROVE HInv'
  OBVIOUS
<1>0. Inv'
  BY NextInv DEF HInv
<1>1. CASE UNCHANGED vars
  <2>1. WaitingQueued(broker) /\ broker' = broker
    BY <1>1 DEF HInv, vars
  <2>2. StopHeld' /\ RoomForStops' /\ StopReports'
    BY <1>1 DEF vars, wire, stopHistory, HInv, StopHeld, RoomForStops, StopReports,
       Stops, cmds, Excused, EndsFull, EndsIn
  <2> QED BY <1>0, <2>1, <2>2 DEF HInv
<1>2. CASE Next
  <2>1. CASE EmptyAnswer \/ GoesOffline \/ RemoveNode \/ MainRestarts \/ NodeRestarts
    BY <1>0, <2>1, SilenceHolds, EndOfAllHolds, NodeRestartsHolds
  <2>2. CASE Poll \/ PollLost \/ GiveUp \/ Receive \/ PostLost
    BY <1>0, <2>2, PollsHold, QuietHolds, GiveUpHolds, ReceiveHolds
  <2>3. CASE \E s \in Sessions \cup {NoSession} : Dispatch(s)
    BY <1>0, <2>3, DispatchHolds
  <2>4. CASE \E s \in Sessions : Abort(s)
    BY <1>0, <2>4, AbortHolds
  <2>5. CASE \E o \in ghosts : GhostArrives(o)
    BY <1>0, <2>5, PollsHold
  <2>6. CASE \E e \in strays : StrayArrives(e)
    BY <1>0, <2>6, StrayArrivesHolds
  <2>7. CASE \E heard \in BOOLEAN : PostResult(heard)
    BY <1>0, <2>7, PostResultHolds
  <2>8. CASE \E c \in Ids : Timeout(c)
    BY <1>0, <2>8, TimeoutHolds
  <2>9. CASE \E c \in Ids : MainClock(c) \/ NodeClock(c)
    BY <1>0, <2>9, QuietHolds
  <2>10. CASE \E c \in Ids : \E effect \in BOOLEAN : Start(c, effect)
    BY <1>0, <2>10, StartHolds
  <2>11. CASE \E c \in Ids : \E outcome \in Outcomes : Finish(c, outcome)
    BY <1>0, <2>11, FinishHolds
  <2> QED BY <1>2, <2>1, <2>2, <2>3, <2>4, <2>5, <2>6, <2>7, <2>8, <2>9, <2>10, <2>11
          DEF Next
<1> QED BY <1>1, <1>2

\* No revocation is forgotten (cancelSession, _retainRevocation, the worker's store):
\* one that has not begun at the node, and that none of the reasons of StopArrives
\* excuses, is in the queue, handed over with its caller's timer still to fire, in
\* the answer that travels, or in the worker's hands.  This is what StopArrives
\* needs to be safe; that each of these moves on is its fairness.
THEOREM StopsHeld == Spec => []StopHeld
<1>1. HInv => StopHeld
  BY DEF HInv
<1> QED BY <1>1, InitHolds, NextHolds, PTL DEF Spec
=============================================================================
