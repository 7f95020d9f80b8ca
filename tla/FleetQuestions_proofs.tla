------------------------ MODULE FleetQuestions_proofs ------------------------
(***************************************************************************)
(* Proofs about FleetQuestions, for any number of records, messages, acts  *)
(* of the owner and faults.                                                *)
(***************************************************************************)
EXTENDS FleetQuestions, WellFoundedInduction, TLAPS

(***************************************************************************)
(* The inductive invariant                                                 *)
(***************************************************************************)
Pending == {"none", "waits", "sending", "silent"}
Ask == 0 .. MaxMessages
Queue == [Questions -> Pending]

Types ==
    /\ agent \in [n : Ask, asks : BOOLEAN] /\ status \in [Questions -> Statuses]
    /\ key \in [Questions -> Ask] /\ held \in [Questions -> BOOLEAN]
    /\ pinned \in [Questions -> BOOLEAN] /\ pending \in Queue
    /\ since \in [Questions -> BOOLEAN] /\ linked \in [Questions -> BOOLEAN]
    /\ copy \in [Questions -> {"none", "open", "resolved", "acted"}] /\ hidden \subseteq Questions
    /\ call \in [Questions -> Calls] /\ tick \in Ticks
    /\ answers \in 0 .. MaxAnswers /\ faults \in 0 .. MaxFaults
    /\ answered \in [Questions -> Ask] /\ child \in [Questions -> {"none", "answer", "kept"}]
    /\ handed \in [Questions -> 0 .. 2]
    /\ tick.at = "sends" => tick.item # 0
    /\ orphans \subseteq Questions /\ doubtful \subseteq Questions /\ back \subseteq Questions

\* An answer is kept only on a record the owner answered.
KeptOnAnswered == \A i \in Questions : pending[i] # "none" => status[i] = "answered" \/ i \in back

\* Where a kept answer may be: it waits, the scan types it, a background send has
\* it, its agent has it; in one of these places at a time.
Sends(i) == tick.at = "sends" /\ tick.item = i
OnePlace ==
    \A i \in Questions : i \notin doubtful /\ i \notin back =>
        /\ pending[i] # "silent" /\ tick.queue[i] # "silent"
        /\ tick.queue[i] = "waits" => pending[i] = "waits"
        /\ Sends(i) => pending[i] = "waits" /\ handed[i] = 0
        /\ child[i] = "kept" \/ i \in orphans => pending[i] = "sending" /\ handed[i] = 0
        /\ ~(child[i] = "kept" /\ i \in orphans)
        /\ handed[i] # 0 => handed[i] = 1 /\ pending[i] \in {"none", "sending"}

IInv == Types /\ KeptOnAnswered /\ OneOpenPerAsk /\ OnePlace

-----------------------------------------------------------------------------
LEMMA Constants ==
    MaxQuestions \in Nat /\ MaxMessages \in Nat /\ MaxAnswers \in Nat /\ MaxFaults \in Nat
  BY FleetAssumption

\* A set of numbers has a least one, and a bounded one a greatest.
LEMMA Least ==
    ASSUME NEW S, S \subseteq Nat, S # {}
    PROVE  Min(S) \in S /\ \A y \in S : Min(S) =< y
<1>1. \E x \in S : \A y \in S : ~(<<y, x>> \in OpToRel(<, Nat))
  BY NatLessThanWellFounded, WFMin
<1>2. ASSUME NEW x \in Nat, NEW y \in Nat, ~(<<y, x>> \in OpToRel(<, Nat)) PROVE x =< y
  BY <1>2 DEF OpToRel
<1>3. \E x \in S : \A y \in S : x =< y
  BY <1>1, <1>2
<1> QED
  BY <1>3 DEF Min

LEMMA Greatest ==
    ASSUME NEW n \in Nat, NEW S, S \subseteq 0 .. n, S # {}
    PROVE  Max(S) \in S
<1> DEFINE T == {n - x : x \in S}
<1>1. T \subseteq Nat /\ T # {}
  <2>1. \A x \in S : n - x \in Nat
    OBVIOUS
  <2> QED
    BY <2>1
<1>2. Min(T) \in T /\ \A y \in T : Min(T) =< y
  <2> HIDE DEF T
  <2> QED
    BY <1>1, Least
<1>3. PICK x \in S : Min(T) = n - x
  BY <1>2
<1>4. \A y \in S : n - x =< n - y
  BY <1>2, <1>3
<1>5. \A y \in S : x >= y
  BY <1>4
<1> QED
  BY <1>5 DEF Max

\* A kept answer is counted up to two deliveries.
LEMMA Bump ==
    \A n \in 0 .. 2 : Min({2, n + 1}) \in 0 .. 2 /\ (n = 0 => Min({2, n + 1}) = 1)
<1> SUFFICES ASSUME NEW n \in 0 .. 2
             PROVE  Min({2, n + 1}) \in 0 .. 2 /\ (n = 0 => Min({2, n + 1}) = 1)
  OBVIOUS
<1>1. Min({2, n + 1}) \in {2, n + 1} /\ \A y \in {2, n + 1} : Min({2, n + 1}) =< y
  BY Least
<1> QED
  BY <1>1

\* The record the scan takes for an ask: the open one of that ask, if there is one,
\* and never one the owner closed.
LEMMA RecordTaken ==
    ASSUME Types, NEW k \in Ask
    PROVE  /\ Record(k) \in 0 .. MaxQuestions
           /\ Open \cap Same(k) # {} => Record(k) \in Open \cap Same(k)
           /\ Record(k) # 0 => status[Record(k)] \in {"open", "resolved", "none"}
<1>1. /\ Open \subseteq Questions /\ Older(k) \subseteq Open /\ Blips(k) \subseteq Questions
      /\ Unused \subseteq Questions /\ Questions \subseteq 0 .. MaxQuestions
      /\ Questions \subseteq Nat /\ MaxQuestions \in Nat
  BY Constants DEF Open, Older, Blips, Same, Unused, Questions
<1>2. Open \cap Same(k) # {} => Min(Open \cap Same(k)) \in Open \cap Same(k)
  BY <1>1, Least
<1>3. Older(k) # {} => Min(Older(k)) \in Older(k)
  BY <1>1, Least
<1>4. Blips(k) # {} => Max(Blips(k)) \in Blips(k)
  BY <1>1, Greatest
<1>5. Unused # {} => Min(Unused) \in Unused
  BY <1>1, Least
<1>6. /\ \A x \in Open : status[x] = "open"
      /\ \A x \in Blips(k) : status[x] = "resolved"
      /\ \A x \in Unused : status[x] = "none"
  BY DEF Open, Blips, Unused
<1>7. \/ Record(k) = Min(Open \cap Same(k)) /\ Open \cap Same(k) # {}
      \/ Open \cap Same(k) = {} /\ \/ Record(k) = 0
                                   \/ Record(k) = Min(Older(k)) /\ Older(k) # {}
                                   \/ Record(k) = Max(Blips(k)) /\ Blips(k) # {}
                                   \/ Record(k) = Min(Unused) /\ Unused # {}
  BY DEF Record
<1> DEFINE r == Record(k)
<1> HIDE DEF r
<1>8. CASE r = Min(Open \cap Same(k)) /\ Open \cap Same(k) # {}
  <2>1. r \in Open \cap Same(k)
    BY <1>2, <1>8
  <2> QED
    BY <1>1, <1>6, <2>1 DEF r
<1>9. CASE Open \cap Same(k) = {} /\ r = Min(Older(k)) /\ Older(k) # {}
  <2>1. r \in Open
    BY <1>1, <1>3, <1>9
  <2> QED
    BY <1>1, <1>6, <1>9, <2>1 DEF r
<1>10. CASE Open \cap Same(k) = {} /\ r = Max(Blips(k)) /\ Blips(k) # {}
  <2>1. r \in Blips(k)
    BY <1>4, <1>10
  <2> QED
    BY <1>1, <1>6, <1>10, <2>1 DEF r
<1>11. CASE Open \cap Same(k) = {} /\ r = Min(Unused) /\ Unused # {}
  <2>1. r \in Unused
    BY <1>5, <1>11
  <2> QED
    BY <1>1, <1>6, <1>11, <2>1 DEF r
<1>12. CASE Open \cap Same(k) = {} /\ r = 0
  BY <1>1, <1>12 DEF r
<1> QED
  BY <1>7, <1>8, <1>9, <1>10, <1>11, <1>12 DEF r

LEMMA AgentSpeaksStep == ASSUME IInv, AgentSpeaks PROVE IInv'
<1>1. Types'
  BY Constants DEF IInv, AgentSpeaks, records, sends, vars, Types, Statuses, Pending, Queue,
       Ask, Ticks, Calls, NoCall
<1>2. KeptOnAnswered'
  BY Constants DEF IInv, AgentSpeaks, records, sends, vars, Types, Statuses, Pending, Queue,
       Ask, Ticks, Calls, NoCall, KeptOnAnswered
<1>3. OneOpenPerAsk'
  BY Constants DEF IInv, AgentSpeaks, records, sends, vars, Types, Statuses, Pending, Queue,
       Ask, Ticks, Calls, NoCall, OneOpenPerAsk, Open
<1>4. OnePlace'
  BY Constants DEF IInv, AgentSpeaks, records, sends, vars, Types, Statuses, Pending, Queue,
       Ask, Ticks, Calls, NoCall, KeptOnAnswered, OnePlace, Sends
<1> QED
  BY <1>1, <1>2, <1>3, <1>4 DEF IInv

LEMMA AnswerStep == ASSUME IInv, NEW i \in Questions, Answer(i) PROVE IInv'
<1>1. Types'
  BY Constants DEF IInv, Answer, Act, records, sends, vars, Types, Statuses, Pending, Queue,
       Ask, Ticks, Calls, NoCall
<1>2. KeptOnAnswered'
  BY Constants DEF IInv, Answer, Act, records, sends, vars, Types, Statuses, Pending, Queue,
       Ask, Ticks, Calls, NoCall, KeptOnAnswered
<1>3. OneOpenPerAsk'
  BY Constants DEF IInv, Answer, Act, records, sends, vars, Types, Statuses, Pending, Queue,
       Ask, Ticks, Calls, NoCall, OneOpenPerAsk, Open
<1>4. OnePlace'
  BY Constants DEF IInv, Answer, Act, records, sends, vars, Types, Statuses, Pending, Queue,
       Ask, Ticks, Calls, NoCall, KeptOnAnswered, OnePlace, Sends
<1> QED
  BY <1>1, <1>2, <1>3, <1>4 DEF IInv

LEMMA AnswerWaitsStep == ASSUME IInv, NEW i \in Questions, AnswerWaits(i) PROVE IInv'
<1>1. Types'
  <2>1. call' \in [Questions -> Calls]
    BY DEF IInv, AnswerWaits, Types, Calls, NoCall
  <2>2. Close(i, "waits") => /\ status' \in [Questions -> Statuses] /\ held' \in [Questions -> BOOLEAN]
                            /\ pending' \in Queue /\ since' \in [Questions -> BOOLEAN]
                            /\ handed' \in [Questions -> 0 .. 2] /\ UNCHANGED <<key, pinned, linked>>
    <3> SUFFICES ASSUME Close(i, "waits")
                 PROVE  /\ status' \in [Questions -> Statuses] /\ held' \in [Questions -> BOOLEAN]
                        /\ pending' \in Queue /\ since' \in [Questions -> BOOLEAN]
                        /\ handed' \in [Questions -> 0 .. 2] /\ UNCHANGED <<key, pinned, linked>>
      OBVIOUS
    <3>1. status' \in [Questions -> Statuses] /\ held' \in [Questions -> BOOLEAN]
      BY DEF IInv, Close, records, Types, Statuses
    <3>2. pending' \in Queue /\ since' \in [Questions -> BOOLEAN]
      BY DEF IInv, Close, records, Types, Queue, Pending
    <3>3. handed' \in [Questions -> 0 .. 2] /\ UNCHANGED <<key, pinned, linked>>
      BY DEF IInv, Close, records, Types
    <3> QED
      BY <3>1, <3>2, <3>3
  <2>3. copy' \in [Questions -> {"none", "open", "resolved", "acted"}]
    BY DEF IInv, AnswerWaits, CopyActed, Resolve, Types
  <2> QED
    BY <2>1, <2>2, <2>3 DEF IInv, AnswerWaits, records, Types
<1>2. KeptOnAnswered'
  BY Constants DEF IInv, AnswerWaits, Close, CopyActed, Resolve, records, sends, vars,
       Types, Statuses, Pending, Queue, Ask, Ticks, Calls, NoCall, KeptOnAnswered
<1>3. OneOpenPerAsk'
  BY Constants DEF IInv, AnswerWaits, Close, CopyActed, Resolve, records, sends, vars,
       Types, Statuses, Pending, Queue, Ask, Ticks, Calls, NoCall, OneOpenPerAsk, Open
<1>4. OnePlace'
  BY Constants DEF IInv, AnswerWaits, Close, CopyActed, Resolve, records, sends, vars,
       Types, Statuses, Pending, Queue, Ask, Ticks, Calls, NoCall, KeptOnAnswered, OnePlace,
       Sends
<1> QED
  BY <1>1, <1>2, <1>3, <1>4 DEF IInv

LEMMA AnswerSendsStep == ASSUME IInv, NEW i \in Questions, AnswerSends(i) PROVE IInv'
<1>1. Types'
  <2>1. [call[i] EXCEPT !.at = "sends"] \in Calls
    BY DEF IInv, Types, Calls
  <2>2. call' = [call EXCEPT ![i] = [call[i] EXCEPT !.at = "sends"]]
    BY DEF AnswerSends
  <2>3. call' \in [Questions -> Calls]
    BY <2>1, <2>2 DEF IInv, Types
  <2> QED
    BY <2>3 DEF IInv, AnswerSends, records, sends, Types
<1>2. KeptOnAnswered'
  BY Constants DEF IInv, AnswerSends, records, sends, vars, Types, Statuses, Pending, Queue,
       Ask, Ticks, Calls, NoCall, KeptOnAnswered
<1>3. OneOpenPerAsk'
  BY Constants DEF IInv, AnswerSends, records, sends, vars, Types, Statuses, Pending, Queue,
       Ask, Ticks, Calls, NoCall, OneOpenPerAsk, Open
<1>4. OnePlace'
  BY Constants DEF IInv, AnswerSends, records, sends, vars, Types, Statuses, Pending, Queue,
       Ask, Ticks, Calls, NoCall, KeptOnAnswered, OnePlace, Sends
<1> QED
  BY <1>1, <1>2, <1>3, <1>4 DEF IInv

LEMMA AnswerSentStep == ASSUME IInv, NEW i \in Questions, AnswerSent(i) PROVE IInv'
<1>1. Types'
  <2>1. call' \in [Questions -> Calls] /\ child' \in [Questions -> {"none", "answer", "kept"}]
    BY DEF IInv, AnswerSent, Types, Calls, NoCall
  <2>2. Close(i, "none") => /\ status' \in [Questions -> Statuses] /\ held' \in [Questions -> BOOLEAN]
                            /\ pending' \in Queue /\ since' \in [Questions -> BOOLEAN]
                            /\ handed' \in [Questions -> 0 .. 2] /\ UNCHANGED <<key, pinned, linked>>
    <3> SUFFICES ASSUME Close(i, "none")
                 PROVE  /\ status' \in [Questions -> Statuses] /\ held' \in [Questions -> BOOLEAN]
                        /\ pending' \in Queue /\ since' \in [Questions -> BOOLEAN]
                        /\ handed' \in [Questions -> 0 .. 2] /\ UNCHANGED <<key, pinned, linked>>
      OBVIOUS
    <3>1. status' \in [Questions -> Statuses] /\ held' \in [Questions -> BOOLEAN]
      BY DEF IInv, Close, records, Types, Statuses
    <3>2. pending' \in Queue /\ since' \in [Questions -> BOOLEAN]
      BY DEF IInv, Close, records, Types, Queue, Pending
    <3>3. handed' \in [Questions -> 0 .. 2] /\ UNCHANGED <<key, pinned, linked>>
      BY DEF IInv, Close, records, Types
    <3> QED
      BY <3>1, <3>2, <3>3
  <2>3. copy' \in [Questions -> {"none", "open", "resolved", "acted"}]
    BY DEF IInv, AnswerSent, CopyActed, Resolve, Types
  <2> QED
    BY <2>1, <2>2, <2>3 DEF IInv, AnswerSent, records, Types
<1>2. KeptOnAnswered'
  BY Constants DEF IInv, AnswerSent, Close, CopyActed, Resolve, records, sends, vars, Types,
       Statuses, Pending, Queue, Ask, Ticks, Calls, NoCall, KeptOnAnswered
<1>3. OneOpenPerAsk'
  <2>1. /\ status' = status \/ status' = [status EXCEPT ![i] = "answered"]
        /\ key' = key /\ pinned' = pinned /\ back' = back
    BY DEF AnswerSent, Close, records
  <2> QED
    BY <2>1 DEF IInv, OneOpenPerAsk, Open, Types
<1>4. OnePlace'
  BY Constants DEF IInv, AnswerSent, Close, CopyActed, Resolve, records, sends, vars, Types,
       Statuses, Pending, Queue, Ask, Ticks, Calls, NoCall, KeptOnAnswered, OnePlace, Sends
<1> QED
  BY <1>1, <1>2, <1>3, <1>4 DEF IInv

LEMMA DismissStep == ASSUME IInv, NEW i \in Questions, Dismiss(i) PROVE IInv'
<1>1. Types'
  BY Constants DEF IInv, Dismiss, Act, Resolve, records, sends, vars, Types, Statuses,
       Pending, Queue, Ask, Ticks, Calls, NoCall
<1>2. KeptOnAnswered'
  BY Constants DEF IInv, Dismiss, Act, Resolve, records, sends, vars, Types, Statuses,
       Pending, Queue, Ask, Ticks, Calls, NoCall, KeptOnAnswered
<1>3. OneOpenPerAsk'
  BY Constants DEF IInv, Dismiss, Act, Resolve, records, sends, vars, Types, Statuses,
       Pending, Queue, Ask, Ticks, Calls, NoCall, OneOpenPerAsk, Open
<1>4. OnePlace'
  BY Constants DEF IInv, Dismiss, Act, Resolve, records, sends, vars, Types, Statuses,
       Pending, Queue, Ask, Ticks, Calls, NoCall, KeptOnAnswered, OnePlace, Sends
<1> QED
  BY <1>1, <1>2, <1>3, <1>4 DEF IInv

LEMMA ReopenStep == ASSUME IInv, NEW i \in Questions, Reopen(i) PROVE IInv'
<1>1. Types'
  BY Constants DEF IInv, Reopen, Act, FreeKey, Open, records, sends, vars, Types, Statuses,
       Pending, Queue, Ask, Ticks, Calls, NoCall
<1>2. KeptOnAnswered'
  BY Constants DEF IInv, Reopen, Act, FreeKey, Open, records, sends, vars, Types, Statuses,
       Pending, Queue, Ask, Ticks, Calls, NoCall, KeptOnAnswered
<1>3. OneOpenPerAsk'
  BY Constants DEF IInv, Reopen, Act, FreeKey, Open, records, sends, vars, Types, Statuses,
       Pending, Queue, Ask, Ticks, Calls, NoCall, OneOpenPerAsk, Open
<1>4. OnePlace'
  BY Constants DEF IInv, Reopen, Act, FreeKey, Open, records, sends, vars, Types, Statuses,
       Pending, Queue, Ask, Ticks, Calls, NoCall, KeptOnAnswered, OnePlace, Sends
<1> QED
  BY <1>1, <1>2, <1>3, <1>4 DEF IInv

LEMMA TickReadsStep == ASSUME IInv, TickReads PROVE IInv'
<1>1. PICK r \in {"ok", "unread", "gone"} :
        tick' = [tick EXCEPT !.at = "asks", !.read = r, !.seen = agent.n,
                             !.ask = IF r = "ok" /\ agent.asks THEN agent.n ELSE 0]
  BY DEF TickReads
<1>2. Types /\ tick \in Ticks /\ agent.n \in Ask /\ 0 \in Ask
  BY Constants DEF IInv, Types, Ask
<1>3. tick' \in Ticks /\ tick'.at = "asks" /\ tick'.queue = tick.queue
  BY <1>1, <1>2 DEF Ticks, Ask
<1>4. UNCHANGED <<agent, records, copy, hidden, call, answers, answered, sends>>
  BY DEF TickReads
<1>5. faults' \in 0 .. MaxFaults
  BY <1>2, Constants DEF TickReads, Fault, Types
<1>6. Types'
  BY <1>2, <1>3, <1>4, <1>5 DEF Types, records, sends
<1>7. KeptOnAnswered'
  BY <1>4 DEF IInv, KeptOnAnswered, records, sends
<1>8. OneOpenPerAsk'
  BY <1>4 DEF IInv, OneOpenPerAsk, Open, records, sends
<1>9. OnePlace'
  BY <1>3, <1>4 DEF IInv, OnePlace, Sends, records, sends
<1> QED
  BY <1>6, <1>7, <1>8, <1>9 DEF IInv

LEMMA TickAsksStep == ASSUME IInv, TickAsks PROVE IInv'
<1> DEFINE i == IF tick.ask = 0 THEN 0 ELSE Record(tick.ask)
<1>1. Types /\ tick \in Ticks /\ tick.ask \in Ask /\ 0 \notin Questions /\ MaxQuestions \in Nat
  <2>1. Types /\ tick \in Ticks /\ 0 \notin Questions /\ MaxQuestions \in Nat
    BY Constants DEF IInv, Types, Questions
  <2> QED
    BY <2>1 DEF Ticks, Ask
<1>2. /\ i \in 0 .. MaxQuestions
      /\ i # 0 => /\ status[i] \in {"open", "resolved", "none"}
                  /\ Open \cap Same(tick.ask) # {} => i \in Open /\ key[i] = tick.ask
  <2>1. CASE tick.ask = 0
    BY <1>1, <2>1
  <2>2. CASE tick.ask # 0
    BY <1>1, <2>2, RecordTaken DEF Same
  <2> QED
    BY <2>1, <2>2
<1>3. /\ tick' = [tick EXCEPT !.at = "reviews", !.item = i,
                              !.blip = i # 0 /\ status[i] = "resolved"]
      /\ status' = [j \in Questions |-> IF j = i THEN "open" ELSE status[j]]
      /\ key' = [j \in Questions |-> IF j = i THEN tick.ask ELSE key[j]]
      /\ pinned' = [j \in Questions |-> pinned[j] /\ (j = i => key[j] = tick.ask)]
      /\ hidden' = IF i # 0 /\ (i \notin Open \/ i \in hidden) THEN {i} ELSE {}
      /\ UNCHANGED <<agent, held, pending, since, linked, copy, call, answers, faults,
                     answered, sends>>
  BY DEF TickAsks
<1>4. i # 0 => i \in Questions
  BY <1>1, <1>2 DEF Questions
<1> HIDE DEF i
<1>5. tick' \in Ticks /\ tick'.at = "reviews" /\ tick'.queue = tick.queue
  BY <1>1, <1>2, <1>3 DEF Ticks
<1>6. Types'
  <2>1. /\ status' \in [Questions -> Statuses] /\ key' \in [Questions -> Ask]
        /\ pinned' \in [Questions -> BOOLEAN] /\ hidden' \subseteq Questions
    BY <1>1, <1>3, <1>4 DEF Types, Statuses
  <2> QED
    BY <1>1, <1>3, <1>5, <2>1 DEF Types, sends
<1>7. KeptOnAnswered'
  <2>1. ASSUME NEW j \in Questions, pending'[j] # "none"
        PROVE  status'[j] = "answered" \/ j \in back'
    <3>1. pending[j] # "none" /\ back' = back
      BY <1>3, <2>1 DEF sends
    <3>2. status[j] = "answered" \/ j \in back
      BY <3>1 DEF IInv, KeptOnAnswered
    <3>3. CASE j = i
      BY <1>1, <1>2, <3>1, <3>2, <3>3
    <3>4. CASE j # i
      BY <1>3, <3>1, <3>2, <3>4
    <3> QED
      BY <3>3, <3>4
  <2> QED
    BY <2>1 DEF KeptOnAnswered
<1>8. OneOpenPerAsk'
  <2>1. ASSUME NEW a \in Open', NEW b \in Open', key'[a] = key'[b], a # b, b # i
        PROVE  {a, b} \cap back # {}
    <3>1. a \in Questions /\ b \in Questions /\ status[b] = "open" /\ key'[b] = key[b]
      BY <1>3, <2>1 DEF Open
    <3>2. CASE a = i
      <4>1. key[b] = tick.ask /\ b \in Open \cap Same(tick.ask)
        BY <1>3, <2>1, <3>1, <3>2 DEF Open, Same
      <4>2. a \in Open /\ key[a] = tick.ask
        BY <1>1, <1>2, <1>3, <2>1, <3>1, <3>2, <4>1 DEF Types
      <4> QED
        BY <2>1, <4>1, <4>2 DEF IInv, OneOpenPerAsk
    <3>3. CASE a # i
      <4>1. a \in Open /\ b \in Open /\ key[a] = key[b]
        BY <1>1, <1>3, <2>1, <3>1, <3>3 DEF Open, Types
      <4> QED
        BY <2>1, <4>1 DEF IInv, OneOpenPerAsk
    <3> QED
      BY <3>2, <3>3
  <2>2. back' = back
    BY <1>3 DEF sends
  <2> SUFFICES ASSUME NEW a \in Open', NEW b \in Open', key'[a] = key'[b], a # b
               PROVE  {a, b} \cap back # {}
    BY <2>2 DEF OneOpenPerAsk
  <2>3. CASE b # i
    BY <2>1, <2>3
  <2>4. CASE b = i
    <3>1. a # i /\ key'[b] = key'[a] /\ b # a
      BY <2>4
    <3>2. {b, a} \cap back # {}
      BY <2>1, <3>1
    <3> QED
      BY <3>2
  <2> QED
    BY <2>3, <2>4
<1>9. OnePlace'
  BY <1>3, <1>5 DEF IInv, OnePlace, Sends, sends
<1> QED
  BY <1>6, <1>7, <1>8, <1>9 DEF IInv

LEMMA TickReviewsStep == ASSUME IInv, TickReviews PROVE IInv'
<1> DEFINE post == [tick EXCEPT !.at = "announces"]
           none == [post EXCEPT !.item = 0]
<1>1. Types /\ tick \in Ticks /\ MaxQuestions \in Nat
  BY Constants DEF IInv, Types
<1>2. post \in Ticks /\ post.at = "announces" /\ post.queue = tick.queue
  BY <1>1 DEF Ticks
<1>3. none \in Ticks /\ none.at = "announces" /\ none.queue = tick.queue
  <2> HIDE DEF post
  <2> QED
    BY <1>1, <1>2 DEF Ticks
<1>4. tick' \in {post, none} /\ UNCHANGED <<agent, key, pinned, pending, since, linked, call,
                                             answers, faults, answered, sends>>
  BY DEF TickReviews
<1>5. tick' \in Ticks /\ tick'.at = "announces" /\ tick'.queue = tick.queue
  <2> HIDE DEF post, none
  <2> QED
    BY <1>2, <1>3, <1>4
<1> HIDE DEF post, none
<1>6. \/ status' = status /\ held' = held
      \/ /\ status[tick.item] = "open" /\ status' = [status EXCEPT ![tick.item] = "closed"]
         /\ held' = [held EXCEPT ![tick.item] = TRUE]
  BY DEF TickReviews
<1>7. hidden' \subseteq Questions /\ copy' \in [Questions -> {"none", "open", "resolved", "acted"}]
  BY <1>1 DEF Types, TickReviews, Resolve
<1>8. Types'
  <2>1. status' \in [Questions -> Statuses] /\ held' \in [Questions -> BOOLEAN]
    BY <1>1, <1>6 DEF Types, Statuses
  <2> QED
    BY <1>1, <1>4, <1>5, <1>7, <2>1 DEF Types, sends
<1>9. KeptOnAnswered'
  BY <1>1, <1>4, <1>6 DEF IInv, KeptOnAnswered, Types, sends
<1>10. OneOpenPerAsk'
  BY <1>1, <1>4, <1>6 DEF IInv, OneOpenPerAsk, Open, Types, sends
<1>11. OnePlace'
  BY <1>4, <1>5 DEF IInv, OnePlace, Sends, sends
<1> QED
  BY <1>8, <1>9, <1>10, <1>11 DEF IInv

LEMMA TickAnnouncedStep == ASSUME IInv, TickAnnounced PROVE IInv'
<1>1. Types'
  <2> DEFINE q == [i \in Questions |-> IF i \in Queued THEN pending[i] ELSE "none"]
  <2>1. q \in Queue /\ tick \in Ticks /\ 0 \in 0 .. MaxQuestions
    BY Constants DEF IInv, Types, Queue, Pending
  <2>2. tick' = [tick EXCEPT !.at = "delivers", !.item = 0, !.queue = q]
    BY DEF TickAnnounced
  <2>3. linked' \in [Questions -> BOOLEAN]
    BY DEF TickAnnounced
  <2> HIDE DEF q
  <2>4. tick' \in Ticks /\ tick'.at = "delivers"
    BY <2>1, <2>2 DEF Ticks, Queue, Pending
  <2> QED
    BY <2>3, <2>4 DEF IInv, TickAnnounced, Types, sends
<1>2. KeptOnAnswered'
  BY Constants DEF IInv, TickAnnounced, Queued, records, sends, vars, Types, Statuses,
       Pending, Queue, Ask, Ticks, Calls, NoCall, KeptOnAnswered
<1>3. OneOpenPerAsk'
  BY Constants DEF IInv, TickAnnounced, Queued, records, sends, vars, Types, Statuses,
       Pending, Queue, Ask, Ticks, Calls, NoCall, OneOpenPerAsk, Open
<1>4. OnePlace'
  BY Constants DEF IInv, TickAnnounced, Queued, records, sends, vars, Types, Statuses,
       Pending, Queue, Ask, Ticks, Calls, NoCall, KeptOnAnswered, OnePlace, Sends
<1> QED
  BY <1>1, <1>2, <1>3, <1>4 DEF IInv

LEMMA TickSkipsStep ==
  ASSUME IInv, NEW i \in Questions, TickDelivers, TickSkips(i), tick.queue[i] # "none"
  PROVE  IInv'
<1>1. Types'
  BY Constants DEF IInv, TickDelivers, TickSkips, Looked, records, sends, vars, Types,
       Statuses, Pending, Queue, Ask, Ticks, Calls, NoCall
<1>2. KeptOnAnswered'
  BY Constants DEF IInv, TickDelivers, TickSkips, Looked, records, sends, vars, Types,
       Statuses, Pending, Queue, Ask, Ticks, Calls, NoCall, KeptOnAnswered
<1>3. OneOpenPerAsk'
  BY Constants DEF IInv, TickDelivers, TickSkips, Looked, records, sends, vars, Types,
       Statuses, Pending, Queue, Ask, Ticks, Calls, NoCall, OneOpenPerAsk, Open
<1>4. OnePlace'
  BY Constants DEF IInv, TickDelivers, TickSkips, Looked, records, sends, vars, Types,
       Statuses, Pending, Queue, Ask, Ticks, Calls, NoCall, KeptOnAnswered, OnePlace, Sends
<1> QED
  BY <1>1, <1>2, <1>3, <1>4 DEF IInv

LEMMA TickDropsStep ==
  ASSUME IInv, NEW i \in Questions, TickDelivers, TickDrops(i), tick.queue[i] # "none", ~Settling(i)
  PROVE  IInv'
<1>1. Types'
  <2>1. /\ Types /\ pending' = [pending EXCEPT ![i] = "none"]
        /\ tick' = [tick EXCEPT !.queue[i] = "none"]
        /\ UNCHANGED <<agent, key, held, pinned, since, copy, hidden, call, answers,
                       faults, answered, sends>>
    BY DEF IInv, TickDelivers, TickDrops, Looked
  <2>2. /\ status' \in [Questions -> Statuses] /\ linked' \in [Questions -> BOOLEAN]
        /\ pending' \in Queue
    BY <2>1 DEF TickDrops, Types, Statuses, Queue, Pending
  <2>3. /\ tick' \in Ticks /\ tick'.at = tick.at /\ tick'.item = tick.item
    BY <2>1 DEF Types, Ticks, Queue, Pending
  <2> QED
    BY <2>1, <2>2, <2>3 DEF Types, sends
<1>2. KeptOnAnswered'
  BY Constants DEF IInv, TickDelivers, TickDrops, Looked, FreeKey, Open, Settling, Kept,
       records, sends, vars, Types, Statuses, Pending, Queue, Ask, Ticks, Calls, NoCall,
       KeptOnAnswered
<1>3. OneOpenPerAsk'
  BY Constants DEF IInv, TickDelivers, TickDrops, Looked, FreeKey, Open, Settling, Kept,
       records, sends, vars, Types, Statuses, Pending, Queue, Ask, Ticks, Calls, NoCall,
       OneOpenPerAsk, Open
<1>4. OnePlace'
  BY Constants DEF IInv, TickDelivers, TickDrops, Looked, FreeKey, Open, Settling, Kept,
       records, sends, vars, Types, Statuses, Pending, Queue, Ask, Ticks, Calls, NoCall,
       KeptOnAnswered, OnePlace, Sends
<1> QED
  BY <1>1, <1>2, <1>3, <1>4 DEF IInv

LEMMA TickSupersedesStep ==
  ASSUME IInv, NEW i \in Questions, TickDelivers, TickSupersedes(i), tick.queue[i] # "none", ~Settling(i)
  PROVE  IInv'
<1>1. Types'
  BY Constants DEF IInv, TickDelivers, TickSupersedes, Looked, Settling, Kept, records,
       sends, vars, Types, Statuses, Pending, Queue, Ask, Ticks, Calls, NoCall
<1>2. KeptOnAnswered'
  BY Constants DEF IInv, TickDelivers, TickSupersedes, Looked, Settling, Kept, records,
       sends, vars, Types, Statuses, Pending, Queue, Ask, Ticks, Calls, NoCall,
       KeptOnAnswered
<1>3. OneOpenPerAsk'
  BY Constants DEF IInv, TickDelivers, TickSupersedes, Looked, Settling, Kept, records,
       sends, vars, Types, Statuses, Pending, Queue, Ask, Ticks, Calls, NoCall,
       OneOpenPerAsk, Open
<1>4. OnePlace'
  BY Constants DEF IInv, TickDelivers, TickSupersedes, Looked, Settling, Kept, records,
       sends, vars, Types, Statuses, Pending, Queue, Ask, Ticks, Calls, NoCall,
       KeptOnAnswered, OnePlace, Sends
<1> QED
  BY <1>1, <1>2, <1>3, <1>4 DEF IInv

LEMMA TickSendsStep ==
  ASSUME IInv, NEW i \in Questions, TickDelivers, TickSends(i), tick.queue[i] # "none", ~Settling(i)
  PROVE  IInv'
<1>1. Types'
  <2>1. tick \in Ticks /\ i \in 0 .. MaxQuestions /\ i # 0
    BY Constants DEF IInv, Types, Questions
  <2>2. tick' = [tick EXCEPT !.at = "sends", !.item = i]
    BY DEF TickSends
  <2>3. tick' \in Ticks /\ tick'.item = i
    BY <2>1, <2>2 DEF Ticks
  <2> QED
    BY <2>1, <2>3 DEF IInv, TickDelivers, TickSends, records, sends, Types
<1>2. KeptOnAnswered'
  BY Constants DEF IInv, TickDelivers, TickSends, Settling, Kept, InFlight, records, sends,
       vars, Types, Statuses, Pending, Queue, Ask, Ticks, Calls, NoCall, KeptOnAnswered
<1>3. OneOpenPerAsk'
  BY Constants DEF IInv, TickDelivers, TickSends, Settling, Kept, InFlight, records, sends,
       vars, Types, Statuses, Pending, Queue, Ask, Ticks, Calls, NoCall, OneOpenPerAsk, Open
<1>4. OnePlace'
  BY Constants DEF IInv, TickDelivers, TickSends, Settling, Kept, InFlight, records, sends,
       vars, Types, Statuses, Pending, Queue, Ask, Ticks, Calls, NoCall, KeptOnAnswered,
       OnePlace, Sends
<1> QED
  BY <1>1, <1>2, <1>3, <1>4 DEF IInv

LEMMA TickSentStep == ASSUME IInv, TickSent PROVE IInv'
<1> DEFINE i == tick.item
           q == [tick.queue EXCEPT ![i] = "none"]
<1>1. Types /\ tick \in Ticks /\ i \in Questions /\ tick.at = "sends" /\ MaxQuestions \in Nat
  BY Constants DEF IInv, Types, TickSent, Ticks, Questions
<1>2. /\ tick' = [tick EXCEPT !.at = "delivers", !.item = 0, !.queue = q]
      /\ UNCHANGED <<agent, status, key, held, pinned, since, linked, copy, hidden, call,
                     answers, faults, answered, orphans, doubtful, back>>
  BY DEF TickSent
<1>3. tick.queue \in Queue /\ q \in Queue /\ q[i] = "none"
      /\ \A x \in Questions \ {i} : q[x] = tick.queue[x]
  BY <1>1 DEF Ticks, Queue, Pending
<1>4. \/ /\ pending' = [pending EXCEPT ![i] = "none"] /\ UNCHANGED child
         /\ handed' = [handed EXCEPT ![i] = Min({2, @ + 1})]
      \/ /\ pending' = [pending EXCEPT ![i] = IF @ = "none" THEN @ ELSE "sending"]
         /\ UNCHANGED handed /\ child' = [child EXCEPT ![i] = "kept"]
      \/ UNCHANGED <<pending, child, handed>>
  BY <1>1 DEF TickSent, Types, Queue
<1>5. handed[i] \in 0 .. 2 /\ Min({2, handed[i] + 1}) \in 0 .. 2
      /\ (handed[i] = 0 => Min({2, handed[i] + 1}) = 1)
  BY <1>1, Bump DEF Types
<1>6. i \notin doubtful /\ i \notin back => pending[i] = "waits" /\ handed[i] = 0
  BY <1>1 DEF IInv, OnePlace, Sends
<1>7. i \notin doubtful /\ i \notin back => child[i] # "kept" /\ i \notin orphans
  BY <1>1, <1>6 DEF IInv, OnePlace
<1> HIDE DEF i, q
<1>8. tick' \in Ticks /\ tick'.at = "delivers" /\ tick'.queue = q
  <2>1. 0 \in 0 .. MaxQuestions /\ q \in [Questions -> {"none", "waits", "sending", "silent"}]
    BY <1>1, <1>3 DEF Queue, Pending
  <2>2. tick' \in Ticks
    BY <1>1, <1>2, <2>1 DEF Ticks
  <2> QED
    BY <1>1, <1>2, <2>2 DEF Ticks
<1>9. Types'
  <2>1. pending' \in Queue
    BY <1>1, <1>4 DEF Types, Queue, Pending
  <2>2. child' \in [Questions -> {"none", "answer", "kept"}] /\ handed' \in [Questions -> 0 .. 2]
    BY <1>1, <1>4, <1>5 DEF Types
  <2> QED
    BY <1>1, <1>2, <1>8, <2>1, <2>2 DEF Types
<1>10. KeptOnAnswered'
  BY <1>1, <1>2, <1>4 DEF IInv, KeptOnAnswered, Types, Queue
<1>11. OneOpenPerAsk'
  BY <1>2 DEF IInv, OneOpenPerAsk, Open
<1>12. OnePlace'
  <2> SUFFICES ASSUME NEW x \in Questions, x \notin doubtful, x \notin back
               PROVE  /\ pending'[x] # "silent" /\ tick'.queue[x] # "silent"
                      /\ tick'.queue[x] = "waits" => pending'[x] = "waits"
                      /\ Sends(x)' => pending'[x] = "waits" /\ handed'[x] = 0
                      /\ child'[x] = "kept" \/ x \in orphans' => pending'[x] = "sending" /\ handed'[x] = 0
                      /\ ~(child'[x] = "kept" /\ x \in orphans')
                      /\ handed'[x] # 0 => handed'[x] = 1 /\ pending'[x] \in {"none", "sending"}
    BY <1>2 DEF OnePlace
  <2>1. ~Sends(x)' /\ orphans' = orphans
    BY <1>2, <1>8 DEF Sends
  <2>2. CASE x = i
    <3>1. tick'.queue[x] = "none" /\ x \notin orphans /\ pending[x] = "waits"
          /\ handed[x] = 0 /\ child[x] # "kept"
      BY <1>3, <1>6, <1>7, <1>8, <2>2
    <3>2. \/ pending'[x] = "none" /\ child'[x] # "kept" /\ handed'[x] = 1
          \/ pending'[x] = "sending" /\ child'[x] = "kept" /\ handed'[x] = 0
          \/ pending'[x] = "waits" /\ child'[x] # "kept" /\ handed'[x] = 0
      BY <1>1, <1>4, <1>5, <2>2, <3>1 DEF Types, Queue
    <3> QED
      BY <2>1, <3>1, <3>2
  <2>3. CASE x # i
    <3>1. pending'[x] = pending[x] /\ child'[x] = child[x] /\ handed'[x] = handed[x]
          /\ tick'.queue[x] = tick.queue[x]
      BY <1>1, <1>3, <1>4, <1>8, <2>3 DEF Types, Queue
    <3> QED
      BY <2>1, <3>1 DEF IInv, OnePlace
  <2> QED
    BY <2>2, <2>3
<1> QED
  BY <1>9, <1>10, <1>11, <1>12 DEF IInv

LEMMA TickClosesStep == ASSUME IInv, TickCloses PROVE IInv'
<1>1. Types'
  BY Constants DEF IInv, TickCloses, Idle, Settled, Resolve, records, sends, vars, Types,
       Statuses, Pending, Queue, Ask, Ticks, Calls, NoCall
<1>2. KeptOnAnswered'
  BY Constants DEF IInv, TickCloses, Idle, Settled, Resolve, records, sends, vars, Types,
       Statuses, Pending, Queue, Ask, Ticks, Calls, NoCall, KeptOnAnswered
<1>3. OneOpenPerAsk'
  BY Constants DEF IInv, TickCloses, Idle, Settled, Resolve, records, sends, vars, Types,
       Statuses, Pending, Queue, Ask, Ticks, Calls, NoCall, OneOpenPerAsk, Open
<1>4. OnePlace'
  BY Constants DEF IInv, TickCloses, Idle, Settled, Resolve, records, sends, vars, Types,
       Statuses, Pending, Queue, Ask, Ticks, Calls, NoCall, KeptOnAnswered, OnePlace, Sends
<1> QED
  BY <1>1, <1>2, <1>3, <1>4 DEF IInv

LEMMA ChildEndsStep == ASSUME IInv, NEW i \in Questions, ChildEnds(i) PROVE IInv'
<1>1. /\ Types /\ child[i] # "none" /\ child' = [child EXCEPT ![i] = "none"]
      /\ UNCHANGED <<agent, key, held, pinned, since, copy, hidden, call, tick, answers, faults,
                     answered, orphans, doubtful>>
  BY DEF IInv, ChildEnds
<1>2. \/ UNCHANGED <<status, linked, back, pending, handed>>
      \/ /\ back' = back \cup {i} /\ status' = [status EXCEPT ![i] = "open"]
         /\ linked' = [linked EXCEPT ![i] = FALSE] /\ UNCHANGED <<pending, handed>>
      \/ /\ child[i] = "kept" /\ pending' = [pending EXCEPT ![i] = "none"]
         /\ handed' = [handed EXCEPT ![i] = Min({2, @ + 1})] /\ UNCHANGED <<status, linked, back>>
      \/ /\ child[i] = "kept" /\ UNCHANGED <<status, linked, back, handed>>
         /\ pending' = [pending EXCEPT ![i] = IF @ = "none" THEN "none" ELSE "waits"]
  <2>1. PICK reached \in BOOLEAN :
         \/ /\ child[i] = "answer"
            /\ status' = [status EXCEPT ![i] = IF ~reached /\ status[i] = "answered" THEN "open" ELSE @]
            /\ linked' = [linked EXCEPT ![i] = @ /\ ~(~reached /\ status[i] = "answered")]
            /\ back' = IF ~reached /\ status[i] = "answered" THEN back \cup {i} ELSE back
            /\ UNCHANGED <<pending, handed>>
         \/ /\ child[i] = "kept"
            /\ pending' = [pending EXCEPT ![i] =
                             IF @ = "none" \/ reached THEN "none" ELSE "waits"]
            /\ handed' = [handed EXCEPT ![i] = IF reached THEN Min({2, @ + 1}) ELSE @]
            /\ UNCHANGED <<status, linked, back>>
    BY DEF ChildEnds
  <2> QED
    BY <1>1, <2>1 DEF Types, Queue
<1>3. handed[i] \in 0 .. 2 /\ Min({2, handed[i] + 1}) \in 0 .. 2
      /\ (handed[i] = 0 => Min({2, handed[i] + 1}) = 1)
  BY <1>1, Bump DEF Types
<1>4. Types'
  <2>1. /\ status' \in [Questions -> Statuses] /\ linked' \in [Questions -> BOOLEAN]
        /\ pending' \in Queue /\ back' \subseteq Questions
    BY <1>1, <1>2 DEF Types, Statuses, Queue, Pending
  <2>2. child' \in [Questions -> {"none", "answer", "kept"}] /\ handed' \in [Questions -> 0 .. 2]
    BY <1>1, <1>2, <1>3 DEF Types
  <2> QED
    BY <1>1, <2>1, <2>2 DEF Types
<1>5. KeptOnAnswered'
  BY <1>1, <1>2 DEF IInv, KeptOnAnswered, Types, Queue
<1>6. OneOpenPerAsk'
  <2>1. /\ back \subseteq back' /\ key' = key
        /\ \A x \in Questions \ back' : status'[x] = status[x]
    BY <1>1, <1>2 DEF Types
  <2> QED
    BY <2>1 DEF IInv, OneOpenPerAsk, Open
<1>7. OnePlace'
  <2> SUFFICES ASSUME NEW x \in Questions, x \notin doubtful, x \notin back'
               PROVE  /\ pending'[x] # "silent" /\ tick'.queue[x] # "silent"
                      /\ tick'.queue[x] = "waits" => pending'[x] = "waits"
                      /\ Sends(x)' => pending'[x] = "waits" /\ handed'[x] = 0
                      /\ child'[x] = "kept" \/ x \in orphans' => pending'[x] = "sending" /\ handed'[x] = 0
                      /\ ~(child'[x] = "kept" /\ x \in orphans')
                      /\ handed'[x] # 0 => handed'[x] = 1 /\ pending'[x] \in {"none", "sending"}
    BY <1>1 DEF OnePlace
  <2>1. x \notin back /\ (Sends(x)' <=> Sends(x))
    BY <1>1, <1>2 DEF Sends
  <2>2. CASE x = i /\ child[i] = "kept"
    <3>1. pending[x] = "sending" /\ handed[x] = 0 /\ x \notin orphans /\ ~Sends(x)
          /\ tick.queue[x] \notin {"waits", "silent"}
      BY <2>1, <2>2 DEF IInv, OnePlace
    <3>2. /\ child'[x] = "none" /\ tick' = tick /\ orphans' = orphans
          /\ \/ pending'[x] = "sending" /\ handed'[x] = 0
             \/ pending'[x] = "none" /\ handed'[x] = 1
             \/ pending'[x] = "waits" /\ handed'[x] = 0
      BY <1>1, <1>2, <1>3, <2>2, <3>1 DEF Types, Queue
    <3> QED
      BY <2>1, <3>1, <3>2
  <2>3. CASE x # i \/ child[i] # "kept"
    <3>1. pending'[x] = pending[x] /\ handed'[x] = handed[x] /\ tick' = tick
          /\ orphans' = orphans /\ (child'[x] = "kept" => child[x] = "kept")
      BY <1>1, <1>2, <2>3 DEF Types, Queue
    <3> QED
      BY <2>1, <3>1 DEF IInv, OnePlace
  <2> QED
    BY <2>2, <2>3
<1> QED
  BY <1>4, <1>5, <1>6, <1>7 DEF IInv

LEMMA OrphanEndsStep == ASSUME IInv, NEW i \in Questions, OrphanEnds(i) PROVE IInv'
<1>1. Types'
  <2>1. handed[i] \in 0 .. 2 /\ Min({2, handed[i] + 1}) \in 0 .. 2
        /\ (handed[i] = 0 => Min({2, handed[i] + 1}) = 1)
    BY Bump DEF IInv, Types
  <2>2. handed' \in [Questions -> 0 .. 2] /\ orphans' \subseteq Questions
    BY <2>1 DEF IInv, Types, OrphanEnds
  <2> QED
    BY <2>2 DEF IInv, Types, OrphanEnds, records
<1>2. KeptOnAnswered'
  BY Constants DEF IInv, OrphanEnds, records, sends, vars, Types, Statuses, Pending, Queue,
       Ask, Ticks, Calls, NoCall, KeptOnAnswered
<1>3. OneOpenPerAsk'
  BY Constants DEF IInv, OrphanEnds, records, sends, vars, Types, Statuses, Pending, Queue,
       Ask, Ticks, Calls, NoCall, OneOpenPerAsk, Open
<1>4. OnePlace'
  <2>1. handed[i] \in 0 .. 2 /\ Min({2, handed[i] + 1}) \in 0 .. 2
        /\ (handed[i] = 0 => Min({2, handed[i] + 1}) = 1)
    BY Bump DEF IInv, Types
  <2>2. /\ i \in orphans /\ orphans' = orphans \ {i}
        /\ handed'[i] \in {handed[i], Min({2, handed[i] + 1})}
        /\ \A x \in Questions \ {i} : handed'[x] = handed[x]
        /\ UNCHANGED <<pending, tick, child, doubtful, back>>
    BY <2>1 DEF IInv, Types, OrphanEnds, records
  <2> QED
    BY <2>1, <2>2 DEF IInv, OnePlace, Sends
<1> QED
  BY <1>1, <1>2, <1>3, <1>4 DEF IInv

LEMMA SendAgesStep == ASSUME IInv, NEW i \in Questions, SendAges(i) PROVE IInv'
<1>1. Types'
  BY Constants DEF IInv, SendAges, records, sends, vars, Types, Statuses, Pending, Queue,
       Ask, Ticks, Calls, NoCall
<1>2. KeptOnAnswered'
  BY Constants DEF IInv, SendAges, records, sends, vars, Types, Statuses, Pending, Queue,
       Ask, Ticks, Calls, NoCall, KeptOnAnswered
<1>3. OneOpenPerAsk'
  BY Constants DEF IInv, SendAges, records, sends, vars, Types, Statuses, Pending, Queue,
       Ask, Ticks, Calls, NoCall, OneOpenPerAsk, Open
<1>4. OnePlace'
  BY Constants DEF IInv, SendAges, records, sends, vars, Types, Statuses, Pending, Queue,
       Ask, Ticks, Calls, NoCall, KeptOnAnswered, OnePlace, Sends
<1> QED
  BY <1>1, <1>2, <1>3, <1>4 DEF IInv

LEMMA DayPassesStep == ASSUME IInv, NEW i \in Questions, DayPasses(i) PROVE IInv'
<1>1. Types'
  BY Constants DEF IInv, DayPasses, records, sends, vars, Types, Statuses, Pending, Queue,
       Ask, Ticks, Calls, NoCall
<1>2. KeptOnAnswered'
  BY Constants DEF IInv, DayPasses, records, sends, vars, Types, Statuses, Pending, Queue,
       Ask, Ticks, Calls, NoCall, KeptOnAnswered
<1>3. OneOpenPerAsk'
  BY Constants DEF IInv, DayPasses, records, sends, vars, Types, Statuses, Pending, Queue,
       Ask, Ticks, Calls, NoCall, OneOpenPerAsk, Open
<1>4. OnePlace'
  BY Constants DEF IInv, DayPasses, records, sends, vars, Types, Statuses, Pending, Queue,
       Ask, Ticks, Calls, NoCall, KeptOnAnswered, OnePlace, Sends
<1> QED
  BY <1>1, <1>2, <1>3, <1>4 DEF IInv

LEMMA ExpiresStep == ASSUME IInv, NEW i \in Questions, Expires(i) PROVE IInv'
<1>1. Types'
  BY Constants DEF IInv, Expires, Fault, Resolve, records, sends, vars, Types, Statuses,
       Pending, Queue, Ask, Ticks, Calls, NoCall
<1>2. KeptOnAnswered'
  BY Constants DEF IInv, Expires, Fault, Resolve, records, sends, vars, Types, Statuses,
       Pending, Queue, Ask, Ticks, Calls, NoCall, KeptOnAnswered
<1>3. OneOpenPerAsk'
  BY Constants DEF IInv, Expires, Fault, Resolve, records, sends, vars, Types, Statuses,
       Pending, Queue, Ask, Ticks, Calls, NoCall, OneOpenPerAsk, Open
<1>4. OnePlace'
  BY Constants DEF IInv, Expires, Fault, Resolve, records, sends, vars, Types, Statuses,
       Pending, Queue, Ask, Ticks, Calls, NoCall, KeptOnAnswered, OnePlace, Sends
<1> QED
  BY <1>1, <1>2, <1>3, <1>4 DEF IInv

LEMMA HoldEndsStep == ASSUME IInv, NEW i \in Questions, HoldEnds(i) PROVE IInv'
<1>1. Types'
  BY Constants DEF IInv, HoldEnds, Fault, records, sends, vars, Types, Statuses, Pending,
       Queue, Ask, Ticks, Calls, NoCall
<1>2. KeptOnAnswered'
  BY Constants DEF IInv, HoldEnds, Fault, records, sends, vars, Types, Statuses, Pending,
       Queue, Ask, Ticks, Calls, NoCall, KeptOnAnswered
<1>3. OneOpenPerAsk'
  BY Constants DEF IInv, HoldEnds, Fault, records, sends, vars, Types, Statuses, Pending,
       Queue, Ask, Ticks, Calls, NoCall, OneOpenPerAsk, Open
<1>4. OnePlace'
  BY Constants DEF IInv, HoldEnds, Fault, records, sends, vars, Types, Statuses, Pending,
       Queue, Ask, Ticks, Calls, NoCall, KeptOnAnswered, OnePlace, Sends
<1> QED
  BY <1>1, <1>2, <1>3, <1>4 DEF IInv

LEMMA RestartStep == ASSUME IInv, Restart PROVE IInv'
<1>1. Types'
  <2>1. tick' \in Ticks /\ tick'.at = "idle"
    BY Constants DEF Restart, Idle, Ticks
  <2>2. call' \in [Questions -> Calls] /\ child' \in [Questions -> {"none", "answer", "kept"}]
    BY DEF Restart, Calls, NoCall
  <2>3. handed' \in [Questions -> 0 .. 2]
    <3>1. \A n \in 0 .. 2 : Min({2, n + 1}) \in 0 .. 2
      BY Bump
    <3>2. handed \in [Questions -> 0 .. 2]
      BY DEF IInv, Types
    <3>3. \/ handed' = handed
          \/ handed' = [handed EXCEPT ![tick.item] = Min({2, @ + 1})]
      BY DEF Restart
    <3> QED
      BY <3>1, <3>2, <3>3
  <2>4. tick.at = "sends" => tick.item \in Questions
    BY Constants DEF IInv, Types, Ticks, Questions
  <2>5. doubtful' \subseteq Questions /\ orphans' \subseteq Questions
    BY <2>4 DEF IInv, Types, Restart
  <2>6. faults' \in 0 .. MaxFaults
    BY Constants DEF IInv, Types, Restart, Fault
  <2> QED
    BY <2>1, <2>2, <2>3, <2>5, <2>6 DEF IInv, Types, Restart, records
<1>2. KeptOnAnswered'
  BY Constants DEF IInv, Restart, Fault, Idle, records, sends, vars, Types, Statuses,
       Pending, Queue, Ask, Ticks, Calls, NoCall, KeptOnAnswered
<1>3. OneOpenPerAsk'
  BY Constants DEF IInv, Restart, Fault, Idle, records, sends, vars, Types, Statuses,
       Pending, Queue, Ask, Ticks, Calls, NoCall, OneOpenPerAsk, Open
<1>4. OnePlace'
  BY Constants DEF IInv, Restart, Fault, Idle, records, sends, vars, Types, Statuses,
       Pending, Queue, Ask, Ticks, Calls, NoCall, KeptOnAnswered, OnePlace, Sends
<1> QED
  BY <1>1, <1>2, <1>3, <1>4 DEF IInv

LEMMA StutterStep == ASSUME IInv, UNCHANGED vars PROVE IInv'
<1>1. Types'
  BY Constants DEF IInv, records, sends, vars, Types, Statuses, Pending, Queue, Ask, Ticks,
       Calls, NoCall
<1>2. KeptOnAnswered'
  BY Constants DEF IInv, records, sends, vars, Types, Statuses, Pending, Queue, Ask, Ticks,
       Calls, NoCall, KeptOnAnswered
<1>3. OneOpenPerAsk'
  BY Constants DEF IInv, records, sends, vars, Types, Statuses, Pending, Queue, Ask, Ticks,
       Calls, NoCall, OneOpenPerAsk, Open
<1>4. OnePlace'
  BY Constants DEF IInv, records, sends, vars, Types, Statuses, Pending, Queue, Ask, Ticks,
       Calls, NoCall, KeptOnAnswered, OnePlace, Sends
<1> QED
  BY <1>1, <1>2, <1>3, <1>4 DEF IInv

\* Every action of the owner, the agent and the scan keeps the invariant.
LEMMA Step == IInv /\ [Next]_vars => IInv'
<1> SUFFICES ASSUME IInv, [Next]_vars PROVE IInv'
  OBVIOUS
<1>1. CASE TickDelivers
  <2> PICK i \in Questions :
         /\ tick.queue[i] # "none"
         /\ TickSkips(i) \/ (~Settling(i) /\ (TickDrops(i) \/ TickSupersedes(i) \/ TickSends(i)))
    BY <1>1 DEF TickDelivers
  <2> QED
    BY <1>1, TickSkipsStep, TickDropsStep, TickSupersedesStep, TickSendsStep
<1>2. CASE TickStep
  BY <1>1, <1>2, TickReadsStep, TickAsksStep, TickReviewsStep, TickAnnouncedStep,
     TickSentStep, TickClosesStep DEF TickStep
<1>3. CASE AgentSpeaks \/ Restart
  BY <1>3, AgentSpeaksStep, RestartStep
<1>4. ASSUME NEW i \in Questions, Answer(i) \/ CallStep(i) \/ Dismiss(i) \/ Reopen(i)
      PROVE  IInv'
  BY <1>4, AnswerStep, AnswerWaitsStep, AnswerSendsStep, AnswerSentStep, DismissStep,
     ReopenStep DEF CallStep
<1>5. ASSUME NEW i \in Questions,
             ChildEnds(i) \/ OrphanEnds(i) \/ SendAges(i) \/ DayPasses(i) \/ Expires(i) \/ HoldEnds(i)
      PROVE  IInv'
  BY <1>5, ChildEndsStep, OrphanEndsStep, SendAgesStep, DayPassesStep, ExpiresStep, HoldEndsStep
<1>6. CASE UNCHANGED vars
  BY <1>6, StutterStep
<1> QED
  BY <1>2, <1>3, <1>4, <1>5, <1>6 DEF Next

-----------------------------------------------------------------------------
(***************************************************************************)
(* Theorems                                                                *)
(***************************************************************************)
\* The invariant holds before the agent has said anything.
THEOREM Initial == Init => IInv
<1> SUFFICES ASSUME Init PROVE IInv
  OBVIOUS
<1>1. tick \in Ticks /\ tick.at = "idle" /\ \A i \in Questions : tick.queue[i] = "none"
  BY Constants DEF Init, Idle, Ticks
<1>2. call \in [Questions -> Calls]
  BY DEF Init, Calls, NoCall
<1>3. Types
  <2>1. 0 \in Ask /\ 0 \in 0 .. MaxAnswers /\ 0 \in 0 .. MaxFaults
    BY Constants DEF Ask
  <2>2. agent \in [n : Ask, asks : BOOLEAN] /\ status \in [Questions -> Statuses]
    BY <2>1 DEF Init, Statuses
  <2>3. pending \in Queue /\ child \in [Questions -> {"none", "answer", "kept"}]
    BY DEF Init, Queue, Pending
  <2>4. key \in [Questions -> Ask] /\ answered \in [Questions -> Ask] /\ handed \in [Questions -> 0 .. 2]
    BY <2>1 DEF Init
  <2> QED
    BY <1>1, <1>2, <2>1, <2>2, <2>3, <2>4 DEF Init, Types
<1>4. KeptOnAnswered
  BY DEF Init, KeptOnAnswered
<1>5. OneOpenPerAsk
  BY DEF Init, OneOpenPerAsk, Open
<1>6. OnePlace
  BY <1>1 DEF Init, OnePlace, Sends
<1> QED
  BY <1>3, <1>4, <1>5, <1>6 DEF IInv

\* The invariant holds in every reachable state of the supervisor.
THEOREM Invariance == Spec => []IInv
BY Initial, Step, PTL DEF Spec

\* Every variable keeps its type, and an answer is kept only on a record that
\* the owner answered, or that came back to them as a background send failed.
THEOREM TypeCorrect == Spec => []TypeOK
<1>1. IInv => TypeOK
  BY DEF IInv, Types, KeptOnAnswered, TypeOK, Ask, Queue, Pending
<1> QED
  BY <1>1, Invariance, PTL

\* However many records, holds, kept answers, reopenings and restarts there are,
\* one ask is never put to the owner twice, unless a failed background send
\* reopened it.
THEOREM AskedOnce == Spec => []OneOpenPerAsk
<1>1. IInv => OneOpenPerAsk
  BY DEF IInv
<1> QED
  BY <1>1, Invariance, PTL

\* A kept answer is in one place at a time, so it reaches its agent at most once,
\* unless a restart cut its typing, a send was silent too long or one failed.
THEOREM HandedAtMostOnce == Spec => []HandedOnce
<1>1. IInv => HandedOnce
  BY DEF IInv, OnePlace, HandedOnce, Types
<1> QED
  BY <1>1, Invariance, PTL
=============================================================================
