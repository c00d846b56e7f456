------------------------- MODULE ToolExecutorProofs -------------------------
(* Theorems about the limits and the budgets of the tool executor, for any *)
(* plans, tools, limits, sizes of results and numbers of requests and      *)
(* calls.                                                                  *)
EXTENDS ToolExecutor, FiniteSetTheorems, FunctionTheorems, NaturalsInduction,
        WellFoundedInduction, SequenceTheorems, TLAPS

-----------------------------------------------------------------------------
(* The inductive invariant.                                                *)

\* Calls of r that were accepted by some batch.
Ran(r) == {c \in Calls : RequestOf(c) = r /\ pc[c] \notin {"new", "rejected"}}

LetThroughOf(r, t) == {c \in LetThrough(r) : ToolOf[c] = t}

\* A call that is not new belongs to a batch its request has begun.
BatchesOK ==
    /\ \A r \in Requests :
          /\ batch[r] <= Len(Plan[r])
          /\ phase[r] # "idle" => batch[r] >= 1
    /\ \A c \in Calls : pc[c] # "new" =>
          /\ RequestOf(c) \in Requests
          /\ \E b \in 1..batch[RequestOf(c)] : c \in ToSet(Plan[RequestOf(c)][b])

\* The permits a call holds follow from where it is: it takes the three in
\* this order and gives them back together.
PermitsOK ==
    /\ classHeld = {c \in Calls : pc[c] \in {"request", "global", "run", "backoff"}}
    /\ reqHeld = {c \in Calls : pc[c] \in {"global", "run", "backoff"}}
    /\ globalHeld = {c \in Calls : pc[c] \in {"run", "backoff"}}

\* No semaphore has given more permits than it has.
SemaphoresOK ==
    /\ IsFiniteSet(globalHeld) /\ Cardinality(globalHeld) <= GlobalConcurrency
    /\ \A r \in Requests :
          LET own == {c \in reqHeld : RequestOf(c) = r}
          IN  IsFiniteSet(own) /\ Cardinality(own) <= RequestConcurrency
    /\ \A r \in Requests, k \in Classes :
          LET own == {c \in classHeld : RequestOf(c) = r /\ ClassKey(c) = k}
          IN  IsFiniteSet(own) /\ Cardinality(own) <= semLimit[r][k]

\* calls_used lags behind the accepted calls by those of the present batch.
CapOK ==
    \A r \in Requests :
        /\ IsFiniteSet(Ran(r)) /\ Cardinality(Ran(r)) <= MaxCalls
        /\ phase[r] = "idle" => callsUsed[r] = Cardinality(Ran(r))
        /\ phase[r] # "idle" => callsUsed[r] = Cardinality(Ran(r) \ BatchCalls(r))

\* Every call let through has been counted against the quota of its tool.
QuotaOK ==
    \A r \in Requests, t \in Tools :
        /\ IsFiniteSet(LetThroughOf(r, t))
        /\ Cardinality(LetThroughOf(r, t)) <= toolCounts[r][t]
        /\ toolCounts[r][t] <= Quota[t]

IInv ==
    /\ TypeOK /\ BatchesOK /\ PermitsOK /\ SemaphoresOK /\ CapOK /\ QuotaOK
    /\ CancelledLeavesNothing

-----------------------------------------------------------------------------
(* Lemmas about the operators of the model.                                *)

\* Every nonempty set of natural numbers has a least element.
LEMMA LeastExists ==
  ASSUME NEW S \in SUBSET Nat, S # {}
  PROVE  \E x \in S : \A y \in S : x <= y
  <1>1. PICK x \in S : \A y \in S : <<y, x>> \notin OpToRel(<, Nat)
    BY WFMin, NatLessThanWellFounded, Zenon
  <1>2. \A y \in S : ~(y < x)
    BY <1>1, Zenon DEF OpToRel
  <1> QED BY <1>2

Iterates(f, V, first, n, step) ==
    /\ f \in [0..n -> V]
    /\ f[0] = first
    /\ \A i \in 1..n : f[i] = step[<<f[i - 1], i>>]

\* A function on 0..n can be defined by its first value and a step.
LEMMA RecursionOnInterval ==
  ASSUME NEW V, NEW first \in V, NEW n \in Nat, NEW step \in [V \X (1..n) -> V]
  PROVE  \E f : Iterates(f, V, first, n, step)
  <1> DEFINE Good(m) == \E f \in [0..m -> V] :
                          /\ f[0] = first
                          /\ \A i \in 1..m : f[i] = step[<<f[i - 1], i>>]
             Bad == {m \in 0..n : ~Good(m)}
  <1>1. Good(0)
    <2> DEFINE g == [i \in 0..0 |-> first]
    <2>1. g \in [0..0 -> V] /\ g[0] = first /\ 1..0 = {}
      OBVIOUS
    <2> HIDE DEF g
    <2> QED BY <2>1
  <1>2. ASSUME NEW m \in 1..n, Good(m - 1)
        PROVE  Good(m)
    <2>1. PICK f \in [0..(m - 1) -> V] :
             /\ f[0] = first
             /\ \A i \in 1..(m - 1) : f[i] = step[<<f[i - 1], i>>]
      BY <1>2
    <2> DEFINE g == [i \in 0..m |-> IF i = m THEN step[<<f[m - 1], m>>] ELSE f[i]]
    <2>2. f[m - 1] \in V /\ m - 1 \in 0..m /\ m \in 0..m
      OBVIOUS
    <2>3. step[<<f[m - 1], m>>] \in V
      BY <2>2
    <2>4. g \in [0..m -> V]
      BY <2>3
    <2>5. \A i \in 0..(m - 1) : g[i] = f[i]
      OBVIOUS
    <2>6. g[m] = step[<<f[m - 1], m>>]
      OBVIOUS
    <2>7. g[0] = first
      BY <2>1, <2>5
    <2>8. ASSUME NEW i \in 1..m
          PROVE  g[i] = step[<<g[i - 1], i>>]
      <3> HIDE DEF g
      <3>1. i - 1 \in 0..(m - 1) /\ g[i - 1] = f[i - 1]
        BY <2>5
      <3>2. CASE i = m
        BY <3>1, <3>2, <2>6
      <3>3. CASE i # m
        <4>1. i \in 1..(m - 1) /\ i \in 0..(m - 1)
          BY <3>3
        <4> QED BY <4>1, <3>1, <2>1, <2>5
      <3> QED BY <3>2, <3>3
    <2> HIDE DEF g
    <2> QED BY <2>4, <2>7, <2>8
  <1> HIDE DEF Good
  <1>3. Bad = {}
    <2> SUFFICES ASSUME Bad # {} PROVE FALSE
      OBVIOUS
    <2>1. Bad \in SUBSET Nat
      OBVIOUS
    <2> HIDE DEF Bad
    <2>2. PICK m \in Bad : \A j \in Bad : m <= j
      BY <2>1, LeastExists
    <2>3. m \in 1..n /\ m - 1 \in 0..n /\ ~Good(m)
      BY <2>2, <1>1 DEF Bad
    <2>4. Good(m - 1)
      BY <2>2, <2>3 DEF Bad
    <2> QED BY <2>3, <2>4, <1>2
  <1>4. Good(n)
    BY <1>3
  <1> QED BY <1>4 DEF Good, Iterates

\* A finite set grows by at most one with one element.
LEMMA OneMore ==
  ASSUME NEW S, IsFiniteSet(S), NEW x
  PROVE  /\ IsFiniteSet(S \cup {x})
         /\ Cardinality(S \cup {x}) <= Cardinality(S) + 1
         /\ Cardinality(S) \in Nat /\ Cardinality(S \cup {x}) \in Nat
  <1>1. Cardinality(S) \in Nat
    BY FS_CardinalityType
  <1>2. /\ IsFiniteSet(S \cup {x})
        /\ Cardinality(S \cup {x}) = IF x \in S THEN Cardinality(S) ELSE Cardinality(S) + 1
    BY FS_AddElement
  <1> QED BY <1>1, <1>2

\* Every result is estimated at a number of tokens.
LEMMA EstimateTyped ==
  ASSUME NEW size \in Nat
  PROVE  EstimatedTokens(size) \in Nat
  <1> DEFINE S == {1, (size + 3) \div 4}
  <1>1. (size + 3) \div 4 \in Nat
    OBVIOUS
  <1>2. \E x \in S : \A y \in S : x >= y
    BY <1>1
  <1>3. Max(S) \in S
    BY <1>2 DEF Max
  <1> QED BY <1>1, <1>3 DEF EstimatedTokens

\* A call belongs to the request that emits it.
LEMMA OwnerOfEmitted ==
  ASSUME NEW r \in Requests, NEW b \in DOMAIN Plan[r], NEW c \in Calls, c \in ToSet(Plan[r][b])
  PROVE  /\ RequestOf(c) = r
         /\ \A d \in DOMAIN Plan[r] : c \in ToSet(Plan[r][d]) => d = b
  <1>1. PICK i \in DOMAIN Plan[r][b] : Plan[r][b][i] = c
    BY DEF ToSet
  <1>2. ASSUME NEW q \in Requests, NEW d \in DOMAIN Plan[q], c \in ToSet(Plan[q][d])
        PROVE  q = r /\ d = b
    <2>1. PICK j \in DOMAIN Plan[q][d] : Plan[q][d][j] = c
      BY <1>2 DEF ToSet
    <2> QED BY <1>1, <2>1, EmittedOnce
  <1>3. RequestOf(c) = r
    BY <1>2 DEF RequestOf, Owner
  <1> QED BY <1>2, <1>3

\* What the turn has used is charged result by result.
LEMMA TurnCharges ==
  ASSUME TypeOK, NEW r \in Requests, batch[r] \in DOMAIN Plan[r]
  PROVE  Turn(r) = [i \in 0..Len(Plan[r][batch[r]]) |->
                      IF i = 0 THEN [bytes |-> 0, tokens |-> 0]
                      ELSE Charge(r, Turn(r)[i - 1], Plan[r][batch[r]][i])]
  <1> DEFINE calls == Plan[r][batch[r]]
             n     == Len(calls)
             V     == [bytes : Nat, tokens : Nat]
             start == [bytes |-> 0, tokens |-> 0]
             step  == [p \in V \X (1..n) |-> Charge(r, p[1], calls[p[2]])]
             Is(f) == f = [i \in 0..n |-> IF i = 0 THEN start ELSE Charge(r, f[i - 1], calls[i])]
  <1>1. calls \in Seq(Calls) /\ n \in Nat
    BY ExecutorConstants
  <1>2. \A i \in 1..n : calls[i] \in Calls
    BY <1>1
  <1>3. ASSUME NEW u \in V, NEW c \in Calls
        PROVE  Charge(r, u, c) \in V
    <2>1. ErrorSize \in Nat /\ result[c].size \in Nat
      BY ExecutorConstants DEF TypeOK
    <2>2. FinalResult(r, u, c).size \in Nat
      BY <2>1 DEF FinalResult, OwnResult, ErrorResult
    <2>3. EstimatedTokens(FinalResult(r, u, c).size) \in Nat
      BY <2>2, EstimateTyped
    <2> QED BY <2>2, <2>3 DEF Charge
  <1>4. start \in V
    OBVIOUS
  <1>5. step \in [V \X (1..n) -> V]
    BY <1>2, <1>3
  <1>6. \A u \in V, i \in 1..n : step[<<u, i>>] = Charge(r, u, calls[i])
    OBVIOUS
  <1> HIDE DEF step
  <1>7. PICK f : Iterates(f, V, start, n, step)
    <2>1. n \in Nat
      BY <1>1
    <2> HIDE DEF V, start, n
    <2> QED BY <2>1, <1>4, <1>5, RecursionOnInterval, Zenon
  <1>8. ASSUME NEW i \in 1..n
        PROVE  f[i] = Charge(r, f[i - 1], calls[i])
    <2>1. f[i - 1] \in V
      <3>1. i - 1 \in 0..n
        BY <1>1
      <3>2. f \in [0..n -> V]
        BY <1>7 DEF Iterates
      <3> HIDE DEF V, n
      <3> QED BY <3>1, <3>2
    <2> QED BY <2>1, <1>6, <1>7 DEF Iterates
  <1>9. \E g : Is(g)
    <2>1. ASSUME NEW i \in 0..n
          PROVE  f[i] = IF i = 0 THEN start ELSE Charge(r, f[i - 1], calls[i])
      <3>1. CASE i = 0
        BY <3>1, <1>7 DEF Iterates
      <3>2. CASE i # 0
        <4>1. i \in 1..n
          BY <1>1, <3>2
        <4> QED BY <4>1, <3>2, <1>8
      <3> QED BY <3>1, <3>2
    <2>2. f = [i \in 0..n |-> f[i]]
      BY <1>7 DEF Iterates
    <2>3. [i \in 0..n |-> f[i]]
             = [i \in 0..n |-> IF i = 0 THEN start ELSE Charge(r, f[i - 1], calls[i])]
      BY <2>1
    <2>4. Is(f)
      BY <2>2, <2>3
    <2> QED BY <2>4
  <1>10. Turn(r) = CHOOSE g : Is(g)
    BY DEF Turn
  <1>11. Is(Turn(r))
    BY <1>9, <1>10
  <1> QED BY <1>11

\* What a turn has used, result by result, is counted in natural numbers.
LEMMA TurnTyped ==
  ASSUME TypeOK, NEW r \in Requests, batch[r] \in DOMAIN Plan[r]
  PROVE  Turn(r) \in [0..Len(Plan[r][batch[r]]) -> [bytes : Nat, tokens : Nat]]
  <1> DEFINE calls == Plan[r][batch[r]]
             n     == Len(calls)
             V     == [bytes : Nat, tokens : Nat]
             start == [bytes |-> 0, tokens |-> 0]
             Is(f) == f = [i \in 0..n |-> IF i = 0 THEN start ELSE Charge(r, f[i - 1], calls[i])]
  <1>1. calls \in Seq(Calls) /\ n \in Nat
    BY ExecutorConstants
  <1>2. \A i \in 1..n : calls[i] \in Calls
    BY <1>1
  <1>3. ASSUME NEW u \in V, NEW c \in Calls
        PROVE  Charge(r, u, c) \in V
    <2>1. ErrorSize \in Nat /\ result[c].size \in Nat
      BY ExecutorConstants DEF TypeOK
    <2>2. FinalResult(r, u, c).size \in Nat
      BY <2>1 DEF FinalResult, OwnResult, ErrorResult
    <2>3. EstimatedTokens(FinalResult(r, u, c).size) \in Nat
      BY <2>2, EstimateTyped
    <2> QED BY <2>2, <2>3 DEF Charge
  <1>4. start \in V
    OBVIOUS
  <1>5. Is(Turn(r))
    BY TurnCharges
  <1> DEFINE Bad == {i \in 0..n : Turn(r)[i] \notin V}
  <1>6. Bad = {}
    <2> SUFFICES ASSUME Bad # {} PROVE FALSE
      OBVIOUS
    <2>1. Bad \in SUBSET Nat
      BY <1>1
    <2> HIDE DEF Bad
    <2>2. PICK m \in Bad : \A j \in Bad : m <= j
      BY <2>1, LeastExists
    <2>3. m \in 0..n /\ Turn(r)[m] \notin V
      BY <2>2 DEF Bad
    <2>4. Turn(r)[0] = start
      BY <1>1, <1>5
    <2>5. m \in 1..n /\ m - 1 \in 0..n /\ ~(m <= m - 1)
      BY <2>3, <2>4, <1>1, <1>4
    <2>6. Turn(r)[m - 1] \in V
      BY <2>2, <2>5 DEF Bad
    <2>7. Turn(r)[m] = Charge(r, Turn(r)[m - 1], calls[m])
      BY <2>5, <1>5
    <2> QED BY <2>3, <2>5, <2>6, <2>7, <1>2, <1>3
  <1> QED BY <1>5, <1>6

-----------------------------------------------------------------------------
(* What the steps of calls have in common, and type correctness.           *)

PcValues == Unfinished \cup {"new", "rejected", "done", "cancelled"}

LEMMA PlanTyped ==
  ASSUME NEW r \in Requests
  PROVE  /\ Len(Plan[r]) \in Nat /\ DOMAIN Plan[r] = 1..Len(Plan[r])
         /\ \A b \in 1..Len(Plan[r]) :
               /\ Plan[r][b] \in Seq(Calls)
               /\ Len(Plan[r][b]) \in Nat /\ DOMAIN Plan[r][b] = 1..Len(Plan[r][b])
               /\ ToSet(Plan[r][b]) \subseteq Calls
  <1>1. Plan[r] \in Seq(Seq(Calls))
    BY ExecutorConstants
  <1>2. ASSUME NEW b \in 1..Len(Plan[r])
        PROVE  /\ Plan[r][b] \in Seq(Calls)
               /\ Len(Plan[r][b]) \in Nat /\ DOMAIN Plan[r][b] = 1..Len(Plan[r][b])
               /\ ToSet(Plan[r][b]) \subseteq Calls
    <2>1. Plan[r][b] \in Seq(Calls)
      BY <1>1
    <2> QED BY <2>1 DEF ToSet
  <1> QED BY <1>1, <1>2

\* A step of a call moves that call, which has begun and does not begin again,
\* and leaves the batches alone.
LEMMA CallStepShape ==
  ASSUME TypeOK, NEW c \in Calls, CallStep(c)
  PROVE  /\ pc[c] \in Unfinished
         /\ pc' = [pc EXCEPT ![c] = pc'[c]]
         /\ pc'[c] \in {"class", "request", "global", "run", "backoff", "done", "cancelled"}
         /\ UNCHANGED <<batch, callsUsed, bytesUsed, tokensUsed>>
         /\ \/ UNCHANGED phase
            \/ /\ pc'[c] = "cancelled"
               /\ phase' = [phase EXCEPT ![RequestOf(c)] =
                               IF @ = "gathering" THEN "aborted" ELSE @]
  <1> USE DEF TypeOK, Unfinished, executor
  <1>1. CASE UnknownTool(c)
    BY <1>1 DEF UnknownTool, Finish
  <1>2. CASE OverQuota(c)
    BY <1>2 DEF OverQuota, Finish
  <1>3. CASE MalformedArguments(c)
    BY <1>3 DEF MalformedArguments, Count, Finish
  <1>4. CASE Unavailable(c)
    BY <1>4 DEF Unavailable, Count, Finish
  <1>5. CASE Admit(c)
    BY <1>5 DEF Admit, Count
  <1>6. CASE AcquireClass(c) \/ AcquireRequest(c) \/ AcquireGlobal(c)
    BY <1>6 DEF AcquireClass, AcquireRequest, AcquireGlobal
  <1>7. CASE Success(c)
    BY <1>7 DEF Success, Running, Finish
  <1>8. CASE RetryLater(c) \/ BackoffOver(c)
    BY <1>8 DEF RetryLater, BackoffOver, Running
  <1>9. CASE GiveUp(c)
    BY <1>9 DEF GiveUp, Running, Finish
  <1>10. CASE CancelledInside(c) \/ CancelledCall(c)
    BY <1>10 DEF CancelledInside, CancelledCall, Running
  <1> QED
    BY <1>1, <1>2, <1>3, <1>4, <1>5, <1>6, <1>7, <1>8, <1>9, <1>10 DEF CallStep

\* The class semaphore gets its limit once, and it is a number.
LEMMA ClassSemaphoreEffect ==
  ASSUME TypeOK, NEW c \in Calls, ClassSemaphore(c)
  PROVE  /\ semLimit' \in [Requests -> [Classes -> Nat]]
         /\ \A r \in Requests, k \in Classes :
               semLimit'[r][k] = semLimit[r][k] \/ semLimit[r][k] = 0
  <1> DEFINE limits == {RequestConcurrency, ClassLimit[ToolOf[c]]}
             limit  == Min(limits)
  <1>1. limits \subseteq Nat
    BY ExecutorConstants
  <1>2. PICK x \in limits : \A y \in limits : x <= y
    BY <1>1, LeastExists
  <1>3. limit \in Nat
    BY <1>1, <1>2 DEF Min
  <1>4. semLimit' = [semLimit EXCEPT ![RequestOf(c)][ClassKey(c)] =
                        IF @ = 0 THEN limit ELSE @]
    BY DEF ClassSemaphore
  <1> HIDE DEF limit
  <1>5. semLimit \in [Requests -> [Classes -> Nat]]
    BY DEF TypeOK
  <1> QED BY <1>3, <1>4, <1>5

LEMMA CircuitTyped ==
  ASSUME TypeOK, NEW t \in Tools,
         Allow(t) \/ BreakerSuccess(t) \/ BreakerFailure(t) \/ UNCHANGED circuit
  PROVE  failures' \in [Tools -> Nat] /\ breaker' \in [Tools -> {"closed", "open", "elapsed"}]
  <1> USE DEF TypeOK
  <1>1. CASE Allow(t)
    BY <1>1 DEF Allow
  <1>2. CASE BreakerSuccess(t)
    BY <1>2 DEF BreakerSuccess
  <1>3. CASE BreakerFailure(t)
    <2>1. PICK k \in 0..failures[t] :
             /\ failures' = [failures EXCEPT ![t] = k + 1]
             /\ breaker' = [breaker EXCEPT ![t] = IF k + 1 >= Threshold THEN "open" ELSE @]
      BY <1>3 DEF BreakerFailure
    <2>2. k + 1 \in Nat
      BY <2>1
    <2> QED BY <2>1, <2>2
  <1>4. CASE UNCHANGED circuit
    BY <1>4 DEF circuit
  <1> QED BY <1>1, <1>2, <1>3, <1>4

LEMMA CountTyped ==
  ASSUME TypeOK, NEW c \in Calls, Count(c)
  PROVE  /\ toolCounts' \in [Requests -> [Tools -> Nat]]
         /\ semLimit' \in [Requests -> [Classes -> Nat]]
         /\ UNCHANGED <<phase, batch, callsUsed, bytesUsed, tokensUsed, attempt, held>>
  <1>1. toolCounts \in [Requests -> [Tools -> Nat]]
    BY DEF TypeOK
  <1>2. toolCounts' = [toolCounts EXCEPT ![RequestOf(c)][ToolOf[c]] = @ + 1]
    BY DEF Count
  <1>3. toolCounts' \in [Requests -> [Tools -> Nat]]
    <2>1. toolCounts' = [r \in Requests |->
                            IF r = RequestOf(c)
                            THEN [toolCounts[r] EXCEPT ![ToolOf[c]] = @ + 1] ELSE toolCounts[r]]
      BY <1>1, <1>2
    <2>2. ASSUME NEW r \in Requests
          PROVE  [toolCounts[r] EXCEPT ![ToolOf[c]] = @ + 1] \in [Tools -> Nat]
      <3>1. toolCounts[r] \in [Tools -> Nat]
        BY <1>1
      <3>2. ToolOf[c] \in Tools => toolCounts[r][ToolOf[c]] + 1 \in Nat
        BY <3>1
      <3> QED BY <3>1, <3>2
    <2> QED BY <1>1, <2>1, <2>2
  <1> QED BY <1>3, ClassSemaphoreEffect DEF Count

LEMMA ReleaseTyped ==
  ASSUME TypeOK, NEW c \in Calls, Release(c)
  PROVE  \A h \in {classHeld', reqHeld', globalHeld'} : h \subseteq Calls
  BY DEF TypeOK, Release

LEMMA FinishTyped ==
  ASSUME TypeOK, NEW c \in Calls, NEW res \in [status : Statuses, size : Nat], Finish(c, res)
  PROVE  result' \in [Calls -> [status : Statuses, size : Nat]]
  BY DEF TypeOK, Finish

LEMMA ErrorResultTyped ==
  ASSUME NEW s \in Statuses
  PROVE  ErrorResult(s) \in [status : Statuses, size : Nat] /\ ErrorResult(s).status = s
  BY ExecutorConstants DEF ErrorResult

LEMMA CallStepTyped ==
  ASSUME TypeOK, NEW c \in Calls, CallStep(c)
  PROVE  TypeOK'
  <1> DEFINE Rest ==
        /\ toolCounts' \in [Requests -> [Tools -> Nat]]
        /\ semLimit' \in [Requests -> [Classes -> Nat]]
        /\ attempt' \in [Calls -> Nat]
        /\ result' \in [Calls -> [status : Statuses, size : Nat]]
        /\ \A h \in {classHeld', reqHeld', globalHeld'} : h \subseteq Calls
        /\ failures' \in [Tools -> Nat]
        /\ breaker' \in [Tools -> {"closed", "open", "elapsed"}]
  <1>1. ToolOf[c] \in Tools
    BY ExecutorConstants
  <1>2. \A s \in Statuses : ErrorResult(s) \in [status : Statuses, size : Nat]
    BY ErrorResultTyped
  <1> USE DEF TypeOK
  <1>3. ASSUME UnknownTool(c) PROVE Rest
    <2>1. result' \in [Calls -> [status : Statuses, size : Nat]]
      BY <1>2, <1>3, FinishTyped DEF UnknownTool, Statuses
    <2> QED BY <1>3, <2>1 DEF UnknownTool, executor, held, circuit
  <1>4. ASSUME OverQuota(c) PROVE Rest
    <2>1. result' \in [Calls -> [status : Statuses, size : Nat]]
      BY <1>2, <1>4, FinishTyped DEF OverQuota, Statuses
    <2> QED BY <1>4, <2>1, ClassSemaphoreEffect DEF OverQuota, held, circuit
  <1>5. ASSUME MalformedArguments(c) PROVE Rest
    <2>1. result' \in [Calls -> [status : Statuses, size : Nat]]
      BY <1>2, <1>5, FinishTyped DEF MalformedArguments, Statuses
    <2> QED BY <1>5, <2>1, CountTyped DEF MalformedArguments, held, circuit
  <1>6. ASSUME Unavailable(c) PROVE Rest
    <2>1. result' \in [Calls -> [status : Statuses, size : Nat]]
      BY <1>2, <1>6, FinishTyped DEF Unavailable, Statuses
    <2> QED BY <1>6, <2>1, CountTyped DEF Unavailable, held, circuit
  <1>7. ASSUME Admit(c) PROVE Rest
    <2>1. Rest
      BY <1>1, <1>7, CountTyped, CircuitTyped DEF Admit, held
    <2> QED BY <2>1
  <1>8. ASSUME AcquireClass(c) \/ AcquireRequest(c) \/ AcquireGlobal(c) PROVE Rest
    BY <1>8 DEF AcquireClass, AcquireRequest, AcquireGlobal, executor, circuit
  <1>9. ASSUME Success(c) PROVE Rest
    <2>1. PICK size \in Sizes :
             Finish(c, IF size > OutputBudget[ToolOf[c]] THEN ErrorResult("budget_exceeded")
                       ELSE [status |-> "success", size |-> size])
      BY <1>9 DEF Success
    <2>2. [status |-> "success", size |-> size] \in [status : Statuses, size : Nat]
      BY ExecutorConstants DEF Statuses
    <2>3. result' \in [Calls -> [status : Statuses, size : Nat]]
      BY <1>2, <2>1, <2>2, FinishTyped DEF Statuses
    <2>4. Release(c) /\ (BreakerSuccess(ToolOf[c]) \/ UNCHANGED circuit)
      BY <1>9 DEF Success, OnSuccess
    <2> QED BY <1>1, <1>9, <2>3, <2>4, ReleaseTyped, CircuitTyped DEF Success, executor
  <1>10. ASSUME RetryLater(c) PROVE Rest
    <2>1. BreakerFailure(ToolOf[c]) \/ UNCHANGED circuit
      BY <1>10 DEF RetryLater, OnFailure
    <2> QED BY <1>1, <1>10, <2>1, CircuitTyped DEF RetryLater, executor, held
  <1>11. ASSUME BackoffOver(c) PROVE Rest
    BY <1>11 DEF BackoffOver, executor, held, circuit
  <1>12. ASSUME GiveUp(c) PROVE Rest
    <2>1. PICK s \in {"timeout", "internal_error"} :
             Finish(c, IF ErrorSize > OutputBudget[ToolOf[c]]
                       THEN ErrorResult("budget_exceeded") ELSE ErrorResult(s))
      BY <1>12 DEF GiveUp
    <2>2. result' \in [Calls -> [status : Statuses, size : Nat]]
      BY <1>2, <2>1, FinishTyped DEF Statuses
    <2>3. Release(c) /\ (BreakerFailure(ToolOf[c]) \/ UNCHANGED circuit)
      BY <1>12 DEF GiveUp, OnFailure
    <2> QED BY <1>1, <1>12, <2>2, <2>3, ReleaseTyped, CircuitTyped DEF GiveUp, executor
  <1>13. ASSUME CancelledInside(c) PROVE Rest
    BY <1>13, ReleaseTyped DEF CancelledInside, circuit
  <1>14. ASSUME CancelledCall(c) PROVE Rest
    BY <1>14, ReleaseTyped DEF CancelledCall, executor, circuit
  <1>15. Rest
    <2> HIDE DEF Rest
    <2> QED BY <1>3, <1>4, <1>5, <1>6, <1>7, <1>8, <1>9, <1>10, <1>11, <1>12, <1>13, <1>14
       DEF CallStep
  <1>16. phase' \in [Requests -> {"idle", "gathering", "disconnected", "cancelled", "aborted"}]
    <2>1. CASE UNCHANGED phase
      BY <2>1
    <2>2. CASE phase' = [phase EXCEPT ![RequestOf(c)] = IF @ = "gathering" THEN "aborted" ELSE @]
      BY <2>2
    <2> QED BY <2>1, <2>2, CallStepShape
  <1>17. \A f \in {batch', callsUsed', bytesUsed', tokensUsed'} : f \in [Requests -> Nat]
    BY CallStepShape
  <1>18. pc' \in [Calls -> Unfinished \cup {"new", "rejected", "done", "cancelled"}]
    <2>1. /\ pc' = [pc EXCEPT ![c] = pc'[c]]
          /\ pc'[c] \in Unfinished \cup {"new", "rejected", "done", "cancelled"}
      BY CallStepShape DEF Unfinished
    <2> QED BY <2>1
  <1> QED BY <1>15, <1>16, <1>17, <1>18

-----------------------------------------------------------------------------
(* What the steps of requests do.                                          *)

\* execute_batch accepts no more calls than the cap leaves, and all calls of
\* the batch are new.
LEMMA StartBatchEffect ==
  ASSUME TypeOK, BatchesOK, NEW r \in Requests, StartBatch(r)
  PROVE  \E accepted \in SUBSET Calls, calls \in SUBSET Calls :
            /\ calls = ToSet(Plan[r][batch[r] + 1])
            /\ accepted \subseteq calls
            /\ IsFiniteSet(accepted) /\ Cardinality(accepted) <= Remaining(r)
            /\ \A c \in calls : RequestOf(c) = r /\ pc[c] = "new"
            /\ batch[r] + 1 \in 1..Len(Plan[r])
            /\ pc' = [c \in Calls |-> IF c \in accepted THEN "created"
                                      ELSE IF c \in calls THEN "rejected" ELSE pc[c]]
  <1> DEFINE b     == batch[r] + 1
             list  == Plan[r][b]
             calls == ToSet(list)
             sizes == {Remaining(r), Len(list)}
             m     == Min(sizes)
             accepted == ToSet(SubSeq(list, 1, m))
  <1>1. b \in 1..Len(Plan[r]) /\ b \in DOMAIN Plan[r] /\ b \notin 1..batch[r]
    BY PlanTyped DEF StartBatch, TypeOK
  <1>2. list \in Seq(Calls) /\ Len(list) \in Nat /\ calls \subseteq Calls
    BY <1>1, PlanTyped
  <1>3. ASSUME NEW c \in calls
        PROVE  RequestOf(c) = r /\ pc[c] = "new"
    <2>1. /\ c \in Calls /\ RequestOf(c) = r
          /\ \A d \in DOMAIN Plan[r] : c \in ToSet(Plan[r][d]) => d = b
      BY <1>1, <1>2, OwnerOfEmitted
    <2>2. 1..batch[r] \subseteq DOMAIN Plan[r]
      BY <1>1, PlanTyped DEF TypeOK
    <2> QED BY <1>1, <2>1, <2>2 DEF BatchesOK
  <1>4. Remaining(r) \in Nat
    BY ExecutorConstants DEF Remaining, TypeOK
  <1>5. m \in Nat /\ m <= Remaining(r) /\ m <= Len(list)
    <2>1. sizes \in SUBSET Nat /\ sizes # {}
      BY <1>2, <1>4
    <2>2. \E x \in sizes : \A y \in sizes : x <= y
      BY <2>1, LeastExists
    <2>3. Min(sizes) \in sizes /\ \A y \in sizes : Min(sizes) <= y
      BY <2>2 DEF Min
    <2> QED BY <2>1, <2>3
  <1> HIDE DEF m
  <1>6. /\ SubSeq(list, 1, m) \in Seq(Calls) /\ Len(SubSeq(list, 1, m)) = m
        /\ \A i \in 1..m : SubSeq(list, 1, m)[i] = list[i]
    <2>1. \A i \in 1..m : i \in 1..Len(list)
      BY <1>2, <1>5
    <2>2. \A i \in 1..m : list[i] \in Calls
      BY <1>2, <2>1
    <2>3. /\ SubSeq(list, 1, m) \in Seq(Calls)
          /\ Len(SubSeq(list, 1, m)) = IF 1 <= m THEN m - 1 + 1 ELSE 0
          /\ \A i \in 1..(m - 1 + 1) : SubSeq(list, 1, m)[i] = list[1 + i - 1]
      BY <1>5, <2>2, SubSeqProperties
    <2> QED BY <1>5, <2>3
  <1>7. accepted = {list[i] : i \in 1..m}
    <2>1. DOMAIN SubSeq(list, 1, m) = 1..m
      BY <1>6
    <2> QED BY <1>6, <2>1 DEF ToSet
  <1>8. accepted \subseteq calls
    <2>1. 1..m \subseteq DOMAIN list
      BY <1>2, <1>5
    <2> QED BY <1>7, <2>1 DEF ToSet
  <1>9. IsFiniteSet(accepted) /\ Cardinality(accepted) <= m
    <2> DEFINE f == [i \in 1..m |-> list[i]]
    <2>1. f \in Surjection(1..m, accepted)
      BY <1>7 DEF Surjection
    <2>2. IsFiniteSet(1..m) /\ Cardinality(1..m) = m
      BY <1>5, FS_Interval
    <2> HIDE DEF f
    <2> QED BY <2>1, <2>2, FS_Surjection
  <1>10. Cardinality(accepted) <= Remaining(r)
    <2>1. Cardinality(accepted) \in Nat
      BY <1>9, FS_CardinalityType
    <2> QED BY <1>4, <1>5, <1>9, <2>1
  <1>11. pc' = [c \in Calls |-> IF c \in accepted THEN "created"
                                ELSE IF c \in calls THEN "rejected" ELSE pc[c]]
    BY DEF StartBatch, m
  <1> QED BY <1>1, <1>2, <1>3, <1>8, <1>9, <1>10, <1>11

LEMMA ReturnBatchTyped ==
  ASSUME TypeOK, BatchesOK, NEW r \in Requests, ReturnBatch(r)
  PROVE  TypeOK'
  <1> DEFINE list == Plan[r][batch[r]]
             used == Turn(r)
             V    == [bytes : Nat, tokens : Nat]
             R    == [status : Statuses, size : Nat]
             back == {c \in BatchCalls(r) : pc[c] = "done"}
             pos(c) == CHOOSE n \in 1..Len(list) : list[n] = c
  <1>1. batch[r] \in 1..Len(Plan[r]) /\ batch[r] \in DOMAIN Plan[r]
    BY PlanTyped DEF BatchesOK, ReturnBatch, Returns, TypeOK
  <1>2. Len(list) \in Nat /\ DOMAIN list = 1..Len(list) /\ BatchCalls(r) \subseteq Calls
    BY <1>1, PlanTyped DEF BatchCalls
  <1>3. used \in [0..Len(list) -> V]
    BY <1>1, TurnTyped
  <1>4. used[Len(list)].bytes \in Nat /\ used[Len(list)].tokens \in Nat
    BY <1>2, <1>3
  <1>5. Cardinality(back) \in Nat
    <2> DEFINE f == [i \in 1..Len(list) |-> list[i]]
    <2>1. f \in Surjection(1..Len(list), BatchCalls(r))
      BY <1>2 DEF Surjection, BatchCalls, ToSet
    <2>2. IsFiniteSet(1..Len(list))
      BY <1>2, FS_Interval
    <2> HIDE DEF f
    <2>3. IsFiniteSet(BatchCalls(r))
      BY <2>1, <2>2, FS_Surjection
    <2>4. back \in SUBSET BatchCalls(r)
      OBVIOUS
    <2>5. IsFiniteSet(back)
      BY <2>3, <2>4, FS_Subset
    <2> HIDE DEF back
    <2> QED BY <2>5, FS_CardinalityType
  <1>6. ASSUME NEW c \in BatchCalls(r), NEW u \in V
        PROVE  FinalResult(r, u, c) \in R
    <2>1. result[c] \in R
      BY <1>2 DEF TypeOK
    <2>2. ErrorResult("quota_exceeded") \in R /\ ErrorResult("budget_exceeded") \in R
      BY ErrorResultTyped DEF Statuses
    <2> QED BY <2>1, <2>2 DEF FinalResult, OwnResult
  <1>7. ASSUME NEW c \in BatchCalls(r)
        PROVE  used[pos(c) - 1] \in V
    <2>1. \E n \in 1..Len(list) : list[n] = c
      BY <1>2 DEF BatchCalls, ToSet
    <2>2. pos(c) \in 1..Len(list)
      BY <2>1
    <2>3. pos(c) - 1 \in 0..Len(list)
      BY <1>2, <2>2
    <2> QED BY <1>3, <2>3
  <1>8. /\ bytesUsed' = [bytesUsed EXCEPT ![r] = @ + used[Len(list)].bytes]
        /\ tokensUsed' = [tokensUsed EXCEPT ![r] = @ + used[Len(list)].tokens]
        /\ callsUsed' = [callsUsed EXCEPT ![r] = @ + Cardinality(back)]
        /\ result' = [c \in Calls |-> IF c \in BatchCalls(r)
                                      THEN FinalResult(r, used[pos(c) - 1], c) ELSE result[c]]
        /\ phase' = [phase EXCEPT ![r] = "idle"]
        /\ UNCHANGED <<batch, toolCounts, semLimit, pc, attempt, held, circuit>>
    BY DEF ReturnBatch, Returns
  <1> HIDE DEF used, back, pos, R, V
  <1>9. result' \in [Calls -> R]
    <2>1. result \in [Calls -> R]
      BY DEF TypeOK, R
    <2>2. ASSUME NEW c \in BatchCalls(r)
          PROVE  FinalResult(r, used[pos(c) - 1], c) \in R
      BY <1>6, <1>7
    <2> DEFINE new(c) == IF c \in BatchCalls(r)
                         THEN FinalResult(r, used[pos(c) - 1], c) ELSE result[c]
    <2>3. \A c \in Calls : new(c) \in R
      BY <2>1, <2>2
    <2>4. result' = [c \in Calls |-> new(c)]
      BY <1>8
    <2> HIDE DEF new
    <2> QED BY <2>3, <2>4
  <1>10. bytesUsed' \in [Requests -> Nat] /\ tokensUsed' \in [Requests -> Nat]
    <2> DEFINE bytes  == used[Len(list)].bytes
               tokens == used[Len(list)].tokens
    <2>1. bytesUsed \in [Requests -> Nat] /\ tokensUsed \in [Requests -> Nat]
      BY DEF TypeOK
    <2>2. /\ bytes \in Nat /\ tokens \in Nat
          /\ bytesUsed' = [bytesUsed EXCEPT ![r] = @ + bytes]
          /\ tokensUsed' = [tokensUsed EXCEPT ![r] = @ + tokens]
      BY <1>4, <1>8
    <2> HIDE DEF bytes, tokens
    <2> QED BY <2>1, <2>2
  <1>11. callsUsed' \in [Requests -> Nat]
    <2>1. callsUsed \in [Requests -> Nat] /\ callsUsed' = [callsUsed EXCEPT ![r] = @ + Cardinality(back)]
      BY <1>8 DEF TypeOK
    <2> QED BY <1>5, <2>1
  <1>12. phase' \in [Requests -> {"idle", "gathering", "disconnected", "cancelled", "aborted"}]
    BY <1>8 DEF TypeOK
  <1> QED BY <1>8, <1>9, <1>10, <1>11, <1>12 DEF TypeOK, R, held, circuit

LEMMA NextTyped ==
  ASSUME TypeOK, BatchesOK, [Next]_vars
  PROVE  TypeOK'
  <1>1. ASSUME NEW c \in Calls, CallStep(c) PROVE TypeOK'
    BY <1>1, CallStepTyped
  <1>2. ASSUME NEW r \in Requests, StartBatch(r) PROVE TypeOK'
    <2>1. PICK accepted \in SUBSET Calls, calls \in SUBSET Calls :
             pc' = [c \in Calls |-> IF c \in accepted THEN "created"
                                    ELSE IF c \in calls THEN "rejected" ELSE pc[c]]
      BY <1>2, StartBatchEffect
    <2>2. pc' \in [Calls -> Unfinished \cup {"new", "rejected", "done", "cancelled"}]
      BY <2>1 DEF TypeOK, Unfinished
    <2>3. phase' \in [Requests -> {"idle", "gathering", "disconnected", "cancelled", "aborted"}]
      BY <1>2 DEF StartBatch, TypeOK
    <2>4. batch' \in [Requests -> Nat]
      BY <1>2 DEF StartBatch, TypeOK
    <2>5. UNCHANGED <<callsUsed, bytesUsed, tokensUsed, toolCounts, semLimit, attempt, result,
                      classHeld, reqHeld, globalHeld, failures, breaker>>
      BY <1>2 DEF StartBatch, held, circuit
    <2> QED BY <2>2, <2>3, <2>4, <2>5 DEF TypeOK
  <1>3. ASSUME NEW r \in Requests, Disconnect(r) \/ RaiseCancelled(r) PROVE TypeOK'
    BY <1>3 DEF Disconnect, RaiseCancelled, TypeOK, held, circuit
  <1>4. ASSUME NEW r \in Requests, ReturnBatch(r) PROVE TypeOK'
    BY <1>4, ReturnBatchTyped
  <1>5. ASSUME NEW t \in Tools, ResetElapses(t) PROVE TypeOK'
    BY <1>5 DEF ResetElapses, TypeOK, executor, held
  <1>6. CASE UNCHANGED vars
    BY <1>6 DEF vars, TypeOK, executor, held, circuit
  <1> QED BY <1>1, <1>2, <1>3, <1>4, <1>5, <1>6 DEF Next

-----------------------------------------------------------------------------
(* Calls belong to batches, and batches that have raised are over.         *)

LEMMA BatchesKeep ==
  ASSUME TypeOK, BatchesOK, [Next]_vars
  PROVE  BatchesOK'
  <1> USE DEF TypeOK
  <1>1. ASSUME NEW c \in Calls, CallStep(c) PROVE BatchesOK'
    <2>1. /\ pc[c] \in Unfinished
          /\ pc' = [pc EXCEPT ![c] = pc'[c]]
          /\ UNCHANGED batch
          /\ \/ UNCHANGED phase
             \/ phase' = [phase EXCEPT ![RequestOf(c)] =
                             IF @ = "gathering" THEN "aborted" ELSE @]
      <3> HIDE DEF TypeOK
      <3> QED BY <1>1, CallStepShape
    <2>2. \A d \in Calls : pc'[d] # "new" => pc[d] # "new"
      BY <2>1 DEF Unfinished
    <2>3. \A r \in Requests : phase'[r] # "idle" => phase[r] # "idle"
      BY <2>1
    <2> QED BY <2>1, <2>2, <2>3 DEF BatchesOK, RequestOf
  <1>2. ASSUME NEW r \in Requests, StartBatch(r) PROVE BatchesOK'
    <2>1. PICK accepted \in SUBSET Calls, calls \in SUBSET Calls :
             /\ calls = ToSet(Plan[r][batch[r] + 1])
             /\ accepted \subseteq calls
             /\ \A c \in calls : RequestOf(c) = r
             /\ batch[r] + 1 \in 1..Len(Plan[r])
             /\ pc' = [c \in Calls |-> IF c \in accepted THEN "created"
                                       ELSE IF c \in calls THEN "rejected" ELSE pc[c]]
      <3> HIDE DEF TypeOK
      <3> QED BY <1>2, StartBatchEffect
    <2>2. batch' = [batch EXCEPT ![r] = @ + 1] /\ phase' = [phase EXCEPT ![r] = "gathering"]
      BY <1>2 DEF StartBatch
    <2>3. ASSUME NEW q \in Requests
          PROVE  batch'[q] <= Len(Plan[q]) /\ (phase'[q] # "idle" => batch'[q] >= 1)
      BY <2>1, <2>2 DEF BatchesOK
    <2>4. ASSUME NEW c \in Calls, pc'[c] # "new"
          PROVE  /\ RequestOf(c) \in Requests
                 /\ \E b \in 1..batch'[RequestOf(c)] : c \in ToSet(Plan[RequestOf(c)][b])
      <3>1. CASE c \in calls
        <4>1. batch[r] + 1 \in 1..batch'[r]
          BY <2>2
        <4> QED BY <2>1, <3>1, <4>1
      <3>2. CASE c \notin calls
        <4>1. pc[c] # "new"
          BY <2>1, <2>4, <3>2
        <4>2. RequestOf(c) \in Requests
          BY <4>1 DEF BatchesOK
        <4>3. PICK b \in 1..batch[RequestOf(c)] : c \in ToSet(Plan[RequestOf(c)][b])
          BY <4>1 DEF BatchesOK
        <4>4. b \in 1..batch'[RequestOf(c)]
          BY <2>2, <4>2
        <4> QED BY <4>2, <4>3, <4>4
      <3> QED BY <3>1, <3>2
    <2> QED BY <2>3, <2>4 DEF BatchesOK, RequestOf
  <1>3. ASSUME NEW r \in Requests, Disconnect(r) \/ RaiseCancelled(r) PROVE BatchesOK'
    BY <1>3 DEF Disconnect, RaiseCancelled, BatchesOK, RequestOf
  <1>4. ASSUME NEW r \in Requests, ReturnBatch(r) PROVE BatchesOK'
    BY <1>4 DEF ReturnBatch, Returns, BatchesOK, RequestOf
  <1>5. ASSUME NEW t \in Tools, ResetElapses(t) PROVE BatchesOK'
    BY <1>5 DEF ResetElapses, executor, BatchesOK, RequestOf
  <1>6. CASE UNCHANGED vars
    BY <1>6 DEF vars, executor, BatchesOK, RequestOf
  <1> QED BY <1>1, <1>2, <1>3, <1>4, <1>5, <1>6 DEF Next

LEMMA CancelledKeeps ==
  ASSUME TypeOK, BatchesOK, CancelledLeavesNothing, [Next]_vars
  PROVE  CancelledLeavesNothing'
  <1>1. ASSUME NEW c \in Calls, CallStep(c) PROVE CancelledLeavesNothing'
    <2>1. /\ pc[c] \in Unfinished
          /\ pc' = [pc EXCEPT ![c] = pc'[c]]
          /\ UNCHANGED batch
          /\ \/ UNCHANGED phase
             \/ phase' = [phase EXCEPT ![RequestOf(c)] =
                             IF @ = "gathering" THEN "aborted" ELSE @]
      BY <1>1, CallStepShape
    <2>2. \A r \in Requests : phase'[r] = "cancelled" => phase[r] = "cancelled"
      BY <2>1 DEF TypeOK
    <2>3. \A d \in Calls : pc[d] \notin Unfinished => pc'[d] = pc[d]
      BY <2>1 DEF TypeOK
    <2>4. ASSUME NEW r \in Requests, phase[r] = "cancelled", NEW d \in BatchCalls(r)
          PROVE  pc'[d] \notin Unfinished
      <3>1. batch[r] \in 1..Len(Plan[r])
        BY <2>4, PlanTyped DEF BatchesOK, TypeOK
      <3>2. d \in Calls
        BY <3>1, PlanTyped DEF BatchCalls
      <3> QED BY <2>3, <2>4, <3>2 DEF CancelledLeavesNothing
    <2> QED BY <2>1, <2>2, <2>4 DEF CancelledLeavesNothing, BatchCalls
  <1>2. ASSUME NEW r \in Requests, StartBatch(r) PROVE CancelledLeavesNothing'
    <2>1. PICK accepted \in SUBSET Calls, calls \in SUBSET Calls :
             /\ accepted \subseteq calls
             /\ \A c \in calls : RequestOf(c) = r
             /\ pc' = [c \in Calls |-> IF c \in accepted THEN "created"
                                       ELSE IF c \in calls THEN "rejected" ELSE pc[c]]
      BY <1>2, StartBatchEffect
    <2>2. batch' = [batch EXCEPT ![r] = @ + 1] /\ phase' = [phase EXCEPT ![r] = "gathering"]
      BY <1>2 DEF StartBatch
    <2>3. ASSUME NEW q \in Requests, phase'[q] = "cancelled", NEW d \in BatchCalls(q)'
          PROVE  pc'[d] \notin Unfinished
      <3>1. q # r /\ phase[q] = "cancelled" /\ batch'[q] = batch[q]
        BY <2>2, <2>3 DEF TypeOK
      <3>2. batch[q] \in 1..Len(Plan[q])
        BY <3>1, PlanTyped DEF BatchesOK, TypeOK
      <3>3. d \in BatchCalls(q)
        BY <2>3, <3>1 DEF BatchCalls
      <3>4. d \in Calls /\ RequestOf(d) = q
        BY <3>2, <3>3, PlanTyped, OwnerOfEmitted DEF BatchCalls
      <3>5. pc'[d] = pc[d]
        BY <2>1, <3>1, <3>4
      <3> QED BY <3>1, <3>3, <3>5 DEF CancelledLeavesNothing
    <2> QED BY <2>3 DEF CancelledLeavesNothing
  <1>3. ASSUME NEW r \in Requests, Disconnect(r) PROVE CancelledLeavesNothing'
    BY <1>3 DEF Disconnect, CancelledLeavesNothing, BatchCalls, TypeOK
  <1>4. ASSUME NEW r \in Requests, RaiseCancelled(r) PROVE CancelledLeavesNothing'
    BY <1>4 DEF RaiseCancelled, CancelledLeavesNothing, BatchCalls, TypeOK
  <1>5. ASSUME NEW r \in Requests, ReturnBatch(r) PROVE CancelledLeavesNothing'
    BY <1>5 DEF ReturnBatch, Returns, CancelledLeavesNothing, BatchCalls, TypeOK
  <1>6. ASSUME NEW t \in Tools, ResetElapses(t) PROVE CancelledLeavesNothing'
    BY <1>6 DEF ResetElapses, executor, CancelledLeavesNothing, BatchCalls
  <1>7. CASE UNCHANGED vars
    BY <1>7 DEF vars, executor, CancelledLeavesNothing, BatchCalls
  <1> QED BY <1>1, <1>2, <1>3, <1>4, <1>5, <1>6, <1>7 DEF Next

-----------------------------------------------------------------------------
(* The permits.                                                            *)

LEMMA PermitsKeep ==
  ASSUME TypeOK, BatchesOK, PermitsOK, [Next]_vars
  PROVE  PermitsOK'
  <1> USE DEF PermitsOK
  <1>0. pc \in [Calls -> PcValues]
    BY DEF TypeOK, PcValues
  <1>1. ASSUME NEW c \in Calls, CallStep(c) PROVE PermitsOK'
    <2>1. CASE UnknownTool(c) \/ OverQuota(c)
      BY <1>0, <2>1 DEF UnknownTool, OverQuota, Finish, held
    <2>2. CASE MalformedArguments(c) \/ Unavailable(c) \/ Admit(c)
      BY <1>0, <2>2 DEF MalformedArguments, Unavailable, Admit, Count, Finish, held
    <2>3. CASE AcquireClass(c)
      BY <1>0, <2>3 DEF AcquireClass
    <2>4. CASE AcquireRequest(c)
      BY <1>0, <2>4 DEF AcquireRequest
    <2>5. CASE AcquireGlobal(c)
      BY <1>0, <2>5 DEF AcquireGlobal
    <2>6. CASE Success(c) \/ GiveUp(c)
      <3>1. pc' = [pc EXCEPT ![c] = "done"] /\ Release(c)
        BY <2>6 DEF Success, GiveUp, Finish
      <3> QED BY <1>0, <3>1 DEF Release
    <2>7. CASE RetryLater(c) \/ BackoffOver(c)
      BY <1>0, <2>7 DEF RetryLater, BackoffOver, Running, held
    <2>8. CASE CancelledInside(c) \/ CancelledCall(c)
      <3>1. pc' = [pc EXCEPT ![c] = "cancelled"] /\ Release(c)
        BY <2>8 DEF CancelledInside, CancelledCall
      <3> QED BY <1>0, <3>1 DEF Release
    <2> QED BY <1>1, <2>1, <2>2, <2>3, <2>4, <2>5, <2>6, <2>7, <2>8 DEF CallStep
  <1>2. ASSUME NEW r \in Requests, StartBatch(r) PROVE PermitsOK'
    <2>1. PICK accepted \in SUBSET Calls, calls \in SUBSET Calls :
             /\ accepted \subseteq calls
             /\ \A c \in calls : pc[c] = "new"
             /\ pc' = [c \in Calls |-> IF c \in accepted THEN "created"
                                       ELSE IF c \in calls THEN "rejected" ELSE pc[c]]
      <3> HIDE DEF PermitsOK
      <3> QED BY <1>2, StartBatchEffect
    <2> QED BY <1>2, <2>1 DEF StartBatch, held
  <1>3. ASSUME NEW r \in Requests, Disconnect(r) \/ RaiseCancelled(r) PROVE PermitsOK'
    BY <1>3 DEF Disconnect, RaiseCancelled, held
  <1>4. ASSUME NEW r \in Requests, ReturnBatch(r) PROVE PermitsOK'
    BY <1>4 DEF ReturnBatch, held
  <1>5. ASSUME NEW t \in Tools, ResetElapses(t) PROVE PermitsOK'
    BY <1>5 DEF ResetElapses, held
  <1>6. CASE UNCHANGED vars
    BY <1>6 DEF vars, held
  <1> QED BY <1>1, <1>2, <1>3, <1>4, <1>5, <1>6 DEF Next

OfRequest(H, r)  == {c \in H : RequestOf(c) = r}
OfClass(H, r, k) == {c \in H : RequestOf(c) = r /\ ClassKey(c) = k}

\* Giving permits back, and giving a semaphore its limit, passes no limit.
LEMMA SemaphoresShrink ==
  ASSUME TypeOK, SemaphoresOK,
         classHeld' \subseteq classHeld, reqHeld' \subseteq reqHeld, globalHeld' \subseteq globalHeld,
         semLimit' \in [Requests -> [Classes -> Nat]],
         \A r \in Requests, k \in Classes :
            semLimit'[r][k] = semLimit[r][k] \/ semLimit[r][k] = 0
  PROVE  SemaphoresOK'
  <1>1. IsFiniteSet(globalHeld') /\ Cardinality(globalHeld') <= GlobalConcurrency
    <2>1. IsFiniteSet(globalHeld) /\ Cardinality(globalHeld) <= GlobalConcurrency
      BY DEF SemaphoresOK
    <2>2. Cardinality(globalHeld) \in Nat
      BY <2>1, FS_CardinalityType
    <2>3. globalHeld' \in SUBSET globalHeld
      OBVIOUS
    <2>4. IsFiniteSet(globalHeld') /\ Cardinality(globalHeld') <= Cardinality(globalHeld)
      BY <2>1, <2>3, FS_Subset
    <2>5. Cardinality(globalHeld') \in Nat
      BY <2>4, FS_CardinalityType
    <2> QED BY <2>1, <2>2, <2>4, <2>5, ExecutorConstants
  <1>2. ASSUME NEW r \in Requests
        PROVE  /\ IsFiniteSet(OfRequest(reqHeld', r))
               /\ Cardinality(OfRequest(reqHeld', r)) <= RequestConcurrency
    <2>1. IsFiniteSet(OfRequest(reqHeld, r)) /\ Cardinality(OfRequest(reqHeld, r)) <= RequestConcurrency
      BY DEF SemaphoresOK, OfRequest
    <2>2. Cardinality(OfRequest(reqHeld, r)) \in Nat
      BY <2>1, FS_CardinalityType
    <2>3. OfRequest(reqHeld', r) \in SUBSET OfRequest(reqHeld, r)
      BY DEF OfRequest
    <2>4. /\ IsFiniteSet(OfRequest(reqHeld', r))
          /\ Cardinality(OfRequest(reqHeld', r)) <= Cardinality(OfRequest(reqHeld, r))
      BY <2>1, <2>3, FS_Subset
    <2>5. Cardinality(OfRequest(reqHeld', r)) \in Nat
      BY <2>4, FS_CardinalityType
    <2> QED BY <2>1, <2>2, <2>4, <2>5, ExecutorConstants
  <1>3. ASSUME NEW r \in Requests, NEW k \in Classes
        PROVE  /\ IsFiniteSet(OfClass(classHeld', r, k))
               /\ Cardinality(OfClass(classHeld', r, k)) <= semLimit'[r][k]
    <2>1. IsFiniteSet(OfClass(classHeld, r, k)) /\ Cardinality(OfClass(classHeld, r, k)) <= semLimit[r][k]
      BY DEF SemaphoresOK, OfClass
    <2>2. Cardinality(OfClass(classHeld, r, k)) \in Nat
      BY <2>1, FS_CardinalityType
    <2>3. OfClass(classHeld', r, k) \in SUBSET OfClass(classHeld, r, k)
      BY DEF OfClass
    <2>4. /\ IsFiniteSet(OfClass(classHeld', r, k))
          /\ Cardinality(OfClass(classHeld', r, k)) <= Cardinality(OfClass(classHeld, r, k))
      BY <2>1, <2>3, FS_Subset
    <2>5. Cardinality(OfClass(classHeld', r, k)) \in Nat
      BY <2>4, FS_CardinalityType
    <2>6. semLimit[r][k] \in Nat /\ semLimit'[r][k] \in Nat
      BY DEF TypeOK
    <2>7. semLimit'[r][k] = semLimit[r][k] \/ semLimit[r][k] = 0
      OBVIOUS
    <2> QED BY <2>1, <2>2, <2>4, <2>5, <2>6, <2>7
  <1> QED BY <1>1, <1>2, <1>3 DEF SemaphoresOK, OfRequest, OfClass, RequestOf, ClassKey

LEMMA SemaphoresKeep ==
  ASSUME TypeOK, SemaphoresOK, [Next]_vars
  PROVE  SemaphoresOK'
  <1>0. semLimit \in [Requests -> [Classes -> Nat]]
    BY DEF TypeOK
  <1>1. ASSUME NEW c \in Calls, CallStep(c) PROVE SemaphoresOK'
    <2>1. CASE UnknownTool(c) \/ RetryLater(c) \/ BackoffOver(c)
      <3>1. UNCHANGED <<classHeld, reqHeld, globalHeld, semLimit>>
        BY <2>1 DEF UnknownTool, RetryLater, BackoffOver, executor, held
      <3> QED BY <1>0, <3>1, SemaphoresShrink
    <2>2. CASE OverQuota(c) \/ MalformedArguments(c) \/ Unavailable(c) \/ Admit(c)
      <3>1. ClassSemaphore(c) /\ UNCHANGED <<classHeld, reqHeld, globalHeld>>
        BY <2>2 DEF OverQuota, MalformedArguments, Unavailable, Admit, Count, held
      <3> QED BY <3>1, ClassSemaphoreEffect, SemaphoresShrink
    <2>3. CASE Success(c) \/ GiveUp(c) \/ CancelledInside(c) \/ CancelledCall(c)
      <3>1. Release(c) /\ UNCHANGED semLimit
        BY <2>3 DEF Success, GiveUp, CancelledInside, CancelledCall, executor
      <3> QED BY <1>0, <3>1, SemaphoresShrink DEF Release
    <2>4. CASE AcquireClass(c)
      <3>1. /\ Cardinality(OfClass(classHeld, RequestOf(c), ClassKey(c)))
                  < semLimit[RequestOf(c)][ClassKey(c)]
            /\ classHeld' = classHeld \cup {c}
            /\ UNCHANGED <<reqHeld, globalHeld, semLimit>>
        <4>1. SameClass(classHeld, c) = OfClass(classHeld, RequestOf(c), ClassKey(c))
          BY DEF SameClass, SameRequest, OfClass
        <4> QED BY <2>4, <4>1 DEF AcquireClass, executor
      <3>2. ASSUME NEW r \in Requests, NEW k \in Classes
            PROVE  /\ IsFiniteSet(OfClass(classHeld', r, k))
                   /\ Cardinality(OfClass(classHeld', r, k)) <= semLimit[r][k]
        <4>1. /\ IsFiniteSet(OfClass(classHeld, r, k))
              /\ Cardinality(OfClass(classHeld, r, k)) <= semLimit[r][k]
          BY DEF SemaphoresOK, OfClass
        <4>2. CASE RequestOf(c) = r /\ ClassKey(c) = k
          <5>1. OfClass(classHeld', r, k) = OfClass(classHeld, r, k) \cup {c}
            BY <3>1, <4>2 DEF OfClass
          <5>2. /\ IsFiniteSet(OfClass(classHeld', r, k))
                /\ Cardinality(OfClass(classHeld', r, k)) <= Cardinality(OfClass(classHeld, r, k)) + 1
                /\ Cardinality(OfClass(classHeld, r, k)) \in Nat
                /\ Cardinality(OfClass(classHeld', r, k)) \in Nat
            BY <4>1, <5>1, OneMore
          <5>3. semLimit[r][k] \in Nat
            BY <1>0
          <5> QED BY <3>1, <4>2, <5>2, <5>3
        <4>3. CASE ~(RequestOf(c) = r /\ ClassKey(c) = k)
          <5>1. OfClass(classHeld', r, k) = OfClass(classHeld, r, k)
            BY <3>1, <4>3 DEF OfClass
          <5> QED BY <4>1, <5>1
        <4> QED BY <4>2, <4>3
      <3>3. \A r \in Requests : OfRequest(reqHeld', r) = OfRequest(reqHeld, r)
        BY <3>1
      <3>4. /\ IsFiniteSet(globalHeld') /\ Cardinality(globalHeld') <= GlobalConcurrency
            /\ \A r \in Requests : /\ IsFiniteSet(OfRequest(reqHeld', r))
                                   /\ Cardinality(OfRequest(reqHeld', r)) <= RequestConcurrency
        BY <3>1, <3>3 DEF SemaphoresOK, OfRequest
      <3> QED BY <3>1, <3>2, <3>4 DEF SemaphoresOK, OfRequest, OfClass, RequestOf, ClassKey
    <2>5. CASE AcquireRequest(c)
      <3>1. /\ Cardinality(OfRequest(reqHeld, RequestOf(c))) < RequestConcurrency
            /\ reqHeld' = reqHeld \cup {c}
            /\ UNCHANGED <<classHeld, globalHeld, semLimit>>
        BY <2>5 DEF AcquireRequest, SameRequest, OfRequest, executor
      <3>2. ASSUME NEW r \in Requests
            PROVE  /\ IsFiniteSet(OfRequest(reqHeld', r))
                   /\ Cardinality(OfRequest(reqHeld', r)) <= RequestConcurrency
        <4>1. /\ IsFiniteSet(OfRequest(reqHeld, r))
              /\ Cardinality(OfRequest(reqHeld, r)) <= RequestConcurrency
          BY DEF SemaphoresOK, OfRequest
        <4>2. CASE RequestOf(c) = r
          <5>1. OfRequest(reqHeld', r) = OfRequest(reqHeld, r) \cup {c}
            BY <3>1, <4>2 DEF OfRequest
          <5>2. /\ IsFiniteSet(OfRequest(reqHeld', r))
                /\ Cardinality(OfRequest(reqHeld', r)) <= Cardinality(OfRequest(reqHeld, r)) + 1
                /\ Cardinality(OfRequest(reqHeld, r)) \in Nat
                /\ Cardinality(OfRequest(reqHeld', r)) \in Nat
            BY <4>1, <5>1, OneMore
          <5> QED BY <3>1, <4>2, <5>2, ExecutorConstants
        <4>3. CASE RequestOf(c) # r
          <5>1. OfRequest(reqHeld', r) = OfRequest(reqHeld, r)
            BY <3>1, <4>3 DEF OfRequest
          <5> QED BY <4>1, <5>1
        <4> QED BY <4>2, <4>3
      <3>3. /\ IsFiniteSet(globalHeld') /\ Cardinality(globalHeld') <= GlobalConcurrency
            /\ \A r \in Requests, k \in Classes :
                  /\ IsFiniteSet(OfClass(classHeld', r, k))
                  /\ Cardinality(OfClass(classHeld', r, k)) <= semLimit'[r][k]
        BY <3>1 DEF SemaphoresOK, OfClass
      <3> QED BY <3>2, <3>3 DEF SemaphoresOK, OfRequest, OfClass, RequestOf, ClassKey
    <2>6. CASE AcquireGlobal(c)
      <3>1. /\ Cardinality(globalHeld) < GlobalConcurrency
            /\ globalHeld' = globalHeld \cup {c}
            /\ UNCHANGED <<classHeld, reqHeld, semLimit>>
        BY <2>6 DEF AcquireGlobal, executor
      <3>2. IsFiniteSet(globalHeld)
        BY DEF SemaphoresOK
      <3>3. /\ IsFiniteSet(globalHeld')
            /\ Cardinality(globalHeld') <= Cardinality(globalHeld) + 1
            /\ Cardinality(globalHeld) \in Nat /\ Cardinality(globalHeld') \in Nat
        BY <3>1, <3>2, OneMore
      <3>4. Cardinality(globalHeld') <= GlobalConcurrency
        BY <3>1, <3>3, ExecutorConstants
      <3> QED BY <3>1, <3>3, <3>4 DEF SemaphoresOK, RequestOf, ClassKey
    <2> QED BY <1>1, <2>1, <2>2, <2>3, <2>4, <2>5, <2>6 DEF CallStep
  <1>2. ASSUME UNCHANGED <<classHeld, reqHeld, globalHeld, semLimit>> PROVE SemaphoresOK'
    BY <1>0, <1>2, SemaphoresShrink
  <1>3. ASSUME NEW r \in Requests,
               StartBatch(r) \/ Disconnect(r) \/ RaiseCancelled(r) \/ ReturnBatch(r)
        PROVE  SemaphoresOK'
    BY <1>2, <1>3 DEF StartBatch, Disconnect, RaiseCancelled, ReturnBatch, held
  <1>4. ASSUME NEW t \in Tools, ResetElapses(t) PROVE SemaphoresOK'
    BY <1>2, <1>4 DEF ResetElapses, executor, held
  <1>5. CASE UNCHANGED vars
    BY <1>2, <1>5 DEF vars, executor, held
  <1> QED BY <1>1, <1>3, <1>4, <1>5 DEF Next

-----------------------------------------------------------------------------
(* The cap on the calls of a request.                                      *)

LEMMA CapUndisturbed ==
  ASSUME CapOK, UNCHANGED <<callsUsed, batch>>,
         \A c \in Calls : pc'[c] \in {"new", "rejected"} <=> pc[c] \in {"new", "rejected"},
         \A r \in Requests : phase'[r] = "idle" <=> phase[r] = "idle"
  PROVE  CapOK'
  <1>1. ASSUME NEW r \in Requests
        PROVE  Ran(r)' = Ran(r) /\ BatchCalls(r)' = BatchCalls(r)
    BY DEF Ran, BatchCalls, RequestOf
  <1> QED BY <1>1 DEF CapOK

LEMMA CapKeeps ==
  ASSUME TypeOK, BatchesOK, CapOK, [Next]_vars
  PROVE  CapOK'
  <1>1. ASSUME NEW c \in Calls, CallStep(c) PROVE CapOK'
    <2>1. /\ pc[c] \in Unfinished
          /\ pc' = [pc EXCEPT ![c] = pc'[c]]
          /\ pc'[c] \in {"class", "request", "global", "run", "backoff", "done", "cancelled"}
          /\ UNCHANGED <<batch, callsUsed>>
          /\ \/ UNCHANGED phase
             \/ phase' = [phase EXCEPT ![RequestOf(c)] =
                             IF @ = "gathering" THEN "aborted" ELSE @]
      BY <1>1, CallStepShape
    <2>2. \A d \in Calls : pc'[d] \in {"new", "rejected"} <=> pc[d] \in {"new", "rejected"}
      BY <2>1 DEF Unfinished, TypeOK
    <2>3. \A r \in Requests : phase'[r] = "idle" <=> phase[r] = "idle"
      BY <2>1 DEF TypeOK
    <2> QED BY <2>1, <2>2, <2>3, CapUndisturbed
  <1>2. ASSUME NEW r \in Requests, StartBatch(r) PROVE CapOK'
    <2>1. PICK accepted \in SUBSET Calls, calls \in SUBSET Calls :
             /\ calls = ToSet(Plan[r][batch[r] + 1])
             /\ accepted \subseteq calls
             /\ IsFiniteSet(accepted) /\ Cardinality(accepted) <= Remaining(r)
             /\ \A c \in calls : RequestOf(c) = r /\ pc[c] = "new"
             /\ pc' = [c \in Calls |-> IF c \in accepted THEN "created"
                                       ELSE IF c \in calls THEN "rejected" ELSE pc[c]]
      BY <1>2, StartBatchEffect
    <2>2. /\ phase[r] = "idle"
          /\ batch' = [batch EXCEPT ![r] = @ + 1] /\ phase' = [phase EXCEPT ![r] = "gathering"]
          /\ UNCHANGED callsUsed
      BY <1>2 DEF StartBatch
    <2>3. ASSUME NEW q \in Requests, q # r
          PROVE  /\ Ran(q)' = Ran(q) /\ BatchCalls(q)' = BatchCalls(q)
                 /\ phase'[q] = phase[q]
      BY <2>1, <2>2, <2>3 DEF Ran, BatchCalls, RequestOf, TypeOK
    <2>4. Ran(r)' = Ran(r) \cup accepted
      BY <2>1 DEF Ran, RequestOf
    <2>5. Ran(r) \cap calls = {} /\ Ran(r) \cap accepted = {}
      BY <2>1 DEF Ran
    <2>6. BatchCalls(r)' = calls
      BY <2>1, <2>2 DEF BatchCalls, TypeOK
    <2>7. Ran(r)' \ BatchCalls(r)' = Ran(r)
      BY <2>1, <2>4, <2>5, <2>6
    <2>8. IsFiniteSet(Ran(r)) /\ callsUsed[r] = Cardinality(Ran(r)) /\ callsUsed[r] <= MaxCalls
      BY <2>2 DEF CapOK
    <2>9. /\ IsFiniteSet(Ran(r) \cup accepted)
          /\ Cardinality(Ran(r) \cup accepted)
                = Cardinality(Ran(r)) + Cardinality(accepted) - Cardinality(Ran(r) \cap accepted)
      BY <2>1, <2>8, FS_Union
    <2>10. Cardinality(Ran(r) \cap accepted) = 0
      BY <2>5, FS_EmptySet
    <2>11. Cardinality(Ran(r)) \in Nat /\ Cardinality(accepted) \in Nat
      BY <2>1, <2>8, FS_CardinalityType
    <2>12. IsFiniteSet(Ran(r)') /\ Cardinality(Ran(r)') <= MaxCalls
      <3>1. Cardinality(Ran(r)') = Cardinality(Ran(r)) + Cardinality(accepted)
        BY <2>4, <2>9, <2>10, <2>11
      <3>2. MaxCalls \in Nat
        BY ExecutorConstants
      <3> QED BY <2>1, <2>4, <2>8, <2>9, <2>11, <3>1, <3>2 DEF Remaining
    <2>13. phase'[r] # "idle"
      BY <2>2 DEF TypeOK
    <2>14. ASSUME NEW q \in Requests
           PROVE  /\ IsFiniteSet(Ran(q)') /\ Cardinality(Ran(q)') <= MaxCalls
                  /\ phase'[q] = "idle" => callsUsed'[q] = Cardinality(Ran(q)')
                  /\ phase'[q] # "idle" => callsUsed'[q] = Cardinality(Ran(q)' \ BatchCalls(q)')
      <3>1. CASE q = r
        BY <2>2, <2>7, <2>8, <2>12, <2>13, <3>1
      <3>2. CASE q # r
        BY <2>2, <2>3, <3>2 DEF CapOK
      <3> QED BY <3>1, <3>2
    <2> QED BY <2>14 DEF CapOK
  <1>3. ASSUME NEW r \in Requests, Disconnect(r) \/ RaiseCancelled(r) PROVE CapOK'
    <2>1. \A q \in Requests : phase'[q] = "idle" <=> phase[q] = "idle"
      BY <1>3 DEF Disconnect, RaiseCancelled, TypeOK
    <2> QED BY <1>3, <2>1, CapUndisturbed DEF Disconnect, RaiseCancelled
  <1>4. ASSUME NEW r \in Requests, ReturnBatch(r) PROVE CapOK'
    <2> DEFINE back == {c \in BatchCalls(r) : pc[c] = "done"}
    <2>1. /\ phase[r] = "gathering" /\ phase' = [phase EXCEPT ![r] = "idle"]
          /\ \A c \in BatchCalls(r) : pc[c] \in {"done", "rejected"}
          /\ callsUsed' = [callsUsed EXCEPT ![r] = @ + Cardinality(back)]
          /\ UNCHANGED <<batch, pc>>
      BY <1>4 DEF ReturnBatch, Returns
    <2>2. \A q \in Requests : Ran(q)' = Ran(q) /\ BatchCalls(q)' = BatchCalls(q)
      BY <2>1 DEF Ran, BatchCalls, RequestOf
    <2>3. back = Ran(r) \cap BatchCalls(r)
      <3>1. batch[r] \in 1..Len(Plan[r]) /\ batch[r] \in DOMAIN Plan[r]
        BY <2>1, PlanTyped DEF BatchesOK, TypeOK
      <3>2. \A c \in BatchCalls(r) : c \in Calls /\ RequestOf(c) = r
        BY <3>1, PlanTyped, OwnerOfEmitted DEF BatchCalls
      <3> QED BY <2>1, <3>2 DEF Ran
    <2>4. IsFiniteSet(Ran(r)) /\ callsUsed[r] = Cardinality(Ran(r) \ BatchCalls(r))
      BY <2>1 DEF CapOK
    <2>5. /\ Cardinality(Ran(r) \ BatchCalls(r))
                = Cardinality(Ran(r)) - Cardinality(Ran(r) \cap BatchCalls(r))
          /\ IsFiniteSet(Ran(r) \cap BatchCalls(r))
      BY <2>4, FS_Difference, FS_Intersection
    <2>6. Cardinality(Ran(r)) \in Nat /\ Cardinality(Ran(r) \cap BatchCalls(r)) \in Nat
      BY <2>4, <2>5, FS_CardinalityType
    <2>7. callsUsed[r] + Cardinality(back) = Cardinality(Ran(r))
      BY <2>3, <2>4, <2>5, <2>6
    <2> HIDE DEF back
    <2>8. ASSUME NEW q \in Requests
          PROVE  /\ IsFiniteSet(Ran(q)') /\ Cardinality(Ran(q)') <= MaxCalls
                 /\ phase'[q] = "idle" => callsUsed'[q] = Cardinality(Ran(q)')
                 /\ phase'[q] # "idle" => callsUsed'[q] = Cardinality(Ran(q)' \ BatchCalls(q)')
      <3>1. CASE q = r
        <4>1. phase'[r] = "idle" /\ callsUsed'[r] = callsUsed[r] + Cardinality(back)
          BY <2>1 DEF TypeOK
        <4> QED BY <2>2, <2>7, <3>1, <4>1 DEF CapOK
      <3>2. CASE q # r
        <4>1. phase'[q] = phase[q] /\ callsUsed'[q] = callsUsed[q]
          BY <2>1, <3>2 DEF TypeOK
        <4> QED BY <2>2, <4>1 DEF CapOK
      <3> QED BY <3>1, <3>2
    <2> QED BY <2>8 DEF CapOK
  <1>5. ASSUME NEW t \in Tools, ResetElapses(t) PROVE CapOK'
    BY <1>5, CapUndisturbed DEF ResetElapses, executor
  <1>6. CASE UNCHANGED vars
    BY <1>6, CapUndisturbed DEF vars, executor
  <1> QED BY <1>1, <1>2, <1>3, <1>4, <1>5, <1>6 DEF Next

-----------------------------------------------------------------------------
(* The quota of a tool.                                                    *)

\* Whether c has run, or nothing but the semaphores keeps it back.
Passed(c) ==
    \/ pc[c] \in InFlight
    \/ pc[c] = "done" /\ result[c].status \in {"success", "timeout", "internal_error"}

\* Steps that let no call through keep to the quota, counted or not.
LEMMA QuotaUndisturbed ==
  ASSUME TypeOK, QuotaOK, TypeOK',
         \A c \in Calls : Passed(c)' => Passed(c),
         \A r \in Requests, t \in Tools :
            toolCounts[r][t] <= toolCounts'[r][t] /\ toolCounts'[r][t] <= Quota[t]
  PROVE  QuotaOK'
  <1>1. ASSUME NEW r \in Requests, NEW t \in Tools
        PROVE  /\ IsFiniteSet(LetThroughOf(r, t)')
               /\ Cardinality(LetThroughOf(r, t)') <= toolCounts'[r][t]
    <2>1. /\ IsFiniteSet(LetThroughOf(r, t))
          /\ Cardinality(LetThroughOf(r, t)) <= toolCounts[r][t]
      BY DEF QuotaOK
    <2>2. LetThroughOf(r, t)' \in SUBSET LetThroughOf(r, t)
      BY DEF LetThroughOf, LetThrough, Passed, RequestOf
    <2>3. /\ IsFiniteSet(LetThroughOf(r, t)')
          /\ Cardinality(LetThroughOf(r, t)') <= Cardinality(LetThroughOf(r, t))
      BY <2>1, <2>2, FS_Subset
    <2>4. Cardinality(LetThroughOf(r, t)) \in Nat /\ Cardinality(LetThroughOf(r, t)') \in Nat
      BY <2>1, <2>3, FS_CardinalityType
    <2>5. toolCounts[r][t] \in Nat /\ toolCounts'[r][t] \in Nat
      BY DEF TypeOK
    <2>6. toolCounts[r][t] <= toolCounts'[r][t]
      OBVIOUS
    <2> QED BY <2>1, <2>3, <2>4, <2>5, <2>6
  <1> QED BY <1>1 DEF QuotaOK

LEMMA CountEffect ==
  ASSUME TypeOK, NEW c \in Calls, RequestOf(c) \in Requests, QuotaOK, Count(c)
  PROVE  \A r \in Requests, t \in Tools :
            /\ toolCounts[r][t] \in Nat
            /\ toolCounts'[r][t] = toolCounts[r][t]
                  + (IF r = RequestOf(c) /\ t = ToolOf[c] THEN 1 ELSE 0)
            /\ toolCounts'[r][t] <= Quota[t]
  <1>1. toolCounts \in [Requests -> [Tools -> Nat]]
    BY DEF TypeOK
  <1>2. /\ toolCounts' = [toolCounts EXCEPT ![RequestOf(c)][ToolOf[c]] = @ + 1]
        /\ toolCounts[RequestOf(c)][ToolOf[c]] < Quota[ToolOf[c]]
    BY DEF Count, WithinQuota
  <1>3. ToolOf[c] \in Tools /\ \A t \in Tools : Quota[t] \in Nat
    BY ExecutorConstants
  <1>4. ASSUME NEW r \in Requests, NEW t \in Tools
        PROVE  /\ toolCounts[r][t] \in Nat
               /\ toolCounts'[r][t] = toolCounts[r][t]
                     + (IF r = RequestOf(c) /\ t = ToolOf[c] THEN 1 ELSE 0)
    BY <1>1, <1>2, <1>3
  <1>5. \A r \in Requests, t \in Tools : toolCounts[r][t] <= Quota[t]
    BY DEF QuotaOK
  <1> QED BY <1>2, <1>3, <1>4, <1>5

LEMMA QuotaKeeps ==
  ASSUME TypeOK, BatchesOK, QuotaOK, TypeOK', [Next]_vars
  PROVE  QuotaOK'
  <1>0. \A r \in Requests, t \in Tools :
           toolCounts[r][t] \in Nat /\ toolCounts[r][t] <= Quota[t] /\ Quota[t] \in Nat
    BY ExecutorConstants DEF TypeOK, QuotaOK
  <1>1. ASSUME UNCHANGED toolCounts, \A c \in Calls : Passed(c)' => Passed(c)
        PROVE  QuotaOK'
    <2>1. \A r \in Requests, t \in Tools :
             toolCounts[r][t] <= toolCounts'[r][t] /\ toolCounts'[r][t] <= Quota[t]
      BY <1>0, <1>1
    <2> QED BY <1>1, <2>1, QuotaUndisturbed
  <1>2. ASSUME NEW c \in Calls, CallStep(c) PROVE QuotaOK'
    <2>1. /\ pc[c] \in Unfinished /\ pc' = [pc EXCEPT ![c] = pc'[c]]
      BY <1>2, CallStepShape
    <2>2. RequestOf(c) \in Requests
      BY <2>1 DEF BatchesOK, Unfinished
    <2>3. ASSUME result' = [result EXCEPT ![c] = result'[c]], Passed(c)' => Passed(c)
          PROVE  \A d \in Calls : Passed(d)' => Passed(d)
      <3>1. \A d \in Calls \ {c} : pc'[d] = pc[d] /\ result'[d] = result[d]
        BY <2>1, <2>3 DEF TypeOK
      <3> QED BY <2>3, <3>1 DEF Passed
    <2>4. CASE UnknownTool(c)
      <3>1. Passed(c)' => Passed(c)
        BY <2>4 DEF UnknownTool, Finish, ErrorResult, Passed, TypeOK,
                    InFlight, Unfinished
      <3>2. result' = [result EXCEPT ![c] = result'[c]] /\ UNCHANGED toolCounts
        BY <2>4 DEF UnknownTool, Finish, executor, TypeOK
      <3> QED BY <1>1, <2>3, <3>1, <3>2
    <2>5. CASE OverQuota(c)
      <3>1. Passed(c)' => Passed(c)
        BY <2>5 DEF OverQuota, Finish, ErrorResult, Passed, TypeOK,
                    InFlight, Unfinished
      <3>2. result' = [result EXCEPT ![c] = result'[c]] /\ UNCHANGED toolCounts
        BY <2>5 DEF OverQuota, Finish, TypeOK
      <3> QED BY <1>1, <2>3, <3>1, <3>2
    <2>6. CASE MalformedArguments(c) \/ Unavailable(c)
      <3>1. Passed(c)' => Passed(c)
        BY <2>6 DEF MalformedArguments, Unavailable, Finish, ErrorResult, Passed, TypeOK,
                    InFlight, Unfinished
      <3>2. result' = [result EXCEPT ![c] = result'[c]] /\ Count(c)
        BY <2>6 DEF MalformedArguments, Unavailable, Finish, TypeOK
      <3>3. \A r \in Requests, t \in Tools :
               toolCounts[r][t] <= toolCounts'[r][t] /\ toolCounts'[r][t] <= Quota[t]
        BY <2>2, <3>2, CountEffect
      <3>4. \A d \in Calls : Passed(d)' => Passed(d)
        BY <2>3, <3>1, <3>2
      <3> QED BY <3>3, <3>4, QuotaUndisturbed
    <2>7. CASE Admit(c)
      <3>1. Count(c) /\ UNCHANGED result /\ pc[c] = "created" /\ pc' = [pc EXCEPT ![c] = "class"]
        BY <2>7 DEF Admit, Count
      <3>2. ASSUME NEW r \in Requests, NEW t \in Tools
            PROVE  /\ IsFiniteSet(LetThroughOf(r, t)')
                   /\ Cardinality(LetThroughOf(r, t)') <= toolCounts'[r][t]
        <4>1. /\ IsFiniteSet(LetThroughOf(r, t))
              /\ Cardinality(LetThroughOf(r, t)) <= toolCounts[r][t]
          BY DEF QuotaOK
        <4>2. \A d \in Calls \ {c} : Passed(d)' <=> Passed(d)
          BY <3>1 DEF Passed, TypeOK
        <4>3. CASE r = RequestOf(c) /\ t = ToolOf[c]
          <5>1. LetThroughOf(r, t)' = LetThroughOf(r, t) \cup {c}
            <6>1. Passed(c)'
              BY <3>1 DEF Passed, InFlight, Unfinished, TypeOK
            <6> QED BY <4>2, <4>3, <6>1 DEF LetThroughOf, LetThrough, Passed, RequestOf
          <5>2. /\ IsFiniteSet(LetThroughOf(r, t)')
                /\ Cardinality(LetThroughOf(r, t)') <= Cardinality(LetThroughOf(r, t)) + 1
                /\ Cardinality(LetThroughOf(r, t)) \in Nat
                /\ Cardinality(LetThroughOf(r, t)') \in Nat
            BY <4>1, <5>1, OneMore
          <5>3. toolCounts[r][t] \in Nat /\ toolCounts'[r][t] = toolCounts[r][t] + 1
            BY <2>2, <3>1, <4>3, CountEffect
          <5> QED BY <4>1, <5>2, <5>3
        <4>4. CASE ~(r = RequestOf(c) /\ t = ToolOf[c])
          <5>1. LetThroughOf(r, t)' = LetThroughOf(r, t)
            BY <4>2, <4>4 DEF LetThroughOf, LetThrough, Passed, RequestOf
          <5>2. toolCounts[r][t] \in Nat /\ toolCounts'[r][t] = toolCounts[r][t] + 0
            BY <2>2, <3>1, <4>4, CountEffect
          <5> QED BY <4>1, <5>1, <5>2
        <4> QED BY <4>3, <4>4
      <3>3. \A r \in Requests, t \in Tools : toolCounts'[r][t] <= Quota[t]
        BY <2>2, <3>1, CountEffect
      <3> QED BY <3>2, <3>3 DEF QuotaOK
    <2>8. CASE AcquireClass(c) \/ AcquireRequest(c) \/ AcquireGlobal(c)
                 \/ RetryLater(c) \/ BackoffOver(c)
      <3>1. Passed(c)
        BY <2>8 DEF AcquireClass, AcquireRequest, AcquireGlobal, RetryLater, BackoffOver,
                    Running, Passed, InFlight, Unfinished
      <3>2. result' = [result EXCEPT ![c] = result'[c]] /\ UNCHANGED toolCounts
        BY <2>8 DEF AcquireClass, AcquireRequest, AcquireGlobal, RetryLater, BackoffOver,
                    executor, TypeOK
      <3> QED BY <1>1, <2>3, <3>1, <3>2
    <2>9. CASE Success(c) \/ GiveUp(c) \/ CancelledInside(c)
      <3>1. Passed(c)
        BY <2>9 DEF Success, GiveUp, CancelledInside, Running, Passed, InFlight, Unfinished
      <3>2. result' = [result EXCEPT ![c] = result'[c]] /\ UNCHANGED toolCounts
        BY <2>9 DEF Success, GiveUp, CancelledInside, Finish, executor, TypeOK
      <3> QED BY <1>1, <2>3, <3>1, <3>2
    <2>10. CASE CancelledCall(c)
      <3>1. Passed(c)' => Passed(c)
        BY <2>10 DEF CancelledCall, Passed, TypeOK, InFlight, Unfinished
      <3>2. result' = [result EXCEPT ![c] = result'[c]] /\ UNCHANGED toolCounts
        BY <2>10 DEF CancelledCall, executor, TypeOK
      <3> QED BY <1>1, <2>3, <3>1, <3>2
    <2> QED BY <1>2, <2>4, <2>5, <2>6, <2>7, <2>8, <2>9, <2>10 DEF CallStep
  <1>3. ASSUME NEW r \in Requests, StartBatch(r) PROVE QuotaOK'
    <2>1. PICK accepted \in SUBSET Calls, calls \in SUBSET Calls :
             pc' = [c \in Calls |-> IF c \in accepted THEN "created"
                                    ELSE IF c \in calls THEN "rejected" ELSE pc[c]]
      BY <1>3, StartBatchEffect
    <2>2. UNCHANGED <<result, toolCounts>>
      BY <1>3 DEF StartBatch
    <2>3. \A c \in Calls : Passed(c)' => Passed(c)
      BY <2>1, <2>2 DEF Passed, InFlight, Unfinished
    <2> QED BY <1>1, <2>2, <2>3
  <1>4. ASSUME NEW r \in Requests, Disconnect(r) \/ RaiseCancelled(r) PROVE QuotaOK'
    <2>1. UNCHANGED <<pc, result, toolCounts>>
      BY <1>4 DEF Disconnect, RaiseCancelled
    <2> QED BY <1>1, <2>1 DEF Passed
  <1>5. ASSUME NEW r \in Requests, ReturnBatch(r) PROVE QuotaOK'
    <2>1. UNCHANGED <<pc, toolCounts>>
      BY <1>5 DEF ReturnBatch
    <2>2. ASSUME NEW c \in Calls, Passed(c)' PROVE Passed(c)
      <3>1. CASE c \notin BatchCalls(r)
        <4>1. result'[c] = result[c]
          BY <1>5, <3>1 DEF ReturnBatch
        <4> QED BY <2>1, <2>2, <4>1 DEF Passed
      <3>2. CASE c \in BatchCalls(r)
        <4>1. \E u : result'[c] = FinalResult(r, u, c)
          BY <1>5, <3>2 DEF ReturnBatch
        <4>2. result'[c] = OwnResult(c) \/ result'[c].status = "budget_exceeded"
          BY <4>1 DEF FinalResult, ErrorResult
        <4>3. pc[c] \in {"done", "rejected"}
          BY <1>5, <3>2 DEF ReturnBatch, Returns
        <4> QED BY <2>1, <2>2, <4>2, <4>3 DEF Passed, OwnResult, InFlight, Unfinished
      <3> QED BY <3>1, <3>2
    <2> QED BY <1>1, <2>1, <2>2
  <1>6. ASSUME NEW t \in Tools, ResetElapses(t) PROVE QuotaOK'
    <2>1. UNCHANGED <<pc, result, toolCounts>>
      BY <1>6 DEF ResetElapses, executor
    <2> QED BY <1>1, <2>1 DEF Passed
  <1>7. CASE UNCHANGED vars
    <2>1. UNCHANGED <<pc, result, toolCounts>>
      BY <1>7 DEF vars, executor
    <2> QED BY <1>1, <2>1 DEF Passed
  <1> QED BY <1>2, <1>3, <1>4, <1>5, <1>6, <1>7 DEF Next

-----------------------------------------------------------------------------
(* The theorems.                                                           *)

LEMMA InitIInv == Init => IInv
  <1> SUFFICES ASSUME Init PROVE IInv
    OBVIOUS
  <1> USE DEF Init
  <1>1. TypeOK
    BY DEF TypeOK, NoResult, Statuses
  <1>2. BatchesOK
    BY PlanTyped DEF BatchesOK
  <1>3. PermitsOK
    BY DEF PermitsOK
  <1>4. IsFiniteSet({}) /\ Cardinality({}) = 0
    BY FS_EmptySet
  <1>5. SemaphoresOK
    <2>1. \A r \in Requests : {c \in reqHeld : RequestOf(c) = r} = {}
      OBVIOUS
    <2>2. \A r \in Requests, k \in Classes :
             {c \in classHeld : RequestOf(c) = r /\ ClassKey(c) = k} = {} /\ semLimit[r][k] = 0
      OBVIOUS
    <2> QED BY <1>4, <2>1, <2>2, ExecutorConstants DEF SemaphoresOK
  <1>6. CapOK
    <2>1. ASSUME NEW r \in Requests
          PROVE  /\ IsFiniteSet(Ran(r)) /\ Cardinality(Ran(r)) = 0
                 /\ phase[r] = "idle" /\ callsUsed[r] = 0
      <3>1. Ran(r) = {}
        BY DEF Ran
      <3> QED BY <1>4, <3>1
    <2> QED BY <2>1, ExecutorConstants DEF CapOK
  <1>7. QuotaOK
    <2>1. ASSUME NEW r \in Requests, NEW t \in Tools
          PROVE  /\ IsFiniteSet(LetThroughOf(r, t)) /\ Cardinality(LetThroughOf(r, t)) = 0
                 /\ toolCounts[r][t] = 0
      <3>1. LetThroughOf(r, t) = {}
        BY DEF LetThroughOf, LetThrough, InFlight, Unfinished
      <3> QED BY <1>4, <3>1
    <2>2. \A t \in Tools : Quota[t] \in Nat
      BY ExecutorConstants
    <2> QED BY <2>1, <2>2 DEF QuotaOK
  <1>8. CancelledLeavesNothing
    BY DEF CancelledLeavesNothing
  <1> QED BY <1>1, <1>2, <1>3, <1>5, <1>6, <1>7, <1>8 DEF IInv

LEMMA NextKeeps == IInv /\ [Next]_vars => IInv'
  <1> SUFFICES ASSUME IInv, [Next]_vars PROVE IInv'
    OBVIOUS
  <1> USE DEF IInv
  <1>1. TypeOK' BY NextTyped
  <1>2. BatchesOK' BY BatchesKeep
  <1>3. PermitsOK' BY PermitsKeep
  <1>4. SemaphoresOK' BY SemaphoresKeep
  <1>5. CapOK' BY CapKeeps
  <1>6. QuotaOK' BY <1>1, QuotaKeeps
  <1>7. CancelledLeavesNothing' BY CancelledKeeps
  <1> QED BY <1>1, <1>2, <1>3, <1>4, <1>5, <1>6, <1>7

LEMMA Invariant == Spec => []IInv
  BY InitIInv, NextKeeps, PTL DEF Spec

\* Whatever runs or backs off holds one permit of each of the three semaphores.
LEMMA BoundedByPermits == IInv => ConcurrencyBounded
  <1> SUFFICES ASSUME IInv PROVE ConcurrencyBounded
    OBVIOUS
  <1>1. \A r \in Requests : Active(r) = OfRequest(globalHeld, r)
    BY DEF IInv, PermitsOK, Active, OfRequest
  <1>2. Cardinality(UNION {Active(r) : r \in Requests}) <= GlobalConcurrency
    <2>1. IsFiniteSet(globalHeld) /\ Cardinality(globalHeld) <= GlobalConcurrency
      BY DEF IInv, SemaphoresOK
    <2>2. UNION {Active(r) : r \in Requests} \in SUBSET globalHeld
      BY <1>1 DEF OfRequest
    <2> DEFINE all == UNION {Active(r) : r \in Requests}
    <2> HIDE DEF all
    <2>3. IsFiniteSet(all) /\ Cardinality(all) <= Cardinality(globalHeld)
      BY <2>1, <2>2, FS_Subset DEF all
    <2>4. Cardinality(all) \in Nat /\ Cardinality(globalHeld) \in Nat
      BY <2>1, <2>3, FS_CardinalityType
    <2>5. Cardinality(all) <= GlobalConcurrency
      BY <2>1, <2>3, <2>4, ExecutorConstants
    <2> QED BY <2>5 DEF all
  <1>3. ASSUME NEW r \in Requests
        PROVE  Cardinality(Active(r)) <= RequestConcurrency
    <2>1. /\ IsFiniteSet(OfRequest(reqHeld, r))
          /\ Cardinality(OfRequest(reqHeld, r)) <= RequestConcurrency
      BY DEF IInv, SemaphoresOK, OfRequest
    <2>2. Active(r) \in SUBSET OfRequest(reqHeld, r)
      BY DEF IInv, PermitsOK, Active, OfRequest
    <2>3. IsFiniteSet(Active(r)) /\ Cardinality(Active(r)) <= Cardinality(OfRequest(reqHeld, r))
      BY <2>1, <2>2, FS_Subset
    <2>4. Cardinality(Active(r)) \in Nat /\ Cardinality(OfRequest(reqHeld, r)) \in Nat
      BY <2>1, <2>3, FS_CardinalityType
    <2> QED BY <2>1, <2>3, <2>4, ExecutorConstants
  <1>4. ASSUME NEW r \in Requests, NEW k \in Classes
        PROVE  Cardinality({c \in Active(r) : ClassKey(c) = k}) <= semLimit[r][k]
    <2> DEFINE own == {c \in Active(r) : ClassKey(c) = k}
    <2>1. /\ IsFiniteSet(OfClass(classHeld, r, k))
          /\ Cardinality(OfClass(classHeld, r, k)) <= semLimit[r][k]
      BY DEF IInv, SemaphoresOK, OfClass
    <2>2. own \in SUBSET OfClass(classHeld, r, k)
      BY DEF IInv, PermitsOK, Active, OfClass
    <2> HIDE DEF own
    <2>3. IsFiniteSet(own) /\ Cardinality(own) <= Cardinality(OfClass(classHeld, r, k))
      BY <2>1, <2>2, FS_Subset
    <2>4. Cardinality(own) \in Nat /\ Cardinality(OfClass(classHeld, r, k)) \in Nat
      BY <2>1, <2>3, FS_CardinalityType
    <2>5. semLimit[r][k] \in Nat
      BY DEF IInv, TypeOK
    <2>6. Cardinality(own) <= semLimit[r][k]
      BY <2>1, <2>3, <2>4, <2>5
    <2> QED BY <2>6 DEF own
  <1> QED BY <1>2, <1>3, <1>4 DEF ConcurrencyBounded

\* Calls let through were accepted under the cap and counted under the quota.
LEMMA BoundedByCounters == IInv => CallsBounded
  <1> SUFFICES ASSUME IInv PROVE CallsBounded
    OBVIOUS
  <1>1. ASSUME NEW r \in Requests
        PROVE  Cardinality(LetThrough(r)) <= MaxCalls
    <2>1. IsFiniteSet(Ran(r)) /\ Cardinality(Ran(r)) <= MaxCalls
      BY DEF IInv, CapOK
    <2>2. LetThrough(r) \in SUBSET Ran(r)
      BY DEF LetThrough, Ran, InFlight, Unfinished
    <2>3. IsFiniteSet(LetThrough(r)) /\ Cardinality(LetThrough(r)) <= Cardinality(Ran(r))
      BY <2>1, <2>2, FS_Subset
    <2>4. Cardinality(LetThrough(r)) \in Nat /\ Cardinality(Ran(r)) \in Nat
      BY <2>1, <2>3, FS_CardinalityType
    <2> QED BY <2>1, <2>3, <2>4, ExecutorConstants
  <1>2. ASSUME NEW r \in Requests, NEW t \in Tools
        PROVE  Cardinality(LetThroughOf(r, t)) <= Quota[t]
    <2>1. /\ IsFiniteSet(LetThroughOf(r, t))
          /\ Cardinality(LetThroughOf(r, t)) <= toolCounts[r][t]
          /\ toolCounts[r][t] <= Quota[t]
      BY DEF IInv, QuotaOK
    <2>2. Cardinality(LetThroughOf(r, t)) \in Nat /\ toolCounts[r][t] \in Nat /\ Quota[t] \in Nat
      BY <2>1, FS_CardinalityType, ExecutorConstants DEF IInv, TypeOK
    <2> QED BY <2>1, <2>2
  <1> QED BY <1>1, <1>2 DEF CallsBounded, LetThroughOf

\* The counters, the positions of the calls, their results and the permits
\* are well typed (tool_executor.py:133-198); the budgets are counted in
\* natural numbers however many results are charged (lines 371-388).
THEOREM TypeCorrect == Spec => []TypeOK
  <1>1. IInv => TypeOK
    BY DEF IInv
  <1> QED BY Invariant, <1>1, PTL

\* However the calls of all requests interleave, time out, are retried or
\* cancelled: the three concurrency limits hold for what runs, the cap and the
\* quotas for what is let through, and what has ended holds no permit
\* (tool_executor.py:250-300 and 345-358).
THEOREM LimitsHold == Spec => []WithinLimits
  <1>1. IInv => PermitsReturned
    BY DEF IInv, PermitsOK, PermitsReturned, Unfinished
  <1>2. IInv => WithinLimits
    BY <1>1, BoundedByPermits, BoundedByCounters DEF IInv, WithinLimits
  <1> QED BY Invariant, <1>2, PTL

-----------------------------------------------------------------------------
(* Sums over finite sets.                                                  *)

\* f adds up the weights w of the subsets of S, as FoldSet does.
Adds(f, w, S) ==
    f = [s \in SUBSET S |-> IF s = {} THEN 0
                            ELSE f[s \ {CHOOSE x \in s : TRUE}] + w[CHOOSE x \in s : TRUE]]

Total(w, S) == (CHOOSE f : Adds(f, w, S))[S]

\* What holds of a set if it holds of it without any one of its elements.
LEMMA SmallerFirst ==
  ASSUME NEW S, IsFiniteSet(S), NEW G,
         \A T \in SUBSET S : (\A x \in T : T \ {x} \in G) => T \in G
  PROVE  \A T \in SUBSET S : T \in G
  <1> DEFINE Bad == {n \in Nat : \E T \in SUBSET S : T \notin G /\ Cardinality(T) = n}
  <1>1. \A T \in SUBSET S : IsFiniteSet(T) /\ Cardinality(T) \in Nat
    BY FS_Subset, FS_CardinalityType
  <1> SUFFICES ASSUME NEW T \in SUBSET S, T \notin G PROVE FALSE
    OBVIOUS
  <1>2. Bad \in SUBSET Nat /\ Bad # {}
    BY <1>1
  <1> HIDE DEF Bad
  <1>3. PICK m \in Bad : \A n \in Bad : m <= n
    BY <1>2, LeastExists
  <1>4. PICK U \in SUBSET S : U \notin G /\ Cardinality(U) = m
    BY <1>3 DEF Bad
  <1>5. ASSUME NEW x \in U PROVE U \ {x} \in G
    <2>1. Cardinality(U \ {x}) = Cardinality(U) - 1
      BY <1>1, <1>4, FS_RemoveElement
    <2>2. U \ {x} \in SUBSET S /\ Cardinality(U \ {x}) \in Nat
      BY <1>1
    <2>3. ASSUME U \ {x} \notin G PROVE FALSE
      <3>1. Cardinality(U \ {x}) \in Bad
        BY <2>2, <2>3 DEF Bad
      <3> QED BY <3>1, <2>1, <2>2, <1>3, <1>4, <1>1
    <2> QED BY <2>3
  <1> QED BY <1>4, <1>5

\* There is such a sum.
LEMMA SumThere ==
  ASSUME NEW S, IsFiniteSet(S), NEW w, \A x \in S : w[x] \in Nat
  PROVE  \E f \in [SUBSET S -> Nat] : Adds(f, w, S)
  <1> DEFINE V        == [SUBSET S -> Nat]
             some(s)  == CHOOSE x \in s : TRUE
             next(f)  == [s \in SUBSET S |-> IF s = {} THEN 0 ELSE f[s \ {some(s)}] + w[some(s)]]
             none     == [s \in SUBSET S |-> 0]
             n        == Cardinality(S) + 1
             step     == [p \in V \X (1..n) |-> next(p[1])]
  <1>1. n \in Nat /\ n >= 1 /\ Cardinality(S) \in Nat
    BY FS_CardinalityType
  <1>2. \A s \in SUBSET S : s # {} => some(s) \in s
    OBVIOUS
  <1> HIDE DEF some
  <1>3. ASSUME NEW f \in V PROVE next(f) \in V
    <2>1. ASSUME NEW s \in SUBSET S
          PROVE  (IF s = {} THEN 0 ELSE f[s \ {some(s)}] + w[some(s)]) \in Nat
      BY <1>2
    <2> QED BY <2>1
  <1>4. none \in V
    OBVIOUS
  <1>5. step \in [V \X (1..n) -> V]
    <2> HIDE DEF next, V
    <2> QED BY <1>3
  <1>6. \A f \in V, i \in 1..n : step[<<f, i>>] = next(f)
    <2> HIDE DEF next, V
    <2> QED OBVIOUS
  <1>7. PICK g : Iterates(g, V, none, n, step)
    <2> HIDE DEF V, none, n, step
    <2> QED BY <1>1, <1>4, <1>5, RecursionOnInterval, Zenon
  <1> HIDE DEF step
  <1>8. \A i \in 0..n : g[i] \in V
    BY <1>7 DEF Iterates
  <1>9. ASSUME NEW i \in 1..n PROVE g[i] = next(g[i - 1])
    <2>1. i - 1 \in 0..n
      BY <1>1
    <2> HIDE DEF next, V
    <2> QED BY <2>1, <1>6, <1>7, <1>8 DEF Iterates
  <1> DEFINE Bad == {i \in 0..Cardinality(S) : \E s \in SUBSET S :
                        Cardinality(s) <= i /\ g[i + 1][s] # g[i][s]}
  <1>10. Bad = {}
    <2> SUFFICES ASSUME Bad # {} PROVE FALSE
      OBVIOUS
    <2>1. Bad \in SUBSET Nat
      BY <1>1
    <2> HIDE DEF Bad
    <2>2. PICK m \in Bad : \A j \in Bad : m <= j
      BY <2>1, LeastExists
    <2>3. PICK s \in SUBSET S : Cardinality(s) <= m /\ g[m + 1][s] # g[m][s]
      BY <2>2 DEF Bad
    <2>4. m \in 0..Cardinality(S) /\ m + 1 \in 1..n /\ (m + 1) - 1 = m
      BY <2>2, <1>1 DEF Bad
    <2>5. g[m + 1] = next(g[m])
      BY <1>9, <2>4
    <2>6. IsFiniteSet(s) /\ Cardinality(s) \in Nat
      BY FS_Subset, FS_CardinalityType
    <2>7. CASE s = {}
      <3>1. g[m + 1][s] = 0
        BY <2>5, <2>7
      <3>2. g[m][s] = 0
        <4>1. CASE m = 0
          BY <4>1, <1>7 DEF Iterates
        <4>2. CASE m # 0
          <5>1. m \in 1..n
            BY <4>2, <2>4, <1>1
          <5>2. g[m] = next(g[m - 1])
            BY <5>1, <1>9
          <5> QED BY <5>2, <2>7
        <4> QED BY <4>1, <4>2
      <3> QED BY <3>1, <3>2, <2>3
    <2>8. CASE s # {}
      <3> DEFINE t == s \ {some(s)}
      <3>1. some(s) \in s /\ t \in SUBSET S
        BY <1>2, <2>8
      <3>2. Cardinality(t) = Cardinality(s) - 1
        BY <3>1, <2>6, FS_RemoveElement
      <3>3. Cardinality(s) # 0
        BY <2>6, <2>8, FS_EmptySet
      <3>4. m # 0 /\ m - 1 \in 0..Cardinality(S) /\ m \in 1..n
        BY <3>3, <2>3, <2>4, <2>6, <1>1
      <3>5. Cardinality(t) <= m - 1
        BY <3>2, <2>3, <2>4, <2>6
      <3>6. m - 1 \notin Bad
        BY <2>2, <2>4
      <3>7. (m - 1) + 1 = m
        BY <2>4
      <3>8. g[m][t] = g[m - 1][t]
        BY <3>1, <3>4, <3>5, <3>6, <3>7 DEF Bad
      <3>9. g[m] = next(g[m - 1])
        BY <3>4, <1>9
      <3>10. g[m + 1][s] = g[m][t] + w[some(s)] /\ g[m][s] = g[m - 1][t] + w[some(s)]
        BY <2>5, <3>9, <2>8
      <3> QED BY <3>8, <3>10, <2>3
    <2> QED BY <2>7, <2>8
  <1> DEFINE f == g[Cardinality(S)]
  <1>11. f \in V
    <2>1. Cardinality(S) \in 0..n
      BY <1>1
    <2> HIDE DEF V
    <2> QED BY <2>1, <1>8
  <1>12. \A s \in SUBSET S : Cardinality(s) <= Cardinality(S)
    BY FS_Subset
  <1>13. Cardinality(S) \in 0..Cardinality(S) /\ Cardinality(S) + 1 \in 1..n
         /\ (Cardinality(S) + 1) - 1 = Cardinality(S) /\ Cardinality(S) + 1 \in 0..n
    BY <1>1
  <1>14. \A s \in SUBSET S : g[Cardinality(S) + 1][s] = f[s]
    BY <1>10, <1>12, <1>13
  <1>15. g[Cardinality(S) + 1] \in V
    BY <1>8, <1>13
  <1>16. g[Cardinality(S) + 1] = f
    BY <1>11, <1>14, <1>15
  <1>17. f = next(f)
    BY <1>9, <1>13, <1>16
  <1> HIDE DEF f
  <1>18. Adds(f, w, S)
    BY <1>17 DEF Adds, some
  <1> QED BY <1>11, <1>18

\* Whatever adds up does so in any order.
LEMMA SumInAnyOrder ==
  ASSUME NEW S, IsFiniteSet(S), NEW w, \A x \in S : w[x] \in Nat, NEW f, Adds(f, w, S)
  PROVE  /\ f[{}] = 0
         /\ \A T \in SUBSET S : f[T] \in Nat
         /\ \A T \in SUBSET S : \A x \in T : f[T] = f[T \ {x}] + w[x]
  <1> DEFINE some(s) == CHOOSE x \in s : TRUE
             G == {T \in SUBSET S : f[T] \in Nat}
             H == {T \in SUBSET S : \A x \in T : f[T] = f[T \ {x}] + w[x]}
  <1>1. \A s \in SUBSET S : f[s] = IF s = {} THEN 0 ELSE f[s \ {some(s)}] + w[some(s)]
    <2>1. f = [s \in SUBSET S |-> IF s = {} THEN 0 ELSE f[s \ {some(s)}] + w[some(s)]]
      BY DEF Adds
    <2> HIDE DEF some
    <2> QED BY <2>1
  <1>2. \A s \in SUBSET S : s # {} => some(s) \in s
    OBVIOUS
  <1> HIDE DEF some
  <1>3. \A T \in SUBSET S : T \in G
    <2>1. ASSUME NEW T \in SUBSET S, \A x \in T : T \ {x} \in G
          PROVE  T \in G
      <3>1. CASE T = {}
        <4>1. f[T] = 0
          BY <3>1, <1>1
        <4> QED BY <4>1
      <3>2. CASE T # {}
        <4>1. some(T) \in T /\ f[T] = f[T \ {some(T)}] + w[some(T)]
          BY <1>1, <1>2, <3>2
        <4>2. f[T \ {some(T)}] \in Nat /\ w[some(T)] \in Nat
          BY <4>1, <2>1
        <4> QED BY <4>1, <4>2
      <3> QED BY <3>1, <3>2
    <2> HIDE DEF G
    <2> QED BY <2>1, SmallerFirst
  <1>4. \A T \in SUBSET S : T \in H
    <2>1. ASSUME NEW T \in SUBSET S, \A y \in T : T \ {y} \in H, NEW x \in T
          PROVE  f[T] = f[T \ {x}] + w[x]
      <3> DEFINE c == some(T)
      <3>1. c \in T /\ f[T] = f[T \ {c}] + w[c]
        BY <1>1, <1>2
      <3>2. CASE c = x
        BY <3>1, <3>2
      <3>3. CASE c # x
        <4>1. f[T \ {c}] = f[(T \ {c}) \ {x}] + w[x]
          BY <3>1, <3>3, <2>1
        <4>2. f[T \ {x}] = f[(T \ {x}) \ {c}] + w[c]
          BY <3>1, <3>3, <2>1
        <4>3. (T \ {x}) \ {c} = (T \ {c}) \ {x}
          OBVIOUS
        <4>4. f[(T \ {c}) \ {x}] \in Nat /\ w[c] \in Nat /\ w[x] \in Nat
          BY <1>3, <3>1
        <4>5. \A a, b, d \in Nat : (a + b) + d = (a + d) + b
          OBVIOUS
        <4>6. (f[(T \ {c}) \ {x}] + w[x]) + w[c] = (f[(T \ {c}) \ {x}] + w[c]) + w[x]
          BY <4>4, <4>5, Zenon
        <4> QED BY <3>1, <4>1, <4>2, <4>3, <4>6, Zenon
      <3> QED BY <3>2, <3>3
    <2>2. ASSUME NEW T \in SUBSET S, \A x \in T : T \ {x} \in H
          PROVE  T \in H
      BY <2>1, <2>2
    <2> HIDE DEF H
    <2> QED BY <2>2, SmallerFirst
  <1> QED BY <1>1, <1>3, <1>4

LEMMA SumsAgree ==
  ASSUME NEW S, IsFiniteSet(S), NEW R, IsFiniteSet(R), NEW w,
         \A x \in S : w[x] \in Nat, \A x \in R : w[x] \in Nat,
         NEW f, Adds(f, w, S), NEW g, Adds(g, w, R), NEW U, U \subseteq S, U \subseteq R
  PROVE  f[U] = g[U]
  <1> DEFINE G == {W \in SUBSET U : f[W] = g[W]}
  <1>1. /\ f[{}] = 0
        /\ \A W \in SUBSET S : f[W] \in Nat
        /\ \A W \in SUBSET S : \A x \in W : f[W] = f[W \ {x}] + w[x]
    <2>1. IsFiniteSet(S) /\ (\A x \in S : w[x] \in Nat) /\ Adds(f, w, S)
      OBVIOUS
    <2>2. f[{}] = 0
      BY ONLY <2>1, SumInAnyOrder, SMTT(30)
    <2>3. \A W \in SUBSET S : f[W] \in Nat
      BY ONLY <2>1, SumInAnyOrder, SMTT(30)
    <2>4. ASSUME NEW W \in SUBSET S, NEW x \in W PROVE f[W] = f[W \ {x}] + w[x]
      BY ONLY <2>1, <2>4, SumInAnyOrder, SMTT(30)
    <2> QED BY <2>2, <2>3, <2>4
  <1>2. /\ g[{}] = 0
        /\ \A W \in SUBSET R : g[W] \in Nat
        /\ \A W \in SUBSET R : \A x \in W : g[W] = g[W \ {x}] + w[x]
    <2>1. IsFiniteSet(R) /\ (\A x \in R : w[x] \in Nat) /\ Adds(g, w, R)
      OBVIOUS
    <2>2. g[{}] = 0
      BY ONLY <2>1, SumInAnyOrder, SMTT(30)
    <2>3. \A W \in SUBSET R : g[W] \in Nat
      BY ONLY <2>1, SumInAnyOrder, SMTT(30)
    <2>4. ASSUME NEW W \in SUBSET R, NEW x \in W PROVE g[W] = g[W \ {x}] + w[x]
      BY ONLY <2>1, <2>4, SumInAnyOrder, SMTT(30)
    <2> QED BY <2>2, <2>3, <2>4
  <1>3. IsFiniteSet(U)
    BY FS_Subset
  <1>4. ASSUME NEW W \in SUBSET U, \A x \in W : W \ {x} \in G
        PROVE  W \in G
    <2>1. CASE W = {}
      BY <2>1, <1>1, <1>2
    <2>2. CASE W # {}
      <3>1. PICK x \in W : TRUE
        BY <2>2
      <3>2. f[W] = f[W \ {x}] + w[x] /\ g[W] = g[W \ {x}] + w[x]
        BY <3>1, <1>1, <1>2
      <3>3. f[W \ {x}] = g[W \ {x}]
        BY <3>1, <1>4
      <3> QED BY <3>2, <3>3
    <2> QED BY <2>1, <2>2
  <1> HIDE DEF G
  <1>5. U \in G
    BY <1>3, <1>4, SmallerFirst
  <1> QED BY <1>5 DEF G

LEMMA TotalIsSum ==
  ASSUME NEW S, IsFiniteSet(S), NEW w, \A x \in S : w[x] \in Nat
  PROVE  \E f : Adds(f, w, S) /\ Total(w, S) = f[S]
  <1>1. \E f : Adds(f, w, S)
    BY SumThere
  <1> QED BY <1>1, Zenon DEF Total

\* What totals are.
LEMMA TotalTyped ==
  ASSUME NEW S, IsFiniteSet(S), NEW w, \A x \in S : w[x] \in Nat
  PROVE  Total(w, S) \in Nat
  <1>1. PICK f : Adds(f, w, S) /\ Total(w, S) = f[S]
    BY TotalIsSum
  <1>2. \A T \in SUBSET S : f[T] \in Nat
    BY <1>1, SumInAnyOrder
  <1> QED BY <1>1, <1>2

LEMMA TotalOfNone ==
  ASSUME NEW w
  PROVE  Total(w, {}) = 0
  <1>1. IsFiniteSet({}) /\ \A x \in {} : w[x] \in Nat
    BY FS_EmptySet
  <1>2. PICK f : Adds(f, w, {}) /\ Total(w, {}) = f[{}]
    BY <1>1, TotalIsSum
  <1> QED BY <1>1, <1>2, SumInAnyOrder

LEMMA TotalLess ==
  ASSUME NEW S, IsFiniteSet(S), NEW w, \A x \in S : w[x] \in Nat, NEW x \in S
  PROVE  Total(w, S) = Total(w, S \ {x}) + w[x]
  <1> DEFINE T == S \ {x}
  <1>1. IsFiniteSet(T) /\ \A y \in T : w[y] \in Nat
    BY FS_Subset
  <1>2. PICK f : Adds(f, w, S) /\ Total(w, S) = f[S]
    BY TotalIsSum
  <1>3. PICK g : Adds(g, w, T) /\ Total(w, T) = g[T]
    <2> HIDE DEF T
    <2> QED BY <1>1, TotalIsSum
  <1>4. f[S] = f[T] + w[x]
    BY <1>2, SumInAnyOrder
  <1>5. T \subseteq S
    OBVIOUS
  <1>6. f[T] = g[T]
    <2> HIDE DEF T
    <2> QED BY <1>1, <1>2, <1>3, <1>5, SumsAgree
  <1> QED BY <1>2, <1>3, <1>4, <1>6

LEMMA TotalMore ==
  ASSUME NEW S, IsFiniteSet(S), NEW w, \A y \in S : w[y] \in Nat,
         NEW x, x \notin S, w[x] \in Nat
  PROVE  Total(w, S \cup {x}) = Total(w, S) + w[x]
  <1> DEFINE T == S \cup {x}
  <1>1. IsFiniteSet(T)
    BY FS_AddElement
  <1>2. x \in T /\ (\A y \in T : w[y] \in Nat) /\ T \ {x} = S
    OBVIOUS
  <1> HIDE DEF T
  <1>3. Total(w, T) = Total(w, T \ {x}) + w[x]
    BY <1>1, <1>2, TotalLess
  <1> QED BY <1>2, <1>3 DEF T

LEMMA TotalSame ==
  ASSUME NEW S, IsFiniteSet(S), NEW w, \A x \in S : w[x] \in Nat,
         NEW v, \A x \in S : v[x] = w[x]
  PROVE  Total(v, S) = Total(w, S)
  <1> DEFINE G == {T \in SUBSET S : Total(v, T) = Total(w, T)}
  <1>1. ASSUME NEW T \in SUBSET S, \A x \in T : T \ {x} \in G
        PROVE  T \in G
    <2>1. CASE T = {}
      BY <2>1, TotalOfNone
    <2>2. CASE T # {}
      <3>1. PICK x \in T : TRUE
        BY <2>2
      <3>2. IsFiniteSet(T) /\ (\A y \in T : w[y] \in Nat) /\ (\A y \in T : v[y] \in Nat)
        BY FS_Subset
      <3>3. Total(v, T) = Total(v, T \ {x}) + v[x] /\ Total(w, T) = Total(w, T \ {x}) + w[x]
        BY <3>1, <3>2, TotalLess
      <3>4. Total(v, T \ {x}) = Total(w, T \ {x}) /\ v[x] = w[x]
        BY <3>1, <1>1
      <3> QED BY <3>3, <3>4
    <2> QED BY <2>1, <2>2
  <1> HIDE DEF G
  <1>2. \A T \in SUBSET S : T \in G
    BY <1>1, SmallerFirst
  <1>3. S \in G
    BY <1>2
  <1> QED BY <1>3 DEF G

LEMMA TotalOfUnion ==
  ASSUME NEW S, IsFiniteSet(S), NEW R, IsFiniteSet(R), S \cap R = {},
         NEW w, \A x \in S \cup R : w[x] \in Nat
  PROVE  Total(w, S \cup R) = Total(w, S) + Total(w, R)
  <1> DEFINE G == {T \in SUBSET R : Total(w, S \cup T) = Total(w, S) + Total(w, T)}
  <1>1. Total(w, S) \in Nat
    BY TotalTyped
  <1>2. ASSUME NEW T \in SUBSET R, \A x \in T : T \ {x} \in G
        PROVE  T \in G
    <2>1. CASE T = {}
      <3>1. S \cup T = S /\ Total(w, T) = 0
        BY <2>1, TotalOfNone
      <3>2. Total(w, S) + 0 = Total(w, S)
        BY <1>1
      <3>3. Total(w, S \cup T) = Total(w, S) + Total(w, T)
        BY <3>1, <3>2, Zenon
      <3> QED BY <3>3
    <2>2. CASE T # {}
      <3>1. PICK x \in T : TRUE
        BY <2>2
      <3> DEFINE U == S \cup T
      <3>2. IsFiniteSet(T) /\ IsFiniteSet(U)
        BY FS_Subset, FS_Union
      <3>3. (\A y \in T : w[y] \in Nat) /\ (\A y \in U : w[y] \in Nat) /\ x \in U
        BY <3>1
      <3>4. U \ {x} = S \cup (T \ {x})
        BY <3>1
      <3> HIDE DEF U
      <3>5. Total(w, U) = Total(w, U \ {x}) + w[x] /\ Total(w, T) = Total(w, T \ {x}) + w[x]
        BY <3>1, <3>2, <3>3, TotalLess
      <3>6. Total(w, S \cup (T \ {x})) = Total(w, S) + Total(w, T \ {x})
        BY <3>1, <1>2
      <3>7. IsFiniteSet(T \ {x})
        BY <3>2, FS_Subset
      <3>8. Total(w, T \ {x}) \in Nat /\ w[x] \in Nat
        BY <3>1, <3>3, <3>7, TotalTyped
      <3>9. Total(w, U) = Total(w, S) + Total(w, T)
        <4>1. \A a, b, d \in Nat : (a + b) + d = a + (b + d)
          OBVIOUS
        <4>2. (Total(w, S) + Total(w, T \ {x})) + w[x] = Total(w, S) + (Total(w, T \ {x}) + w[x])
          BY <4>1, <3>8, <1>1, Zenon
        <4> QED BY <3>4, <3>5, <3>6, <4>2, Zenon
      <3> QED BY <3>9 DEF U
    <2> QED BY <2>1, <2>2
  <1> HIDE DEF G
  <1>3. \A T \in SUBSET R : T \in G
    BY <1>2, SmallerFirst
  <1>4. R \in G
    BY <1>3
  <1> QED BY <1>4 DEF G

LEMMA TotalOfPart ==
  ASSUME NEW S, IsFiniteSet(S), NEW w, \A x \in S : w[x] \in Nat, NEW R, R \subseteq S
  PROVE  /\ Total(w, S) = Total(w, R) + Total(w, S \ R)
         /\ Total(w, R) \in Nat /\ Total(w, S \ R) \in Nat /\ Total(w, R) <= Total(w, S)
  <1> DEFINE Q == S \ R
  <1>1. IsFiniteSet(R) /\ IsFiniteSet(Q)
    BY FS_Subset
  <1>2. R \cap Q = {} /\ R \cup Q = S
    OBVIOUS
  <1>3. (\A x \in R : w[x] \in Nat) /\ (\A x \in Q : w[x] \in Nat) /\ \A x \in R \cup Q : w[x] \in Nat
    OBVIOUS
  <1> HIDE DEF Q
  <1>4. Total(w, R \cup Q) = Total(w, R) + Total(w, Q)
    BY <1>1, <1>2, <1>3, TotalOfUnion
  <1>5. Total(w, R) \in Nat /\ Total(w, Q) \in Nat
    BY <1>1, <1>3, TotalTyped
  <1>6. /\ Total(w, S) = Total(w, R) + Total(w, Q)
        /\ Total(w, R) <= Total(w, S)
    <2>1. \A a, b \in Nat : a <= a + b
      OBVIOUS
    <2>2. Total(w, S) = Total(w, R) + Total(w, Q)
      BY <1>2, <1>4, Zenon
    <2>3. Total(w, R) <= Total(w, R) + Total(w, Q)
      BY <1>5, <2>1, Zenon
    <2> QED BY <2>2, <2>3, Zenon
  <1> QED BY <1>5, <1>6 DEF Q

\* Equal weights are multiplied.
LEMMA TotalOfEqual ==
  ASSUME NEW S, IsFiniteSet(S), NEW e \in Nat, NEW w, \A x \in S : w[x] = e
  PROVE  Total(w, S) = e * Cardinality(S)
  <1> DEFINE G == {T \in SUBSET S : Total(w, T) = e * Cardinality(T)}
  <1>1. ASSUME NEW T \in SUBSET S, \A x \in T : T \ {x} \in G
        PROVE  T \in G
    <2>1. CASE T = {}
      <3>1. Total(w, T) = 0 /\ Cardinality(T) = 0
        BY <2>1, TotalOfNone, FS_EmptySet
      <3>2. e * 0 = 0
        OBVIOUS
      <3> QED BY <3>1, <3>2
    <2>2. CASE T # {}
      <3>1. PICK x \in T : TRUE
        BY <2>2
      <3>2. IsFiniteSet(T) /\ (\A y \in T : w[y] \in Nat) /\ w[x] = e
        BY <3>1, FS_Subset
      <3>3. Total(w, T) = Total(w, T \ {x}) + w[x]
        BY <3>1, <3>2, TotalLess
      <3>4. Cardinality(T \ {x}) = Cardinality(T) - 1 /\ Cardinality(T) \in Nat
        BY <3>1, <3>2, FS_RemoveElement, FS_CardinalityType
      <3>5. Total(w, T \ {x}) = e * Cardinality(T \ {x})
        BY <3>1, <1>1
      <3>6. \A k \in Nat : e * (k - 1) + e = e * k
        OBVIOUS
      <3> QED BY <3>2, <3>3, <3>4, <3>5, <3>6
    <2> QED BY <2>1, <2>2
  <1> HIDE DEF G
  <1>2. \A T \in SUBSET S : T \in G
    BY <1>1, SmallerFirst
  <1>3. S \in G
    BY <1>2
  <1> QED BY <1>3 DEF G

-----------------------------------------------------------------------------
(* Budgets.                                                                *)

\* The sizes of the results v of calls and their estimates, as weights.
SizesIn(v)  == [c \in Calls |-> v[c].size]
TokensIn(v) == [c \in Calls |-> EstimatedTokens(v[c].size)]

SumOfSizes(v, S)  == FoldSet(LAMBDA c, n : n + v[c].size, 0, S)
SumOfTokens(v, S) == FoldSet(LAMBDA c, n : n + EstimatedTokens(v[c].size), 0, S)

\* The sums of the model are these totals.
LEMMA SizesAddUp ==
  ASSUME NEW S, IsFiniteSet(S), S \subseteq Calls, NEW v, \A c \in S : v[c].size \in Nat
  PROVE  SumOfSizes(v, S) = Total(SizesIn(v), S)
  <1> DEFINE some(s) == CHOOSE x \in s : TRUE
             A(f) == f = [s \in SUBSET S |-> IF s = {} THEN 0
                                             ELSE f[s \ {some(s)}] + v[some(s)].size]
             h == CHOOSE f : A(f)
  <1>1. SumOfSizes(v, S) = h[S]
    BY DEF SumOfSizes, FoldSet, MapThenFoldSet
  <1>2. \A s \in SUBSET S : s # {} => SizesIn(v)[some(s)] = v[some(s)].size
    BY DEF SizesIn
  <1>3. ASSUME NEW f PROVE A(f) <=> Adds(f, SizesIn(v), S)
    <2>1. [s \in SUBSET S |-> IF s = {} THEN 0 ELSE f[s \ {some(s)}] + v[some(s)].size]
            = [s \in SUBSET S |-> IF s = {} THEN 0 ELSE f[s \ {some(s)}] + SizesIn(v)[some(s)]]
      <3> HIDE DEF some
      <3> QED BY <1>2
    <2> QED BY <2>1, Zenon DEF Adds
  <1>4. \A c \in S : SizesIn(v)[c] \in Nat
    BY DEF SizesIn
  <1>5. PICK g : Adds(g, SizesIn(v), S) /\ Total(SizesIn(v), S) = g[S]
    BY <1>4, TotalIsSum
  <1> HIDE DEF A
  <1>6. A(h)
    BY <1>3, <1>5, Zenon
  <1>7. Adds(h, SizesIn(v), S)
    BY <1>3, <1>6, Zenon
  <1> HIDE DEF h
  <1>8. S \subseteq S
    OBVIOUS
  <1>9. h[S] = g[S]
    BY <1>4, <1>5, <1>7, <1>8, SumsAgree
  <1> QED BY <1>1, <1>5, <1>9

LEMMA TokensAddUp ==
  ASSUME NEW S, IsFiniteSet(S), S \subseteq Calls, NEW v, \A c \in S : v[c].size \in Nat
  PROVE  SumOfTokens(v, S) = Total(TokensIn(v), S)
  <1> DEFINE some(s) == CHOOSE x \in s : TRUE
             A(f) == f = [s \in SUBSET S |-> IF s = {} THEN 0
                                             ELSE f[s \ {some(s)}] + EstimatedTokens(v[some(s)].size)]
             h == CHOOSE f : A(f)
  <1>1. SumOfTokens(v, S) = h[S]
    BY DEF SumOfTokens, FoldSet, MapThenFoldSet
  <1>2. \A s \in SUBSET S : s # {} => TokensIn(v)[some(s)] = EstimatedTokens(v[some(s)].size)
    BY DEF TokensIn
  <1>3. ASSUME NEW f PROVE A(f) <=> Adds(f, TokensIn(v), S)
    <2>1. [s \in SUBSET S |-> IF s = {} THEN 0
                              ELSE f[s \ {some(s)}] + EstimatedTokens(v[some(s)].size)]
            = [s \in SUBSET S |-> IF s = {} THEN 0 ELSE f[s \ {some(s)}] + TokensIn(v)[some(s)]]
      <3> HIDE DEF some
      <3> QED BY <1>2
    <2> QED BY <2>1, Zenon DEF Adds
  <1>4. \A c \in S : TokensIn(v)[c] \in Nat
    BY EstimateTyped DEF TokensIn
  <1>5. PICK g : Adds(g, TokensIn(v), S) /\ Total(TokensIn(v), S) = g[S]
    BY <1>4, TotalIsSum
  <1> HIDE DEF A
  <1>6. A(h)
    BY <1>3, <1>5, Zenon
  <1>7. Adds(h, TokensIn(v), S)
    BY <1>3, <1>6, Zenon
  <1> HIDE DEF h
  <1>8. S \subseteq S
    OBVIOUS
  <1>9. h[S] = g[S]
    BY <1>4, <1>5, <1>7, <1>8, SumsAgree
  <1> QED BY <1>1, <1>5, <1>9

\* The first i members of a list.
First(list, i) == {list[j] : j \in 1..i}

\* u[i] is the running total of the weights w of the first i members.
RunsOver(u, n, list, w) ==
    /\ n \in Nat /\ \A i, j \in 1..n : list[i] = list[j] => i = j
    /\ \A i \in 1..n : w[list[i]] \in Nat
    /\ u[0] = 0 /\ \A i \in 1..n : u[i] = u[i - 1] + w[list[i]]

\* A running total is the total of what it has run over.
LEMMA RunningTotal ==
  ASSUME NEW n, NEW list, NEW w, NEW u, RunsOver(u, n, list, w)
  PROVE  \A i \in 0..n : /\ IsFiniteSet(First(list, i))
                         /\ u[i] = Total(w, First(list, i))
  <1> DEFINE Is(i) == IsFiniteSet(First(list, i)) /\ u[i] = Total(w, First(list, i))
             Bad == {i \in 0..n : ~Is(i)}
  <1> SUFFICES ASSUME Bad # {} PROVE FALSE
    OBVIOUS
  <1>0. RunsOver(u, n, list, w)
    OBVIOUS
  <1> USE DEF RunsOver
  <1>1. Bad \in SUBSET Nat
    OBVIOUS
  <1> HIDE DEF Bad
  <1>2. PICK m \in Bad : \A j \in Bad : m <= j
    BY <1>1, LeastExists
  <1>3. m \in 0..n /\ ~Is(m)
    BY <1>2 DEF Bad
  <1>4. CASE m = 0
    <2>1. First(list, m) = {}
      BY <1>4 DEF First
    <2> QED BY <2>1, <1>3, <1>4, TotalOfNone, FS_EmptySet
  <1>5. CASE m # 0
    <2>1. m \in 1..n /\ m - 1 \in 0..n /\ ~(m <= m - 1)
      BY <1>3, <1>5
    <2>2. Is(m - 1)
      BY <2>1, <1>2 DEF Bad
    <2> DEFINE S == First(list, m - 1)
    <2>3. First(list, m) = S \cup {list[m]}
      BY <2>1 DEF First
    <2>4. list[m] \notin S
      BY <2>1 DEF First
    <2>5. \A x \in S : w[x] \in Nat
      BY <2>1 DEF First
    <2>6. w[list[m]] \in Nat /\ IsFiniteSet(S) /\ u[m - 1] = Total(w, S)
      BY <2>1, <2>2
    <2> HIDE DEF S
    <2>7. Total(w, S \cup {list[m]}) = Total(w, S) + w[list[m]]
      BY <2>4, <2>5, <2>6, TotalMore
    <2>8. IsFiniteSet(S \cup {list[m]})
      BY <2>6, FS_AddElement
    <2>9. u[m] = u[m - 1] + w[list[m]]
      BY <2>1
    <2> QED BY <2>3, <2>6, <2>7, <2>8, <2>9, <1>3, Zenon
  <1> QED BY <1>4, <1>5

\* What is kept only while the running total is within a limit, is within it.
LEMMA KeptTotal ==
  ASSUME NEW n, NEW list, NEW w, NEW u, RunsOver(u, n, list, w),
         NEW K, NEW before \in Nat, NEW kept \in Nat, NEW limit \in Nat,
         kept <= before, kept <= limit,
         \A i \in 1..n : list[i] \in K => before + u[i] <= limit
  PROVE  \A i \in 0..n : kept + Total(w, First(list, i) \cap K) <= limit
  <1> DEFINE T(i) == First(list, i) \cap K
             Bad == {i \in 0..n : ~(kept + Total(w, T(i)) <= limit)}
  <1> SUFFICES ASSUME Bad # {} PROVE FALSE
    OBVIOUS
  <1>0. RunsOver(u, n, list, w)
    OBVIOUS
  <1> USE DEF RunsOver
  <1>1. Bad \in SUBSET Nat
    OBVIOUS
  <1> HIDE DEF Bad
  <1>2. PICK m \in Bad : \A j \in Bad : m <= j
    BY <1>1, LeastExists
  <1>3. m \in 0..n /\ ~(kept + Total(w, T(m)) <= limit)
    BY <1>2 DEF Bad
  <1>4. CASE m = 0
    <2>1. T(m) = {}
      BY <1>4 DEF First
    <2> QED BY <2>1, <1>3, TotalOfNone
  <1>5. CASE m # 0
    <2>1. m \in 1..n /\ m - 1 \in 0..n /\ ~(m <= m - 1)
      BY <1>3, <1>5
    <2>2. CASE list[m] \in K
      <3> DEFINE S == First(list, m)
                 R == T(m)
      <3>1. IsFiniteSet(S) /\ u[m] = Total(w, S)
        <4>1. \A i \in 0..n : IsFiniteSet(First(list, i)) /\ u[i] = Total(w, First(list, i))
          <5> HIDE DEF RunsOver
          <5> QED BY <1>0, RunningTotal
        <4> QED BY <4>1, <1>3
      <3>2. \A x \in S : w[x] \in Nat
        BY <2>1 DEF First
      <3>3. R \subseteq S
        OBVIOUS
      <3> HIDE DEF S, R
      <3>4. /\ Total(w, S) = Total(w, R) + Total(w, S \ R)
            /\ Total(w, R) \in Nat /\ Total(w, S \ R) \in Nat /\ Total(w, R) <= Total(w, S)
        BY <3>1, <3>2, <3>3, TotalOfPart, Zenon
      <3>5. before + u[m] <= limit
        BY <2>1, <2>2
      <3>6. kept + Total(w, R) <= limit
        BY <3>1, <3>4, <3>5
      <3> QED BY <3>6, <1>3 DEF R
    <2>3. CASE list[m] \notin K
      <3>1. T(m) = T(m - 1)
        BY <2>1, <2>3 DEF First
      <3>2. kept + Total(w, T(m - 1)) <= limit
        BY <2>1, <1>2 DEF Bad
      <3> QED BY <3>1, <3>2, <1>3, Zenon
    <2> QED BY <2>2, <2>3
  <1> QED BY <1>4, <1>5

-----------------------------------------------------------------------------
(* The budgets, batch by batch.                                            *)

\* The last batch that has returned, and the calls up to one.
ReturnedTo(r) == IF phase[r] = "idle" THEN batch[r] ELSE batch[r] - 1
CallsTo(plan, m) == UNION {ToSet(plan[b]) : b \in 1..m}

KeptIn(v, S) == {c \in S : v[c].status # "budget_exceeded"}

\* The results kept of some calls are within these budgets.
Spends(v, S, bytes, tokens) ==
    /\ Total(SizesIn(v), KeptIn(v, S)) <= bytes
    /\ Total(TokensIn(v), KeptIn(v, S)) <= tokens

\* So are those of each batch that has returned and all of them together, and
\* the counters are the sums of all results, kept or replaced.
Spent(v, plan, m, bytes, tokens) ==
    /\ \A b \in 1..m : Spends(v, ToSet(plan[b]), TurnBudget, TurnTokens)
    /\ Spends(v, CallsTo(plan, m), RequestBudget, RequestTokens)
    /\ bytes = Total(SizesIn(v), CallsTo(plan, m))
    /\ tokens = Total(TokensIn(v), CallsTo(plan, m))

ResultsOK ==
    /\ \A c \in Calls : pc[c] = "done" => result[c].status # "none"
    /\ \A c \in Calls : result[c].status = "budget_exceeded" => result[c].size = ErrorSize

ReturnedOK ==
    \A r \in Requests : \A c \in CallsTo(Plan[r], ReturnedTo(r)) :
        pc[c] \in {"done", "rejected"} /\ result[c].status # "none"

BudgetsOK ==
    /\ ResultsOK /\ ReturnedOK
    /\ \A r \in Requests : Spent(result, Plan[r], ReturnedTo(r), bytesUsed[r], tokensUsed[r])

\* Only batches of the plan have returned.
LEMMA ReturnedInPlan ==
  ASSUME TypeOK, BatchesOK, NEW r \in Requests
  PROVE  ReturnedTo(r) \in Int /\ ReturnedTo(r) <= Len(Plan[r])
  <1>1. Len(Plan[r]) \in Nat
    BY PlanTyped
  <1>2. batch[r] \in Nat /\ batch[r] <= Len(Plan[r])
    BY DEF TypeOK, BatchesOK
  <1>3. ReturnedTo(r) \in {batch[r], batch[r] - 1}
    BY DEF ReturnedTo
  <1> QED BY <1>1, <1>2, <1>3

\* The calls of some batches are finitely many.
LEMMA CallsFinite ==
  ASSUME NEW r \in Requests, NEW m \in Int, m <= Len(Plan[r])
  PROVE  /\ \A b \in 1..m : IsFiniteSet(ToSet(Plan[r][b])) /\ ToSet(Plan[r][b]) \subseteq Calls
         /\ IsFiniteSet(CallsTo(Plan[r], m)) /\ CallsTo(Plan[r], m) \subseteq Calls
  <1>1. Len(Plan[r]) \in Nat /\ DOMAIN Plan[r] = 1..Len(Plan[r])
        /\ \A b \in DOMAIN Plan[r] : Plan[r][b] \in Seq(Calls)
    BY PlanTyped
  <1>2. ASSUME NEW b \in 1..m
        PROVE  IsFiniteSet(ToSet(Plan[r][b])) /\ ToSet(Plan[r][b]) \subseteq Calls
    <2> DEFINE list == Plan[r][b]
    <2>1. list \in Seq(Calls)
      BY <1>1
    <2> HIDE DEF list
    <2> DEFINE f == [i \in 1..Len(list) |-> list[i]]
    <2>2. Len(list) \in Nat /\ DOMAIN list = 1..Len(list)
      BY <2>1
    <2>3. f \in Surjection(1..Len(list), ToSet(list))
      BY <2>2 DEF Surjection, ToSet
    <2>4. IsFiniteSet(1..Len(list))
      BY <2>2, FS_Interval
    <2> HIDE DEF f
    <2>5. IsFiniteSet(ToSet(list))
      BY <2>3, <2>4, FS_Surjection
    <2>6. ToSet(list) \subseteq Calls
      BY <2>1, <2>2 DEF ToSet
    <2> QED BY <2>5, <2>6 DEF list
  <1> DEFINE U == {ToSet(Plan[r][b]) : b \in 1..m}
             g == [b \in 1..m |-> ToSet(Plan[r][b])]
  <1>3. g \in Surjection(1..m, U)
    BY DEF Surjection
  <1>4. IsFiniteSet(1..m)
    BY FS_Interval
  <1> HIDE DEF g
  <1>5. IsFiniteSet(U)
    BY <1>3, <1>4, FS_Surjection
  <1>6. \A s \in U : IsFiniteSet(s)
    BY <1>2
  <1>7. IsFiniteSet(UNION U)
    <2> HIDE DEF U
    <2> QED BY <1>5, <1>6, FS_UNION
  <1> QED BY <1>2, <1>7 DEF CallsTo

\* Sums of results that stay as they are.
LEMMA SpendsSame ==
  ASSUME NEW S, IsFiniteSet(S), S \subseteq Calls, NEW v, \A c \in S : v[c].size \in Nat,
         NEW u, \A c \in S : u[c] = v[c]
  PROVE  /\ KeptIn(u, S) = KeptIn(v, S)
         /\ Total(SizesIn(u), KeptIn(u, S)) = Total(SizesIn(v), KeptIn(v, S))
         /\ Total(TokensIn(u), KeptIn(u, S)) = Total(TokensIn(v), KeptIn(v, S))
         /\ Total(SizesIn(u), S) = Total(SizesIn(v), S)
         /\ Total(TokensIn(u), S) = Total(TokensIn(v), S)
  <1> DEFINE K == KeptIn(v, S)
  <1>1. KeptIn(u, S) = K /\ K \subseteq S
    BY DEF KeptIn
  <1>2. IsFiniteSet(K)
    <2> HIDE DEF K
    <2> QED BY <1>1, FS_Subset
  <1> HIDE DEF K
  <1>3. \A c \in S : /\ SizesIn(v)[c] \in Nat /\ SizesIn(u)[c] = SizesIn(v)[c]
                     /\ TokensIn(v)[c] \in Nat /\ TokensIn(u)[c] = TokensIn(v)[c]
    BY EstimateTyped DEF SizesIn, TokensIn
  <1>4. \A c \in K : /\ SizesIn(v)[c] \in Nat /\ SizesIn(u)[c] = SizesIn(v)[c]
                     /\ TokensIn(v)[c] \in Nat /\ TokensIn(u)[c] = TokensIn(v)[c]
    BY <1>1, <1>3
  <1>5. Total(SizesIn(u), K) = Total(SizesIn(v), K)
    BY <1>2, <1>4, TotalSame
  <1>6. Total(TokensIn(u), K) = Total(TokensIn(v), K)
    BY <1>2, <1>4, TotalSame
  <1>7. Total(SizesIn(u), S) = Total(SizesIn(v), S)
    BY <1>3, TotalSame
  <1>8. Total(TokensIn(u), S) = Total(TokensIn(v), S)
    BY <1>3, TotalSame
  <1>9. KeptIn(v, S) = K
    BY DEF K
  <1> QED BY <1>1, <1>5, <1>6, <1>7, <1>8, <1>9

\* So do the budgets of the batches that have returned.
LEMMA SpentSame ==
  ASSUME NEW r \in Requests, NEW m \in Int, m <= Len(Plan[r]),
         NEW v, NEW u, NEW bytes, NEW tokens, Spent(v, Plan[r], m, bytes, tokens),
         \A c \in CallsTo(Plan[r], m) : v[c].size \in Nat /\ u[c] = v[c]
  PROVE  Spent(u, Plan[r], m, bytes, tokens)
  <1> DEFINE S == CallsTo(Plan[r], m)
  <1>1. IsFiniteSet(S) /\ S \subseteq Calls
    BY CallsFinite
  <1>2. ASSUME NEW b \in 1..m
        PROVE  /\ IsFiniteSet(ToSet(Plan[r][b])) /\ ToSet(Plan[r][b]) \subseteq Calls
               /\ \A c \in ToSet(Plan[r][b]) : v[c].size \in Nat /\ u[c] = v[c]
    <2>1. IsFiniteSet(ToSet(Plan[r][b])) /\ ToSet(Plan[r][b]) \subseteq Calls
      BY CallsFinite
    <2>2. ToSet(Plan[r][b]) \subseteq CallsTo(Plan[r], m)
      BY DEF CallsTo
    <2> QED BY <2>1, <2>2
  <1>3. ASSUME NEW b \in 1..m PROVE Spends(u, ToSet(Plan[r][b]), TurnBudget, TurnTokens)
    <2> DEFINE T == ToSet(Plan[r][b])
    <2>1. IsFiniteSet(T) /\ T \subseteq Calls /\ (\A c \in T : v[c].size \in Nat) /\ \A c \in T : u[c] = v[c]
      BY <1>2
    <2>2. Spends(v, T, TurnBudget, TurnTokens)
      BY DEF Spent
    <2> HIDE DEF T
    <2>3. /\ Total(SizesIn(u), KeptIn(u, T)) = Total(SizesIn(v), KeptIn(v, T))
          /\ Total(TokensIn(u), KeptIn(u, T)) = Total(TokensIn(v), KeptIn(v, T))
      BY <2>1, SpendsSame
    <2>4. Spends(u, T, TurnBudget, TurnTokens)
      BY <2>2, <2>3, Zenon DEF Spends
    <2> QED BY <2>4 DEF T
  <1>4. (\A c \in S : v[c].size \in Nat) /\ \A c \in S : u[c] = v[c]
    OBVIOUS
  <1>5. /\ Spends(v, S, RequestBudget, RequestTokens)
        /\ bytes = Total(SizesIn(v), S) /\ tokens = Total(TokensIn(v), S)
    BY Zenon DEF Spent
  <1> HIDE DEF S
  <1>6. /\ Total(SizesIn(u), KeptIn(u, S)) = Total(SizesIn(v), KeptIn(v, S))
        /\ Total(TokensIn(u), KeptIn(u, S)) = Total(TokensIn(v), KeptIn(v, S))
        /\ Total(SizesIn(u), S) = Total(SizesIn(v), S)
        /\ Total(TokensIn(u), S) = Total(TokensIn(v), S)
    BY <1>1, <1>4, SpendsSame
  <1>7. /\ Spends(u, S, RequestBudget, RequestTokens)
        /\ bytes = Total(SizesIn(u), S) /\ tokens = Total(TokensIn(u), S)
    BY <1>5, <1>6, Zenon DEF Spends
  <1> QED BY <1>3, <1>7, Zenon DEF Spent, S

\* What a step of a call does to its result.
LEMMA CallResult ==
  ASSUME TypeOK, NEW c \in Calls, CallStep(c)
  PROVE  /\ result' = [result EXCEPT ![c] = result'[c]]
         /\ pc'[c] = "done" => result'[c].status # "none"
         /\ \/ result'[c] = result[c]
            \/ result'[c].status = "budget_exceeded" => result'[c].size = ErrorSize
  <1> USE DEF TypeOK, ErrorResult
  <1>1. CASE UnknownTool(c)
    BY <1>1 DEF UnknownTool, Finish
  <1>2. CASE OverQuota(c)
    BY <1>2 DEF OverQuota, Finish
  <1>3. CASE MalformedArguments(c)
    BY <1>3 DEF MalformedArguments, Count, Finish
  <1>4. CASE Unavailable(c)
    BY <1>4 DEF Unavailable, Count, Finish
  <1>5. CASE Admit(c)
    BY <1>5 DEF Admit, Count
  <1>6. CASE AcquireClass(c) \/ AcquireRequest(c) \/ AcquireGlobal(c)
    BY <1>6 DEF AcquireClass, AcquireRequest, AcquireGlobal
  <1>7. CASE Success(c)
    BY <1>7 DEF Success, Running, Finish
  <1>8. CASE RetryLater(c) \/ BackoffOver(c)
    BY <1>8 DEF RetryLater, BackoffOver, Running
  <1>9. CASE GiveUp(c)
    BY <1>9 DEF GiveUp, Running, Finish
  <1>10. CASE CancelledInside(c) \/ CancelledCall(c)
    BY <1>10 DEF CancelledInside, CancelledCall, Running
  <1> QED
    BY <1>1, <1>2, <1>3, <1>4, <1>5, <1>6, <1>7, <1>8, <1>9, <1>10 DEF CallStep

\* Steps that return no batch and change no call of one that has returned.
LEMMA BudgetsUndisturbed ==
  ASSUME TypeOK, BatchesOK, BudgetsOK, ResultsOK', UNCHANGED <<bytesUsed, tokensUsed>>,
         \A r \in Requests : ReturnedTo(r)' = ReturnedTo(r),
         \A r \in Requests : \A c \in CallsTo(Plan[r], ReturnedTo(r)) :
             pc'[c] = pc[c] /\ result'[c] = result[c]
  PROVE  BudgetsOK'
  <1>1. ReturnedOK'
    BY DEF BudgetsOK, ReturnedOK
  <1>2. ASSUME NEW r \in Requests
        PROVE  Spent(result, Plan[r], ReturnedTo(r), bytesUsed[r], tokensUsed[r])'
    <2> DEFINE m == ReturnedTo(r)
    <2>1. m \in Int /\ m <= Len(Plan[r])
      BY ReturnedInPlan
    <2>2. Spent(result, Plan[r], m, bytesUsed[r], tokensUsed[r])
      BY DEF BudgetsOK
    <2>3. CallsTo(Plan[r], m) \subseteq Calls
      <3> HIDE DEF m
      <3> QED BY <2>1, CallsFinite
    <2>4. \A c \in CallsTo(Plan[r], m) : result[c].size \in Nat /\ result'[c] = result[c]
      BY <2>3 DEF TypeOK
    <2> HIDE DEF m
    <2>5. Spent(result', Plan[r], m, bytesUsed[r], tokensUsed[r])
      BY <2>1, <2>2, <2>4, SpentSame
    <2>6. m' = m /\ bytesUsed' = bytesUsed /\ tokensUsed' = tokensUsed
      BY DEF m
    <2>7. Spent(result', Plan[r], m', bytesUsed'[r], tokensUsed'[r])
      BY <2>5, <2>6, Zenon
    <2> QED BY <2>7 DEF m
  <1> QED BY <1>1, <1>2 DEF BudgetsOK

\* Calls of batches that have returned are not those of another batch.
LEMMA ReturnedBefore ==
  ASSUME TypeOK, BatchesOK, NEW r \in Requests, NEW c \in CallsTo(Plan[r], ReturnedTo(r))
  PROVE  /\ c \in Calls /\ RequestOf(c) = r
         /\ \E b \in 1..Len(Plan[r]) : b <= ReturnedTo(r) /\ c \in ToSet(Plan[r][b])
         /\ \A q \in Requests : \A d \in 1..Len(Plan[q]) :
               c \in ToSet(Plan[q][d]) => q = r /\ d <= ReturnedTo(r)
  <1> DEFINE m == ReturnedTo(r)
  <1>1. m \in Int /\ m <= Len(Plan[r])
    BY ReturnedInPlan
  <1> HIDE DEF m
  <1>2. PICK b \in 1..m : c \in ToSet(Plan[r][b])
    BY DEF CallsTo, m
  <1>3. b \in 1..Len(Plan[r]) /\ b \in DOMAIN Plan[r] /\ b <= m
    BY <1>1, <1>2, PlanTyped
  <1>4. c \in Calls
    BY <1>2, <1>3, PlanTyped
  <1>5. RequestOf(c) = r /\ \A d \in DOMAIN Plan[r] : c \in ToSet(Plan[r][d]) => d = b
    BY <1>2, <1>3, <1>4, OwnerOfEmitted
  <1>6. ASSUME NEW q \in Requests, NEW d \in 1..Len(Plan[q]), c \in ToSet(Plan[q][d])
        PROVE  q = r /\ d <= m
    <2>1. d \in DOMAIN Plan[q]
      BY PlanTyped
    <2>2. RequestOf(c) = q
      BY <1>4, <1>6, <2>1, OwnerOfEmitted
    <2>3. q = r
      BY <2>2, <1>5
    <2>4. d = b
      BY <2>1, <2>3, <1>5, <1>6
    <2> QED BY <2>3, <2>4, <1>3
  <1> QED BY <1>2, <1>3, <1>4, <1>5, <1>6 DEF m

-----------------------------------------------------------------------------
(* What one more batch adds.                                               *)

\* What the calls in S weigh, and the running total u over a batch, are within
\* the limits where they have to be.
Chargeable(S, list, n, w, u, K, turn, limit) ==
    /\ IsFiniteSet(S) /\ RunsOver(u, n, list, w)
    /\ S \cap First(list, n) = {} /\ \A x \in S : w[x] \in Nat
    /\ turn \in Nat /\ limit \in Nat /\ Total(w, S \cap K) <= limit
    /\ \A i \in 1..n : list[i] \in K => u[i] <= turn /\ Total(w, S) + u[i] <= limit

\* What one batch adds to a sum, and to the part of it that is kept.
LEMMA ChargedTotal ==
  ASSUME NEW S, NEW list, NEW n, NEW w, NEW u, NEW K, NEW turn, NEW limit,
         Chargeable(S, list, n, w, u, K, turn, limit)
  PROVE  /\ Total(w, First(list, n) \cap K) <= turn
         /\ Total(w, (S \cup First(list, n)) \cap K) <= limit
  <1> DEFINE L == First(list, n)
             P == S \cap K
             Q == L \cap K
  <1> USE DEF Chargeable
  <1>1. n \in Nat /\ n \in 0..n
    BY DEF RunsOver
  <1>2. IsFiniteSet(L) /\ u[n] = Total(w, L)
    <2>1. \A i \in 0..n : IsFiniteSet(First(list, i)) /\ u[i] = Total(w, First(list, i))
      BY RunningTotal
    <2> QED BY <1>1, <2>1
  <1>3. \A x \in L : w[x] \in Nat
    BY DEF RunsOver, First
  <1>4. P \subseteq S /\ Q \subseteq L /\ P \cap Q = {} /\ (S \cup L) \cap K = P \cup Q /\ S \cap L = {}
    OBVIOUS
  <1>5. RunsOver(u, n, list, w) /\ (\A i \in 1..n : u[i] \in Nat)
    <2>1. ASSUME NEW i \in 1..n PROVE u[i] \in Nat
      <3>1. IsFiniteSet(First(list, i)) /\ u[i] = Total(w, First(list, i))
        <4>1. \A j \in 0..n : IsFiniteSet(First(list, j)) /\ u[j] = Total(w, First(list, j))
          BY RunningTotal
        <4> QED BY <1>1, <4>1
      <3>2. \A x \in First(list, i) : w[x] \in Nat
        BY <1>1 DEF RunsOver, First
      <3> QED BY <3>1, <3>2, TotalTyped
    <2> QED BY <2>1
  <1> HIDE DEF L, P, Q
  <1>6. IsFiniteSet(P) /\ IsFiniteSet(Q)
    BY <1>2, <1>4, FS_Subset
  <1>7. (\A x \in P : w[x] \in Nat) /\ (\A x \in Q : w[x] \in Nat) /\ (\A x \in P \cup Q : w[x] \in Nat)
        /\ \A x \in S \cup L : w[x] \in Nat
    BY <1>3, <1>4
  <1>8. Total(w, S) \in Nat /\ Total(w, P) \in Nat /\ Total(w, Q) \in Nat /\ Total(w, L) \in Nat
    BY <1>2, <1>3, <1>6, <1>7, TotalTyped
  <1>9. Total(w, P) <= Total(w, S)
    BY <1>4, TotalOfPart
  <1>10. Total(w, Q) <= turn
    <2>1. \A i \in 1..n : list[i] \in K => 0 + u[i] <= turn
      BY <1>5
    <2>2. \A i \in 0..n : 0 + Total(w, First(list, i) \cap K) <= turn
      <3>1. 0 \in Nat /\ 0 <= 0 /\ 0 <= turn
        OBVIOUS
      <3> QED BY <1>5, <2>1, <3>1, KeptTotal, ZenonT(60)
    <2>3. 0 + Total(w, Q) <= turn
      BY <1>1, <2>2 DEF Q, L
    <2> QED BY <2>3, <1>8
  <1>11. Total(w, P) + Total(w, Q) <= limit
    <2>1. \A i \in 1..n : list[i] \in K => Total(w, S) + u[i] <= limit
      OBVIOUS
    <2>2. Total(w, P) <= limit
      BY DEF P
    <2>3. \A i \in 0..n : Total(w, P) + Total(w, First(list, i) \cap K) <= limit
      BY <1>5, <1>8, <1>9, <2>1, <2>2, KeptTotal
    <2> QED BY <1>1, <2>3 DEF Q, L
  <1>12. Total(w, P \cup Q) = Total(w, P) + Total(w, Q)
    BY <1>4, <1>6, <1>7, TotalOfUnion
  <1>13. Total(w, (S \cup L) \cap K) <= limit
    BY <1>4, <1>11, <1>12
  <1> QED BY <1>10, <1>13 DEF L, Q

\* What one batch adds to the sum of everything charged.
LEMMA BatchTotal ==
  ASSUME NEW S, IsFiniteSet(S), NEW list, NEW n, NEW w, NEW u, RunsOver(u, n, list, w),
         S \cap First(list, n) = {}, \A x \in S : w[x] \in Nat
  PROVE  Total(w, S \cup First(list, n)) = Total(w, S) + u[n]
  <1> DEFINE L == First(list, n)
  <1>1. n \in Nat /\ n \in 0..n
    BY DEF RunsOver
  <1>2. IsFiniteSet(L) /\ u[n] = Total(w, L)
    <2>1. \A i \in 0..n : IsFiniteSet(First(list, i)) /\ u[i] = Total(w, First(list, i))
      BY RunningTotal
    <2> QED BY <1>1, <2>1
  <1>3. \A x \in L : w[x] \in Nat
    BY DEF RunsOver, First
  <1>4. \A x \in S \cup L : w[x] \in Nat
    BY <1>3
  <1>5. S \cap L = {}
    OBVIOUS
  <1> HIDE DEF L
  <1>6. Total(w, S \cup L) = Total(w, S) + Total(w, L)
    BY <1>2, <1>4, <1>5, TotalOfUnion
  <1> QED BY <1>2, <1>6, Zenon DEF L

\* The budgets after one more batch.
LEMMA OneMoreBatch ==
  ASSUME NEW r \in Requests, NEW b \in 1..Len(Plan[r]), NEW v, NEW u, NEW bytes, NEW tokens,
         Spent(v, Plan[r], b - 1, bytes, tokens),
         \A c \in Calls : v[c].size \in Nat /\ u[c].size \in Nat,
         \A c \in CallsTo(Plan[r], b - 1) : u[c] = v[c],
         CallsTo(Plan[r], b - 1) \cap ToSet(Plan[r][b]) = {},
         NEW ub, RunsOver(ub, Len(Plan[r][b]), Plan[r][b], SizesIn(u)),
         NEW ut, RunsOver(ut, Len(Plan[r][b]), Plan[r][b], TokensIn(u)),
         \A i \in 1..Len(Plan[r][b]) : u[Plan[r][b][i]].status # "budget_exceeded" =>
             /\ ub[i] <= TurnBudget /\ bytes + ub[i] <= RequestBudget
             /\ ut[i] <= TurnTokens /\ tokens + ut[i] <= RequestTokens
  PROVE  Spent(u, Plan[r], b, bytes + ub[Len(Plan[r][b])], tokens + ut[Len(Plan[r][b])])
  <1> DEFINE list == Plan[r][b]
             n == Len(list)
             S == CallsTo(Plan[r], b - 1)
             L == ToSet(list)
             K == {c \in Calls : u[c].status # "budget_exceeded"}
  <1>1. /\ Len(Plan[r]) \in Nat /\ b - 1 \in Int /\ b - 1 <= Len(Plan[r])
        /\ list \in Seq(Calls) /\ n \in Nat /\ DOMAIN list = 1..n /\ L \subseteq Calls
    <2>1. Len(Plan[r]) \in Nat /\ b - 1 \in Int /\ b - 1 <= Len(Plan[r])
      BY PlanTyped
    <2>2. list \in Seq(Calls) /\ n \in Nat /\ DOMAIN list = 1..n /\ L \subseteq Calls
      BY PlanTyped, Zenon
    <2> QED BY <2>1, <2>2
  <1>2. IsFiniteSet(S) /\ S \subseteq Calls
    BY <1>1, CallsFinite
  <1>3. L = First(list, n)
    BY <1>1 DEF ToSet, First
  <1>4. CallsTo(Plan[r], b) = S \cup L
    <2>1. 1..b = 1..(b - 1) \cup {b}
      BY <1>1
    <2> QED BY <2>1 DEF CallsTo
  <1>5. \A c \in S : v[c].size \in Nat /\ u[c] = v[c]
    BY <1>2
  <1>6. Spent(u, Plan[r], b - 1, bytes, tokens)
    BY <1>1, <1>5, SpentSame
  <1>7. /\ \A d \in 1..(b - 1) : Spends(u, ToSet(Plan[r][d]), TurnBudget, TurnTokens)
        /\ Spends(u, S, RequestBudget, RequestTokens)
        /\ bytes = Total(SizesIn(u), S) /\ tokens = Total(TokensIn(u), S)
    BY <1>6, Zenon DEF Spent
  <1>8. \A c \in Calls : SizesIn(u)[c] \in Nat /\ TokensIn(u)[c] \in Nat
    BY EstimateTyped DEF SizesIn, TokensIn
  <1>9. /\ KeptIn(u, S) = S \cap K /\ KeptIn(u, L) = L \cap K
        /\ KeptIn(u, S \cup L) = (S \cup L) \cap K
    BY <1>1, <1>2 DEF KeptIn
  <1>10. {TurnBudget, RequestBudget, TurnTokens, RequestTokens} \subseteq Nat
    BY ExecutorConstants
  <1>11. S \cap First(list, n) = {}
    BY <1>3
  <1>12. /\ RunsOver(ub, n, list, SizesIn(u)) /\ RunsOver(ut, n, list, TokensIn(u))
    OBVIOUS
  <1>13. \A i \in 1..n : list[i] \in K =>
             /\ ub[i] <= TurnBudget /\ bytes + ub[i] <= RequestBudget
             /\ ut[i] <= TurnTokens /\ tokens + ut[i] <= RequestTokens
    OBVIOUS
  <1> HIDE DEF list, n, S, L, K
  <1>14. /\ Total(SizesIn(u), First(list, n) \cap K) <= TurnBudget
         /\ Total(SizesIn(u), (S \cup First(list, n)) \cap K) <= RequestBudget
         /\ Total(SizesIn(u), S \cup First(list, n)) = Total(SizesIn(u), S) + ub[n]
    <2>1. \A x \in S : SizesIn(u)[x] \in Nat
      BY <1>2, <1>8
    <2>2. Total(SizesIn(u), S \cap K) <= RequestBudget
      BY <1>7, <1>9, Zenon DEF Spends
    <2>3. \A i \in 1..n : list[i] \in K =>
              ub[i] <= TurnBudget /\ Total(SizesIn(u), S) + ub[i] <= RequestBudget
      BY <1>7, <1>13
    <2>4. TurnBudget \in Nat /\ RequestBudget \in Nat
      BY <1>10
    <2>5. Chargeable(S, list, n, SizesIn(u), ub, K, TurnBudget, RequestBudget)
      BY <1>2, <1>11, <1>12, <2>1, <2>2, <2>3, <2>4, Zenon DEF Chargeable
    <2>6. Total(SizesIn(u), First(list, n) \cap K) <= TurnBudget
      BY <2>5, ChargedTotal
    <2>7. Total(SizesIn(u), (S \cup First(list, n)) \cap K) <= RequestBudget
      BY <2>5, ChargedTotal
    <2>8. Total(SizesIn(u), S \cup First(list, n)) = Total(SizesIn(u), S) + ub[n]
      BY <1>2, <1>11, <1>12, <2>1, BatchTotal
    <2> QED BY <2>6, <2>7, <2>8
  <1>15. /\ Total(TokensIn(u), First(list, n) \cap K) <= TurnTokens
         /\ Total(TokensIn(u), (S \cup First(list, n)) \cap K) <= RequestTokens
         /\ Total(TokensIn(u), S \cup First(list, n)) = Total(TokensIn(u), S) + ut[n]
    <2>1. \A x \in S : TokensIn(u)[x] \in Nat
      BY <1>2, <1>8
    <2>2. Total(TokensIn(u), S \cap K) <= RequestTokens
      BY <1>7, <1>9, Zenon DEF Spends
    <2>3. \A i \in 1..n : list[i] \in K =>
              ut[i] <= TurnTokens /\ Total(TokensIn(u), S) + ut[i] <= RequestTokens
      BY <1>7, <1>13
    <2>4. TurnTokens \in Nat /\ RequestTokens \in Nat
      BY <1>10
    <2>5. Chargeable(S, list, n, TokensIn(u), ut, K, TurnTokens, RequestTokens)
      BY <1>2, <1>11, <1>12, <2>1, <2>2, <2>3, <2>4, Zenon DEF Chargeable
    <2>6. Total(TokensIn(u), First(list, n) \cap K) <= TurnTokens
      BY <2>5, ChargedTotal
    <2>7. Total(TokensIn(u), (S \cup First(list, n)) \cap K) <= RequestTokens
      BY <2>5, ChargedTotal
    <2>8. Total(TokensIn(u), S \cup First(list, n)) = Total(TokensIn(u), S) + ut[n]
      BY <1>2, <1>11, <1>12, <2>1, BatchTotal
    <2> QED BY <2>6, <2>7, <2>8
  <1>16. Spends(u, L, TurnBudget, TurnTokens)
    BY <1>3, <1>9, <1>14, <1>15, Zenon DEF Spends
  <1>17. Spends(u, S \cup L, RequestBudget, RequestTokens)
    BY <1>3, <1>9, <1>14, <1>15, Zenon DEF Spends
  <1>18. \A d \in 1..b : Spends(u, ToSet(Plan[r][d]), TurnBudget, TurnTokens)
    <2>1. ASSUME NEW d \in 1..b PROVE Spends(u, ToSet(Plan[r][d]), TurnBudget, TurnTokens)
      <3>1. CASE d = b
        BY <3>1, <1>16, Zenon DEF L, list
      <3>2. CASE d # b
        <4>1. d \in 1..(b - 1)
          BY <3>2, <1>1
        <4> QED BY <4>1, <1>7
      <3> QED BY <3>1, <3>2
    <2> QED BY <2>1
  <1>19. bytes + ub[n] = Total(SizesIn(u), S \cup L) /\ tokens + ut[n] = Total(TokensIn(u), S \cup L)
    BY <1>3, <1>7, <1>14, <1>15, Zenon
  <1> QED BY <1>4, <1>17, <1>18, <1>19, Zenon DEF Spent, n, list

\* How the results of a returning batch are charged.
LEMMA BatchCharged ==
  ASSUME TypeOK, BatchesOK, BudgetsOK, NEW r \in Requests, ReturnBatch(r),
         NEW b, b = batch[r], NEW list, list = Plan[r][b], NEW n, n = Len(list)
  PROVE  /\ b \in 1..Len(Plan[r]) /\ n \in Nat /\ list \in Seq(Calls)
         /\ \A i, j \in 1..n : list[i] = list[j] => i = j
         /\ Turn(r)[0] = [bytes |-> 0, tokens |-> 0]
         /\ \A i \in 1..n :
               /\ Turn(r)[i - 1].bytes \in Nat /\ Turn(r)[i - 1].tokens \in Nat
               /\ Turn(r)[i] = Charge(r, Turn(r)[i - 1], list[i])
               /\ result'[list[i]] = FinalResult(r, Turn(r)[i - 1], list[i])
         /\ \A c \in Calls : c \notin ToSet(list) => result'[c] = result[c]
         /\ bytesUsed' = [bytesUsed EXCEPT ![r] = @ + Turn(r)[n].bytes]
         /\ tokensUsed' = [tokensUsed EXCEPT ![r] = @ + Turn(r)[n].tokens]
  <1> DEFINE V      == [bytes : Nat, tokens : Nat]
             used   == Turn(r)
             pos(c) == CHOOSE k \in 1..n : list[k] = c
  <1>1. batch[r] \in 1..Len(Plan[r]) /\ batch[r] \in DOMAIN Plan[r]
    BY PlanTyped DEF BatchesOK, ReturnBatch, Returns, TypeOK
  <1>2. /\ list \in Seq(Calls) /\ n \in Nat /\ DOMAIN list = 1..n
        /\ \A i \in 1..n : list[i] \in Calls
    <2>1. list \in Seq(Calls) /\ n \in Nat /\ DOMAIN list = 1..n
      BY <1>1, PlanTyped
    <2> QED BY <2>1
  <1>3. used \in [0..n -> V]
    BY <1>1, TurnTyped
  <1>4. used = [i \in 0..n |-> IF i = 0 THEN [bytes |-> 0, tokens |-> 0]
                               ELSE Charge(r, used[i - 1], list[i])]
    BY <1>1, TurnCharges
  <1>5. \A i, j \in 1..n : list[i] = list[j] => i = j
    BY <1>1, <1>2, EmittedOnce
  <1>6. /\ bytesUsed' = [bytesUsed EXCEPT ![r] = @ + used[n].bytes]
        /\ tokensUsed' = [tokensUsed EXCEPT ![r] = @ + used[n].tokens]
        /\ result' = [c \in Calls |-> IF c \in ToSet(list)
                                      THEN FinalResult(r, used[pos(c) - 1], c) ELSE result[c]]
    BY DEF ReturnBatch, BatchCalls
  <1>7. ASSUME NEW i \in 1..n PROVE pos(list[i]) = i /\ list[i] \in ToSet(list) /\ list[i] \in Calls
    <2>1. pos(list[i]) \in 1..n /\ list[pos(list[i])] = list[i]
      OBVIOUS
    <2>2. pos(list[i]) = i
      BY <2>1, <1>5
    <2> QED BY <2>2, <1>2 DEF ToSet
  <1> HIDE DEF used, pos
  <1>8. used[0] = [bytes |-> 0, tokens |-> 0]
    BY <1>2, <1>4
  <1>9. ASSUME NEW i \in 1..n
        PROVE  /\ used[i - 1].bytes \in Nat /\ used[i - 1].tokens \in Nat
               /\ used[i] = Charge(r, used[i - 1], list[i])
               /\ result'[list[i]] = FinalResult(r, used[i - 1], list[i])
    <2>1. i \in 0..n /\ i # 0 /\ i - 1 \in 0..n
      BY <1>2
    <2>2. used[i] = Charge(r, used[i - 1], list[i])
      <3> DEFINE e(j) == IF j = 0 THEN [bytes |-> 0, tokens |-> 0]
                         ELSE Charge(r, used[j - 1], list[j])
      <3>1. used = [j \in 0..n |-> e(j)]
        BY <1>4
      <3>2. e(i) = Charge(r, used[i - 1], list[i])
        BY <2>1
      <3> HIDE DEF e
      <3> QED BY <2>1, <3>1, <3>2
    <2>3. used[i - 1].bytes \in Nat /\ used[i - 1].tokens \in Nat
      BY <2>1, <1>3
    <2>4. result'[list[i]] = FinalResult(r, used[i - 1], list[i])
      BY <1>6, <1>7
    <2> QED BY <2>2, <2>3, <2>4
  <1>10. \A c \in Calls : c \notin ToSet(list) => result'[c] = result[c]
    BY <1>6
  <1> QED BY <1>1, <1>2, <1>5, <1>6, <1>8, <1>9, <1>10 DEF used

\* A returning batch keeps to the budgets.
LEMMA BatchBudgets ==
  ASSUME TypeOK, TypeOK', BatchesOK, BudgetsOK, NEW r \in Requests, ReturnBatch(r)
  PROVE  /\ \A i \in DOMAIN Plan[r][batch[r]] : result'[Plan[r][batch[r]][i]].status # "none"
         /\ ResultsOK'
         /\ Spent(result', Plan[r], batch[r], bytesUsed'[r], tokensUsed'[r])
  <1> DEFINE b    == batch[r]
             list == Plan[r][b]
             n    == Len(list)
             own(i) == OwnResult(list[i])
             last(i) == Turn(r)[i - 1]
  <1>1. /\ b \in 1..Len(Plan[r]) /\ n \in Nat /\ list \in Seq(Calls)
        /\ \A i, j \in 1..n : list[i] = list[j] => i = j
        /\ Turn(r)[0] = [bytes |-> 0, tokens |-> 0]
        /\ \A i \in 1..n :
               /\ last(i).bytes \in Nat /\ last(i).tokens \in Nat
               /\ Turn(r)[i] = Charge(r, last(i), list[i])
               /\ result'[list[i]] = FinalResult(r, last(i), list[i])
        /\ \A c \in Calls : c \notin ToSet(list) => result'[c] = result[c]
        /\ bytesUsed' = [bytesUsed EXCEPT ![r] = @ + Turn(r)[n].bytes]
        /\ tokensUsed' = [tokensUsed EXCEPT ![r] = @ + Turn(r)[n].tokens]
    BY BatchCharged
  <1>2. /\ DOMAIN list = 1..n /\ (\A i \in 1..n : list[i] \in Calls)
        /\ b \in DOMAIN Plan[r] /\ Len(Plan[r]) \in Nat
    BY <1>1, PlanTyped
  <1>3. /\ phase[r] = "gathering" /\ UNCHANGED pc
        /\ \A i \in 1..n : pc[list[i]] \in {"done", "rejected"}
    BY <1>2 DEF ReturnBatch, Returns, BatchCalls, ToSet
  <1>4. ASSUME NEW i \in 1..n
        PROVE  /\ own(i).status # "none"
               /\ own(i).status = "budget_exceeded" => own(i).size = ErrorSize
               /\ own(i).size \in Nat
    <2>1. own(i) = result[list[i]] \/ own(i) = ErrorResult("quota_exceeded")
      BY DEF OwnResult
    <2>2. pc[list[i]] = "done" => own(i) = result[list[i]]
      BY DEF OwnResult
    <2>3. pc[list[i]] = "rejected" => own(i) = ErrorResult("quota_exceeded")
      BY DEF OwnResult
    <2>4. list[i] \in Calls /\ result[list[i]].size \in Nat /\ ErrorSize \in Nat
      BY <1>2, ExecutorConstants DEF TypeOK
    <2> HIDE DEF own
    <2>5. CASE pc[list[i]] = "done"
      BY <2>2, <2>4, <2>5 DEF BudgetsOK, ResultsOK
    <2>6. CASE pc[list[i]] = "rejected"
      BY <2>3, <2>4, <2>6 DEF ErrorResult
    <2> QED BY <1>3, <2>5, <2>6
  <1>5. ASSUME NEW i \in 1..n
        PROVE  /\ result'[list[i]].status # "none"
               /\ result'[list[i]].status = "budget_exceeded" => result'[list[i]].size = ErrorSize
               /\ result'[list[i]].status # "budget_exceeded" =>
                     result'[list[i]] = own(i) /\ ~OverBudget(r, last(i), own(i).size)
    <2>1. result'[list[i]] = IF OverBudget(r, last(i), own(i).size)
                             THEN ErrorResult("budget_exceeded") ELSE own(i)
      BY <1>1 DEF FinalResult
    <2>2. own(i).status # "none" /\ (own(i).status = "budget_exceeded" => own(i).size = ErrorSize)
      BY <1>4
    <2> HIDE DEF own, last
    <2>3. CASE OverBudget(r, last(i), own(i).size)
      BY <2>1, <2>3 DEF ErrorResult
    <2>4. CASE ~OverBudget(r, last(i), own(i).size)
      BY <2>1, <2>2, <2>4
    <2> QED BY <2>3, <2>4
  <1>6. ResultsOK'
    <2>1. ASSUME NEW c \in Calls
          PROVE  /\ pc'[c] = "done" => result'[c].status # "none"
                 /\ result'[c].status = "budget_exceeded" => result'[c].size = ErrorSize
      <3>1. CASE c \in ToSet(list)
        <4>1. PICK i \in 1..n : c = list[i]
          BY <1>2, <3>1 DEF ToSet
        <4> QED BY <4>1, <1>5
      <3>2. CASE c \notin ToSet(list)
        <4>1. result'[c] = result[c] /\ pc'[c] = pc[c]
          BY <1>1, <1>3, <3>2
        <4> QED BY <4>1 DEF BudgetsOK, ResultsOK
      <3> QED BY <3>1, <3>2
    <2> QED BY <2>1 DEF ResultsOK
  <1> DEFINE ub == [i \in 0..n |-> Turn(r)[i].bytes]
             ut == [i \in 0..n |-> Turn(r)[i].tokens]
  <1>7. ASSUME NEW i \in 1..n
        PROVE  /\ SizesIn(result')[list[i]] = result'[list[i]].size
               /\ TokensIn(result')[list[i]] = EstimatedTokens(result'[list[i]].size)
               /\ SizesIn(result')[list[i]] \in Nat /\ TokensIn(result')[list[i]] \in Nat
    <2>1. list[i] \in Calls /\ result'[list[i]].size \in Nat
      BY <1>2 DEF TypeOK
    <2> HIDE DEF list, n
    <2> QED BY <2>1, EstimateTyped DEF SizesIn, TokensIn
  <1>8. ASSUME NEW i \in 1..n
        PROVE  /\ i \in 0..n /\ i - 1 \in 0..n
               /\ ub[i] = Turn(r)[i].bytes /\ ut[i] = Turn(r)[i].tokens
               /\ ub[i - 1] = last(i).bytes /\ ut[i - 1] = last(i).tokens
               /\ ub[i - 1] \in Nat /\ ut[i - 1] \in Nat
               /\ ub[i] = ub[i - 1] + result'[list[i]].size
               /\ ut[i] = ut[i - 1] + EstimatedTokens(result'[list[i]].size)
    <2>1. i \in 0..n /\ i - 1 \in 0..n
      BY <1>1
    <2>2. /\ ub[i] = Turn(r)[i].bytes /\ ut[i] = Turn(r)[i].tokens
          /\ ub[i - 1] = last(i).bytes /\ ut[i - 1] = last(i).tokens
      BY <2>1
    <2>3. Turn(r)[i] = Charge(r, last(i), list[i]) /\ result'[list[i]] = FinalResult(r, last(i), list[i])
          /\ last(i).bytes \in Nat /\ last(i).tokens \in Nat
      BY <1>1
    <2> HIDE DEF ub, ut, last, list, n
    <2>4. /\ Turn(r)[i].bytes = last(i).bytes + result'[list[i]].size
          /\ Turn(r)[i].tokens = last(i).tokens + EstimatedTokens(result'[list[i]].size)
      BY <2>3 DEF Charge
    <2> QED BY <2>1, <2>2, <2>3, <2>4, Zenon
  <1>9. ub[0] = 0 /\ ut[0] = 0 /\ ub[n] = Turn(r)[n].bytes /\ ut[n] = Turn(r)[n].tokens
    <2>1. 0 \in 0..n /\ n \in 0..n
      BY <1>1
    <2> QED BY <2>1, <1>1
  <1> HIDE DEF ub, ut
  <1>10. RunsOver(ub, n, list, SizesIn(result'))
    <2> HIDE DEF list, n
    <2> QED BY <1>1, <1>7, <1>8, <1>9 DEF RunsOver
  <1>11. RunsOver(ut, n, list, TokensIn(result'))
    <2> HIDE DEF list, n
    <2> QED BY <1>1, <1>7, <1>8, <1>9 DEF RunsOver
  <1>12. bytesUsed[r] \in Nat /\ tokensUsed[r] \in Nat
    BY DEF TypeOK
  <1>13. ASSUME NEW i \in 1..n, result'[list[i]].status # "budget_exceeded"
         PROVE  /\ ub[i] <= TurnBudget /\ bytesUsed[r] + ub[i] <= RequestBudget
                /\ ut[i] <= TurnTokens /\ tokensUsed[r] + ut[i] <= RequestTokens
    <2> DEFINE s == result'[list[i]].size
               e == EstimatedTokens(s)
    <2>1. ~OverBudget(r, last(i), s)
      BY <1>5, <1>13
    <2>2. s \in Nat /\ e \in Nat
      BY <1>7
    <2>3. /\ ub[i] = ub[i - 1] + s /\ ut[i] = ut[i - 1] + e
          /\ ub[i - 1] \in Nat /\ ut[i - 1] \in Nat
          /\ ub[i - 1] = last(i).bytes /\ ut[i - 1] = last(i).tokens
      BY <1>8
    <2> HIDE DEF s, last, list, n
    <2>4. /\ ~(last(i).bytes + s > TurnBudget) /\ ~(last(i).tokens + e > TurnTokens)
          /\ ~(bytesUsed[r] + last(i).bytes + s > RequestBudget)
          /\ ~(tokensUsed[r] + last(i).tokens + e > RequestTokens)
      BY <2>1, Zenon DEF OverBudget
    <2> HIDE DEF e
    <2>5. {TurnBudget, RequestBudget, TurnTokens, RequestTokens} \subseteq Nat
      BY ExecutorConstants
    <2> QED BY <1>12, <2>2, <2>3, <2>4, <2>5
  <1>14. /\ Spent(result, Plan[r], b - 1, bytesUsed[r], tokensUsed[r])
         /\ \A c \in CallsTo(Plan[r], b - 1) : c \in Calls /\ c \notin ToSet(list)
    <2>1. ReturnedTo(r) = b - 1
      BY <1>3 DEF ReturnedTo
    <2>2. Spent(result, Plan[r], b - 1, bytesUsed[r], tokensUsed[r])
      BY <2>1 DEF BudgetsOK
    <2>3. ASSUME NEW c \in CallsTo(Plan[r], b - 1) PROVE c \in Calls /\ c \notin ToSet(list)
      <3>1. c \in CallsTo(Plan[r], ReturnedTo(r))
        BY <2>1
      <3>2. c \in Calls
            /\ \A q \in Requests : \A d \in 1..Len(Plan[q]) :
                  c \in ToSet(Plan[q][d]) => q = r /\ d <= ReturnedTo(r)
        BY <3>1, ReturnedBefore
      <3>3. ~(b <= b - 1)
        BY <1>1, <1>2
      <3> QED BY <3>2, <3>3, <2>1, <1>1
    <2> QED BY <2>2, <2>3
  <1>15. \A c \in Calls : result[c].size \in Nat /\ result'[c].size \in Nat
    BY DEF TypeOK
  <1>16. \A c \in CallsTo(Plan[r], b - 1) : result'[c] = result[c]
    BY <1>1, <1>14
  <1>17. CallsTo(Plan[r], b - 1) \cap ToSet(Plan[r][b]) = {}
    BY <1>14
  <1>18. Spent(result', Plan[r], b, bytesUsed[r] + ub[n], tokensUsed[r] + ut[n])
    <2>1. b \in 1..Len(Plan[r])
      BY <1>1
    <2> HIDE DEF b
    <2> QED BY <2>1, <1>10, <1>11, <1>13, <1>14, <1>15, <1>16, <1>17, OneMoreBatch
  <1>19. bytesUsed'[r] = bytesUsed[r] + ub[n] /\ tokensUsed'[r] = tokensUsed[r] + ut[n]
    <2>1. bytesUsed \in [Requests -> Nat] /\ tokensUsed \in [Requests -> Nat]
      BY DEF TypeOK
    <2> QED BY <2>1, <1>1, <1>9
  <1> QED BY <1>2, <1>5, <1>6, <1>18, <1>19

-----------------------------------------------------------------------------
(* The budgets are kept.                                                   *)

\* A call whose step it is has not been returned.
LEMMA CallKeepsBudgets ==
  ASSUME TypeOK, TypeOK', BatchesOK, BudgetsOK, NEW c \in Calls, CallStep(c)
  PROVE  BudgetsOK'
  <1>1. /\ pc[c] \in Unfinished
        /\ pc' = [pc EXCEPT ![c] = pc'[c]]
        /\ UNCHANGED <<batch, callsUsed, bytesUsed, tokensUsed>>
        /\ \/ UNCHANGED phase
           \/ phase' = [phase EXCEPT ![RequestOf(c)] = IF @ = "gathering" THEN "aborted" ELSE @]
    BY CallStepShape
  <1>2. /\ result' = [result EXCEPT ![c] = result'[c]]
        /\ pc'[c] = "done" => result'[c].status # "none"
        /\ \/ result'[c] = result[c]
           \/ result'[c].status = "budget_exceeded" => result'[c].size = ErrorSize
    BY CallResult
  <1>3. \A d \in Calls : d # c => pc'[d] = pc[d] /\ result'[d] = result[d]
    BY <1>1, <1>2 DEF TypeOK
  <1>4. ResultsOK'
    BY <1>2, <1>3 DEF BudgetsOK, ResultsOK
  <1>5. \A r \in Requests : ReturnedTo(r)' = ReturnedTo(r)
    BY <1>1 DEF ReturnedTo, TypeOK
  <1>6. ASSUME NEW r \in Requests, NEW d \in CallsTo(Plan[r], ReturnedTo(r))
        PROVE  pc'[d] = pc[d] /\ result'[d] = result[d]
    <2>1. d \in Calls
      BY ReturnedBefore
    <2>2. pc[d] \in {"done", "rejected"}
      BY DEF BudgetsOK, ReturnedOK
    <2>3. d # c
      BY <1>1, <2>2 DEF Unfinished
    <2> QED BY <2>1, <2>3, <1>3
  <1> QED BY <1>1, <1>4, <1>5, <1>6, BudgetsUndisturbed

\* The calls of a batch that starts are new.
LEMMA StartKeepsBudgets ==
  ASSUME TypeOK, TypeOK', BatchesOK, BudgetsOK, NEW r \in Requests, StartBatch(r)
  PROVE  BudgetsOK'
  <1>1. PICK accepted \in SUBSET Calls, calls \in SUBSET Calls :
            /\ \A c \in calls : RequestOf(c) = r /\ pc[c] = "new"
            /\ accepted \subseteq calls
            /\ pc' = [c \in Calls |-> IF c \in accepted THEN "created"
                                      ELSE IF c \in calls THEN "rejected" ELSE pc[c]]
    BY StartBatchEffect
  <1>2. /\ phase[r] = "idle" /\ UNCHANGED <<bytesUsed, tokensUsed, result>>
        /\ batch' = [batch EXCEPT ![r] = @ + 1]
        /\ phase' = [phase EXCEPT ![r] = "gathering"]
    BY DEF StartBatch
  <1>3. \A c \in Calls : pc[c] # "new" => pc'[c] = pc[c]
    BY <1>1
  <1>4. ResultsOK'
    BY <1>1, <1>2 DEF BudgetsOK, ResultsOK
  <1>5. \A q \in Requests : ReturnedTo(q)' = ReturnedTo(q)
    BY <1>2 DEF ReturnedTo, TypeOK
  <1>6. ASSUME NEW q \in Requests, NEW c \in CallsTo(Plan[q], ReturnedTo(q))
        PROVE  pc'[c] = pc[c] /\ result'[c] = result[c]
    <2>1. c \in Calls
      BY ReturnedBefore
    <2>2. pc[c] \in {"done", "rejected"}
      BY DEF BudgetsOK, ReturnedOK
    <2> QED BY <2>1, <2>2, <1>2, <1>3
  <1>7. UNCHANGED <<bytesUsed, tokensUsed>>
    BY <1>2
  <1> QED BY <1>4, <1>5, <1>6, <1>7, BudgetsUndisturbed

\* A returning batch changes the results of its own calls only.
LEMMA ReturnKeepsBudgets ==
  ASSUME TypeOK, TypeOK', BatchesOK, BudgetsOK, NEW r \in Requests, ReturnBatch(r)
  PROVE  BudgetsOK'
  <1> DEFINE b    == batch[r]
             list == Plan[r][b]
             n    == Len(list)
  <1>1. /\ phase[r] = "gathering" /\ phase' = [phase EXCEPT ![r] = "idle"]
        /\ UNCHANGED <<batch, pc>>
        /\ \A c \in ToSet(list) : pc[c] \in {"done", "rejected"}
    BY DEF ReturnBatch, Returns, BatchCalls
  <1>2. /\ \A i \in DOMAIN list : result'[list[i]].status # "none"
        /\ ResultsOK'
        /\ Spent(result', Plan[r], b, bytesUsed'[r], tokensUsed'[r])
    BY BatchBudgets
  <1>3. /\ b \in 1..Len(Plan[r]) /\ Len(Plan[r]) \in Nat
        /\ \A c \in Calls : c \notin ToSet(list) => result'[c] = result[c]
        /\ \A q \in Requests : q # r => bytesUsed'[q] = bytesUsed[q] /\ tokensUsed'[q] = tokensUsed[q]
    <2>1. /\ b \in 1..Len(Plan[r])
          /\ \A c \in Calls : c \notin ToSet(list) => result'[c] = result[c]
          /\ bytesUsed' = [bytesUsed EXCEPT ![r] = @ + Turn(r)[n].bytes]
          /\ tokensUsed' = [tokensUsed EXCEPT ![r] = @ + Turn(r)[n].tokens]
      <3>1. b = batch[r] /\ list = Plan[r][b] /\ n = Len(list)
        OBVIOUS
      <3> HIDE DEF b, list, n
      <3> QED BY <3>1, BatchCharged
    <2> HIDE DEF n
    <2> QED BY <2>1, PlanTyped DEF TypeOK
  <1> DEFINE set == ToSet(list)
  <1>4. set = {list[i] : i \in DOMAIN list}
    BY DEF ToSet
  <1>5. \A c \in set : result'[c].status # "none" /\ pc[c] \in {"done", "rejected"}
    BY <1>1, <1>2, <1>4
  <1>6. /\ ReturnedTo(r) = b - 1 /\ ReturnedTo(r)' = b
        /\ \A q \in Requests : q # r => ReturnedTo(q)' = ReturnedTo(q)
    BY <1>1 DEF ReturnedTo, TypeOK
  <1>7. ASSUME NEW q \in Requests, NEW c \in CallsTo(Plan[q], ReturnedTo(q))
        PROVE  c \in Calls /\ result'[c] = result[c]
    <2>1. /\ c \in Calls
          /\ \A p \in Requests : \A d \in 1..Len(Plan[p]) :
                c \in ToSet(Plan[p][d]) => p = q /\ d <= ReturnedTo(q)
      BY ReturnedBefore
    <2>2. ASSUME c \in ToSet(Plan[r][b]) PROVE FALSE
      <3>1. r = q /\ b <= ReturnedTo(q)
        BY <2>1, <2>2, <1>3
      <3>2. b \in Int
        BY <1>3
      <3> QED BY <3>1, <3>2, <1>6
    <2> QED BY <2>1, <2>2, <1>3
  <1>8. CallsTo(Plan[r], b) = CallsTo(Plan[r], b - 1) \cup set
    <2>1. 1..b = 1..(b - 1) \cup {b}
      BY <1>3
    <2> QED BY <2>1 DEF CallsTo
  <1> HIDE DEF set, list, n
  <1>9. ReturnedOK'
    <2>1. ASSUME NEW q \in Requests, NEW c \in CallsTo(Plan[q], ReturnedTo(q))'
          PROVE  (pc[c] \in {"done", "rejected"} /\ result[c].status # "none")'
      <3>1. CASE c \in CallsTo(Plan[q], ReturnedTo(q))
        <4>1. pc[c] \in {"done", "rejected"} /\ result[c].status # "none"
          BY <3>1 DEF BudgetsOK, ReturnedOK
        <4> QED BY <4>1, <3>1, <1>1, <1>7
      <3>2. CASE c \notin CallsTo(Plan[q], ReturnedTo(q))
        <4>1. q = r
          BY <3>2, <1>6
        <4>2. c \in CallsTo(Plan[r], b)
          BY <4>1, <1>6
        <4>3. c \in set
          BY <4>1, <4>2, <3>2, <1>6, <1>8
        <4> QED BY <4>3, <1>1, <1>5
      <3> QED BY <3>1, <3>2
    <2> QED BY <2>1 DEF ReturnedOK
  <1>10. ASSUME NEW q \in Requests
         PROVE  Spent(result, Plan[q], ReturnedTo(q), bytesUsed[q], tokensUsed[q])'
    <2>1. CASE q = r
      <3>1. Spent(result', Plan[r], b, bytesUsed'[r], tokensUsed'[r])
        BY <1>2
      <3>2. Spent(result', Plan[q], ReturnedTo(q)', bytesUsed'[q], tokensUsed'[q])
        BY <2>1, <3>1, <1>6, Zenon
      <3> QED BY <3>2
    <2>2. CASE q # r
      <3> DEFINE m == ReturnedTo(q)
      <3>1. m \in Int /\ m <= Len(Plan[q])
        BY ReturnedInPlan
      <3>2. Spent(result, Plan[q], m, bytesUsed[q], tokensUsed[q])
        BY DEF BudgetsOK
      <3>3. \A c \in CallsTo(Plan[q], m) : result[c].size \in Nat /\ result'[c] = result[c]
        BY <1>7 DEF TypeOK
      <3>4. m' = m /\ bytesUsed'[q] = bytesUsed[q] /\ tokensUsed'[q] = tokensUsed[q]
        BY <2>2, <1>3, <1>6
      <3> HIDE DEF m
      <3>5. Spent(result', Plan[q], m, bytesUsed[q], tokensUsed[q])
        BY <3>1, <3>2, <3>3, SpentSame
      <3>6. Spent(result', Plan[q], m', bytesUsed'[q], tokensUsed'[q])
        BY <3>4, <3>5, Zenon
      <3> QED BY <3>6 DEF m
    <2> QED BY <2>1, <2>2
  <1> QED BY <1>2, <1>9, <1>10 DEF BudgetsOK

\* No step spends more than the budgets.
LEMMA BudgetsKeep ==
  ASSUME TypeOK, TypeOK', BatchesOK, BudgetsOK, [Next]_vars
  PROVE  BudgetsOK'
  <1>1. ASSUME UNCHANGED <<batch, pc, result, bytesUsed, tokensUsed>>,
               \A r \in Requests : phase'[r] = "idle" <=> phase[r] = "idle"
        PROVE  BudgetsOK'
    <2>1. ResultsOK'
      BY <1>1 DEF BudgetsOK, ResultsOK
    <2>2. \A r \in Requests : ReturnedTo(r)' = ReturnedTo(r)
      BY <1>1 DEF ReturnedTo
    <2> QED BY <1>1, <2>1, <2>2, BudgetsUndisturbed
  <1>2. ASSUME NEW r \in Requests, Disconnect(r) \/ RaiseCancelled(r) PROVE BudgetsOK'
    <2>1. UNCHANGED <<batch, pc, result, bytesUsed, tokensUsed>>
      BY <1>2 DEF Disconnect, RaiseCancelled
    <2>2. \A q \in Requests : phase'[q] = "idle" <=> phase[q] = "idle"
      BY <1>2 DEF Disconnect, RaiseCancelled, TypeOK
    <2> QED BY <1>1, <2>1, <2>2
  <1>3. ASSUME NEW t \in Tools, ResetElapses(t) PROVE BudgetsOK'
    BY <1>1, <1>3 DEF ResetElapses, executor
  <1>4. ASSUME UNCHANGED vars PROVE BudgetsOK'
    BY <1>1, <1>4 DEF vars, executor
  <1> QED
    BY <1>2, <1>3, <1>4, CallKeepsBudgets, StartKeepsBudgets, ReturnKeepsBudgets DEF Next

\* Nothing is charged at first.
LEMMA BudgetsInit == Init => BudgetsOK
  <1> SUFFICES ASSUME Init PROVE BudgetsOK
    OBVIOUS
  <1>1. \A r \in Requests : ReturnedTo(r) = 0 /\ bytesUsed[r] = 0 /\ tokensUsed[r] = 0
    BY DEF Init, ReturnedTo
  <1>2. \A r \in Requests : CallsTo(Plan[r], 0) = {}
    BY DEF CallsTo
  <1>3. ResultsOK
    BY DEF Init, ResultsOK, NoResult
  <1>4. ReturnedOK
    BY <1>1, <1>2 DEF ReturnedOK
  <1>5. ASSUME NEW r \in Requests PROVE Spent(result, Plan[r], 0, 0, 0)
    <2>1. KeptIn(result, {}) = {}
      BY DEF KeptIn
    <2>2. Total(SizesIn(result), {}) = 0 /\ Total(TokensIn(result), {}) = 0
      BY TotalOfNone
    <2>3. 0 <= RequestBudget /\ 0 <= RequestTokens
      BY ExecutorConstants
    <2>4. Spends(result, {}, RequestBudget, RequestTokens)
      BY <2>1, <2>2, <2>3 DEF Spends
    <2>5. 1..0 = {}
      OBVIOUS
    <2> QED BY <1>2, <2>2, <2>4, <2>5 DEF Spent
  <1> QED BY <1>1, <1>3, <1>4, <1>5 DEF BudgetsOK

\* The sums of the property are those of the invariant.
LEMMA BudgetsBound == TypeOK /\ BatchesOK /\ BudgetsOK => BudgetsHold
  <1> SUFFICES ASSUME TypeOK, BatchesOK, BudgetsOK PROVE BudgetsHold
    OBVIOUS
  <1>1. ASSUME NEW S, IsFiniteSet(S), S \subseteq Calls
        PROVE  SizeOf(S) = Total(SizesIn(result), S) /\ TokensOf(S) = Total(TokensIn(result), S)
    <2>1. \A c \in S : result[c].size \in Nat
      BY <1>1 DEF TypeOK
    <2>2. SumOfSizes(result, S) = Total(SizesIn(result), S)
      BY <1>1, <2>1, SizesAddUp
    <2>3. SumOfTokens(result, S) = Total(TokensIn(result), S)
      BY <1>1, <2>1, TokensAddUp
    <2>4. SizeOf(S) = SumOfSizes(result, S) /\ TokensOf(S) = SumOfTokens(result, S)
      BY DEF SizeOf, TokensOf, SumOfSizes, SumOfTokens
    <2> QED BY <2>2, <2>3, <2>4
  <1>2. ASSUME NEW r \in Requests
        PROVE  LET given(b) == {c \in ToSet(Plan[r][b]) : result[c].status # "none"}
                   kept(b)  == {c \in given(b) : result[c].status # "budget_exceeded"}
                   returned == IF phase[r] = "idle" THEN 1..batch[r] ELSE 1..(batch[r] - 1)
                   all      == UNION {given(b) : b \in returned}
                   allKept  == UNION {kept(b) : b \in returned}
               IN  /\ \A b \in returned : SizeOf(kept(b)) <= TurnBudget
                                          /\ TokensOf(kept(b)) <= TurnTokens
                   /\ SizeOf(allKept) <= RequestBudget
                   /\ TokensOf(allKept) <= RequestTokens
                   /\ bytesUsed[r] = SizeOf(all)
                   /\ bytesUsed[r] <= RequestBudget + ErrorSize * Cardinality(all \ allKept)
    <2> DEFINE m        == ReturnedTo(r)
               given(b) == {c \in ToSet(Plan[r][b]) : result[c].status # "none"}
               kept(b)  == {c \in given(b) : result[c].status # "budget_exceeded"}
               returned == IF phase[r] = "idle" THEN 1..batch[r] ELSE 1..(batch[r] - 1)
               all      == UNION {given(b) : b \in returned}
               allKept  == UNION {kept(b) : b \in returned}
               S        == CallsTo(Plan[r], m)
               K        == KeptIn(result, S)
    <2>1. returned = 1..m
      BY DEF ReturnedTo
    <2>2. \A c \in S : result[c].status # "none"
      BY DEF BudgetsOK, ReturnedOK
    <2>3. \A b \in 1..m : given(b) = ToSet(Plan[r][b])
      BY <2>2 DEF CallsTo
    <2>4. \A b \in 1..m : kept(b) = KeptIn(result, ToSet(Plan[r][b]))
      BY <2>3 DEF KeptIn
    <2>5. all = S
      BY <2>1, <2>3 DEF CallsTo
    <2>6. allKept = K
      <3>1. allKept = UNION {KeptIn(result, ToSet(Plan[r][b])) : b \in 1..m}
        BY <2>1, <2>4, Zenon
      <3>2. UNION {KeptIn(result, ToSet(Plan[r][b])) : b \in 1..m} = K
        BY DEF CallsTo, KeptIn
      <3> QED BY <3>1, <3>2
    <2>7. m \in Int /\ m <= Len(Plan[r])
      BY ReturnedInPlan
    <2>8. Spent(result, Plan[r], m, bytesUsed[r], tokensUsed[r])
      BY DEF BudgetsOK
    <2> HIDE DEF m, given, kept, returned, all, allKept, K
    <2>9. /\ \A b \in 1..m : IsFiniteSet(ToSet(Plan[r][b])) /\ ToSet(Plan[r][b]) \subseteq Calls
          /\ IsFiniteSet(S) /\ S \subseteq Calls
      BY <2>7, CallsFinite
    <2>10. K \subseteq S /\ \A c \in S \ K : result[c].status = "budget_exceeded"
      BY DEF K, KeptIn
    <2> HIDE DEF S
    <2>11. IsFiniteSet(K) /\ K \subseteq Calls /\ IsFiniteSet(S \ K)
      BY <2>9, <2>10, FS_Subset
    <2>12. ASSUME NEW b \in 1..m
           PROVE  SizeOf(kept(b)) <= TurnBudget /\ TokensOf(kept(b)) <= TurnTokens
      <3> DEFINE T == KeptIn(result, ToSet(Plan[r][b]))
      <3>1. T \subseteq ToSet(Plan[r][b])
        BY DEF KeptIn
      <3>2. Spends(result, ToSet(Plan[r][b]), TurnBudget, TurnTokens)
        BY <2>8 DEF Spent
      <3>3. Total(SizesIn(result), T) <= TurnBudget /\ Total(TokensIn(result), T) <= TurnTokens
        BY <3>2, Zenon DEF Spends
      <3>4. kept(b) = T
        BY <2>4
      <3> HIDE DEF T
      <3>5. IsFiniteSet(T) /\ T \subseteq Calls
        BY <3>1, <2>9, FS_Subset
      <3>6. SizeOf(T) = Total(SizesIn(result), T) /\ TokensOf(T) = Total(TokensIn(result), T)
        BY <3>5, <1>1
      <3> QED BY <3>3, <3>4, <3>6, Zenon
    <2>13. /\ Total(SizesIn(result), K) <= RequestBudget
           /\ Total(TokensIn(result), K) <= RequestTokens
           /\ bytesUsed[r] = Total(SizesIn(result), S)
      BY <2>8, Zenon DEF Spent, Spends, K, S
    <2>14. /\ SizeOf(K) = Total(SizesIn(result), K) /\ TokensOf(K) = Total(TokensIn(result), K)
           /\ SizeOf(S) = Total(SizesIn(result), S)
      BY <1>1, <2>9, <2>11
    <2>15. bytesUsed[r] <= RequestBudget + ErrorSize * Cardinality(S \ K)
      <3>1. \A c \in S : SizesIn(result)[c] \in Nat
        BY <2>9 DEF TypeOK, SizesIn
      <3>2. /\ Total(SizesIn(result), S) = Total(SizesIn(result), K) + Total(SizesIn(result), S \ K)
            /\ Total(SizesIn(result), K) \in Nat /\ Total(SizesIn(result), S \ K) \in Nat
        BY <2>9, <2>10, <3>1, TotalOfPart
      <3>3. \A c \in S \ K : SizesIn(result)[c] = ErrorSize
        BY <2>9, <2>10 DEF SizesIn, BudgetsOK, ResultsOK
      <3>4. ErrorSize \in Nat
        BY ExecutorConstants
      <3>5. Total(SizesIn(result), S \ K) = ErrorSize * Cardinality(S \ K)
        BY <2>11, <3>3, <3>4, TotalOfEqual
      <3>6. RequestBudget \in Nat
        BY ExecutorConstants
      <3> DEFINE x == Total(SizesIn(result), S)
                 y == Total(SizesIn(result), K)
                 z == Total(SizesIn(result), S \ K)
      <3>7. x = y + z /\ y \in Nat /\ z \in Nat /\ y <= RequestBudget
        BY <3>2, <2>13
      <3> HIDE DEF x, y, z
      <3>8. x <= RequestBudget + z
        BY <3>6, <3>7
      <3> QED BY <3>5, <3>8, <2>13, Zenon DEF x, z
    <2>16. /\ SizeOf(allKept) <= RequestBudget /\ TokensOf(allKept) <= RequestTokens
           /\ bytesUsed[r] = SizeOf(all)
           /\ bytesUsed[r] <= RequestBudget + ErrorSize * Cardinality(all \ allKept)
      BY <2>5, <2>6, <2>13, <2>14, <2>15, Zenon
    <2>17. \A b \in returned : SizeOf(kept(b)) <= TurnBudget /\ TokensOf(kept(b)) <= TurnTokens
      BY <2>1, <2>12, Zenon
    <2> QED BY <2>16, <2>17, Zenon DEF m, given, kept, returned, all, allKept
  <1> QED BY <1>2, Zenon DEF BudgetsHold

\* What the tools return to the model keeps to the budgets of the turn and of
\* the request, and only the errors that replace results go beyond them
\* (tool_executor.py:371-395), however many batches and calls there are and
\* whatever their results weigh.
THEOREM BudgetsAreKept == Spec => []BudgetsHold
  <1>1. Init => IInv /\ BudgetsOK
    BY InitIInv, BudgetsInit
  <1>2. IInv /\ BudgetsOK /\ [Next]_vars => (IInv /\ BudgetsOK)'
    <2> SUFFICES ASSUME IInv, BudgetsOK, [Next]_vars PROVE IInv' /\ BudgetsOK'
      OBVIOUS
    <2>1. IInv'
      BY NextKeeps
    <2>2. TypeOK /\ BatchesOK /\ TypeOK'
      BY <2>1 DEF IInv
    <2> QED BY <2>1, <2>2, BudgetsKeep
  <1>3. IInv /\ BudgetsOK => BudgetsHold
    BY BudgetsBound DEF IInv
  <1> QED BY <1>1, <1>2, <1>3, PTL DEF Spec
=============================================================================
