---------------------------- MODULE ToolExecutor ----------------------------
(***************************************************************************)
(* Bounded execution of the tool calls a model asks for:                   *)
(* backend/openlaunch/utils/tool_executor.py.                              *)
(*                                                                         *)
(* Every chat request has a ToolExecutor of its own and hands it one batch *)
(* of calls after the other (utils/middleware.py); the calls of a batch    *)
(* run concurrently.  All requests of the process share _GLOBAL_SEMAPHORE  *)
(* and _CIRCUIT_BREAKER.  A coroutine runs undisturbed up to an await that *)
(* suspends it; the acquisition of each of the three semaphores is an      *)
(* action of its own, since each may suspend.  Time is abstract: a tool    *)
(* may time out whenever it runs, an open breaker may reach reset_seconds  *)
(* at any moment, and any number of recorded failures may have aged out of *)
(* the window when the next one is recorded.                               *)
(***************************************************************************)
EXTENDS Naturals, FiniteSets, SequencesExt

CONSTANTS
    Requests,           \* chat requests of this process
    Calls,              \* tool calls, each emitted once
    Tools,              \* tool names
    Plan,               \* request -> the batches its model emits
    ToolOf,             \* call -> tool it names
    Unknown,            \* tools the registry of the request does not know
    Malformed,          \* calls whose arguments do not parse
    External,           \* tools annotated external_network
    Classes, ClassOf,   \* concurrency_class of a tool
    ClassLimit,         \* its concurrency_limit
    Attempts,           \* 1 + max_retries if retry_eligible, else 1
    Quota,              \* quota_per_request
    OutputBudget,       \* output_budget_bytes
    Sizes,              \* serialized sizes of what tools return
    ErrorSize,          \* serialized size of a structured_error
    MaxCalls, RequestConcurrency, GlobalConcurrency,
    TurnBudget, RequestBudget, TurnTokens, RequestTokens,
    Threshold           \* failure_threshold of the breaker

ASSUME ExecutorConstants ==
    /\ Plan \in [Requests -> Seq(Seq(Calls))]
    /\ ToolOf \in [Calls -> Tools]
    /\ ClassOf \in [Tools -> Classes]
    /\ \A f \in {ClassLimit, Attempts, Quota, OutputBudget} :
          f \in [Tools -> Nat \ {0}]
    /\ Sizes \subseteq Nat /\ ErrorSize \in Nat
    /\ {MaxCalls, RequestConcurrency, GlobalConcurrency, Threshold}
          \subseteq Nat \ {0}
    /\ {TurnBudget, RequestBudget, TurnTokens, RequestTokens} \subseteq Nat

\* A call is a place in what the model emits, so no two batches share one.
ASSUME EmittedOnce ==
    \A r, q \in Requests : \A b \in DOMAIN Plan[r], d \in DOMAIN Plan[q] :
        \A i \in DOMAIN Plan[r][b], j \in DOMAIN Plan[q][d] :
            Plan[r][b][i] = Plan[q][d][j] => r = q /\ b = d /\ i = j

VARIABLES
    phase,        \* request -> idle, gathering, disconnected, or how it ended
    batch,        \* request -> number of batches begun
    callsUsed, bytesUsed, tokensUsed,      \* per request: the counters
    toolCounts,   \* request -> tool -> calls counted against its quota
    semLimit,     \* request -> class -> limit of its semaphore, 0: not created
    pc,           \* call -> where its _execute_one is
    attempt,      \* call -> retries made
    result,       \* call -> [status, size] of its ToolResult
    classHeld, reqHeld, globalHeld,        \* calls that hold a permit
    failures, breaker                      \* tool -> _failures, _opened_at

executor == <<phase, batch, callsUsed, bytesUsed, tokensUsed, toolCounts, semLimit>>
held     == <<classHeld, reqHeld, globalHeld>>
circuit  == <<failures, breaker>>
vars     == <<executor, pc, attempt, result, held, circuit>>

Unfinished == {"created", "class", "request", "global", "run", "backoff"}
Statuses   == {"none", "success", "timeout", "internal_error", "unknown_tool",
               "quota_exceeded", "malformed_arguments", "unavailable",
               "budget_exceeded"}

Owner == [c \in Calls |->
             CHOOSE r \in Requests : \E b \in DOMAIN Plan[r] : c \in ToSet(Plan[r][b])]
RequestOf(c) == Owner[c]
ClassKey(c)  == ClassOf[ToolOf[c]]
SameRequest(H, c) == {d \in H : RequestOf(d) = RequestOf(c)}
SameClass(H, c)   == {d \in SameRequest(H, c) : ClassKey(d) = ClassKey(c)}

\* _estimated_tokens: four bytes to a token, at least one.
EstimatedTokens(size) == Max({1, (size + 3) \div 4})

\* Mutant: the "status" of the structured error is taken for the result's.
ErrorResultGeneric(s) == [status |-> "error", size |-> ErrorSize]

ErrorResult(s) == [status |-> s, size |-> ErrorSize]
NoResult       == [status |-> "none", size |-> 0]

TypeOK ==
    /\ phase \in [Requests -> {"idle", "gathering", "disconnected", "cancelled", "aborted"}]
    /\ \A f \in {batch, callsUsed, bytesUsed, tokensUsed} : f \in [Requests -> Nat]
    /\ toolCounts \in [Requests -> [Tools -> Nat]]
    /\ semLimit \in [Requests -> [Classes -> Nat]]
    /\ pc \in [Calls -> Unfinished \cup {"new", "rejected", "done", "cancelled"}]
    /\ attempt \in [Calls -> Nat]
    /\ result \in [Calls -> [status : Statuses, size : Nat]]
    /\ \A h \in {classHeld, reqHeld, globalHeld} : h \subseteq Calls
    /\ failures \in [Tools -> Nat]
    /\ breaker \in [Tools -> {"closed", "open", "elapsed"}]

Init ==
    /\ phase = [r \in Requests |-> "idle"]
    /\ batch = [r \in Requests |-> 0]
    /\ callsUsed = [r \in Requests |-> 0]
    /\ bytesUsed = [r \in Requests |-> 0]
    /\ tokensUsed = [r \in Requests |-> 0]
    /\ toolCounts = [r \in Requests |-> [t \in Tools |-> 0]]
    /\ semLimit = [r \in Requests |-> [k \in Classes |-> 0]]
    /\ pc = [c \in Calls |-> "new"]
    /\ attempt = [c \in Calls |-> 0]
    /\ result = [c \in Calls |-> NoResult]
    /\ classHeld = {} /\ reqHeld = {} /\ globalHeld = {}
    /\ failures = [t \in Tools |-> 0]
    /\ breaker = [t \in Tools |-> "closed"]

-----------------------------------------------------------------------------
(* execute_batch up to its gather: the calls beyond the cap are not run.   *)

Remaining(r) == IF callsUsed[r] < MaxCalls THEN MaxCalls - callsUsed[r] ELSE 0

StartBatch(r) ==
    /\ phase[r] = "idle" /\ batch[r] < Len(Plan[r])
    /\ batch' = [batch EXCEPT ![r] = @ + 1]
    /\ phase' = [phase EXCEPT ![r] = "gathering"]
    /\ LET calls    == Plan[r][batch[r] + 1]
           accepted == SubSeq(calls, 1, Min({Remaining(r), Len(calls)}))
       IN  pc' = [c \in Calls |-> IF c \in ToSet(accepted) THEN "created"
                                  ELSE IF c \in ToSet(calls) THEN "rejected"
                                  ELSE pc[c]]
    /\ UNCHANGED <<callsUsed, bytesUsed, tokensUsed, toolCounts, semLimit,
                   attempt, result, held, circuit>>

-----------------------------------------------------------------------------
(* CircuitBreaker.allow, success and failure, for an external tool t.      *)

Allowed(t) == breaker[t] # "open"

Allow(t) ==
    /\ Allowed(t)
    /\ breaker' = [breaker EXCEPT ![t] = "closed"]
    /\ failures' = [failures EXCEPT ![t] = IF breaker[t] = "elapsed" THEN 0 ELSE @]

BreakerSuccess(t) ==
    /\ failures' = [failures EXCEPT ![t] = 0]
    /\ breaker' = [breaker EXCEPT ![t] = "closed"]

\* The failures older than reset_seconds leave the window; k are recent.
BreakerFailure(t) ==
    \E k \in 0..failures[t] :
        /\ failures' = [failures EXCEPT ![t] = k + 1]
        /\ breaker' = [breaker EXCEPT ![t] = IF k + 1 >= Threshold THEN "open" ELSE @]

OnSuccess(t) == IF t \in External THEN BreakerSuccess(t) ELSE UNCHANGED circuit
OnFailure(t) == IF t \in External THEN BreakerFailure(t) ELSE UNCHANGED circuit

\* Time passes: reset_seconds after the last opening.
ResetElapses(t) ==
    /\ breaker[t] = "open"
    /\ breaker' = [breaker EXCEPT ![t] = "elapsed"]
    /\ UNCHANGED <<executor, pc, attempt, result, held, failures>>

-----------------------------------------------------------------------------
(* _execute_one up to its first await.                                     *)

Finish(c, res) ==
    /\ pc' = [pc EXCEPT ![c] = "done"]
    /\ result' = [result EXCEPT ![c] = res]

UnknownTool(c) ==
    /\ pc[c] = "created" /\ ToolOf[c] \in Unknown
    /\ Finish(c, ErrorResult("unknown_tool"))
    /\ UNCHANGED <<executor, attempt, held, circuit>>

\* setdefault: the first call of a class decides the limit of its semaphore.
ClassSemaphore(c) ==
    LET r == RequestOf(c)
        k == ClassKey(c)
    IN  semLimit' = [semLimit EXCEPT ![r][k] =
            IF @ = 0 THEN Min({RequestConcurrency, ClassLimit[ToolOf[c]]}) ELSE @]

\* Mutant: the quota counts the calls that have finished, not those begun.
WithinQuotaOfFinished(c) ==
    Cardinality({d \in Calls : /\ RequestOf(d) = RequestOf(c)
                               /\ ToolOf[d] = ToolOf[c]
                               /\ pc[d] = "done"}) < Quota[ToolOf[c]]

WithinQuota(c) == toolCounts[RequestOf(c)][ToolOf[c]] < Quota[ToolOf[c]]

OverQuota(c) ==
    /\ pc[c] = "created" /\ ToolOf[c] \notin Unknown
    /\ ~WithinQuota(c)
    /\ ClassSemaphore(c)
    /\ Finish(c, ErrorResult("quota_exceeded"))
    /\ UNCHANGED <<phase, batch, callsUsed, bytesUsed, tokensUsed, toolCounts,
                   attempt, held, circuit>>

Count(c) ==
    /\ pc[c] = "created" /\ ToolOf[c] \notin Unknown
    /\ WithinQuota(c)
    /\ ClassSemaphore(c)
    /\ toolCounts' = [toolCounts EXCEPT ![RequestOf(c)][ToolOf[c]] = @ + 1]
    /\ UNCHANGED <<phase, batch, callsUsed, bytesUsed, tokensUsed, attempt, held>>

MalformedArguments(c) ==
    /\ Count(c) /\ c \in Malformed
    /\ Finish(c, ErrorResult("malformed_arguments"))
    /\ UNCHANGED circuit

Unavailable(c) ==
    /\ Count(c) /\ c \notin Malformed
    /\ ToolOf[c] \in External /\ ~Allowed(ToolOf[c])
    /\ Finish(c, ErrorResult("unavailable"))
    /\ UNCHANGED circuit

Admit(c) ==
    /\ Count(c) /\ c \notin Malformed
    /\ IF ToolOf[c] \in External THEN Allow(ToolOf[c]) ELSE UNCHANGED circuit
    /\ pc' = [pc EXCEPT ![c] = "class"]
    /\ UNCHANGED result

-----------------------------------------------------------------------------
(* async with class_semaphore, semaphore, _GLOBAL_SEMAPHORE.               *)

AcquireClass(c) ==
    /\ pc[c] = "class"
    /\ Cardinality(SameClass(classHeld, c)) < semLimit[RequestOf(c)][ClassKey(c)]
    /\ classHeld' = classHeld \cup {c}
    /\ pc' = [pc EXCEPT ![c] = "request"]
    /\ UNCHANGED <<executor, attempt, result, reqHeld, globalHeld, circuit>>

AcquireRequest(c) ==
    /\ pc[c] = "request"
    /\ Cardinality(SameRequest(reqHeld, c)) < RequestConcurrency
    /\ reqHeld' = reqHeld \cup {c}
    /\ pc' = [pc EXCEPT ![c] = "global"]
    /\ UNCHANGED <<executor, attempt, result, classHeld, globalHeld, circuit>>

AcquireGlobal(c) ==
    /\ pc[c] = "global"
    /\ Cardinality(globalHeld) < GlobalConcurrency
    /\ globalHeld' = globalHeld \cup {c}
    /\ pc' = [pc EXCEPT ![c] = "run"]
    /\ UNCHANGED <<executor, attempt, result, classHeld, reqHeld, circuit>>

Release(c) ==
    /\ classHeld' = classHeld \ {c}
    /\ reqHeld' = reqHeld \ {c}
    /\ globalHeld' = globalHeld \ {c}

-----------------------------------------------------------------------------
(* The attempts, each under wait_for.  A cancellation of the request is    *)
(* delivered at the next step of each of its calls.                        *)

Running(c) == pc[c] = "run" /\ phase[RequestOf(c)] # "disconnected"

Success(c) ==
    /\ Running(c)
    /\ OnSuccess(ToolOf[c])
    /\ \E size \in Sizes :
          Finish(c, IF size > OutputBudget[ToolOf[c]]
                    THEN ErrorResult("budget_exceeded")
                    ELSE [status |-> "success", size |-> size])
    /\ Release(c)
    /\ UNCHANGED <<executor, attempt>>

RetryLater(c) ==
    /\ Running(c) /\ attempt[c] + 1 < Attempts[ToolOf[c]]
    /\ OnFailure(ToolOf[c])
    /\ pc' = [pc EXCEPT ![c] = "backoff"]
    /\ UNCHANGED <<executor, attempt, result, held>>

\* Mutant: a retried call enters the global semaphore again, holding it.
BackoffOverReacquiring(c) ==
    /\ pc[c] = "backoff" /\ phase[RequestOf(c)] # "disconnected"
    /\ Cardinality(globalHeld) < GlobalConcurrency
    /\ pc' = [pc EXCEPT ![c] = "run"]
    /\ attempt' = [attempt EXCEPT ![c] = @ + 1]
    /\ UNCHANGED <<executor, result, held, circuit>>

BackoffOver(c) ==
    /\ pc[c] = "backoff" /\ phase[RequestOf(c)] # "disconnected"
    /\ pc' = [pc EXCEPT ![c] = "run"]
    /\ attempt' = [attempt EXCEPT ![c] = @ + 1]
    /\ UNCHANGED <<executor, result, held, circuit>>

GiveUp(c) ==
    /\ Running(c) /\ attempt[c] + 1 = Attempts[ToolOf[c]]
    /\ OnFailure(ToolOf[c])
    /\ \E s \in {"timeout", "internal_error"} :
          Finish(c, IF ErrorSize > OutputBudget[ToolOf[c]]
                    THEN ErrorResult("budget_exceeded") ELSE ErrorResult(s))
    /\ Release(c)
    /\ UNCHANGED <<executor, attempt>>

\* The tool itself raises CancelledError: gather fails at once with it and
\* leaves the other calls of the batch to themselves.
CancelledInside(c) ==
    /\ Running(c)
    /\ pc' = [pc EXCEPT ![c] = "cancelled"]
    /\ Release(c)
    /\ phase' = [phase EXCEPT ![RequestOf(c)] = IF @ = "gathering" THEN "aborted" ELSE @]
    /\ UNCHANGED <<batch, callsUsed, bytesUsed, tokensUsed, toolCounts, semLimit,
                   attempt, result, circuit>>

-----------------------------------------------------------------------------
(* The request is cancelled while it awaits the gather.                    *)

BatchCalls(r) == ToSet(Plan[r][batch[r]])

Disconnect(r) ==
    /\ phase[r] = "gathering"
    /\ \E c \in BatchCalls(r) : pc[c] \in Unfinished
    /\ phase' = [phase EXCEPT ![r] = "disconnected"]
    /\ UNCHANGED <<batch, callsUsed, bytesUsed, tokensUsed, toolCounts, semLimit,
                   pc, attempt, result, held, circuit>>

CancelledCall(c) ==
    /\ phase[RequestOf(c)] = "disconnected" /\ pc[c] \in Unfinished
    /\ pc' = [pc EXCEPT ![c] = "cancelled"]
    /\ Release(c)
    /\ UNCHANGED <<executor, attempt, result, circuit>>

\* gather raises when the last of its children has ended.
RaiseCancelled(r) ==
    /\ phase[r] = "disconnected"
    /\ \A c \in BatchCalls(r) : pc[c] \notin Unfinished
    /\ phase' = [phase EXCEPT ![r] = "cancelled"]
    /\ UNCHANGED <<batch, callsUsed, bytesUsed, tokensUsed, toolCounts, semLimit,
                   pc, attempt, result, held, circuit>>

-----------------------------------------------------------------------------
(* The budgets, applied to the results in the order the model emitted the  *)
(* calls.  The error that replaces a result counts as well.                *)

\* Mutant: only the budgets of the request are looked at.
OverRequestBudget(r, u, size) ==
    \/ bytesUsed[r] + u.bytes + size > RequestBudget
    \/ tokensUsed[r] + u.tokens + EstimatedTokens(size) > RequestTokens

OverBudget(r, u, size) ==
    \/ u.bytes + size > TurnBudget
    \/ u.tokens + EstimatedTokens(size) > TurnTokens
    \/ bytesUsed[r] + u.bytes + size > RequestBudget
    \/ tokensUsed[r] + u.tokens + EstimatedTokens(size) > RequestTokens

OwnResult(c) == IF pc[c] = "rejected" THEN ErrorResult("quota_exceeded") ELSE result[c]

\* What c returns once u has been charged for the results before it.
FinalResult(r, u, c) ==
    IF OverBudget(r, u, OwnResult(c).size) THEN ErrorResult("budget_exceeded") ELSE OwnResult(c)

Charge(r, u, c) ==
    [bytes  |-> u.bytes + FinalResult(r, u, c).size,
     tokens |-> u.tokens + EstimatedTokens(FinalResult(r, u, c).size)]

\* What the turn has used after the first n results of the batch.
Turn(r) ==
    LET calls == Plan[r][batch[r]]
        used[n \in 0..Len(calls)] ==
            IF n = 0 THEN [bytes |-> 0, tokens |-> 0] ELSE Charge(r, used[n - 1], calls[n])
    IN  used

Returns(r) ==
    /\ phase[r] = "gathering"
    /\ \A c \in BatchCalls(r) : pc[c] \in {"done", "rejected"}
    /\ phase' = [phase EXCEPT ![r] = "idle"]

ReturnBatch(r) ==
    /\ Returns(r)
    /\ LET calls == Plan[r][batch[r]]
           used  == Turn(r)
           before(c) == used[(CHOOSE n \in 1..Len(calls) : calls[n] = c) - 1]
       IN  /\ bytesUsed' = [bytesUsed EXCEPT ![r] = @ + used[Len(calls)].bytes]
           /\ tokensUsed' = [tokensUsed EXCEPT ![r] = @ + used[Len(calls)].tokens]
           /\ result' = [c \in Calls |-> IF c \in BatchCalls(r)
                                         THEN FinalResult(r, before(c), c) ELSE result[c]]
    /\ callsUsed' = [callsUsed EXCEPT ![r] =
          @ + Cardinality({c \in BatchCalls(r) : pc[c] = "done"})]
    /\ UNCHANGED <<batch, toolCounts, semLimit, pc, attempt, held, circuit>>

-----------------------------------------------------------------------------
CallStep(c) ==
    \/ UnknownTool(c) \/ OverQuota(c) \/ MalformedArguments(c) \/ Unavailable(c)
    \/ Admit(c) \/ AcquireClass(c) \/ AcquireRequest(c) \/ AcquireGlobal(c)
    \/ Success(c) \/ RetryLater(c) \/ BackoffOver(c) \/ GiveUp(c)
    \/ CancelledInside(c) \/ CancelledCall(c)

Next ==
    \/ \E c \in Calls : CallStep(c)
    \/ \E r \in Requests : StartBatch(r) \/ Disconnect(r) \/ RaiseCancelled(r) \/ ReturnBatch(r)
    \/ \E t \in Tools : ResetElapses(t)

\* The event loop runs every ready coroutine, the semaphores are first-in
\* first-out, and wait_for bounds the time of a tool.  No request has to
\* emit a batch or to be cancelled, and no time has to pass.  (A step of a
\* call changes its pc, and Returns(r) is enabled exactly when ReturnBatch(r)
\* is and only that action takes it.)
Fairness ==
    /\ \A c \in Calls : WF_pc(CallStep(c))
    /\ \A r \in Requests : WF_phase(Returns(r)) /\ WF_phase(RaiseCancelled(r))

Spec == Init /\ [][Next]_vars

FairSpec == Spec /\ Fairness

-----------------------------------------------------------------------------
(* Properties.                                                             *)

Active(r) == {c \in Calls : RequestOf(c) = r /\ pc[c] \in {"run", "backoff"}}

\* The three concurrency limits hold for the calls that run or back off,
\* whatever was retried, timed out or cancelled before: per class the limit
\* its first tool asked for, per request and over all requests
\* (tool_executor.py, lines 253-255 and 300).
ConcurrencyBounded ==
    /\ Cardinality(UNION {Active(r) : r \in Requests}) <= GlobalConcurrency
    /\ \A r \in Requests :
          /\ Cardinality(Active(r)) <= RequestConcurrency
          /\ \A k \in Classes :
                Cardinality({c \in Active(r) : ClassKey(c) = k}) <= semLimit[r][k]

\* A call that has ended, in whatever way, holds no permit any more, so that
\* the process never runs out of them (async with, line 300).
PermitsReturned ==
    \A c \in classHeld \cup reqHeld \cup globalHeld : pc[c] \in Unfinished

InFlight == Unfinished \ {"created"}

\* Calls of r that have run, or that nothing but the semaphores keeps back.
LetThrough(r) ==
    {c \in Calls : /\ RequestOf(c) = r
                   /\ \/ pc[c] \in InFlight
                      \/ pc[c] = "done" /\ result[c].status \in
                                              {"success", "timeout", "internal_error"}}

\* Over all batches of a request, and with the calls of a batch started
\* concurrently, a tool is let through at most quota_per_request times
\* (lines 256-263) and the request runs at most max_calls calls (lines
\* 349-358).
CallsBounded ==
    \A r \in Requests :
        /\ Cardinality(LetThrough(r)) <= MaxCalls
        /\ \A t \in Tools :
              Cardinality({c \in LetThrough(r) : ToolOf[c] = t}) <= Quota[t]

SizeOf(S) == FoldSet(LAMBDA c, n : n + result[c].size, 0, S)
TokensOf(S) == FoldSet(LAMBDA c, n : n + EstimatedTokens(result[c].size), 0, S)

\* What the tools themselves return to the model stays within the budgets of
\* the turn and of the request; only the errors that replace a result can
\* push the counters beyond them, each by no more than its own size
\* (lines 371-395).
BudgetsHold ==
    \A r \in Requests :
        LET given(b) == {c \in ToSet(Plan[r][b]) : result[c].status # "none"}
            kept(b)  == {c \in given(b) : result[c].status # "budget_exceeded"}
            returned == IF phase[r] = "idle" THEN 1..batch[r] ELSE 1..(batch[r] - 1)
            all      == UNION {given(b) : b \in returned}
            allKept  == UNION {kept(b) : b \in returned}
        IN  /\ \A b \in returned : SizeOf(kept(b)) <= TurnBudget
                                   /\ TokensOf(kept(b)) <= TurnTokens
            /\ SizeOf(allKept) <= RequestBudget
            /\ TokensOf(allKept) <= RequestTokens
            /\ bytesUsed[r] = SizeOf(all)
            /\ bytesUsed[r] <= RequestBudget + ErrorSize * Cardinality(all \ allKept)

\* When execute_batch has raised because the request was cancelled, none of
\* its calls is left behind (lines 354-357; test_cancellation_propagates).
CancelledLeavesNothing ==
    \A r \in Requests : phase[r] = "cancelled" =>
        \A c \in BatchCalls(r) : pc[c] \notin Unfinished

\* No limit on concurrency or on the number of calls is passed, and what has
\* ended or was cancelled holds no permit and leaves nothing behind, however
\* the calls of the requests interleave.
WithinLimits ==
    ConcurrencyBounded /\ CallsBounded /\ PermitsReturned /\ CancelledLeavesNothing

\* No batch blocks for ever: the three semaphores are always taken in the
\* same order, every attempt times out and the attempts are bounded, so
\* each batch returns or raises, whatever the other requests do.
BatchEnds ==
    \A r \in Requests : phase[r] = "gathering" ~>
        phase[r] \in {"idle", "cancelled", "aborted"}
=============================================================================
