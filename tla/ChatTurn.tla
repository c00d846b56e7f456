------------------------------ MODULE ChatTurn ------------------------------
(***************************************************************************)
(* One answer of a chat, from the request to the last save: the streaming  *)
(* handler of utils/middleware.py and the try/except of process_chat in    *)
(* main.py around it.  A model streams texts and tool calls; the calls are *)
(* run and the model is asked again, with their results; and so on.  While *)
(* a later response streams, what came before it is put aside in prior.    *)
(* The answer may be cut by a failure or by a cancellation at any await,   *)
(* and the user may let the model continue it.                             *)
(*                                                                         *)
(* An item is <<kind, n>>; a result has the number of its call.  Empty     *)
(* message items, which carry nothing, and the code interpreter are left   *)
(* out, and a stream shows each delta as it comes.                         *)
(***************************************************************************)
EXTENDS Selection, Functions

CONSTANTS MaxItems,        \* bound: texts and calls the models produce
          MaxIterations,   \* CHAT_RESPONSE_MAX_TOOL_CALL_ITERATIONS
          MaxTurns         \* bound: the answer is begun or continued

VARIABLES realtime,     \* ENABLE_REALTIME_CHAT_SAVE
          dialect,      \* the provider's API: "chat" completions or "responses"
          phase,        \* where the handler is
          output,       \* items of the current response, later of all
          prior,        \* items before the current response
          pending,      \* calls of the stream that are not in output yet
          queue,        \* calls to run
          iterations,   \* tool call rounds of this turn
          shown,        \* items the client has been shown in this turn
          saved,        \* the output stored with the message
          marked,       \* has this turn stored "done" or "error"?
          cut,          \* how this turn was disturbed
          ran,          \* call -> times it was started
          stale,        \* calls without result that a turn found when it began
          items,        \* items produced so far
          turns         \* turns begun

vars == <<realtime, dialect, phase, output, prior, pending, queue, iterations, shown, saved,
          marked, cut, ran, stale, items, turns>>

Item(kind, n) == <<kind, n>>

HasResult(call, seq) == Item("result", call[2]) \in Range(seq)
OpenCalls(seq, where) == {i \in Range(seq) : i[1] = "call" /\ ~HasResult(i, where)}
Unhandled(seq, where) == Select(seq, OpenCalls(seq, where))

Full == prior \o output

Init ==
    /\ realtime \in BOOLEAN /\ dialect \in {"chat", "responses"}
    /\ phase = "idle"
    /\ output = <<>> /\ prior = <<>> /\ pending = <<>> /\ queue = <<>>
    /\ iterations = 0
    /\ shown = {} /\ saved = <<>>
    /\ marked = "none" /\ cut = "no"
    /\ ran = [n \in 1 .. MaxItems |-> 0] /\ stale = {}
    /\ items = 0 /\ turns = 0

setup == <<realtime, dialect>>
calls == <<ran, stale>>

-----------------------------------------------------------------------------
\* The request is prepared: process_chat_payload and the first completion.
Begin ==
    /\ phase \in {"idle", "ended"}
    /\ turns < MaxTurns
    /\ turns' = turns + 1
    /\ phase' = "payload"
    /\ output' = <<>> /\ prior' = <<>> /\ pending' = <<>> /\ queue' = <<>>
    /\ iterations' = 0
    /\ marked' = "none" /\ cut' = "no"
    /\ UNCHANGED <<setup, shown, saved, calls, items>>

\* The handler starts from the output the message has: the turn may continue it.
Open ==
    /\ phase = "payload"
    /\ phase' = "stream"
    /\ output' = saved /\ shown' = Range(saved)
    /\ stale' = stale \cup OpenCalls(saved, saved)
    /\ UNCHANGED <<setup, prior, pending, queue, iterations, saved, marked, cut, ran, items, turns>>

\* A delta of text.  In realtime the whole output is saved with it, for one dialect.
Text ==
    /\ phase = "stream"
    /\ items < MaxItems
    /\ items' = items + 1
    /\ output' = Append(output, Item("text", items'))
    /\ shown' = shown \cup {Item("text", items')}
    /\ saved' = IF realtime /\ dialect = "chat" THEN prior \o output' ELSE saved
    /\ UNCHANGED <<setup, phase, prior, pending, queue, iterations, marked, cut, calls, turns>>

\* A tool call: shown at once, and an item of the output in one dialect only.
CallItem ==
    /\ phase = "stream"
    /\ items < MaxItems
    /\ items' = items + 1
    /\ LET call == Item("call", items')
       IN IF dialect = "chat"
          THEN pending' = Append(pending, call) /\ UNCHANGED output
          ELSE output' = Append(output, call) /\ UNCHANGED pending
    /\ shown' = shown \cup {Item("call", items')}
    /\ UNCHANGED <<setup, phase, prior, queue, iterations, saved, marked, cut, calls, turns>>

\* The provider reports an error within the stream, which goes on.
ErrorEvent ==
    /\ phase = "stream"
    /\ marked' = "error" /\ cut' = IF cut = "no" THEN "error" ELSE cut
    /\ UNCHANGED <<setup, phase, output, prior, pending, queue, iterations, shown, saved, calls,
                   items, turns>>

\* The calls the end of a stream finds: those streamed, or those of the output
\* without a result.
Found == IF pending # <<>> THEN pending ELSE Unhandled(output, Full)

EndStream ==
    /\ phase = "stream"
    /\ phase' = "loop"
    /\ queue' = IF Found = <<>> THEN queue ELSE Append(queue, Found)
    /\ output' = Full /\ prior' = <<>> /\ pending' = <<>>
    /\ UNCHANGED <<setup, iterations, shown, saved, marked, cut, calls, items, turns>>

\* The calls of a response are listed in the output and given to the executor.
RunTools ==
    /\ phase = "loop"
    /\ queue # <<>> /\ iterations < MaxIterations
    /\ iterations' = iterations + 1
    /\ queue' = Tail(queue)
    /\ pending' = Head(queue)
    /\ output' = output \o Select(Head(queue), Range(Head(queue)) \ Range(output))
    /\ ran' = [n \in DOMAIN ran |->
                IF Item("call", n) \in Range(Head(queue)) THEN ran[n] + 1 ELSE ran[n]]
    /\ phase' = "tools"
    /\ UNCHANGED <<setup, prior, shown, saved, marked, cut, stale, items, turns>>

\* Mutant: only the first of the calls gets a result.
FirstOnly(batch) == <<Item("result", batch[1][2])>>

Results(batch) == [i \in 1 .. Len(batch) |-> Item("result", batch[i][2])]

\* Their results, one for each, whatever became of the call.
ToolsDone ==
    /\ phase = "tools"
    /\ phase' = "ask"
    /\ output' = output \o Results(pending)
    /\ shown' = shown \cup Range(Results(pending))
    /\ pending' = <<>>
    /\ UNCHANGED <<setup, prior, queue, iterations, saved, marked, cut, calls, items, turns>>

\* Mutant: the later response is appended to what there is, and prior kept.
AskKeeping(answers) ==
    /\ phase = "ask"
    /\ IF answers
       THEN phase' = "stream" /\ prior' = output /\ UNCHANGED <<output, cut>>
       ELSE phase' = "finish" /\ cut' = "silently" /\ UNCHANGED <<prior, output>>
    /\ UNCHANGED <<setup, pending, queue, iterations, shown, saved, marked, calls, items, turns>>

\* The model is asked again.  If that fails, or no stream comes back, nobody is told.
Ask(answers) ==
    /\ phase = "ask"
    /\ IF answers
       THEN phase' = "stream" /\ prior' = output /\ output' = <<>> /\ UNCHANGED cut
       ELSE phase' = "finish" /\ cut' = "silently" /\ UNCHANGED <<prior, output>>
    /\ UNCHANGED <<setup, pending, queue, iterations, shown, saved, marked, calls, items, turns>>

\* A later stream breaks: the exception ends the loop, with prior still aside.
StreamBreaks ==
    /\ phase = "stream" /\ iterations > 0
    /\ phase' = "finish" /\ cut' = "silently"
    /\ pending' = <<>>
    /\ UNCHANGED <<setup, output, prior, queue, iterations, shown, saved, marked, calls, items,
                   turns>>

\* No calls are left, or the limit of rounds is reached, which is an error.
LoopEnds ==
    /\ phase = "loop"
    /\ queue = <<>> \/ iterations >= MaxIterations
    /\ marked' = IF queue # <<>> THEN "error" ELSE marked
    /\ cut' = IF queue # <<>> THEN "limit" ELSE cut
    /\ phase' = "finish"
    /\ UNCHANGED <<setup, output, prior, pending, queue, iterations, shown, saved, calls, items,
                   turns>>

\* The last save, and the last event; the outlet filters come after it.
Finish ==
    /\ phase = "finish"
    /\ phase' = "after"
    /\ saved' = IF realtime THEN saved ELSE output
    /\ marked' = IF marked = "error" THEN marked ELSE "done"
    /\ UNCHANGED <<setup, output, prior, pending, queue, iterations, shown, cut, calls, items,
                   turns>>

\* Outlet filters, title, tags and follow-ups; their failures are swallowed.
After ==
    /\ phase = "after"
    /\ phase' = "ended"
    /\ UNCHANGED <<setup, output, prior, pending, queue, iterations, shown, saved, marked, cut,
                   calls, items, turns>>

\* An exception outside the loop's try: process_chat stores the error, and no output.
Raise ==
    /\ \/ phase \in {"payload", "tools"}
       \/ phase = "stream" /\ iterations = 0
    /\ phase' = "ended"
    /\ marked' = "error" /\ cut' = "error"
    /\ UNCHANGED <<setup, output, prior, pending, queue, iterations, shown, saved, calls, items,
                   turns>>

\* The task is cancelled at an await.  Before the handler has begun nothing is stored.
Cancel ==
    /\ phase \notin {"idle", "ended"}
    /\ phase' = "ended"
    /\ cut' = IF phase = "payload" THEN "early" ELSE "cancelled"
    /\ IF phase = "payload" THEN UNCHANGED <<saved, marked>>
       ELSE /\ saved' = IF realtime THEN saved ELSE output
            /\ marked' = IF marked = "error" THEN marked ELSE "done"
    /\ UNCHANGED <<setup, output, prior, pending, queue, iterations, shown, calls, items, turns>>

Next ==
    \/ Begin \/ Open \/ Text \/ CallItem \/ ErrorEvent \/ EndStream
    \/ RunTools \/ ToolsDone \/ \E answers \in BOOLEAN : Ask(answers)
    \/ StreamBreaks \/ LoopEnds \/ Finish \/ After \/ Raise \/ Cancel

Spec == Init /\ [][Next]_vars

-----------------------------------------------------------------------------
(* Properties. *)

ItemSet == {"text", "call", "result"} \X (1 .. MaxItems)

TypeOK ==
    /\ realtime \in BOOLEAN /\ dialect \in {"chat", "responses"}
    /\ phase \in {"idle", "payload", "stream", "loop", "tools", "ask", "finish", "after", "ended"}
    /\ \A seq \in {output, prior, pending, saved} : Range(seq) \subseteq ItemSet
    /\ shown \subseteq ItemSet
    /\ \A seq \in {output, saved} : IsInjective(seq)
    /\ iterations \in 0 .. MaxIterations /\ Len(queue) <= 1
    /\ marked \in {"none", "done", "error"}

\* Each request carries a result for each call it lists, but for calls that a
\* turn that was cut left in the answer it continues: a provider rejects such
\* a request (middleware.py:4888-4913, 5010-5030).
RequestsComplete == phase = "ask" => OpenCalls(output, output) \subseteq stale

\* A call is started again only by a turn that continues an answer that was
\* cut before it had a result (middleware.py:4665-4681).
RanOnce == \A n \in DOMAIN ran : ran[n] <= 1 \/ Item("call", n) \in stale

\* A turn that nothing disturbs stores all it has shown (middleware.py:5299-5310).
QuietTurnIsSaved ==
    phase = "ended" /\ cut = "no" /\ ~realtime => Range(saved) = shown

\* Saving in realtime, no text is lost, however the turn ends: not even those
\* of earlier responses when a later one breaks (middleware.py:4598-4608).
RealtimeKeepsText ==
    phase = "ended" /\ realtime /\ dialect = "chat" =>
        {i \in shown : i[1] = "text"} \subseteq Range(saved)

\* No answer is left open, whatever cuts the turn, once the handler has begun
\* (middleware.py:5365-5390, main.py:1530-1545).
TurnIsClosed == phase = "ended" => marked # "none" \/ cut = "early"

\* What a turn owes the chat it answers: requests a provider accepts, no call
\* run twice, and an answer that is stored and closed.
TurnIsKept ==
    RequestsComplete /\ RanOnce /\ QuietTurnIsSaved /\ RealtimeKeepsText /\ TurnIsClosed
=============================================================================
