------------------------- MODULE TaskRegistryLocal -------------------------
(***************************************************************************)
(* The background-task registry of backend/openlaunch/tasks.py when no     *)
(* Redis is configured: everything lives in the two dictionaries `tasks`   *)
(* and `item_tasks` of one process, and every coroutine runs on one event  *)
(* loop.  An action is what runs between two suspensions of a coroutine.   *)
(*                                                                         *)
(* Two kinds of task are created in the code base: a "chat" task           *)
(* (process_chat, main.py), which deregisters itself in its finally block, *)
(* and a "save" task (debounced_save, socket/main.py), which only has the  *)
(* done callback every task gets.  Stoppers are the callers of stop_task   *)
(* and stop_item_tasks: HTTP endpoints and socket handlers.                *)
(***************************************************************************)
EXTENDS Naturals, Sequences, FiniteSets, SequencesExt

CONSTANTS Tasks,      \* task ids (uuid4), each used for one task
          Items,      \* chat and document ids
          Stoppers,   \* concurrent callers of stop_task / stop_item_tasks
          NoItem,     \* "no item": stop_task on a bare task id
          NoTask

ASSUME DistinctNone == NoItem \notin Items /\ NoTask \notin Tasks

VARIABLES
    state,       \* life cycle of each asyncio task
    kind,        \* "chat" or "save"
    item,        \* the item the task was created for
    tasks,       \* keys of the dictionary `tasks`
    item_tasks,  \* the lists of `item_tasks`; <<>> stands for a missing key
    cancelled,   \* tasks with a CancelledError to be thrown at their next step
    callbacks,   \* tasks whose done callback has not run cleanup_task yet
    stop         \* the stoppers

vars == <<state, kind, item, tasks, item_tasks, cancelled, callbacks, stop>>

Ended  == {"returned", "cancelled", "failed"}
States == {"new", "scheduled", "running", "finally", "emitting"} \cup Ended

\* A stopper.  `next` is the position of the for loop's list iterator, `live`
\* whether the list it iterates is still the one in item_tasks.
StopRecord == [pc     : {"idle", "loop", "await", "over"},
               item   : Items \cup {NoItem},
               next   : Nat \ {0},
               live   : BOOLEAN,
               task   : Tasks \cup {NoTask},
               result : {"none", "empty", "stopped", "not_found", "raised"}]

IdleStop == [pc |-> "idle", item |-> NoItem, next |-> 1, live |-> FALSE,
             task |-> NoTask, result |-> "none"]

Init ==
    /\ state = [t \in Tasks |-> "new"]
    /\ kind = [t \in Tasks |-> "chat"]
    /\ item = [t \in Tasks |-> NoItem]
    /\ tasks = {}
    /\ item_tasks = [i \in Items |-> <<>>]
    /\ cancelled = {}
    /\ callbacks = {}
    /\ stop = [s \in Stoppers |-> IdleStop]

\* A stopper inside its loop holds the event loop: nothing else runs until it
\* awaits a task or returns.
Yielded == \A s \in Stoppers : stop[s].pc # "loop"

-----------------------------------------------------------------------------
\* Mutant: the list of an item is overwritten instead of extended.
CreateTaskOverwriting(t, k, i) ==
    /\ state[t] = "new"
    /\ state' = [state EXCEPT ![t] = "scheduled"]
    /\ kind' = [kind EXCEPT ![t] = k]
    /\ item' = [item EXCEPT ![t] = i]
    /\ tasks' = tasks \cup {t}
    /\ item_tasks' = [item_tasks EXCEPT ![i] = <<t>>]
    /\ UNCHANGED <<cancelled, callbacks, stop>>

\* Mutant: the caller forgets id=..., and the task is filed under None.
CreateTaskWithoutId(t, k, i) ==
    /\ state[t] = "new"
    /\ state' = [state EXCEPT ![t] = "scheduled"]
    /\ kind' = [kind EXCEPT ![t] = k]
    /\ tasks' = tasks \cup {t}
    /\ item_tasks' = [j \in Items \cup {NoItem} |->
                         IF j = NoItem THEN <<t>> ELSE item_tasks[j]]
    /\ UNCHANGED <<item, cancelled, callbacks, stop>>

\* create_task: without Redis it never suspends, so the task is registered
\* (and metadata['task_id'] set by the caller) before its coroutine starts.
CreateTask(t, k, i) ==
    /\ state[t] = "new"
    /\ state' = [state EXCEPT ![t] = "scheduled"]
    /\ kind' = [kind EXCEPT ![t] = k]
    /\ item' = [item EXCEPT ![t] = i]
    /\ tasks' = tasks \cup {t}
    /\ item_tasks' = [item_tasks EXCEPT ![i] = Append(@, t)]
    /\ UNCHANGED <<cancelled, callbacks, stop>>

\* The first step of the coroutine.  A task cancelled before it never runs at
\* all: not even the finally block of process_chat.
StartTask(t) ==
    /\ state[t] = "scheduled"
    /\ IF t \in cancelled
       THEN /\ state' = [state EXCEPT ![t] = "cancelled"]
            /\ cancelled' = cancelled \ {t}
            /\ callbacks' = callbacks \cup {t}
       ELSE /\ state' = [state EXCEPT ![t] = "running"]
            /\ UNCHANGED <<cancelled, callbacks>>
    /\ UNCHANGED <<kind, item, tasks, item_tasks, stop>>

\* The end of the body.  A save task is then done: it returned, raised, or was
\* cancelled.  A chat task swallows its errors and goes to its finally block.
BodyEnds(t, how) ==
    /\ state[t] = "running"
    /\ (how = "cancelled") <=> (t \in cancelled)
    /\ cancelled' = cancelled \ {t}
    /\ IF kind[t] = "chat"
       THEN /\ how # "failed"
            /\ state' = [state EXCEPT ![t] = "finally"]
            /\ UNCHANGED callbacks
       ELSE /\ state' = [state EXCEPT ![t] = how]
            /\ callbacks' = callbacks \cup {t}
    /\ UNCHANGED <<kind, item, tasks, item_tasks, stop>>

\* item_tasks[id].remove(task_id), and the entry popped with its last task: a
\* stopper still iterating over that list keeps an empty list of its own.
RemoveFromItem(t) ==
    LET i    == item[t]
        rest == RemoveFirst(item_tasks[i], t)
    IN  /\ item_tasks' = [item_tasks EXCEPT ![i] = rest]
        /\ stop' = IF rest = <<>>
                   THEN [s \in Stoppers |-> IF stop[s].item = i
                                            THEN [stop[s] EXCEPT !.live = FALSE]
                                            ELSE stop[s]]
                   ELSE stop

\* cleanup_task.
Cleanup(t) ==
    /\ tasks' = tasks \ {t}
    /\ IF Contains(item_tasks[item[t]], t)
       THEN RemoveFromItem(t)
       ELSE UNCHANGED <<item_tasks, stop>>

\* The finally block of process_chat: deregister, then emit chat:active=false
\* if has_active_tasks finds no other task of the chat.  A cancellation arriving
\* here is swallowed around the MCP disconnects and the shielded emit; whether
\* the task counts as returned or cancelled makes no difference to a stopper.
ChatFinally(t, how) ==
    /\ state[t] = "finally"
    /\ Cleanup(t)
    /\ IF item_tasks'[item[t]] = <<>>
       THEN /\ state' = [state EXCEPT ![t] = "emitting"]
            /\ UNCHANGED <<cancelled, callbacks>>
       ELSE /\ state' = [state EXCEPT ![t] = how]
            /\ cancelled' = cancelled \ {t}
            /\ callbacks' = callbacks \cup {t}
    /\ UNCHANGED <<kind, item>>

ChatEmitted(t, how) ==
    /\ state[t] = "emitting"
    /\ state' = [state EXCEPT ![t] = how]
    /\ cancelled' = cancelled \ {t}
    /\ callbacks' = callbacks \cup {t}
    /\ UNCHANGED <<kind, item, tasks, item_tasks, stop>>

\* The done callback only schedules cleanup_task, so whoever awaited the task
\* when it ended is woken first.
CallbackCleanup(t) ==
    /\ t \in callbacks
    /\ \A s \in Stoppers : ~(stop[s].pc = "await" /\ stop[s].task = t)
    /\ callbacks' = callbacks \ {t}
    /\ Cleanup(t)
    /\ UNCHANGED <<state, kind, item, cancelled>>

-----------------------------------------------------------------------------
\* What becomes of a stopper when the task it stopped is over: an exception of
\* the task other than its cancellation leaves stop_task and stop_item_tasks.
AfterAwait(rec) ==
    IF state[rec.task] = "failed"
    THEN [rec EXCEPT !.pc = "over", !.result = "raised"]
    ELSE IF rec.item = NoItem
    THEN [rec EXCEPT !.pc = "over", !.result = "stopped"]
    ELSE [rec EXCEPT !.pc = "loop"]

\* Mutant: stop_task does not wait for the task it cancels.
PopAndCancelNoWait(s, t) ==
    LET rec == [stop[s] EXCEPT !.task = t, !.next = @ + 1]
    IN  /\ tasks' = tasks \ {t}
        /\ cancelled' = cancelled \cup ({t} \ {u \in Tasks : state[u] \in Ended})
        /\ stop' = [stop EXCEPT ![s] = AfterAwait(rec)]

\* Mutant: stop_task waits for the task without cancelling it.
PopNoCancel(s, t) ==
    LET rec == [stop[s] EXCEPT !.pc = "await", !.task = t, !.next = @ + 1]
    IN  /\ tasks' = tasks \ {t}
        /\ stop' = [stop EXCEPT ![s] = IF state[t] \in Ended THEN AfterAwait(rec) ELSE rec]
        /\ UNCHANGED cancelled

\* stop_task after its lookup: pop, cancel, await.  Awaiting a task that is
\* over does not suspend.
PopAndCancel(s, t) ==
    LET rec == [stop[s] EXCEPT !.pc = "await", !.task = t, !.next = @ + 1]
    IN  /\ tasks' = tasks \ {t}
        /\ IF state[t] \in Ended
           THEN /\ stop' = [stop EXCEPT ![s] = AfterAwait(rec)]
                /\ UNCHANGED cancelled
           ELSE /\ stop' = [stop EXCEPT ![s] = rec]
                /\ cancelled' = cancelled \cup {t}

Return(s, result) ==
    stop' = [stop EXCEPT ![s].pc = "over", ![s].result = result]

\* stop_task called on one task id (the stop endpoint).
StopTask(s, t) ==
    /\ stop[s].pc = "idle"
    /\ IF t \in tasks
       THEN PopAndCancel(s, t)
       ELSE Return(s, "not_found") /\ UNCHANGED <<tasks, cancelled>>
    /\ UNCHANGED <<state, kind, item, item_tasks, callbacks>>

\* stop_item_tasks: list_task_ids_by_item_id hands out the list itself.
StopItemTasks(s, i) ==
    /\ stop[s].pc = "idle"
    /\ stop' = [stop EXCEPT ![s] =
          IF item_tasks[i] = <<>>
          THEN [IdleStop EXCEPT !.pc = "over", !.item = i, !.result = "empty"]
          ELSE [IdleStop EXCEPT !.pc = "loop", !.item = i, !.live = TRUE]]
    /\ UNCHANGED <<state, kind, item, tasks, item_tasks, cancelled, callbacks>>

\* One round of `for task_id in task_ids`.
StopLoop(s) ==
    LET list == IF stop[s].live THEN item_tasks[stop[s].item] ELSE <<>>
    IN  /\ stop[s].pc = "loop"
        /\ IF stop[s].next > Len(list)
           THEN Return(s, "stopped") /\ UNCHANGED <<tasks, cancelled>>
           ELSE IF list[stop[s].next] \in tasks
           THEN PopAndCancel(s, list[stop[s].next])
           ELSE Return(s, "not_found") /\ UNCHANGED <<tasks, cancelled>>
        /\ UNCHANGED <<state, kind, item, item_tasks, callbacks>>

\* `await task` comes back.
StopAwaited(s) ==
    /\ stop[s].pc = "await"
    /\ state[stop[s].task] \in Ended
    /\ stop' = [stop EXCEPT ![s] = AfterAwait(@)]
    /\ UNCHANGED <<state, kind, item, tasks, item_tasks, cancelled, callbacks>>

-----------------------------------------------------------------------------
\* Every task is over and every stopper has returned.
AllOver ==
    /\ \A t \in Tasks : state[t] \in Ended
    /\ callbacks = {}
    /\ \A s \in Stoppers : stop[s].pc = "over"

Next ==
    \/ \E s \in Stoppers : StopLoop(s)
    \/ /\ Yielded
       /\ \/ \E t \in Tasks, k \in {"chat", "save"}, i \in Items : CreateTask(t, k, i)
          \/ \E t \in Tasks :
                \/ StartTask(t)
                \/ \E how \in Ended : BodyEnds(t, how)
                \/ \E how \in {"returned", "cancelled"} :
                      ChatFinally(t, how) \/ ChatEmitted(t, how)
                \/ CallbackCleanup(t)
          \/ \E s \in Stoppers :
                \/ \E t \in Tasks : state[t] # "new" /\ StopTask(s, t)
                \/ \E i \in Items : StopItemTasks(s, i)
                \/ StopAwaited(s)
    \/ AllOver /\ UNCHANGED vars

\* The event loop runs every ready step.  A body is only bound to end when it
\* has been cancelled: an answer may otherwise stream for ever.
Fairness ==
    /\ \A t \in Tasks :
          /\ WF_vars(Yielded /\ StartTask(t))
          /\ WF_vars(Yielded /\ BodyEnds(t, "cancelled"))
          /\ WF_vars(Yielded /\ \E how \in {"returned", "cancelled"} :
                        ChatFinally(t, how) \/ ChatEmitted(t, how))
          /\ WF_vars(Yielded /\ CallbackCleanup(t))
    /\ \A s \in Stoppers : WF_vars(StopLoop(s) \/ (Yielded /\ StopAwaited(s)))

Spec == Init /\ [][Next]_vars /\ Fairness

-----------------------------------------------------------------------------
TypeOK ==
    /\ state \in [Tasks -> States]
    /\ kind \in [Tasks -> {"chat", "save"}]
    /\ item \in [Tasks -> Items \cup {NoItem}]
    /\ tasks \subseteq Tasks
    /\ DOMAIN item_tasks = Items
    /\ \A i \in Items : ToSet(item_tasks[i]) \subseteq Tasks
    /\ cancelled \subseteq Tasks
    /\ callbacks \subseteq Tasks
    /\ DOMAIN stop = Stoppers
    /\ \A s \in Stoppers : stop[s] \in StopRecord

\* A task that has not ended yet and is not in its finally block is listed
\* exactly once, under its own item, whatever other tasks of the item were
\* created, stopped or cleaned up in between: has_active_tasks never misses it.
LiveTasksAreListed ==
    \A t \in Tasks : state[t] \in {"scheduled", "running"} =>
        \A i \in Items :
            Cardinality({n \in DOMAIN item_tasks[i] : item_tasks[i][n] = t})
                = (IF i = item[t] THEN 1 ELSE 0)

\* Only a stop call takes a live task out of `tasks`, and that call then waits
\* for it: no live task is ever beyond the reach of a stop without one under way.
UnreachableOnlyWhileStopping ==
    \A t \in Tasks : state[t] \in {"scheduled", "running"} /\ t \notin tasks =>
        \E s \in Stoppers : stop[s].pc = "await" /\ stop[s].task = t

\* Both: whatever runs is listed, and a stop can reach it (tasks.py:112-195).
LiveTasksAreReachable == LiveTasksAreListed /\ UnreachableOnlyWhileStopping

\* A stop_task that reports success has waited for its task to be over.
StoppedMeansEnded ==
    \A s \in Stoppers :
        stop[s].result = "stopped" /\ stop[s].task # NoTask
            => state[stop[s].task] \in Ended

\* Once every task is over and every callback has run, both dictionaries are
\* empty again: neither races nor double cleanups leak an entry.
NoLeak ==
    (\A t \in Tasks : state[t] \in Ended \cup {"new"}) /\ callbacks = {}
        => tasks = {} /\ \A i \in Items : item_tasks[i] = <<>>

\* The two dictionaries hold what they should: no live task is missing, or out
\* of reach, at any time, and no entry is left in the end (tasks.py:36-195).
TasksAreTracked == LiveTasksAreReachable /\ NoLeak

\* Every stop call returns: the task it cancelled ends, and two stoppers never
\* wait for one another.
StopReturns ==
    \A s \in Stoppers : stop[s].pc # "idle" ~> stop[s].pc = "over"
=============================================================================
