------------------------- MODULE TaskRegistryRedis -------------------------
(***************************************************************************)
(* The background-task registry of backend/openlaunch/tasks.py when Redis  *)
(* is configured and several server instances share it, together with the  *)
(* chat-completion fan-out of main.py that is its main user.               *)
(*                                                                         *)
(* Redis holds the hash REDIS_TASKS_KEY (task id to item id) and one set   *)
(* REDIS_ITEM_TASKS_KEY:<item> per item; a pipeline is one MULTI/EXEC and  *)
(* so one step, every other command is a step of its own, and coroutines   *)
(* of all instances interleave between them.  Stop commands travel over    *)
(* pub/sub to the listener of every running instance.                      *)
(***************************************************************************)
EXTENDS Naturals, FiniteSets

CONSTANTS Tasks,       \* task ids (uuid4), each used for one task
          Items,       \* chat ids
          Instances,   \* server processes
          Requests,    \* chat-completion requests, each a fan-out of tasks
          Stoppers,    \* calls of stop_task / stop_item_tasks
          NoItem, NoTask, NoInst,
          MaxCrashes   \* bound on instance crashes

ASSUME ConstantsAssumption ==
    /\ NoItem \notin Items
    /\ NoTask \notin Tasks
    /\ NoInst \notin Instances
    /\ MaxCrashes \in Nat

VARIABLES
    rtasks,     \* fields of the Redis hash of tasks; the value is item[t]
    ritem,      \* the Redis set of task ids of each item; {} is a missing key
    inbox,      \* stop commands published and not yet handled, per instance
    state,      \* life cycle of the asyncio task
    owner, item,\* where the task runs and what it was created for
    local,      \* keys of the owner's `tasks` (item_tasks moves in step with it
                \* and is never read in this mode)
    known,      \* tasks whose metadata['task_id'] has been set by the request
    cancelled,  \* tasks with a CancelledError to be thrown at their next step
    final,      \* progress of process_chat's finally block
    callback,   \* progress of the done callback's cleanup_task
    req,        \* the requests
    stop,       \* the stop calls
    active,     \* last chat:active event emitted for an item
    up, crashes \* running instances, crashes so far

redisVars == <<rtasks, ritem>>
taskVars  == <<state, owner, item, local, known, cancelled, final, callback>>
vars == <<redisVars, inbox, taskVars, req, stop, active, up, crashes>>

CleanupPcs  == {"pipe", "scard", "del", "local"}
FinalPcs    == {"none", "over", "check", "emit"} \cup CleanupPcs
CallbackPcs == {"none", "over"} \cup CleanupPcs

ReqRecord  == [pc   : {"idle", "saving", "saved", "emit", "over"},
               inst : Instances \cup {NoInst},
               item : Items \cup {NoItem},
               task : Tasks \cup {NoTask}]
StopRecord == [pc   : {"idle", "hget", "publish", "pipe", "scard", "del", "over", "dead"},
               inst : Instances \cup {NoInst},
               task : Tasks \cup {NoTask},
               item : Items \cup {NoItem},
               todo : SUBSET Tasks]

Init ==
    /\ rtasks = {}
    /\ ritem = [i \in Items |-> {}]
    /\ inbox = [n \in Instances |-> {}]
    /\ state = [t \in Tasks |-> "new"]
    /\ owner = [t \in Tasks |-> NoInst]
    /\ item = [t \in Tasks |-> NoItem]
    /\ local = {}
    /\ known = {}
    /\ cancelled = {}
    /\ final = [t \in Tasks |-> "none"]
    /\ callback = [t \in Tasks |-> "none"]
    /\ req = [r \in Requests |-> [pc |-> "idle", inst |-> NoInst,
                                  item |-> NoItem, task |-> NoTask]]
    /\ stop = [s \in Stoppers |-> [pc |-> "idle", inst |-> NoInst, task |-> NoTask,
                                   item |-> NoItem, todo |-> {}]]
    /\ active = [i \in Items |-> "none"]
    /\ up = Instances
    /\ crashes = 0

-----------------------------------------------------------------------------
(* create_task and the fan-out loop of a request.                          *)

\* create_task up to its await: the coroutine is scheduled (and will have
\* started before the save returns), the local dictionaries are filled.
CreateTask(r, n, i, t) ==
    /\ state[t] = "new"
    /\ state' = [state EXCEPT ![t] = "running"]
    /\ owner' = [owner EXCEPT ![t] = n]
    /\ item' = [item EXCEPT ![t] = i]
    /\ local' = local \cup {t}
    /\ req' = [req EXCEPT ![r] = [pc |-> "saving", inst |-> n, item |-> i, task |-> t]]

StartRequest(r, n, i, t) ==
    /\ req[r].pc = "idle"
    /\ n \in up
    /\ CreateTask(r, n, i, t)
    /\ UNCHANGED <<redisVars, inbox, known, cancelled, final, callback, stop,
                   active, up, crashes>>

\* Mutant: the task is filed under the empty item id.
RedisSaveTaskNoItem(r) ==
    LET t == req[r].task
    IN  /\ req[r].pc = "saving"
        /\ rtasks' = rtasks \cup {t}
        /\ ritem' = [i \in Items \cup {NoItem} |-> IF i = NoItem THEN {t} ELSE ritem[i]]
        /\ req' = [req EXCEPT ![r].pc = "saved"]
        /\ UNCHANGED <<inbox, taskVars, stop, active, up, crashes>>

\* redis_save_task: HSET and SADD in one pipeline.
RedisSaveTask(r) ==
    LET t == req[r].task
    IN  /\ req[r].pc = "saving"
        /\ rtasks' = rtasks \cup {t}
        /\ ritem' = [ritem EXCEPT ![req[r].item] = @ \cup {t}]
        /\ req' = [req EXCEPT ![r].pc = "saved"]
        /\ UNCHANGED <<inbox, taskVars, stop, active, up, crashes>>

\* create_task returns; the task learns its id, and the loop goes on with the
\* next model or ends.
NextModel(r, t) ==
    /\ req[r].pc = "saved"
    /\ known' = known \cup {req[r].task}
    /\ CreateTask(r, req[r].inst, req[r].item, t)
    /\ UNCHANGED <<redisVars, inbox, cancelled, final, callback, stop, active, up, crashes>>

LastModel(r) ==
    /\ req[r].pc = "saved"
    /\ known' = known \cup {req[r].task}
    /\ req' = [req EXCEPT ![r].pc = "emit"]
    /\ UNCHANGED <<redisVars, inbox, state, owner, item, local, cancelled, final,
                   callback, stop, active, up, crashes>>

EmitActive(r) ==
    /\ req[r].pc = "emit"
    /\ req' = [req EXCEPT ![r].pc = "over"]
    /\ active' = [active EXCEPT ![req[r].item] = "true"]
    /\ UNCHANGED <<redisVars, inbox, taskVars, stop, up, crashes>>

-----------------------------------------------------------------------------
(* redis_cleanup_task, the part shared by its three callers.  `i` is the   *)
(* item id it is given, NoItem for none; `next` is where it stands after.  *)

\* Mutant: the pipeline lacks the SREM.
RedisCleanupNoSrem(pc, t, i, next) ==
    \/ /\ pc = "pipe"
       /\ rtasks' = rtasks \ {t}
       /\ next = IF i = NoItem THEN "local" ELSE "scard"
       /\ UNCHANGED ritem
    \/ /\ pc = "scard"
       /\ next = IF ritem[i] = {} THEN "del" ELSE "local"
       /\ UNCHANGED redisVars
    \/ /\ pc = "del"
       /\ ritem' = [ritem EXCEPT ![i] = {}]
       /\ next = "local"
       /\ UNCHANGED rtasks

\* Mutant: the pipeline lacks the HDEL.
RedisCleanupNoHdel(pc, t, i, next) ==
    /\ UNCHANGED rtasks
    /\ \/ /\ pc = "pipe"
          /\ ritem' = IF i = NoItem THEN ritem ELSE [ritem EXCEPT ![i] = @ \ {t}]
          /\ next = IF i = NoItem THEN "local" ELSE "scard"
       \/ /\ pc = "scard"
          /\ next = IF ritem[i] = {} THEN "del" ELSE "local"
          /\ UNCHANGED ritem
       \/ /\ pc = "del"
          /\ ritem' = [ritem EXCEPT ![i] = {}]
          /\ next = "local"

RedisCleanup(pc, t, i, next) ==
    \/ /\ pc = "pipe"
       /\ rtasks' = rtasks \ {t}
       /\ ritem' = IF i = NoItem THEN ritem ELSE [ritem EXCEPT ![i] = @ \ {t}]
       /\ next = IF i = NoItem THEN "local" ELSE "scard"
    \/ /\ pc = "scard"
       /\ next = IF ritem[i] = {} THEN "del" ELSE "local"
       /\ UNCHANGED redisVars
    \/ /\ pc = "del"
       /\ ritem' = [ritem EXCEPT ![i] = {}]
       /\ next = "local"
       /\ UNCHANGED rtasks

-----------------------------------------------------------------------------
(* The life of a task: body, finally block of process_chat, done callback. *)

Running(t) == state[t] \in {"running", "finally"}

\* The body returns, fails or is cancelled; process_chat handles each and
\* reaches its finally block.
BodyEnds(t) ==
    /\ state[t] = "running"
    /\ state' = [state EXCEPT ![t] = "finally"]
    /\ cancelled' = cancelled \ {t}
    /\ UNCHANGED <<redisVars, inbox, owner, item, local, known, final, callback,
                   req, stop, active, up, crashes>>

\* The task is done: its callback starts cleanup_task.
TaskDone(t) ==
    /\ state' = [state EXCEPT ![t] = "done"]
    /\ final' = [final EXCEPT ![t] = "over"]
    /\ callback' = [callback EXCEPT ![t] = "pipe"]
    /\ cancelled' = cancelled \ {t}

\* After the MCP disconnects, where a cancellation is swallowed: cleanup_task
\* only if metadata['task_id'] is set by now.
FinallyBegins(t) ==
    /\ state[t] = "finally"
    /\ final[t] = "none"
    /\ IF t \in known
       THEN /\ final' = [final EXCEPT ![t] = "pipe"]
            /\ cancelled' = cancelled \ {t}
            /\ UNCHANGED <<state, callback>>
       ELSE TaskDone(t)
    /\ UNCHANGED <<redisVars, inbox, owner, item, local, known, req, stop, active,
                   up, crashes>>

FinallyCleanup(t) ==
    /\ state[t] = "finally"
    /\ \E next \in CleanupPcs :
          /\ RedisCleanup(final[t], t, item[t], next)
          /\ final' = [final EXCEPT ![t] = next]
    /\ UNCHANGED <<inbox, state, owner, item, local, known, cancelled, callback,
                   req, stop, active, up, crashes>>

FinallyPop(t) ==
    /\ state[t] = "finally"
    /\ final[t] = "local"
    /\ local' = local \ {t}
    /\ final' = [final EXCEPT ![t] = "check"]
    /\ UNCHANGED <<redisVars, inbox, state, owner, item, known, cancelled, callback,
                   req, stop, active, up, crashes>>

\* has_active_tasks.
FinallyCheck(t) ==
    /\ state[t] = "finally"
    /\ final[t] = "check"
    /\ IF ritem[item[t]] = {}
       THEN /\ final' = [final EXCEPT ![t] = "emit"]
            /\ UNCHANGED <<state, callback, cancelled>>
       ELSE TaskDone(t)
    /\ UNCHANGED <<redisVars, inbox, owner, item, local, known, req, stop, active,
                   up, crashes>>

\* chat:active=false; the shielded emit survives a cancellation.
FinallyEmit(t) ==
    /\ state[t] = "finally"
    /\ final[t] = "emit"
    /\ active' = [active EXCEPT ![item[t]] = "false"]
    /\ TaskDone(t)
    /\ UNCHANGED <<redisVars, inbox, owner, item, local, known, req, stop, up, crashes>>

\* A cancellation during the cleanup leaves the finally block: CancelledError
\* is not an Exception.
FinallyCancelled(t) ==
    /\ state[t] = "finally"
    /\ final[t] \in CleanupPcs \cup {"check"}
    /\ t \in cancelled
    /\ TaskDone(t)
    /\ UNCHANGED <<redisVars, inbox, owner, item, local, known, req, stop, active,
                   up, crashes>>

\* Mutant: the done callback only pops the local dictionaries.
CallbackLocalOnly(t) ==
    /\ callback[t] = "pipe"
    /\ callback' = [callback EXCEPT ![t] = "local"]
    /\ UNCHANGED <<redisVars, inbox, state, owner, item, local, known, cancelled,
                   final, req, stop, active, up, crashes>>

CallbackCleanup(t) ==
    /\ \E next \in CleanupPcs :
          /\ RedisCleanup(callback[t], t, item[t], next)
          /\ callback' = [callback EXCEPT ![t] = next]
    /\ UNCHANGED <<inbox, state, owner, item, local, known, cancelled, final,
                   req, stop, active, up, crashes>>

CallbackPop(t) ==
    /\ callback[t] = "local"
    /\ local' = local \ {t}
    /\ callback' = [callback EXCEPT ![t] = "over"]
    /\ UNCHANGED <<redisVars, inbox, state, owner, item, known, cancelled, final,
                   req, stop, active, up, crashes>>

-----------------------------------------------------------------------------
(* stop_task and stop_item_tasks, and the listener.                        *)

\* The stop endpoint: the client got the id from the completion request or
\* from a listing.
StopTask(s, n, t) ==
    /\ stop[s].pc = "idle"
    /\ n \in up
    /\ t \in known \cup rtasks
    /\ stop' = [stop EXCEPT ![s] = [pc |-> "hget", inst |-> n, task |-> t,
                                    item |-> NoItem, todo |-> {}]]
    /\ UNCHANGED <<redisVars, inbox, taskVars, req, active, up, crashes>>

\* The next task of stop_item_tasks's list, or the end of it.
StopRest(s, n, todo) ==
    \/ /\ todo = {}
       /\ stop' = [stop EXCEPT ![s].pc = "over"]
    \/ \E t \in todo :
          stop' = [stop EXCEPT ![s] = [pc |-> "hget", inst |-> n, task |-> t,
                                       item |-> NoItem, todo |-> todo \ {t}]]

\* stop_item_tasks: SMEMBERS.
StopItemTasks(s, n, i) ==
    /\ stop[s].pc = "idle"
    /\ n \in up
    /\ StopRest(s, n, ritem[i])
    /\ UNCHANGED <<redisVars, inbox, taskVars, req, active, up, crashes>>

\* Mutant: Redis is cleaned without a stop command having been published.
StopHgetCleanFirst(s) ==
    /\ stop[s].pc = "hget"
    /\ stop' = [stop EXCEPT ![s].pc = "pipe",
                            ![s].item = IF stop[s].task \in rtasks
                                        THEN item[stop[s].task] ELSE NoItem]
    /\ UNCHANGED <<redisVars, inbox, taskVars, req, active, up, crashes>>

StopHget(s) ==
    /\ stop[s].pc = "hget"
    /\ stop' = [stop EXCEPT ![s].pc = "publish",
                            ![s].item = IF stop[s].task \in rtasks
                                        THEN item[stop[s].task] ELSE NoItem]
    /\ UNCHANGED <<redisVars, inbox, taskVars, req, active, up, crashes>>

\* redis_send_command: every subscribed listener gets it.
StopPublish(s) ==
    /\ stop[s].pc = "publish"
    /\ inbox' = [n \in Instances |-> IF n \in up THEN inbox[n] \cup {stop[s].task}
                                     ELSE inbox[n]]
    /\ stop' = [stop EXCEPT ![s].pc = "pipe"]
    /\ UNCHANGED <<redisVars, taskVars, req, active, up, crashes>>

StopCleanup(s) ==
    /\ \E next \in CleanupPcs :
          /\ RedisCleanup(stop[s].pc, stop[s].task, stop[s].item, next)
          /\ IF next = "local"
             THEN StopRest(s, stop[s].inst, stop[s].todo)
             ELSE stop' = [stop EXCEPT ![s].pc = next]
    /\ UNCHANGED <<inbox, taskVars, req, active, up, crashes>>

\* Mutant: the listener drops the command of a task it owns.
ListenerDrops(n, t) ==
    /\ n \in up
    /\ t \in inbox[n]
    /\ inbox' = [inbox EXCEPT ![n] = @ \ {t}]
    /\ UNCHANGED <<redisVars, taskVars, req, stop, active, up, crashes>>

\* redis_task_command_listener.
Listener(n, t) ==
    /\ n \in up
    /\ t \in inbox[n]
    /\ inbox' = [inbox EXCEPT ![n] = @ \ {t}]
    /\ cancelled' = IF t \in local /\ owner[t] = n /\ Running(t)
                    THEN cancelled \cup {t} ELSE cancelled
    /\ UNCHANGED <<redisVars, state, owner, item, local, known, final, callback,
                   req, stop, active, up, crashes>>

-----------------------------------------------------------------------------
\* An instance dies with everything in its memory; Redis keeps its entries.
Crash(n) ==
    LET mine == {t \in Tasks : owner[t] = n}
    IN  /\ n \in up
        /\ crashes < MaxCrashes
        /\ crashes' = crashes + 1
        /\ up' = up \ {n}
        /\ inbox' = [inbox EXCEPT ![n] = {}]
        /\ state' = [t \in Tasks |-> IF t \in mine /\ Running(t) THEN "lost" ELSE state[t]]
        /\ local' = local \ mine
        /\ cancelled' = cancelled \ mine
        /\ final' = [t \in Tasks |-> IF t \in mine THEN "over" ELSE final[t]]
        /\ callback' = [t \in Tasks |-> IF t \in mine THEN "over" ELSE callback[t]]
        /\ req' = [r \in Requests |-> IF req[r].inst = n
                                      THEN [req[r] EXCEPT !.pc = "over"] ELSE req[r]]
        /\ stop' = [s \in Stoppers |-> IF stop[s].inst = n /\ stop[s].pc # "over"
                                       THEN [stop[s] EXCEPT !.pc = "dead"] ELSE stop[s]]
        /\ UNCHANGED <<redisVars, owner, item, known, active>>

RequestStep(r) ==
    \/ RedisSaveTask(r)
    \/ \E t \in Tasks : NextModel(r, t)
    \/ LastModel(r)
    \/ EmitActive(r)

FinallyStep(t) ==
    \/ FinallyBegins(t)
    \/ FinallyCleanup(t)
    \/ FinallyPop(t)
    \/ FinallyCheck(t)
    \/ FinallyEmit(t)
    \/ FinallyCancelled(t)

CallbackStep(t) == CallbackCleanup(t) \/ CallbackPop(t)

StopStep(s) == StopHget(s) \/ StopPublish(s) \/ StopCleanup(s)

\* Nothing is left to do: every request and stop call is over, every task too.
AllOver ==
    /\ \A r \in Requests : req[r].pc \in {"idle", "over"}
    /\ \A t \in Tasks : state[t] \in {"new", "lost"} \/ callback[t] = "over"
    /\ \A s \in Stoppers : stop[s].pc \in {"idle", "over", "dead"}
    /\ \A n \in up : inbox[n] = {}

Next ==
    \/ \E r \in Requests :
          \/ \E n \in Instances, i \in Items, t \in Tasks : StartRequest(r, n, i, t)
          \/ RequestStep(r)
    \/ \E t \in Tasks : BodyEnds(t) \/ FinallyStep(t) \/ CallbackStep(t)
    \/ \E s \in Stoppers :
          \/ \E n \in Instances, t \in Tasks : StopTask(s, n, t)
          \/ \E n \in Instances, i \in Items : StopItemTasks(s, n, i)
          \/ StopStep(s)
    \/ \E n \in Instances, t \in Tasks : Listener(n, t)
    \/ \E n \in Instances : Crash(n)
    \/ AllOver /\ UNCHANGED vars

\* Every event loop runs its ready steps and Redis answers.  A body is only
\* bound to end once it is cancelled.
Fairness ==
    /\ \A r \in Requests : WF_vars(RequestStep(r))
    /\ \A t \in Tasks :
          /\ WF_vars(t \in cancelled /\ BodyEnds(t))
          /\ WF_vars(FinallyStep(t))
          /\ WF_vars(CallbackStep(t))
    /\ \A s \in Stoppers : WF_vars(StopStep(s))
    /\ \A n \in Instances, t \in Tasks : WF_vars(Listener(n, t))

Spec == Init /\ [][Next]_vars /\ Fairness

-----------------------------------------------------------------------------
TypeOK ==
    /\ rtasks \subseteq Tasks
    /\ ritem \in [Items -> SUBSET Tasks]
    /\ inbox \in [Instances -> SUBSET Tasks]
    /\ state \in [Tasks -> {"new", "running", "finally", "done", "lost"}]
    /\ owner \in [Tasks -> Instances \cup {NoInst}]
    /\ item \in [Tasks -> Items \cup {NoItem}]
    /\ local \subseteq Tasks
    /\ known \subseteq Tasks
    /\ cancelled \subseteq Tasks
    /\ final \in [Tasks -> FinalPcs]
    /\ callback \in [Tasks -> CallbackPcs]
    /\ req \in [Requests -> ReqRecord]
    /\ stop \in [Stoppers -> StopRecord]
    /\ active \in [Items -> {"none", "true", "false"}]
    /\ up \subseteq Instances
    /\ crashes \in 0..MaxCrashes

\* An item's set never lists a task the hash does not know, and only lists the
\* item's own tasks: stop_task finds by HGET the item of everything SMEMBERS
\* returned, so its SREM always reaches the right set.
ItemSetsWithinHash ==
    \A i \in Items : \A t \in ritem[i] : t \in rtasks /\ item[t] = i

\* A task that runs and has been saved leaves the hash only with its stop
\* command under way to it: "Always clean Redis directly" never hides a task
\* that nobody has told to stop.
HiddenOnlyWhileStopping ==
    \A t \in Tasks : state[t] = "running" /\ t \in known /\ t \notin rtasks =>
        t \in cancelled \/ t \in inbox[owner[t]]

\* Once a stop call has removed a task from Redis the task never comes back,
\* also when its owner crashed and cannot clean up: no save can follow the stop.
StoppedStaysOut ==
    \A s \in Stoppers : stop[s].pc \in {"scard", "del"} =>
        /\ stop[s].task \notin rtasks
        /\ \A i \in Items : stop[s].task \notin ritem[i]

\* A published stop command ends the task, whatever its finally block was doing.
StopTakesEffect ==
    \A s \in Stoppers, t \in Tasks :
        (stop[s].pc = "pipe" /\ stop[s].task = t) ~> state[t] \in {"done", "lost"}

\* A task that was in Redis when it ended is forgotten there for good, unless
\* its instance crashes: neither of its two cleanups, nor a stop racing with
\* them, leaves it behind.
EndedIsForgotten ==
    \A t \in Tasks : (t \in rtasks /\ state[t] = "finally") ~>
        (owner[t] \notin up \/ [](t \notin rtasks))

\* list_tasks: "List all currently active task IDs."  A task that is done and
\* whose cleanups have all run is not listed.
NoGhostTask ==
    \A t \in Tasks : callback[t] = "over" /\ state[t] = "done"
        /\ (\A r \in Requests : req[r].task = t => req[r].pc \notin {"saving"})
            => t \notin rtasks
=============================================================================
