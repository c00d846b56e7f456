---------------------- MODULE TaskRegistryRedisProofs ----------------------
(* Theorems about the Redis task registry, for any number of tasks, items,  *)
(* instances, requests, stop calls and crashes.                             *)
EXTENDS TaskRegistryRedis, TLAPS

--------------------------------------------------------------------------------------------------------
(* The inductive invariant.                                                 *)

\* No request still has the HSET/SADD of t ahead of it.
NotSaving(t) == \A r \in Requests : req[r].pc = "saving" => req[r].task # t

\* A stop command for t is in its owner's inbox or has been delivered.
StopUnderWay(t) == t \in cancelled \/ t \in inbox[owner[t]]

\* A request that has started works on a task of its own, created where it
\* runs and for its item; no two requests hold the same unsaved task.
RequestOK(r) ==
    /\ req[r].pc = "idle" => req[r].inst = NoInst
    /\ req[r].pc # "idle" =>
        /\ req[r].inst \in Instances /\ req[r].item \in Items /\ req[r].task \in Tasks
        /\ req[r].pc # "over" => req[r].inst \in up
        /\ state[req[r].task] # "new"
        /\ item[req[r].task] = req[r].item
        /\ \A q \in Requests \ {r} : req[q].pc # "idle" => req[q].task # req[r].task

RequestsOK == \A r \in Requests : RequestOK(r)

\* A created task has an owner and an item; while it runs its owner is up and
\* has it in `tasks`; its callback only works once it is done.
TasksOK ==
    \A t \in Tasks :
        /\ state[t] # "new" => item[t] \in Items /\ owner[t] \in Instances
        /\ state[t] = "running" => t \in local /\ owner[t] \in up
        /\ callback[t] \in CleanupPcs => state[t] = "done"

\* What has been in Redis once, or has its id known, is not saved again.
SavedOnce ==
    /\ \A t \in known \cup rtasks : state[t] # "new" /\ NotSaving(t)
    /\ ItemSetsWithinHash

\* A stop call only works on tasks that have been saved, and knows their item
\* as long as they are in the hash; between its PUBLISH and its cleanup the
\* command is under way.
StopOK(s) ==
    stop[s].pc \in {"hget", "publish", "pipe", "scard", "del"} =>
        /\ stop[s].inst \in Instances /\ stop[s].task \in Tasks /\ stop[s].todo \subseteq Tasks
        /\ \A t \in {stop[s].task} \cup stop[s].todo : state[t] # "new" /\ NotSaving(t)
        /\ stop[s].item \in {NoItem, item[stop[s].task]}
        /\ stop[s].pc \in {"publish", "pipe"} /\ stop[s].item = NoItem
              => stop[s].task \notin rtasks
        /\ stop[s].pc \in {"scard", "del"}
              => stop[s].item \in Items /\ stop[s].task \notin rtasks
        /\ stop[s].pc = "pipe" /\ state[stop[s].task] = "running"
              => StopUnderWay(stop[s].task)

StopsOK == \A s \in Stoppers : StopOK(s)

\* HiddenOnlyWhileStopping, already from the moment the save has landed.
HiddenOK ==
    \A t \in Tasks :
        /\ state[t] = "running" /\ t \notin rtasks
        /\ t \in known \/ \E r \in Requests : req[r].pc = "saved" /\ req[r].task = t
        => StopUnderWay(t)

IInv == TypeOK /\ RequestsOK /\ TasksOK /\ SavedOnce /\ StopsOK /\ HiddenOK

--------------------------------------------------------------------------------------------------------
\* Init establishes the inductive invariant.
LEMMA InitIInv == Init => IInv
  BY ConstantsAssumption
  DEF Init, IInv, TypeOK, FinalPcs, CallbackPcs, CleanupPcs, ReqRecord, StopRecord,
      RequestsOK, RequestOK, TasksOK, SavedOnce, ItemSetsWithinHash, StopsOK, StopOK,
      HiddenOK, NotSaving

LEMMA StartRequestKeeps ==
  ASSUME IInv, NEW r \in Requests, NEW n \in Instances, NEW i \in Items, NEW t \in Tasks, StartRequest(r, n, i, t)
  PROVE  IInv'
  <1>a. /\ req' \in [Requests -> ReqRecord]
        /\ req[r].pc = "idle"
        /\ req'[r] = [pc |-> "saving", inst |-> n, item |-> i, task |-> t]
        /\ \A q \in Requests \ {r} : req'[q] = req[q]
    BY DEF StartRequest, CreateTask, IInv, TypeOK, ReqRecord
  <1>b. /\ state[t] = "new" /\ t \notin known /\ t \notin rtasks
        /\ state' = [state EXCEPT ![t] = "running"]
        /\ owner' = [owner EXCEPT ![t] = n]
        /\ item' = [item EXCEPT ![t] = i]
        /\ local' = local \cup {t}
        /\ n \in up
    BY DEF StartRequest, CreateTask, IInv, SavedOnce
  <1>c. UNCHANGED <<redisVars, inbox, known, cancelled, final, callback, stop, active, up, crashes>>
    BY DEF StartRequest
  <1>d. \A q \in Requests : req[q].pc # "idle" => req[q].task # t
    BY <1>b DEF IInv, RequestsOK, RequestOK
  <1> USE DEF IInv, FinalPcs, CallbackPcs, CleanupPcs, taskVars, redisVars
  <1>1. TypeOK'
    BY <1>a, <1>b, <1>c, <1>d DEF TypeOK
  <1>2. RequestsOK'
    <2> SUFFICES ASSUME NEW q \in Requests PROVE RequestOK(q)'
        BY DEF RequestsOK
    <2>1. CASE q = r
      BY <2>1, <1>a, <1>b, <1>c, <1>d DEF RequestsOK, RequestOK, TypeOK
    <2>2. CASE q # r
      BY <2>2, <1>a, <1>b, <1>c, <1>d DEF RequestsOK, RequestOK, TypeOK
    <2> QED BY <2>1, <2>2
  <1>3. TasksOK'
    BY <1>a, <1>b, <1>c, <1>d DEF TasksOK, TypeOK
  <1>4. SavedOnce'
    BY <1>a, <1>b, <1>c, <1>d DEF SavedOnce, ItemSetsWithinHash, NotSaving, TypeOK
  <1>5. StopsOK'
    BY <1>a, <1>b, <1>c, <1>d DEF StopsOK, StopOK, NotSaving, StopUnderWay, TypeOK
  <1>6. HiddenOK'
    BY <1>a, <1>b, <1>c, <1>d DEF HiddenOK, StopUnderWay, TypeOK
  <1> QED BY <1>1, <1>2, <1>3, <1>4, <1>5, <1>6

LEMMA RedisSaveTaskKeeps ==
  ASSUME IInv, NEW r \in Requests, RedisSaveTask(r)
  PROVE  IInv'
  <1>a. /\ req' \in [Requests -> ReqRecord]
        /\ req[r].pc = "saving" /\ req'[r].pc = "saved"
        /\ \A q \in Requests \ {r} : req'[q] = req[q]
        /\ \A q \in Requests : /\ req'[q].inst = req[q].inst
                               /\ req'[q].item = req[q].item
                               /\ req'[q].task = req[q].task
    BY DEF RedisSaveTask, IInv, TypeOK, ReqRecord
  <1>b. /\ rtasks' = rtasks \cup {req[r].task}
        /\ ritem' = [ritem EXCEPT ![req[r].item] = @ \cup {req[r].task}]
        /\ UNCHANGED <<inbox, taskVars, stop, active, up, crashes>>
    BY DEF RedisSaveTask
  <1>c. /\ req[r].task \in Tasks /\ req[r].item \in Items /\ state[req[r].task] # "new"
        /\ item[req[r].task] = req[r].item
        /\ \A q \in Requests \ {r} : req[q].pc # "idle" => req[q].task # req[r].task
    BY <1>a DEF IInv, RequestsOK, RequestOK
  <1> USE DEF IInv, FinalPcs, CallbackPcs, CleanupPcs, taskVars, redisVars
  <1>1. TypeOK'
    BY <1>a, <1>b, <1>c DEF TypeOK
  <1>2. RequestsOK'
    BY <1>a, <1>b, <1>c DEF RequestsOK, RequestOK
  <1>3. TasksOK'
    BY <1>a, <1>b, <1>c DEF TasksOK, TypeOK
  <1>4. SavedOnce'
    <2>1. \A u \in (known \cup rtasks)' : state'[u] # "new" /\ NotSaving(u)'
      <3> SUFFICES ASSUME NEW u \in (known \cup rtasks)'
                   PROVE  state'[u] # "new" /\ NotSaving(u)'
          OBVIOUS
      <3>1. CASE u = req[r].task
        BY <3>1, <1>a, <1>b, <1>c DEF NotSaving
      <3>2. CASE u \in known \cup rtasks
        BY <3>2, <1>a, <1>b DEF SavedOnce, NotSaving
      <3> QED BY <1>b, <3>1, <3>2
    <2>2. ItemSetsWithinHash'
      BY <1>b, <1>c DEF SavedOnce, ItemSetsWithinHash, TypeOK
    <2> QED BY <2>1, <2>2 DEF SavedOnce
  <1>5. StopsOK'
    BY <1>a, <1>b, <1>c DEF StopsOK, StopOK, NotSaving, StopUnderWay, TypeOK
  <1>6. HiddenOK'
    BY <1>a, <1>b, <1>c DEF HiddenOK, StopUnderWay, TypeOK
  <1> QED BY <1>1, <1>2, <1>3, <1>4, <1>5, <1>6

LEMMA NextModelKeeps ==
  ASSUME IInv, NEW r \in Requests, NEW t \in Tasks, NextModel(r, t)
  PROVE  IInv'
  <1>a. /\ req' \in [Requests -> ReqRecord]
        /\ req[r].pc = "saved" /\ req[r].inst \in Instances /\ req[r].item \in Items
        /\ req'[r] = [pc |-> "saving", inst |-> req[r].inst, item |-> req[r].item, task |-> t]
        /\ \A q \in Requests \ {r} : req'[q] = req[q]
    BY DEF NextModel, CreateTask, RequestsOK, RequestOK, IInv, TypeOK, ReqRecord
  <1>b. /\ state[t] = "new" /\ t \notin known /\ t \notin rtasks
        /\ state' = [state EXCEPT ![t] = "running"]
        /\ owner' = [owner EXCEPT ![t] = req[r].inst]
        /\ item' = [item EXCEPT ![t] = req[r].item]
        /\ local' = local \cup {t}
    BY DEF NextModel, CreateTask, IInv, SavedOnce
  <1>c. known' = known \cup {req[r].task}
        /\ UNCHANGED <<redisVars, inbox, cancelled, final, callback, stop, active, up, crashes>>
    BY DEF NextModel
  <1>d. /\ \A q \in Requests : req[q].pc # "idle" => req[q].task # t
        /\ req[r].task \in Tasks /\ state[req[r].task] # "new"
        /\ \A q \in Requests \ {r} : req[q].pc # "idle" => req[q].task # req[r].task
        /\ req[r].inst \in up
    BY <1>a, <1>b DEF IInv, RequestsOK, RequestOK
  <1> USE DEF IInv, FinalPcs, CallbackPcs, CleanupPcs, taskVars, redisVars
  <1>1. TypeOK'
    BY <1>a, <1>b, <1>c, <1>d DEF TypeOK
  <1>2. RequestsOK'
    <2> SUFFICES ASSUME NEW q \in Requests PROVE RequestOK(q)'
        BY DEF RequestsOK
    <2>1. CASE q = r
      BY <2>1, <1>a, <1>b, <1>c, <1>d DEF RequestsOK, RequestOK, TypeOK
    <2>2. CASE q # r
      BY <2>2, <1>a, <1>b, <1>c, <1>d DEF RequestsOK, RequestOK, TypeOK
    <2> QED BY <2>1, <2>2
  <1>3. TasksOK'
    BY <1>a, <1>b, <1>c, <1>d DEF TasksOK, TypeOK
  <1>4. SavedOnce'
    BY <1>a, <1>b, <1>c, <1>d DEF SavedOnce, ItemSetsWithinHash, NotSaving, TypeOK
  <1>5. StopsOK'
    BY <1>a, <1>b, <1>c, <1>d DEF StopsOK, StopOK, NotSaving, StopUnderWay, TypeOK
  <1>6. HiddenOK'
    BY <1>a, <1>b, <1>c, <1>d DEF HiddenOK, StopUnderWay, TypeOK
  <1> QED BY <1>1, <1>2, <1>3, <1>4, <1>5, <1>6

LEMMA LastModelKeeps ==
  ASSUME IInv, NEW r \in Requests, LastModel(r)
  PROVE  IInv'
  <1>a. /\ req' \in [Requests -> ReqRecord]
        /\ req[r].pc = "saved" /\ req'[r].pc = "emit"
        /\ \A q \in Requests \ {r} : req'[q] = req[q]
        /\ \A q \in Requests : /\ req'[q].inst = req[q].inst
                               /\ req'[q].item = req[q].item
                               /\ req'[q].task = req[q].task
    BY DEF LastModel, IInv, TypeOK, ReqRecord
  <1>b. /\ known' = known \cup {req[r].task}
        /\ UNCHANGED <<redisVars, inbox, state, owner, item, local, cancelled, final,
                       callback, stop, active, up, crashes>>
    BY DEF LastModel
  <1>c. /\ req[r].task \in Tasks /\ req[r].item \in Items /\ state[req[r].task] # "new"
        /\ item[req[r].task] = req[r].item
        /\ \A q \in Requests \ {r} : req[q].pc # "idle" => req[q].task # req[r].task
    BY <1>a DEF IInv, RequestsOK, RequestOK
  <1> USE DEF IInv, FinalPcs, CallbackPcs, CleanupPcs, taskVars, redisVars
  <1>1. TypeOK'
    BY <1>a, <1>b, <1>c DEF TypeOK
  <1>2. RequestsOK'
    BY <1>a, <1>b, <1>c DEF RequestsOK, RequestOK
  <1>3. TasksOK'
    BY <1>a, <1>b, <1>c DEF TasksOK, TypeOK
  <1>4. SavedOnce'
    BY <1>a, <1>b, <1>c DEF SavedOnce, ItemSetsWithinHash, NotSaving, TypeOK
  <1>5. StopsOK'
    BY <1>a, <1>b, <1>c DEF StopsOK, StopOK, NotSaving, StopUnderWay, TypeOK
  <1>6. HiddenOK'
    BY <1>a, <1>b, <1>c DEF HiddenOK, StopUnderWay, TypeOK
  <1> QED BY <1>1, <1>2, <1>3, <1>4, <1>5, <1>6

LEMMA EmitActiveKeeps ==
  ASSUME IInv, NEW r \in Requests, EmitActive(r)
  PROVE  IInv'
  <1>a. /\ req' \in [Requests -> ReqRecord]
        /\ req[r].pc = "emit" /\ req'[r].pc = "over"
        /\ \A q \in Requests \ {r} : req'[q] = req[q]
        /\ \A q \in Requests : /\ req'[q].inst = req[q].inst
                               /\ req'[q].item = req[q].item
                               /\ req'[q].task = req[q].task
    BY DEF EmitActive, IInv, TypeOK, ReqRecord
  <1>b. /\ active' = [active EXCEPT ![req[r].item] = "true"]
        /\ UNCHANGED <<redisVars, inbox, taskVars, stop, up, crashes>>
    BY DEF EmitActive
  <1>c. /\ req[r].task \in Tasks /\ req[r].item \in Items /\ state[req[r].task] # "new"
        /\ item[req[r].task] = req[r].item
        /\ \A q \in Requests \ {r} : req[q].pc # "idle" => req[q].task # req[r].task
    BY <1>a DEF IInv, RequestsOK, RequestOK
  <1> USE DEF IInv, FinalPcs, CallbackPcs, CleanupPcs, taskVars, redisVars
  <1>1. TypeOK'
    BY <1>a, <1>b, <1>c DEF TypeOK
  <1>2. RequestsOK'
    BY <1>a, <1>b, <1>c DEF RequestsOK, RequestOK
  <1>3. TasksOK'
    BY <1>a, <1>b, <1>c DEF TasksOK, TypeOK
  <1>4. SavedOnce'
    BY <1>a, <1>b, <1>c DEF SavedOnce, ItemSetsWithinHash, NotSaving, TypeOK
  <1>5. StopsOK'
    BY <1>a, <1>b, <1>c DEF StopsOK, StopOK, NotSaving, StopUnderWay, TypeOK
  <1>6. HiddenOK'
    BY <1>a, <1>b, <1>c DEF HiddenOK, StopUnderWay, TypeOK
  <1> QED BY <1>1, <1>2, <1>3, <1>4, <1>5, <1>6

LEMMA BodyEndsKeeps ==
  ASSUME IInv, NEW t \in Tasks, BodyEnds(t)
  PROVE  IInv'
  <1> USE ConstantsAssumption
      DEF IInv, FinalPcs, CallbackPcs, CleanupPcs, redisVars, taskVars, BodyEnds
  <1>1. TypeOK'
    BY DEF TypeOK
  <1>2. RequestsOK'
    BY DEF RequestsOK, RequestOK
  <1>3. TasksOK'
    BY DEF TasksOK, TypeOK
  <1>4. SavedOnce'
    BY DEF SavedOnce, ItemSetsWithinHash, NotSaving, TypeOK
  <1>5. StopsOK'
    BY DEF StopsOK, StopOK, NotSaving, StopUnderWay, TypeOK
  <1>6. HiddenOK'
    BY DEF HiddenOK, StopUnderWay, TypeOK
  <1> QED BY <1>1, <1>2, <1>3, <1>4, <1>5, <1>6

LEMMA FinallyBeginsKeeps ==
  ASSUME IInv, NEW t \in Tasks, FinallyBegins(t)
  PROVE  IInv'
  <1>a. /\ state[t] = "finally" /\ state'[t] \in {"finally", "done"}
        /\ \A u \in Tasks \ {t} : state'[u] = state[u] /\ callback'[u] = callback[u]
        /\ callback'[t] = callback[t] \/ state'[t] = "done"
        /\ callback[t] \notin CleanupPcs
        /\ state' \in [Tasks -> {"new", "running", "finally", "done", "lost"}]
        /\ final' \in [Tasks -> FinalPcs] /\ callback' \in [Tasks -> CallbackPcs]
    BY DEF FinallyBegins, TaskDone, IInv, TypeOK, TasksOK, FinalPcs, CallbackPcs, CleanupPcs
  <1>b. /\ cancelled' \subseteq Tasks
        /\ \A u \in Tasks \ {t} : u \in cancelled' <=> u \in cancelled
    BY DEF FinallyBegins, TaskDone, IInv, TypeOK
  <1>c. UNCHANGED <<redisVars, inbox, owner, item, local, known, req, stop, active, up, crashes>>
    BY DEF FinallyBegins
  <1> USE DEF IInv, FinalPcs, CallbackPcs, CleanupPcs, taskVars, redisVars
  <1>1. TypeOK'
    BY <1>a, <1>b, <1>c DEF TypeOK
  <1>2. RequestsOK'
    BY <1>a, <1>b, <1>c DEF RequestsOK, RequestOK
  <1>3. TasksOK'
    BY <1>a, <1>b, <1>c DEF TasksOK, TypeOK
  <1>4. SavedOnce'
    BY <1>a, <1>b, <1>c DEF SavedOnce, ItemSetsWithinHash, NotSaving, TypeOK
  <1>5. StopsOK'
    <2> SUFFICES ASSUME NEW q \in Stoppers PROVE StopOK(q)'
        BY DEF StopsOK
    <2>1. CASE stop[q].task = t
      BY <2>1, <1>a, <1>b, <1>c, ConstantsAssumption DEF StopsOK, StopOK, NotSaving, StopUnderWay
    <2>2. CASE stop[q].task # t
      BY <2>2, <1>a, <1>b, <1>c, ConstantsAssumption DEF StopsOK, StopOK, NotSaving, StopUnderWay
    <2> QED BY <2>1, <2>2
  <1>6. HiddenOK'
    BY <1>a, <1>b, <1>c DEF HiddenOK, StopUnderWay, TypeOK
  <1> QED BY <1>1, <1>2, <1>3, <1>4, <1>5, <1>6

LEMMA FinallyCleanupKeeps ==
  ASSUME IInv, NEW t \in Tasks, FinallyCleanup(t)
  PROVE  IInv'
  <1> USE ConstantsAssumption
      DEF IInv, FinalPcs, CallbackPcs, CleanupPcs, redisVars, taskVars, FinallyCleanup, RedisCleanup
  <1>1. TypeOK'
    BY DEF TypeOK
  <1>2. RequestsOK'
    BY DEF RequestsOK, RequestOK
  <1>3. TasksOK'
    BY DEF TasksOK, TypeOK
  <1>4. SavedOnce'
    BY DEF SavedOnce, ItemSetsWithinHash, NotSaving, TypeOK
  <1>5. StopsOK'
    BY DEF StopsOK, StopOK, NotSaving, StopUnderWay, TypeOK
  <1>6. HiddenOK'
    BY DEF HiddenOK, StopUnderWay, TypeOK
  <1> QED BY <1>1, <1>2, <1>3, <1>4, <1>5, <1>6

LEMMA FinallyPopKeeps ==
  ASSUME IInv, NEW t \in Tasks, FinallyPop(t)
  PROVE  IInv'
  <1> USE ConstantsAssumption
      DEF IInv, FinalPcs, CallbackPcs, CleanupPcs, redisVars, taskVars, FinallyPop
  <1>1. TypeOK'
    BY DEF TypeOK
  <1>2. RequestsOK'
    BY DEF RequestsOK, RequestOK
  <1>3. TasksOK'
    BY DEF TasksOK, TypeOK
  <1>4. SavedOnce'
    BY DEF SavedOnce, ItemSetsWithinHash, NotSaving, TypeOK
  <1>5. StopsOK'
    BY DEF StopsOK, StopOK, NotSaving, StopUnderWay, TypeOK
  <1>6. HiddenOK'
    BY DEF HiddenOK, StopUnderWay, TypeOK
  <1> QED BY <1>1, <1>2, <1>3, <1>4, <1>5, <1>6

LEMMA FinallyCheckKeeps ==
  ASSUME IInv, NEW t \in Tasks, FinallyCheck(t)
  PROVE  IInv'
  <1>a. /\ state[t] = "finally" /\ state'[t] \in {"finally", "done"}
        /\ \A u \in Tasks \ {t} : state'[u] = state[u] /\ callback'[u] = callback[u]
        /\ callback'[t] = callback[t] \/ state'[t] = "done"
        /\ callback[t] \notin CleanupPcs
        /\ state' \in [Tasks -> {"new", "running", "finally", "done", "lost"}]
        /\ final' \in [Tasks -> FinalPcs] /\ callback' \in [Tasks -> CallbackPcs]
    BY DEF FinallyCheck, TaskDone, IInv, TypeOK, TasksOK, FinalPcs, CallbackPcs, CleanupPcs
  <1>b. /\ cancelled' \subseteq Tasks
        /\ \A u \in Tasks \ {t} : u \in cancelled' <=> u \in cancelled
    BY DEF FinallyCheck, TaskDone, IInv, TypeOK
  <1>c. UNCHANGED <<redisVars, inbox, owner, item, local, known, req, stop, active, up, crashes>>
    BY DEF FinallyCheck
  <1> USE DEF IInv, FinalPcs, CallbackPcs, CleanupPcs, taskVars, redisVars
  <1>1. TypeOK'
    BY <1>a, <1>b, <1>c DEF TypeOK
  <1>2. RequestsOK'
    BY <1>a, <1>b, <1>c DEF RequestsOK, RequestOK
  <1>3. TasksOK'
    BY <1>a, <1>b, <1>c DEF TasksOK, TypeOK
  <1>4. SavedOnce'
    BY <1>a, <1>b, <1>c DEF SavedOnce, ItemSetsWithinHash, NotSaving, TypeOK
  <1>5. StopsOK'
    <2> SUFFICES ASSUME NEW q \in Stoppers PROVE StopOK(q)'
        BY DEF StopsOK
    <2>1. CASE stop[q].task = t
      BY <2>1, <1>a, <1>b, <1>c, ConstantsAssumption DEF StopsOK, StopOK, NotSaving, StopUnderWay
    <2>2. CASE stop[q].task # t
      BY <2>2, <1>a, <1>b, <1>c, ConstantsAssumption DEF StopsOK, StopOK, NotSaving, StopUnderWay
    <2> QED BY <2>1, <2>2
  <1>6. HiddenOK'
    BY <1>a, <1>b, <1>c DEF HiddenOK, StopUnderWay, TypeOK
  <1> QED BY <1>1, <1>2, <1>3, <1>4, <1>5, <1>6

LEMMA FinallyEmitKeeps ==
  ASSUME IInv, NEW t \in Tasks, FinallyEmit(t)
  PROVE  IInv'
  <1> USE ConstantsAssumption
      DEF IInv, FinalPcs, CallbackPcs, CleanupPcs, redisVars, taskVars, FinallyEmit, TaskDone
  <1>1. TypeOK'
    BY DEF TypeOK
  <1>2. RequestsOK'
    BY DEF RequestsOK, RequestOK
  <1>3. TasksOK'
    BY DEF TasksOK, TypeOK
  <1>4. SavedOnce'
    BY DEF SavedOnce, ItemSetsWithinHash, NotSaving, TypeOK
  <1>5. StopsOK'
    BY DEF StopsOK, StopOK, NotSaving, StopUnderWay, TypeOK
  <1>6. HiddenOK'
    BY DEF HiddenOK, StopUnderWay, TypeOK
  <1> QED BY <1>1, <1>2, <1>3, <1>4, <1>5, <1>6

LEMMA FinallyCancelledKeeps ==
  ASSUME IInv, NEW t \in Tasks, FinallyCancelled(t)
  PROVE  IInv'
  <1> USE ConstantsAssumption
      DEF IInv, FinalPcs, CallbackPcs, CleanupPcs, redisVars, taskVars, FinallyCancelled, TaskDone
  <1>1. TypeOK'
    BY DEF TypeOK
  <1>2. RequestsOK'
    BY DEF RequestsOK, RequestOK
  <1>3. TasksOK'
    BY DEF TasksOK, TypeOK
  <1>4. SavedOnce'
    BY DEF SavedOnce, ItemSetsWithinHash, NotSaving, TypeOK
  <1>5. StopsOK'
    BY DEF StopsOK, StopOK, NotSaving, StopUnderWay, TypeOK
  <1>6. HiddenOK'
    BY DEF HiddenOK, StopUnderWay, TypeOK
  <1> QED BY <1>1, <1>2, <1>3, <1>4, <1>5, <1>6

LEMMA CallbackCleanupKeeps ==
  ASSUME IInv, NEW t \in Tasks, CallbackCleanup(t)
  PROVE  IInv'
  <1> USE ConstantsAssumption
      DEF IInv, FinalPcs, CallbackPcs, CleanupPcs, redisVars, taskVars, CallbackCleanup, RedisCleanup
  <1>1. TypeOK'
    BY DEF TypeOK
  <1>2. RequestsOK'
    BY DEF RequestsOK, RequestOK
  <1>3. TasksOK'
    BY DEF TasksOK, TypeOK
  <1>4. SavedOnce'
    BY DEF SavedOnce, ItemSetsWithinHash, NotSaving, TypeOK
  <1>5. StopsOK'
    BY DEF StopsOK, StopOK, NotSaving, StopUnderWay, TypeOK
  <1>6. HiddenOK'
    BY DEF TasksOK, HiddenOK, StopUnderWay, TypeOK
  <1> QED BY <1>1, <1>2, <1>3, <1>4, <1>5, <1>6

LEMMA CallbackPopKeeps ==
  ASSUME IInv, NEW t \in Tasks, CallbackPop(t)
  PROVE  IInv'
  <1> USE ConstantsAssumption
      DEF IInv, FinalPcs, CallbackPcs, CleanupPcs, redisVars, taskVars, CallbackPop
  <1>1. TypeOK'
    BY DEF TypeOK
  <1>2. RequestsOK'
    BY DEF RequestsOK, RequestOK
  <1>3. TasksOK'
    BY DEF TasksOK, TypeOK
  <1>4. SavedOnce'
    BY DEF SavedOnce, ItemSetsWithinHash, NotSaving, TypeOK
  <1>5. StopsOK'
    BY DEF StopsOK, StopOK, NotSaving, StopUnderWay, TypeOK
  <1>6. HiddenOK'
    BY DEF HiddenOK, StopUnderWay, TypeOK
  <1> QED BY <1>1, <1>2, <1>3, <1>4, <1>5, <1>6

LEMMA StopTaskKeeps ==
  ASSUME IInv, NEW s \in Stoppers, NEW n \in Instances, NEW t \in Tasks, StopTask(s, n, t)
  PROVE  IInv'
  <1>a. /\ stop' = [stop EXCEPT ![s] = [pc |-> "hget", inst |-> n, task |-> t,
                                        item |-> NoItem, todo |-> {}]]
        /\ t \in known \cup rtasks
        /\ UNCHANGED <<redisVars, inbox, taskVars, req, active, up, crashes>>
    BY DEF StopTask
  <1>b. stop' \in [Stoppers -> StopRecord]
    BY <1>a DEF IInv, TypeOK, StopRecord
  <1> USE DEF IInv, FinalPcs, CallbackPcs, CleanupPcs, taskVars, redisVars
  <1>1. TypeOK'
    BY <1>a, <1>b DEF TypeOK
  <1>2. RequestsOK'
    BY <1>a, <1>b DEF RequestsOK, RequestOK
  <1>3. TasksOK'
    BY <1>a, <1>b DEF TasksOK, TypeOK
  <1>4. SavedOnce'
    BY <1>a, <1>b DEF SavedOnce, ItemSetsWithinHash, NotSaving, TypeOK
  <1>5. StopsOK'
    BY <1>a, <1>b DEF SavedOnce, StopsOK, StopOK, NotSaving, StopUnderWay, TypeOK
  <1>6. HiddenOK'
    BY <1>a, <1>b DEF HiddenOK, StopUnderWay, TypeOK
  <1> QED BY <1>1, <1>2, <1>3, <1>4, <1>5, <1>6

LEMMA StopItemTasksKeeps ==
  ASSUME IInv, NEW s \in Stoppers, NEW n \in Instances, NEW i \in Items, StopItemTasks(s, n, i)
  PROVE  IInv'
  <1>0. /\ stop \in [Stoppers -> StopRecord]
        /\ ritem[i] \subseteq Tasks
        /\ \/ ritem[i] = {} /\ stop' = [stop EXCEPT ![s].pc = "over"]
           \/ \E t \in ritem[i] :
                 stop' = [stop EXCEPT ![s] = [pc |-> "hget", inst |-> n, task |-> t,
                                              item |-> NoItem, todo |-> ritem[i] \ {t}]]
    BY DEF StopItemTasks, StopRest, IInv, TypeOK
  <1>a. /\ stop'[s].pc \in {"over", "hget"}
        /\ stop'[s].pc = "hget" => /\ stop'[s].inst = n
                                  /\ stop'[s].task \in ritem[i]
                                  /\ stop'[s].todo \subseteq ritem[i]
                                  /\ stop'[s].item = NoItem
        /\ \A q \in Stoppers \ {s} : stop'[q] = stop[q]
        /\ stop' \in [Stoppers -> StopRecord]
    <2>1. CASE ritem[i] = {} /\ stop' = [stop EXCEPT ![s].pc = "over"]
      BY <1>0, <2>1 DEF StopRecord
    <2>2. ASSUME NEW t \in ritem[i],
                 stop' = [stop EXCEPT ![s] = [pc |-> "hget", inst |-> n, task |-> t,
                                              item |-> NoItem, todo |-> ritem[i] \ {t}]]
          PROVE  /\ stop'[s].pc \in {"over", "hget"}
                 /\ stop'[s].pc = "hget" => /\ stop'[s].inst = n
                                           /\ stop'[s].task \in ritem[i]
                                           /\ stop'[s].todo \subseteq ritem[i]
                                           /\ stop'[s].item = NoItem
                 /\ \A q \in Stoppers \ {s} : stop'[q] = stop[q]
                 /\ stop' \in [Stoppers -> StopRecord]
      BY <1>0, <2>2 DEF StopRecord
    <2> QED BY <1>0, <2>1, <2>2
  <1>b. UNCHANGED <<redisVars, inbox, taskVars, req, active, up, crashes>>
    BY DEF StopItemTasks
  <1>c. \A t \in ritem[i] : t \in Tasks /\ state[t] # "new" /\ NotSaving(t)
    BY DEF IInv, TypeOK, SavedOnce, ItemSetsWithinHash
  <1> USE DEF IInv, FinalPcs, CallbackPcs, CleanupPcs, taskVars, redisVars
  <1>1. TypeOK'
    BY <1>0, <1>a, <1>b, <1>c DEF TypeOK
  <1>2. RequestsOK'
    BY <1>0, <1>a, <1>b, <1>c DEF RequestsOK, RequestOK
  <1>3. TasksOK'
    BY <1>0, <1>a, <1>b, <1>c DEF TasksOK, TypeOK
  <1>4. SavedOnce'
    BY <1>0, <1>a, <1>b, <1>c DEF SavedOnce, ItemSetsWithinHash, NotSaving, TypeOK
  <1>5. StopsOK'
    BY <1>0, <1>a, <1>b, <1>c DEF StopsOK, StopOK, NotSaving, StopUnderWay, TypeOK
  <1>6. HiddenOK'
    BY <1>0, <1>a, <1>b, <1>c DEF HiddenOK, StopUnderWay, TypeOK
  <1> QED BY <1>1, <1>2, <1>3, <1>4, <1>5, <1>6

LEMMA StopHgetKeeps ==
  ASSUME IInv, NEW s \in Stoppers, StopHget(s)
  PROVE  IInv'
  <1>0. /\ stop[s] \in StopRecord
        /\ stop[s].task \in Tasks
        /\ stop[s].task \in rtasks => item[stop[s].task] \in Items
    BY DEF StopHget, IInv, TypeOK, StopsOK, StopOK, SavedOnce, TasksOK
  <1>a. /\ stop' \in [Stoppers -> StopRecord]
        /\ stop[s].pc = "hget" /\ stop'[s].pc = "publish"
        /\ \A q \in Stoppers \ {s} : stop'[q] = stop[q]
        /\ stop'[s].inst = stop[s].inst /\ stop'[s].task = stop[s].task
        /\ stop'[s].todo = stop[s].todo
        /\ stop'[s].item = (IF stop[s].task \in rtasks THEN item[stop[s].task] ELSE NoItem)
    BY <1>0 DEF StopHget, IInv, TypeOK, StopRecord
  <1>b. UNCHANGED <<redisVars, inbox, taskVars, req, active, up, crashes>>
    BY DEF StopHget
  <1> USE DEF IInv, FinalPcs, CallbackPcs, CleanupPcs, taskVars, redisVars
  <1>1. TypeOK'
    BY <1>0, <1>a, <1>b DEF TypeOK
  <1>2. RequestsOK'
    BY <1>0, <1>a, <1>b DEF RequestsOK, RequestOK
  <1>3. TasksOK'
    BY <1>0, <1>a, <1>b DEF TasksOK, TypeOK
  <1>4. SavedOnce'
    BY <1>0, <1>a, <1>b DEF SavedOnce, ItemSetsWithinHash, NotSaving, TypeOK
  <1>5. StopsOK'
    <2> SUFFICES ASSUME NEW q \in Stoppers PROVE StopOK(q)'
        BY DEF StopsOK
    <2>1. CASE q = s /\ stop[s].task \in rtasks
      BY <2>1, <1>0, <1>a, <1>b, ConstantsAssumption DEF StopsOK, StopOK, NotSaving, StopUnderWay
    <2>2. CASE q = s /\ stop[s].task \notin rtasks
      BY <2>2, <1>0, <1>a, <1>b, ConstantsAssumption DEF StopsOK, StopOK, NotSaving, StopUnderWay
    <2>3. CASE q # s
      BY <2>3, <1>0, <1>a, <1>b, ConstantsAssumption DEF StopsOK, StopOK, NotSaving, StopUnderWay
    <2> QED BY <2>1, <2>2, <2>3
  <1>6. HiddenOK'
    BY <1>0, <1>a, <1>b DEF HiddenOK, StopUnderWay, TypeOK
  <1> QED BY <1>1, <1>2, <1>3, <1>4, <1>5, <1>6

LEMMA StopPublishKeeps ==
  ASSUME IInv, NEW s \in Stoppers, StopPublish(s)
  PROVE  IInv'
  <1>0. /\ stop[s] \in StopRecord
        /\ stop[s].task \in Tasks
    BY DEF StopPublish, IInv, TypeOK, StopsOK, StopOK
  <1>a. /\ stop' \in [Stoppers -> StopRecord]
        /\ stop[s].pc = "publish" /\ stop'[s].pc = "pipe"
        /\ \A q \in Stoppers \ {s} : stop'[q] = stop[q]
        /\ stop'[s].inst = stop[s].inst /\ stop'[s].task = stop[s].task
        /\ stop'[s].todo = stop[s].todo
        /\ stop'[s].item = stop[s].item
    BY <1>0 DEF StopPublish, IInv, TypeOK, StopRecord
  <1>b. /\ inbox' = [n \in Instances |-> IF n \in up THEN inbox[n] \cup {stop[s].task}
                                        ELSE inbox[n]]
        /\ UNCHANGED <<redisVars, taskVars, req, active, up, crashes>>
    BY DEF StopPublish
  <1> USE DEF IInv, FinalPcs, CallbackPcs, CleanupPcs, taskVars, redisVars
  <1>1. TypeOK'
    BY <1>0, <1>a, <1>b DEF TypeOK, StopsOK, StopOK
  <1>2. RequestsOK'
    BY <1>0, <1>a, <1>b DEF RequestsOK, RequestOK
  <1>3. TasksOK'
    BY <1>0, <1>a, <1>b DEF TasksOK, TypeOK
  <1>4. SavedOnce'
    BY <1>0, <1>a, <1>b DEF SavedOnce, ItemSetsWithinHash, NotSaving, TypeOK
  <1>5. StopsOK'
    BY <1>0, <1>a, <1>b DEF TasksOK, StopsOK, StopOK, NotSaving, StopUnderWay, TypeOK
  <1>6. HiddenOK'
    BY <1>0, <1>a, <1>b DEF TasksOK, HiddenOK, StopUnderWay, TypeOK
  <1> QED BY <1>1, <1>2, <1>3, <1>4, <1>5, <1>6

LEMMA StopCleanupKeeps ==
  ASSUME IInv, NEW s \in Stoppers, StopCleanup(s)
  PROVE  IInv'
  <1>0. PICK next \in CleanupPcs :
          /\ RedisCleanup(stop[s].pc, stop[s].task, stop[s].item, next)
          /\ IF next = "local"
             THEN StopRest(s, stop[s].inst, stop[s].todo)
             ELSE stop' = [stop EXCEPT ![s].pc = next]
    BY DEF StopCleanup
  <1>a. /\ stop[s].pc \in {"pipe", "scard", "del"}
        /\ stop[s].inst \in Instances /\ stop[s].task \in Tasks /\ stop[s].todo \in SUBSET Tasks
        /\ stop[s].item \in Items \cup {NoItem}
    BY <1>0 DEF RedisCleanup, IInv, StopsOK, StopOK, TypeOK, StopRecord
  <1>b. /\ \A q \in Stoppers \ {s} : stop'[q] = stop[q]
        /\ stop' \in [Stoppers -> StopRecord]
        /\ stop'[s].pc \in {"over", "hget", "scard", "del"}
        /\ stop'[s].pc = "hget" => /\ stop'[s].inst = stop[s].inst
                                  /\ stop'[s].task \in stop[s].todo
                                  /\ stop'[s].todo \subseteq stop[s].todo
                                  /\ stop'[s].item = NoItem
        /\ stop'[s].pc \in {"scard", "del"}
             => /\ stop'[s] = [stop[s] EXCEPT !.pc = stop'[s].pc]
                /\ stop'[s].inst = stop[s].inst /\ stop'[s].task = stop[s].task
                /\ stop'[s].todo = stop[s].todo /\ stop'[s].item = stop[s].item
                /\ stop[s].item \in Items
    <2>1. CASE next = "local"
      <3>0. /\ stop \in [Stoppers -> StopRecord]
             /\ stop[s].todo \subseteq Tasks
             /\ \/ stop[s].todo = {} /\ stop' = [stop EXCEPT ![s].pc = "over"]
                \/ \E t \in stop[s].todo :
                      stop' = [stop EXCEPT ![s] = [pc |-> "hget", inst |-> stop[s].inst, task |-> t,
                                                   item |-> NoItem, todo |-> stop[s].todo \ {t}]]
        BY <1>0, <1>a, <2>1 DEF StopRest, IInv, TypeOK
      <3>3. CASE stop[s].todo = {} /\ stop' = [stop EXCEPT ![s].pc = "over"]
        BY <1>a, <3>0, <2>1, <3>3 DEF StopRecord
      <3>4. ASSUME NEW t \in stop[s].todo,
                   stop' = [stop EXCEPT ![s] = [pc |-> "hget", inst |-> stop[s].inst, task |-> t,
                                                item |-> NoItem, todo |-> stop[s].todo \ {t}]]
            PROVE  /\ stop'[s].pc \in {"over", "hget"}
                   /\ stop'[s].pc = "hget" => /\ stop'[s].inst = stop[s].inst
                                             /\ stop'[s].task \in stop[s].todo
                                             /\ stop'[s].todo \subseteq stop[s].todo
                                             /\ stop'[s].item = NoItem
                   /\ \A q \in Stoppers \ {s} : stop'[q] = stop[q]
                   /\ stop' \in [Stoppers -> StopRecord]
        BY <1>a, <3>0, <2>1, <3>4 DEF StopRecord
      <3> QED BY <1>a, <3>0, <2>1, <3>3, <3>4
    <2>2. CASE next # "local"
      <3>1. stop' = [stop EXCEPT ![s].pc = next] /\ stop[s] \in StopRecord
        BY <1>0, <2>2 DEF IInv, TypeOK
      <3>2. next \in {"scard", "del"} /\ stop[s].item \in Items
        BY <1>0, <1>a, <2>2 DEF RedisCleanup, IInv, StopsOK, StopOK
      <3> QED BY <3>1, <3>2 DEF IInv, TypeOK, StopRecord
    <2> QED BY <2>1, <2>2
  <1>c. /\ rtasks' = rtasks \/ (stop[s].pc = "pipe" /\ rtasks' = rtasks \ {stop[s].task})
        /\ \A i \in Items : ritem'[i] \subseteq ritem[i]
        /\ ritem' \in [Items -> SUBSET Tasks]
        /\ stop[s].pc = "pipe" => /\ stop[s].task \notin rtasks'
                                 /\ \A i \in Items : stop[s].task \notin ritem'[i]
    BY <1>0, <1>a DEF RedisCleanup, redisVars, IInv, TypeOK, StopsOK, StopOK, SavedOnce, ItemSetsWithinHash
  <1>d. UNCHANGED <<inbox, taskVars, req, active, up, crashes>>
    BY DEF StopCleanup
  <1> USE DEF IInv, FinalPcs, CallbackPcs, CleanupPcs, taskVars, redisVars
  <1>1. TypeOK'
    BY <1>a, <1>b, <1>c, <1>d DEF TypeOK
  <1>2. RequestsOK'
    BY <1>a, <1>b, <1>c, <1>d DEF RequestsOK, RequestOK
  <1>3. TasksOK'
    BY <1>a, <1>b, <1>c, <1>d DEF TasksOK, TypeOK
  <1>4. SavedOnce'
    BY <1>a, <1>b, <1>c, <1>d DEF SavedOnce, ItemSetsWithinHash, NotSaving, TypeOK
  <1>5. StopsOK'
    BY <1>a, <1>b, <1>c, <1>d DEF StopsOK, StopOK, NotSaving, StopUnderWay, TypeOK
  <1>6. HiddenOK'
    BY <1>a, <1>b, <1>c, <1>d DEF StopsOK, StopOK, HiddenOK, StopUnderWay, TypeOK
  <1> QED BY <1>1, <1>2, <1>3, <1>4, <1>5, <1>6

LEMMA ListenerKeeps ==
  ASSUME IInv, NEW n \in Instances, NEW t \in Tasks, Listener(n, t)
  PROVE  IInv'
  <1> USE ConstantsAssumption
      DEF IInv, FinalPcs, CallbackPcs, CleanupPcs, redisVars, taskVars, Listener, Running
  <1>1. TypeOK'
    BY DEF TypeOK
  <1>2. RequestsOK'
    BY DEF RequestsOK, RequestOK
  <1>3. TasksOK'
    BY DEF TasksOK, TypeOK
  <1>4. SavedOnce'
    BY DEF SavedOnce, ItemSetsWithinHash, NotSaving, TypeOK
  <1>5. StopsOK'
    BY DEF TasksOK, StopsOK, StopOK, NotSaving, StopUnderWay, TypeOK
  <1>6. HiddenOK'
    BY DEF TasksOK, HiddenOK, StopUnderWay, TypeOK
  <1> QED BY <1>1, <1>2, <1>3, <1>4, <1>5, <1>6

LEMMA CrashKeeps ==
  ASSUME IInv, NEW n \in Instances, Crash(n)
  PROVE  IInv'
  <1>a. /\ req' \in [Requests -> ReqRecord]
        /\ \A r \in Requests : /\ req'[r].inst = req[r].inst
                               /\ req'[r].item = req[r].item
                               /\ req'[r].task = req[r].task
                               /\ req'[r].pc = (IF req[r].inst = n THEN "over" ELSE req[r].pc)
    <2>1. req' = [r \in Requests |-> IF req[r].inst = n
                                       THEN [req[r] EXCEPT !.pc = "over"] ELSE req[r]]
      BY DEF Crash
    <2>2. ASSUME NEW r \in Requests
          PROVE  /\ req'[r] \in ReqRecord
                 /\ req'[r].inst = req[r].inst
                 /\ req'[r].item = req[r].item
                 /\ req'[r].task = req[r].task
                 /\ req'[r].pc = (IF req[r].inst = n THEN "over" ELSE req[r].pc)
      <3>1. req[r] \in ReqRecord
        BY DEF IInv, TypeOK
      <3>2. req'[r] = IF req[r].inst = n THEN [req[r] EXCEPT !.pc = "over"] ELSE req[r]
        BY <2>1
      <3> QED BY <3>1, <3>2 DEF ReqRecord
    <2> QED BY <2>1, <2>2
  <1>b. /\ stop' \in [Stoppers -> StopRecord]
        /\ \A s \in Stoppers : stop'[s] = stop[s] \/ stop'[s].pc = "dead"
    <2>1. stop' = [s \in Stoppers |-> IF stop[s].inst = n /\ stop[s].pc # "over"
                                        THEN [stop[s] EXCEPT !.pc = "dead"] ELSE stop[s]]
      BY DEF Crash
    <2>2. ASSUME NEW s \in Stoppers
          PROVE  /\ stop'[s] \in StopRecord
                 /\ stop'[s] = stop[s] \/ stop'[s].pc = "dead"
      <3>1. stop[s] \in StopRecord
        BY DEF IInv, TypeOK
      <3>2. stop'[s] = IF stop[s].inst = n /\ stop[s].pc # "over"
                       THEN [stop[s] EXCEPT !.pc = "dead"] ELSE stop[s]
        BY <2>1
      <3> QED BY <3>1, <3>2 DEF StopRecord
    <2> QED BY <2>1, <2>2
  <1>c. /\ crashes' \in 0..MaxCrashes
        /\ up' = up \ {n}
        /\ inbox' = [inbox EXCEPT ![n] = {}]
        /\ state' = [t \in Tasks |-> IF owner[t] = n /\ Running(t) THEN "lost" ELSE state[t]]
        /\ local' = local \ {t \in Tasks : owner[t] = n}
        /\ cancelled' = cancelled \ {t \in Tasks : owner[t] = n}
        /\ final' = [t \in Tasks |-> IF owner[t] = n THEN "over" ELSE final[t]]
        /\ callback' = [t \in Tasks |-> IF owner[t] = n THEN "over" ELSE callback[t]]
        /\ UNCHANGED <<redisVars, owner, item, known, active>>
    BY ConstantsAssumption DEF Crash, IInv, TypeOK
  <1>d. \A r \in Requests : req[r].pc # "idle" => req[r].inst \in Instances
    BY DEF IInv, RequestsOK, RequestOK
  <1>e. n \notin {NoInst}
    BY ConstantsAssumption
  <1> USE DEF IInv, FinalPcs, CallbackPcs, CleanupPcs, taskVars, redisVars, Running
  <1>1. TypeOK'
    BY <1>a, <1>b, <1>c, <1>d, <1>e DEF TypeOK
  <1>2. RequestsOK'
    <2> SUFFICES ASSUME NEW q \in Requests PROVE RequestOK(q)'
        BY DEF RequestsOK
    <2>1. CASE req[q].inst = n
      BY <2>1, <1>a, <1>b, <1>c, <1>d, <1>e DEF RequestsOK, RequestOK
    <2>2. CASE req[q].inst # n
      BY <2>2, <1>a, <1>b, <1>c, <1>d, <1>e DEF RequestsOK, RequestOK
    <2> QED BY <2>1, <2>2
  <1>3. TasksOK'
    BY <1>a, <1>b, <1>c, <1>d, <1>e DEF TasksOK, TypeOK
  <1>4. SavedOnce'
    BY <1>a, <1>b, <1>c, <1>d, <1>e DEF SavedOnce, ItemSetsWithinHash, NotSaving, TypeOK
  <1>5. StopsOK'
    <2> SUFFICES ASSUME NEW q \in Stoppers PROVE StopOK(q)'
        BY DEF StopsOK
    <2>1. CASE stop'[q].pc = "dead"
      BY <2>1, <1>a, <1>b, <1>c, <1>d, <1>e, ConstantsAssumption DEF StopsOK, StopOK, NotSaving, StopUnderWay, TypeOK, TasksOK
    <2>2. CASE stop'[q] = stop[q]
      <3>2. ASSUME NEW t \in Tasks, state'[t] = "running", StopUnderWay(t)
            PROVE  StopUnderWay(t)'
        <4>1. state[t] = "running" /\ owner[t] # n
          BY <1>c, <3>2
        <4>2. owner[t] \in Instances /\ inbox \in [Instances -> SUBSET Tasks]
          BY <4>1 DEF TasksOK, TypeOK
        <4>3. inbox'[owner[t]] = inbox[owner[t]] /\ owner'[t] = owner[t]
          BY <1>c, <4>1, <4>2
        <4> QED BY <1>c, <3>2, <4>1, <4>3 DEF StopUnderWay
      <3>3. \A t \in Tasks : state'[t] = "running" => state[t] = "running"
        BY <1>c
      <3>4. rtasks' = rtasks /\ item' = item
        BY <1>c
      <3>5. StopOK(q)
        BY DEF StopsOK
      <3>6. PICK z : z = stop[q] /\ z = stop'[q]
        BY <2>2
      <3>7. ASSUME z.pc \in {"hget", "publish", "pipe", "scard", "del"}
            PROVE  /\ z.inst \in Instances /\ z.task \in Tasks /\ z.todo \subseteq Tasks
                   /\ \A t \in {z.task} \cup z.todo : state'[t] # "new" /\ NotSaving(t)'
                   /\ z.pc = "pipe" /\ state'[z.task] = "running" => StopUnderWay(z.task)'
        <4>1. /\ z.inst \in Instances /\ z.task \in Tasks /\ z.todo \subseteq Tasks
              /\ \A t \in {z.task} \cup z.todo : state[t] # "new" /\ NotSaving(t)
              /\ z.pc = "pipe" /\ state[z.task] = "running" => StopUnderWay(z.task)
          BY <3>5, <3>6, <3>7 DEF StopOK
        <4>2. z.pc = "pipe" /\ state'[z.task] = "running" => StopUnderWay(z.task)'
          BY <3>2, <3>3, <4>1
        <4>3. ASSUME NEW t \in {z.task} \cup z.todo PROVE state'[t] # "new" /\ NotSaving(t)'
          <5>1. t \in Tasks /\ state[t] # "new" /\ NotSaving(t)
            BY <4>1
          <5>2. NotSaving(t)'
            BY <1>a, <5>1 DEF NotSaving
          <5>3. state'[t] # "new"
            BY <1>c, <5>1
          <5> QED BY <5>2, <5>3
        <4> QED BY <4>1, <4>2, <4>3
      <3> QED BY <3>4, <3>5, <3>6, <3>7 DEF StopOK
    <2> QED BY <1>b, <2>1, <2>2
  <1>6. HiddenOK'
    BY <1>a, <1>b, <1>c, <1>d, <1>e DEF HiddenOK, StopUnderWay, TypeOK
  <1> QED BY <1>1, <1>2, <1>3, <1>4, <1>5, <1>6

-----------------------------------------------------------------------------
\* Every step, stuttering included, keeps the inductive invariant.
LEMMA NextKeeps == IInv /\ [Next]_vars => IInv'
  <1> SUFFICES ASSUME IInv, [Next]_vars PROVE IInv'
      OBVIOUS
  <1>1. ASSUME NEW r \in Requests, NEW n \in Instances, NEW i \in Items, NEW t \in Tasks,
               StartRequest(r, n, i, t)
        PROVE IInv'
    BY <1>1, StartRequestKeeps
  <1>2. ASSUME NEW r \in Requests, RequestStep(r)
        PROVE IInv'
    BY <1>2, RedisSaveTaskKeeps, NextModelKeeps, LastModelKeeps, EmitActiveKeeps
       DEF RequestStep
  <1>3. ASSUME NEW t \in Tasks, BodyEnds(t) \/ FinallyStep(t) \/ CallbackStep(t)
        PROVE IInv'
    BY <1>3, BodyEndsKeeps, FinallyBeginsKeeps, FinallyCleanupKeeps, FinallyPopKeeps,
       FinallyCheckKeeps, FinallyEmitKeeps, FinallyCancelledKeeps,
       CallbackCleanupKeeps, CallbackPopKeeps
       DEF FinallyStep, CallbackStep
  <1>4. ASSUME NEW s \in Stoppers, NEW n \in Instances, NEW t \in Tasks, StopTask(s, n, t)
        PROVE IInv'
    BY <1>4, StopTaskKeeps
  <1>5. ASSUME NEW s \in Stoppers, NEW n \in Instances, NEW i \in Items, StopItemTasks(s, n, i)
        PROVE IInv'
    BY <1>5, StopItemTasksKeeps
  <1>6. ASSUME NEW s \in Stoppers, StopStep(s)
        PROVE IInv'
    BY <1>6, StopHgetKeeps, StopPublishKeeps, StopCleanupKeeps DEF StopStep
  <1>7. ASSUME NEW n \in Instances, NEW t \in Tasks, Listener(n, t)
        PROVE IInv'
    BY <1>7, ListenerKeeps
  <1>8. ASSUME NEW n \in Instances, Crash(n)
        PROVE IInv'
    BY <1>8, CrashKeeps
  <1>9. CASE UNCHANGED vars
    BY <1>9 DEF vars, redisVars, taskVars, IInv, TypeOK, RequestsOK, RequestOK, TasksOK,
                SavedOnce, ItemSetsWithinHash, StopsOK, StopOK, HiddenOK, NotSaving,
                StopUnderWay
  <1> QED
    BY <1>1, <1>2, <1>3, <1>4, <1>5, <1>6, <1>7, <1>8, <1>9 DEF Next

LEMMA Inductive == Spec => []IInv
  BY InitIInv, NextKeeps, PTL DEF Spec

\* Every reachable state of the registry is well typed.
THEOREM TypeCorrect == Spec => []TypeOK
  <1>1. IInv => TypeOK
    BY DEF IInv
  <1> QED BY <1>1, Inductive, PTL

\* The pipelines of redis_save_task and redis_cleanup_task keep every item set
\* inside the hash, so stop_task's HGET finds the item of any listed task.
THEOREM ItemSetsStayWithinHash == Spec => []ItemSetsWithinHash
  <1>1. IInv => ItemSetsWithinHash
    BY DEF IInv, SavedOnce
  <1> QED BY <1>1, Inductive, PTL

\* stop_task publishes before it cleans Redis: a saved running task that Redis
\* no longer knows always has a stop command on its way.
THEOREM NeverHiddenUnstopped == Spec => []HiddenOnlyWhileStopping
  <1>1. IInv => HiddenOnlyWhileStopping
    BY DEF IInv, HiddenOK, HiddenOnlyWhileStopping, StopUnderWay
  <1> QED BY <1>1, Inductive, PTL

\* What stop_task has removed from Redis is never written back, also when the
\* owner crashed: a task that can be stopped has no save ahead of it.
THEOREM StoppedTasksStayOut == Spec => []StoppedStaysOut
  <1>1. IInv => StoppedStaysOut
    BY DEF IInv, StopsOK, StopOK, SavedOnce, ItemSetsWithinHash, StoppedStaysOut
  <1> QED BY <1>1, Inductive, PTL
=============================================================================
