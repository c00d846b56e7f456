# A TLA+ verification of OpenLaunch

OpenLaunch is a self-hosted chat platform: a FastAPI server (`backend/openlaunch`)
with a Svelte frontend (`src`).  Several server processes may share one database
and one Redis.  This directory models the parts of the server in which concurrency,
failure and ordering decide whether the program is right, checks them with TLC on
small instances, and proves the most important facts with TLAPS for every instance.
Paths below are relative to `backend/openlaunch/` unless they begin with `src/`.

Contents: 1 inventory, 2 plan, 3 modules, 4 runs and bounds, 5 fairness, 6 proofs,
7 divergences, 8 behaviours the models show, 9 not modelled.

## 1. Inventory

How the parts meet: a browser talks HTTP to the routers and Socket.IO to
`socket/main.py`.  A chat request (`main.py`, `chat_completion`) starts one
background task per model in the **task registry** (`tasks.py`); each task runs the
**middleware** (`utils/middleware.py`), which streams from a provider and, when the
model asks for tools, hands batches of calls to a **tool executor**
(`utils/tool_executor.py`) until it stops asking.  Messages go to **chats**
(`models/chats.py`), events to the socket rooms.  Independently, each process runs a
**scheduler loop** (`utils/automations.py`) that claims due automations, runs them as
chats, and sends **calendar alerts**; two **cleanup loops** and one **task command
listener**.  What the processes share is database rows, Redis keys and pub/sub.

| Component | State | Operations | What is hard | What makes it correct |
|---|---|---|---|---|
| Task registry (`tasks.py`, `main.py` 1499-1676) | `tasks`, `item_tasks`; a Redis hash and a set per item; pub/sub | create, cleanup, stop one, stop all of an item, list, listen | a task ends while it is being saved, two cleanups and a stop race, stop from another instance, crash | live tasks are listed, a stop ends its task, ended tasks are forgotten |
| Tool executor (`utils/tool_executor.py`) | counters per request, three semaphores, circuit breaker | execute a batch, retry, cancel | concurrent calls, cancellation while waiting, budgets in two units | limits hold, permits come back, no batch hangs |
| Automations (`utils/automations.py`, `models/automations.py`, `routers/automations.py`) | automation rows, runs | claim, execute, create, update, toggle, run, delete | several instances claim, edits between select and commit, crash | once per moment, claims are current, every execution accounted for |
| Calendar alerts (`utils/automations.py` 549-650, `models/calendar.py`) | event rows, `meta.alerted_at` | poll, alert, mark; create, save, delete | alert and mark are two steps, whole-column writes of `meta` | never suppressed, not missed, repeated only for a reason |
| Collaborative documents (`socket/main.py`, `YdocManager`, `Collaboration.ts`) | update log, users, room; the editors' copies | join, update, leave, disconnect, compact, clear, debounced save | every `await` of a handler lets another one in; compaction against a push, clear against a join | no update is lost, editors in the room are up to date, an accepted edit is saved |
| Session pool (`socket/main.py`) | `SESSION_POOL`, its lock | connect, heartbeat, disconnect, reaper | lock expiry, read and delete of an entry in two commands | live sessions stay, orphans go |
| Model list (`utils/models.py`, `RedisDict`) | `MODELS` in Redis, each process' signature of it | refresh, look up | a refresh writes, then deletes what is stale; two refreshes at once | a model that is always served is always found |
| Tools and functions (`utils/plugin.py`, `routers/tools.py`, `routers/functions.py`) | the text in the database; in each process the loaded module and the text it is compared by | use, use by a stream, create, update, synchronise, delete | an edit caches its module before it saves the text; other instances learn of it only by comparing | no older module passes for the current text |
| Memories (`models/memories.py`, `routers/memories.py`) | rows, a vector for each | add, update, batch, delete, reset | rows first, vectors after an embedding that may fail | what a prompt is given is what the rows say |
| Chats (`models/chats.py`, `models/chat_messages.py`) | JSON history and message rows | upsert, link, update, delete, read and fill | read-modify-write of a whole chat, two stores | the stores agree, the tree is connected |
| Context compaction (`utils/context_compaction.py`) | summaries at checkpoints of the branch | compact for a request or on demand | what is summarised, kept and sent are three lists | what a request is told covers what precedes it |
| Chat turn (`utils/middleware.py` 3900-5400) | output, what was before it, pending calls | stream, run tools, ask again, save, fail, cancel | a cut at any await; continuing an answer that was cut | all that was shown is saved, no call without its result, the answer is closed |
| Accounts (`routers/auths.py`, `routers/users.py`, their models) | user and credential rows, one setting | sign up (form, OAuth, LDAP), edit, delete | concurrent first sign-ups, two rows per account | one first administrator, who stays; rows agree |
| OAuth sessions (`utils/oauth.py`) | encrypted tokens | sign in, refresh, disconnect, log out | two refreshes with rotating tokens | a stored token is one the provider honours |
| Rate limiter (`utils/rate_limit.py`) | buckets in Redis or memory | count and test | window edges, fallback, death between two commands | limit per rolling window |
| Knowledge directories (`models/knowledge.py`) | parent ids, places of files | create, move, delete subtree | a cycle check against concurrent moves, foreign keys that only one database enforces | a forest, and no file in a directory that is gone |
| Files and their vectors (`routers/files.py`, `routers/retrieval.py`, `routers/knowledge.py`) | file rows (status, text, hash), a collection per file, a collection and a list of members per knowledge base | upload and process, add, edit, refresh, remove, delete, add a batch, reindex, reset, clean up | three stores changed one after the other, with a long embedding in between that may fail; removal by hash beside removal by file | what is found are the current texts of the members; a file stays found while it is edited; no file stays pending |
| Folders | parent ids | insert, move, delete subtree | no check at all on the server | as above |
| Configuration, AgentMail | key/value rows, a mapping inside one value | upsert, rename, repair; provision, select, delete | process-local lock around shared value | no mapping is lost |
| Control plane, data sources, SQL policy | connection and profile rows, audits, engine cache | CRUD, query | engine replaced under running queries | audit for every query |
| Channels, notes, prompts, skills, feedback, groups, grants | one or two tables each | CRUD, broadcast | check-then-insert | mostly single transactions |
| Providers, search, loaders, storage, audio, images, terminals, MCP, code interpreter | none that is shared, or external | proxy, transform | I/O | out of reach of a state model |
| Events, webhooks, telemetry, audit, logging | none read again | emit | fire and forget | none stated |
| Migrations, frontend, build, tests | | | | no concurrent server state |

`PROJECT.json` lists each of these with its sources and, under `hazards`, the lines
at which they can go wrong and the properties that would show it.

## 2. Plan

The order followed what hurts users most: lost control over running tasks, then
unbounded tool use, then double or missing executions, then documents and chats,
then accounts.

| # | Module | Status |
|---|---|---|
| 1 | `TaskRegistryLocal`: one process, list semantics of `item_tasks` | checked, proved (`TaskRegistryLocalProofs`) |
| 2 | `TaskRegistryRedis`: several instances, composed with the fan-out of `main.py` and `process_chat`'s finally block | checked, proved (`TaskRegistryRedisProofs`) |
| 3 | `ToolExecutor`: batches, semaphores, breaker, budgets | checked, proved (`ToolExecutorProofs`) |
| 4 | `AutomationScheduler` implementing the abstract `AtomicClaims` | checked, proved (`SchedulerProofs`) |
| 5 | `CalendarAlerts`, composed with 4 in `MCScheduler` | checked, proved, for the composition too (`SchedulerProofs`) |
| 6 | `CollabDocument`, `SessionReaper` over `RedisLock`, `SharedModels`, `PluginCache`, composed in `MCSocket` | checked, proved (`SocketProofs`) |
| 7 | `ChatHistory`, `ContextCompaction`, `ChatTurn`, `Accounts`, `OAuthSessions`, `RateLimiter`, `KnowledgeTree`, `FileIndex`, `MemoryIndex`, composed in `MCRecords` | checked; proved: the tree of the chat and its rows (`HistoryProofs`), the files (`ContentProofs`), the memories, the accounts, the sessions, the limit of attempts, the turns of an answer, what a compaction keeps and the directories (`RecordsProofs`) |

Every liveness property stays with TLC.

## 3. Modules

Common conventions: an action is what runs between two suspensions of a coroutine,
between two statements of a transaction, or one Redis command or pipeline.  A
definition whose comment begins with "Mutant:" is a plausible wrong version of the
definition that follows it; it is not part of the specification and serves to show
that a property can fail.  `MC*.tla` holds values and symmetry, and composes
modules: `MCPlain`, `MCScheduler`, `MCSocket` and `MCRecords` each put parts side by
side that share no state, so a behaviour follows one part and the others rest in one of
their initial states; an invariant of a part is checked where that part moves.

**TaskRegistryLocal** (`tasks.py` without Redis).  `tasks` is a set of keys,
`item_tasks` a sequence per item, because `stop_item_tasks` iterates over the live
list.  A task is scheduled, running, in its finally block, emitting, or ended; chat
tasks deregister themselves in `process_chat`'s finally block, save tasks only
through the done callback.  A stopper is a caller of `stop_task` or
`stop_item_tasks`; `live` records whether the list it iterates is still the one in
the dictionary.  `Yielded` says that the loop of a stopper, which awaits nothing
between two finished tasks, is not interrupted.

**TaskRegistryRedis** (`tasks.py` with Redis).  `rtasks` is the hash, `ritem` the
sets.  The pipelines of `redis_save_task` and `redis_cleanup_task` are single steps;
SCARD and the DELETE after it are separate.  `inbox` is what pub/sub has delivered
to an instance and its listener has not handled.  A request creates one task per
model and emits `chat:active`; a task ends, cleans up in its finally block and again
in its callback; a stop call looks the task up, publishes, and cleans Redis itself
when the task is not local.  `Crash` ends the coroutines of an instance and leaves
Redis as it is.

**ToolExecutor** (`utils/tool_executor.py`).  Per request the counters of
`ToolExecutor`; per call the position in `_execute_one`; the three semaphores as
sets of holders.  The limit of a class semaphore is set by the first call of the
class (`setdefault`).  Tools succeed with a size, fail, time out or raise
CancelledError; the breaker's window is abstracted to "some of the recorded failures
are recent".  `ReturnBatch` charges the results to the budgets in emitted order, as
the code does.

**AutomationScheduler**.  Rows have a state, `is_active`, a rule and `next_run_at`.
A rule is the set of moments at which it fires, so `next_run_ns` is the least later
member.  `ClaimSelect` and `ClaimCommit` are the two halves of `claim_due`; on
PostgreSQL the selected rows are locked in between, on SQLite they are not and a
vanished row rolls the claim back.  An execution passes the gate (owner, permission,
chat creation) and ends in one run record on every path.  The HTTP handlers compute
`next_run_ns` before they load the row and write only changed columns.  `claims`,
`edits`, `begun`, `recorded` and `lost` are history variables.

**AtomicClaims** is what the scheduler promises: all instances together act as one
that claims due rows in a single step, while users write single rows.
`AutomationScheduler` instantiates it on its own `now`, `row` and `claims`
(`ImplementsAtomicClaims`); select, rollback, executions and crashes are stutters.

**CalendarAlerts**.  A pass of `_check_calendar_alerts` polls, then for each row it
saw skips, or emits and marks.  The mark and a save of the user both load the row and
later write `meta` as a whole.  A tick is a part of the poll interval.

**CollabDocument** (ydoc handlers and `YdocManager`; the provider of
`Collaboration.ts` on the other end).  The log is a sequence of updates, each a set of
edits; an editor merges what it receives.  Every event is handled by a job, and `pc` is
the `await` it has reached: with Redis every command is one, without it only the
database and the emits are, so that the rest of a handler is not interrupted
(`Uninterrupted`).  Editors connect, edit, lose the connection and come back, close;
an update cancels the pending save and schedules its own.  `raced` notes that a
compaction with Redis has written over a log that was not the one it had read.

**RedisLock**, **SessionReaper**.  Acquire, renew and release of `RedisLock` as
operators on the state of its key; the reaper takes the lock, looks at one listed session after
another, deletes in a second command, renews, sleeps.  Ages, naps and expiry count
ticks.  A crash orphans the sessions of its instance.

**SharedModels**.  A refresh fetches from the providers, applies the overrides of the
administrators, compares with what this process wrote last, and brings the hash in
line with HKEYS, HSET and HDEL; `chat_completion` finds a model and gets it
in two commands.

**PluginCache**.  `source` is the text in the database, `module` and `content` what an
instance has in TOOLS or FUNCTIONS and in the contents beside it.  A use reads the text,
compares, and loads what differs; a stream takes what is there; an edit loads, caches
the module and saves.  `reverted` is set when a text comes back, a save fails or
changes nothing, or a stream writes an old text.

**ChatHistory** (`models/chats.py`, `models/chat_messages.py` and the routes and tasks
that call them).  `blob` is the JSON history, `rows` the message table.  A request is a
script of steps (save, link, touch, delete, update, read); each loads the blob in one
transaction, writes its copy of it in another and the rows in others.  Writers
interleave at every transaction and may die there.  `DeleteFrom`, `MergeHistory` and
`LastLeaf` are the pure algorithms on the tree.  `removed` maps a message a user has deleted
to the number of messages there were by then, the first time: what is sent below it later
stays without a parent that lists it, also when a tab saves the deleted message again and
deletes it once more (`SentLate`).  `Selection` has the one operator on sequences that it
shares with `ChatTurn`.

**ContextCompaction**.  The branch of one chat in the order of its messages.  `Ask`
is a request: it starts at the last checkpoint, and if it exceeds the budget it
summarises, keeps and stores as the code does; `CompactBranch` is the endpoint.
`summaries` maps a checkpoint to the messages its summary stands for; `asked`, `told`
and `kept` say what the last request should have been, was, and was kept beside a
summary.

**ChatTurn** (the streaming handler and the try/except of `process_chat`).  Texts and
calls arrive, the stream ends, tools run, the model is asked again; `output` and
`prior` are the two lists the code juggles.  A failure or a cancellation may cut it at
any await, and the user may let the model continue a cut answer.  `shown`, `ran` and
`stale` are history variables.

**Accounts**, **OAuthSessions**, **RateLimiter**, **KnowledgeTree**: requests as
handlers of one transaction (or one Redis command) per step.  `disturbed` records
whether requests overlapped, so that what holds only for requests in sequence can be
stated beside what holds always.  `enforced` in `KnowledgeTree` is the database:
PostgreSQL enforces foreign keys and locks written rows, SQLite does neither, but has
one writer at a time.

**FileIndex** (the handlers of the three routers, with `process_file`,
`save_docs_to_vector_db` and `process_files_batch`).  `row` is the file's row, `own`
its collection, `base` the vectors in the collection of the one knowledge base,
`members` the list of the base.  Each handler is the sequence of its commits and calls
to the vector database; `process_file` is shared by uploads, additions, edits,
refreshes and reindexing, and `After` says how each goes on when it has returned or
raised.  A text stands for its hash as well, so equal texts are duplicates.  The
loader, the embedding and the foreign key of a membership may fail, and a request may
die at any step.  The two deletions of `Clear` (by file and by hash) are one step, and
sessions are not shared (`DATABASE_ENABLE_SESSION_SHARING` is off by default), so that
every write of a row commits by itself.  `disturbed` records that requests overlapped or
died, `mixed` that a request which removes vectors of the base overlapped another, and
`doubled` that two files had one text or a member was added again.

**MemoryIndex**.  `rows` and `vectors` are the two stores of one user.  `Applied` is one
operation of a batch inside its transaction, with the flushes of a session that does
not flush by itself.  `astray` collects the memories two requests at once, or a failed
one, were about; a reset or a deletion of all, alone and to its end, empties it.

The modules whose names end in `Proofs`: section 6.

## 4. Runs and bounds

| Run | Question | Instance |
|---|---|---|
| `plain_deployment` | Without Redis and PostgreSQL: are live tasks reachable, do stops wait and return, does nothing leak?  On SQLite: is everything due claimed, and nothing deleted? | 2 tasks of either kind, 2 items, 2 stoppers; 2 automations due at once, 2 instances, 1 request, 1 crash |
| `redis_tasks` | Do hash and sets stay consistent, is a running task ever hidden? | 2 tasks, 2 instances, 1 stop call, 1 crash |
| `redis_tasks_live` | Does a published stop take effect, is an ended task forgotten? | 1 task, 2 instances, 2 stop calls |
| `redis_late_save` | Is a finished task ever listed?  **Yes** | 2 tasks, no crash |
| `tool_batches` | Do limits, quota, cap and budgets hold under retries and cancellation; does every batch end? | 2 requests, 7 calls, 3 tools, 1 global permit |
| `scheduler` | PostgreSQL: once per moment, current claims, all executions accounted for, atomic?  Are alerts suppressed, missed, or repeated without reason? | 1 automation, 2 instances, 2 requests, 1 crash, 2 moments; 1 event with 2 possible starts, 2 requests, 4 ticks |
| `socket` | Are updates lost, editors out of date, saves forgotten; live sessions reaped; served models not found; old code run? | 2 editors, an edit, 2 connections and a departure between them, compaction at 2 updates; 2 instances with a session each, 1 crash; 2 models, 4 refreshes, 1 restart; 3 texts of a tool or function, 2 instances, 4 requests, any restarts |
| `session_orphans` | Is every orphaned session reaped?  **No** | 2 instances with a session each, 1 crash |
| `records` | What do concurrent requests leave in the database? | below |
| `context_forgets` | Is a request told everything that precedes it?  **No** | a branch of 5 turns |
| `oauth_refresh` | Does a session that was renewed stay?  **No** | 2 requests, 2 sessions |
| `directory_orphans` | Do subdirectories go with their directory?  **Not on SQLite** | 3 directories, 1 file |

`records` has two writers, 4 messages (at most 2 of them there from the start, in any
shape, with any of their rows), 2 scripts and fan-outs of 2; 5 turns for compaction;
4 items, 2 tool rounds and 2 turns for an answer; 3 accounts in 4 requests over 2
addresses; 3 OAuth sessions, 2 per user, in 4 requests; 2 attempts against a limit of
1 per window of 2 seconds, for 4 seconds; 3 directories and a file in 5 requests; 2
documents with 2 texts, in any of the states requests in sequence leave, in 2 requests; 2
memories with 2 texts in 3 requests, batches of 1 or 2 operations.  Its symmetry
exchanges both members of every pair at once, which each module allows, and the two
documents also by themselves, as no other part has them.  One text is as good as
another, so a file that is there in `FileIndex` begins with the first, and a new text of
`PluginCache` is the first that is unused.

Why the bounds are enough.  Races in the registry are between one task and its two
cleanups, its save and a stop; a second task is needed only for the shared item set and
list, and a second instance for remote stops.  The quota of the tool plan is one below
the number of concurrent calls, the cap is reached by the first batch so that the second
is refused, sizes straddle the budgets, and the global limit is below the demand of the
two requests.  Two instances and two writers exhaust the pairs of transactions on one
row.  The alert run covers a start inside, at the edge of and beyond the grace window.  A
document needs one editor that joins, updates or leaves while the other does; the second
connection makes a reconnect meet its own disconnect, and a threshold of 2 compacts with
the first updates.  With Redis, where each command suspends, the two editors of `socket`
make no edits of their own (`Bounded`): their seeds and resends are updates enough.  Four
messages hold a branch with a fan-out below it or a deletion with a grandchild; two
scripts exhaust the pairs of operations.  Three accounts are a first one and two that
race; three directories are the shortest chain in which two moves, each allowed, close a
cycle.  Two documents are needed for a duplicate and two texts for an edit; two requests
are a failure and what follows it, or two handlers that overlap at any step.  Three
requests are two about one memory and the reset that heals it; batches of two hold every
pair of operations.  Four requests are two uses of a plugin with an edit on either
instance.  Five turns hold two compactions, the second over the first one's summary.
Counters of history variables grow only with bounded actions.  Deadlock checking is off
where requests and the clock may be exhausted; the registries stop only in `AllOver`, an
explicit stutter, so there deadlock is checked.

## 5. Fairness

The event loop runs every coroutine that is ready, so the steps of a coroutine are
weakly fair; `asyncio.Semaphore` wakes waiters in order and `wait_for` bounds each
attempt, so calls of a batch are weakly fair as well.  Nothing obliges a body to end
by itself (an answer may stream for ever): it is bound to end only once it is
cancelled.  Users, requests, crashes, time and time-outs of the breaker have no
fairness.  The scheduler loop catches every exception and polls for ever
(`scheduler_worker_loop`), and a crashed instance is restarted, which makes the claims
of each instance weakly fair.  In `TaskRegistryRedis` Redis answers and pub/sub
delivers.  `SessionReaper` assumes that a reaper goes on while it exists, that browsers
send their heartbeats and that time passes; that is all its counterexample needs.
Everything in `socket` and `records` is safety.

## 6. Proofs

Checked by TLAPS for all values of the constants, from the named assumptions on them
(`DistinctNone`, `ConstantsAssumption`, `SchedulerConstants`, `ExecutorConstants`,
`EmittedOnce`, `ChatConstants`, `CalendarConstants`, `ReaperConstants`, `ListConstants`,
`CacheConstants`, `VersionConstants`, `TurnConstants`, `TreeConstants`,
`SessionConstants`, `WindowConstants`), which TLC evaluates for the instances of the runs.

`SchedulerProofs`, `SocketProofs`, `RecordsProofs` and `ContentProofs` extend the
compositions `MCScheduler`, `MCSocket` and, both of the latter, `MCRecords`, whose
constants stay arbitrary in them: a theorem about `MCSpec` is about the very formula that a
run checks.  `HistoryProofs` extends `ChatHistory` alone, whose variables and properties
`MCRecords` takes over unchanged.  A behaviour of such a composition is
one of each of its parts (`EachPart`), since a step is one of one part and leaves the
others alone; so what is proved of a part, over its `INSTANCE`, holds of the composition.

*Registry of one process.*  `TypeCorrect`, `Tracked` and `StopWaits` follow from

    IInv == TypeOK /\ ListsOK /\ TasksOK /\ CleanupToCome /\ StopsOK
            /\ UnreachableOnlyWhileStopping /\ StoppedMeansEnded

`ListsOK` says that the lists of `item_tasks` hold no task twice, without which
`list.remove` would not remove it; `RemoveFromDistinct` and `AppendToDistinct` are the
facts about lists this rests on.  `CleanupToCome` says that a task still listed after
its end has its done callback to come, which is why nothing leaks, and
`UnreachableOnlyWhileStopping` that a task taken out of `tasks` by a stop is cancelled
and awaited by the stop that took it.

*Redis registry.*  `TypeCorrect`, `ItemSetsStayWithinHash`, `NeverHiddenUnstopped` and
`StoppedTasksStayOut` follow from one inductive invariant,

    IInv == TypeOK /\ RequestsOK /\ TasksOK /\ SavedOnce /\ StopsOK /\ HiddenOK

The heart is `SavedOnce`: what has been in Redis, or has its id known, is not saved
again, so that a stop call, which can only know such tasks, is never overtaken by a
save.  `StopsOK` keeps what a stop call knows of its task between its steps, and
`HiddenOK` extends `HiddenOnlyWhileStopping` to the moment the save has landed, before
the request goes on.  One lemma per action, one step per conjunct.

*Tool executor.*  `TypeCorrect`, `LimitsHold` and `BudgetsAreKept` follow from

    IInv == TypeOK /\ BatchesOK /\ PermitsOK /\ SemaphoresOK /\ CapOK /\ QuotaOK
            /\ CancelledLeavesNothing

`PermitsOK` says exactly which calls hold which permit, from where they are: without it
"what runs is bounded" is not inductive, since a release could free what another call
still uses.  `CapOK` relates `calls_used`, which only counts returned batches, to all
accepted calls; `QuotaOK` says that every call let through was counted.  Both need
`EmittedOnce`, that no two batches of a plan share a call.  `TurnTyped` shows that the
running sums of a turn are natural numbers: the recursive function that computes them
exists on its interval (`RecursionOnInterval`) and a least position with another value
is impossible.

`BudgetsAreKept` adds `BudgetsOK`: up to the last batch that has returned, the results a
request keeps are within the budgets, batch by batch and all together, and its counters
are the sums of all results, kept or replaced.  The model adds up in two ways, along the
batch when it charges and over a set when it states what holds.  `SmallerFirst`, that a
family of finite sets containing each set whose smaller ones it contains has them all,
gives the laws of sums (`TotalOfUnion`, `TotalOfPart`, `TotalOfEqual`), whatever the order
of the summands; `RunningTotal`, by a least position again, that both ways agree; and
`KeptTotal` that what is only kept while the running total is within a limit is within
it.  `OneMoreBatch` puts the four limits together, and `ReturnedBefore` says that nothing
returned is charged again or changed.

*Documents.*  `TypeCorrect`, `NothingLost`, `UpToDate`, `OnceSeeded` and `AlwaysDue`
follow, in one process as with Redis and from no assumption on the constants, from

    IInv == TypeOK /\ SidsKnown /\ OneProcess /\ Departed /\ OwnEdits
            /\ Reached /\ OneSeeder /\ SaveIsDue

`Reached` is `RoomIsUpToDate` for the time in which the state is on its way: what the log
holds has reached an editor in the room, or is in its mail, or underway, or its join has
still to read the log.  It needs `OwnEdits` (an update skips its sender, which must have
what it sent) and `SidsKnown` (a new connection is not in the room by an old number).
`OneProcess` says that a document about to be cleared has no users, because no other
handler runs between the check and the clearing; that and `ContentOfCompacted`, that
squashing the older half of a log keeps its content, are why nothing is lost.
`OneSeeder` says that at most one editor has been told it is alone, and that it is in
the room as long as nobody has left.

*Automations.*  `TypeCorrect` and `NoClaimOfDeleted` hold on either database.
`NoDoubleClaim`, `NoStaleClaim` and `AtomicOnPostgres` assume `Postgres` and use

    IInv == TypeOK /\ Selections /\ Requests /\ Claims

`Selections` says that locked rows are selected by one instance only and still are
what it loaded.  `Requests` bounds what a handler may write back by the moments not
yet claimed.  `Claims` says that a moment beyond the row's next run has been claimed
no more often than edits allow, and strictly less if the row still stands at it; it is
what makes `OncePerSchedule` inductive.  `AtomicOnPostgres` maps `ClaimCommit` to
`Claim(selected[i])`, ticks and handler commits to `Tick` and `Write`, all else to a
stutter.  The existence of a least later moment comes from the well-foundedness of <
on the naturals.

`RunsAreAccounted` is about what executes after a claim, on either database.  `Accounted`
names each execution underway, by its instance, its stage and a number, and says that there
are finitely many and that those begun are these, those recorded and those lost: a step
that begins, moves or ends one adds or removes one name, and a crash, which may cut off
many at once, removes those of its instance and counts them.  `RunsAccounted` is the same
statement about the sets the run evaluates.

*Calendar alerts.*  `CalendarAlertsHold` follows from

    AlertInv == Calendar!TypeOK /\ RowsOK /\ LoopsOK /\ HandlersOK /\ AlertsCounted /\ PassedByCrash

`AlertsCounted` follows an alert to its mark: until the row is marked, each alert given is
one a loop is about to mark, or one whose mark was lost to a crash or a later write of
`meta`; once it is marked, only passes that had selected the event before can still
alert.  `PassedByCrash` is why nothing due is missed: of an event that is due and not
announced, the instances whose poll has gone past its start without still holding it are
at most the crashes.  Both are statements about cardinalities, and both need that the
pause between two polls is within the grace period.

*Session pool.*  `LiveStay` follows from `PoolInv == Reaper!TypeOK /\ Heard /\ DoomedEnded`: a
connected session is in the pool and was heard of within the interval of its heartbeats,
so a pass that finds a session too old has found one that has ended, and what a pass is
about to delete stays ended.  The only thing asked of the constants is that browsers send
heartbeats at least as often as the pool forgets.  Nothing is said of the lock: live
sessions stay whether or not two cleanups overlap.

*List of models.*  `ListServed` follows from

    ListInv == List!TypeOK /\ SteadyListed /\ SteadyFound /\ SoleWriter /\ List!SoleWriterAgrees

`SteadyListed` says that what a refresh has fetched, or is about to write, holds every model
that all of them list, and that none of these is among the keys it is about to delete;
`SoleWriter` follows the hash through the three commands of the one process that writes it.

*Plugins.*  `PluginsFresh` rests on `LatestUsed` and `NoOldRow`, which follow from

    CacheInv == TypeOK /\ EditsOK /\ AllKnown /\ LoadedWithText /\ EditsAreNew /\ LatestIsUsed

`EditsAreNew` is the heart.  As long as no text has come back, a text that an edit is
about to save is nowhere but in the cache of the edit's own instance, so no comparison
elsewhere can take an older module for it.

*Chat rows.*  `FanOutKept` states `RowsKeepFanOut` for any number of turns and any
scripts that `ChatConstants` admits.  The inductive invariant is `rewritten` or

    Good == ShapesOK /\ TextsToCome /\ Apart /\ WholesaleAlone /\ NothingYet
            /\ LinksKeepTexts /\ RowsToCome /\ RowsOK /\ Serial

`Apart` says that a step that carries a text is of a message no other script writes.
`LinksKeepTexts` is why the rows survive although the turns overwrite each other in the
JSON history: a step that only links a message changes its row to what the turn's copy of
the history says, and that copy either agrees with all the others or holds no text of it.
`TextsToCome` and `RowsToCome` follow a text from the script to the blob and from there to
its row.  `WholesaleAlone` and `Serial` say that the operations that write a whole history
run alone.  Once a client has written an old copy back, or a link has been made below an
answer another turn has overwritten (`rewritten`), nothing is claimed; that is the
behaviour section 8 describes.

*Chat tree.*  `HistoryStaysInOrder` states `HistoryInOrder`, for any number of writers and
messages.  It follows from

    HistoryInv == Shapes /\ Existing /\ HealInv /\ SerialInv

`Shapes` says what a history, a row, a step of a script and a writer between two of its
transactions are; a message is younger than its parent and older than its children
(`MessageOf`), which is all the types that walks along parents need to end, and what
`HistoriesTyped` states by itself.  `SerialInv` is about scripts that run one after the
other.  The invariant of the state between two scripts, `Settled(NoScript)`, does not hold
while one runs: a message that is sent is saved below its parent before the parent lists it,
and its answers are listed before they are saved.  `OnTrack(M, s)` therefore says that the
tree M is in order but for what the rest s of the script brings (`ToCome`, `LinkToCome`),
and that s will bring it: it saves no message twice, has the parent of each before it, links
it after it was saved, and links only children that are there or that it saves.  `Work` adds
what the one writer has in hand in each phase, whose copy is the stored history with its
step applied, and which rows it has not brought in line yet (`Pending`).  That a message
sent below a deleted one is excused (`SentLate`) is kept by any later deletion because the
first count of messages at which it was deleted is kept, and `Known` says that a tab shows
nothing that is neither there nor deleted, so that what a tab that writes its whole copy
back (`Update`) brings is in order too.  `HealInv` follows an update that runs alone,
whatever happened before it: after `merge_history` the children agree with the parents
(`MergeIs`), and when its last row is filled the rows agree with both.

What the functions on histories compute is stated once each: what a deletion leaves
(`DeleteIs`), an upsert (`UpsertedIs`), a merge (`MergeIs`) and a repair, which changes
nothing but the current message (`RepairIs`).  They are defined by sorting, flattening and
walking.  The lemmas on those are proved here from the least element of a set of numbers
(`LeastExists`), since the library's induction cannot be used: that a function on 0..n can be
defined by its first value and a step (`RecursionOnInterval`) is one of them.

*Compaction.*  `OnlyKeptForgotten` follows, for branches of any length, from

    ContextInv == SummariesStand /\ OnlyKeptAreForgotten

`SummariesStand` says of every checkpoint that the messages before it are in its summary or
were kept beside one: a summary takes in the one before it, and what lies between the old
checkpoint and the boundary is in neither unless it is summarised now or kept.  A request is
told the latest summary of its branch and what follows its checkpoint (`SinceIs`), so it can
only miss what was kept.

*Files.*  `FilesAreServed` states all of `FilesServed`, for any number of files, texts and
requests that fail or die at any step.  It follows from

    FilesInv == FilesOK /\ FileCallOK of each request /\ Numbered /\ PendingAwaited
                /\ Unmixed /\ SerialCalm

`PendingAwaited` is why no file stays pending: one request has it in hand, in a stage from
which each outcome writes another status, unless a request died.  `Unmixed` is why a file
stays found: the only step of the additive requests that removes vectors is an edit dropping
those it had noted, and by then the vector it has put in is newer than all of them, which no
other additive request can remove because what it has noted is older.  `SerialCalm` is what
requests in sequence keep: `Calm` says, for each stage of the one request at work, how far
the rows, the files' own collections, the vectors of the base and its members agree, and what
that request has still to do about it; with no request at work it is the agreement that
`FilesAgree` asks for.  That two files have the same text, or a member is added again
(`doubled`), exempts only what is then no longer true, that a member is found by its text.

*Memories.*  `MemoriesFound` follows from

    RecallInv == StoreOK /\ RecallsOK /\ OneEach /\ AllDue /\ Recall!MemoriesAgree

`AllDue` is the heart: of a memory it is about, what a request has still to do makes the
collection agree with the rows as they are now, unless the memory is astray.  `OneEach` says
that two requests are about one memory only if it is astray, and that whoever still is
alone is the only request, which is why a reset or a deletion of all memories may answer
for those astray too (`Charge`).  Three lemmas say what is kept when a request starts, goes
on and ends; `BatchOK` says of the transaction of a batch, after each operation, what
`AllDue` asks for at its commit.

*Accounts.*  `AccountsAreServed` states the invariants and the action property of
`AccountsServed` for any number of users, addresses and requests.  It follows from

    RegisterInv == AccountsOK /\ PrimaryOK /\ InTurn

`PrimaryOK` holds whatever overlaps or dies.  A request that is about to promote, delete or
demote a user passed its check transactions ago; `Entitled` says that the check still holds
when it writes: users only come after the primary one, and a primary user is never deleted,
so who is the primary user never changes (`PrimaryFixed`), and a user found to be alone is
the primary one or gone.  `InTurn` follows one request that runs by itself through its
transactions: `Stage` says how far the user rows and the credential rows agree at each, and
`Resting` that they do when it has ended.

*Sessions.*  `SessionsAreHonoured` follows from

    TokensInv == TokensOK /\ RefreshOK /\ SignInOK

`RefreshOK` says that one request refreshes a session (`SoleRefresh`) and that the token it
has brought back is the one the provider honours now (`InHand`), unless the session is
`torn`, which it is once two refreshes were seen at it or one was cut short between the
provider and the row.  `SignInOK` says of a sign-in that is the only one what it leaves of
the sessions: what it has still to prune aside, they are fewer than the limit
(`RoomToCome`), because no more than n of the sessions have fewer than n newer ones
(`NewestAtMost`).  It needs that the limit is positive (`SessionConstants`; env.py has 10):
the row of the new session is written whatever the limit.

*Limit of attempts.*  `LimitIsKept` follows, as long as no bucket ends under a call, from

    LimiterInv == LimiterOK /\ InBucket /\ Lasting /\ RedisCounted /\ MemoryCounted /\ LimitKept

`RedisCounted` is the heart: in each bucket that still matters, the calls that passed and
those between INCR and their answer are no more than Redis has counted, so a call about to
be answered is counted itself.  `Lasting` is why a bucket is there as long as it is counted
(EXPIRE gives it the window and one bucket more).  A total is the number of the attempts
counted, one by one, so what passed within a window is mapped into it one to one
(`AtMostTotal`), bucket by bucket; and a window reaches no further back than the buckets a
call counts (`WindowCounted`) if it is a number of them (`WindowConstants`; the one
limiter of the code, in routers/auths.py, has buckets of 60 s and a window of 180 s).

*Turns.*  `TurnsAreKept` states `TurnIsKept` for any number of items, rounds of tools and
turns that continue an answer.  It follows from

    TurnInv == TurnTyped /\ TurnPhases /\ TextKept /\ OnceOrStale

`TurnPhases` says for each phase of the handler which calls are without a result: only
those a cut turn left while a stream runs, and those about to be queued, queued or being run
otherwise (`WhileStreaming`, `WhileLooping`, `WhileRunning`), so that none but the stale ones
is left when the model is asked again (`WhileAsking`); and that a turn that ends uncut has
stored what it has shown (`WhileEnding`).  No call runs twice because what is queued has not
run unless it is stale (`Ready`), and a new number is on no list (`NewItem`).  The lists are
without repetition throughout: `SelectFinds` says that choosing from one what satisfies a
condition finds exactly that, once each, by a least position at which it would not.

*Directories.*  `DirectoriesAreInOrder` holds on either database, for any number of
directories, files and requests.  Once requests have overlapped or named what is gone
(`upset`) nothing is claimed; until then

    TreeGood == TreeShape /\ OneAtWork /\ Acyclic /\ FilesLed /\ TreeCallOK of each request

`Acyclic` is stated over sets, that among any directories there is one whose parent is not
among them, so that no step needs a chain to be walked.  A move keeps it because what it has
seen on its way up is closed under parents and does not hold the directory it moves
(`WalkOK`, `WriteOK`); a deletion because it only takes away.  `VisitOK` says that what a
deletion has visited is below its directory and that what is below that is visited or to be
visited: when it commits, all files of the subtree are in its hand, and their new place, the
parent of its directory, is not in the subtree.  `FilesLed` is weaker than that all parents
are there, which on SQLite is lost with the first deletion of a directory that has others in
it.  `BelowIs` ties this to what the run evaluates: the function that goes down level by level
reaches everything below, because a level that adds nothing ends it and there are no more than
`MaxDirs` directories to add.

Only model-checked: every liveness property (fairness is out of the prover's reach), and
`TypesOK`, of which `HistoriesTyped` has the part of `ChatHistory` and `TurnPromises` that of
`ChatTurn`.  The inductive invariants of the other parts begin with types of their own, which
say what their proofs need and not each bound that `TypesOK` states.

## 7. Where code and documents disagree

1. `list_tasks` says active tasks; `create_task` starts a task before its Redis save,
   and a task that ends first is saved after its cleanup and stays listed
   (`redis_late_save`).
2. The session cleanup says it reaps the sessions of crashed instances.  It sleeps for
   120 s with a lock that lives for 60 s, fails to renew it and ends after its first
   pass (`session_orphans`).
3. A compaction keeps recent messages beside its summary, and stores the summary
   behind them: the next request knows them neither from the summary nor as messages
   (`context_forgets`).  `OnlyKeptAreForgotten` shows that nothing else is lost.
4. `_refresh_token` claims protection against concurrency; with a provider that
   rotates tokens the second of two refreshes deletes the session the first has renewed
   (`oauth_refresh`).  `SessionsHonoured` shows that refreshes in sequence are safe.
5. `delete_directory` relies on a cascade SQLite does not perform
   (`directory_orphans`).

## 8. Behaviours the models show

The models contain these, and no statement of the code forbids them.

*Tasks and tools.*  `chat:active` may be emitted as true after the last task of the
chat has ended.  `stop_item_tasks` iterates over the list its own cancellations
shrink: of two tasks of an item one keeps running.  A tool call admitted before the
breaker opened still runs, and its success closes the breaker; after a tool raises
CancelledError the other calls of its batch run on without a gather to return to.

*Automations and alerts.*  On SQLite, where `claim_due` locks no rows, two instances
claim the same moment, although models/automations.py:260 says a row can never be
double-claimed.  `max_count` may be exceeded by two concurrent creations; one of two
concurrent toggles is lost; an execution may record a run for an automation already
deleted.  The mark of an alert survives a change of the start: the moved event is not
announced again.

*Socket.*  With Redis, a compaction of the log that meets a push or another compaction
loses updates or brings some back, and an editor that reads the log in between never
sees those that come back; `RoomIsUpToDate` and `NothingDropped` speak of what holds
until then.  Two editors that connect to an empty document on
different instances both put the stored text into it.  Two instances that refresh the
list of models may leave it without a model only one of them knows, and a lookup
between whose two commands the model goes is answered as for an unknown one.

*Tools and functions.*  The comment "we want to ensure the latest content is used"
(utils/plugin.py:373) does not hold when an edit is taken back on another instance, or
its save fails: the instance of the edit keeps the module of the edit beside the former
text, finds that text in the database again, and runs the edit until something else
changes.  A stream that finds nothing cached writes the text it has read back to the
row, over an edit saved meanwhile.

*Memories.*  In a batch that removes a memory and adds its text again, the addition is
skipped as a duplicate of what is about to go, and the text is lost.  A batch that
changes one memory twice is committed, and then refused by the vector database.  An
update that overlaps a deletion leaves a vector that prompts are given without any row.
A failed embedding parts the two stores until a reset; a reset that fails has dropped
the collection, and the next ones fail because there is none to drop, until a memory is
added.

*Chats.*  Turns of a fan-out overwrite each other's text in the blob
(`RowsKeepFanOut` is why the rows still have it), and a later link below such an
answer copies the stale text over its row.  Reading a chat fills a gap one level at a
time.  A tab that updates from an old copy brings deleted messages back.  Once a
branch has a checkpoint, the system prompt before it is no longer sent.

*Answers.*  When a later response of a turn fails or is cancelled, only that response
is saved, and what came before it is lost unless realtime saving is on
(middleware.py 5063-5084 says it saves accumulated output).  Realtime saving never
saves the output of the Responses dialect, nor results that no text follows.  A
cancellation during the background tasks overwrites what the outlet filters made of
the answer.  Continuing an answer runs its calls without a result again.

*Accounts, sessions, limits.*  Without session sharing, the default, a user and its
credential are written in two transactions, although models/auths.py 113 and 230 speak
of one: a death in between leaves a user who cannot sign in.  Two first sign-ups may
both find that they are not alone, and leave an installation without administrator.
Nothing makes an address unique.  The rate limiter counts an attempt again in memory
when Redis fails
after the increment, and starts empty with its instance; a window that is no multiple
of the bucket is undercounted.

*Files.*  `delete_file_by_id` asks the vector database to delete without ids or filter,
which in Chroma deletes nothing: the file's own collection survives its row.  Vectors
of a batch carry no hash, so a batch is not checked for duplicates, and removing one of
two files with the same text takes the other's vectors with it.  Adding a member a
second time leaves its former text beside its present one; adding a duplicate marks the
file itself failed.  An addition of a file that is still being processed may write an
empty text over its own.  When the embedding into the file's own collection fails and
the one into the base succeeds, the file is "completed" with nothing of its own.  An
addition that overlaps a removal leaves vectors of a file that is not a member.  An edit
that overlaps the removal of another file with the text it has just put in loses the new
vectors to the removal by hash and then drops the old ones, so that the edited file, still a
member, is no longer found; `StaysFound` therefore speaks of additions and edits among
themselves.  The
cleanup of a synchronisation drops the collection of files it may not delete.  A process
that dies leaves its files pending, and whoever follows their status waits for two
hours.

*Directories.*  Two moves that each pass the check close a cycle.  `sync_knowledge_diff`
(routers/knowledge.py) then walks up parents without end.  Moves of chat folders
(routers/folders.py 329-372) are not checked at all.

## 9. Not modelled

Within the modelled components: payloads, prompts, wording, metrics, permissions that
only refuse a request, the arithmetic of recurrence rules and time zones, the contents
of tools and functions, valves, the marking of functions as active (an edit that is
refused marks the function inactive though its saved text is sound), the kinds and
metadata of memories (an update of the kind alone does not reach its vector), token
counts, encryption, the reduction of stream deltas to items, the non-streaming handler
and the code interpreter.  Creation, deletion, cloning and sharing of whole chats.  Loss
of pub/sub messages and of the listener's connection: `tasks.py` starts the listener
once and does not restart it.  SQLite's write lock is modelled only as far as it matters:
statements of different transactions interleave, single statements do not, and a
transaction that deletes directories holds it until its commit.  A poll of the alert loop
is taken to last less than a tick; the webhook awaited inside it can break that.

Of the files: what a loader or splitter makes of them, search and reranking, access,
vector databases other than Chroma, more than one knowledge base (bases share a file's
row and own collection, not their vectors), and the collections of web pages, pasted
texts and videos, which are written once.

Whole components, with the reason in `PROJECT.json`: mostly CRUD in single
transactions (groups, grants, notes, prompts, skills, feedback), pure
translation (tool protocol, payloads, providers), I/O against external systems
(search, loaders, storage, audio, images, terminals, MCP, data sources), generated
code (migrations) and the frontend.  AgentMail guards a mapping shared by all
instances with a lock of one process, and deletes a remote inbox before its mapping;
configuration values, reactions and group members are looked up before they are
inserted.  These are short races without a protocol around them, and what they can
lose is one entry.
