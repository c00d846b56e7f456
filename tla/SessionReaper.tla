--------------------------- MODULE SessionReaper ----------------------------
(***************************************************************************)
(* SESSION_POOL with Redis: connect, heartbeat, disconnect and the cleanup *)
(* that every instance starts once, backend/openlaunch/socket/main.py.     *)
(* Time is a clock nobody reads: ages, naps and the key of the lock count  *)
(* its ticks.  The Redis client of the pool is synchronous, so a pass of   *)
(* the cleanup blocks its own instance but not the others.                 *)
(***************************************************************************)
EXTENDS RedisLock, FiniteSets

CONSTANTS
    Instances,
    Sessions, Home,      \* socket sessions and the instance each lives on
    SessionTimeout,      \* SESSION_POOL_TIMEOUT, also the nap of the cleanup
    Heartbeat,           \* the interval at which a browser sends heartbeats
    MaxCrashes           \* bound

VARIABLES
    status,     \* session -> new, live, or gone
    pool, age,  \* SESSION_POOL: sessions listed, time since last_seen_at
    lock,       \* the key of session_cleanup_lock
    loop,       \* instance -> where its cleanup is
    todo,       \* instance -> listed sessions its pass has not looked at
    doomed,     \* instance -> the session it is about to delete
    nap,        \* instance -> rest of its sleep
    crashes

cleanup == <<todo, doomed, nap>>
vars    == <<status, pool, age, lock, loop, cleanup, crashes>>

\* A browser sends its heartbeats, every 30 s, before its session times out,
\* after 120 s (main.py 96, src/routes/+layout.svelte 183).
ReaperConstants ==
    /\ {SessionTimeout, Heartbeat, LockTimeout, MaxCrashes} \subseteq Nat
    /\ Heartbeat <= SessionTimeout

TypeOK ==
    /\ status \in [Sessions -> {"new", "live", "gone"}]
    /\ pool \subseteq Sessions /\ age \in [Sessions -> 0..(SessionTimeout + 1)]
    /\ lock \in [by : Instances \cup {Nobody}, ttl : 0..LockTimeout]
    /\ loop \in [Instances -> {"down", "start", "awake", "pass", "sleep", "ended"}]
    /\ todo \in [Instances -> SUBSET Sessions]
    /\ doomed \in [Instances -> SUBSET Sessions]
    /\ nap \in [Instances -> 0..SessionTimeout]
    /\ crashes \in 0..MaxCrashes

Init ==
    /\ status = [s \in Sessions |-> "new"]
    /\ pool = {} /\ age = [s \in Sessions |-> 0]
    /\ lock = Absent
    /\ loop = [i \in Instances |-> "down"]
    /\ todo = [i \in Instances |-> {}] /\ doomed = [i \in Instances |-> {}]
    /\ nap = [i \in Instances |-> 0]
    /\ crashes = 0

\* The instance runs and its event loop is not inside a pass.
Serves(i) == loop[i] \notin {"down", "pass"}

Connect(s) ==
    /\ Serves(Home[s]) /\ status[s] = "new"
    /\ status' = [status EXCEPT ![s] = "live"]
    /\ pool' = pool \cup {s}
    /\ age' = [age EXCEPT ![s] = 0]
    /\ UNCHANGED <<lock, loop, cleanup, crashes>>

HeartbeatOf(s) ==
    /\ Serves(Home[s]) /\ status[s] = "live" /\ s \in pool
    /\ age' = [age EXCEPT ![s] = 0]
    /\ UNCHANGED <<status, pool, lock, loop, cleanup, crashes>>

Disconnect(s) ==
    /\ Serves(Home[s]) /\ status[s] = "live"
    /\ status' = [status EXCEPT ![s] = "gone"]
    /\ pool' = pool \ {s}
    /\ UNCHANGED <<age, lock, loop, cleanup, crashes>>

\* The sessions of a crashed instance stay in the pool.
Crash(i) ==
    /\ loop[i] # "down" /\ crashes < MaxCrashes
    /\ crashes' = crashes + 1
    /\ loop' = [loop EXCEPT ![i] = "down"]
    /\ status' = [s \in Sessions |->
                     IF Home[s] = i /\ status[s] = "live" THEN "gone" ELSE status[s]]
    /\ todo' = [todo EXCEPT ![i] = {}] /\ doomed' = [doomed EXCEPT ![i] = {}]
    /\ UNCHANGED <<pool, age, lock, nap>>

Boot(i) ==
    /\ loop[i] = "down"
    /\ loop' = [loop EXCEPT ![i] = "start"]
    /\ UNCHANGED <<status, pool, age, lock, cleanup, crashes>>

-----------------------------------------------------------------------------
(* periodic_session_pool_cleanup.                                          *)

\* One attempt to take the lock; who fails never tries again.
TakeLock(i) ==
    /\ loop[i] = "start"
    /\ IF Acquires(lock) THEN lock' = Set(i) /\ loop' = [loop EXCEPT ![i] = "awake"]
       ELSE lock' = lock /\ loop' = [loop EXCEPT ![i] = "ended"]
    /\ UNCHANGED <<status, pool, age, cleanup, crashes>>

BeginPass(i) ==
    /\ loop[i] = "awake" /\ Renews(lock)
    /\ lock' = Set(i)
    /\ loop' = [loop EXCEPT ![i] = "pass"]
    /\ todo' = [todo EXCEPT ![i] = pool]
    /\ UNCHANGED <<status, pool, age, doomed, nap, crashes>>

\* The lock has run out, or the key to delete was gone (KeyError).
EndLoop(i) ==
    /\ \/ loop[i] = "awake" /\ ~Renews(lock)
       \/ loop[i] = "pass" /\ doomed[i] # {} /\ doomed[i] \cap pool = {}
    /\ loop' = [loop EXCEPT ![i] = "ended"]
    /\ lock' = Released(lock, i)
    /\ todo' = [todo EXCEPT ![i] = {}] /\ doomed' = [doomed EXCEPT ![i] = {}]
    /\ UNCHANGED <<status, pool, age, nap, crashes>>

\* Mutant: the timeout is taken for the interval of the heartbeats.
ExpiredEarly(s) == age[s] >= Heartbeat

Expired(s) == age[s] > SessionTimeout

Check(i, s) ==
    /\ loop[i] = "pass" /\ doomed[i] = {} /\ s \in todo[i]
    /\ todo' = [todo EXCEPT ![i] = @ \ {s}]
    /\ doomed' = [doomed EXCEPT ![i] = IF s \in pool /\ Expired(s) THEN {s} ELSE {}]
    /\ UNCHANGED <<status, pool, age, lock, loop, nap, crashes>>

Reap(i) ==
    /\ loop[i] = "pass" /\ doomed[i] \cap pool # {}
    /\ pool' = pool \ doomed[i]
    /\ doomed' = [doomed EXCEPT ![i] = {}]
    /\ UNCHANGED <<status, age, lock, loop, todo, nap, crashes>>

Sleep(i) ==
    /\ loop[i] = "pass" /\ todo[i] = {} /\ doomed[i] = {}
    /\ loop' = [loop EXCEPT ![i] = "sleep"]
    /\ nap' = [nap EXCEPT ![i] = SessionTimeout]
    /\ UNCHANGED <<status, pool, age, lock, todo, doomed, crashes>>

WakeUp(i) ==
    /\ loop[i] = "sleep" /\ nap[i] = 0
    /\ loop' = [loop EXCEPT ![i] = "awake"]
    /\ UNCHANGED <<status, pool, age, lock, cleanup, crashes>>

LoopStep(i) ==
    \/ TakeLock(i) \/ BeginPass(i) \/ EndLoop(i) \/ Reap(i) \/ Sleep(i) \/ WakeUp(i)
    \/ \E s \in Sessions : Check(i, s)

-----------------------------------------------------------------------------
\* Time passes; a browser whose connection is open sends its heartbeats.
\* Nothing is awaited between taking a lock and renewing it.
Tick ==
    /\ \A i \in Instances : loop[i] # "awake"
    /\ \A s \in pool : status[s] = "live" => age[s] < Heartbeat
    /\ age' = [s \in Sessions |-> IF s \in pool /\ age[s] <= SessionTimeout
                                  THEN age[s] + 1 ELSE age[s]]
    /\ lock' = Aged(lock)
    /\ nap' = [i \in Instances |-> IF nap[i] > 0 THEN nap[i] - 1 ELSE 0]
    /\ UNCHANGED <<status, pool, loop, todo, doomed, crashes>>

Next ==
    \/ \E s \in Sessions : Connect(s) \/ HeartbeatOf(s) \/ Disconnect(s)
    \/ \E i \in Instances : Crash(i) \/ Boot(i) \/ LoopStep(i)
    \/ Tick

\* A cleanup that is ready goes on, browsers send heartbeats and time passes.
Fairness ==
    /\ \A i \in Instances : WF_vars(LoopStep(i)) /\ WF_vars(Boot(i))
    /\ \A s \in Sessions : WF_vars(age[s] = Heartbeat /\ HeartbeatOf(s))
    /\ WF_vars(Tick)

Spec == Init /\ [][Next]_vars

FairSpec == Spec /\ Fairness

-----------------------------------------------------------------------------
(* Properties.                                                             *)

\* A session whose browser sends its heartbeats stays in the pool, whatever
\* cleanups run, overlap or are late (main.py 176-184 and 413-417).
LiveSessionsStay == \A s \in Sessions : status[s] = "live" => s \in pool

\* "Reap orphaned SESSION_POOL entries that missed heartbeats (e.g. crashed
\* instance)": a session nobody is connected to leaves the pool (main.py 168).
OrphansAreReaped == \A s \in Sessions : (status[s] = "gone" /\ s \in pool) ~> s \notin pool
=============================================================================
