---------------------------- MODULE RateLimiter -----------------------------
(***************************************************************************)
(* The limit on sign-in attempts of one key (utils/rate_limit.py):         *)
(* attempts are counted in buckets of time, in Redis for all instances, or *)
(* in the memory of one instance when a command of Redis fails.  The       *)
(* commands of several instances interleave; an instance that dies after   *)
(* INCR leaves a bucket without expiry.                                    *)
(***************************************************************************)
EXTENDS Naturals, Sequences, FiniteSets

CONSTANTS Instances,
          Limit, Window, BucketSize,  \* limit, window and bucket_size
          MaxTime,                    \* bound on the clock
          MaxAttempts                 \* bound: attempts, all instances together

VARIABLES now,       \* seconds
          redis,     \* bucket -> [count, until]
          memory,    \* instance -> bucket -> attempts
          asking,    \* instance -> its call of is_limited
          passed,    \* calls that were not limited: [store, time]; <<>> is Redis (history)
          attempts,  \* calls made
          restarts,  \* instance -> times it was restarted
          slipped    \* did a bucket end under a call?

vars == <<now, redis, memory, asking, passed, attempts, restarts, slipped>>

Never == MaxTime + Window + BucketSize + 1
NumBuckets == Window \div BucketSize
Bucket(t) == t \div BucketSize
Idle == [at |-> "idle", time |-> 0]

\* Mutant: range(num_buckets).
CountedShort(b) == {c \in 0 .. b : c + NumBuckets > b}

\* The buckets a call counts: its own and the num_buckets before.
Counted(b) == {c \in 0 .. b : c + NumBuckets >= b}

Expiry(t) == t + Window + BucketSize

\* The attempts of the counted buckets, one by one: their sum.
Total(counts, b) ==
    Cardinality(UNION {{c} \X (1 .. counts[c]) : c \in Counted(b) \cap DOMAIN counts})

Counts == [b \in DOMAIN redis |-> redis[b].count]

Init ==
    /\ now = 0 /\ redis = <<>>
    /\ memory = [i \in Instances |-> <<>>]
    /\ asking = [i \in Instances |-> Idle]
    /\ passed = <<>> /\ attempts = 0
    /\ restarts = [i \in Instances |-> 0]
    /\ slipped = FALSE

\* is_limited reads the clock once.
Ask(i) ==
    /\ asking[i] = Idle
    /\ attempts < MaxAttempts
    /\ attempts' = attempts + 1
    /\ asking' = [asking EXCEPT ![i] = [at |-> "incr", time |-> now]]
    /\ UNCHANGED <<now, redis, memory, passed, restarts, slipped>>

\* The call returns, and lets the attempt pass unless the total is over the limit.
Answer(i, store, total) ==
    /\ passed' = IF total > Limit THEN passed
                 ELSE Append(passed, [store |-> store, time |-> asking[i].time])
    /\ asking' = [asking EXCEPT ![i] = Idle]

Incr(i) ==
    LET b == Bucket(asking[i].time)
    IN /\ asking[i].at = "incr"
       /\ redis' = [c \in DOMAIN redis \cup {b} |->
                      IF c \notin DOMAIN redis THEN [count |-> 1, until |-> Never]
                      ELSE IF c = b THEN [redis[b] EXCEPT !.count = @ + 1] ELSE redis[c]]
       /\ asking' = [asking EXCEPT ![i].at = IF b \in DOMAIN redis THEN "count" ELSE "expire"]
       /\ UNCHANGED <<now, memory, passed, attempts, restarts, slipped>>

\* EXPIRE, of a bucket that is still there.
Expire(i) ==
    LET b == Bucket(asking[i].time)
    IN /\ asking[i].at = "expire"
       /\ redis' = [c \in DOMAIN redis |->
                      IF c = b THEN [redis[c] EXCEPT !.until = Expiry(now)] ELSE redis[c]]
       /\ asking' = [asking EXCEPT ![i].at = "count"]
       /\ UNCHANGED <<now, memory, passed, attempts, restarts, slipped>>

\* MGET and the answer.
Count(i) ==
    /\ asking[i].at = "count"
    /\ Answer(i, <<>>, Total(Counts, Bucket(asking[i].time)))
    /\ UNCHANGED <<now, redis, memory, attempts, restarts, slipped>>

\* A command fails: _is_limited_memory counts the attempt, by the clock as it is
\* now, and drops old buckets.
FallBack(i) ==
    LET b == Bucket(now)
        kept == {c \in DOMAIN memory[i] : c + NumBuckets >= b} \cup {b}
        store == [c \in kept |->
                    (IF c \in DOMAIN memory[i] THEN memory[i][c] ELSE 0) + (IF c = b THEN 1 ELSE 0)]
    IN /\ asking[i] # Idle
       /\ memory' = [memory EXCEPT ![i] = store]
       /\ passed' = IF Total(store, b) > Limit THEN passed
                    ELSE Append(passed, [store |-> <<i, restarts[i]>>, time |-> now])
       /\ asking' = [asking EXCEPT ![i] = Idle]
       /\ UNCHANGED <<now, redis, attempts, restarts, slipped>>

Tick ==
    /\ now < MaxTime
    /\ now' = now + 1
    /\ redis' = [b \in {c \in DOMAIN redis : redis[c].until > now + 1} |-> redis[b]]
    /\ slipped' = (slipped \/ (Bucket(now + 1) # Bucket(now)
                               /\ \E i \in Instances : asking[i] # Idle))
    /\ UNCHANGED <<memory, asking, passed, attempts, restarts>>

Restart(i) ==
    /\ restarts[i] = 0
    /\ restarts' = [restarts EXCEPT ![i] = 1]
    /\ memory' = [memory EXCEPT ![i] = <<>>]
    /\ asking' = [asking EXCEPT ![i] = Idle]
    /\ UNCHANGED <<now, redis, passed, attempts, slipped>>

Next ==
    \/ Tick
    \/ \E i \in Instances :
        Ask(i) \/ Incr(i) \/ Expire(i) \/ Count(i) \/ FallBack(i) \/ Restart(i)

Spec == Init /\ [][Next]_vars

-----------------------------------------------------------------------------
(* Properties. *)

TypeOK ==
    /\ now \in 0 .. MaxTime /\ attempts \in 0 .. MaxAttempts
    /\ \A b \in DOMAIN redis : b \in 0 .. Bucket(now) /\ redis[b].count \in 1 .. attempts
    /\ \A i \in Instances, b \in 0 .. Bucket(now) :
          b \in DOMAIN memory[i] => memory[i][b] \in 1 .. attempts
    /\ \A i \in Instances : asking[i].at \in {"idle", "incr", "expire", "count"}
    /\ slipped \in BOOLEAN

\* Calls of one store that pass within the window of one of them.
Passed(p) == {k \in DOMAIN passed : /\ passed[k].store = p.store
                                    /\ passed[k].time <= p.time
                                    /\ passed[k].time + Window > p.time}

\* "Max allowed events in the window": in every window, however it lies to the
\* buckets, each store lets at most the limit pass, whatever instances overlap
\* or die, unless a bucket ends under a call (rate_limit.py:82-93, 101-124).
LimitHolds ==
    ~slipped => \A k \in DOMAIN passed : Cardinality(Passed(passed[k])) <= Limit
=============================================================================
