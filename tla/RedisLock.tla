----------------------------- MODULE RedisLock ------------------------------
(***************************************************************************)
(* RedisLock of backend/openlaunch/socket/utils.py as operators on a key:  *)
(* the instance it names and how long Redis still keeps it.                *)
(***************************************************************************)
EXTENDS Naturals

CONSTANTS Nobody, LockTimeout

Absent   == [by |-> Nobody, ttl |-> 0]
Held(l)  == l.ttl > 0
Set(i)   == [by |-> i, ttl |-> LockTimeout]

\* aquire_lock: SET NX.
Acquires(l)   == ~Held(l)

\* renew_lock: SET XX, whoever the key names.
Renews(l)     == Held(l)

\* release_lock: GET, then DELETE if the key names this instance.
Released(l, i) == IF l.by = i THEN Absent ELSE l

\* A unit of time passes in Redis.
Aged(l) == IF l.ttl <= 1 THEN Absent ELSE [l EXCEPT !.ttl = @ - 1]
=============================================================================
