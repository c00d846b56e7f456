---------------------------- MODULE SharedModels ----------------------------
(***************************************************************************)
(* The list of models the instances share in Redis: get_all_models of      *)
(* backend/openlaunch/utils/models.py computes it, RedisDict.set of        *)
(* socket/utils.py writes it, and chat_completion of main.py looks a model *)
(* up in it.  The client of the dictionary is synchronous: each command is *)
(* a step, and nothing else runs on its instance between two of them.      *)
(***************************************************************************)
EXTENDS FiniteSets, Naturals

CONSTANTS
    Models, Instances,
    Steady,       \* models whose provider always answers and nobody disables
    Never,        \* not a set of models: nothing written yet by this process
    MaxRefreshes, \* bound
    MaxRestarts   \* bound

VARIABLES
    dict,         \* models in the Redis hash
    enabled,      \* models the administrators have not disabled
    base,         \* instance -> BASE_MODELS, what the providers last answered
    signature,    \* instance -> _last_signature, the list it stands for
    refresh,      \* instance -> the refresh it is in
    lookup,       \* instance -> the model a request looks up, or Never
    writers,      \* processes that have written the hash (history)
    refreshes, restarts

vars == <<dict, enabled, base, signature, refresh, lookup, writers, refreshes, restarts>>

ListConstants ==
    /\ Steady \subseteq Models /\ Never \notin Models
    /\ {MaxRefreshes, MaxRestarts} \subseteq Nat

Idle == [pc |-> "idle", list |-> {}, stale |-> {}]

TypeOK ==
    /\ dict \subseteq Models /\ enabled \subseteq Models
    /\ base \in [Instances -> SUBSET Models]
    /\ signature \in [Instances -> (SUBSET Models) \cup {Never}]
    /\ refresh \in [Instances -> [pc : {"idle", "fetched", "compare", "keys", "hset", "hdel"},
                                  list : SUBSET Models, stale : SUBSET Models]]
    /\ lookup \in [Instances -> Models \cup {Never}]
    /\ writers \subseteq Instances
    /\ refreshes \in 0..MaxRefreshes /\ restarts \in 0..MaxRestarts

Init ==
    /\ dict = {} /\ enabled = Models
    /\ base = [i \in Instances |-> {}]
    /\ signature = [i \in Instances |-> Never]
    /\ refresh = [i \in Instances |-> Idle]
    /\ lookup = [i \in Instances |-> Never]
    /\ writers = {} /\ refreshes = 0 /\ restarts = 0

\* Redis commands are awaited by nobody: the instance is not in one of them.
Serves(i) == refresh[i].pc \in {"idle", "fetched"} /\ lookup[i] = Never
At(i, pc) == refresh[i].pc = pc
Goes(i, r) == refresh' = [refresh EXCEPT ![i] = r]

\* An administrator changes what is active (the table model).
Enable(m) ==
    /\ m \notin Steady
    /\ enabled' = IF m \in enabled THEN enabled \ {m} ELSE enabled \cup {m}
    /\ UNCHANGED <<dict, base, signature, refresh, lookup, writers, refreshes, restarts>>

\* get_all_base_models: a provider that fails answers with no models, and the
\* last answer stands in when none has any.
Fetch(i) ==
    /\ Serves(i) /\ At(i, "idle") /\ refreshes < MaxRefreshes
    /\ refreshes' = refreshes + 1
    /\ \E answer \in SUBSET Models :
          /\ Steady \subseteq answer
          /\ base' = [base EXCEPT ![i] = IF answer # {} THEN answer ELSE @]
    /\ Goes(i, IF base'[i] = {} THEN Idle ELSE [Idle EXCEPT !.pc = "fetched", !.list = base'[i]])
    /\ UNCHANGED <<dict, enabled, signature, lookup, writers, restarts>>

\* The overrides are read; the rest of get_all_models awaits the functions.
Override(i) ==
    /\ At(i, "fetched") /\ lookup[i] = Never
    /\ Goes(i, [refresh[i] EXCEPT !.pc = "compare", !.list = @ \cap enabled])
    /\ UNCHANGED <<dict, enabled, base, signature, lookup, writers, refreshes, restarts>>

Same(i) == refresh[i].list = signature[i]

Compare(i) ==
    /\ At(i, "compare")
    /\ IF refresh[i].list = {}
       THEN /\ dict' = {} /\ writers' = writers \cup {i}
            /\ signature' = [signature EXCEPT ![i] = Never] /\ Goes(i, Idle)
       ELSE /\ Goes(i, IF Same(i) THEN Idle ELSE [refresh[i] EXCEPT !.pc = "keys"])
            /\ UNCHANGED <<dict, signature, writers>>
    /\ UNCHANGED <<enabled, base, lookup, refreshes, restarts>>

Stale(i) == dict \ refresh[i].list

HKeys(i) ==
    /\ At(i, "keys")
    /\ Goes(i, [refresh[i] EXCEPT !.pc = "hset", !.stale = Stale(i)])
    /\ UNCHANGED <<dict, enabled, base, signature, lookup, writers, refreshes, restarts>>

\* Mutant: only the keys that are new are there after the write.
WrittenAfresh(i) == refresh[i].list \ dict

Written(i) == dict \cup refresh[i].list

HSet(i) ==
    /\ At(i, "hset")
    /\ dict' = Written(i)
    /\ writers' = writers \cup {i}
    /\ Goes(i, [refresh[i] EXCEPT !.pc = "hdel"])
    /\ UNCHANGED <<enabled, base, signature, lookup, refreshes, restarts>>

HDel(i) ==
    /\ At(i, "hdel")
    /\ dict' = dict \ refresh[i].stale
    /\ signature' = [signature EXCEPT ![i] = refresh[i].list]
    /\ Goes(i, Idle)
    /\ UNCHANGED <<enabled, base, lookup, writers, refreshes, restarts>>

\* A process dies between two commands and starts again.
Restart(i) ==
    /\ restarts < MaxRestarts /\ restarts' = restarts + 1
    /\ base' = [base EXCEPT ![i] = {}]
    /\ signature' = [signature EXCEPT ![i] = Never]
    /\ Goes(i, Idle)
    /\ lookup' = [lookup EXCEPT ![i] = Never]
    /\ UNCHANGED <<dict, enabled, writers, refreshes>>

\* chat_completion: "in" finds the model, a second command gets it; a miss in
\* between is a KeyError that the handler answers like an unknown model.
LookUp(i, m) ==
    /\ Serves(i) /\ m \in dict
    /\ lookup' = [lookup EXCEPT ![i] = m]
    /\ UNCHANGED <<dict, enabled, base, signature, refresh, writers, refreshes, restarts>>

GetModel(i) ==
    /\ lookup[i] # Never
    /\ lookup' = [lookup EXCEPT ![i] = Never]
    /\ UNCHANGED <<dict, enabled, base, signature, refresh, writers, refreshes, restarts>>

Refresh(i) == Fetch(i) \/ Override(i) \/ Compare(i) \/ HKeys(i) \/ HSet(i) \/ HDel(i)

Next ==
    \/ \E m \in Models : Enable(m)
    \/ \E i \in Instances : Refresh(i) \/ Restart(i) \/ GetModel(i)
    \/ \E i \in Instances, m \in Models : LookUp(i, m)

Spec == Init /\ [][Next]_vars

-----------------------------------------------------------------------------
(* Properties.                                                             *)

\* The new keys are set before the stale ones are removed, so that a model
\* every refresh lists is never missing once it is there, whichever instances
\* write at the same time, and a request that has found it gets it
\* (socket/utils.py 120-125, main.py 1051-1054).
SteadyModelsStay ==
    [][/\ Steady \cap dict \subseteq dict'
       /\ \A i \in Instances : lookup[i] \in Steady => lookup[i] \in dict']_vars

\* While one process only has written the hash and no write of it was cut
\* short, the hash is what that process last wrote, so that skipping an
\* identical write is sound (socket/utils.py 106-112).
SoleWriterAgrees ==
    \A i \in Instances :
        (writers = {i} /\ signature[i] # Never /\ refresh[i].pc \in {"idle", "fetched", "compare"})
        => dict = signature[i]

\* The list is served whole to requests, and the skipped writes are missed by
\* nobody (socket/utils.py 95-129).
ModelsAreServed == SteadyModelsStay /\ []SoleWriterAgrees
=============================================================================
