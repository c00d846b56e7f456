------------------------ MODULE MCTaskRegistryRedis ------------------------
(* Model checking of TaskRegistryRedis on two tasks and two instances.      *)
EXTENDS TaskRegistryRedis, TLC

\* The elements of each set are interchangeable (safety runs only).
Symmetry == Permutations(Tasks) \cup Permutations(Instances)
            \cup Permutations(Requests) \cup Permutations(Stoppers)
=============================================================================
