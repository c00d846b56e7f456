------------------------------ MODULE MCRecords ------------------------------
(***************************************************************************)
(* What requests keep in the database, and lose when they interleave: the  *)
(* messages of a chat, the context summaries along its branch, the turn    *)
(* that writes an answer, accounts, sessions with OAuth providers,         *)
(* the attempts to sign in, the directories of a knowledge base, files     *)
(* with their vectors, and memories.  They share no rows, so a behaviour   *)
(* follows one of them, as part says; the others rest in one of their      *)
(* initial states.                                                         *)
(***************************************************************************)
EXTENDS ChatHistory, TLC

CONSTANTS
    Requests, Emails, Instances, Files, Documents,
    MaxPrompts, MaxItems, MaxIterations, MaxTurns,
    MaxUsers, MaxRequests,
    MaxPerUser, MaxSessions, MaxTokenCalls,
    Limit, Window, BucketSize, MaxTime, MaxAttempts,
    MaxDirs, MaxTreeCalls,
    MaxVersions, MaxFileCalls, MaxMemoryCalls

VARIABLES
    part,
    prompted, length, outputs, summaries, asked, told, kept,
    realtime, dialect, phase, output, prior, pending, queue, iterations, shown, saved, marked,
    cut, ran, stale, items, turns,
    users, auths, signup, sharing, handler, accounts, made, crossed, bootstrapped,
    manager, rotates, store, honoured, call, sessions, calls, writes, torn, crowded,
    now, redis, memory, asking, passed, attempts, restarts, slipped,
    enforced, parent, place, walk, dirs, walks, upset,
    row, own, base, members, asks, tries, inserted, split, mixed, died, doubled,
    remembered, known, exists, vectors, recall, recalls, astray

branch   == <<prompted, length, outputs, summaries, asked, told, kept>>
turn     == <<realtime, dialect, phase, output, prior, pending, queue, iterations, shown, saved,
              marked, cut, ran, stale, items, turns>>
register == <<users, auths, signup, sharing, handler, accounts, made, crossed, bootstrapped>>
tokens   == <<manager, rotates, store, honoured, call, sessions, calls, writes, torn, crowded>>
limiter  == <<now, redis, memory, asking, passed, attempts, restarts, slipped>>
tree     == <<enforced, parent, place, walk, dirs, walks, upset>>
index    == <<row, own, base, members, asks, tries, inserted, split, mixed, died, doubled>>
memories == <<remembered, known, exists, vectors, recall, recalls, astray>>

Context == INSTANCE ContextCompaction WITH MaxTurns <- MaxPrompts
Turn == INSTANCE ChatTurn
Register == INSTANCE Accounts WITH created <- accounts, disturbed <- crossed
Tokens == INSTANCE OAuthSessions WITH MaxCalls <- MaxTokenCalls,
    created <- sessions, disturbed <- torn
Limiter == INSTANCE RateLimiter
Tree == INSTANCE KnowledgeTree WITH MaxCalls <- MaxTreeCalls,
    call <- walk, created <- dirs, calls <- walks, disturbed <- upset
Index == INSTANCE FileIndex WITH Files <- Documents, MaxText <- MaxVersions,
    MaxCalls <- MaxFileCalls, call <- asks, calls <- tries, disturbed <- split
Recall == INSTANCE MemoryIndex WITH Memories <- Documents, MaxText <- MaxVersions,
    MaxCalls <- MaxMemoryCalls, rows <- remembered, asking <- recall, calls <- recalls

ASSUME VersionConstants == MaxVersions \in Nat

ASSUME TurnConstants == MaxItems \in Nat /\ MaxIterations \in Nat

ASSUME TreeConstants == MaxDirs \in Nat

\* A limit of none would keep all but the oldest session.
ASSUME SessionConstants == MaxPerUser \in Nat \ {0}

\* A window that is no multiple of its buckets is undercounted.
ASSUME WindowConstants ==
    /\ BucketSize \in Nat \ {0} /\ Window \in Nat /\ Window % BucketSize = 0
    /\ Limit \in Nat /\ MaxTime \in Nat /\ IsFiniteSet(Instances)

\* What a part can begin with only matters to that part.
MCInit ==
    /\ part \in {"history", "branch", "turn", "register", "tokens", "limiter", "tree", "index",
                "memories"}
    /\ Init /\ (part = "history" \/ created = 0)
    /\ Context!Init /\ (part = "branch" \/ ~prompted)
    /\ Turn!Init /\ (part = "turn" \/ (~realtime /\ dialect = "chat"))
    /\ Register!Init /\ (part = "register" \/ (~sharing /\ signup))
    /\ Tokens!Init /\ (part = "tokens" \/ (manager = "sso" /\ ~rotates))
    /\ Limiter!Init
    /\ Tree!Init /\ (part = "tree" \/ ~enforced)
    /\ Index!Init /\ (part = "index" \/ \A f \in Documents : row[f].status = "new")
    /\ Recall!Init /\ (part = "memories" \/ known = {})

MCNext ==
    /\ UNCHANGED part
    /\ \/ part = "history" /\ Next
              /\ UNCHANGED <<branch, turn, register, tokens, limiter, tree, index, memories>>
       \/ part = "branch" /\ Context!Next
              /\ UNCHANGED <<vars, turn, register, tokens, limiter, tree, index, memories>>
       \/ part = "turn" /\ Turn!Next
              /\ UNCHANGED <<vars, branch, register, tokens, limiter, tree, index, memories>>
       \/ part = "register" /\ Register!Next
              /\ UNCHANGED <<vars, branch, turn, tokens, limiter, tree, index, memories>>
       \/ part = "tokens" /\ Tokens!Next
              /\ UNCHANGED <<vars, branch, turn, register, limiter, tree, index, memories>>
       \/ part = "limiter" /\ Limiter!Next
              /\ UNCHANGED <<vars, branch, turn, register, tokens, tree, index, memories>>
       \/ part = "tree" /\ Tree!Next
              /\ UNCHANGED <<vars, branch, turn, register, tokens, limiter, index, memories>>
       \/ part = "index" /\ Index!Next
              /\ UNCHANGED <<vars, branch, turn, register, tokens, limiter, tree, memories>>
       \/ part = "memories" /\ Recall!Next
              /\ UNCHANGED <<vars, branch, turn, register, tokens, limiter, tree, index>>

MCSpec == MCInit /\ [][MCNext]_<<part, vars, branch, turn, register, tokens, limiter, tree, index,
                          memories>>

\* What rests is in an initial state, and needs no check.
Of(p, property) == part = p => property

TypesOK ==
    /\ Of("history", TypeOK)           /\ Of("branch", Context!TypeOK)
    /\ Of("turn", Turn!TypeOK)         /\ Of("register", Register!TypeOK)
    /\ Of("tokens", Tokens!TypeOK)     /\ Of("limiter", Limiter!TypeOK)
    /\ Of("tree", Tree!TypeOK)         /\ Of("index", Index!TypeOK)
    /\ Of("memories", Recall!TypeOK)

OnlyKeptAreForgotten == Of("branch", Context!OnlyKeptAreForgotten)
TurnIsKept           == Of("turn", Turn!TurnIsKept)
AccountsServed       == Register!AccountsServed
SessionsHonoured     == Of("tokens", Tokens!SessionsHonoured)
LimitHolds           == Of("limiter", Limiter!LimitHolds)
DirectoriesInOrder   == Of("tree", Tree!DirectoriesInOrder)
FilesServed          == Index!FilesServed
MemoriesAgree        == Of("memories", Recall!MemoriesAgree)

\* The two of each kind may be exchanged, all of them together; the files
\* that are indexed also by themselves, since only their part has them.
Swap(S) == {f \in Permutations(S) : \A x \in S : f[x] # x}
Sym ==
    {f @@ g @@ h @@ k @@ d : f \in Swap(Writers), g \in Swap(Requests), h \in Swap(Emails),
                             k \in Swap(Instances), d \in Permutations(Documents)}
        \cup Swap(Documents)
=============================================================================
