--------------------------- MODULE KnowledgeTree ----------------------------
(***************************************************************************)
(* The directories of one knowledge base and the files in them             *)
(* (models/knowledge.py, routers/knowledge.py).  Each request is one       *)
(* transaction; its statements interleave with those of others.            *)
(* PostgreSQL enforces the foreign keys (ON DELETE CASCADE, SET NULL) and  *)
(* locks the rows a transaction has written; SQLite does not enforce them, *)
(* as the application never turns them on, and lets one transaction write  *)
(* at a time.  Directory 0 is the root.                                    *)
(***************************************************************************)
EXTENDS Naturals, FiniteSets

CONSTANTS Requests,  \* requests that may run at once
          Files,     \* files of the knowledge base
          MaxDirs,   \* bound: directories ever created
          MaxCalls   \* bound: requests ever made

VARIABLES enforced,    \* are foreign keys enforced? (PostgreSQL)
          parent,      \* directory -> parent
          place,       \* file -> directory
          call,        \* request -> what it is doing
          created,     \* directories ever created
          calls,       \* requests made
          disturbed    \* did requests overlap, or name or find what is gone?

vars == <<enforced, parent, place, call, created, calls, disturbed>>

Idle == [at |-> "idle", on |-> 0, to |-> 0, file |-> "none", seen |-> {}, todo |-> {},
         held |-> {}, keep |-> TRUE]
Busy == {h \in Requests : call[h].at # "idle"}
Dirs == DOMAIN parent
Exists(d) == d = 0 \/ d \in Dirs
Children(d) == {x \in Dirs : parent[x] = d}

\* d and what is below it.
Below(dirs) ==
    LET within[n \in 0 .. MaxDirs] ==
            IF n = 0 THEN dirs
            ELSE LET nearer == within[n - 1] IN nearer \cup {x \in Dirs : parent[x] \in nearer}
    IN within[MaxDirs]

Init ==
    /\ enforced \in BOOLEAN
    /\ parent = <<>>
    /\ place = [f \in Files |-> 0]
    /\ call = [h \in Requests |-> Idle]
    /\ created = 0 /\ calls = 0 /\ disturbed = FALSE

\* On SQLite nobody writes while a deletion has written and not committed.
MayWrite(h) == enforced \/ \A x \in Busy \ {h} : call[x].at # "visit"
Held(f) == \E x \in Busy : f \in call[x].held

-----------------------------------------------------------------------------
Counted(p) ==
    /\ calls < MaxCalls
    /\ calls' = calls + 1
    /\ disturbed' = (disturbed \/ Busy # {} \/ ~Exists(p)
                               \/ \E d \in Dirs : ~Exists(parent[d]))

Start(h, record) ==
    /\ h \notin Busy
    /\ Counted(record.to)
    /\ call' = [call EXCEPT ![h] = record]
    /\ UNCHANGED <<enforced, parent, place, created>>

\* create_directory, one statement; the parent is not looked up.
Create(p) ==
    /\ created < MaxDirs
    /\ Counted(p)
    /\ \A x \in Busy : enforced \/ call[x].at # "visit"
    /\ created' = created + 1
    /\ parent' = IF enforced /\ ~Exists(p) THEN parent
                 ELSE [d \in Dirs \cup {created + 1} |-> IF d \in Dirs THEN parent[d] ELSE p]
    /\ UNCHANGED <<enforced, place, call>>

Move(h, d, p)       == d \in Dirs /\ Start(h, [Idle EXCEPT !.at = "walk", !.on = d, !.to = p, !.todo = {p}])
MoveFile(h, f, p)   == Exists(p) /\ Start(h, [Idle EXCEPT !.at = "place", !.file = f, !.to = p])
Delete(h, d, keep)  == d \in Dirs /\ Start(h, [Idle EXCEPT !.at = "read", !.on = d, !.keep = keep])

-----------------------------------------------------------------------------
Goto(h, record) == call' = [call EXCEPT ![h] = record]
End(h) == Goto(h, Idle)
rest == <<enforced, created, calls, disturbed>>

\* Mutant: only the new parent itself is compared.
WalkOneStep(h, current) ==
    IF current = call[h].on THEN End(h) ELSE Goto(h, [call[h] EXCEPT !.at = "write"])

\* move_directory walks up from the new parent, a statement for each directory.
WalkStep(h, current) ==
    IF current = call[h].on THEN End(h)
    ELSE IF current = 0 \/ current \in call[h].seen THEN Goto(h, [call[h] EXCEPT !.at = "write"])
    ELSE Goto(h, [call[h] EXCEPT !.seen = @ \cup {current},
                                 !.todo = {IF current \in Dirs THEN parent[current] ELSE 0}])

Walk(h) ==
    /\ call[h].at = "walk"
    /\ \E current \in call[h].todo : WalkStep(h, current)
    /\ UNCHANGED <<parent, place, rest>>

WriteParent(h) ==
    LET d == call[h].on
        p == call[h].to
    IN /\ call[h].at = "write" /\ MayWrite(h)
       /\ parent' = IF d \notin Dirs \/ (enforced /\ ~Exists(p)) THEN parent
                    ELSE [parent EXCEPT ![d] = p]
       /\ End(h)
       /\ UNCHANGED <<place, rest>>

WritePlace(h) ==
    LET f == call[h].file
        p == call[h].to
    IN /\ call[h].at = "place" /\ MayWrite(h) /\ ~Held(f)
       /\ place' = IF f \notin DOMAIN place \/ (enforced /\ ~Exists(p)) THEN place
                   ELSE [place EXCEPT ![f] = p]
       /\ End(h)
       /\ UNCHANGED <<parent, rest>>

\* delete_directory reads the directory, to know its parent.
ReadParent(h) ==
    LET d == call[h].on
    IN /\ call[h].at = "read" /\ MayWrite(h)
       /\ IF d \notin Dirs THEN End(h)
          ELSE Goto(h, [call[h] EXCEPT !.at = "visit", !.to = parent[d], !.todo = {d}])
       /\ UNCHANGED <<parent, place, rest>>

ToVisit(d) == Children(d)

\* The files of one directory of the subtree are rewritten, or deleted, and its
\* subdirectories looked up.
Visit(h, d) ==
    /\ call[h].at = "visit" /\ d \in call[h].todo
    /\ \A f \in DOMAIN place : place[f] = d => ~Held(f)
    /\ Goto(h, [call[h] EXCEPT !.todo = (@ \ {d}) \cup ToVisit(d),
                               !.held = @ \cup {f \in DOMAIN place : place[f] = d}])
    /\ UNCHANGED <<parent, place, rest>>

\* The directory is deleted, and what the foreign keys say, and all is committed.
CommitDelete(h) ==
    LET gone == IF enforced THEN Below({call[h].on}) \cap Dirs ELSE {call[h].on}
        held == call[h].held
        target(f) == IF f \in held THEN call[h].to ELSE place[f]
    IN /\ call[h].at = "visit" /\ call[h].todo = {}
       /\ parent' = [d \in Dirs \ gone |-> parent[d]]
       /\ place' = [f \in DOMAIN place \ (IF call[h].keep THEN {} ELSE held) |->
                      IF enforced /\ target(f) \in gone THEN 0 ELSE target(f)]
       /\ End(h)
       /\ UNCHANGED rest

Next ==
    \/ \E p \in 0 .. created : Create(p)
    \/ \E h \in Requests :
        \/ \E d \in Dirs, p \in 0 .. created : Move(h, d, p)
        \/ \E d \in Dirs, keep \in BOOLEAN : Delete(h, d, keep)
        \/ \E f \in DOMAIN place, p \in 0 .. created : MoveFile(h, f, p)
        \/ Walk(h) \/ WriteParent(h) \/ WritePlace(h) \/ ReadParent(h)
        \/ \E d \in call[h].todo : Visit(h, d)
        \/ CommitDelete(h)

Spec == Init /\ [][Next]_vars

-----------------------------------------------------------------------------
(* Properties. *)

TypeOK ==
    /\ enforced \in BOOLEAN
    /\ Dirs \subseteq 1 .. created /\ DOMAIN place \subseteq Files
    /\ \A d \in Dirs : parent[d] \in 0 .. created
    /\ \A f \in DOMAIN place : place[f] \in 0 .. created
    /\ \A h \in Requests : call[h].held \subseteq Files

\* Walking up from a directory ends, at the root or at one that is missing.
NoCycle == \A d \in Dirs : Below({0} \cup {x \in 1 .. created : x \notin Dirs}) \cap {d} # {}

\* As long as requests run one after the other and name directories that are
\* there, no directory is moved below itself, and each file is in a directory
\* that leads to the root, also when those below a deleted
\* one stay (models/knowledge.py:970-1001, 1022-1088).
DirectoriesInOrder ==
    ~disturbed /\ Busy = {} => NoCycle /\ \A f \in DOMAIN place : place[f] \in Below({0})

\* "CASCADE on parent_id will handle deleting subdirectories"
\* (models/knowledge.py:1054): when requests run one after the other and name
\* directories that are there, a directory that is left has its parent.
SubdirectoriesGo == ~disturbed => \A d \in Dirs : Exists(parent[d])
=============================================================================
