---------------------------- MODULE MemoryIndex -----------------------------
(***************************************************************************)
(* What a model remembers of one user (routers/memories.py,                *)
(* models/memories.py): rows of the database, and a collection with a      *)
(* vector for each, in which a chat looks for what to add to its prompt.   *)
(* A request commits its rows first, then waits for the embedding of what  *)
(* has changed, and brings the collection in line last; nothing is undone. *)
(* A text stands for content and path.  The vector database is Chroma.     *)
(***************************************************************************)
EXTENDS Naturals

CONSTANTS Requests,  \* requests that may run at once
          Memories,  \* memories ever made
          MaxText,   \* bound: texts
          MaxCalls   \* bound: requests ever made

VARIABLES rows,     \* memory -> its text, 0 if it is not there
          known,    \* memories that have been there
          exists,   \* is there a collection?
          vectors,  \* memory -> the text in the collection, 0 if none
          asking,   \* request -> what it is doing
          calls,    \* requests made
          astray    \* memories that two requests at once, or a failed one, were about

vars == <<rows, known, exists, vectors, asking, calls, astray>>

Texts == 1 .. MaxText
None == [m \in Memories |-> 0]
Idle == [at |-> "idle", about |-> {}, puts |-> {}, twice |-> FALSE,
         drops |-> {}, alone |-> FALSE]
Busy == {h \in Requests : asking[h].at # "idle"}

Init ==
    /\ known \in SUBSET Memories
    /\ rows \in {f \in [Memories -> 0 .. MaxText] : \A m \in Memories : f[m] # 0 <=> m \in known}
    /\ vectors = rows /\ exists = (known # {})
    /\ asking = [h \in Requests |-> Idle]
    /\ calls = 0
    /\ astray = {}

\* Two requests about one memory put it astray.
Ready(h) == calls < MaxCalls /\ h \notin Busy
Start(h, record) ==
    /\ Ready(h)
    /\ calls' = calls + 1
    /\ asking' = [x \in Requests |-> IF x = h THEN [record EXCEPT !.alone = (Busy = {})]
                                     ELSE [asking[x] EXCEPT !.alone = FALSE]]
    /\ astray' = astray \cup UNION {record.about \cap asking[x].about : x \in Busy}

Goto(h, at) == asking' = [asking EXCEPT ![h].at = at]
End(h) == asking' = [asking EXCEPT ![h] = Idle]
Fail(h) == End(h) /\ astray' = astray \cup asking[h].about
Collection == <<exists, vectors>>
Table      == <<rows, known>>

-----------------------------------------------------------------------------
(* Requests, and what they commit.                                         *)

Add(h, m, text) ==
    /\ m \notin known
    /\ rows' = [rows EXCEPT ![m] = text] /\ known' = known \cup {m}
    /\ Start(h, [Idle EXCEPT !.at = "embed", !.about = {m}, !.puts = {<<m, text>>}])
    /\ UNCHANGED Collection

Update(h, m, text) ==
    /\ rows[m] # 0
    /\ rows' = [rows EXCEPT ![m] = text]
    /\ Start(h, [Idle EXCEPT !.at = "embed", !.about = {m}, !.puts = {<<m, text>>}])
    /\ UNCHANGED <<known, Collection>>

Delete(h, m) ==
    /\ rows[m] # 0
    /\ rows' = [rows EXCEPT ![m] = 0]
    /\ Start(h, [Idle EXCEPT !.at = "drop", !.about = {m}, !.drops = {m}])
    /\ UNCHANGED <<known, Collection>>

\* What a transaction of apply_memory_operations has done so far.  A removal
\* waits for the next flush: until then an addition still finds the memory,
\* and is skipped if it has the same text.
Begun == [rows |-> rows, removed |-> {}, puts |-> {}, twice |-> FALSE, drops |-> {},
          refused |-> FALSE]
Flushed(s) == [m \in Memories |-> IF m \in s.removed THEN 0 ELSE s.rows[m]]
Written(s, m, text) ==
    [s EXCEPT !.rows = [Flushed(s) EXCEPT ![m] = text], !.removed = {},
              !.puts = @ \cup {<<m, text>>}, !.twice = @ \/ \E p \in s.puts : p[1] = m]

Applied(s, op) ==
    IF s.refused THEN s
    ELSE IF op.action = "add"
    THEN IF \E m \in Memories : s.rows[m] = op.text THEN s ELSE Written(s, op.id, op.text)
    ELSE IF s.rows[op.id] = 0 THEN [s EXCEPT !.refused = TRUE]
    ELSE IF op.action = "remove"
    THEN [s EXCEPT !.removed = @ \cup {op.id}, !.drops = @ \cup {op.id}]
    ELSE [Written(s, op.id, op.text) EXCEPT !.rows[op.id] = IF op.id \in s.removed THEN 0 ELSE op.text]

\* "replace" is a replacement or a move.
Operations == [action : {"add", "replace"}, id : Memories, text : Texts]
                 \cup [action : {"remove"}, id : Memories, text : {0}]

\* A transaction that has come to its end is committed, unless it was refused.
Batch(h, done) ==
    LET put == {p[1] : p \in done.puts}
    IN  /\ ~done.refused
        /\ rows' = Flushed(done) /\ known' = known \cup put
        /\ Start(h, [Idle EXCEPT !.at = "embed", !.about = done.drops \cup put,
                                 !.puts = done.puts, !.twice = done.twice, !.drops = done.drops])
        /\ UNCHANGED Collection

\* A memory that is added is new; a batch is of one or of two operations.
New(op) == op.action = "add" => op.id \notin known
BatchOfOne(h, op) == New(op) /\ Batch(h, Applied(Begun, op))
BatchOfTwo(h, one, two) ==
    /\ New(one) /\ New(two)
    /\ "add" \in {one.action, two.action} => one.id # two.id
    /\ Batch(h, Applied(Applied(Begun, one), two))

DeleteAll(h) ==
    /\ rows' = None
    /\ Start(h, [Idle EXCEPT !.at = "dropAll", !.about = Memories])
    /\ UNCHANGED <<known, Collection>>

\* Chroma raises when there is no collection to delete, and the reset ends.
Reset(h) ==
    /\ exists
    /\ vectors' = None /\ exists' = FALSE
    /\ Start(h, [Idle EXCEPT !.at = "read", !.about = Memories])
    /\ UNCHANGED Table

-----------------------------------------------------------------------------
(* The collection.                                                         *)

Read(h) ==
    /\ asking[h].at = "read"
    /\ asking' = [asking EXCEPT ![h].at = "embed",
                                ![h].puts = {<<m, rows[m]>> : m \in {x \in Memories : rows[x] # 0}}]
    /\ UNCHANGED <<Table, Collection, calls, astray>>

EmbedFails(h) ==
    /\ asking[h].at = "embed" /\ asking[h].puts # {}
    /\ Fail(h)
    /\ UNCHANGED <<Table, Collection, calls>>

Put(h) ==
    [m \in Memories |->
        IF \E p \in asking[h].puts : p[1] = m
        THEN (CHOOSE p \in asking[h].puts : p[1] = m)[2] ELSE vectors[m]]

\* A request about all memories, alone and to its end, puts them right.
Settled(h) == astray' = IF asking[h].about = Memories /\ asking[h].alone THEN {} ELSE astray

\* Mutant: the vectors of removed memories go first.
UpsertLast(h) ==
    /\ asking[h].at = "embed" /\ ~asking[h].twice
    /\ vectors' = [m \in Memories |->
                     IF m \in asking[h].drops /\ ~\E p \in asking[h].puts : p[1] = m
                     THEN 0 ELSE Put(h)[m]]
    /\ exists' = TRUE
    /\ End(h) /\ Settled(h)
    /\ UNCHANGED <<Table, calls>>

\* All at once; Chroma refuses a list that names a memory twice.
Upsert(h) ==
    /\ asking[h].at = "embed" /\ ~asking[h].twice
    /\ vectors' = Put(h)
    /\ exists' = (exists \/ asking[h].puts # {} \/ asking[h].about = Memories)
    /\ IF asking[h].drops # {} THEN Goto(h, "drop") /\ UNCHANGED astray ELSE End(h) /\ Settled(h)
    /\ UNCHANGED <<Table, calls>>

UpsertRefused(h) ==
    /\ asking[h].at = "embed" /\ asking[h].twice
    /\ exists' = TRUE
    /\ Fail(h)
    /\ UNCHANGED <<Table, vectors, calls>>

Drop(h) ==
    /\ asking[h].at = "drop"
    /\ vectors' = [m \in Memories |-> IF m \in asking[h].drops THEN 0 ELSE vectors[m]]
    /\ End(h)
    /\ UNCHANGED <<Table, exists, calls, astray>>

DropAll(h) ==
    /\ asking[h].at = "dropAll"
    /\ vectors' = None /\ exists' = FALSE
    /\ End(h) /\ Settled(h)
    /\ UNCHANGED <<Table, calls>>

\* The vector database fails, which a deletion does not report, or the
\* process ends.
Die(h) ==
    /\ h \in Busy
    /\ Fail(h)
    /\ UNCHANGED <<Table, Collection, calls>>

Next ==
    \E h \in Requests :
        \/ \E m \in Memories, text \in Texts : Add(h, m, text) \/ Update(h, m, text)
        \/ \E m \in Memories : Delete(h, m)
        \/ Ready(h) /\ \E one \in Operations :
                          BatchOfOne(h, one) \/ \E two \in Operations : BatchOfTwo(h, one, two)
        \/ DeleteAll(h) \/ Reset(h) \/ Read(h) \/ EmbedFails(h)
        \/ Upsert(h) \/ UpsertRefused(h) \/ Drop(h) \/ DropAll(h) \/ Die(h)

Spec == Init /\ [][Next]_vars

-----------------------------------------------------------------------------
(* Properties.                                                             *)

TypeOK ==
    /\ rows \in [Memories -> 0 .. MaxText] /\ vectors \in [Memories -> 0 .. MaxText]
    /\ known \subseteq Memories /\ astray \subseteq Memories
    /\ exists \in BOOLEAN /\ (~exists => vectors = None)
    /\ \A h \in Busy : asking[h].drops \subseteq asking[h].about

\* query_memory puts into a prompt what it finds in the collection and looks
\* at no row (routers/memories.py:269-318): a memory that no request is about
\* is found with the text of its row, and not at all when it is deleted.
\* Requests about other memories may run and fail; a memory that two requests
\* at once or a failed one was about is right again after a reset or a
\* deletion of all memories.
MemoriesAgree ==
    \A m \in Memories \ astray :
        (\A h \in Busy : m \notin asking[h].about) => vectors[m] = rows[m]
=============================================================================
