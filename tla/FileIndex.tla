----------------------------- MODULE FileIndex ------------------------------
(***************************************************************************)
(* Files, their text and their vectors (routers/files.py,                  *)
(* routers/retrieval.py, routers/knowledge.py).  The vectors of a file are *)
(* in a collection of its own and, for a member of a knowledge base, in    *)
(* the collection of the base, of which there is one here.  A request      *)
(* changes rows and collections one after the other, with an embedding     *)
(* that takes long and may fail in between; nothing is undone.             *)
(*                                                                         *)
(* A text is a number, 0 the empty one, and stands for its hash as well.   *)
(* The vector database is Chroma, the default.                             *)
(***************************************************************************)
EXTENDS Naturals, FiniteSets

CONSTANTS Requests,  \* requests that may run at once
          Files,     \* files ever uploaded
          MaxText,   \* bound: texts
          MaxCalls   \* bound: requests ever made

VARIABLES row,        \* file -> [status, text, hash]
          own,        \* file -> texts in its own collection
          base,       \* vectors in the collection of the base
          members,    \* files listed in the base
          call,       \* request -> what it is doing
          calls,      \* requests made
          inserted,   \* insertions into the base
          disturbed,  \* did requests overlap, or die?
          mixed,      \* did one that removes from the base overlap another?
          died,       \* did a request die?
          doubled     \* did two files have one text, or was a member added again?

vars == <<row, own, base, members, call, calls, inserted, disturbed, mixed, died, doubled>>

Texts == 1 .. MaxText
NoHash == MaxText + 1
Idle == [kind |-> "none", at |-> "idle", on |-> "none", text |-> 0, flag |-> FALSE,
         into |-> "own", docs |-> {}, todo |-> {}, old |-> {}]
Busy == {h \in Requests : call[h].at # "idle"}
There(f) == row[f].status \in {"pending", "completed", "failed"}
VectorsOf(f) == {v \in base : v.file = f}
Twins(rows) == \E f, g \in Files : f # g /\ rows[f].text = rows[g].text /\ rows[f].text # 0

\* A file is not there yet, processed, or a member, alone or in a batch.  One
\* text is as good as another, so one of them is the first.
Init ==
    \E some \in SUBSET Files : \E listed \in SUBSET some : \E batched \in SUBSET listed :
    \E text \in [some -> Texts] :
        /\ \A f, g \in listed : f # g => text[f] # text[g]
        /\ \A files \in {some, listed, batched} \ {{}} : \E f \in files : text[f] = 1
        /\ row = [f \in Files |->
                    IF f \in some
                    THEN [status |-> "completed", text |-> text[f], hash |-> text[f]]
                    ELSE [status |-> "new", text |-> 0, hash |-> NoHash]]
        /\ own = [f \in Files |-> IF f \in some THEN {text[f]} ELSE {}]
        /\ base = {[id |-> 0, file |-> f, text |-> text[f],
                    hash |-> IF f \in batched THEN NoHash ELSE text[f]] : f \in listed}
        /\ members = listed
        /\ call = [h \in Requests |-> Idle]
        /\ calls = 0 /\ inserted = 0
        /\ disturbed = FALSE /\ mixed = FALSE /\ died = FALSE /\ doubled = Twins(row)

\* Requests that only put into the base, or replace what is in it.
Additive == {"upload", "add", "edit", "batch"}

Start(h, record) ==
    /\ h \notin Busy
    /\ calls < MaxCalls /\ calls' = calls + 1
    /\ call' = [call EXCEPT ![h] = record]
    /\ disturbed' = (disturbed \/ Busy # {})
    /\ mixed' = (mixed \/ \E x \in Busy : ~({record.kind, call[x].kind} \subseteq Additive))
    /\ UNCHANGED died

Becomes(h, record) == call' = [call EXCEPT ![h] = record]
Goto(h, at) == Becomes(h, [call[h] EXCEPT !.at = at])
End(h) == Becomes(h, Idle)
At(h, at) == call[h].at = at
On(h) == call[h].on
Into(h) == call[h].into

Progress == <<calls, disturbed, mixed, died>>
Vectors  == <<own, base, inserted>>
Kept     == <<Progress, doubled>>

-----------------------------------------------------------------------------
(* Requests.                                                               *)

\* upload_file_handler: the row is pending, the text is in the stored file,
\* and the rest is done in the background.  With a knowledge_id the file is
\* linked to the base when it has been processed.
Upload(h, f, text, linked) ==
    /\ row[f].status = "new"
    /\ row' = [row EXCEPT ![f] = [status |-> "pending", text |-> 0, hash |-> NoHash]]
    /\ Start(h, [Idle EXCEPT !.kind = "upload", !.at = "load", !.on = f, !.text = text,
                             !.flag = linked])
    /\ UNCHANGED <<Vectors, members, doubled>>

\* Anybody who may write to the base adds a file, also one that is in it.
Add(h, f) ==
    /\ There(f)
    /\ Start(h, [Idle EXCEPT !.kind = "add", !.at = "load", !.on = f, !.into = "base"])
    /\ doubled' = (doubled \/ f \in members)
    /\ UNCHANGED <<row, Vectors, members>>

Edit(h, f, text) ==
    /\ There(f)
    /\ Start(h, [Idle EXCEPT !.kind = "edit", !.at = "load", !.on = f, !.text = text])
    /\ UNCHANGED <<row, Vectors, members, doubled>>

\* file/update.
Refresh(h, f) ==
    /\ There(f) /\ f \in members
    /\ Start(h, [Idle EXCEPT !.kind = "refresh", !.at = "clear", !.on = f, !.into = "base",
                             !.text = NoHash])
    /\ UNCHANGED <<row, Vectors, members, doubled>>

\* file/remove, with or without the file, and the cleanup of a
\* synchronisation, which does not ask whether the file is in the base; the
\* hash is read here and used after the commits.
Remove(h, f, withFile) ==
    /\ There(f) /\ (f \in members \/ withFile)
    /\ Start(h, [Idle EXCEPT !.kind = "remove", !.at = "unlist", !.on = f,
                             !.text = row[f].hash, !.flag = withFile])
    /\ UNCHANGED <<row, Vectors, members, doubled>>

Delete(h, f) ==
    /\ There(f)
    /\ Start(h, [Idle EXCEPT !.kind = "delete",
                             !.at = IF f \in members THEN "unlist" ELSE "deleteRow",
                             !.on = f, !.text = row[f].hash])
    /\ UNCHANGED <<row, Vectors, members, doubled>>

Reindex(h) ==
    /\ Start(h, [Idle EXCEPT !.kind = "reindex", !.at = "dropBase", !.into = "base",
                             !.todo = {f \in members : There(f)}])
    /\ UNCHANGED <<row, Vectors, members, doubled>>

Reset(h) ==
    /\ Start(h, [Idle EXCEPT !.kind = "reset", !.at = "dropBase"])
    /\ UNCHANGED <<row, Vectors, members, doubled>>

\* Rows are read once; members are left out.
AddBatch(h, files) ==
    /\ files # {} /\ \A f \in files : There(f)
    /\ Start(h, [Idle EXCEPT !.kind = "batch", !.at = "embedBatch",
                             !.todo = {<<f, row[f].text>> : f \in files \ members}])
    /\ UNCHANGED <<row, Vectors, members, doubled>>

-----------------------------------------------------------------------------
(* process_file and save_docs_to_vector_db, within a request.              *)

\* What a request goes on with when process_file has returned or raised: an
\* upload with its link, an addition with its row, an edit with the base,
\* whatever became of its own part, a reindexing with its next file.
After(h, ok) ==
    LET at == CASE call[h].kind = "upload" /\ Into(h) = "own" /\ ok /\ call[h].flag -> "link"
                [] call[h].kind = "add" /\ ok -> "link"
                [] call[h].kind = "edit" /\ Into(h) = "own" -> "old"
                [] call[h].kind = "edit" /\ Into(h) = "base" /\ ok -> "dropOld"
                [] call[h].kind = "reindex" -> "next"
                [] OTHER -> "idle"
    IN IF at = "idle" THEN End(h) ELSE Goto(h, at)

\* A missing row is refused before anything is marked.
Load(h) ==
    LET f == On(h) IN
    /\ At(h, "load")
    /\ IF ~There(f) THEN After(h, FALSE)
       ELSE IF Into(h) = "base"
       THEN Becomes(h, [call[h] EXCEPT !.at = "query", !.text = row[f].text])
       ELSE IF call[h].kind = "edit" THEN Goto(h, "dropOwn")
       ELSE \/ Becomes(h, [call[h] EXCEPT !.at = "content", !.docs = {call[h].text}])
            \/ Goto(h, "failed")      \* the loader cannot read the file
    /\ UNCHANGED <<row, Vectors, members, Kept>>

DropOwn(h) ==
    /\ At(h, "dropOwn")
    /\ own' = [own EXCEPT ![On(h)] = {}]
    /\ Becomes(h, [call[h] EXCEPT !.at = "content", !.docs = {call[h].text}])
    /\ UNCHANGED <<row, base, inserted, members, Kept>>

\* A file that has been processed goes into the base with the texts of its
\* own collection.
QueryOwn(h) ==
    /\ At(h, "query")
    /\ Becomes(h, [call[h] EXCEPT !.at = "content",
                     !.docs = IF own[On(h)] # {} THEN own[On(h)] ELSE {call[h].text}])
    /\ UNCHANGED <<row, Vectors, members, Kept>>

WriteContent(h) ==
    LET f == On(h)
        rows == IF There(f) THEN [row EXCEPT ![f].text = call[h].text] ELSE row
    IN  /\ At(h, "content")
        /\ row' = rows
        /\ doubled' = (doubled \/ Twins(rows))
        /\ Goto(h, "check")
        /\ UNCHANGED <<Vectors, members, Progress>>

Same(h) == {v \in base : v.hash = call[h].text}

\* The first vector with this hash decides whether it is another file's.
Duplicate(h) == Into(h) = "base" /\ \E v \in Same(h) : v.file # On(h)
Original(h) == Into(h) = "own" \/ Same(h) = {} \/ \E v \in Same(h) : v.file = On(h)

\* Before the embedding: no other file with this hash, some text, and a
\* collection of its own is not written twice.
Check(h) ==
    /\ At(h, "check")
    /\ \/ Duplicate(h) /\ Goto(h, "failed")
       \/ Original(h) /\ call[h].docs = {0} /\ Goto(h, "failed")
       \/ /\ Original(h) /\ call[h].docs # {0}
          /\ Goto(h, IF Into(h) = "own" /\ own[On(h)] # {} THEN "complete" ELSE "embed")
    /\ UNCHANGED <<row, Vectors, members, Kept>>

Embed(h) ==
    LET f == On(h) IN
    /\ At(h, "embed")
    /\ Goto(h, "complete")
    /\ IF Into(h) = "own"
       THEN own' = [own EXCEPT ![f] = @ \cup call[h].docs] /\ UNCHANGED <<base, inserted>>
       ELSE /\ base' = base \cup {[id |-> inserted + 1, file |-> f, text |-> x,
                                   hash |-> call[h].text] : x \in call[h].docs \ {0}}
            /\ inserted' = inserted + 1
            /\ UNCHANGED own
    /\ UNCHANGED <<row, members, Kept>>

EmbedFails(h) ==
    /\ At(h, "embed") \/ At(h, "embedBatch")
    /\ IF At(h, "embed") THEN Goto(h, "failed") ELSE End(h)
    /\ UNCHANGED <<row, Vectors, members, Kept>>

Complete(h) ==
    /\ At(h, "complete")
    /\ row' = IF There(On(h))
              THEN [row EXCEPT ![On(h)].status = "completed", ![On(h)].hash = call[h].text]
              ELSE row
    /\ After(h, TRUE)
    /\ UNCHANGED <<Vectors, members, Kept>>

\* "Clear the hash so the file can be re-uploaded after fixing the issue".
Failed(h) ==
    /\ At(h, "failed")
    /\ row' = IF There(On(h))
              THEN [row EXCEPT ![On(h)].status = "failed", ![On(h)].hash = NoHash] ELSE row
    /\ After(h, FALSE)
    /\ UNCHANGED <<Vectors, members, Kept>>

-----------------------------------------------------------------------------
(* What a request does besides.                                            *)

\* The row of the membership; an error, as of a foreign key whose file is
\* gone, is swallowed.
Enlisted(files) == {members \cup files} \cup (IF \A f \in files : There(f) THEN {} ELSE {members})

Link(h) ==
    /\ At(h, "link")
    /\ members' \in Enlisted({On(h)})
    /\ IF call[h].kind = "upload"
       THEN Becomes(h, [call[h] EXCEPT !.at = "load", !.into = "base"]) ELSE End(h)
    /\ UNCHANGED <<row, Vectors, Kept>>

\* Mutant: the old vectors are removed before the new ones are there.
OldAreDropped(h) ==
    /\ At(h, "old")
    /\ IF On(h) \in members
       THEN Becomes(h, [call[h] EXCEPT !.at = "load", !.into = "base"]) ELSE End(h)
    /\ base' = base \ VectorsOf(On(h))
    /\ UNCHANGED <<row, own, inserted, members, Kept>>

OldAreNoted(h) ==
    /\ At(h, "old")
    /\ IF On(h) \in members
       THEN Becomes(h, [call[h] EXCEPT !.at = "load", !.into = "base", !.old = VectorsOf(On(h))])
       ELSE End(h)
    /\ UNCHANGED <<row, Vectors, members, Kept>>

DropOld(h) ==
    /\ At(h, "dropOld")
    /\ base' = base \ call[h].old
    /\ End(h)
    /\ UNCHANGED <<row, own, inserted, members, Kept>>

Unlist(h) ==
    /\ At(h, "unlist")
    /\ members' = members \ {On(h)}
    /\ Goto(h, "clear")
    /\ UNCHANGED <<row, Vectors, Kept>>

\* By file, and by hash "as well in case of duplicates"; without a hash the
\* second deletion selects nothing.
Clear(h) ==
    /\ At(h, "clear")
    /\ base' = {v \in base \ VectorsOf(On(h)) : call[h].text = NoHash \/ v.hash # call[h].text}
    /\ CASE call[h].kind = "refresh" -> Goto(h, "load")
         [] call[h].kind = "delete" -> Goto(h, "deleteRow")
         [] OTHER -> IF call[h].flag THEN Goto(h, "dropCollection") ELSE End(h)
    /\ UNCHANGED <<row, own, inserted, members, Kept>>

\* The cleanup drops the collection of somebody else's file as well, whose
\* row it keeps.
DropCollection(h) ==
    /\ At(h, "dropCollection")
    /\ own' = [own EXCEPT ![On(h)] = {}]
    /\ Goto(h, "deleteRow") \/ End(h)
    /\ UNCHANGED <<row, base, inserted, members, Kept>>

\* PostgreSQL deletes what is left of its memberships.  The request for the
\* file's own collection names neither ids nor a filter: nothing is deleted.
DeleteRow(h) ==
    /\ At(h, "deleteRow")
    /\ row' = [row EXCEPT ![On(h)].status = "gone"]
    /\ members' \in {members, members \ {On(h)}}
    /\ End(h)
    /\ UNCHANGED <<Vectors, Kept>>

DropBase(h) ==
    /\ At(h, "dropBase")
    /\ base' = {}
    /\ Goto(h, IF call[h].kind = "reset" THEN "unlistAll" ELSE "next")
    /\ UNCHANGED <<row, own, inserted, members, Kept>>

UnlistAll(h) ==
    /\ At(h, "unlistAll")
    /\ members' = {}
    /\ End(h)
    /\ UNCHANGED <<row, Vectors, Kept>>

NextFile(h) ==
    /\ At(h, "next")
    /\ \/ call[h].todo = {} /\ End(h)
       \/ \E f \in call[h].todo :
            Becomes(h, [call[h] EXCEPT !.at = "load", !.on = f, !.todo = @ \ {f}])
    /\ UNCHANGED <<row, Vectors, members, Kept>>

\* process_files_batch: no look for duplicates and vectors without a hash.
EmbedBatch(h) ==
    /\ At(h, "embedBatch")
    /\ IF \A p \in call[h].todo : p[2] = 0
       THEN End(h) /\ UNCHANGED <<base, inserted>>
       ELSE /\ base' = base \cup {[id |-> inserted + 1, file |-> p[1], text |-> p[2],
                                   hash |-> NoHash] : p \in {q \in call[h].todo : q[2] # 0}}
            /\ inserted' = inserted + 1
            /\ Goto(h, "recordBatch")
    /\ UNCHANGED <<row, own, members, Kept>>

RecordBatch(h) ==
    LET rows == [f \in Files |->
                   IF There(f) /\ \E p \in call[h].todo : p[1] = f
                   THEN LET p == CHOOSE p \in call[h].todo : p[1] = f
                        IN [row[f] EXCEPT !.text = p[2], !.hash = p[2]]
                   ELSE row[f]]
    IN  /\ At(h, "recordBatch")
        /\ row' = rows /\ doubled' = (doubled \/ Twins(rows))
        /\ Goto(h, "listBatch")
        /\ UNCHANGED <<Vectors, members, Progress>>

ListBatch(h) ==
    /\ At(h, "listBatch")
    /\ members' \in Enlisted({p[1] : p \in call[h].todo})
    /\ End(h)
    /\ UNCHANGED <<row, Vectors, Kept>>

\* The process ends; what it did in the background is not taken up again.
Die(h) ==
    /\ h \in Busy
    /\ died' = TRUE /\ disturbed' = TRUE
    /\ End(h)
    /\ UNCHANGED <<row, Vectors, members, calls, mixed, doubled>>

Ask(h) ==
    \/ \E f \in Files, text \in Texts :
          Edit(h, f, text) \/ \E linked \in BOOLEAN : Upload(h, f, text, linked)
    \/ \E f \in Files :
          Add(h, f) \/ Refresh(h, f) \/ Delete(h, f) \/ \E withFile \in BOOLEAN : Remove(h, f, withFile)
    \/ \E files \in SUBSET Files : AddBatch(h, files)
    \/ Reindex(h) \/ Reset(h)

Process(h) ==
    \/ Load(h) \/ DropOwn(h) \/ QueryOwn(h) \/ WriteContent(h) \/ Check(h) \/ Embed(h)
    \/ EmbedFails(h) \/ Complete(h) \/ Failed(h)

Finish(h) ==
    \/ Link(h) \/ OldAreNoted(h) \/ DropOld(h) \/ Unlist(h) \/ Clear(h) \/ DropCollection(h)
    \/ DeleteRow(h) \/ DropBase(h) \/ UnlistAll(h) \/ NextFile(h)
    \/ EmbedBatch(h) \/ RecordBatch(h) \/ ListBatch(h)

Next == \E h \in Requests : Ask(h) \/ Process(h) \/ Finish(h) \/ Die(h)

Spec == Init /\ [][Next]_vars

-----------------------------------------------------------------------------
(* Properties.                                                             *)

TypeOK ==
    /\ row \in [Files -> [status : {"new", "pending", "completed", "failed", "gone"},
                          text : 0 .. MaxText, hash : 0 .. NoHash]]
    /\ own \in [Files -> SUBSET Texts]
    /\ base \subseteq [id : 0 .. inserted, file : Files, text : Texts, hash : 0 .. NoHash]
    /\ members \subseteq Files
    /\ \A h \in Busy : call[h].old \subseteq [id : 0 .. inserted, file : Files, text : Texts,
                                              hash : 0 .. NoHash]

\* As long as requests run one after the other, whichever embeddings fail,
\* only members can be found in the base (knowledge.py:1601-1613,
\* files.py:983-994).
OnlyMembersAreFound == \A v \in base : v.file \in members /\ There(v.file)

\* ... no hash is there for two files (retrieval.py:1623-1642) ...
NoDuplicates == \A v, w \in base : v.hash = w.hash /\ v.hash # NoHash => v.file = w.file

\* ... and what is found of a member that has been processed is its text,
\* without what it was before (files.py:710-729).
MembersAreCurrent ==
    ~doubled =>
        \A f \in members : row[f].status = "completed" => {v.text : v \in VectorsOf(f)} = {row[f].text}

\* Nobody waits for ever for a file: however requests overlap, each has an
\* outcome when they are over, unless the process has died (files.py:581-637).
NothingIsPending == ~died /\ Busy = {} => \A f \in Files : row[f].status # "pending"

FilesAgree ==
    /\ ~disturbed /\ Busy = {} => OnlyMembersAreFound /\ NoDuplicates /\ MembersAreCurrent
    /\ NothingIsPending

\* "so a failed reindex keeps the KB usable": whatever uploads, additions and
\* edits overlap, fail or die, a file that can be found stays so
\* (files.py:719-728), unless a removal overlaps them.
StaysFound ==
    [][~mixed' /\ (\A h \in Busy : call[h].kind \in Additive)
        => {v.file : v \in base} \subseteq {v.file : v \in base'}]_base

\* What is found in a base are the texts of its members, all the time.
FilesServed == []FilesAgree /\ StaysFound
=============================================================================
