--------------------------- MODULE ContentProofs ---------------------------
(***************************************************************************)
(* Theorems about what is found of the files in a knowledge base           *)
(* (FileIndex), for any number of requests, files and texts.               *)
(***************************************************************************)
EXTENDS MCRecords, SequenceTheorems, WellFoundedInduction, TLAPS

-----------------------------------------------------------------------------
(* Files and their vectors (FileIndex).                                    *)

Versions == 1 .. MaxVersions

FileRows == [status : {"new", "pending", "completed", "failed", "gone"},
             text : 0 .. MaxVersions, hash : 0 .. Index!NoHash]

FileVectors == [id : Nat, file : Documents, text : Versions, hash : 0 .. Index!NoHash]

\* The rows, collections and members there are.
FilesOK(rows_, own_, base_, members_) ==
    /\ rows_ \in [Documents -> FileRows]
    /\ own_ \in [Documents -> SUBSET Versions]
    /\ base_ \subseteq FileVectors
    /\ members_ \subseteq Documents

ProcessStages == {"load", "query", "content", "check", "embed", "complete", "failed"}

\* The stages of each kind of request.
CourseOK(r) ==
    /\ r.at = "idle" => r = Index!Idle
    /\ \/ r.kind = "none" /\ r.at = "idle"
       \/ /\ r.kind = "upload" /\ r.into = "own"
          /\ r.at \in {"load", "content", "check", "embed", "complete", "failed", "link"}
       \/ r.kind = "upload" /\ r.into = "base" /\ r.at \in ProcessStages
       \/ r.kind = "add" /\ r.into = "base" /\ r.at \in ProcessStages \cup {"link"}
       \/ /\ r.kind = "edit" /\ r.into = "own"
          /\ r.at \in {"load", "dropOwn", "content", "check", "embed", "complete", "failed", "old"}
       \/ r.kind = "edit" /\ r.into = "base" /\ r.at \in ProcessStages \cup {"dropOld"}
       \/ r.kind = "refresh" /\ r.into = "base" /\ r.at \in ProcessStages \cup {"clear"}
       \/ /\ r.kind = "remove" /\ r.into = "own"
          /\ r.at \in {"unlist", "clear", "dropCollection", "deleteRow"}
       \/ r.kind = "delete" /\ r.into = "own" /\ r.at \in {"unlist", "clear", "deleteRow"}
       \/ r.kind = "reindex" /\ r.into = "base" /\ r.at \in ProcessStages \cup {"dropBase", "next"}
       \/ r.kind = "reset" /\ r.into = "own" /\ r.at \in {"dropBase", "unlistAll"}
       \/ r.kind = "batch" /\ r.into = "own" /\ r.at \in {"embedBatch", "recordBatch", "listBatch"}

OnFile == {"upload", "add", "edit", "refresh", "remove", "delete"}

\* What a request holds.
HeldOK(r) ==
    /\ r.kind \in OnFile => r.on \in Documents
    /\ r.kind = "reindex" => r.todo \subseteq Documents
    /\ r.kind = "reindex" /\ r.at \in ProcessStages => r.on \in Documents
    /\ r.kind = "batch" => r.todo \subseteq Documents \X (0 .. MaxVersions)
    /\ r.kind \in {"upload", "edit"} /\ r.into = "own" => r.text \in Versions
    /\ r.text \in 0 .. Index!NoHash
    /\ r.at \in {"query", "content", "check", "embed", "complete"} => r.text \in 0 .. MaxVersions
    /\ r.docs \subseteq 0 .. MaxVersions
    /\ r.into = "own" => r.docs \subseteq Versions
    /\ r.at \in {"content", "check", "embed"} => r.docs # {}
    /\ r.at = "embed" => r.docs # {0}
    /\ r.old \subseteq FileVectors
    /\ r.kind = "edit" => \A w \in r.old : w.file = r.on

CallOf(kind, at, on, text, flag, into, docs, todo, old) ==
    [kind |-> kind, at |-> at, on |-> on, text |-> text, flag |-> flag, into |-> into,
     docs |-> docs, todo |-> todo, old |-> old]

FileCallOK(r) ==
    /\ r = CallOf(r.kind, r.at, r.on, r.text, r.flag, r.into, r.docs, r.todo, r.old)
    /\ CourseOK(r) /\ HeldOK(r)

\* The vectors so far have been numbered.
Numbered ==
    /\ inserted \in Nat
    /\ \A v \in base : v.id <= inserted
    /\ \A h \in Requests : \A w \in asks[h].old : w.id <= inserted

\* Who answers for a file that is pending.
Awaits(r, f) ==
    /\ r.kind = "upload" /\ r.into = "own" /\ r.on = f
    /\ r.at \in {"load", "content", "check", "embed", "complete", "failed"}

PendingAwaited ==
    \A f \in Documents : row[f].status = "pending" =>
        died \/ \E h \in Requests : Awaits(asks[h], f)

\* An edit that is about to drop the old vectors of its file leaves a newer one.
Replaces(r) == r.kind = "edit" /\ r.into = "base" /\ r.at \in {"complete", "dropOld"}
NewerIn(r, base_) == \E v \in base_ : v.file = r.on /\ \A w \in r.old : w.id < v.id

Unmixed ==
    ~mixed =>
        /\ \A h, g \in Requests : h # g /\ asks[h].at # "idle" /\ asks[g].at # "idle" =>
              asks[h].kind \in Index!Additive /\ asks[g].kind \in Index!Additive
        /\ \A h \in Requests : Replaces(asks[h]) => NewerIn(asks[h], base)

-----------------------------------------------------------------------------
(* Requests in sequence.                                                   *)

IsThere(x) == x.status \in {"pending", "completed", "failed"}
VectorsIn(base_, f) == {v \in base_ : v.file = f}

\* A row and the texts of its own collection, when nothing is under way for it.
RowCalm(x, texts_) ==
    /\ x.status # "pending"
    /\ x.status = "new" => texts_ = {}
    /\ IsThere(x) => texts_ \subseteq {x.text} /\ x.hash \in {x.text, Index!NoHash}
    /\ x.status = "completed" => x.text # 0

\* The vectors of a row that are its text.
CurrentIn(x, vectors_) ==
    /\ vectors_ # {}
    /\ \A v \in vectors_ : v.text = x.text /\ v.hash \in {x.text, Index!NoHash}

\* No text of two rows and no hash of two files, and members are there.
ApartCalm(rows_, base_, members_, twice) ==
    /\ \A v, w \in base_ : v.hash = w.hash /\ v.hash # Index!NoHash => v.file = w.file
    /\ ~twice => \A f, g \in Documents : f # g /\ rows_[f].text = rows_[g].text =>
                                            rows_[f].text = 0
    /\ \A f \in members_ : IsThere(rows_[f])

\* A request that has a row and its own collection in hand.
HasRow(r) ==
    /\ r.kind \in {"upload", "edit"} /\ r.into = "own"
    /\ r.at \in {"content", "check", "embed", "complete", "failed"}
          \cup (IF r.kind = "upload" THEN {"load"} ELSE {})

RowsCalm(rows_, own_, r) ==
    \A f \in Documents : (HasRow(r) /\ f = r.on) \/ RowCalm(rows_[f], own_[f])

PutIn(puts) == {p[1] : p \in puts}

\* Only members are found, and what a request is about to list or to clear.
Settles(r, f) ==
    \/ r.kind \in {"remove", "delete"} /\ f = r.on /\ r.at = "clear"
    \/ r.kind = "add" /\ f = r.on /\ r.at \in {"complete", "link"}
    \/ r.kind = "batch" /\ f \in PutIn(r.todo) /\ r.at \in {"recordBatch", "listBatch"}

FoundCalm(base_, members_, r) == \A v \in base_ : v.file \in members_ \/ Settles(r, v.file)

\* A request that answers for the vectors of a file.
Answers(r, f) ==
    \/ r.kind = "reset"
    \/ r.kind = "reindex" /\ f \in r.todo
    \/ r.kind \in OnFile /\ f = r.on
    \/ r.kind = "reindex" /\ f = r.on /\ r.at \in ProcessStages

CurrentCalm(rows_, base_, members_, twice, r) ==
    ~twice => \A f \in members_ : rows_[f].status = "completed" =>
                  Answers(r, f) \/ CurrentIn(rows_[f], VectorsIn(base_, f))

\* While the text of a file goes into its row and its own collection.
OwnCalm(x, texts_, vectors_, listed, r) ==
    /\ r.kind \in {"upload", "edit"} /\ r.into = "own" => IsThere(x)
    /\ r.kind = "upload" /\ r.into = "own" => vectors_ = {} /\ ~listed
    /\ HasRow(r) /\ r.at # "complete" => texts_ = {}
    /\ HasRow(r) /\ r.at \in {"content", "check", "embed"} => r.docs = {r.text}
    /\ HasRow(r) /\ r.at \in {"check", "embed", "complete"} => x.text = r.text
    /\ HasRow(r) /\ r.at = "complete" => texts_ = {r.text}

BaseKinds == {"upload", "add", "edit", "refresh", "reindex"}
InBase(r) == r.kind \in BaseKinds /\ r.into = "base" /\ r.at \in ProcessStages

\* While it goes into the base.
BaseCalm(x, base_, vectors_, listed, twice, r) ==
    /\ InBase(r) => IsThere(x) /\ (listed \/ r.kind = "add")
    /\ InBase(r) /\ r.at \in {"query", "content", "check", "embed", "complete"} => r.text = x.text
    /\ InBase(r) /\ r.at \in {"content", "check", "embed"} => r.docs = {x.text}
    /\ InBase(r) /\ r.at \in {"embed", "complete"} => x.text # 0
    /\ InBase(r) /\ r.at = "embed" => \A v \in base_ : v.hash = r.text => v.file = r.on
    /\ InBase(r) /\ r.at \in ProcessStages \ {"complete", "failed"} =>
          /\ r.kind \in {"upload", "refresh", "reindex"} => vectors_ = {}
          /\ r.kind = "add" /\ ~twice => vectors_ = {}
          /\ r.kind = "edit" => vectors_ = r.old
    /\ InBase(r) /\ r.at = "complete" /\ ~twice =>
          CurrentIn(x, IF r.kind = "edit" THEN vectors_ \ r.old ELSE vectors_)
    /\ r.kind = "edit" /\ r.at = "dropOld" =>
          IsThere(x) /\ listed /\ (~twice => CurrentIn(x, vectors_ \ r.old))
    /\ r.kind = "add" /\ r.at = "link" =>
          IsThere(x) /\ (~twice => CurrentIn(x, vectors_))
    /\ r.kind = "refresh" /\ r.at = "clear" => IsThere(x) /\ listed /\ r.text = Index!NoHash

\* While it is removed.
GoingCalm(x, vectors_, listed, r) ==
    r.kind \in {"remove", "delete"} =>
        /\ IsThere(x)
        /\ r.at \in {"unlist", "clear"} => r.text = x.hash
        /\ r.at # "unlist" => ~listed
        /\ r.at \in {"dropCollection", "deleteRow"} => vectors_ = {}

\* While the base is rebuilt or emptied.
RebuildCalm(base_, members_, r) ==
    /\ r.kind = "reindex" =>
          /\ r.todo \subseteq members_
          /\ r.at = "dropBase" => members_ \subseteq r.todo
          /\ r.at # "dropBase" => \A v \in base_ : v.file \notin r.todo
          /\ r.at \in ProcessStages => r.on \notin r.todo
    /\ r.kind = "reset" /\ r.at = "unlistAll" => base_ = {}

\* While a batch is added.
BatchCalm(rows_, base_, members_, r) ==
    r.kind = "batch" =>
        \A p \in r.todo :
            /\ IsThere(rows_[p[1]]) /\ p[2] = rows_[p[1]].text /\ p[1] \notin members_
            /\ r.at = "embedBatch" => VectorsIn(base_, p[1]) = {}
            /\ r.at # "embedBatch" =>
                  /\ \A v \in VectorsIn(base_, p[1]) : v.text = p[2] /\ v.hash = Index!NoHash
                  /\ p[2] # 0 => VectorsIn(base_, p[1]) # {}

Calm(rows_, own_, base_, members_, twice, r) ==
    /\ ApartCalm(rows_, base_, members_, twice)
    /\ RowsCalm(rows_, own_, r)
    /\ FoundCalm(base_, members_, r)
    /\ CurrentCalm(rows_, base_, members_, twice, r)
    /\ OwnCalm(rows_[r.on], own_[r.on], VectorsIn(base_, r.on), r.on \in members_, r)
    /\ BaseCalm(rows_[r.on], base_, VectorsIn(base_, r.on), r.on \in members_, twice, r)
    /\ GoingCalm(rows_[r.on], VectorsIn(base_, r.on), r.on \in members_, r)
    /\ RebuildCalm(base_, members_, r)
    /\ BatchCalm(rows_, base_, members_, r)

SerialCalm ==
    ~split =>
        /\ \A h, g \in Requests : asks[h].at # "idle" /\ asks[g].at # "idle" => h = g
        /\ \A h \in Requests :
              asks[h].at # "idle" => Calm(row, own, base, members, doubled, asks[h])
        /\ (\A h \in Requests : asks[h].at = "idle") =>
              Calm(row, own, base, members, doubled, Index!Idle)

FilesInv ==
    /\ FilesOK(row, own, base, members)
    /\ doubled \in BOOLEAN
    /\ asks = [h \in Requests |-> asks[h]] /\ \A h \in Requests : FileCallOK(asks[h])
    /\ Numbered /\ PendingAwaited /\ Unmixed /\ SerialCalm
-----------------------------------------------------------------------------
(* Records of requests.                                                    *)

\* A request with one field set.
SetKind(c, v) == [c EXCEPT !.kind = v]
SetAt(c, v) == [c EXCEPT !.at = v]
SetOn(c, v) == [c EXCEPT !.on = v]
SetText(c, v) == [c EXCEPT !.text = v]
SetFlag(c, v) == [c EXCEPT !.flag = v]
SetInto(c, v) == [c EXCEPT !.into = v]
SetDocs(c, v) == [c EXCEPT !.docs = v]
SetTodo(c, v) == [c EXCEPT !.todo = v]
SetOld(c, v) == [c EXCEPT !.old = v]

LEMMA CallSets ==
    \A kind, at, on, text, flag, into, docs, todo, old, v :
        /\ SetKind(CallOf(kind, at, on, text, flag, into, docs, todo, old), v)
               = CallOf(v, at, on, text, flag, into, docs, todo, old)
        /\ SetAt(CallOf(kind, at, on, text, flag, into, docs, todo, old), v)
               = CallOf(kind, v, on, text, flag, into, docs, todo, old)
        /\ SetOn(CallOf(kind, at, on, text, flag, into, docs, todo, old), v)
               = CallOf(kind, at, v, text, flag, into, docs, todo, old)
        /\ SetText(CallOf(kind, at, on, text, flag, into, docs, todo, old), v)
               = CallOf(kind, at, on, v, flag, into, docs, todo, old)
        /\ SetFlag(CallOf(kind, at, on, text, flag, into, docs, todo, old), v)
               = CallOf(kind, at, on, text, v, into, docs, todo, old)
        /\ SetInto(CallOf(kind, at, on, text, flag, into, docs, todo, old), v)
               = CallOf(kind, at, on, text, flag, v, docs, todo, old)
        /\ SetDocs(CallOf(kind, at, on, text, flag, into, docs, todo, old), v)
               = CallOf(kind, at, on, text, flag, into, v, todo, old)
        /\ SetTodo(CallOf(kind, at, on, text, flag, into, docs, todo, old), v)
               = CallOf(kind, at, on, text, flag, into, docs, v, old)
        /\ SetOld(CallOf(kind, at, on, text, flag, into, docs, todo, old), v)
               = CallOf(kind, at, on, text, flag, into, docs, todo, v)
  <1> TAKE kind, at, on, text, flag, into, docs, todo, old, v
  <1>1. SetKind(CallOf(kind, at, on, text, flag, into, docs, todo, old), v)
         = CallOf(v, at, on, text, flag, into, docs, todo, old)
    BY DEF CallOf, SetKind
  <1>2. SetAt(CallOf(kind, at, on, text, flag, into, docs, todo, old), v)
         = CallOf(kind, v, on, text, flag, into, docs, todo, old)
    BY DEF CallOf, SetAt
  <1>3. SetOn(CallOf(kind, at, on, text, flag, into, docs, todo, old), v)
         = CallOf(kind, at, v, text, flag, into, docs, todo, old)
    BY DEF CallOf, SetOn
  <1>4. SetText(CallOf(kind, at, on, text, flag, into, docs, todo, old), v)
         = CallOf(kind, at, on, v, flag, into, docs, todo, old)
    BY DEF CallOf, SetText
  <1>5. SetFlag(CallOf(kind, at, on, text, flag, into, docs, todo, old), v)
         = CallOf(kind, at, on, text, v, into, docs, todo, old)
    BY DEF CallOf, SetFlag
  <1>6. SetInto(CallOf(kind, at, on, text, flag, into, docs, todo, old), v)
         = CallOf(kind, at, on, text, flag, v, docs, todo, old)
    BY DEF CallOf, SetInto
  <1>7. SetDocs(CallOf(kind, at, on, text, flag, into, docs, todo, old), v)
         = CallOf(kind, at, on, text, flag, into, v, todo, old)
    BY DEF CallOf, SetDocs
  <1>8. SetTodo(CallOf(kind, at, on, text, flag, into, docs, todo, old), v)
         = CallOf(kind, at, on, text, flag, into, docs, v, old)
    BY DEF CallOf, SetTodo
  <1>9. SetOld(CallOf(kind, at, on, text, flag, into, docs, todo, old), v)
         = CallOf(kind, at, on, text, flag, into, docs, todo, v)
    BY DEF CallOf, SetOld
  <1> QED BY Zenon, <1>1, <1>2, <1>3, <1>4, <1>5, <1>6, <1>7, <1>8, <1>9

LEMMA CallHas ==
    \A kind, at, on, text, flag, into, docs, todo, old :
        LET c == CallOf(kind, at, on, text, flag, into, docs, todo, old)
        IN  /\ c.kind = kind /\ c.at = at /\ c.on = on /\ c.text = text /\ c.flag = flag
            /\ c.into = into /\ c.docs = docs /\ c.todo = todo /\ c.old = old
  BY DEF CallOf

\* A truth value is no argument of what the provers treat as a term, so it has
\* a name.
Unset == FALSE

LEMMA IdleIsCall == Index!Idle = CallOf("none", "idle", "none", 0, Unset, "own", {}, {}, {})
  BY DEF Index!Idle, CallOf, Unset

LEMMA HashKnown == Index!NoHash \in Nat /\ Index!NoHash = MaxVersions + 1 /\ MaxVersions \in Nat
  BY VersionConstants DEF Index!NoHash

LEMMA FilesTyped ==
    ASSUME FilesInv
    PROVE  /\ row \in [Documents -> FileRows] /\ own \in [Documents -> SUBSET Versions]
           /\ base \subseteq FileVectors /\ members \subseteq Documents
           /\ doubled \in BOOLEAN /\ inserted \in Nat
           /\ \A h \in Requests : FileCallOK(asks[h])
  BY DEF FilesInv, FilesOK, Numbered

\* One request goes on, the others stay where they are.
LEMMA CallGoes ==
    ASSUME FilesInv, NEW h \in Requests, NEW r, asks' = [asks EXCEPT ![h] = r]
    PROVE  /\ asks'[h] = r /\ \A g \in Requests : g # h => asks'[g] = asks[g]
           /\ asks' = [g \in Requests |-> asks'[g]]
  BY DEF FilesInv

LEMMA SerialGoes ==
    ASSUME FilesInv, NEW h \in Requests, NEW r, asks' = [asks EXCEPT ![h] = r],
           asks[h].at # "idle", r.at = "idle" => r = Index!Idle, split' = split,
           ~split /\ Calm(row, own, base, members, doubled, asks[h]) =>
               Calm(row', own', base', members', doubled', r)
    PROVE  SerialCalm'
  <1> DEFINE quiet(x) == Calm(row', own', base', members', doubled', x)
  <1>1. asks'[h] = r /\ \A g \in Requests : g # h => asks'[g] = asks[g]
    BY CallGoes
  <1>2. SUFFICES ASSUME ~split
                 PROVE  /\ \A k, g \in Requests : asks'[k].at # "idle" /\ asks'[g].at # "idle"
                                                     => k = g
                        /\ \A k \in Requests : asks'[k].at # "idle" => quiet(asks'[k])
                        /\ (\A k \in Requests : asks'[k].at = "idle") => quiet(Index!Idle)
    BY DEF SerialCalm
  <1>3. \A g \in Requests : g # h => asks[g].at = "idle"
    BY <1>2 DEF FilesInv, SerialCalm
  <1>4. quiet(r)
    BY <1>2 DEF FilesInv, SerialCalm
  <1> HIDE DEF quiet
  <1> QED BY <1>1, <1>3, <1>4

LEMMA SerialStarts ==
    ASSUME FilesInv, NEW h \in Requests, NEW r, asks' = [asks EXCEPT ![h] = r],
           asks[h].at = "idle", r.at # "idle", split' = (split \/ Index!Busy # {}),
           ~split /\ Calm(row, own, base, members, doubled, Index!Idle) =>
               Calm(row', own', base', members', doubled', r)
    PROVE  SerialCalm'
  <1> DEFINE quiet(x) == Calm(row', own', base', members', doubled', x)
  <1>1. asks'[h] = r /\ \A g \in Requests : g # h => asks'[g] = asks[g]
    BY CallGoes
  <1>2. SUFFICES ASSUME ~split, Index!Busy = {}
                 PROVE  /\ \A k, g \in Requests : asks'[k].at # "idle" /\ asks'[g].at # "idle"
                                                     => k = g
                        /\ \A k \in Requests : asks'[k].at # "idle" => quiet(asks'[k])
                        /\ (\A k \in Requests : asks'[k].at = "idle") => quiet(Index!Idle)
    BY DEF SerialCalm
  <1>3. \A g \in Requests : asks[g].at = "idle"
    BY <1>2 DEF Index!Busy
  <1>4. quiet(r)
    BY <1>2, <1>3 DEF FilesInv, SerialCalm
  <1> HIDE DEF quiet
  <1> QED BY <1>1, <1>3, <1>4

\* Whoever awaits a file goes on doing so until it has an outcome.
LEMMA PendingGoes ==
    ASSUME FilesInv, NEW h \in Requests, NEW r, asks' = [asks EXCEPT ![h] = r], died => died',
           \A f \in Documents : row'[f].status = "pending" =>
               Awaits(r, f) \/ (row[f].status = "pending" /\ ~Awaits(asks[h], f))
    PROVE  PendingAwaited'
  <1>1. asks'[h] = r /\ \A g \in Requests : g # h => asks'[g] = asks[g]
    BY CallGoes
  <1>2. SUFFICES ASSUME NEW f \in Documents, row'[f].status = "pending"
                 PROVE  died' \/ \E g \in Requests : Awaits(asks'[g], f)
    BY DEF PendingAwaited, Awaits
  <1>3. CASE Awaits(r, f)
    BY <1>1, <1>3
  <1>4. CASE row[f].status = "pending" /\ ~Awaits(asks[h], f)
    <2>1. died \/ \E g \in Requests : Awaits(asks[g], f)
      BY <1>4 DEF FilesInv, PendingAwaited
    <2>2. ASSUME NEW g \in Requests, Awaits(asks[g], f) PROVE Awaits(asks'[g], f)
      BY <1>1, <1>4, <2>2
    <2> QED BY <2>1, <2>2
  <1> QED BY <1>2, <1>3, <1>4

\* A step of one request, which says what its effect is.
LEMMA FilesGo ==
    ASSUME FilesInv, NEW h \in Requests, NEW r, asks' = [asks EXCEPT ![h] = r],
           asks[h].at # "idle", FileCallOK(r), r.at = "idle" \/ r.kind = asks[h].kind,
           UNCHANGED <<split, mixed, died>>,
           FilesOK(row', own', base', members'), doubled' \in BOOLEAN,
           inserted' \in Nat, inserted <= inserted',
           \A v \in base' : v.id <= inserted', \A w \in r.old : w.id <= inserted',
           \A f \in Documents : row'[f].status = "pending" =>
               Awaits(r, f) \/ (row[f].status = "pending" /\ ~Awaits(asks[h], f)),
           base \subseteq base' \/ asks[h].kind \notin Index!Additive
               \/ (~mixed => \A q : FileCallOK(q) /\ Replaces(q) /\ NewerIn(q, base) =>
                             NewerIn(q, base')),
           ~mixed /\ Replaces(r) => NewerIn(r, base'),
           ~split /\ Calm(row, own, base, members, doubled, asks[h]) =>
               Calm(row', own', base', members', doubled', r)
    PROVE  FilesInv'
  <1>1. /\ asks'[h] = r /\ \A g \in Requests : g # h => asks'[g] = asks[g]
        /\ asks' = [g \in Requests |-> asks'[g]]
    BY CallGoes
  <1>2. \A g \in Requests : FileCallOK(asks'[g])
    BY <1>1, FilesTyped
  <1>3. Numbered'
    <2>1. \A g \in Requests : \A w \in asks'[g].old : w.id <= inserted'
      <3>1. ASSUME NEW g \in Requests, g # h, NEW w \in asks'[g].old PROVE w.id <= inserted'
        <4>1. w \in asks[g].old /\ w.id <= inserted
          BY <1>1, <3>1 DEF FilesInv, Numbered
        <4>2. w.id \in Nat
          BY <4>1, FilesTyped DEF FileCallOK, HeldOK, FileVectors
        <4> QED BY <4>1, <4>2, FilesTyped
      <3> QED BY <1>1, <3>1
    <2> QED BY <2>1 DEF Numbered
  <1>4. PendingAwaited'
    BY PendingGoes
  <1>5. Unmixed'
    <2>1. SUFFICES ASSUME ~mixed
                   PROVE  /\ \A k, g \in Requests :
                                k # g /\ asks'[k].at # "idle" /\ asks'[g].at # "idle" =>
                                   /\ asks'[k].kind \in Index!Additive
                                   /\ asks'[g].kind \in Index!Additive
                          /\ \A k \in Requests :
                                Replaces(asks'[k]) => NewerIn(asks'[k], base')
      BY DEF Unmixed, Index!Additive, Replaces, NewerIn
    <2>2. /\ \A k, g \in Requests : k # g /\ asks[k].at # "idle" /\ asks[g].at # "idle" =>
                asks[k].kind \in Index!Additive /\ asks[g].kind \in Index!Additive
          /\ \A k \in Requests : Replaces(asks[k]) => NewerIn(asks[k], base)
      BY <2>1 DEF FilesInv, Unmixed
    <2>3. \A k, g \in Requests : k # g /\ asks'[k].at # "idle" /\ asks'[g].at # "idle" =>
              asks'[k].kind \in Index!Additive /\ asks'[g].kind \in Index!Additive
      <3>1. \A k \in Requests : asks'[k].at # "idle" =>
                asks[k].at # "idle" /\ asks'[k].kind = asks[k].kind
        BY <1>1
      <3> QED BY <2>2, <3>1
    <2>4. ASSUME NEW k \in Requests, k # h, Replaces(asks'[k])
          PROVE  NewerIn(asks'[k], base')
      <3>1. asks'[k] = asks[k] /\ NewerIn(asks[k], base) /\ asks[k].at # "idle"
        BY <1>1, <2>2, <2>4 DEF Replaces
      <3>2. asks[h].kind \in Index!Additive
        BY <2>2, <2>4, <3>1
      <3>3. base \subseteq base' => NewerIn(asks[k], base')
        BY <3>1 DEF NewerIn
      <3>4. FileCallOK(asks[k])
        BY FilesTyped
      <3> QED BY <2>1, <2>4, <3>1, <3>2, <3>3, <3>4
    <2> QED BY <1>1, <2>1, <2>3, <2>4
  <1>6. SerialCalm'
    <2>1. r.at = "idle" => r = Index!Idle
      BY DEF FileCallOK, CourseOK
    <2> QED BY <2>1, SerialGoes
  <1> QED BY <1>1, <1>2, <1>3, <1>4, <1>5, <1>6 DEF FilesInv

\* A request comes: it changes no vector and no member.
LEMMA FilesStart ==
    ASSUME FilesInv, NEW h \in Requests, NEW r, Index!Start(h, r),
           FileCallOK(r), r.at # "idle", r.at \notin {"complete", "dropOld"}, r.old = {},
           UNCHANGED <<own, base, inserted, members>>,
           row' \in [Documents -> FileRows], doubled' \in BOOLEAN,
           \A f \in Documents : row'[f].status = "pending" =>
               Awaits(r, f) \/ row[f].status = "pending",
           ~split /\ Calm(row, own, base, members, doubled, Index!Idle) =>
               Calm(row', own, base, members, doubled', r)
    PROVE  FilesInv'
  <1>1. /\ asks[h].at = "idle" /\ asks' = [asks EXCEPT ![h] = r] /\ died' = died
        /\ split' = (split \/ Index!Busy # {})
        /\ mixed' = (mixed \/ \E x \in Index!Busy :
                        ~({r.kind, asks[x].kind} \subseteq Index!Additive))
    BY DEF Index!Start, Index!Busy
  <1>2. /\ asks'[h] = r /\ \A g \in Requests : g # h => asks'[g] = asks[g]
        /\ asks' = [g \in Requests |-> asks'[g]]
    BY <1>1, CallGoes
  <1>3. \A g \in Requests : FileCallOK(asks'[g])
    BY <1>2, FilesTyped
  <1>4. Numbered'
    BY <1>2 DEF FilesInv, Numbered
  <1>5. PendingAwaited'
    <2>1. \A f : ~Awaits(asks[h], f)
      BY <1>1 DEF Awaits
    <2> QED BY <1>1, <2>1, PendingGoes
  <1>6. Unmixed'
    <2>1. SUFFICES ASSUME ~mixed'
                   PROVE  /\ \A k, g \in Requests :
                                k # g /\ asks'[k].at # "idle" /\ asks'[g].at # "idle" =>
                                   /\ asks'[k].kind \in Index!Additive
                                   /\ asks'[g].kind \in Index!Additive
                          /\ \A k \in Requests :
                                Replaces(asks'[k]) => NewerIn(asks'[k], base)
      BY DEF Unmixed, Index!Additive, Replaces, NewerIn
    <2>2. /\ \A k, g \in Requests : k # g /\ asks[k].at # "idle" /\ asks[g].at # "idle" =>
                asks[k].kind \in Index!Additive /\ asks[g].kind \in Index!Additive
          /\ \A k \in Requests : Replaces(asks[k]) => NewerIn(asks[k], base)
      BY <1>1, <2>1 DEF FilesInv, Unmixed
    <2>3. \A k \in Requests : asks[k].at # "idle" =>
              r.kind \in Index!Additive /\ asks[k].kind \in Index!Additive
      BY <1>1, <2>1 DEF Index!Busy
    <2>4. ~Replaces(r)
      BY DEF Replaces
    <2> QED BY <1>2, <2>2, <2>3, <2>4
  <1>7. SerialCalm'
    <2>1. UNCHANGED <<own, base, members>>
      OBVIOUS
    <2> QED BY <1>1, <2>1, SerialStarts
  <1>8. FilesOK(row, own, base, members)' /\ inserted' = inserted
    BY DEF FilesInv, FilesOK
  <1> QED BY <1>2, <1>3, <1>4, <1>5, <1>6, <1>7, <1>8 DEF FilesInv
-----------------------------------------------------------------------------
(* Requests that come.                                                     *)

\* When no request is under way, rows and vectors agree.
Quiet(rows_, own_, base_, members_, twice) ==
    /\ ApartCalm(rows_, base_, members_, twice)
    /\ \A f \in Documents : RowCalm(rows_[f], own_[f])
    /\ \A v \in base_ : v.file \in members_
    /\ ~twice => \A f \in members_ : rows_[f].status = "completed" =>
                     CurrentIn(rows_[f], VectorsIn(base_, f))

LEMMA QuietIsCalm ==
    ASSUME NEW rows_, NEW own_, NEW base_, NEW members_, NEW twice
    PROVE  Calm(rows_, own_, base_, members_, twice, Index!Idle)
             <=> Quiet(rows_, own_, base_, members_, twice)
  <1>1. /\ Index!Idle.kind = "none" /\ Index!Idle.at = "idle" /\ Index!Idle.into = "own"
    BY DEF Index!Idle
  <1>2. /\ ~HasRow(Index!Idle) /\ ~InBase(Index!Idle)
        /\ \A f : ~Settles(Index!Idle, f) /\ ~Answers(Index!Idle, f)
    BY <1>1 DEF HasRow, InBase, Settles, Answers, BaseKinds, OnFile
  <1>3. \A x, texts_, vectors_, listed :
            /\ OwnCalm(x, texts_, vectors_, listed, Index!Idle)
            /\ BaseCalm(x, base_, vectors_, listed, twice, Index!Idle)
            /\ GoingCalm(x, vectors_, listed, Index!Idle)
    BY <1>1, <1>2 DEF OwnCalm, BaseCalm, GoingCalm
  <1>4. RebuildCalm(base_, members_, Index!Idle) /\ BatchCalm(rows_, base_, members_, Index!Idle)
    BY <1>1 DEF RebuildCalm, BatchCalm
  <1>5. RowsCalm(rows_, own_, Index!Idle) <=> \A f \in Documents : RowCalm(rows_[f], own_[f])
    BY <1>2 DEF RowsCalm
  <1>6. FoundCalm(base_, members_, Index!Idle) <=> \A v \in base_ : v.file \in members_
    BY <1>2 DEF FoundCalm
  <1>7. CurrentCalm(rows_, base_, members_, twice, Index!Idle) <=>
            (~twice => \A f \in members_ : rows_[f].status = "completed" =>
                           CurrentIn(rows_[f], VectorsIn(base_, f)))
    BY <1>2 DEF CurrentCalm
  <1> QED BY <1>3, <1>4, <1>5, <1>6, <1>7 DEF Calm, Quiet

\* A request that has just come.
Asked(kind, at, on, text, flag, into, todo) ==
    CallOf(kind, at, on, text, flag, into, {}, todo, {})

LEMMA AskedOK ==
    ASSUME NEW kind, NEW at, NEW on, NEW text, NEW flag, NEW into, NEW todo,
           at # "idle", at \notin {"content", "check", "embed"},
           CourseOK(Asked(kind, at, on, text, flag, into, todo)),
           kind \in OnFile => on \in Documents, kind = "reindex" => todo \subseteq Documents,
           kind = "reindex" => at \notin ProcessStages,
           kind = "batch" => todo \subseteq Documents \X (0 .. MaxVersions),
           kind \in {"upload", "edit"} => text \in Versions,
           text \in 0 .. Index!NoHash, at \notin {"query", "complete"}
    PROVE  FileCallOK(Asked(kind, at, on, text, flag, into, todo))
  BY CallHas DEF FileCallOK, HeldOK, Asked

LEMMA FilesUploads ==
    ASSUME FilesInv, NEW h \in Requests, NEW f \in Documents, NEW text \in Versions,
           NEW linked \in BOOLEAN, Index!Upload(h, f, text, linked)
    PROVE  FilesInv'
  <1> DEFINE r == Asked("upload", "load", f, text, linked, "own", {})
             x == [status |-> "pending", text |-> 0, hash |-> Index!NoHash]
  <1>0. [Index!Idle EXCEPT !.kind = "upload", !.at = "load", !.on = f, !.text = text,
                            !.flag = linked] = r
    <2>1. [Index!Idle EXCEPT !.kind = "upload", !.at = "load", !.on = f, !.text = text,
                             !.flag = linked]
              = SetFlag(SetText(SetOn(SetAt(SetKind(Index!Idle, "upload"), "load"), f), text),
                    linked)
      BY Zenon DEF SetFlag, SetText, SetOn, SetAt, SetKind
    <2>2. SetFlag(SetText(SetOn(SetAt(SetKind(Index!Idle, "upload"), "load"), f), text),
          linked) = r
      BY CallSets, IdleIsCall DEF Asked
    <2> QED BY Zenon, <2>1, <2>2
  <1>1. /\ row[f].status = "new" /\ row' = [row EXCEPT ![f] = x] /\ Index!Start(h, r)
        /\ UNCHANGED <<own, base, inserted, members, doubled>>
    BY <1>0 DEF Index!Upload, Index!Vectors
  <1>2. FileCallOK(r)
    BY HashKnown, AskedOK DEF CourseOK, Asked, CallOf, Versions, OnFile, ProcessStages
  <1>3. r.at = "load" /\ r.old = {} /\ r.kind = "upload" /\ r.on = f /\ r.into = "own"
    BY CallHas DEF Asked
  <1>4. row' \in [Documents -> FileRows] /\ row'[f] = x
        /\ \A g \in Documents : g # f => row'[g] = row[g]
    <2>1. x \in FileRows
      BY HashKnown DEF FileRows
    <2> QED BY <1>1, <2>1, FilesTyped
  <1>5. ASSUME Quiet(row, own, base, members, doubled)
        PROVE  Calm(row', own, base, members, doubled, r)
    <2>1. f \notin members /\ VectorsIn(base, f) = {} /\ own[f] = {}
      BY <1>1, <1>5 DEF Quiet, ApartCalm, IsThere, VectorsIn, RowCalm
    <2> HIDE DEF r
    <2>2. x.text = 0 /\ x.status = "pending"
      OBVIOUS
    <2> HIDE DEF x
    <2>3. ApartCalm(row', base, members, doubled)
      BY <1>4, <1>5, <2>1, <2>2, FilesTyped DEF Quiet, ApartCalm
    <2>4. HasRow(r)
      BY <1>3 DEF HasRow
    <2>5. RowsCalm(row', own, r)
      BY <1>3, <1>4, <1>5, <2>4 DEF Quiet, RowsCalm
    <2>6. FoundCalm(base, members, r)
      BY <1>5 DEF Quiet, FoundCalm
    <2>7. CurrentCalm(row', base, members, doubled, r)
      BY <1>4, <1>5, <2>1, FilesTyped DEF Quiet, CurrentCalm
    <2>8. OwnCalm(row'[r.on], own[r.on], VectorsIn(base, r.on), r.on \in members, r)
      BY <1>3, <1>4, <2>1, <2>2 DEF OwnCalm, IsThere
    <2>9. BaseCalm(row'[r.on], base, VectorsIn(base, r.on), r.on \in members, doubled, r)
      BY <1>3 DEF BaseCalm, InBase
    <2>10. GoingCalm(row'[r.on], VectorsIn(base, r.on), r.on \in members, r)
      BY <1>3 DEF GoingCalm
    <2>11. RebuildCalm(base, members, r) /\ BatchCalm(row', base, members, r)
      BY <1>3 DEF RebuildCalm, BatchCalm
    <2> QED BY <2>3, <2>5, <2>6, <2>7, <2>8, <2>9, <2>10, <2>11 DEF Calm
  <1>6. \A g \in Documents : row'[g].status = "pending" => Awaits(r, g)
        \/ row[g].status = "pending"
    BY <1>3, <1>4 DEF Awaits
  <1> HIDE DEF r, x
  <1>7. doubled' = doubled /\ doubled \in BOOLEAN
    BY <1>1, FilesTyped
  <1>8. ~split /\ Calm(row, own, base, members, doubled, Index!Idle) =>
            Calm(row', own, base, members, doubled', r)
    BY <1>5, <1>7, QuietIsCalm
  <1> QED BY <1>1, <1>2, <1>3, <1>4, <1>6, <1>7, <1>8, FilesStart

\* A request that comes and changes nothing yet, but what counts as twice.
LEMMA AsksOnly ==
    ASSUME FilesInv, NEW h \in Requests, NEW r, Index!Start(h, r), FileCallOK(r),
           r.at # "idle", r.at \notin {"complete", "dropOld"}, r.old = {}, ~HasRow(r),
           UNCHANGED <<row, own, base, inserted, members>>,
           doubled' \in BOOLEAN, doubled => doubled',
           Quiet(row, own, base, members, doubled) =>
               /\ OwnCalm(row[r.on], own[r.on], VectorsIn(base, r.on), r.on \in members, r)
               /\ BaseCalm(row[r.on], base, VectorsIn(base, r.on), r.on \in members, doubled', r)
               /\ GoingCalm(row[r.on], VectorsIn(base, r.on), r.on \in members, r)
               /\ RebuildCalm(base, members, r) /\ BatchCalm(row, base, members, r)
    PROVE  FilesInv'
  <1>1. row' \in [Documents -> FileRows] /\ UNCHANGED <<own, base, inserted, members>>
    BY FilesTyped
  <1>2. ASSUME Quiet(row, own, base, members, doubled)
        PROVE  Calm(row', own, base, members, doubled', r)
    <2>1. row' = row
      OBVIOUS
    <2>2. ApartCalm(row, base, members, doubled')
      BY <1>2 DEF Quiet, ApartCalm
    <2>3. RowsCalm(row, own, r) /\ FoundCalm(base, members, r)
      BY <1>2 DEF Quiet, RowsCalm, FoundCalm
    <2>4. CurrentCalm(row, base, members, doubled', r)
      BY <1>2 DEF Quiet, CurrentCalm
    <2> QED BY <1>2, <2>1, <2>2, <2>3, <2>4 DEF Calm
  <1>3. ~split /\ Calm(row, own, base, members, doubled, Index!Idle) =>
            Calm(row', own, base, members, doubled', r)
    BY <1>2, QuietIsCalm
  <1> QED BY <1>1, <1>3, FilesStart

LEMMA FilesAdds ==
    ASSUME FilesInv, NEW h \in Requests, NEW f \in Documents, Index!Add(h, f)
    PROVE  FilesInv'
  <1> DEFINE r == Asked("add", "load", f, 0, Unset, "base", {})
  <1>0. [Index!Idle EXCEPT !.kind = "add", !.at = "load", !.on = f, !.into = "base"] = r
    <2>1. [Index!Idle EXCEPT !.kind = "add", !.at = "load", !.on = f, !.into = "base"]
              = SetInto(SetOn(SetAt(SetKind(Index!Idle, "add"), "load"), f), "base")
      BY Zenon DEF SetInto, SetOn, SetAt, SetKind
    <2>2. SetInto(SetOn(SetAt(SetKind(Index!Idle, "add"), "load"), f), "base") = r
      BY CallSets, IdleIsCall DEF Asked
    <2> QED BY Zenon, <2>1, <2>2
  <1>1. /\ IsThere(row[f]) /\ Index!Start(h, r) /\ doubled' = (doubled \/ f \in members)
        /\ UNCHANGED <<row, own, base, inserted, members>>
    BY <1>0 DEF Index!Add, Index!There, Index!Vectors, IsThere
  <1>2. FileCallOK(r)
    BY HashKnown, AskedOK DEF CourseOK, Asked, CallOf, Versions, OnFile, ProcessStages
  <1>3. /\ r.at = "load" /\ r.old = {} /\ r.kind = "add" /\ r.on = f /\ r.into = "base"
    BY CallHas DEF Asked
  <1> HIDE DEF r
  <1>4. ~HasRow(r) /\ doubled' \in BOOLEAN /\ (doubled => doubled')
    BY <1>1, <1>3, FilesTyped DEF HasRow
  <1>5. ASSUME Quiet(row, own, base, members, doubled)
        PROVE  /\ OwnCalm(row[r.on], own[r.on], VectorsIn(base, r.on), r.on \in members, r)
               /\ BaseCalm(row[r.on], base, VectorsIn(base, r.on), r.on \in members, doubled', r)
               /\ GoingCalm(row[r.on], VectorsIn(base, r.on), r.on \in members, r)
               /\ RebuildCalm(base, members, r) /\ BatchCalm(row, base, members, r)
    <2>1. OwnCalm(row[r.on], own[r.on], VectorsIn(base, r.on), r.on \in members, r)
      BY <1>3, <1>4 DEF OwnCalm
    <2>2. GoingCalm(row[r.on], VectorsIn(base, r.on), r.on \in members, r)
      BY <1>3 DEF GoingCalm
    <2>3. RebuildCalm(base, members, r) /\ BatchCalm(row, base, members, r)
      BY <1>3 DEF RebuildCalm, BatchCalm
    <2>4. ~doubled' => VectorsIn(base, f) = {}
      BY <1>1, <1>5 DEF Quiet, VectorsIn
    <2>5. BaseCalm(row[r.on], base, VectorsIn(base, r.on), r.on \in members, doubled', r)
      BY <1>1, <1>3, <2>4 DEF BaseCalm
    <2> QED BY <2>1, <2>2, <2>3, <2>5
  <1> QED BY <1>1, <1>2, <1>3, <1>4, <1>5, AsksOnly

LEMMA FilesEdits ==
    ASSUME FilesInv, NEW h \in Requests, NEW f \in Documents, NEW text \in Versions,
           Index!Edit(h, f, text)
    PROVE  FilesInv'
  <1> DEFINE r == Asked("edit", "load", f, text, Unset, "own", {})
  <1>0. [Index!Idle EXCEPT !.kind = "edit", !.at = "load", !.on = f, !.text = text] = r
    <2>1. [Index!Idle EXCEPT !.kind = "edit", !.at = "load", !.on = f, !.text = text]
              = SetText(SetOn(SetAt(SetKind(Index!Idle, "edit"), "load"), f), text)
      BY Zenon DEF SetText, SetOn, SetAt, SetKind
    <2>2. SetText(SetOn(SetAt(SetKind(Index!Idle, "edit"), "load"), f), text) = r
      BY CallSets, IdleIsCall DEF Asked
    <2> QED BY Zenon, <2>1, <2>2
  <1>1. /\ IsThere(row[f]) /\ Index!Start(h, r)
        /\ UNCHANGED <<row, own, base, inserted, members, doubled>>
    BY <1>0 DEF Index!Edit, Index!There, Index!Vectors, IsThere
  <1>2. FileCallOK(r)
    BY HashKnown, AskedOK DEF CourseOK, Asked, CallOf, Versions, OnFile, ProcessStages
  <1>3. /\ r.at = "load" /\ r.old = {} /\ r.kind = "edit" /\ r.on = f /\ r.into = "own"
    BY CallHas DEF Asked
  <1> HIDE DEF r
  <1>4. ~HasRow(r) /\ ~InBase(r) /\ doubled' \in BOOLEAN /\ (doubled => doubled')
    BY <1>1, <1>3, FilesTyped DEF HasRow, InBase
  <1>5. /\ OwnCalm(row[r.on], own[r.on], VectorsIn(base, r.on), r.on \in members, r)
        /\ BaseCalm(row[r.on], base, VectorsIn(base, r.on), r.on \in members, doubled', r)
        /\ GoingCalm(row[r.on], VectorsIn(base, r.on), r.on \in members, r)
        /\ RebuildCalm(base, members, r) /\ BatchCalm(row, base, members, r)
    BY <1>1, <1>3, <1>4 DEF OwnCalm, GoingCalm, RebuildCalm, BatchCalm, BaseCalm
  <1> QED BY <1>1, <1>2, <1>3, <1>4, <1>5, AsksOnly

LEMMA FilesRefreshes ==
    ASSUME FilesInv, NEW h \in Requests, NEW f \in Documents, Index!Refresh(h, f)
    PROVE  FilesInv'
  <1> DEFINE r == Asked("refresh", "clear", f, Index!NoHash, Unset, "base", {})
  <1>0. [Index!Idle EXCEPT !.kind = "refresh", !.at = "clear", !.on = f, !.into = "base",
                            !.text = Index!NoHash] = r
    <2>1. [Index!Idle EXCEPT !.kind = "refresh", !.at = "clear", !.on = f, !.into = "base",
                             !.text = Index!NoHash]
              = SetText(SetInto(SetOn(SetAt(SetKind(Index!Idle, "refresh"), "clear"), f),
                    "base"), Index!NoHash)
      BY Zenon DEF SetText, SetInto, SetOn, SetAt, SetKind
    <2>2. SetText(SetInto(SetOn(SetAt(SetKind(Index!Idle, "refresh"), "clear"), f), "base"),
          Index!NoHash) = r
      BY CallSets, IdleIsCall DEF Asked
    <2> QED BY Zenon, <2>1, <2>2
  <1>1. /\ IsThere(row[f]) /\ f \in members /\ Index!Start(h, r)
        /\ UNCHANGED <<row, own, base, inserted, members, doubled>>
    BY <1>0 DEF Index!Refresh, Index!There, Index!Vectors, IsThere
  <1>2. FileCallOK(r)
    BY HashKnown, AskedOK DEF CourseOK, Asked, CallOf, Versions, OnFile, ProcessStages
  <1>3. /\ r.at = "clear" /\ r.old = {} /\ r.kind = "refresh" /\ r.on = f /\ r.into = "base"
        /\ r.text = Index!NoHash
    BY CallHas DEF Asked
  <1> HIDE DEF r
  <1>4. ~HasRow(r) /\ ~InBase(r) /\ doubled' \in BOOLEAN /\ (doubled => doubled')
    BY <1>1, <1>3, FilesTyped DEF HasRow, InBase, ProcessStages
  <1>5. /\ OwnCalm(row[r.on], own[r.on], VectorsIn(base, r.on), r.on \in members, r)
        /\ BaseCalm(row[r.on], base, VectorsIn(base, r.on), r.on \in members, doubled', r)
        /\ GoingCalm(row[r.on], VectorsIn(base, r.on), r.on \in members, r)
        /\ RebuildCalm(base, members, r) /\ BatchCalm(row, base, members, r)
    BY <1>1, <1>3, <1>4 DEF OwnCalm, GoingCalm, RebuildCalm, BatchCalm, BaseCalm
  <1> QED BY <1>1, <1>2, <1>3, <1>4, <1>5, AsksOnly

LEMMA FilesRemoves ==
    ASSUME FilesInv, NEW h \in Requests, NEW f \in Documents, NEW withFile \in BOOLEAN,
           Index!Remove(h, f, withFile)
    PROVE  FilesInv'
  <1> DEFINE r == Asked("remove", "unlist", f, row[f].hash, withFile, "own", {})
  <1>0. [Index!Idle EXCEPT !.kind = "remove", !.at = "unlist", !.on = f,
                            !.text = row[f].hash, !.flag = withFile] = r
    <2>1. [Index!Idle EXCEPT !.kind = "remove", !.at = "unlist", !.on = f, !.text = row[f].hash,
                             !.flag = withFile]
              = SetFlag(SetText(SetOn(SetAt(SetKind(Index!Idle, "remove"), "unlist"), f),
                    row[f].hash), withFile)
      BY Zenon DEF SetFlag, SetText, SetOn, SetAt, SetKind
    <2>2. SetFlag(SetText(SetOn(SetAt(SetKind(Index!Idle, "remove"), "unlist"), f),
          row[f].hash), withFile) = r
      BY CallSets, IdleIsCall DEF Asked
    <2> QED BY Zenon, <2>1, <2>2
  <1>1. /\ IsThere(row[f]) /\ Index!Start(h, r)
        /\ UNCHANGED <<row, own, base, inserted, members, doubled>>
    BY <1>0 DEF Index!Remove, Index!There, Index!Vectors, IsThere
  <1>2. FileCallOK(r)
    <2>1. row[f].hash \in 0 .. Index!NoHash
      BY FilesTyped DEF FileRows
    <2> QED BY <2>1, AskedOK DEF CourseOK, Asked, CallOf, Versions, OnFile, ProcessStages
  <1>3. /\ r.at = "unlist" /\ r.old = {} /\ r.kind = "remove" /\ r.on = f /\ r.into = "own"
        /\ r.text = row[f].hash
    BY CallHas DEF Asked
  <1> HIDE DEF r
  <1>4. ~HasRow(r) /\ ~InBase(r) /\ doubled' \in BOOLEAN /\ (doubled => doubled')
    BY <1>1, <1>3, FilesTyped DEF HasRow, InBase
  <1>5. /\ OwnCalm(row[r.on], own[r.on], VectorsIn(base, r.on), r.on \in members, r)
        /\ BaseCalm(row[r.on], base, VectorsIn(base, r.on), r.on \in members, doubled', r)
        /\ GoingCalm(row[r.on], VectorsIn(base, r.on), r.on \in members, r)
        /\ RebuildCalm(base, members, r) /\ BatchCalm(row, base, members, r)
    BY <1>1, <1>3, <1>4 DEF OwnCalm, GoingCalm, RebuildCalm, BatchCalm, BaseCalm
  <1> QED BY <1>1, <1>2, <1>3, <1>4, <1>5, AsksOnly

LEMMA FilesDeletes ==
    ASSUME FilesInv, NEW h \in Requests, NEW f \in Documents, Index!Delete(h, f)
    PROVE  FilesInv'
  <1> DEFINE at == IF f \in members THEN "unlist" ELSE "deleteRow"
             r == Asked("delete", at, f, row[f].hash, Unset, "own", {})
  <1>0. [Index!Idle EXCEPT !.kind = "delete", !.at = at, !.on = f,
                            !.text = row[f].hash] = r
    <2>1. [Index!Idle EXCEPT !.kind = "delete", !.at = at, !.on = f, !.text = row[f].hash]
              = SetText(SetOn(SetAt(SetKind(Index!Idle, "delete"), at), f), row[f].hash)
      BY Zenon DEF SetText, SetOn, SetAt, SetKind
    <2>2. SetText(SetOn(SetAt(SetKind(Index!Idle, "delete"), at), f), row[f].hash) = r
      BY CallSets, IdleIsCall DEF Asked
    <2> QED BY Zenon, <2>1, <2>2
  <1>1. /\ IsThere(row[f]) /\ Index!Start(h, r)
        /\ UNCHANGED <<row, own, base, inserted, members, doubled>>
    BY <1>0 DEF Index!Delete, Index!There, Index!Vectors, IsThere
  <1>2. FileCallOK(r)
    <2>1. row[f].hash \in 0 .. Index!NoHash
      BY FilesTyped DEF FileRows
    <2>2. at \in {"unlist", "deleteRow"}
      OBVIOUS
    <2> HIDE DEF at
    <2> QED BY <2>1, <2>2, AskedOK DEF CourseOK, Asked, CallOf, Versions, OnFile, ProcessStages
  <1>3. /\ r.at = at /\ r.old = {} /\ r.kind = "delete" /\ r.on = f /\ r.into = "own"
        /\ r.text = row[f].hash
    BY CallHas DEF Asked
  <1>4. at \in {"unlist", "deleteRow"} /\ (at = "unlist" <=> f \in members)
    OBVIOUS
  <1> HIDE DEF r, at
  <1>5. ~HasRow(r) /\ ~InBase(r) /\ doubled' \in BOOLEAN /\ (doubled => doubled')
    BY <1>1, <1>3, FilesTyped DEF HasRow, InBase
  <1>6. ASSUME Quiet(row, own, base, members, doubled)
        PROVE  /\ OwnCalm(row[r.on], own[r.on], VectorsIn(base, r.on), r.on \in members, r)
               /\ BaseCalm(row[r.on], base, VectorsIn(base, r.on), r.on \in members, doubled', r)
               /\ GoingCalm(row[r.on], VectorsIn(base, r.on), r.on \in members, r)
               /\ RebuildCalm(base, members, r) /\ BatchCalm(row, base, members, r)
    <2>1. f \notin members => VectorsIn(base, f) = {}
      BY <1>6 DEF Quiet, VectorsIn
    <2>2. GoingCalm(row[r.on], VectorsIn(base, r.on), r.on \in members, r)
      BY <1>1, <1>3, <1>4, <2>1 DEF GoingCalm
    <2> QED BY <1>3, <1>4, <1>5, <2>2 DEF OwnCalm, RebuildCalm, BatchCalm, BaseCalm
  <1> QED BY <1>1, <1>2, <1>3, <1>4, <1>5, <1>6, AsksOnly

LEMMA FilesRebuilds ==
    ASSUME FilesInv, NEW h \in Requests, Index!Reindex(h) \/ Index!Reset(h)
    PROVE  FilesInv'
  <1> DEFINE listed == {f \in members : Index!There(f)}
             r == Asked("reindex", "dropBase", "none", 0, Unset, "base", listed)
             s == Asked("reset", "dropBase", "none", 0, Unset, "own", {})
  <1>0. /\ [Index!Idle EXCEPT !.kind = "reindex", !.at = "dropBase", !.into = "base",
                            !.todo = listed] = r
        /\ [Index!Idle EXCEPT !.kind = "reset", !.at = "dropBase"] = s
    <2>1. [Index!Idle EXCEPT !.kind = "reindex", !.at = "dropBase", !.into = "base",
                             !.todo = listed]
              = SetTodo(SetInto(SetAt(SetKind(Index!Idle, "reindex"), "dropBase"), "base"), listed)
      BY Zenon DEF SetTodo, SetInto, SetAt, SetKind
    <2>2. SetTodo(SetInto(SetAt(SetKind(Index!Idle, "reindex"), "dropBase"), "base"), listed) = r
      BY CallSets, IdleIsCall DEF Asked
    <2>3. [Index!Idle EXCEPT !.kind = "reset", !.at = "dropBase"]
              = SetAt(SetKind(Index!Idle, "reset"), "dropBase")
      BY Zenon DEF SetAt, SetKind
    <2>4. SetAt(SetKind(Index!Idle, "reset"), "dropBase") = s
      BY CallSets, IdleIsCall DEF Asked
    <2> QED BY Zenon, <2>1, <2>2, <2>3, <2>4
  <1>1. /\ Index!Start(h, r) \/ Index!Start(h, s)
        /\ UNCHANGED <<row, own, base, inserted, members, doubled>>
    BY <1>0 DEF Index!Reindex, Index!Reset, Index!Vectors
  <1>2. FileCallOK(r) /\ FileCallOK(s)
    <2>1. listed \subseteq Documents
      BY FilesTyped
    <2> HIDE DEF listed
    <2> QED BY <2>1, HashKnown, AskedOK
            DEF CourseOK, Asked, CallOf, Versions, OnFile, ProcessStages
  <1>3. /\ r.at = "dropBase" /\ r.old = {} /\ r.kind = "reindex" /\ r.into = "base"
        /\ r.todo = listed
        /\ s.at = "dropBase" /\ s.old = {} /\ s.kind = "reset" /\ s.into = "own"
    BY CallHas DEF Asked
  <1> HIDE DEF r, s
  <1>4. /\ ~HasRow(r) /\ ~InBase(r) /\ ~HasRow(s) /\ ~InBase(s)
        /\ doubled' \in BOOLEAN /\ (doubled => doubled')
    BY <1>1, <1>3, FilesTyped DEF HasRow, InBase, ProcessStages
  <1>5. ASSUME Quiet(row, own, base, members, doubled)
        PROVE  /\ OwnCalm(row[r.on], own[r.on], VectorsIn(base, r.on), r.on \in members, r)
               /\ BaseCalm(row[r.on], base, VectorsIn(base, r.on), r.on \in members, doubled', r)
               /\ GoingCalm(row[r.on], VectorsIn(base, r.on), r.on \in members, r)
               /\ RebuildCalm(base, members, r) /\ BatchCalm(row, base, members, r)
    <2>1. listed = members
      BY <1>5 DEF Quiet, ApartCalm, Index!There, IsThere
    <2> HIDE DEF listed
    <2>2. RebuildCalm(base, members, r)
      BY <1>3, <2>1 DEF RebuildCalm, ProcessStages
    <2> QED BY <1>3, <1>4, <2>2 DEF OwnCalm, GoingCalm, BatchCalm, BaseCalm
  <1>6. /\ OwnCalm(row[s.on], own[s.on], VectorsIn(base, s.on), s.on \in members, s)
        /\ BaseCalm(row[s.on], base, VectorsIn(base, s.on), s.on \in members, doubled', s)
        /\ GoingCalm(row[s.on], VectorsIn(base, s.on), s.on \in members, s)
        /\ RebuildCalm(base, members, s) /\ BatchCalm(row, base, members, s)
    BY <1>3, <1>4 DEF OwnCalm, GoingCalm, RebuildCalm, BatchCalm, BaseCalm
  <1>7. CASE Index!Start(h, r)
    BY <1>1, <1>2, <1>3, <1>4, <1>5, <1>7, AsksOnly
  <1>8. CASE Index!Start(h, s)
    BY <1>1, <1>2, <1>3, <1>4, <1>6, <1>8, AsksOnly
  <1> QED BY <1>1, <1>7, <1>8

LEMMA FilesBatches ==
    ASSUME FilesInv, NEW h \in Requests, NEW files \in SUBSET Documents,
           Index!AddBatch(h, files)
    PROVE  FilesInv'
  <1> DEFINE puts == {<<f, row[f].text>> : f \in files \ members}
             r == Asked("batch", "embedBatch", "none", 0, Unset, "own", puts)
  <1>0. [Index!Idle EXCEPT !.kind = "batch", !.at = "embedBatch", !.todo = puts] = r
    <2>1. [Index!Idle EXCEPT !.kind = "batch", !.at = "embedBatch", !.todo = puts]
              = SetTodo(SetAt(SetKind(Index!Idle, "batch"), "embedBatch"), puts)
      BY Zenon DEF SetTodo, SetAt, SetKind
    <2>2. SetTodo(SetAt(SetKind(Index!Idle, "batch"), "embedBatch"), puts) = r
      BY CallSets, IdleIsCall DEF Asked
    <2> QED BY Zenon, <2>1, <2>2
  <1>1. /\ Index!Start(h, r) /\ \A f \in files : IsThere(row[f])
        /\ UNCHANGED <<row, own, base, inserted, members, doubled>>
    BY <1>0 DEF Index!AddBatch, Index!There, Index!Vectors, IsThere
  <1>2. FileCallOK(r)
    <2>1. puts \subseteq Documents \X (0 .. MaxVersions)
      BY FilesTyped DEF FileRows
    <2> HIDE DEF puts
    <2> QED BY <2>1, HashKnown, AskedOK
            DEF CourseOK, Asked, CallOf, Versions, OnFile, ProcessStages
  <1>3. /\ r.at = "embedBatch" /\ r.old = {} /\ r.kind = "batch" /\ r.into = "own"
        /\ r.todo = puts
    BY CallHas DEF Asked
  <1> HIDE DEF r
  <1>4. ~HasRow(r) /\ ~InBase(r) /\ doubled' \in BOOLEAN /\ (doubled => doubled')
    BY <1>1, <1>3, FilesTyped DEF HasRow, InBase, BaseKinds
  <1>5. ASSUME Quiet(row, own, base, members, doubled)
        PROVE  /\ OwnCalm(row[r.on], own[r.on], VectorsIn(base, r.on), r.on \in members, r)
               /\ BaseCalm(row[r.on], base, VectorsIn(base, r.on), r.on \in members, doubled', r)
               /\ GoingCalm(row[r.on], VectorsIn(base, r.on), r.on \in members, r)
               /\ RebuildCalm(base, members, r) /\ BatchCalm(row, base, members, r)
    <2>1. \A f : f \notin members => VectorsIn(base, f) = {}
      BY <1>5 DEF Quiet, VectorsIn
    <2>2. BatchCalm(row, base, members, r)
      <3>1. ASSUME NEW p \in puts
            PROVE  /\ IsThere(row[p[1]]) /\ p[2] = row[p[1]].text /\ p[1] \notin members
                   /\ VectorsIn(base, p[1]) = {}
        BY <1>1, <2>1
      <3> QED BY <1>3, <3>1 DEF BatchCalm
    <2> QED BY <1>3, <1>4, <2>2 DEF OwnCalm, GoingCalm, RebuildCalm, BaseCalm
  <1> HIDE DEF puts
  <1> QED BY <1>1, <1>2, <1>3, <1>4, <1>5, AsksOnly
-----------------------------------------------------------------------------
(* Requests that go on.                                                    *)

\* The record of a request at another stage.
Moved(c, at) == CallOf(c.kind, at, c.on, c.text, c.flag, c.into, c.docs, c.todo, c.old)

LEMMA MovedHas ==
    \A c, at : LET r == Moved(c, at)
               IN  /\ r.at = at /\ r.kind = c.kind /\ r.on = c.on /\ r.text = c.text
                   /\ r.into = c.into /\ r.docs = c.docs /\ r.todo = c.todo /\ r.old = c.old
                   /\ r = CallOf(r.kind, r.at, r.on, r.text, r.flag, r.into, r.docs, r.todo, r.old)
  BY CallHas DEF Moved

LEMMA MovesTo ==
    ASSUME FilesInv, NEW h \in Requests, NEW at, Index!Goto(h, at)
    PROVE  asks' = [asks EXCEPT ![h] = Moved(asks[h], at)]
  <1>1. asks' = [asks EXCEPT ![h] = SetAt(asks[h], at)]
    BY DEF Index!Goto, Index!Becomes, SetAt
  <1>2. SetAt(asks[h], at) = Moved(asks[h], at)
    BY FilesTyped, CallSets DEF FileCallOK, Moved
  <1> QED BY <1>1, <1>2

LEMMA CallFacts ==
    ASSUME FilesInv, NEW h \in Requests
    PROVE  /\ FileCallOK(asks[h]) /\ CourseOK(asks[h]) /\ HeldOK(asks[h])
           /\ asks[h] = CallOf(asks[h].kind, asks[h].at, asks[h].on, asks[h].text, asks[h].flag,
                               asks[h].into, asks[h].docs, asks[h].todo, asks[h].old)
  BY FilesTyped DEF FileCallOK

LEMMA IdleCallOK == FileCallOK(Index!Idle)
  BY IdleIsCall, HashKnown, CallHas DEF FileCallOK, CourseOK, HeldOK, CallOf, OnFile, ProcessStages

\* A step that changes only where the request is.
LEMMA FilesMove ==
    ASSUME FilesInv, NEW h \in Requests, NEW r, asks' = [asks EXCEPT ![h] = r],
           asks[h].at # "idle", FileCallOK(r), r.at = "idle" \/ r.kind = asks[h].kind,
           UNCHANGED <<row, own, base, inserted, members, split, mixed, died, doubled>>,
           r.old \subseteq asks[h].old \cup base,
           \A f \in Documents : row[f].status = "pending" => Awaits(r, f) \/ ~Awaits(asks[h], f),
           Replaces(r) => Replaces(asks[h]) /\ r.old = asks[h].old /\ r.on = asks[h].on,
           ~split /\ Calm(row, own, base, members, doubled, asks[h]) =>
               Calm(row, own, base, members, doubled, r)
    PROVE  FilesInv'
  <1>1. \A w \in r.old : w.id <= inserted
    BY DEF FilesInv, Numbered
  <1>2. FilesOK(row', own', base', members') /\ doubled' \in BOOLEAN /\ inserted' \in Nat
        /\ inserted <= inserted' /\ \A v \in base' : v.id <= inserted'
    BY FilesTyped DEF FilesOK, FilesInv, Numbered
  <1>3. ~mixed /\ Replaces(r) => NewerIn(r, base')
    BY DEF FilesInv, Unmixed, NewerIn
  <1>4. \A f \in Documents : row'[f].status = "pending" =>
            Awaits(r, f) \/ (row[f].status = "pending" /\ ~Awaits(asks[h], f))
    OBVIOUS
  <1>5. ~split /\ Calm(row, own, base, members, doubled, asks[h]) =>
               Calm(row', own', base', members', doubled', r)
    <2>1. row' = row /\ own' = own /\ base' = base /\ members' = members /\ doubled' = doubled
      OBVIOUS
    <2> QED BY <2>1
  <1>6. base \subseteq base' /\ \A w \in r.old : w.id <= inserted'
    BY <1>1
  <1>7. UNCHANGED <<split, mixed, died>>
    OBVIOUS
  <1> QED BY <1>2, <1>3, <1>4, <1>5, <1>6, <1>7, FilesGo
\* What a request goes on with when its processing has failed, or succeeded.
Failing(c) ==
    IF c.kind = "edit" /\ c.into = "own" THEN Moved(c, "old")
    ELSE IF c.kind = "reindex" THEN Moved(c, "next") ELSE Index!Idle

Passing(c) ==
    IF c.kind = "upload" /\ c.into = "own" /\ c.flag THEN Moved(c, "link")
    ELSE IF c.kind = "add" THEN Moved(c, "link")
    ELSE IF c.kind = "edit" /\ c.into = "own" THEN Moved(c, "old")
    ELSE IF c.kind = "edit" /\ c.into = "base" THEN Moved(c, "dropOld")
    ELSE IF c.kind = "reindex" THEN Moved(c, "next") ELSE Index!Idle

LEMMA FailingIs ==
    ASSUME FilesInv, NEW h \in Requests, Index!After(h, FALSE)
    PROVE  asks' = [asks EXCEPT ![h] = Failing(asks[h])]
  <1>1. CASE asks[h].kind = "edit" /\ asks[h].into = "own"
    <2>1. Index!Goto(h, "old")
      BY <1>1 DEF Index!After, Index!Into
    <2> QED BY <1>1, <2>1, MovesTo DEF Failing
  <1>2. CASE asks[h].kind = "reindex"
    <2>1. Index!Goto(h, "next")
      BY <1>2 DEF Index!After, Index!Into
    <2> QED BY <1>2, <2>1, MovesTo DEF Failing
  <1>3. CASE ~(asks[h].kind = "edit" /\ asks[h].into = "own") /\ asks[h].kind # "reindex"
    <2>1. Index!End(h)
      BY <1>3 DEF Index!After, Index!Into
    <2> QED BY <1>3, <2>1 DEF Failing, Index!End, Index!Becomes
  <1> QED BY <1>1, <1>2, <1>3

LEMMA PassingIs ==
    ASSUME FilesInv, NEW h \in Requests, Index!After(h, TRUE)
    PROVE  asks' = [asks EXCEPT ![h] = Passing(asks[h])]
  <1>1. CASE asks[h].kind = "upload" /\ asks[h].into = "own" /\ asks[h].flag
    <2>1. Index!Goto(h, "link")
      BY <1>1 DEF Index!After, Index!Into
    <2> QED BY <1>1, <2>1, MovesTo DEF Passing
  <1>2. CASE asks[h].kind = "upload" /\ ~(asks[h].into = "own" /\ asks[h].flag)
    <2>1. Index!End(h)
      BY <1>2 DEF Index!After, Index!Into
    <2> QED BY <1>2, <2>1 DEF Passing, Index!End, Index!Becomes
  <1>3. CASE asks[h].kind = "add"
    <2>1. Index!Goto(h, "link")
      BY <1>3 DEF Index!After, Index!Into
    <2> QED BY <1>3, <2>1, MovesTo DEF Passing
  <1>4. CASE asks[h].kind = "edit" /\ asks[h].into = "own"
    <2>1. Index!Goto(h, "old")
      BY <1>4 DEF Index!After, Index!Into
    <2> QED BY <1>4, <2>1, MovesTo DEF Passing
  <1>5. CASE asks[h].kind = "edit" /\ asks[h].into = "base"
    <2>1. Index!Goto(h, "dropOld")
      BY <1>5 DEF Index!After, Index!Into
    <2> QED BY <1>5, <2>1, MovesTo DEF Passing
  <1>6. CASE asks[h].kind = "edit" /\ asks[h].into \notin {"own", "base"}
    <2>1. Index!End(h)
      BY <1>6 DEF Index!After, Index!Into
    <2> QED BY <1>6, <2>1 DEF Passing, Index!End, Index!Becomes
  <1>7. CASE asks[h].kind = "reindex"
    <2>1. Index!Goto(h, "next")
      BY <1>7 DEF Index!After, Index!Into
    <2> QED BY <1>7, <2>1, MovesTo DEF Passing
  <1>8. CASE asks[h].kind \notin {"upload", "add", "edit", "reindex"}
    <2>1. Index!End(h)
      BY <1>8 DEF Index!After, Index!Into
    <2> QED BY <1>8, <2>1 DEF Passing, Index!End, Index!Becomes
  <1> QED BY <1>1, <1>2, <1>3, <1>4, <1>5, <1>6, <1>7, <1>8

LEMMA FailingHas ==
    ASSUME NEW c, FileCallOK(c), c.at \in {"load", "complete", "failed"}
    PROVE  /\ FileCallOK(Failing(c)) /\ (Failing(c).at = "idle" \/ Failing(c).kind = c.kind)
           /\ Failing(c).at \in {"old", "next", "idle"} /\ Failing(c).old \subseteq c.old
           /\ \A f : ~Awaits(Failing(c), f) /\ ~Replaces(Failing(c))
  <1>1. CourseOK(c) /\ HeldOK(c) /\ Index!Idle.at = "idle" /\ Index!Idle.old = {}
    BY DEF FileCallOK, Index!Idle
  <1>2. CASE c.kind = "edit" /\ c.into = "own"
    <2> DEFINE r == Moved(c, "old")
    <2>1. /\ r.at = "old" /\ r.kind = c.kind /\ r.on = c.on /\ r.text = c.text
          /\ r.into = c.into /\ r.docs = c.docs /\ r.todo = c.todo /\ r.old = c.old
          /\ r = CallOf(r.kind, r.at, r.on, r.text, r.flag, r.into, r.docs, r.todo, r.old)
      BY MovedHas
    <2> HIDE DEF r
    <2>2. CourseOK(r)
      BY <1>2, <2>1 DEF CourseOK
    <2>3. HeldOK(r)
      BY <1>1, <1>2, <2>1 DEF HeldOK, OnFile
    <2>4. Failing(c) = r
      BY <1>2 DEF Failing, r
    <2> QED BY <1>2, <2>1, <2>2, <2>3, <2>4 DEF FileCallOK, Awaits, Replaces
  <1>3. CASE c.kind = "reindex"
    <2> DEFINE r == Moved(c, "next")
    <2>1. /\ r.at = "next" /\ r.kind = c.kind /\ r.on = c.on /\ r.text = c.text
          /\ r.into = c.into /\ r.docs = c.docs /\ r.todo = c.todo /\ r.old = c.old
          /\ r = CallOf(r.kind, r.at, r.on, r.text, r.flag, r.into, r.docs, r.todo, r.old)
      BY MovedHas
    <2> HIDE DEF r
    <2>2. c.into = "base"
      BY <1>1, <1>3 DEF CourseOK
    <2>3. CourseOK(r)
      BY <1>3, <2>1, <2>2 DEF CourseOK
    <2>4. HeldOK(r)
      BY <1>1, <1>3, <2>1 DEF HeldOK, OnFile, ProcessStages
    <2>5. Failing(c) = r
      BY <1>3 DEF Failing, r
    <2> QED BY <1>3, <2>1, <2>3, <2>4, <2>5 DEF FileCallOK, Awaits, Replaces
  <1>4. CASE ~(c.kind = "edit" /\ c.into = "own") /\ c.kind # "reindex"
    <2>1. Failing(c) = Index!Idle
      BY <1>4 DEF Failing
    <2> QED BY <1>1, <2>1, IdleCallOK DEF Awaits, Replaces
  <1> QED BY <1>2, <1>3, <1>4
\* A row that is not there is refused; with nothing else under way, it is.
LEMMA LoadRefuses ==
    ASSUME FilesInv, NEW h \in Requests, asks[h].at = "load", ~IsThere(row[asks[h].on]),
           Index!After(h, FALSE),
           UNCHANGED <<row, own, base, inserted, members, split, mixed, died, doubled>>
    PROVE  FilesInv'
  <1> DEFINE c == asks[h]
             r == Failing(c)
  <1>1. asks' = [asks EXCEPT ![h] = r]
    BY FailingIs
  <1>2. /\ FileCallOK(r) /\ (r.at = "idle" \/ r.kind = c.kind) /\ r.old \subseteq c.old
        /\ ~Replaces(r)
    BY CallFacts, FailingHas
  <1> HIDE DEF r
  <1>3. ~Calm(row, own, base, members, doubled, c)
    <2>1. /\ c.kind \in {"upload", "edit"} /\ c.into = "own"
          \/ InBase(c)
      BY CallFacts DEF CourseOK, InBase, BaseKinds, ProcessStages
    <2> QED BY <2>1 DEF Calm, OwnCalm, BaseCalm
  <1>4. \A f \in Documents : row[f].status = "pending" => ~Awaits(c, f)
    BY DEF Awaits, IsThere
  <1> QED BY <1>1, <1>2, <1>3, <1>4, FilesMove

\* From one stage of its processing to another a request leaves nearly all calm.
LEMMA StageCalm ==
    ASSUME NEW rows_, NEW own_, NEW base_, NEW members_, NEW twice, NEW c, NEW r,
           r.kind = c.kind, r.on = c.on, r.into = c.into, r.todo = c.todo,
           c.kind \in {"upload", "add", "edit", "refresh", "reindex"}, c.at # "complete",
           c.kind = "add" => c.at # "link",
           c.kind = "reindex" => c.at \in ProcessStages /\ r.at \in ProcessStages,
           HasRow(c) => HasRow(r), Calm(rows_, own_, base_, members_, twice, c),
           OwnCalm(rows_[r.on], own_[r.on], VectorsIn(base_, r.on), r.on \in members_, r),
           BaseCalm(rows_[r.on], base_, VectorsIn(base_, r.on), r.on \in members_, twice, r)
    PROVE  Calm(rows_, own_, base_, members_, twice, r)
  <1>1. RowsCalm(rows_, own_, r)
    BY DEF Calm, RowsCalm
  <1>2. FoundCalm(base_, members_, r)
    BY DEF Calm, FoundCalm, Settles
  <1>3. CurrentCalm(rows_, base_, members_, twice, r)
    BY DEF Calm, CurrentCalm, Answers
  <1>4. GoingCalm(rows_[r.on], VectorsIn(base_, r.on), r.on \in members_, r)
    BY DEF GoingCalm
  <1>5. RebuildCalm(base_, members_, r) /\ BatchCalm(rows_, base_, members_, r)
    BY DEF Calm, RebuildCalm, BatchCalm, ProcessStages
  <1> QED BY <1>1, <1>2, <1>3, <1>4, <1>5 DEF Calm

\* The processing fails, at any stage before the row would say it is done.
LEMMA FilesGivesUp ==
    ASSUME FilesInv, NEW h \in Requests, asks[h].at \in {"load", "check", "embed"},
           Index!Goto(h, "failed"), asks[h].kind = "edit" => asks[h].at # "load",
           UNCHANGED <<row, own, base, inserted, members, split, mixed, died, doubled>>
    PROVE  FilesInv'
  <1> DEFINE c == asks[h]
             r == Moved(c, "failed")
  <1>1. asks' = [asks EXCEPT ![h] = r]
    BY MovesTo
  <1>2. /\ r.at = "failed" /\ r.kind = c.kind /\ r.on = c.on /\ r.text = c.text
        /\ r.into = c.into /\ r.docs = c.docs /\ r.todo = c.todo /\ r.old = c.old
        /\ r = CallOf(r.kind, r.at, r.on, r.text, r.flag, r.into, r.docs, r.todo, r.old)
    BY MovedHas
  <1> HIDE DEF r
  <1>3. c.kind \in BaseKinds
    BY CallFacts DEF CourseOK, BaseKinds
  <1>4. FileCallOK(r)
    <2>1. CourseOK(r)
      BY <1>2, <1>3, CallFacts DEF CourseOK, BaseKinds, ProcessStages
    <2>2. HeldOK(r)
      BY <1>2, <1>3, CallFacts DEF HeldOK, OnFile, BaseKinds, ProcessStages
    <2> QED BY <1>2, <2>1, <2>2 DEF FileCallOK
  <1>5. ~Replaces(r) /\ \A g : Awaits(c, g) => Awaits(r, g)
    BY <1>2 DEF Replaces, Awaits
  <1>6. ASSUME Calm(row, own, base, members, doubled, c)
        PROVE  Calm(row, own, base, members, doubled, r)
    <2>1. (HasRow(c) <=> HasRow(r)) /\ (InBase(c) <=> InBase(r))
      BY <1>2 DEF HasRow, InBase, ProcessStages
    <2>2. OwnCalm(row[r.on], own[r.on], VectorsIn(base, r.on), r.on \in members, r)
      BY <1>2, <1>6, <2>1 DEF Calm, OwnCalm
    <2>3. BaseCalm(row[r.on], base, VectorsIn(base, r.on), r.on \in members, doubled, r)
      BY <1>2, <1>6, <2>1 DEF Calm, BaseCalm
    <2> QED BY <1>2, <1>3, <1>6, <2>1, <2>2, <2>3, StageCalm DEF BaseKinds, ProcessStages
  <1> QED BY <1>1, <1>2, <1>4, <1>5, <1>6, FilesMove

LEMMA FilesLoads ==
    ASSUME FilesInv, NEW h \in Requests, Index!Load(h)
    PROVE  FilesInv'
  <1> DEFINE c == asks[h]
             f == c.on
  <1>1. /\ c.at = "load"
        /\ UNCHANGED <<row, own, base, inserted, members, split, mixed, died, doubled>>
    BY DEF Index!Load, Index!Vectors, Index!Kept, Index!Progress, Index!At
  <1>2. \/ ~IsThere(row[f]) /\ Index!After(h, FALSE)
        \/ /\ IsThere(row[f]) /\ c.into = "base"
           /\ asks' = [asks EXCEPT ![h] = [c EXCEPT !.at = "query", !.text = row[f].text]]
        \/ IsThere(row[f]) /\ c.into # "base" /\ c.kind = "edit" /\ Index!Goto(h, "dropOwn")
        \/ /\ IsThere(row[f]) /\ c.into # "base" /\ c.kind # "edit"
           /\ asks' = [asks EXCEPT ![h] = [c EXCEPT !.at = "content", !.docs = {c.text}]]
        \/ IsThere(row[f]) /\ c.into # "base" /\ c.kind # "edit" /\ Index!Goto(h, "failed")
    BY DEF Index!Load, Index!There, IsThere, Index!On, Index!Into, Index!Becomes
  <1>3. CASE ~IsThere(row[f]) /\ Index!After(h, FALSE)
    BY <1>1, <1>3, LoadRefuses
  <1>4. CASE /\ IsThere(row[f]) /\ c.into = "base"
             /\ asks' = [asks EXCEPT ![h] = [c EXCEPT !.at = "query", !.text = row[f].text]]
    <2> DEFINE r == CallOf(c.kind, "query", c.on, row[f].text, c.flag, c.into, c.docs, c.todo,
          c.old)
    <2>1. asks' = [asks EXCEPT ![h] = r]
      <3>1. [c EXCEPT !.at = "query", !.text = row[f].text] = SetText(SetAt(c, "query"),
                      row[f].text)
        BY Zenon DEF SetAt, SetText
      <3>2. SetText(SetAt(c, "query"), row[f].text) = r
        BY CallFacts, CallSets
      <3> QED BY <1>4, <3>1, <3>2
    <2>2. /\ r.at = "query" /\ r.kind = c.kind /\ r.on = c.on /\ r.text = row[f].text
          /\ r.into = c.into /\ r.docs = c.docs /\ r.todo = c.todo /\ r.old = c.old
          /\ r = CallOf(r.kind, r.at, r.on, r.text, r.flag, r.into, r.docs, r.todo, r.old)
      BY CallHas
    <2> HIDE DEF r
    <2>3. InBase(c) /\ c.kind \in BaseKinds
      BY <1>1, <1>4, CallFacts DEF CourseOK, InBase, BaseKinds, ProcessStages
    <2>4. f \in Documents /\ row[f].text \in 0 .. MaxVersions
      <3>1. f \in Documents
        BY <1>1, <2>3, CallFacts DEF HeldOK, OnFile, BaseKinds, ProcessStages
      <3> QED BY <3>1, FilesTyped DEF FileRows
    <2>5. FileCallOK(r)
      <3>1. CourseOK(r)
        BY <1>1, <1>4, <2>2, <2>3 DEF CourseOK, BaseKinds, ProcessStages
      <3>2. HeldOK(r)
        BY <1>1, <1>4, <2>2, <2>3, <2>4, CallFacts, HashKnown
           DEF HeldOK, BaseKinds, OnFile, ProcessStages
      <3> QED BY <2>2, <3>1, <3>2 DEF FileCallOK
    <2>6. ~Replaces(r) /\ \A g : ~Awaits(c, g)
      BY <1>4, <2>2 DEF Replaces, Awaits
    <2>7. ASSUME Calm(row, own, base, members, doubled, c)
          PROVE  Calm(row, own, base, members, doubled, r)
      <3>1. ~HasRow(c) /\ ~HasRow(r) /\ InBase(r)
        BY <1>4, <2>2, <2>3 DEF HasRow, InBase, ProcessStages
      <3>2. OwnCalm(row[r.on], own[r.on], VectorsIn(base, r.on), r.on \in members, r)
        BY <1>4, <2>2, <3>1 DEF OwnCalm
      <3>3. BaseCalm(row[r.on], base, VectorsIn(base, r.on), r.on \in members, doubled, r)
        BY <1>1, <2>2, <2>3, <2>7, <3>1 DEF Calm, BaseCalm, ProcessStages
      <3> QED BY <1>1, <2>2, <2>3, <2>7, <3>1, <3>2, <3>3, StageCalm DEF BaseKinds, ProcessStages
    <2> QED BY <1>1, <2>1, <2>2, <2>5, <2>6, <2>7, FilesMove
  <1>5. CASE IsThere(row[f]) /\ c.into # "base" /\ c.kind = "edit" /\ Index!Goto(h, "dropOwn")
    <2> DEFINE r == Moved(c, "dropOwn")
    <2>1. asks' = [asks EXCEPT ![h] = r]
      BY <1>5, MovesTo
    <2>2. /\ r.at = "dropOwn" /\ r.kind = c.kind /\ r.on = c.on /\ r.text = c.text
          /\ r.into = c.into /\ r.docs = c.docs /\ r.todo = c.todo /\ r.old = c.old
          /\ r = CallOf(r.kind, r.at, r.on, r.text, r.flag, r.into, r.docs, r.todo, r.old)
      BY MovedHas
    <2> HIDE DEF r
    <2>3. c.into = "own"
      BY <1>1, <1>5, CallFacts DEF CourseOK
    <2>4. FileCallOK(r)
      <3>1. CourseOK(r)
        BY <1>5, <2>2, <2>3 DEF CourseOK
      <3>2. HeldOK(r)
        BY <1>5, <2>2, <2>3, CallFacts DEF HeldOK, OnFile
      <3> QED BY <2>2, <3>1, <3>2 DEF FileCallOK
    <2>5. ~Replaces(r) /\ \A g : ~Awaits(c, g)
      BY <1>5, <2>2 DEF Replaces, Awaits
    <2>6. ASSUME Calm(row, own, base, members, doubled, c)
          PROVE  Calm(row, own, base, members, doubled, r)
      <3>1. ~HasRow(c) /\ ~HasRow(r) /\ ~InBase(r)
        BY <1>1, <1>5, <2>2, <2>3 DEF HasRow, InBase
      <3>2. OwnCalm(row[r.on], own[r.on], VectorsIn(base, r.on), r.on \in members, r)
        BY <1>5, <2>2, <3>1 DEF OwnCalm
      <3>3. BaseCalm(row[r.on], base, VectorsIn(base, r.on), r.on \in members, doubled, r)
        BY <1>5, <2>2, <3>1 DEF BaseCalm
      <3> QED BY <1>1, <1>5, <2>2, <2>6, <3>1, <3>2, <3>3, StageCalm
    <2> QED BY <1>1, <2>1, <2>2, <2>4, <2>5, <2>6, FilesMove
  <1>6. CASE /\ IsThere(row[f]) /\ c.into # "base" /\ c.kind # "edit"
             /\ asks' = [asks EXCEPT ![h] = [c EXCEPT !.at = "content", !.docs = {c.text}]]
    <2> DEFINE r == CallOf(c.kind, "content", c.on, c.text, c.flag, c.into, {c.text}, c.todo,
          c.old)
    <2>1. asks' = [asks EXCEPT ![h] = r]
      <3>1. [c EXCEPT !.at = "content", !.docs = {c.text}] = SetDocs(SetAt(c, "content"), {c.text})
        BY Zenon DEF SetAt, SetDocs
      <3>2. SetDocs(SetAt(c, "content"), {c.text}) = r
        BY CallFacts, CallSets
      <3> QED BY <1>6, <3>1, <3>2
    <2>2. /\ r.at = "content" /\ r.kind = c.kind /\ r.on = c.on /\ r.text = c.text
          /\ r.into = c.into /\ r.docs = {c.text} /\ r.todo = c.todo /\ r.old = c.old
          /\ r = CallOf(r.kind, r.at, r.on, r.text, r.flag, r.into, r.docs, r.todo, r.old)
      BY CallHas
    <2> HIDE DEF r
    <2>3. c.kind = "upload" /\ c.into = "own" /\ c.text \in Versions
      BY <1>1, <1>6, CallFacts DEF CourseOK, HeldOK
    <2>4. FileCallOK(r)
      <3>1. CourseOK(r)
        BY <2>2, <2>3 DEF CourseOK
      <3>2. HeldOK(r)
        BY <2>2, <2>3, CallFacts, HashKnown DEF HeldOK, OnFile, Versions
      <3> QED BY <2>2, <3>1, <3>2 DEF FileCallOK
    <2>5. ~Replaces(r) /\ \A g : Awaits(c, g) => Awaits(r, g)
      BY <2>2, <2>3 DEF Replaces, Awaits
    <2>6. ASSUME Calm(row, own, base, members, doubled, c)
          PROVE  Calm(row, own, base, members, doubled, r)
      <3>1. HasRow(c) /\ HasRow(r) /\ ~InBase(r)
        BY <1>1, <2>2, <2>3 DEF HasRow, InBase
      <3>2. OwnCalm(row[r.on], own[r.on], VectorsIn(base, r.on), r.on \in members, r)
        BY <1>1, <2>2, <2>3, <2>6, <3>1 DEF Calm, OwnCalm
      <3>3. BaseCalm(row[r.on], base, VectorsIn(base, r.on), r.on \in members, doubled, r)
        BY <2>2, <2>3, <3>1 DEF BaseCalm
      <3> QED BY <1>1, <2>2, <2>3, <2>6, <3>1, <3>2, <3>3, StageCalm
    <2> QED BY <1>1, <2>1, <2>2, <2>4, <2>5, <2>6, FilesMove
  <1>7. CASE IsThere(row[f]) /\ c.into # "base" /\ c.kind # "edit" /\ Index!Goto(h, "failed")
    BY <1>1, <1>7, FilesGivesUp
  <1> QED BY <1>2, <1>3, <1>4, <1>5, <1>6, <1>7
\* A step that changes no vector of the base.
LEMMA FilesWrite ==
    ASSUME FilesInv, NEW h \in Requests, NEW r, asks' = [asks EXCEPT ![h] = r],
           asks[h].at # "idle", FileCallOK(r), r.at = "idle" \/ r.kind = asks[h].kind,
           UNCHANGED <<base, inserted, split, mixed, died>>,
           row' \in [Documents -> FileRows], own' \in [Documents -> SUBSET Versions],
           members' \subseteq Documents, doubled' \in BOOLEAN, r.old \subseteq asks[h].old,
           \A f \in Documents : row'[f].status = "pending" =>
               Awaits(r, f) \/ (row[f].status = "pending" /\ ~Awaits(asks[h], f)),
           Replaces(r) => Replaces(asks[h]) /\ r.old = asks[h].old /\ r.on = asks[h].on,
           ~split /\ Calm(row, own, base, members, doubled, asks[h]) =>
               Calm(row', own', base, members', doubled', r)
    PROVE  FilesInv'
  <1>1. /\ base' = base /\ inserted' = inserted
        /\ \A w \in r.old : w.id <= inserted
    BY DEF FilesInv, Numbered
  <1>2. FilesOK(row', own', base', members') /\ inserted' \in Nat
        /\ inserted <= inserted' /\ \A v \in base' : v.id <= inserted'
    BY <1>1, FilesTyped DEF FilesOK, FilesInv, Numbered
  <1>3. ~mixed /\ Replaces(r) => NewerIn(r, base')
    BY <1>1 DEF FilesInv, Unmixed, NewerIn
  <1>4. ~split /\ Calm(row, own, base, members, doubled, asks[h]) =>
               Calm(row', own', base', members', doubled', r)
    BY <1>1
  <1>5. base \subseteq base' /\ \A w \in r.old : w.id <= inserted'
    BY <1>1
  <1>6. UNCHANGED <<split, mixed, died>>
    OBVIOUS
  <1> QED BY <1>2, <1>3, <1>4, <1>5, <1>6, FilesGo

LEMMA FilesDropsOwn ==
    ASSUME FilesInv, NEW h \in Requests, Index!DropOwn(h)
    PROVE  FilesInv'
  <1> DEFINE c == asks[h]
             f == c.on
             r == CallOf(c.kind, "content", c.on, c.text, c.flag, c.into, {c.text}, c.todo, c.old)
  <1>1. /\ c.at = "dropOwn" /\ own' = [own EXCEPT ![f] = {}]
        /\ asks' = [asks EXCEPT ![h] = [c EXCEPT !.at = "content", !.docs = {c.text}]]
        /\ UNCHANGED <<row, base, inserted, members, split, mixed, died, doubled>>
    BY DEF Index!DropOwn, Index!Kept, Index!Progress, Index!At, Index!On, Index!Becomes
  <1>2. asks' = [asks EXCEPT ![h] = r]
    <2>1. [c EXCEPT !.at = "content", !.docs = {c.text}] = SetDocs(SetAt(c, "content"), {c.text})
      BY Zenon DEF SetAt, SetDocs
    <2>2. SetDocs(SetAt(c, "content"), {c.text}) = r
      BY CallFacts, CallSets
    <2> QED BY <1>1, <2>1, <2>2
  <1>3. /\ r.at = "content" /\ r.kind = c.kind /\ r.on = c.on /\ r.text = c.text
        /\ r.into = c.into /\ r.docs = {c.text} /\ r.todo = c.todo /\ r.old = c.old
        /\ r = CallOf(r.kind, r.at, r.on, r.text, r.flag, r.into, r.docs, r.todo, r.old)
    BY CallHas
  <1> HIDE DEF r
  <1>4. c.kind = "edit" /\ c.into = "own" /\ c.text \in Versions /\ f \in Documents
    BY <1>1, CallFacts DEF CourseOK, HeldOK, OnFile, ProcessStages
  <1>5. FileCallOK(r)
    <2>1. CourseOK(r)
      BY <1>3, <1>4 DEF CourseOK
    <2>2. HeldOK(r)
      BY <1>3, <1>4, CallFacts, HashKnown DEF HeldOK, OnFile, Versions
    <2> QED BY <1>3, <2>1, <2>2 DEF FileCallOK
  <1>6. ~Replaces(r) /\ \A g : ~Awaits(c, g)
    BY <1>3, <1>4 DEF Replaces, Awaits
  <1>7. own' \in [Documents -> SUBSET Versions] /\ own'[f] = {}
        /\ \A g \in Documents : g # f => own'[g] = own[g]
    BY <1>1, <1>4, FilesTyped
  <1>8. ASSUME Calm(row, own, base, members, doubled, c)
        PROVE  Calm(row, own', base, members, doubled, r)
    <2>1. ~HasRow(c) /\ HasRow(r) /\ ~InBase(r)
      BY <1>1, <1>3, <1>4 DEF HasRow, InBase
    <2>2. RowsCalm(row, own', r)
      BY <1>3, <1>7, <1>8, <2>1 DEF Calm, RowsCalm
    <2>3. FoundCalm(base, members, r) /\ CurrentCalm(row, base, members, doubled, r)
      BY <1>3, <1>4, <1>8 DEF Calm, FoundCalm, Settles, CurrentCalm, Answers
    <2>4. OwnCalm(row[r.on], own'[r.on], VectorsIn(base, r.on), r.on \in members, r)
      BY <1>3, <1>4, <1>7, <1>8 DEF Calm, OwnCalm
    <2>5. BaseCalm(row[r.on], base, VectorsIn(base, r.on), r.on \in members, doubled, r)
      BY <1>3, <1>4, <2>1 DEF BaseCalm
    <2>6. /\ GoingCalm(row[r.on], VectorsIn(base, r.on), r.on \in members, r)
          /\ RebuildCalm(base, members, r) /\ BatchCalm(row, base, members, r)
      BY <1>3, <1>4 DEF GoingCalm, RebuildCalm, BatchCalm
    <2> QED BY <1>8, <2>2, <2>3, <2>4, <2>5, <2>6 DEF Calm
  <1>9. /\ row' \in [Documents -> FileRows] /\ members' \subseteq Documents /\ doubled' \in BOOLEAN
        /\ row' = row /\ members' = members /\ doubled' = doubled
    BY <1>1, FilesTyped
  <1> QED BY <1>1, <1>2, <1>3, <1>5, <1>6, <1>7, <1>8, <1>9, FilesWrite

LEMMA FilesQueries ==
    ASSUME FilesInv, NEW h \in Requests, Index!QueryOwn(h)
    PROVE  FilesInv'
  <1> DEFINE c == asks[h]
             f == c.on
             found == IF own[f] # {} THEN own[f] ELSE {c.text}
             r == CallOf(c.kind, "content", c.on, c.text, c.flag, c.into, found, c.todo, c.old)
  <1>1. /\ c.at = "query"
        /\ asks' = [asks EXCEPT ![h] = [c EXCEPT !.at = "content", !.docs = found]]
        /\ UNCHANGED <<row, own, base, inserted, members, split, mixed, died, doubled>>
    BY DEF Index!QueryOwn, Index!Vectors, Index!Kept, Index!Progress, Index!At, Index!On,
           Index!Becomes
  <1>2. found = {c.text} \/ (own[f] # {} /\ found = own[f])
    OBVIOUS
  <1> HIDE DEF found
  <1>3. asks' = [asks EXCEPT ![h] = r]
    <2>1. [c EXCEPT !.at = "content", !.docs = found] = SetDocs(SetAt(c, "content"), found)
      BY Zenon DEF SetAt, SetDocs
    <2>2. SetDocs(SetAt(c, "content"), found) = r
      BY CallFacts, CallSets
    <2> QED BY <1>1, <2>1, <2>2
  <1>4. /\ r.at = "content" /\ r.kind = c.kind /\ r.on = c.on /\ r.text = c.text
        /\ r.into = c.into /\ r.docs = found /\ r.todo = c.todo /\ r.old = c.old
        /\ r = CallOf(r.kind, r.at, r.on, r.text, r.flag, r.into, r.docs, r.todo, r.old)
    BY CallHas
  <1> HIDE DEF r
  <1>5. /\ c.kind \in BaseKinds /\ c.into = "base" /\ c.text \in 0 .. MaxVersions
        /\ f \in Documents /\ own[f] \subseteq Versions
    <2>1. c.kind \in BaseKinds /\ c.into = "base" /\ c.text \in 0 .. MaxVersions
      BY <1>1, CallFacts DEF CourseOK, HeldOK, BaseKinds
    <2>2. f \in Documents
      BY <1>1, <2>1, CallFacts DEF HeldOK, OnFile, BaseKinds, ProcessStages
    <2> QED BY <2>1, <2>2, FilesTyped
  <1>6. found \subseteq 0 .. MaxVersions /\ found # {}
    BY <1>2, <1>5 DEF Versions
  <1>7. FileCallOK(r)
    <2>1. CourseOK(r)
      BY <1>4, <1>5 DEF CourseOK, BaseKinds, ProcessStages
    <2>2. HeldOK(r)
      BY <1>1, <1>4, <1>5, <1>6, CallFacts, HashKnown DEF HeldOK, OnFile, BaseKinds, ProcessStages
    <2> QED BY <1>4, <2>1, <2>2 DEF FileCallOK
  <1>8. ~Replaces(r) /\ \A g : ~Awaits(c, g)
    BY <1>4, <1>5 DEF Replaces, Awaits
  <1>9. ASSUME Calm(row, own, base, members, doubled, c)
        PROVE  Calm(row, own, base, members, doubled, r)
    <2>1. ~HasRow(c) /\ ~HasRow(r) /\ InBase(c) /\ InBase(r)
      BY <1>1, <1>4, <1>5 DEF HasRow, InBase, BaseKinds, ProcessStages
    <2>2. OwnCalm(row[r.on], own[r.on], VectorsIn(base, r.on), r.on \in members, r)
      BY <1>4, <1>5, <2>1 DEF OwnCalm
    <2>3. IsThere(row[f]) /\ own[f] \subseteq {row[f].text} /\ c.text = row[f].text
      BY <1>1, <1>5, <1>9, <2>1 DEF Calm, BaseCalm, RowsCalm, RowCalm
    <2>4. found = {row[f].text}
      BY <1>2, <2>3
    <2>5. BaseCalm(row[r.on], base, VectorsIn(base, r.on), r.on \in members, doubled, r)
      BY <1>1, <1>4, <1>9, <2>1, <2>4 DEF Calm, BaseCalm, ProcessStages
    <2> QED BY <1>1, <1>4, <1>5, <1>9, <2>1, <2>2, <2>5, StageCalm DEF BaseKinds, ProcessStages
  <1> QED BY <1>1, <1>3, <1>4, <1>7, <1>8, <1>9, FilesMove
\* What counts as twice only ever excuses more.
LEMMA CalmTwice ==
    ASSUME NEW rows_, NEW own_, NEW base_, NEW members_, NEW twice, NEW more, NEW r,
           Calm(rows_, own_, base_, members_, twice, r), twice => more
    PROVE  Calm(rows_, own_, base_, members_, more, r)
  <1>1. ApartCalm(rows_, base_, members_, more) /\ CurrentCalm(rows_, base_, members_, more, r)
    BY DEF Calm, ApartCalm, CurrentCalm
  <1>2. BaseCalm(rows_[r.on], base_, VectorsIn(base_, r.on), r.on \in members_, more, r)
    BY DEF Calm, BaseCalm
  <1> QED BY <1>1, <1>2 DEF Calm

LEMMA RowsAreFields ==
    ASSUME NEW x \in FileRows, NEW y \in FileRows,
           x.status = y.status, x.text = y.text, x.hash = y.hash
    PROVE  x = y
  BY DEF FileRows

LEMMA FilesWritesContent ==
    ASSUME FilesInv, NEW h \in Requests, Index!WriteContent(h)
    PROVE  FilesInv'
  <1> DEFINE c == asks[h]
             f == c.on
             r == Moved(c, "check")
  <1>1. /\ c.at = "content" /\ Index!Goto(h, "check")
        /\ row' = IF IsThere(row[f]) THEN [row EXCEPT ![f].text = c.text] ELSE row
        /\ doubled' = (doubled \/ Index!Twins(row'))
        /\ UNCHANGED <<own, base, inserted, members, split, mixed, died>>
    BY DEF Index!WriteContent, Index!Vectors, Index!Progress, Index!At, Index!On, Index!There,
           IsThere
  <1>2. asks' = [asks EXCEPT ![h] = r]
    BY <1>1, MovesTo
  <1>3. /\ r.at = "check" /\ r.kind = c.kind /\ r.on = c.on /\ r.text = c.text
        /\ r.into = c.into /\ r.docs = c.docs /\ r.todo = c.todo /\ r.old = c.old
        /\ r = CallOf(r.kind, r.at, r.on, r.text, r.flag, r.into, r.docs, r.todo, r.old)
    BY MovedHas
  <1> HIDE DEF r
  <1>4. c.kind \in BaseKinds /\ c.text \in 0 .. MaxVersions /\ f \in Documents
    <2>1. c.kind \in BaseKinds /\ c.text \in 0 .. MaxVersions
      BY <1>1, CallFacts DEF CourseOK, HeldOK, BaseKinds
    <2>2. f \in Documents
      BY <1>1, <2>1, CallFacts DEF HeldOK, OnFile, BaseKinds, ProcessStages
    <2> QED BY <2>1, <2>2
  <1>5. FileCallOK(r)
    <2>1. CourseOK(r)
      BY <1>1, <1>3, <1>4, CallFacts DEF CourseOK, BaseKinds, ProcessStages
    <2>2. HeldOK(r)
      BY <1>1, <1>3, <1>4, CallFacts DEF HeldOK, OnFile, BaseKinds, ProcessStages
    <2> QED BY <1>3, <2>1, <2>2 DEF FileCallOK
  <1>6. ~Replaces(r) /\ \A g : Awaits(c, g) => Awaits(r, g)
    BY <1>1, <1>3 DEF Replaces, Awaits
  <1>7. /\ row' \in [Documents -> FileRows] /\ row'[f].status = row[f].status
        /\ row'[f].hash = row[f].hash
           /\ row'[f].text = IF IsThere(row[f]) THEN c.text ELSE row[f].text
        /\ \A g \in Documents : g # f => row'[g] = row[g]
    <2>1. row[f] \in FileRows /\ row \in [Documents -> FileRows]
      BY <1>4, FilesTyped
    <2> DEFINE x == [row[f] EXCEPT !.text = c.text]
    <2>2. x \in FileRows /\ x.status = row[f].status /\ x.hash = row[f].hash /\ x.text = c.text
      BY <1>4, <2>1 DEF FileRows
    <2>3. row' = IF IsThere(row[f]) THEN [row EXCEPT ![f] = x] ELSE row
      BY <1>1
    <2> HIDE DEF x
    <2> QED BY <1>4, <2>1, <2>2, <2>3
  <1>8. doubled' \in BOOLEAN /\ (doubled => doubled') /\ (~doubled' => ~Index!Twins(row'))
    BY <1>1, FilesTyped DEF Index!Twins
  <1>9. ASSUME Calm(row, own, base, members, doubled, c)
        PROVE  Calm(row', own, base, members, doubled', r)
    <2>1. CASE c.into = "own"
      <3>1. HasRow(c) /\ HasRow(r) /\ ~InBase(r)
        BY <1>1, <1>3, <1>4, <2>1, CallFacts DEF HasRow, InBase, CourseOK, BaseKinds
      <3>2. IsThere(row[f]) /\ row'[f].text = c.text /\ IsThere(row'[f])
        BY <1>7, <1>9, <3>1 DEF Calm, OwnCalm, HasRow, IsThere
      <3>3. \A g \in Documents : IsThere(row'[g]) <=> IsThere(row[g])
        BY <1>7 DEF IsThere
      <3>4. ApartCalm(row', base, members, doubled')
        <4>1. ~doubled' => \A g, k \in Documents : g # k /\ row'[g].text = row'[k].text =>
                                                      row'[g].text = 0
          BY <1>8 DEF Index!Twins
        <4> QED BY <1>9, <3>3, <4>1, FilesTyped DEF Calm, ApartCalm
      <3>5. RowsCalm(row', own, r)
        BY <1>3, <1>7, <1>9, <3>1 DEF Calm, RowsCalm
      <3>6. FoundCalm(base, members, r) /\ CurrentCalm(row', base, members, doubled', r)
        <4>1. FoundCalm(base, members, r)
          BY <1>1, <1>3, <1>9 DEF Calm, FoundCalm, Settles
        <4>2. \A g : Answers(c, g) <=> Answers(r, g)
          BY <1>1, <1>3 DEF Answers, ProcessStages
        <4>3. Answers(r, f)
          BY <1>3, <1>4, <3>1 DEF Answers, OnFile, HasRow
        <4> QED BY <1>7, <1>8, <1>9, <4>1, <4>2, <4>3, FilesTyped DEF Calm, CurrentCalm
      <3>7. OwnCalm(row'[r.on], own[r.on], VectorsIn(base, r.on), r.on \in members, r)
        BY <1>1, <1>3, <1>9, <3>1, <3>2 DEF Calm, OwnCalm
      <3>8. BaseCalm(row'[r.on], base, VectorsIn(base, r.on), r.on \in members, doubled', r)
        BY <1>3, <3>1 DEF BaseCalm
      <3>9. /\ GoingCalm(row'[r.on], VectorsIn(base, r.on), r.on \in members, r)
            /\ RebuildCalm(base, members, r) /\ BatchCalm(row', base, members, r)
        BY <1>3, <3>1 DEF GoingCalm, RebuildCalm, BatchCalm, HasRow
      <3> QED BY <3>4, <3>5, <3>6, <3>7, <3>8, <3>9 DEF Calm
    <2>2. CASE c.into # "own"
      <3>1. ~HasRow(c) /\ ~HasRow(r) /\ InBase(r) /\ InBase(c)
        BY <1>1, <1>3, <1>4, <2>2, CallFacts
           DEF HasRow, InBase, CourseOK, BaseKinds, ProcessStages
      <3>2. row[f].text = c.text
        BY <1>1, <1>9, <3>1 DEF Calm, BaseCalm
      <3>3. row'[f] = row[f]
        BY <1>4, <1>7, <3>2, RowsAreFields, FilesTyped
      <3>4. row' = row
        BY <1>7, <3>3, FilesTyped
      <3>5. OwnCalm(row[r.on], own[r.on], VectorsIn(base, r.on), r.on \in members, r)
        BY <1>3, <2>2, <3>1 DEF OwnCalm
      <3>6. BaseCalm(row[r.on], base, VectorsIn(base, r.on), r.on \in members, doubled, r)
        BY <1>1, <1>3, <1>9, <3>1 DEF Calm, BaseCalm, ProcessStages
      <3>7. Calm(row, own, base, members, doubled, r)
        BY <1>1, <1>3, <1>4, <1>9, <3>1, <3>5, <3>6, StageCalm DEF BaseKinds, ProcessStages
      <3> QED BY <1>8, <3>4, <3>7, CalmTwice
    <2> QED BY <2>1, <2>2
  <1>10. \A g \in Documents : row'[g].status = "pending" =>
             Awaits(r, g) \/ (row[g].status = "pending" /\ ~Awaits(c, g))
    BY <1>6, <1>7
  <1>11. own' \in [Documents -> SUBSET Versions] /\ members' \subseteq Documents
         /\ own' = own /\ members' = members
    BY <1>1, FilesTyped
  <1>12. ~split /\ Calm(row, own, base, members, doubled, c) =>
             Calm(row', own', base, members', doubled', r)
    BY <1>9, <1>11
  <1>13. /\ UNCHANGED <<base, inserted, split, mixed, died>> /\ c.at # "idle"
         /\ row' \in [Documents -> FileRows] /\ doubled' \in BOOLEAN
         /\ r.kind = c.kind /\ r.old \subseteq c.old /\ ~Replaces(r)
    BY <1>1, <1>3, <1>6, <1>7, <1>8
  <1> QED BY <1>2, <1>5, <1>10, <1>11, <1>12, <1>13, FilesWrite
LEMMA FilesChecks ==
    ASSUME FilesInv, NEW h \in Requests, Index!Check(h)
    PROVE  FilesInv'
  <1> DEFINE c == asks[h]
             f == c.on
             same == {v \in base : v.hash = c.text}
             alone == c.into = "own" \/ same = {} \/ \E v \in same : v.file = f
  <1>1. /\ c.at = "check"
        /\ UNCHANGED <<row, own, base, inserted, members, split, mixed, died, doubled>>
        /\ \/ Index!Goto(h, "failed")
           \/ alone /\ c.docs # {0} /\ c.into = "own" /\ own[f] # {} /\ Index!Goto(h, "complete")
           \/ alone /\ c.docs # {0} /\ Index!Goto(h, "embed")
    BY DEF Index!Check, Index!Vectors, Index!Kept, Index!Progress, Index!At, Index!On,
           Index!Into, Index!Duplicate, Index!Original, Index!Same
  <1>2. c.kind \in BaseKinds
    BY <1>1, CallFacts DEF CourseOK, BaseKinds
  <1>3. CASE Index!Goto(h, "failed")
    BY <1>1, <1>3, FilesGivesUp
  <1>4. CASE alone /\ c.docs # {0} /\ c.into = "own" /\ own[f] # {} /\ Index!Goto(h, "complete")
    <2> DEFINE r == Moved(c, "complete")
    <2>1. asks' = [asks EXCEPT ![h] = r]
      BY <1>4, MovesTo
    <2>2. /\ r.at = "complete" /\ r.kind = c.kind /\ r.on = c.on /\ r.text = c.text
          /\ r.into = c.into /\ r.docs = c.docs /\ r.todo = c.todo /\ r.old = c.old
          /\ r = CallOf(r.kind, r.at, r.on, r.text, r.flag, r.into, r.docs, r.todo, r.old)
      BY MovedHas
    <2> HIDE DEF r
    <2>3. FileCallOK(r)
      <3>1. CourseOK(r)
        BY <1>1, <1>2, <1>4, <2>2, CallFacts DEF CourseOK, BaseKinds, ProcessStages
      <3>2. HeldOK(r)
        BY <1>1, <1>2, <2>2, CallFacts DEF HeldOK, OnFile, BaseKinds, ProcessStages
      <3> QED BY <2>2, <3>1, <3>2 DEF FileCallOK
    <2>4. ~Replaces(r) /\ \A g : Awaits(c, g) => Awaits(r, g)
      BY <1>1, <1>4, <2>2 DEF Replaces, Awaits
    <2>5. ~Calm(row, own, base, members, doubled, c)
      <3>1. HasRow(c)
        BY <1>1, <1>2, <1>4, CallFacts DEF HasRow, CourseOK, BaseKinds
      <3> QED BY <1>1, <1>4, <3>1 DEF Calm, OwnCalm
    <2> HIDE DEF c, same
    <2>6. /\ UNCHANGED <<row, own, base, inserted, members, split, mixed, died, doubled>>
          /\ c.at # "idle" /\ r.kind = c.kind /\ r.old \subseteq c.old /\ ~Replaces(r)
      BY <1>1, <2>2, <2>4
    <2> QED BY <2>1, <2>3, <2>4, <2>5, <2>6, FilesMove DEF c
  <1>5. CASE alone /\ c.docs # {0} /\ Index!Goto(h, "embed")
    <2> DEFINE r == Moved(c, "embed")
    <2>1. asks' = [asks EXCEPT ![h] = r]
      BY <1>5, MovesTo
    <2>2. /\ r.at = "embed" /\ r.kind = c.kind /\ r.on = c.on /\ r.text = c.text
          /\ r.into = c.into /\ r.docs = c.docs /\ r.todo = c.todo /\ r.old = c.old
          /\ r = CallOf(r.kind, r.at, r.on, r.text, r.flag, r.into, r.docs, r.todo, r.old)
      BY MovedHas
    <2> HIDE DEF r
    <2>3. FileCallOK(r)
      <3>1. CourseOK(r)
        BY <1>1, <1>2, <2>2, CallFacts DEF CourseOK, BaseKinds, ProcessStages
      <3>2. HeldOK(r)
        BY <1>1, <1>2, <1>5, <2>2, CallFacts DEF HeldOK, OnFile, BaseKinds, ProcessStages
      <3> QED BY <2>2, <3>1, <3>2 DEF FileCallOK
    <2>4. ~Replaces(r) /\ \A g : Awaits(c, g) => Awaits(r, g)
      BY <1>1, <2>2 DEF Replaces, Awaits
    <2>5. ASSUME Calm(row, own, base, members, doubled, c)
          PROVE  Calm(row, own, base, members, doubled, r)
      <3>1. (HasRow(c) <=> HasRow(r)) /\ (InBase(c) <=> InBase(r))
        BY <1>1, <2>2 DEF HasRow, InBase, ProcessStages
      <3>2. OwnCalm(row[r.on], own[r.on], VectorsIn(base, r.on), r.on \in members, r)
        BY <1>1, <2>2, <2>5, <3>1 DEF Calm, OwnCalm
      <3>3. ASSUME InBase(r) PROVE \A v \in base : v.hash = r.text => v.file = r.on
        <4>1. c.into # "own" /\ c.text # Index!NoHash
          BY <1>1, <2>2, <3>3, CallFacts, HashKnown DEF InBase, HeldOK
        <4>2. \A v, w \in base : v.hash = w.hash /\ v.hash # Index!NoHash => v.file = w.file
          BY <2>5 DEF Calm, ApartCalm
        <4>3. same = {} \/ \E v \in same : v.file = f
          BY <1>5, <4>1
        <4>4. ASSUME NEW v \in base, v.hash = c.text PROVE v.file = f
          <5>1. v \in same
            BY <4>4
          <5>2. PICK w \in same : w.file = f
            BY <4>3, <5>1
          <5> QED BY <4>1, <4>2, <4>4, <5>2
        <4> QED BY <2>2, <4>4
      <3>4. InBase(r) => row[r.on].text # 0
        BY <1>1, <1>5, <2>2, <2>5, <3>1 DEF Calm, BaseCalm
      <3>5. BaseCalm(row[r.on], base, VectorsIn(base, r.on), r.on \in members, doubled, r)
        <4> DEFINE x == row[r.on]
                   there == VectorsIn(base, r.on)
                   listed == r.on \in members
        <4>1. BaseCalm(x, base, there, listed, doubled, c)
          BY <2>2, <2>5 DEF Calm
        <4> HIDE DEF x, there, listed
        <4>2. InBase(r) =>
                  /\ IsThere(x) /\ (listed \/ r.kind = "add") /\ r.text = x.text
                     /\ r.docs = {x.text}
                  /\ r.kind \in {"upload", "refresh", "reindex"} => there = {}
                  /\ r.kind = "add" /\ ~doubled => there = {}
                  /\ r.kind = "edit" => there = r.old
          BY <1>1, <2>2, <3>1, <4>1 DEF BaseCalm, ProcessStages
        <4>3. InBase(r) => x.text # 0 /\ \A v \in base : v.hash = r.text => v.file = r.on
          BY <3>3, <3>4 DEF x
        <4>4. BaseCalm(x, base, there, listed, doubled, r)
          BY <2>2, <4>2, <4>3 DEF BaseCalm
        <4> QED BY <4>4 DEF x, there, listed
      <3> QED BY <1>1, <1>2, <2>2, <2>5, <3>1, <3>2, <3>5, StageCalm DEF BaseKinds, ProcessStages
    <2> HIDE DEF c, same
    <2>6. /\ UNCHANGED <<row, own, base, inserted, members, split, mixed, died, doubled>>
          /\ c.at # "idle" /\ r.kind = c.kind /\ r.old \subseteq c.old /\ ~Replaces(r)
      BY <1>1, <2>2, <2>4
    <2> QED BY <2>1, <2>3, <2>4, <2>5, <2>6, FilesMove DEF c
  <1> QED BY <1>1, <1>3, <1>4, <1>5

\* A batch that ends without having put anything into the base.
LEMMA FilesBatchEnds ==
    ASSUME FilesInv, NEW h \in Requests, asks[h].at = "embedBatch",
           asks' = [asks EXCEPT ![h] = Index!Idle],
           UNCHANGED <<row, own, base, inserted, members, split, mixed, died, doubled>>
    PROVE  FilesInv'
  <1> DEFINE c == asks[h]
  <1>1. c.kind = "batch" /\ Index!Idle.at = "idle" /\ Index!Idle.old = {}
    BY CallFacts DEF CourseOK, ProcessStages, Index!Idle
  <1>2. ~Replaces(Index!Idle) /\ \A f : ~Awaits(c, f)
    BY <1>1 DEF Replaces, Awaits
  <1>3. ASSUME Calm(row, own, base, members, doubled, c)
        PROVE  Calm(row, own, base, members, doubled, Index!Idle)
    <2>1. \A f : ~Settles(c, f) /\ ~Answers(c, f)
      BY <1>1 DEF Settles, Answers, OnFile
    <2>2. ~HasRow(c)
      BY <1>1 DEF HasRow
    <2>3. Quiet(row, own, base, members, doubled)
      BY <1>3, <2>1, <2>2 DEF Calm, Quiet, RowsCalm, FoundCalm, CurrentCalm
    <2> QED BY <2>3, QuietIsCalm
  <1> QED BY <1>1, <1>2, <1>3, IdleCallOK, FilesMove

\* An embedding that fails, and one of a batch.
LEMMA FilesEmbedFails ==
    ASSUME FilesInv, NEW h \in Requests, Index!EmbedFails(h)
    PROVE  FilesInv'
  <1>1. /\ UNCHANGED <<row, own, base, inserted, members, split, mixed, died, doubled>>
        /\ \/ asks[h].at = "embed" /\ Index!Goto(h, "failed")
           \/ asks[h].at = "embedBatch" /\ asks' = [asks EXCEPT ![h] = Index!Idle]
    BY DEF Index!EmbedFails, Index!Vectors, Index!Kept, Index!Progress, Index!At, Index!End,
           Index!Becomes
  <1>2. CASE asks[h].at = "embed" /\ Index!Goto(h, "failed")
    BY <1>1, <1>2, FilesGivesUp
  <1>3. CASE asks[h].at = "embedBatch" /\ asks' = [asks EXCEPT ![h] = Index!Idle]
    BY <1>1, <1>3, FilesBatchEnds
  <1> QED BY <1>1, <1>2, <1>3
LEMMA FilesEmbedsOwn ==
    ASSUME FilesInv, NEW h \in Requests, Index!Embed(h), asks[h].into = "own"
    PROVE  FilesInv'
  <1> DEFINE c == asks[h]
             f == c.on
             r == Moved(c, "complete")
  <1>1. /\ c.at = "embed" /\ Index!Goto(h, "complete")
        /\ own' = [own EXCEPT ![f] = @ \cup c.docs]
        /\ UNCHANGED <<row, base, inserted, members, split, mixed, died, doubled>>
    BY DEF Index!Embed, Index!Kept, Index!Progress, Index!At, Index!On, Index!Into
  <1>2. asks' = [asks EXCEPT ![h] = r]
    BY <1>1, MovesTo
  <1>3. /\ r.at = "complete" /\ r.kind = c.kind /\ r.on = c.on /\ r.text = c.text
        /\ r.into = c.into /\ r.docs = c.docs /\ r.todo = c.todo /\ r.old = c.old
        /\ r = CallOf(r.kind, r.at, r.on, r.text, r.flag, r.into, r.docs, r.todo, r.old)
    BY MovedHas
  <1> HIDE DEF r
  <1>4. /\ c.kind \in {"upload", "edit"} /\ c.text \in Versions /\ f \in Documents
        /\ c.docs \subseteq Versions
    BY <1>1, CallFacts DEF CourseOK, HeldOK, OnFile, ProcessStages
  <1>5. FileCallOK(r)
    <2>1. CourseOK(r)
      BY <1>3, <1>4 DEF CourseOK
    <2>2. HeldOK(r)
      BY <1>1, <1>3, <1>4, CallFacts DEF HeldOK, OnFile
    <2> QED BY <1>3, <2>1, <2>2 DEF FileCallOK
  <1>6. ~Replaces(r) /\ \A g : Awaits(c, g) => Awaits(r, g)
    BY <1>1, <1>3 DEF Replaces, Awaits
  <1>7. own' \in [Documents -> SUBSET Versions] /\ own'[f] = own[f] \cup c.docs
        /\ \A g \in Documents : g # f => own'[g] = own[g]
    BY <1>1, <1>4, FilesTyped
  <1>8. ASSUME Calm(row, own, base, members, doubled, c)
        PROVE  Calm(row, own', base, members, doubled, r)
    <2>1. HasRow(c) /\ HasRow(r) /\ ~InBase(r)
      BY <1>1, <1>3, <1>4 DEF HasRow, InBase
    <2>2. RowsCalm(row, own', r)
      BY <1>3, <1>7, <1>8, <2>1 DEF Calm, RowsCalm
    <2>3. FoundCalm(base, members, r) /\ CurrentCalm(row, base, members, doubled, r)
      BY <1>3, <1>4, <1>8 DEF Calm, FoundCalm, Settles, CurrentCalm, Answers
    <2>4. OwnCalm(row[r.on], own'[r.on], VectorsIn(base, r.on), r.on \in members, r)
      BY <1>1, <1>3, <1>4, <1>7, <1>8, <2>1 DEF Calm, OwnCalm
    <2>5. BaseCalm(row[r.on], base, VectorsIn(base, r.on), r.on \in members, doubled, r)
      BY <1>3, <1>4, <2>1 DEF BaseCalm
    <2>6. /\ GoingCalm(row[r.on], VectorsIn(base, r.on), r.on \in members, r)
          /\ RebuildCalm(base, members, r) /\ BatchCalm(row, base, members, r)
      BY <1>3, <1>4 DEF GoingCalm, RebuildCalm, BatchCalm
    <2> QED BY <1>8, <2>2, <2>3, <2>4, <2>5, <2>6 DEF Calm
  <1>9. /\ row' \in [Documents -> FileRows] /\ members' \subseteq Documents /\ doubled' \in BOOLEAN
        /\ row' = row /\ members' = members /\ doubled' = doubled
    BY <1>1, FilesTyped
  <1>10. ~split /\ Calm(row, own, base, members, doubled, c) =>
             Calm(row', own', base, members', doubled', r)
    BY <1>8, <1>9
  <1>11. /\ UNCHANGED <<base, inserted, split, mixed, died>> /\ c.at # "idle"
         /\ r.kind = c.kind /\ r.old \subseteq c.old
         /\ \A g \in Documents : row'[g].status = "pending" =>
               Awaits(r, g) \/ (row[g].status = "pending" /\ ~Awaits(c, g))
    BY <1>1, <1>3, <1>6
  <1> QED BY <1>2, <1>5, <1>6, <1>7, <1>9, <1>10, <1>11, FilesWrite

LEMMA FilesEmbedsBase ==
    ASSUME FilesInv, NEW h \in Requests, Index!Embed(h), asks[h].into # "own"
    PROVE  FilesInv'
  <1> DEFINE c == asks[h]
             f == c.on
             r == Moved(c, "complete")
             new == {[id |-> inserted + 1, file |-> f, text |-> x, hash |-> c.text] :
                        x \in c.docs \ {0}}
  <1>1. /\ c.at = "embed" /\ Index!Goto(h, "complete")
        /\ base' = base \cup new /\ inserted' = inserted + 1
        /\ UNCHANGED <<row, own, members, split, mixed, died, doubled>>
    BY DEF Index!Embed, Index!Kept, Index!Progress, Index!At, Index!On, Index!Into
  <1>2. asks' = [asks EXCEPT ![h] = r]
    BY <1>1, MovesTo
  <1>3. /\ r.at = "complete" /\ r.kind = c.kind /\ r.on = c.on /\ r.text = c.text
        /\ r.into = c.into /\ r.docs = c.docs /\ r.todo = c.todo /\ r.old = c.old
        /\ r = CallOf(r.kind, r.at, r.on, r.text, r.flag, r.into, r.docs, r.todo, r.old)
    BY MovedHas
  <1> HIDE DEF r
  <1>4. /\ c.kind \in BaseKinds /\ c.into = "base" /\ c.text \in 0 .. MaxVersions
        /\ c.docs \subseteq 0 .. MaxVersions /\ \E x \in c.docs : x # 0
    BY <1>1, CallFacts DEF CourseOK, HeldOK, BaseKinds, ProcessStages
  <1>5. f \in Documents
    BY <1>1, <1>4, CallFacts DEF HeldOK, OnFile, BaseKinds, ProcessStages
  <1>6. FileCallOK(r)
    <2>1. CourseOK(r)
      BY <1>3, <1>4 DEF CourseOK, BaseKinds, ProcessStages
    <2>2. HeldOK(r)
      BY <1>1, <1>3, <1>4, CallFacts DEF HeldOK, OnFile, BaseKinds, ProcessStages
    <2> QED BY <1>3, <2>1, <2>2 DEF FileCallOK
  <1>7. \A g : ~Awaits(c, g) /\ ~Awaits(r, g)
    BY <1>3, <1>4 DEF Awaits
  <1>8. \A v \in new : /\ v \in FileVectors /\ v.id = inserted + 1 /\ v.file = f
                       /\ v.hash = c.text /\ v.text \in c.docs \ {0}
    BY <1>4, <1>5, FilesTyped, HashKnown DEF FileVectors, Versions
  <1>9. PICK v0 \in new : TRUE
    BY <1>4
  <1> HIDE DEF new
  <1>10. FilesOK(row', own', base', members') /\ inserted' \in Nat /\ inserted <= inserted'
    BY <1>1, <1>8, FilesTyped DEF FilesOK
  <1>11. \A v \in base : v.id \in Nat /\ v.id <= inserted
    BY FilesTyped DEF FilesInv, Numbered, FileVectors
  <1>12. \A w \in c.old : w.id \in Nat /\ w.id <= inserted
    BY FilesTyped, CallFacts DEF FilesInv, Numbered, HeldOK, FileVectors
  <1>13. \A v \in base' : v.id <= inserted'
    BY <1>1, <1>8, <1>11, FilesTyped
  <1>14. \A w \in r.old : w.id <= inserted' /\ w.id < v0.id
    BY <1>1, <1>3, <1>8, <1>12, FilesTyped
  <1>15. NewerIn(r, base')
    BY <1>1, <1>3, <1>8, <1>14 DEF NewerIn
  <1>16. ASSUME Calm(row, own, base, members, doubled, c)
         PROVE  Calm(row, own, base', members, doubled, r)
    <2> DEFINE x == row[f]
               there == VectorsIn(base, f)
               listed == f \in members
    <2>1. ~HasRow(c) /\ ~HasRow(r) /\ InBase(c) /\ InBase(r)
      BY <1>1, <1>3, <1>4 DEF HasRow, InBase, ProcessStages
    <2>2. BaseCalm(x, base, there, listed, doubled, c) /\ ApartCalm(row, base, members, doubled)
      BY <1>16 DEF Calm
    <2>3. /\ IsThere(x) /\ (listed \/ c.kind = "add") /\ c.text = x.text /\ c.docs = {x.text}
          /\ x.text # 0 /\ \A v \in base : v.hash = c.text => v.file = f
          /\ c.kind \in {"upload", "refresh", "reindex"} => there = {}
          /\ c.kind = "add" /\ ~doubled => there = {}
          /\ c.kind = "edit" => there = c.old
      BY <1>1, <2>1, <2>2 DEF BaseCalm, ProcessStages
    <2>4. VectorsIn(base', f) = there \cup new
      BY <1>1, <1>8 DEF VectorsIn
    <2>5. \A g : g # f => VectorsIn(base', g) = VectorsIn(base, g)
      BY <1>1, <1>8 DEF VectorsIn
    <2>6. \A v \in new : v.text = x.text /\ v.hash = x.text
      BY <1>8, <2>3
    <2>7. ApartCalm(row, base', members, doubled)
      <3>1. ASSUME NEW v \in base', NEW w \in base', v.hash = w.hash, v.hash # Index!NoHash
            PROVE  v.file = w.file
        BY <1>1, <1>8, <2>2, <2>3, <3>1 DEF ApartCalm
      <3> QED BY <2>2, <3>1 DEF ApartCalm
    <2>8. RowsCalm(row, own, r)
      BY <1>16, <2>1 DEF Calm, RowsCalm
    <2>9. FoundCalm(base', members, r)
      <3>1. ASSUME NEW v \in base PROVE v.file \in members \/ Settles(r, v.file)
        BY <1>1, <1>3, <1>4, <1>16 DEF Calm, FoundCalm, Settles, BaseKinds
      <3>2. ASSUME NEW v \in new PROVE v.file \in members \/ Settles(r, v.file)
        BY <1>3, <1>8, <2>3 DEF Settles
      <3> QED BY <1>1, <3>1, <3>2 DEF FoundCalm
    <2>10. CurrentCalm(row, base', members, doubled, r)
      <3>1. \A g : Answers(c, g) <=> Answers(r, g)
        BY <1>1, <1>3 DEF Answers, ProcessStages
      <3>2. Answers(r, f)
        BY <1>3, <1>4 DEF Answers, OnFile, BaseKinds, ProcessStages
      <3> QED BY <1>16, <2>5, <3>1, <3>2 DEF Calm, CurrentCalm
    <2>11. OwnCalm(row[r.on], own[r.on], VectorsIn(base', r.on), r.on \in members, r)
      BY <1>3, <1>4, <2>1 DEF OwnCalm
    <2>12. ~doubled => CurrentIn(x, IF c.kind = "edit" THEN (there \cup new) \ c.old
          ELSE there \cup new)
      <3>1. \A v \in new : v \notin c.old
        BY <1>8, <1>12, FilesTyped
      <3> HIDE DEF x, there
      <3>2. c.kind = "edit" => (there \cup new) \ c.old = new
        BY <2>3, <3>1
      <3>3. c.kind # "edit" /\ ~doubled => there \cup new = new
        BY <1>4, <2>3 DEF BaseKinds
      <3>4. CurrentIn(x, new)
        BY <1>9, <2>6 DEF CurrentIn
      <3> QED BY <3>2, <3>3, <3>4
    <2>13. BaseCalm(row[r.on], base', VectorsIn(base', r.on), r.on \in members, doubled, r)
      <3> HIDE DEF x, there, listed
      <3>1. BaseCalm(x, base', there \cup new, listed, doubled, r)
        BY <1>3, <2>3, <2>12 DEF BaseCalm
      <3> QED BY <1>3, <2>4, <3>1 DEF x, listed
    <2>14. GoingCalm(row[r.on], VectorsIn(base', r.on), r.on \in members, r)
      BY <1>3, <1>4 DEF GoingCalm, BaseKinds
    <2>15. RebuildCalm(base', members, r) /\ BatchCalm(row, base', members, r)
      <3>1. RebuildCalm(base, members, c)
        BY <1>16 DEF Calm
      <3> QED BY <1>1, <1>3, <1>4, <1>8, <3>1 DEF RebuildCalm, BatchCalm, BaseKinds, ProcessStages
    <2> QED BY <2>7, <2>8, <2>9, <2>10, <2>11, <2>13, <2>14, <2>15 DEF Calm
  <1>17. ~split /\ Calm(row, own, base, members, doubled, c) =>
             Calm(row', own', base', members', doubled', r)
    <2>1. row' = row /\ own' = own /\ members' = members /\ doubled' = doubled
      BY <1>1
    <2> QED BY <1>16, <2>1
  <1>18. /\ UNCHANGED <<split, mixed, died>> /\ c.at # "idle" /\ r.kind = c.kind
         /\ base \subseteq base' /\ doubled' \in BOOLEAN
         /\ \A g \in Documents : row'[g].status = "pending" =>
               Awaits(r, g) \/ (row[g].status = "pending" /\ ~Awaits(c, g))
    BY <1>1, <1>3, <1>7, FilesTyped
  <1> QED BY <1>2, <1>6, <1>10, <1>13, <1>14, <1>15, <1>17, <1>18, FilesGo
LEMMA PassingHas ==
    ASSUME NEW c, FileCallOK(c), c.at = "complete"
    PROVE  /\ FileCallOK(Passing(c)) /\ (Passing(c).at = "idle" \/ Passing(c).kind = c.kind)
           /\ Passing(c).old \subseteq c.old /\ \A f : ~Awaits(Passing(c), f)
           /\ Replaces(Passing(c)) => Replaces(c) /\ Passing(c).old = c.old /\ Passing(c).on = c.on
  <1>1. CourseOK(c) /\ HeldOK(c) /\ Index!Idle.at = "idle" /\ Index!Idle.old = {}
    BY DEF FileCallOK, Index!Idle
  <1>2. ASSUME NEW at, Passing(c) = Moved(c, at), CourseOK(Moved(c, at)), at # "complete",
               at \in {"link", "old", "dropOld", "next"}
        PROVE  /\ FileCallOK(Passing(c)) /\ (Passing(c).at = "idle" \/ Passing(c).kind = c.kind)
               /\ Passing(c).old \subseteq c.old /\ \A f : ~Awaits(Passing(c), f)
               /\ Replaces(Passing(c)) =>
                    Replaces(c) /\ Passing(c).old = c.old /\ Passing(c).on = c.on
    <2> DEFINE r == Moved(c, at)
    <2>1. /\ r.at = at /\ r.kind = c.kind /\ r.on = c.on /\ r.text = c.text
          /\ r.into = c.into /\ r.docs = c.docs /\ r.todo = c.todo /\ r.old = c.old
          /\ r = CallOf(r.kind, r.at, r.on, r.text, r.flag, r.into, r.docs, r.todo, r.old)
      BY MovedHas
    <2>2. CourseOK(r)
      BY <1>2
    <2> HIDE DEF r
    <2>3. HeldOK(r)
      BY <1>1, <1>2, <2>1 DEF HeldOK, ProcessStages
    <2>4. FileCallOK(r) /\ (Replaces(r) => Replaces(c)) /\ \A f : ~Awaits(r, f)
      BY <1>2, <2>1, <2>2, <2>3 DEF FileCallOK, Replaces, Awaits
    <2>5. Passing(c) = r
      BY <1>2 DEF r
    <2> QED BY <2>1, <2>4, <2>5
  <1>3. CASE c.kind = "upload" /\ c.into = "own" /\ c.flag
    <2>1. Passing(c) = Moved(c, "link")
      BY <1>3 DEF Passing
    <2>2. CourseOK(Moved(c, "link"))
      BY <1>3, MovedHas DEF CourseOK
    <2> QED BY <1>2, <2>1, <2>2
  <1>4. CASE c.kind = "add"
    <2>1. Passing(c) = Moved(c, "link")
      BY <1>4 DEF Passing
    <2>2. CourseOK(Moved(c, "link"))
      BY <1>1, <1>4, MovedHas DEF CourseOK
    <2> QED BY <1>2, <2>1, <2>2
  <1>5. CASE c.kind = "edit" /\ c.into = "own"
    <2>1. Passing(c) = Moved(c, "old")
      BY <1>5 DEF Passing
    <2>2. CourseOK(Moved(c, "old"))
      BY <1>5, MovedHas DEF CourseOK
    <2> QED BY <1>2, <2>1, <2>2
  <1>6. CASE c.kind = "edit" /\ c.into # "own"
    <2>1. c.into = "base"
      BY <1>1, <1>6 DEF CourseOK
    <2>2. Passing(c) = Moved(c, "dropOld")
      BY <1>6, <2>1 DEF Passing
    <2>3. CourseOK(Moved(c, "dropOld"))
      BY <1>6, <2>1, MovedHas DEF CourseOK
    <2> QED BY <1>2, <2>2, <2>3
  <1>7. CASE c.kind = "reindex"
    <2>1. Passing(c) = Moved(c, "next")
      BY <1>7 DEF Passing
    <2>2. CourseOK(Moved(c, "next"))
      BY <1>1, <1>7, MovedHas DEF CourseOK
    <2> QED BY <1>2, <2>1, <2>2
  <1>8. CASE c.kind \notin {"add", "edit", "reindex"}
        /\ ~(c.kind = "upload" /\ c.into = "own" /\ c.flag)
    <2>1. Passing(c) = Index!Idle
      BY <1>8 DEF Passing
    <2> QED BY <1>1, <2>1, IdleCallOK DEF Awaits, Replaces
  <1> QED BY <1>3, <1>4, <1>5, <1>6, <1>7, <1>8

\* The rows with the outcome of one of them.
Settled(rows_, f, status, hash) ==
    IF IsThere(rows_[f]) THEN [rows_ EXCEPT ![f].status = status, ![f].hash = hash] ELSE rows_

LEMMA RowSettles ==
    ASSUME NEW f \in Documents, row \in [Documents -> FileRows], NEW status, NEW hash,
           status \in {"completed", "failed"}, hash \in 0 .. Index!NoHash,
           row' = Settled(row, f, status, hash)
    PROVE  /\ row' \in [Documents -> FileRows]
           /\ \A g \in Documents : g # f => row'[g] = row[g]
           /\ IsThere(row[f]) =>
                row'[f].status = status /\ row'[f].hash = hash /\ row'[f].text = row[f].text
           /\ ~IsThere(row[f]) => row' = row
           /\ row'[f].status # "pending"
  <1> DEFINE x == [row[f] EXCEPT !.status = status, !.hash = hash]
  <1>1. row[f] \in FileRows
    OBVIOUS
  <1>2. x \in FileRows /\ x.status = status /\ x.hash = hash /\ x.text = row[f].text
    BY <1>1 DEF FileRows
  <1>3. row' = IF IsThere(row[f]) THEN [row EXCEPT ![f] = x] ELSE row
    BY DEF Settled
  <1> HIDE DEF x
  <1>4. ~IsThere(row[f]) => row[f].status # "pending"
    BY DEF IsThere
  <1> QED BY <1>2, <1>3, <1>4

\* A request whose processing is over goes on, or is over itself.
LEMMA SettledCalm ==
    ASSUME NEW c, FileCallOK(c), NEW r, NEW rows_, NEW own_, NEW base_, NEW members_, NEW twice,
           ApartCalm(rows_, base_, members_, twice),
           \A g \in Documents : RowCalm(rows_[g], own_[g]),
           FoundCalm(base_, members_, r), CurrentCalm(rows_, base_, members_, twice, r),
           r.at = "idle" => r = Index!Idle,
           r.at = "link" /\ r.kind = "upload" =>
               IsThere(rows_[r.on]) /\ VectorsIn(base_, r.on) = {} /\ r.on \notin members_,
           r.at = "link" /\ r.kind = "add" =>
               /\ IsThere(rows_[r.on])
               /\ ~twice => CurrentIn(rows_[r.on], VectorsIn(base_, r.on)),
           r.at = "old" => IsThere(rows_[r.on]),
           r.at = "dropOld" =>
               /\ IsThere(rows_[r.on]) /\ r.on \in members_ /\ r.into = "base"
               /\ ~twice => CurrentIn(rows_[r.on], VectorsIn(base_, r.on) \ r.old),
           r.at = "next" => RebuildCalm(base_, members_, r) /\ r.kind = "reindex",
           r.at \in {"link", "old", "dropOld", "next", "idle"},
           r.at = "link" => r.kind \in {"upload", "add"},
           r.at \in {"old", "dropOld"} => r.kind = "edit"
    PROVE  Calm(rows_, own_, base_, members_, twice, r)
  <1>1. ~HasRow(r) /\ ~InBase(r)
    BY DEF HasRow, InBase, ProcessStages
  <1>2. RowsCalm(rows_, own_, r)
    BY DEF RowsCalm
  <1>3. CASE r.at = "idle"
    <2>1. \A g : ~Settles(r, g) /\ ~Answers(r, g)
      BY <1>3 DEF Index!Idle, Settles, Answers, OnFile
    <2>2. Quiet(rows_, own_, base_, members_, twice)
      BY <2>1 DEF Quiet, FoundCalm, CurrentCalm
    <2> QED BY <1>3, <2>2, QuietIsCalm
  <1>4. CASE r.at # "idle"
    <2>1. r.kind \in {"upload", "add", "edit", "reindex"}
      BY <1>4
    <2>2. OwnCalm(rows_[r.on], own_[r.on], VectorsIn(base_, r.on), r.on \in members_, r)
      BY <1>1, <1>4 DEF OwnCalm
    <2>3. BaseCalm(rows_[r.on], base_, VectorsIn(base_, r.on), r.on \in members_, twice, r)
      BY <1>1, <2>1 DEF BaseCalm
    <2>4. GoingCalm(rows_[r.on], VectorsIn(base_, r.on), r.on \in members_, r)
      BY <2>1 DEF GoingCalm
    <2>5. RebuildCalm(base_, members_, r) /\ BatchCalm(rows_, base_, members_, r)
      BY <1>4, <2>1 DEF RebuildCalm, BatchCalm
    <2> QED BY <1>2, <2>2, <2>3, <2>4, <2>5 DEF Calm
  <1> QED BY <1>3, <1>4
LEMMA FilesFails ==
    ASSUME FilesInv, NEW h \in Requests, Index!Failed(h)
    PROVE  FilesInv'
  <1> DEFINE c == asks[h]
             f == c.on
             r == Failing(c)
  <1>1. /\ c.at = "failed" /\ Index!After(h, FALSE)
        /\ row' = Settled(row, f, "failed", Index!NoHash)
        /\ UNCHANGED <<own, base, inserted, members, split, mixed, died, doubled>>
    BY DEF Index!Failed, Index!Vectors, Index!Kept, Index!Progress, Index!At, Index!On,
           Index!There, IsThere, Settled
  <1>2. asks' = [asks EXCEPT ![h] = r]
    BY <1>1, FailingIs
  <1>3. /\ FileCallOK(r) /\ (r.at = "idle" \/ r.kind = c.kind) /\ r.old \subseteq c.old
        /\ ~Replaces(r) /\ r.at \in {"old", "next", "idle"}
    BY <1>1, CallFacts, FailingHas
  <1>4. c.kind \in BaseKinds /\ CourseOK(c)
    BY <1>1, CallFacts DEF CourseOK, BaseKinds
  <1>5. f \in Documents
    BY <1>1, <1>4, CallFacts DEF HeldOK, OnFile, BaseKinds, ProcessStages
  <1>6. /\ row' \in [Documents -> FileRows]
        /\ \A g \in Documents : g # f => row'[g] = row[g]
        /\ IsThere(row[f]) => row'[f].status = "failed" /\ row'[f].hash = Index!NoHash
                              /\ row'[f].text = row[f].text
        /\ row'[f].status # "pending"
    BY <1>1, <1>5, RowSettles, FilesTyped, HashKnown
  <1>7. ASSUME Calm(row, own, base, members, doubled, c)
        PROVE  Calm(row', own, base, members, doubled, r)
    <2>1. IsThere(row[f]) /\ (HasRow(c) => own[f] = {})
      <3>1. HasRow(c) \/ InBase(c)
        BY <1>1, <1>4 DEF CourseOK, HasRow, InBase, BaseKinds, ProcessStages
      <3> QED BY <1>1, <1>7, <3>1 DEF Calm, OwnCalm, BaseCalm, HasRow
    <2>2. row'[f].status = "failed" /\ row'[f].hash = Index!NoHash /\ row'[f].text = row[f].text
      BY <1>6, <2>1
    <2>3. \A g \in Documents : /\ row'[g].text = row[g].text
          /\ (IsThere(row'[g]) <=> IsThere(row[g]))
      BY <1>6, <2>1, <2>2 DEF IsThere
    <2>4. ApartCalm(row', base, members, doubled)
      BY <1>7, <2>3, FilesTyped DEF Calm, ApartCalm
    <2>5. \A g \in Documents : RowCalm(row'[g], own[g])
      <3>1. own[f] \subseteq {row[f].text}
        BY <1>5, <1>7, <2>1 DEF Calm, RowsCalm, RowCalm
      <3>2. RowCalm(row'[f], own[f])
        BY <2>2, <3>1 DEF RowCalm
      <3>3. ASSUME NEW g \in Documents, g # f PROVE RowCalm(row'[g], own[g])
        BY <1>6, <1>7, <3>3 DEF Calm, RowsCalm
      <3> QED BY <3>2, <3>3
    <2>6. FoundCalm(base, members, r)
      BY <1>1, <1>4, <1>7 DEF Calm, FoundCalm, Settles, BaseKinds
    <2>7. \A g : g # f /\ Answers(c, g) => c.kind = "reindex" /\ g \in c.todo
      BY <1>4 DEF Answers, OnFile, BaseKinds
    <2>8. ASSUME r.at = "next" PROVE r.kind = "reindex" /\ r.todo = c.todo /\ r.on = c.on
      <3>1. c.kind = "reindex"
        BY <1>4, <2>8, MovedHas DEF Failing, Index!Idle
      <3> QED BY <3>1, MovedHas DEF Failing
    <2>9. ASSUME r.at = "old" PROVE r.kind = "edit" /\ r.on = c.on
      <3>1. c.kind = "edit" /\ c.into = "own"
        BY <1>4, <2>9, MovedHas DEF Failing, Index!Idle
      <3> QED BY <3>1, MovedHas DEF Failing
    <2>10. c.kind = "reindex" => r.at = "next"
      BY MovedHas DEF Failing
    <2> HIDE DEF r
    <2>11. CurrentCalm(row', base, members, doubled, r)
      <3>1. ASSUME ~doubled, NEW g \in members, row'[g].status = "completed"
            PROVE  Answers(r, g) \/ CurrentIn(row'[g], VectorsIn(base, g))
        <4>1. g # f /\ row'[g] = row[g]
          BY <1>6, <2>2, <3>1, FilesTyped
        <4>2. Answers(c, g) \/ CurrentIn(row[g], VectorsIn(base, g))
          BY <1>7, <3>1, <4>1 DEF Calm, CurrentCalm
        <4> QED BY <2>7, <2>8, <2>10, <4>1, <4>2 DEF Answers
      <3> QED BY <3>1 DEF CurrentCalm
    <2>12. r.at = "next" => RebuildCalm(base, members, r)
      <3>1. RebuildCalm(base, members, c)
        BY <1>7 DEF Calm
      <3> QED BY <1>1, <1>3, <2>8, <3>1 DEF RebuildCalm, ProcessStages
    <2>13. r.at = "idle" => r = Index!Idle
      BY <1>3 DEF FileCallOK, CourseOK
    <2>14. r.at = "old" => IsThere(row'[r.on])
      BY <2>1, <2>2, <2>9 DEF IsThere
    <2>15. FileCallOK(c) /\ r.at \in {"link", "old", "dropOld", "next", "idle"}
           /\ r.at # "link" /\ r.at # "dropOld"
      BY <1>3, CallFacts
    <2> HIDE DEF c, f
    <2> QED BY <2>4, <2>5, <2>6, <2>8, <2>9, <2>11, <2>12, <2>13, <2>14, <2>15, SettledCalm
  <1>8. /\ own' \in [Documents -> SUBSET Versions] /\ members' \subseteq Documents
        /\ doubled' \in BOOLEAN /\ own' = own /\ members' = members /\ doubled' = doubled
    BY <1>1, FilesTyped
  <1>9. ~split /\ Calm(row, own, base, members, doubled, c) =>
            Calm(row', own', base, members', doubled', r)
    BY <1>7, <1>8
  <1>10. \A g \in Documents : row'[g].status = "pending" =>
             Awaits(r, g) \/ (row[g].status = "pending" /\ ~Awaits(c, g))
    <2>1. \A g : Awaits(c, g) => g = f
      BY DEF Awaits
    <2> QED BY <1>6, <2>1
  <1>11. UNCHANGED <<base, inserted, split, mixed, died>> /\ c.at # "idle"
    BY <1>1
  <1> QED BY <1>2, <1>3, <1>6, <1>8, <1>9, <1>10, <1>11, FilesWrite

LEMMA FilesCompletes ==
    ASSUME FilesInv, NEW h \in Requests, Index!Complete(h)
    PROVE  FilesInv'
  <1> DEFINE c == asks[h]
             f == c.on
             r == Passing(c)
  <1>1. /\ c.at = "complete" /\ Index!After(h, TRUE)
        /\ row' = Settled(row, f, "completed", c.text)
        /\ UNCHANGED <<own, base, inserted, members, split, mixed, died, doubled>>
    BY DEF Index!Complete, Index!Vectors, Index!Kept, Index!Progress, Index!At, Index!On,
           Index!There, IsThere, Settled
  <1>2. asks' = [asks EXCEPT ![h] = r]
    BY <1>1, PassingIs
  <1>3. /\ FileCallOK(r) /\ (r.at = "idle" \/ r.kind = c.kind) /\ r.old \subseteq c.old
        /\ \A g : ~Awaits(r, g)
        /\ Replaces(r) => Replaces(c) /\ r.old = c.old /\ r.on = c.on
    BY <1>1, CallFacts, PassingHas
  <1>4. c.kind \in BaseKinds /\ CourseOK(c) /\ c.text \in 0 .. MaxVersions
    BY <1>1, CallFacts DEF CourseOK, HeldOK, BaseKinds
  <1>5. f \in Documents
    BY <1>1, <1>4, CallFacts DEF HeldOK, OnFile, BaseKinds, ProcessStages
  <1>6. /\ row' \in [Documents -> FileRows]
        /\ \A g \in Documents : g # f => row'[g] = row[g]
        /\ IsThere(row[f]) => row'[f].status = "completed" /\ row'[f].hash = c.text
                              /\ row'[f].text = row[f].text
        /\ row'[f].status # "pending"
    <2>1. c.text \in 0 .. Index!NoHash
      BY <1>4, HashKnown
    <2> QED BY <1>1, <1>5, <2>1, RowSettles, FilesTyped
  <1>7. ASSUME Calm(row, own, base, members, doubled, c)
        PROVE  Calm(row', own, base, members, doubled, r)
    <2> DEFINE x == row[f]
               there == VectorsIn(base, f)
               listed == f \in members
    <2>1. OwnCalm(x, own[f], there, listed, c) /\ BaseCalm(x, base, there, listed, doubled, c)
      BY <1>7 DEF Calm
    <2>2. HasRow(c) \/ InBase(c)
      BY <1>1, <1>4 DEF CourseOK, HasRow, InBase, BaseKinds, ProcessStages
    <2>3. HasRow(c) => /\ IsThere(x) /\ own[f] = {x.text} /\ x.text = c.text /\ x.text # 0
                       /\ c.kind = "upload" => there = {} /\ ~listed
      <3> HIDE DEF x, there, listed
      <3>1. HasRow(c) => c.text # 0
        BY CallFacts DEF HasRow, HeldOK, Versions
      <3> QED BY <1>1, <2>1, <3>1 DEF OwnCalm, HasRow
    <2>4. InBase(c) => /\ IsThere(x) /\ (listed \/ c.kind = "add") /\ x.text = c.text /\ x.text # 0
                       /\ ~doubled => CurrentIn(x, IF c.kind = "edit" THEN there \ c.old
                             ELSE there)
      <3> HIDE DEF x, there, listed
      <3> QED BY <1>1, <2>1 DEF BaseCalm
    <2>5. IsThere(x) /\ row'[f].status = "completed" /\ row'[f].hash = x.text
          /\ row'[f].text = x.text /\ x.text # 0 /\ IsThere(row'[f])
      BY <1>6, <2>2, <2>3, <2>4 DEF IsThere
    <2>6. \A vectors_ : CurrentIn(x, vectors_) => CurrentIn(row'[f], vectors_)
      BY <2>5 DEF CurrentIn
    <2>7. \A g \in Documents : /\ row'[g].text = row[g].text
          /\ (IsThere(row'[g]) <=> IsThere(row[g]))
      BY <1>6, <2>5 DEF IsThere
    <2>8. ApartCalm(row', base, members, doubled)
      BY <1>7, <2>7, FilesTyped DEF Calm, ApartCalm
    <2>9. \A g \in Documents : RowCalm(row'[g], own[g])
      <3>1. own[f] \subseteq {x.text}
        BY <1>5, <1>7, <2>3, <2>5 DEF Calm, RowsCalm, RowCalm
      <3>2. RowCalm(row'[f], own[f])
        <4> HIDE DEF x
        <4> QED BY <2>5, <3>1 DEF RowCalm
      <3>3. ASSUME NEW g \in Documents, g # f PROVE RowCalm(row'[g], own[g])
        BY <1>6, <1>7, <3>3 DEF Calm, RowsCalm
      <3> QED BY <3>2, <3>3
    <2>10. \A g : g # f /\ Answers(c, g) => c.kind = "reindex" /\ g \in c.todo
      BY <1>4 DEF Answers, OnFile, BaseKinds
    \* Where the request goes.
    <2>11. ASSUME r.at = "link"
           PROVE  /\ r.kind = c.kind /\ r.on = f
                  /\ c.kind = "add" \/ (c.kind = "upload" /\ c.into = "own")
      <3>1. c.kind = "add" \/ (c.kind = "upload" /\ c.into = "own" /\ c.flag)
        BY <2>11, MovedHas DEF Passing, Index!Idle
      <3> QED BY <3>1, MovedHas DEF Passing
    <2>12. ASSUME r.at = "old" PROVE c.kind = "edit" /\ r.kind = "edit" /\ r.on = f
      <3>1. c.kind = "edit" /\ c.into = "own"
        BY <2>12, MovedHas DEF Passing, Index!Idle
      <3> QED BY <3>1, MovedHas DEF Passing
    <2>13. ASSUME r.at = "dropOld"
           PROVE  /\ c.kind = "edit" /\ c.into = "base" /\ r.kind = "edit" /\ r.on = f
                  /\ r.into = "base" /\ r.old = c.old
      <3>1. c.kind = "edit" /\ c.into = "base"
        BY <2>13, MovedHas DEF Passing, Index!Idle
      <3> QED BY <3>1, MovedHas DEF Passing
    <2>14. ASSUME r.at = "next"
           PROVE  c.kind = "reindex" /\ r.kind = "reindex" /\ r.todo = c.todo /\ r.on = f
      <3>1. c.kind = "reindex"
        BY <2>14, MovedHas DEF Passing, Index!Idle
      <3> QED BY <3>1, MovedHas DEF Passing
    <2>15. /\ r.at \in {"link", "old", "dropOld", "next", "idle"}
           /\ r.at = "idle" => /\ r = Index!Idle
                               /\ c.kind \in {"upload", "refresh"}
      <3>1. \/ c.kind \in {"upload", "refresh"} /\ Passing(c) = Index!Idle
            \/ \E at \in {"link", "old", "dropOld", "next"} : Passing(c) = Moved(c, at)
        <4>1. /\ c.kind \in {"upload", "add", "edit", "refresh", "reindex"}
              /\ c.kind = "edit" => c.into \in {"own", "base"}
          BY <1>4 DEF CourseOK, BaseKinds
        <4>2. CASE c.kind \in {"add", "edit", "reindex"}
          BY <4>1, <4>2 DEF Passing
        <4>3. CASE c.kind = "refresh"
          BY <4>3 DEF Passing
        <4>4. CASE c.kind = "upload" /\ c.into = "own" /\ c.flag
          BY <4>4 DEF Passing
        <4>5. CASE c.kind = "upload" /\ ~(c.into = "own" /\ c.flag)
          BY <4>5 DEF Passing
        <4> QED BY <4>1, <4>2, <4>3, <4>4, <4>5
      <3> QED BY <3>1, MovedHas DEF Index!Idle
    <2>16. c.kind = "reindex" => r.at = "next"
      BY MovedHas DEF Passing
    <2>17. c.kind = "add" => r.at = "link"
      BY MovedHas DEF Passing
    <2> HIDE DEF r
    <2>18. FoundCalm(base, members, r)
      <3>1. ASSUME NEW v \in base, v.file \notin members PROVE Settles(r, v.file)
        <4>1. Settles(c, v.file)
          BY <1>7, <3>1 DEF Calm, FoundCalm
        <4>2. c.kind = "add" /\ v.file = f
          BY <1>4, <4>1 DEF Settles, BaseKinds
        <4> QED BY <2>11, <2>17, <4>2 DEF Settles
      <3> QED BY <3>1 DEF FoundCalm
    <2>19. CurrentCalm(row', base, members, doubled, r)
      <3>1. ASSUME ~doubled, NEW g \in members, row'[g].status = "completed", g # f
            PROVE  Answers(r, g) \/ CurrentIn(row'[g], VectorsIn(base, g))
        <4>1. row'[g] = row[g]
          BY <1>6, <3>1, FilesTyped
        <4>2. Answers(c, g) \/ CurrentIn(row[g], VectorsIn(base, g))
          BY <1>7, <3>1, <4>1 DEF Calm, CurrentCalm
        <4> QED BY <2>10, <2>14, <2>16, <3>1, <4>1, <4>2 DEF Answers
      <3>2. ASSUME ~doubled, f \in members
            PROVE  Answers(r, f) \/ CurrentIn(row'[f], VectorsIn(base, f))
        <4>1. r.at \in {"link", "old", "dropOld"} => Answers(r, f)
          BY <2>11, <2>12, <2>13 DEF Answers, OnFile
        <4>2. r.at \in {"next", "idle"} => CurrentIn(x, there)
          BY <2>2, <2>3, <2>4, <2>14, <2>15, <3>2 DEF HasRow
        <4> QED BY <2>6, <2>15, <4>1, <4>2
      <3> QED BY <3>1, <3>2 DEF CurrentCalm
    <2>20. r.at = "next" => RebuildCalm(base, members, r)
      <3>1. RebuildCalm(base, members, c)
        BY <1>7 DEF Calm
      <3> QED BY <1>1, <2>14, <3>1 DEF RebuildCalm, ProcessStages
    <2>21. r.at = "link" /\ r.kind = "upload" =>
               IsThere(row'[r.on]) /\ VectorsIn(base, r.on) = {} /\ r.on \notin members
      <3>1. r.at = "link" /\ r.kind = "upload" => HasRow(c)
        BY <1>1, <2>11 DEF HasRow
      <3> QED BY <2>3, <2>5, <2>11, <3>1
    <2>22. r.at = "link" /\ r.kind = "add" =>
               /\ IsThere(row'[r.on])
               /\ ~doubled => CurrentIn(row'[r.on], VectorsIn(base, r.on))
      <3>1. r.at = "link" /\ r.kind = "add" => InBase(c)
        BY <2>2, <2>11 DEF HasRow
      <3> QED BY <2>4, <2>5, <2>6, <2>11, <3>1
    <2>23. r.at = "old" => IsThere(row'[r.on])
      BY <2>5, <2>12
    <2>24. r.at = "dropOld" =>
               /\ IsThere(row'[r.on]) /\ r.on \in members /\ r.into = "base"
               /\ ~doubled => CurrentIn(row'[r.on], VectorsIn(base, r.on) \ r.old)
      <3>1. r.at = "dropOld" => InBase(c)
        BY <2>2, <2>13 DEF HasRow
      <3> QED BY <2>4, <2>5, <2>6, <2>13, <3>1
    <2> HIDE DEF x, there, listed, c, f
    <2>25. FileCallOK(c)
      BY CallFacts DEF c
    <2>26. /\ r.at = "link" => r.kind \in {"upload", "add"}
           /\ r.at \in {"old", "dropOld"} => r.kind = "edit"
           /\ r.at = "next" => r.kind = "reindex" /\ RebuildCalm(base, members, r)
           /\ r.at = "idle" => r = Index!Idle
           /\ r.at \in {"link", "old", "dropOld", "next", "idle"}
      BY <2>11, <2>12, <2>13, <2>14, <2>15, <2>20
    <2> QED BY <2>8, <2>9, <2>18, <2>19, <2>21, <2>22, <2>23, <2>24, <2>25, <2>26, SettledCalm
  <1>8. /\ own' \in [Documents -> SUBSET Versions] /\ members' \subseteq Documents
        /\ doubled' \in BOOLEAN /\ own' = own /\ members' = members /\ doubled' = doubled
    BY <1>1, FilesTyped
  <1>9. ~split /\ Calm(row, own, base, members, doubled, c) =>
            Calm(row', own', base, members', doubled', r)
    BY <1>7, <1>8
  <1>10. \A g \in Documents : row'[g].status = "pending" =>
             Awaits(r, g) \/ (row[g].status = "pending" /\ ~Awaits(c, g))
    <2>1. \A g : Awaits(c, g) => g = f
      BY DEF Awaits
    <2> QED BY <1>6, <2>1
  <1>11. UNCHANGED <<base, inserted, split, mixed, died>> /\ c.at # "idle"
    BY <1>1
  <1> QED BY <1>2, <1>3, <1>6, <1>8, <1>9, <1>10, <1>11, FilesWrite
LEMMA FilesLinks ==
    ASSUME FilesInv, NEW h \in Requests, Index!Link(h)
    PROVE  FilesInv'
  <1> DEFINE c == asks[h]
             f == c.on
             r == CallOf(c.kind, "load", c.on, c.text, c.flag, "base", c.docs, c.todo, c.old)
  <1>1. /\ c.at = "link"
        /\ members' = members \cup {f} \/ (~IsThere(row[f]) /\ members' = members)
        /\ IF c.kind = "upload"
           THEN asks' = [asks EXCEPT ![h] = [c EXCEPT !.at = "load", !.into = "base"]]
           ELSE asks' = [asks EXCEPT ![h] = Index!Idle]
        /\ UNCHANGED <<row, own, base, inserted, split, mixed, died, doubled>>
    BY DEF Index!Link, Index!Enlisted, Index!There, IsThere, Index!Vectors, Index!Kept,
           Index!Progress, Index!At, Index!On, Index!End, Index!Becomes
  <1>2. /\ r.at = "load" /\ r.kind = c.kind /\ r.on = c.on /\ r.text = c.text
        /\ r.into = "base" /\ r.docs = c.docs /\ r.todo = c.todo /\ r.old = c.old
        /\ r = CallOf(r.kind, r.at, r.on, r.text, r.flag, r.into, r.docs, r.todo, r.old)
    BY CallHas
  <1>3. c.kind = "upload" => asks' = [asks EXCEPT ![h] = r]
    <2>1. [c EXCEPT !.at = "load", !.into = "base"] = SetInto(SetAt(c, "load"), "base")
      BY Zenon DEF SetAt, SetInto
    <2>2. SetInto(SetAt(c, "load"), "base") = r
      BY CallFacts, CallSets
    <2> QED BY <1>1, <2>1, <2>2
  <1> HIDE DEF r
  <1>4. /\ f \in Documents
        /\ (c.kind = "upload" /\ c.into = "own") \/ (c.kind = "add" /\ c.into = "base")
    BY <1>1, CallFacts DEF CourseOK, HeldOK, OnFile, ProcessStages
  <1>5. members' \subseteq Documents
    BY <1>1, <1>4, FilesTyped
  <1>6. /\ row' \in [Documents -> FileRows] /\ own' \in [Documents -> SUBSET Versions]
        /\ doubled' \in BOOLEAN /\ row' = row /\ own' = own /\ doubled' = doubled
        /\ UNCHANGED <<base, inserted, split, mixed, died>> /\ c.at # "idle"
        /\ \A g : ~Awaits(c, g)
    BY <1>1, FilesTyped DEF Awaits
  <1>7. ASSUME Calm(row, own, base, members, doubled, c)
        PROVE  /\ IsThere(row[f]) /\ members' = members \cup {f}
               /\ ApartCalm(row, base, members', doubled)
               /\ \A g \in Documents : RowCalm(row[g], own[g])
               /\ \A v \in base : v.file \in members'
    <2>1. IsThere(row[f])
      BY <1>1, <1>4, <1>7 DEF Calm, OwnCalm, BaseCalm
    <2>2. members' = members \cup {f}
      BY <1>1, <2>1
    <2>3. ApartCalm(row, base, members', doubled)
      BY <1>7, <2>1, <2>2 DEF Calm, ApartCalm
    <2>4. ~HasRow(c)
      BY <1>1 DEF HasRow
    <2>5. \A v \in base : v.file \in members'
      BY <1>4, <1>7, <2>2 DEF Calm, FoundCalm, Settles
    <2> QED BY <1>7, <2>1, <2>2, <2>3, <2>4, <2>5 DEF Calm, RowsCalm
  <1>8. CASE c.kind = "upload"
    <2>1. FileCallOK(r)
      <3>1. CourseOK(r)
        BY <1>2, <1>8 DEF CourseOK, ProcessStages
      <3>2. HeldOK(r)
        BY <1>1, <1>2, <1>4, <1>8, CallFacts DEF HeldOK, OnFile
      <3> QED BY <1>2, <3>1, <3>2 DEF FileCallOK
    <2>2. ~Replaces(r)
      BY <1>2, <1>8 DEF Replaces
    <2>3. ASSUME Calm(row, own, base, members, doubled, c)
          PROVE  Calm(row, own, base, members', doubled, r)
      <3>1. ~HasRow(r) /\ InBase(r) /\ VectorsIn(base, f) = {}
        BY <1>2, <1>4, <1>8, <2>3 DEF HasRow, InBase, BaseKinds, ProcessStages, Calm, OwnCalm
      <3>2. RowsCalm(row, own, r) /\ FoundCalm(base, members', r)
        BY <1>7, <2>3 DEF RowsCalm, FoundCalm
      <3>3. CurrentCalm(row, base, members', doubled, r)
        <4>1. \A g : Answers(c, g) <=> g = f
          BY <1>8 DEF Answers, OnFile
        <4>2. \A g : Answers(r, g) <=> g = f
          BY <1>2, <1>8 DEF Answers, OnFile
        <4> QED BY <1>7, <2>3, <4>1, <4>2 DEF Calm, CurrentCalm
      <3>4. OwnCalm(row[r.on], own[r.on], VectorsIn(base, r.on), r.on \in members', r)
        BY <1>2, <3>1 DEF OwnCalm
      <3>5. r.on \in members' /\ IsThere(row[r.on]) /\ VectorsIn(base, r.on) = {}
        BY <1>2, <1>7, <2>3, <3>1
      <3>6. BaseCalm(row[r.on], base, VectorsIn(base, r.on), r.on \in members', doubled, r)
        BY <1>2, <1>8, <3>5 DEF BaseCalm
      <3>7. /\ GoingCalm(row[r.on], VectorsIn(base, r.on), r.on \in members', r)
            /\ RebuildCalm(base, members', r) /\ BatchCalm(row, base, members', r)
        BY <1>2, <1>8 DEF GoingCalm, RebuildCalm, BatchCalm
      <3> QED BY <1>7, <2>3, <3>2, <3>3, <3>4, <3>6, <3>7 DEF Calm
    <2>4. ~split /\ Calm(row, own, base, members, doubled, c) =>
              Calm(row', own', base, members', doubled', r)
      BY <1>6, <2>3
    <2>5. /\ r.kind = c.kind /\ r.old \subseteq c.old /\ asks' = [asks EXCEPT ![h] = r]
          /\ \A g \in Documents : row'[g].status = "pending" =>
               Awaits(r, g) \/ (row[g].status = "pending" /\ ~Awaits(c, g))
      BY <1>2, <1>3, <1>6, <1>8
    <2> QED BY <1>5, <1>6, <2>1, <2>2, <2>4, <2>5, FilesWrite
  <1>9. CASE c.kind # "upload"
    <2>1. c.kind = "add" /\ asks' = [asks EXCEPT ![h] = Index!Idle]
          /\ Index!Idle.at = "idle" /\ Index!Idle.old = {} /\ ~Replaces(Index!Idle)
      BY <1>1, <1>4, <1>9 DEF Index!Idle, Replaces
    <2>2. ASSUME Calm(row, own, base, members, doubled, c)
          PROVE  Calm(row, own, base, members', doubled, Index!Idle)
      <3>1. ~doubled => CurrentIn(row[f], VectorsIn(base, f))
        BY <1>1, <2>1, <2>2 DEF Calm, BaseCalm
      <3>2. \A g : Answers(c, g) <=> g = f
        BY <2>1 DEF Answers, OnFile
      <3>3. Quiet(row, own, base, members', doubled)
        BY <1>7, <2>2, <3>1, <3>2 DEF Calm, CurrentCalm, Quiet
      <3> QED BY <3>3, QuietIsCalm
    <2>3. ~split /\ Calm(row, own, base, members, doubled, c) =>
              Calm(row', own', base, members', doubled', Index!Idle)
      BY <1>6, <2>2
    <2>4. \A g \in Documents : row'[g].status = "pending" =>
              Awaits(Index!Idle, g) \/ (row[g].status = "pending" /\ ~Awaits(c, g))
      BY <1>6
    <2>5. Index!Idle.old \subseteq c.old /\ FileCallOK(Index!Idle)
      BY <2>1, IdleCallOK
    <2> QED BY <1>5, <1>6, <2>1, <2>3, <2>4, <2>5, FilesWrite
  <1> QED BY <1>8, <1>9

LEMMA FilesNotesOld ==
    ASSUME FilesInv, NEW h \in Requests, Index!OldAreNoted(h)
    PROVE  FilesInv'
  <1> DEFINE c == asks[h]
             f == c.on
             old == VectorsIn(base, f)
             r == CallOf(c.kind, "load", c.on, c.text, c.flag, "base", c.docs, c.todo, old)
  <1>1. /\ c.at = "old"
        /\ IF f \in members
           THEN asks' = [asks EXCEPT ![h] = [c EXCEPT !.at = "load", !.into = "base", !.old = old]]
           ELSE asks' = [asks EXCEPT ![h] = Index!Idle]
        /\ UNCHANGED <<row, own, base, inserted, members, split, mixed, died, doubled>>
    BY DEF Index!OldAreNoted, Index!VectorsOf, VectorsIn, Index!Vectors, Index!Kept,
           Index!Progress, Index!At, Index!On, Index!End, Index!Becomes
  <1>2. old \subseteq FileVectors /\ old \subseteq base /\ \A w \in old : w.file = f
    BY FilesTyped DEF VectorsIn
  <1> HIDE DEF old
  <1>3. /\ r.at = "load" /\ r.kind = c.kind /\ r.on = c.on /\ r.text = c.text
        /\ r.into = "base" /\ r.docs = c.docs /\ r.todo = c.todo /\ r.old = old
        /\ r = CallOf(r.kind, r.at, r.on, r.text, r.flag, r.into, r.docs, r.todo, r.old)
    BY CallHas
  <1>4. f \in members => asks' = [asks EXCEPT ![h] = r]
    <2>1. [c EXCEPT !.at = "load", !.into = "base", !.old = old]
            = SetOld(SetInto(SetAt(c, "load"), "base"), old)
      BY Zenon DEF SetAt, SetInto, SetOld
    <2>2. SetOld(SetInto(SetAt(c, "load"), "base"), old) = r
      BY CallFacts, CallSets
    <2> QED BY <1>1, <2>1, <2>2
  <1> HIDE DEF r
  <1>5. f \in Documents /\ c.kind = "edit" /\ c.into = "own"
    BY <1>1, CallFacts DEF CourseOK, HeldOK, OnFile, ProcessStages
  <1>6. \A g : ~Awaits(c, g)
    BY <1>1 DEF Awaits
  <1>7. ASSUME Calm(row, own, base, members, doubled, c)
        PROVE  IsThere(row[f]) /\ \A g \in Documents : RowCalm(row[g], own[g])
    <2>1. ~HasRow(c)
      BY <1>1 DEF HasRow
    <2> QED BY <1>5, <1>7, <2>1 DEF Calm, OwnCalm, RowsCalm
  <1>8. CASE f \in members
    <2>1. FileCallOK(r)
      <3>1. CourseOK(r)
        BY <1>3, <1>5 DEF CourseOK, ProcessStages
      <3>2. HeldOK(r)
        BY <1>1, <1>2, <1>3, <1>5, CallFacts DEF HeldOK, OnFile
      <3> QED BY <1>3, <3>1, <3>2 DEF FileCallOK
    <2>2. ~Replaces(r)
      BY <1>3 DEF Replaces
    <2>3. ASSUME Calm(row, own, base, members, doubled, c)
          PROVE  Calm(row, own, base, members, doubled, r)
      <3>1. ~HasRow(c) /\ ~HasRow(r) /\ InBase(r)
        BY <1>1, <1>3, <1>5 DEF HasRow, InBase, BaseKinds, ProcessStages
      <3>2. OwnCalm(row[r.on], own[r.on], VectorsIn(base, r.on), r.on \in members, r)
        BY <1>3, <3>1 DEF OwnCalm
      <3>3. BaseCalm(row[r.on], base, VectorsIn(base, r.on), r.on \in members, doubled, r)
        BY <1>3, <1>5, <1>7, <1>8, <2>3 DEF BaseCalm, old
      <3>4. RowsCalm(row, own, r)
        BY <1>7, <2>3 DEF RowsCalm
      <3>5. FoundCalm(base, members, r) /\ CurrentCalm(row, base, members, doubled, r)
        BY <1>3, <1>5, <2>3 DEF Calm, FoundCalm, Settles, CurrentCalm, Answers
      <3>6. /\ GoingCalm(row[r.on], VectorsIn(base, r.on), r.on \in members, r)
            /\ RebuildCalm(base, members, r) /\ BatchCalm(row, base, members, r)
        BY <1>3, <1>5 DEF GoingCalm, RebuildCalm, BatchCalm
      <3> QED BY <2>3, <3>2, <3>3, <3>4, <3>5, <3>6 DEF Calm
    <2>4. r.old \subseteq c.old \cup base /\ r.kind = c.kind /\ c.at # "idle"
      BY <1>1, <1>2, <1>3
    <2> QED BY <1>1, <1>4, <1>6, <1>8, <2>1, <2>2, <2>3, <2>4, FilesMove
  <1>9. CASE f \notin members
    <2>1. /\ asks' = [asks EXCEPT ![h] = Index!Idle] /\ c.at # "idle"
          /\ Index!Idle.at = "idle" /\ Index!Idle.old = {} /\ ~Replaces(Index!Idle)
      BY <1>1, <1>9 DEF Index!Idle, Replaces
    <2>2. ASSUME Calm(row, own, base, members, doubled, c)
          PROVE  Calm(row, own, base, members, doubled, Index!Idle)
      <3>1. \A g : (Answers(c, g) <=> g = f) /\ ~Settles(c, g)
        BY <1>5 DEF Answers, OnFile, Settles
      <3>2. Quiet(row, own, base, members, doubled)
        BY <1>7, <1>9, <2>2, <3>1 DEF Calm, CurrentCalm, FoundCalm, Quiet
      <3> QED BY <3>2, QuietIsCalm
    <2>3. Index!Idle.old \subseteq c.old \cup base /\ FileCallOK(Index!Idle)
      BY <2>1, IdleCallOK
    <2> QED BY <1>1, <1>6, <2>1, <2>2, <2>3, FilesMove
  <1> QED BY <1>8, <1>9
\* A step that only takes vectors out of the base.
LEMMA FilesErase ==
    ASSUME FilesInv, NEW h \in Requests, NEW r, asks' = [asks EXCEPT ![h] = r],
           asks[h].at # "idle", FileCallOK(r), r.at = "idle" \/ r.kind = asks[h].kind,
           UNCHANGED <<row, own, inserted, members, split, mixed, died, doubled>>,
           base' \subseteq base, r.old \subseteq asks[h].old, ~Replaces(r),
           \A f : ~Awaits(asks[h], f),
           \/ asks[h].kind \notin Index!Additive
           \/ ~mixed => \A q : FileCallOK(q) /\ Replaces(q) /\ NewerIn(q, base) =>
                             NewerIn(q, base'),
           ~split /\ Calm(row, own, base, members, doubled, asks[h]) =>
               Calm(row, own, base', members, doubled, r)
    PROVE  FilesInv'
  <1>1. FilesOK(row', own', base', members') /\ doubled' \in BOOLEAN
    BY FilesTyped DEF FilesOK
  <1>2. /\ inserted' \in Nat /\ inserted <= inserted'
        /\ \A v \in base' : v.id <= inserted' /\ \A w \in r.old : w.id <= inserted'
    BY FilesTyped DEF FilesInv, Numbered
  <1>3. ~split /\ Calm(row, own, base, members, doubled, asks[h]) =>
            Calm(row', own', base', members', doubled', r)
    <2>1. row' = row /\ own' = own /\ members' = members /\ doubled' = doubled
      OBVIOUS
    <2> QED BY <2>1
  <1>4. /\ \A f \in Documents : row'[f].status = "pending" =>
              Awaits(r, f) \/ (row[f].status = "pending" /\ ~Awaits(asks[h], f))
        /\ UNCHANGED <<split, mixed, died>>
    OBVIOUS
  <1>5. \A w \in r.old : w.id <= inserted'
    BY FilesTyped DEF FilesInv, Numbered
  <1>6. \A v \in base' : v.id <= inserted'
    BY FilesTyped DEF FilesInv, Numbered
  <1> QED BY <1>1, <1>2, <1>3, <1>4, <1>5, <1>6, FilesGo

\* What an edit replaces is not the newest vector of any file.
LEMMA NewerStays ==
    ASSUME FilesInv, NEW h \in Requests, Replaces(asks[h]), ~mixed,
           NEW q, FileCallOK(q), NewerIn(q, base)
    PROVE  NewerIn(q, base \ asks[h].old)
  <1> DEFINE c == asks[h]
  <1>1. PICK u \in base : u.file = c.on /\ \A w \in c.old : w.id < u.id
    BY DEF FilesInv, Unmixed, NewerIn
  <1>2. PICK v \in base : v.file = q.on /\ \A w \in q.old : w.id < v.id
    BY DEF NewerIn
  <1>3. \A w \in base : w.id \in Nat
    BY FilesTyped DEF FileVectors
  <1>4. /\ \A w \in c.old : w.id \in Nat /\ w.file = c.on
        /\ \A w \in q.old : w.id \in Nat
    BY CallFacts DEF FileCallOK, HeldOK, FileVectors, Replaces
  <1>5. u \notin c.old
    BY <1>1, <1>3
  <1>6. CASE v \in c.old
    <2>1. u.file = q.on /\ v.id < u.id
      BY <1>1, <1>2, <1>4, <1>6
    <2>2. ASSUME NEW w \in q.old PROVE w.id < u.id
      <3>1. w.id < v.id /\ w.id \in Nat /\ v.id \in Nat /\ u.id \in Nat
        BY <1>2, <1>3, <1>4
      <3> QED BY <2>1, <3>1
    <2> QED BY <1>5, <2>1, <2>2 DEF NewerIn
  <1>7. CASE v \notin c.old
    BY <1>2, <1>7 DEF NewerIn
  <1> QED BY <1>6, <1>7

LEMMA FilesDropsOld ==
    ASSUME FilesInv, NEW h \in Requests, Index!DropOld(h)
    PROVE  FilesInv'
  <1> DEFINE c == asks[h]
             f == c.on
             r == Index!Idle
  <1>1. /\ c.at = "dropOld" /\ base' = base \ c.old /\ asks' = [asks EXCEPT ![h] = r]
        /\ UNCHANGED <<row, own, inserted, members, split, mixed, died, doubled>>
    BY DEF Index!DropOld, Index!Kept, Index!Progress, Index!At, Index!End, Index!Becomes
  <1>2. c.kind = "edit" /\ c.into = "base" /\ \A w \in c.old : w.file = f
    BY <1>1, CallFacts DEF CourseOK, HeldOK, ProcessStages
  <1>3. r.at = "idle" /\ r.old = {} /\ ~Replaces(r)
    BY DEF Index!Idle, Replaces
  <1>4. ~mixed => \A q : FileCallOK(q) /\ Replaces(q) /\ NewerIn(q, base) => NewerIn(q, base')
    BY <1>1, <1>2, NewerStays DEF Replaces
  <1>5. ASSUME Calm(row, own, base, members, doubled, c)
        PROVE  Calm(row, own, base', members, doubled, r)
    <2>1. VectorsIn(base', f) = VectorsIn(base, f) \ c.old
      BY <1>1 DEF VectorsIn
    <2>2. \A g : g # f => VectorsIn(base', g) = VectorsIn(base, g)
      BY <1>1, <1>2 DEF VectorsIn
    <2>3. ~doubled => CurrentIn(row[f], VectorsIn(base', f))
      BY <1>1, <1>2, <1>5, <2>1 DEF Calm, BaseCalm
    <2>4. \A g : (Answers(c, g) <=> g = f) /\ ~Settles(c, g)
      BY <1>2 DEF Answers, OnFile, Settles
    <2>5. ApartCalm(row, base', members, doubled)
      BY <1>1, <1>5 DEF Calm, ApartCalm
    <2>6. ~HasRow(c)
      BY <1>1 DEF HasRow
    <2>7. \A g \in Documents : RowCalm(row[g], own[g])
      BY <1>5, <2>6 DEF Calm, RowsCalm
    <2>8. \A v \in base' : v.file \in members
      BY <1>1, <1>5, <2>4 DEF Calm, FoundCalm
    <2>9. ~doubled => \A g \in members : row[g].status = "completed" =>
                          CurrentIn(row[g], VectorsIn(base', g))
      BY <1>5, <2>2, <2>3, <2>4 DEF Calm, CurrentCalm
    <2> QED BY <2>5, <2>7, <2>8, <2>9, QuietIsCalm DEF Quiet
  <1>6. \A g : ~Awaits(c, g)
    BY <1>1 DEF Awaits
  <1>7. /\ FileCallOK(r) /\ r.old \subseteq c.old /\ base' \subseteq base /\ c.at # "idle"
    BY <1>1, <1>3, IdleCallOK
  <1> QED BY <1>1, <1>3, <1>4, <1>5, <1>6, <1>7, FilesErase

LEMMA FilesUnlists ==
    ASSUME FilesInv, NEW h \in Requests, Index!Unlist(h)
    PROVE  FilesInv'
  <1> DEFINE c == asks[h]
             f == c.on
             r == Moved(c, "clear")
  <1>1. /\ c.at = "unlist" /\ members' = members \ {f} /\ Index!Goto(h, "clear")
        /\ UNCHANGED <<row, own, base, inserted, split, mixed, died, doubled>>
    BY DEF Index!Unlist, Index!Vectors, Index!Kept, Index!Progress, Index!At, Index!On
  <1>2. asks' = [asks EXCEPT ![h] = r]
    BY <1>1, MovesTo
  <1>3. /\ r.at = "clear" /\ r.kind = c.kind /\ r.on = c.on /\ r.text = c.text
        /\ r.into = c.into /\ r.docs = c.docs /\ r.todo = c.todo /\ r.old = c.old
        /\ r = CallOf(r.kind, r.at, r.on, r.text, r.flag, r.into, r.docs, r.todo, r.old)
    BY MovedHas
  <1> HIDE DEF r
  <1>4. c.kind \in {"remove", "delete"} /\ c.into = "own" /\ f \in Documents
    BY <1>1, CallFacts DEF CourseOK, HeldOK, OnFile, ProcessStages
  <1>5. FileCallOK(r)
    <2>1. CourseOK(r)
      BY <1>3, <1>4 DEF CourseOK
    <2>2. HeldOK(r)
      BY <1>1, <1>3, <1>4, CallFacts DEF HeldOK, OnFile
    <2> QED BY <1>3, <2>1, <2>2 DEF FileCallOK
  <1>6. ~Replaces(r) /\ \A g : ~Awaits(c, g)
    BY <1>3, <1>4 DEF Replaces, Awaits
  <1>7. ASSUME Calm(row, own, base, members, doubled, c)
        PROVE  Calm(row, own, base, members', doubled, r)
    <2>1. ~HasRow(c) /\ ~HasRow(r) /\ ~InBase(r) /\ r.on \notin members'
      BY <1>1, <1>3, <1>4 DEF HasRow, InBase
    <2>2. ApartCalm(row, base, members', doubled)
      BY <1>1, <1>7 DEF Calm, ApartCalm
    <2>3. RowsCalm(row, own, r)
      BY <1>7, <2>1 DEF Calm, RowsCalm
    <2>4. FoundCalm(base, members', r)
      BY <1>1, <1>3, <1>4, <1>7 DEF Calm, FoundCalm, Settles
    <2>5. CurrentCalm(row, base, members', doubled, r)
      <3>1. \A g : (Answers(c, g) <=> g = f) /\ (Answers(r, g) <=> g = f)
        BY <1>3, <1>4 DEF Answers, OnFile
      <3> QED BY <1>1, <1>7, <3>1 DEF Calm, CurrentCalm
    <2>6. OwnCalm(row[r.on], own[r.on], VectorsIn(base, r.on), r.on \in members', r)
      BY <1>3, <1>4, <2>1 DEF OwnCalm
    <2>7. BaseCalm(row[r.on], base, VectorsIn(base, r.on), r.on \in members', doubled, r)
      BY <1>3, <1>4, <2>1 DEF BaseCalm
    <2>8. GoingCalm(row[r.on], VectorsIn(base, r.on), r.on \in members', r)
      BY <1>1, <1>3, <1>4, <1>7, <2>1 DEF Calm, GoingCalm
    <2>9. RebuildCalm(base, members', r) /\ BatchCalm(row, base, members', r)
      BY <1>3, <1>4 DEF RebuildCalm, BatchCalm
    <2> QED BY <2>2, <2>3, <2>4, <2>5, <2>6, <2>7, <2>8, <2>9 DEF Calm
  <1>8. /\ row' \in [Documents -> FileRows] /\ own' \in [Documents -> SUBSET Versions]
        /\ doubled' \in BOOLEAN /\ row' = row /\ own' = own /\ doubled' = doubled
        /\ members' \subseteq Documents
        /\ UNCHANGED <<base, inserted, split, mixed, died>> /\ c.at # "idle"
    BY <1>1, FilesTyped
  <1>9. ~split /\ Calm(row, own, base, members, doubled, c) =>
            Calm(row', own', base, members', doubled', r)
    BY <1>7, <1>8
  <1>10. /\ r.kind = c.kind /\ r.old \subseteq c.old
         /\ \A g \in Documents : row'[g].status = "pending" =>
               Awaits(r, g) \/ (row[g].status = "pending" /\ ~Awaits(c, g))
    BY <1>3, <1>6, <1>8
  <1> QED BY <1>2, <1>5, <1>6, <1>8, <1>9, <1>10, FilesWrite
\* What is cleared with a file is nothing that is found of another.
LEMMA ClearsItsOwn ==
    ASSUME NEW c, NEW base_, NEW f \in Documents, f = c.on, FilesInv,
           c.kind \in {"refresh", "remove", "delete"}, c.at = "clear",
           base_ = {v \in base \ VectorsIn(base, f) : c.text = Index!NoHash \/ v.hash # c.text},
           Calm(row, own, base, members, doubled, c)
    PROVE  /\ IsThere(row[f]) /\ VectorsIn(base_, f) = {}
           /\ c.kind = "refresh" => f \in members
           /\ c.kind # "refresh" => f \notin members
           /\ ApartCalm(row, base_, members, doubled)
           /\ \A g \in Documents : RowCalm(row[g], own[g])
           /\ \A v \in base_ : v.file \in members
           /\ ~doubled => \A g \in members : row[g].status = "completed" =>
                              g = f \/ CurrentIn(row[g], VectorsIn(base_, g))
  <1>1. /\ \A v \in base_ : v \in base /\ v.file # f
        /\ \A v \in base : v \in base_ \/ v.file = f
               \/ (v.hash = c.text /\ c.text # Index!NoHash)
    BY DEF VectorsIn
  <1>2. VectorsIn(base_, f) = {}
    BY <1>1 DEF VectorsIn
  <1>3. IsThere(row[f]) /\ (c.kind = "refresh" => f \in members /\ c.text = Index!NoHash)
        /\ (c.kind # "refresh" => f \notin members /\ c.text = row[f].hash)
    BY DEF Calm, BaseCalm, GoingCalm
  <1>4. ApartCalm(row, base_, members, doubled)
    BY <1>1 DEF Calm, ApartCalm
  <1>5. ~HasRow(c) /\ \A g : (Answers(c, g) <=> g = f) /\ (Settles(c, g) => g = f)
    BY DEF HasRow, Answers, Settles, OnFile
  <1>6. \A g \in Documents : RowCalm(row[g], own[g])
    BY <1>5 DEF Calm, RowsCalm
  <1>7. \A v \in base_ : v.file \in members
    BY <1>1, <1>5 DEF Calm, FoundCalm
  <1>8. ASSUME ~doubled, NEW g \in members, row[g].status = "completed", g # f
        PROVE  CurrentIn(row[g], VectorsIn(base_, g))
    <2>1. CurrentIn(row[g], VectorsIn(base, g)) /\ g \in Documents
      BY <1>5, <1>8, FilesTyped DEF Calm, CurrentCalm
    <2>2. VectorsIn(base_, g) = VectorsIn(base, g)
      <3>1. SUFFICES ASSUME NEW v \in base, v.file = g, v.hash = c.text, c.text # Index!NoHash
                     PROVE  FALSE
        BY <1>1, <1>8 DEF VectorsIn
      <3>2. row[g].text = c.text
        BY <2>1, <3>1 DEF CurrentIn, VectorsIn
      <3>3. row[f].text = c.text
        BY <1>3, <1>6, <3>1 DEF RowCalm
      <3>4. row[f].text = 0
        BY <1>8, <2>1, <3>2, <3>3 DEF Calm, ApartCalm
      <3> QED BY <1>6, <1>8, <2>1, <3>2, <3>3, <3>4 DEF RowCalm
    <2> QED BY <2>1, <2>2
  <1> QED BY <1>2, <1>3, <1>4, <1>6, <1>7, <1>8

LEMMA FilesClears ==
    ASSUME FilesInv, NEW h \in Requests, Index!Clear(h)
    PROVE  FilesInv'
  <1> DEFINE c == asks[h]
             f == c.on
             kept_ == {v \in base \ VectorsIn(base, f) : c.text = Index!NoHash \/ v.hash # c.text}
  <1>1. /\ c.at = "clear" /\ base' = kept_
        /\ CASE c.kind = "refresh" -> Index!Goto(h, "load")
             [] c.kind = "delete" -> Index!Goto(h, "deleteRow")
             [] OTHER -> IF c.flag THEN Index!Goto(h, "dropCollection")
                                   ELSE asks' = [asks EXCEPT ![h] = Index!Idle]
        /\ UNCHANGED <<row, own, inserted, members, split, mixed, died, doubled>>
    BY DEF Index!Clear, Index!VectorsOf, VectorsIn, Index!Kept, Index!Progress, Index!At,
           Index!On, Index!End, Index!Becomes
  <1>2. base' \subseteq base
    BY <1>1
  <1>3. /\ f \in Documents /\ c.kind \in {"refresh", "remove", "delete"}
        /\ c.into = (IF c.kind = "refresh" THEN "base" ELSE "own")
    BY <1>1, CallFacts DEF CourseOK, HeldOK, OnFile, ProcessStages
  <1>4. c.kind \notin Index!Additive /\ c.at # "idle" /\ \A g : ~Awaits(c, g)
    BY <1>1, <1>3 DEF Index!Additive, Awaits
  <1>5. ASSUME Calm(row, own, base, members, doubled, c)
        PROVE  /\ IsThere(row[f]) /\ VectorsIn(base', f) = {}
               /\ c.kind = "refresh" => f \in members
               /\ c.kind # "refresh" => f \notin members
               /\ ApartCalm(row, base', members, doubled)
               /\ \A g \in Documents : RowCalm(row[g], own[g])
               /\ \A v \in base' : v.file \in members
               /\ ~doubled => \A g \in members : row[g].status = "completed" =>
                                  g = f \/ CurrentIn(row[g], VectorsIn(base', g))
    <2>1. base' = kept_
      BY <1>1
    <2> QED BY <1>1, <1>3, <1>5, <2>1, ClearsItsOwn
  <1>6. ASSUME NEW at, Index!Goto(h, at),
               \/ c.kind = "refresh" /\ at = "load"
               \/ c.kind = "delete" /\ at = "deleteRow"
               \/ c.kind = "remove" /\ at = "dropCollection"
        PROVE  FilesInv'
    <2> DEFINE r == Moved(c, at)
    <2>1. asks' = [asks EXCEPT ![h] = r]
      BY <1>6, MovesTo
    <2>2. /\ r.at = at /\ r.kind = c.kind /\ r.on = c.on /\ r.text = c.text
          /\ r.into = c.into /\ r.docs = c.docs /\ r.todo = c.todo /\ r.old = c.old
          /\ r = CallOf(r.kind, r.at, r.on, r.text, r.flag, r.into, r.docs, r.todo, r.old)
      BY MovedHas
    <2> HIDE DEF r
    <2>3. FileCallOK(r)
      <3>1. CourseOK(r)
        BY <1>3, <1>6, <2>2 DEF CourseOK, ProcessStages
      <3>2. HeldOK(r)
        BY <1>1, <1>3, <1>6, <2>2, CallFacts DEF HeldOK, OnFile
      <3> QED BY <2>2, <3>1, <3>2 DEF FileCallOK
    <2>4. ~Replaces(r) /\ ~HasRow(r)
      BY <1>3, <2>2 DEF Replaces, HasRow
    <2>5. ASSUME Calm(row, own, base, members, doubled, c)
          PROVE  Calm(row, own, base', members, doubled, r)
      <3>1. RowsCalm(row, own, r) /\ FoundCalm(base', members, r)
        BY <1>5, <2>5 DEF RowsCalm, FoundCalm
      <3>2. CurrentCalm(row, base', members, doubled, r)
        BY <1>3, <1>5, <2>2, <2>5 DEF CurrentCalm, Answers, OnFile
      <3>3. OwnCalm(row[r.on], own[r.on], VectorsIn(base', r.on), r.on \in members, r)
        BY <1>3, <2>2, <2>4 DEF OwnCalm
      <3>4. VectorsIn(base', r.on) = {} /\ IsThere(row[r.on])
            /\ (c.kind = "refresh" => r.on \in members)
            /\ (c.kind # "refresh" => r.on \notin members)
        BY <1>5, <2>2, <2>5
      <3>5. BaseCalm(row[r.on], base', VectorsIn(base', r.on), r.on \in members, doubled, r)
        BY <1>3, <1>6, <2>2, <3>4 DEF BaseCalm, InBase
      <3>6. GoingCalm(row[r.on], VectorsIn(base', r.on), r.on \in members, r)
        BY <1>3, <1>6, <2>2, <3>4 DEF GoingCalm
      <3>7. RebuildCalm(base', members, r) /\ BatchCalm(row, base', members, r)
        BY <1>3, <2>2 DEF RebuildCalm, BatchCalm
      <3> QED BY <1>5, <2>5, <3>1, <3>2, <3>3, <3>5, <3>6, <3>7 DEF Calm
    <2>6. r.old \subseteq c.old /\ r.kind = c.kind
      BY <2>2
    <2> QED BY <1>1, <1>2, <1>4, <2>1, <2>3, <2>4, <2>5, <2>6, FilesErase
  <1>7. ASSUME asks' = [asks EXCEPT ![h] = Index!Idle], c.kind = "remove"
        PROVE  FilesInv'
    <2>1. Index!Idle.at = "idle" /\ Index!Idle.old \subseteq c.old /\ ~Replaces(Index!Idle)
      BY DEF Index!Idle, Replaces
    <2>2. ASSUME Calm(row, own, base, members, doubled, c)
          PROVE  Calm(row, own, base', members, doubled, Index!Idle)
      <3>1. Quiet(row, own, base', members, doubled)
        BY <1>5, <1>7, <2>2 DEF Quiet
      <3> QED BY <3>1, QuietIsCalm
    <2> QED BY <1>1, <1>2, <1>4, <1>7, <2>1, <2>2, IdleCallOK, FilesErase
  <1> HIDE DEF kept_
  <1> QED BY <1>1, <1>3, <1>6, <1>7

LEMMA FilesDropsCollection ==
    ASSUME FilesInv, NEW h \in Requests, Index!DropCollection(h)
    PROVE  FilesInv'
  <1> DEFINE c == asks[h]
             f == c.on
             r == Moved(c, "deleteRow")
  <1>1. /\ c.at = "dropCollection" /\ own' = [own EXCEPT ![f] = {}]
        /\ Index!Goto(h, "deleteRow") \/ asks' = [asks EXCEPT ![h] = Index!Idle]
        /\ UNCHANGED <<row, base, inserted, members, split, mixed, died, doubled>>
    BY DEF Index!DropCollection, Index!Kept, Index!Progress, Index!At, Index!On, Index!End,
           Index!Becomes
  <1>2. c.kind = "remove" /\ c.into = "own" /\ f \in Documents
    BY <1>1, CallFacts DEF CourseOK, HeldOK, OnFile, ProcessStages
  <1>3. own' \in [Documents -> SUBSET Versions] /\ own'[f] = {}
        /\ \A g \in Documents : g # f => own'[g] = own[g]
    BY <1>1, <1>2, FilesTyped
  <1>4. ASSUME Calm(row, own, base, members, doubled, c)
        PROVE  /\ IsThere(row[f]) /\ VectorsIn(base, f) = {} /\ f \notin members
               /\ ApartCalm(row, base, members, doubled)
               /\ \A g \in Documents : RowCalm(row[g], own'[g])
               /\ \A v \in base : v.file \in members
               /\ ~doubled => \A g \in members : row[g].status = "completed" =>
                                  CurrentIn(row[g], VectorsIn(base, g))
    <2>1. IsThere(row[f]) /\ VectorsIn(base, f) = {} /\ f \notin members
      BY <1>1, <1>2, <1>4 DEF Calm, GoingCalm
    <2>2. ~HasRow(c) /\ \A g : (Answers(c, g) <=> g = f) /\ ~Settles(c, g)
      BY <1>1, <1>2 DEF HasRow, Answers, Settles, OnFile
    <2>3. \A g \in Documents : RowCalm(row[g], own'[g])
      <3>1. \A g \in Documents : RowCalm(row[g], own[g])
        BY <1>4, <2>2 DEF Calm, RowsCalm
      <3> QED BY <1>2, <1>3, <3>1 DEF RowCalm
    <2>4. \A v \in base : v.file \in members
      BY <1>4, <2>2 DEF Calm, FoundCalm
    <2>5. ~doubled => \A g \in members : row[g].status = "completed" =>
                          CurrentIn(row[g], VectorsIn(base, g))
      BY <1>4, <2>1, <2>2 DEF Calm, CurrentCalm
    <2> QED BY <1>4, <2>1, <2>3, <2>4, <2>5 DEF Calm
  <1>5. /\ r.at = "deleteRow" /\ r.kind = c.kind /\ r.on = c.on /\ r.text = c.text
        /\ r.into = c.into /\ r.docs = c.docs /\ r.todo = c.todo /\ r.old = c.old
        /\ r = CallOf(r.kind, r.at, r.on, r.text, r.flag, r.into, r.docs, r.todo, r.old)
    BY MovedHas
  <1>6. Index!Goto(h, "deleteRow") => asks' = [asks EXCEPT ![h] = r]
    BY MovesTo
  <1> HIDE DEF r
  <1>7. /\ row' \in [Documents -> FileRows] /\ members' \subseteq Documents
        /\ doubled' \in BOOLEAN /\ row' = row /\ members' = members /\ doubled' = doubled
        /\ UNCHANGED <<base, inserted, split, mixed, died>> /\ c.at # "idle"
        /\ \A g : ~Awaits(c, g)
    BY <1>1, <1>2, FilesTyped DEF Awaits
  <1>8. CASE asks' = [asks EXCEPT ![h] = r]
    <2>1. FileCallOK(r)
      <3>1. CourseOK(r)
        BY <1>2, <1>5 DEF CourseOK
      <3>2. HeldOK(r)
        BY <1>1, <1>2, <1>5, CallFacts DEF HeldOK, OnFile
      <3> QED BY <1>5, <3>1, <3>2 DEF FileCallOK
    <2>2. ~Replaces(r) /\ ~HasRow(r)
      BY <1>2, <1>5 DEF Replaces, HasRow
    <2>3. ASSUME Calm(row, own, base, members, doubled, c)
          PROVE  Calm(row, own', base, members, doubled, r)
      <3>1. RowsCalm(row, own', r) /\ FoundCalm(base, members, r)
        BY <1>4, <2>3 DEF RowsCalm, FoundCalm
      <3>2. CurrentCalm(row, base, members, doubled, r)
        BY <1>4, <2>3 DEF CurrentCalm
      <3>3. /\ OwnCalm(row[r.on], own'[r.on], VectorsIn(base, r.on), r.on \in members, r)
            /\ BaseCalm(row[r.on], base, VectorsIn(base, r.on), r.on \in members, doubled, r)
        BY <1>2, <1>5, <2>2 DEF OwnCalm, BaseCalm, InBase
      <3>4. GoingCalm(row[r.on], VectorsIn(base, r.on), r.on \in members, r)
        BY <1>4, <1>5, <2>3 DEF GoingCalm
      <3>5. RebuildCalm(base, members, r) /\ BatchCalm(row, base, members, r)
        BY <1>2, <1>5 DEF RebuildCalm, BatchCalm
      <3> QED BY <1>4, <2>3, <3>1, <3>2, <3>3, <3>4, <3>5 DEF Calm
    <2>4. ~split /\ Calm(row, own, base, members, doubled, c) =>
              Calm(row', own', base, members', doubled', r)
      BY <1>7, <2>3
    <2>5. /\ r.kind = c.kind /\ r.old \subseteq c.old
          /\ \A g \in Documents : row'[g].status = "pending" =>
               Awaits(r, g) \/ (row[g].status = "pending" /\ ~Awaits(c, g))
      BY <1>5, <1>7
    <2> QED BY <1>3, <1>7, <1>8, <2>1, <2>2, <2>4, <2>5, FilesWrite
  <1>9. CASE asks' = [asks EXCEPT ![h] = Index!Idle]
    <2>1. Index!Idle.at = "idle" /\ Index!Idle.old \subseteq c.old /\ ~Replaces(Index!Idle)
      BY DEF Index!Idle, Replaces
    <2>2. ASSUME Calm(row, own, base, members, doubled, c)
          PROVE  Calm(row, own', base, members, doubled, Index!Idle)
      BY <1>4, <2>2, QuietIsCalm DEF Quiet
    <2>3. ~split /\ Calm(row, own, base, members, doubled, c) =>
              Calm(row', own', base, members', doubled', Index!Idle)
      BY <1>7, <2>2
    <2>4. /\ \A g \in Documents : row'[g].status = "pending" =>
               Awaits(Index!Idle, g) \/ (row[g].status = "pending" /\ ~Awaits(c, g))
          /\ FileCallOK(Index!Idle)
      BY <1>7, IdleCallOK
    <2> QED BY <1>3, <1>7, <1>9, <2>1, <2>3, <2>4, FilesWrite
  <1> QED BY <1>1, <1>6, <1>8, <1>9
LEMMA FilesDeletesRow ==
    ASSUME FilesInv, NEW h \in Requests, Index!DeleteRow(h)
    PROVE  FilesInv'
  <1> DEFINE c == asks[h]
             f == c.on
             x == [row[f] EXCEPT !.status = "gone"]
             r == Index!Idle
  <1>1. /\ c.at = "deleteRow" /\ row' = [row EXCEPT ![f] = x] /\ asks' = [asks EXCEPT ![h] = r]
        /\ members' = members \/ members' = members \ {f}
        /\ UNCHANGED <<own, base, inserted, split, mixed, died, doubled>>
    BY DEF Index!DeleteRow, Index!Vectors, Index!Kept, Index!Progress, Index!At, Index!On,
           Index!End, Index!Becomes
  <1>2. c.kind \in {"remove", "delete"} /\ f \in Documents
    BY <1>1, CallFacts DEF CourseOK, HeldOK, OnFile, ProcessStages
  <1>3. /\ row' \in [Documents -> FileRows] /\ row'[f].status = "gone"
        /\ row'[f].text = row[f].text /\ \A g \in Documents : g # f => row'[g] = row[g]
    <2>1. row[f] \in FileRows
      BY <1>2, FilesTyped
    <2>2. x \in FileRows /\ x.status = "gone" /\ x.text = row[f].text
      BY <2>1 DEF FileRows
    <2> HIDE DEF x
    <2> QED BY <1>1, <1>2, <2>2, FilesTyped
  <1>4. r.at = "idle" /\ r.old \subseteq c.old /\ ~Replaces(r) /\ \A g : ~Awaits(c, g)
    BY <1>2 DEF Index!Idle, Replaces, Awaits
  <1>5. ASSUME Calm(row, own, base, members, doubled, c)
        PROVE  Calm(row', own, base, members', doubled, r)
    <2>1. f \notin members /\ members' = members
      BY <1>1, <1>2, <1>5 DEF Calm, GoingCalm
    <2>2. ~HasRow(c) /\ \A g : (Answers(c, g) <=> g = f) /\ ~Settles(c, g)
      BY <1>1, <1>2 DEF HasRow, Answers, Settles, OnFile
    <2>3. /\ \A g \in Documents : row'[g].text = row[g].text
          /\ \A g \in members : row'[g] = row[g]
      BY <1>3, <2>1, FilesTyped
    <2>4. ApartCalm(row', base, members, doubled)
      BY <1>5, <2>3 DEF Calm, ApartCalm
    <2>5. \A g \in Documents : RowCalm(row'[g], own[g])
      <3>1. RowCalm(row'[f], own[f])
        BY <1>3 DEF RowCalm, IsThere
      <3>2. ASSUME NEW g \in Documents, g # f PROVE RowCalm(row'[g], own[g])
        BY <1>3, <1>5, <2>2, <3>2 DEF Calm, RowsCalm
      <3> QED BY <3>1, <3>2
    <2>6. \A v \in base : v.file \in members
      BY <1>5, <2>2 DEF Calm, FoundCalm
    <2>7. ~doubled => \A g \in members : row'[g].status = "completed" =>
                          CurrentIn(row'[g], VectorsIn(base, g))
      BY <1>5, <2>1, <2>2, <2>3 DEF Calm, CurrentCalm
    <2> QED BY <2>1, <2>4, <2>5, <2>6, <2>7, QuietIsCalm DEF Quiet
  <1>6. /\ own' \in [Documents -> SUBSET Versions] /\ members' \subseteq Documents
        /\ doubled' \in BOOLEAN /\ own' = own /\ doubled' = doubled
        /\ UNCHANGED <<base, inserted, split, mixed, died>> /\ c.at # "idle"
    BY <1>1, FilesTyped
  <1>7. ~split /\ Calm(row, own, base, members, doubled, c) =>
            Calm(row', own', base, members', doubled', r)
    BY <1>5, <1>6
  <1>8. \A g \in Documents : row'[g].status = "pending" =>
            Awaits(r, g) \/ (row[g].status = "pending" /\ ~Awaits(c, g))
    BY <1>3, <1>4
  <1> HIDE DEF x
  <1> QED BY <1>1, <1>3, <1>4, <1>6, <1>7, <1>8, IdleCallOK, FilesWrite

LEMMA FilesDropsBase ==
    ASSUME FilesInv, NEW h \in Requests, Index!DropBase(h)
    PROVE  FilesInv'
  <1> DEFINE c == asks[h]
             at == IF c.kind = "reset" THEN "unlistAll" ELSE "next"
             r == Moved(c, at)
  <1>1. /\ c.at = "dropBase" /\ base' = {} /\ Index!Goto(h, at)
        /\ UNCHANGED <<row, own, inserted, members, split, mixed, died, doubled>>
    BY DEF Index!DropBase, Index!Kept, Index!Progress, Index!At
  <1>2. asks' = [asks EXCEPT ![h] = r]
    BY <1>1, MovesTo
  <1>3. /\ r.at = at /\ r.kind = c.kind /\ r.on = c.on /\ r.text = c.text
        /\ r.into = c.into /\ r.docs = c.docs /\ r.todo = c.todo /\ r.old = c.old
        /\ r = CallOf(r.kind, r.at, r.on, r.text, r.flag, r.into, r.docs, r.todo, r.old)
    BY MovedHas
  <1>4. \/ c.kind = "reset" /\ c.into = "own" /\ at = "unlistAll"
        \/ c.kind = "reindex" /\ c.into = "base" /\ at = "next"
    BY <1>1, CallFacts DEF CourseOK, ProcessStages
  <1> HIDE DEF r, at
  <1>5. FileCallOK(r)
    <2>1. CourseOK(r)
      BY <1>3, <1>4 DEF CourseOK
    <2>2. HeldOK(r)
      BY <1>1, <1>3, <1>4, CallFacts DEF HeldOK, OnFile, ProcessStages
    <2> QED BY <1>3, <2>1, <2>2 DEF FileCallOK
  <1>6. /\ ~Replaces(r) /\ \A g : ~Awaits(c, g)
        /\ c.kind \notin Index!Additive /\ c.at # "idle"
    BY <1>1, <1>3, <1>4 DEF Replaces, Awaits, Index!Additive
  <1>7. ASSUME Calm(row, own, base, members, doubled, c)
        PROVE  Calm(row, own, {}, members, doubled, r)
    <2>1. ~HasRow(c) /\ ~HasRow(r) /\ ~InBase(r)
      BY <1>3, <1>4 DEF HasRow, InBase, ProcessStages
    <2>2. ApartCalm(row, {}, members, doubled) /\ FoundCalm({}, members, r)
      BY <1>7 DEF Calm, ApartCalm, FoundCalm
    <2>3. RowsCalm(row, own, r)
      BY <1>7, <2>1 DEF Calm, RowsCalm
    <2>4. RebuildCalm(base, members, c)
      BY <1>7 DEF Calm
    <2>5. CurrentCalm(row, {}, members, doubled, r)
      BY <1>1, <1>3, <1>4, <2>4 DEF CurrentCalm, RebuildCalm, Answers
    <2>6. RebuildCalm({}, members, r)
      BY <1>1, <1>3, <1>4, <2>4 DEF RebuildCalm, ProcessStages
    <2>7. /\ OwnCalm(row[r.on], own[r.on], VectorsIn({}, r.on), r.on \in members, r)
          /\ BaseCalm(row[r.on], {}, VectorsIn({}, r.on), r.on \in members, doubled, r)
          /\ GoingCalm(row[r.on], VectorsIn({}, r.on), r.on \in members, r)
          /\ BatchCalm(row, {}, members, r)
      BY <1>3, <1>4, <2>1 DEF OwnCalm, BaseCalm, GoingCalm, BatchCalm
    <2> QED BY <2>2, <2>3, <2>5, <2>6, <2>7 DEF Calm
  <1>8. ~split /\ Calm(row, own, base, members, doubled, c) =>
            Calm(row, own, base', members, doubled, r)
    BY <1>1, <1>7
  <1>9. base' \subseteq base /\ r.old \subseteq c.old /\ r.kind = c.kind
    BY <1>1, <1>3
  <1> QED BY <1>1, <1>2, <1>5, <1>6, <1>8, <1>9, FilesErase

LEMMA FilesUnlistsAll ==
    ASSUME FilesInv, NEW h \in Requests, Index!UnlistAll(h)
    PROVE  FilesInv'
  <1> DEFINE c == asks[h]
             r == Index!Idle
  <1>1. /\ c.at = "unlistAll" /\ members' = {} /\ asks' = [asks EXCEPT ![h] = r]
        /\ UNCHANGED <<row, own, base, inserted, split, mixed, died, doubled>>
    BY DEF Index!UnlistAll, Index!Vectors, Index!Kept, Index!Progress, Index!At, Index!End,
           Index!Becomes
  <1>2. c.kind = "reset"
    BY <1>1, CallFacts DEF CourseOK, ProcessStages
  <1>3. r.at = "idle" /\ r.old \subseteq c.old /\ ~Replaces(r) /\ \A g : ~Awaits(c, g)
    BY <1>2 DEF Index!Idle, Replaces, Awaits
  <1>4. ASSUME Calm(row, own, base, members, doubled, c)
        PROVE  Calm(row, own, base, members', doubled, r)
    <2>1. base = {} /\ ~HasRow(c)
      BY <1>1, <1>2, <1>4 DEF Calm, RebuildCalm, HasRow
    <2>2. ApartCalm(row, base, members', doubled)
      BY <1>1, <1>4 DEF Calm, ApartCalm
    <2>3. \A g \in Documents : RowCalm(row[g], own[g])
      BY <1>4, <2>1 DEF Calm, RowsCalm
    <2> QED BY <1>1, <2>1, <2>2, <2>3, QuietIsCalm DEF Quiet
  <1>5. /\ row' \in [Documents -> FileRows] /\ own' \in [Documents -> SUBSET Versions]
        /\ doubled' \in BOOLEAN /\ row' = row /\ own' = own /\ doubled' = doubled
        /\ members' \subseteq Documents
        /\ UNCHANGED <<base, inserted, split, mixed, died>> /\ c.at # "idle"
    BY <1>1, FilesTyped
  <1>6. ~split /\ Calm(row, own, base, members, doubled, c) =>
            Calm(row', own', base, members', doubled', r)
    BY <1>4, <1>5
  <1>7. \A g \in Documents : row'[g].status = "pending" =>
            Awaits(r, g) \/ (row[g].status = "pending" /\ ~Awaits(c, g))
    BY <1>3, <1>5
  <1> QED BY <1>1, <1>3, <1>5, <1>6, <1>7, IdleCallOK, FilesWrite

LEMMA FilesGoOn ==
    ASSUME FilesInv, NEW h \in Requests, Index!NextFile(h)
    PROVE  FilesInv'
  <1> DEFINE c == asks[h]
  <1>1. /\ c.at = "next"
        /\ UNCHANGED <<row, own, base, inserted, members, split, mixed, died, doubled>>
        /\ \/ c.todo = {} /\ asks' = [asks EXCEPT ![h] = Index!Idle]
           \/ \E f \in c.todo :
                 asks' = [asks EXCEPT ![h] = [c EXCEPT !.at = "load", !.on = f,
                                                       !.todo = c.todo \ {f}]]
    BY DEF Index!NextFile, Index!Vectors, Index!Kept, Index!Progress, Index!At, Index!End,
           Index!Becomes
  <1>2. c.kind = "reindex" /\ c.into = "base" /\ c.todo \subseteq Documents
    BY <1>1, CallFacts DEF CourseOK, HeldOK, ProcessStages
  <1>3. ~HasRow(c) /\ \A g : ~Awaits(c, g) /\ ~Settles(c, g) /\ (Answers(c, g) <=> g \in c.todo)
    BY <1>1, <1>2 DEF HasRow, Awaits, Settles, Answers, OnFile, ProcessStages
  <1>4. ASSUME c.todo = {}, asks' = [asks EXCEPT ![h] = Index!Idle]
        PROVE  FilesInv'
    <2>1. Index!Idle.at = "idle" /\ Index!Idle.old = {} /\ ~Replaces(Index!Idle)
      BY DEF Index!Idle, Replaces
    <2>2. ASSUME Calm(row, own, base, members, doubled, c)
          PROVE  Calm(row, own, base, members, doubled, Index!Idle)
      <3>1. Quiet(row, own, base, members, doubled)
        BY <1>3, <1>4, <2>2 DEF Calm, Quiet, RowsCalm, FoundCalm, CurrentCalm
      <3> QED BY <3>1, QuietIsCalm
    <2>3. Index!Idle.old \subseteq c.old \cup base /\ c.at # "idle"
      BY <1>1, <2>1
    <2> QED BY <1>1, <1>3, <1>4, <2>1, <2>2, <2>3, IdleCallOK, FilesMove
  <1>5. ASSUME NEW f \in c.todo,
               asks' = [asks EXCEPT ![h] = [c EXCEPT !.at = "load", !.on = f,
                                                     !.todo = c.todo \ {f}]]
        PROVE  FilesInv'
    <2> DEFINE left == c.todo \ {f}
               r == CallOf(c.kind, "load", f, c.text, c.flag, c.into, c.docs, left, c.old)
    <2>1. asks' = [asks EXCEPT ![h] = r]
      <3>1. [c EXCEPT !.at = "load", !.on = f, !.todo = left]
              = SetTodo(SetOn(SetAt(c, "load"), f), left)
        BY Zenon DEF SetAt, SetOn, SetTodo
      <3>2. SetTodo(SetOn(SetAt(c, "load"), f), left) = r
        BY CallFacts, CallSets
      <3> QED BY <1>5, <3>1, <3>2
    <2>2. /\ r.at = "load" /\ r.kind = c.kind /\ r.on = f /\ r.text = c.text
          /\ r.into = c.into /\ r.docs = c.docs /\ r.todo = left /\ r.old = c.old
          /\ r = CallOf(r.kind, r.at, r.on, r.text, r.flag, r.into, r.docs, r.todo, r.old)
      BY CallHas
    <2> HIDE DEF r
    <2>3. FileCallOK(r)
      <3>1. CourseOK(r)
        BY <1>2, <2>2 DEF CourseOK, ProcessStages
      <3>2. HeldOK(r)
        BY <1>2, <2>2, CallFacts DEF HeldOK, OnFile
      <3> QED BY <2>2, <3>1, <3>2 DEF FileCallOK
    <2>4. ~Replaces(r) /\ ~HasRow(r) /\ InBase(r)
      BY <1>2, <2>2 DEF Replaces, HasRow, InBase, BaseKinds, ProcessStages
    <2>5. ASSUME Calm(row, own, base, members, doubled, c)
          PROVE  Calm(row, own, base, members, doubled, r)
      <3>1. /\ c.todo \subseteq members /\ \A v \in base : v.file \notin c.todo
        BY <1>1, <1>2, <2>5 DEF Calm, RebuildCalm
      <3>2. RowsCalm(row, own, r) /\ FoundCalm(base, members, r)
        BY <1>3, <2>5 DEF Calm, RowsCalm, FoundCalm
      <3>3. CurrentCalm(row, base, members, doubled, r)
        <4>1. \A g : Answers(r, g) <=> g \in c.todo
          BY <1>2, <2>2 DEF Answers, OnFile, ProcessStages
        <4> QED BY <1>3, <2>5, <4>1 DEF Calm, CurrentCalm
      <3>4. OwnCalm(row[r.on], own[r.on], VectorsIn(base, r.on), r.on \in members, r)
        BY <1>2, <2>2, <2>4 DEF OwnCalm
      <3>5. VectorsIn(base, r.on) = {} /\ r.on \in members /\ IsThere(row[r.on])
        BY <2>2, <2>5, <3>1 DEF VectorsIn, Calm, ApartCalm
      <3>6. BaseCalm(row[r.on], base, VectorsIn(base, r.on), r.on \in members, doubled, r)
        BY <1>2, <2>2, <3>5 DEF BaseCalm
      <3>7. RebuildCalm(base, members, r)
        BY <1>2, <2>2, <3>1 DEF RebuildCalm
      <3>8. /\ GoingCalm(row[r.on], VectorsIn(base, r.on), r.on \in members, r)
            /\ BatchCalm(row, base, members, r)
        BY <1>2, <2>2 DEF GoingCalm, BatchCalm
      <3> QED BY <2>5, <3>2, <3>3, <3>4, <3>6, <3>7, <3>8 DEF Calm
    <2>6. r.old \subseteq c.old \cup base /\ r.kind = c.kind /\ c.at # "idle"
      BY <1>1, <2>2
    <2> QED BY <1>1, <1>3, <2>1, <2>3, <2>4, <2>5, <2>6, FilesMove
  <1> QED BY <1>1, <1>4, <1>5
LEMMA FilesEmbedsBatch ==
    ASSUME FilesInv, NEW h \in Requests, Index!EmbedBatch(h)
    PROVE  FilesInv'
  <1> DEFINE c == asks[h]
             r == Moved(c, "recordBatch")
             new == {[id |-> inserted + 1, file |-> p[1], text |-> p[2], hash |-> Index!NoHash] :
                        p \in {q \in c.todo : q[2] # 0}}
  <1>1. /\ c.at = "embedBatch"
        /\ UNCHANGED <<row, own, members, split, mixed, died, doubled>>
        /\ \/ asks' = [asks EXCEPT ![h] = Index!Idle] /\ UNCHANGED <<base, inserted>>
           \/ base' = base \cup new /\ inserted' = inserted + 1 /\ Index!Goto(h, "recordBatch")
    BY DEF Index!EmbedBatch, Index!Kept, Index!Progress, Index!At, Index!End, Index!Becomes
  <1>2. CASE asks' = [asks EXCEPT ![h] = Index!Idle] /\ UNCHANGED <<base, inserted>>
    BY <1>1, <1>2, FilesBatchEnds
  <1>3. CASE base' = base \cup new /\ inserted' = inserted + 1 /\ Index!Goto(h, "recordBatch")
    <2>1. asks' = [asks EXCEPT ![h] = r]
      BY <1>3, MovesTo
    <2>2. /\ r.at = "recordBatch" /\ r.kind = c.kind /\ r.on = c.on /\ r.text = c.text
          /\ r.into = c.into /\ r.docs = c.docs /\ r.todo = c.todo /\ r.old = c.old
          /\ r = CallOf(r.kind, r.at, r.on, r.text, r.flag, r.into, r.docs, r.todo, r.old)
      BY MovedHas
    <2> HIDE DEF r
    <2>3. /\ c.kind = "batch" /\ c.into = "own"
          /\ c.todo \subseteq Documents \X (0 .. MaxVersions)
      BY <1>1, CallFacts DEF CourseOK, HeldOK, ProcessStages
    <2>4. FileCallOK(r)
      <3>1. CourseOK(r)
        BY <2>2, <2>3 DEF CourseOK
      <3>2. HeldOK(r)
        BY <1>1, <2>2, <2>3, CallFacts DEF HeldOK, OnFile
      <3> QED BY <2>2, <3>1, <3>2 DEF FileCallOK
    <2>5. ~Replaces(r) /\ ~HasRow(r) /\ ~HasRow(c) /\ ~InBase(r) /\ \A g : ~Awaits(c, g)
      BY <2>2, <2>3 DEF Replaces, HasRow, InBase, Awaits, BaseKinds
    <2>6. \A v \in new : /\ v \in FileVectors /\ v.id = inserted + 1 /\ v.hash = Index!NoHash
                         /\ \E p \in c.todo : v.file = p[1] /\ v.text = p[2]
      BY <2>3, FilesTyped, HashKnown DEF FileVectors, Versions
    <2>7. ASSUME NEW p \in c.todo, p[2] # 0 PROVE \E v \in new : v.file = p[1]
      <3> DEFINE v == [id |-> inserted + 1, file |-> p[1], text |-> p[2], hash |-> Index!NoHash]
      <3>1. v \in new /\ v.file = p[1]
        BY <2>7
      <3> QED BY <3>1
    <2> HIDE DEF new
    <2>8. FilesOK(row', own', base', members') /\ inserted' \in Nat /\ inserted <= inserted'
      BY <1>1, <1>3, <2>6, FilesTyped DEF FilesOK
    <2>9. \A v \in base : v.id \in Nat /\ v.id <= inserted
      BY FilesTyped DEF FilesInv, Numbered, FileVectors
    <2>10. \A v \in base' : v.id <= inserted'
      BY <1>3, <2>6, <2>9, FilesTyped
    <2>11. \A w \in r.old : w.id <= inserted'
      <3>1. \A w \in c.old : w.id \in Nat /\ w.id <= inserted
        BY FilesTyped, CallFacts DEF FilesInv, Numbered, HeldOK, FileVectors
      <3> QED BY <1>3, <2>2, <3>1, FilesTyped
    <2>12. ASSUME Calm(row, own, base, members, doubled, c)
           PROVE  Calm(row, own, base', members, doubled, r)
      <3>1. \A p \in c.todo : /\ IsThere(row[p[1]]) /\ p[2] = row[p[1]].text
                              /\ p[1] \notin members /\ VectorsIn(base, p[1]) = {}
        BY <1>1, <2>3, <2>12 DEF Calm, BatchCalm
      <3>2. ApartCalm(row, base', members, doubled)
        <4>1. ASSUME NEW v \in base', NEW w \in base', v.hash = w.hash, v.hash # Index!NoHash
              PROVE  v.file = w.file
          <5>1. v \in base /\ w \in base
            BY <1>3, <2>6, <4>1
          <5> QED BY <2>12, <4>1, <5>1 DEF Calm, ApartCalm
        <4> QED BY <2>12, <4>1 DEF Calm, ApartCalm
      <3>3. RowsCalm(row, own, r)
        BY <2>5, <2>12 DEF Calm, RowsCalm
      <3>4. FoundCalm(base', members, r)
        <4>1. \A v \in base : v.file \in members
          BY <1>1, <2>3, <2>12 DEF Calm, FoundCalm, Settles
        <4>2. \A v \in new : Settles(r, v.file)
          BY <2>2, <2>3, <2>6 DEF Settles, PutIn
        <4> QED BY <1>3, <4>1, <4>2 DEF FoundCalm
      <3>5. CurrentCalm(row, base', members, doubled, r)
        <4>1. \A g : ~Answers(c, g)
          BY <2>3 DEF Answers, OnFile
        <4>2. \A g \in members : VectorsIn(base', g) = VectorsIn(base, g)
          BY <1>3, <2>6, <3>1 DEF VectorsIn
        <4> QED BY <2>12, <4>1, <4>2 DEF Calm, CurrentCalm
      <3>6. BatchCalm(row, base', members, r)
        <4>1. ASSUME NEW p \in c.todo
              PROVE  /\ \A v \in VectorsIn(base', p[1]) : v.text = p[2] /\ v.hash = Index!NoHash
                     /\ p[2] # 0 => VectorsIn(base', p[1]) # {}
          <5>1. \A v \in VectorsIn(base', p[1]) : v \in new
            BY <1>3, <3>1 DEF VectorsIn
          <5>2. \A v \in VectorsIn(base', p[1]) : v.text = p[2] /\ v.hash = Index!NoHash
            <6>1. \A v \in VectorsIn(base', p[1]) : v.file = p[1]
              BY DEF VectorsIn
            <6> QED BY <2>6, <3>1, <5>1, <6>1
          <5>3. p[2] # 0 => VectorsIn(base', p[1]) # {}
            BY <1>3, <2>7 DEF VectorsIn
          <5> QED BY <5>2, <5>3
        <4> QED BY <2>2, <3>1, <4>1 DEF BatchCalm
      <3>7. /\ OwnCalm(row[r.on], own[r.on], VectorsIn(base', r.on), r.on \in members, r)
            /\ BaseCalm(row[r.on], base', VectorsIn(base', r.on), r.on \in members, doubled, r)
            /\ GoingCalm(row[r.on], VectorsIn(base', r.on), r.on \in members, r)
            /\ RebuildCalm(base', members, r)
        BY <2>2, <2>3, <2>5 DEF OwnCalm, BaseCalm, GoingCalm, RebuildCalm
      <3> QED BY <3>2, <3>3, <3>4, <3>5, <3>6, <3>7 DEF Calm
    <2>13. ~split /\ Calm(row, own, base, members, doubled, c) =>
               Calm(row', own', base', members', doubled', r)
      <3>1. row' = row /\ own' = own /\ members' = members /\ doubled' = doubled
        BY <1>1
      <3> QED BY <2>12, <3>1
    <2>14. /\ UNCHANGED <<split, mixed, died>> /\ c.at # "idle" /\ r.kind = c.kind
           /\ base \subseteq base' /\ doubled' \in BOOLEAN
           /\ \A g \in Documents : row'[g].status = "pending" =>
                 Awaits(r, g) \/ (row[g].status = "pending" /\ ~Awaits(c, g))
      BY <1>1, <1>3, <2>2, <2>5, FilesTyped
    <2> QED BY <2>1, <2>4, <2>5, <2>8, <2>10, <2>11, <2>13, <2>14, FilesGo
  <1> QED BY <1>1, <1>2, <1>3

LEMMA FilesRecordsBatch ==
    ASSUME FilesInv, NEW h \in Requests, Index!RecordBatch(h)
    PROVE  FilesInv'
  <1> DEFINE c == asks[h]
             r == Moved(c, "listBatch")
             put(g) == CHOOSE p \in c.todo : p[1] = g
             told_(g) == IsThere(row[g]) /\ \E p \in c.todo : p[1] = g
  <1>1. /\ c.at = "recordBatch" /\ Index!Goto(h, "listBatch")
        /\ row' = [g \in Documents |->
                      IF told_(g) THEN [row[g] EXCEPT !.text = put(g)[2], !.hash = put(g)[2]]
                                  ELSE row[g]]
        /\ doubled' = (doubled \/ Index!Twins(row'))
        /\ UNCHANGED <<own, base, inserted, members, split, mixed, died>>
    BY DEF Index!RecordBatch, Index!Vectors, Index!Progress, Index!At, Index!There, IsThere
  <1>2. asks' = [asks EXCEPT ![h] = r]
    BY <1>1, MovesTo
  <1>3. /\ r.at = "listBatch" /\ r.kind = c.kind /\ r.on = c.on /\ r.text = c.text
        /\ r.into = c.into /\ r.docs = c.docs /\ r.todo = c.todo /\ r.old = c.old
        /\ r = CallOf(r.kind, r.at, r.on, r.text, r.flag, r.into, r.docs, r.todo, r.old)
    BY MovedHas
  <1> HIDE DEF r
  <1>4. /\ c.kind = "batch" /\ c.into = "own"
        /\ c.todo \subseteq Documents \X (0 .. MaxVersions)
    BY <1>1, CallFacts DEF CourseOK, HeldOK, ProcessStages
  <1>5. FileCallOK(r)
    <2>1. CourseOK(r)
      BY <1>3, <1>4 DEF CourseOK
    <2>2. HeldOK(r)
      BY <1>1, <1>3, <1>4, CallFacts DEF HeldOK, OnFile
    <2> QED BY <1>3, <2>1, <2>2 DEF FileCallOK
  <1>6. /\ ~Replaces(r) /\ ~HasRow(r) /\ ~HasRow(c) /\ ~InBase(r)
        /\ \A g : ~Awaits(c, g) /\ ~Answers(c, g)
    BY <1>3, <1>4 DEF Replaces, HasRow, InBase, Awaits, BaseKinds, Answers, OnFile
  <1>7. ASSUME NEW g \in Documents
        PROVE  /\ row'[g] \in FileRows /\ row'[g].status = row[g].status
               /\ \/ row'[g] = row[g]
                  \/ \E p \in c.todo : p[1] = g /\ row'[g].text = p[2] /\ row'[g].hash = p[2]
    <2>1. row[g] \in FileRows
      BY FilesTyped
    <2>2. CASE told_(g)
      <3> DEFINE p == put(g)
      <3>1. p \in c.todo /\ p[1] = g
        BY <2>2
      <3>2. row'[g] = [row[g] EXCEPT !.text = p[2], !.hash = p[2]]
        BY <1>1, <2>2
      <3> HIDE DEF p
      <3>3. p[2] \in 0 .. MaxVersions /\ p[2] \in 0 .. Index!NoHash
        BY <1>4, <3>1, HashKnown
      <3>4. /\ row'[g] \in FileRows /\ row'[g].status = row[g].status
            /\ row'[g].text = p[2] /\ row'[g].hash = p[2]
        BY <2>1, <3>2, <3>3 DEF FileRows
      <3> QED BY <3>1, <3>4
    <2>3. CASE ~told_(g)
      BY <1>1, <2>1, <2>3
    <2> QED BY <2>2, <2>3
  <1>8. row' \in [Documents -> FileRows]
    BY <1>1, <1>7
  <1> HIDE DEF told_, put
  <1>9. ASSUME Calm(row, own, base, members, doubled, c)
        PROVE  Calm(row', own, base, members, doubled, r)
    <2>1. \A p \in c.todo : /\ IsThere(row[p[1]]) /\ p[2] = row[p[1]].text
                            /\ p[1] \notin members
                            /\ \A v \in VectorsIn(base, p[1]) : v.text = p[2]
                               /\ v.hash = Index!NoHash
                            /\ p[2] # 0 => VectorsIn(base, p[1]) # {}
      BY <1>1, <1>4, <1>9 DEF Calm, BatchCalm
    <2>2. \A g \in Documents : /\ row'[g].text = row[g].text
                               /\ row'[g].hash \in {row[g].hash, row[g].text}
                               /\ row'[g].status = row[g].status
      BY <1>7, <2>1
    <2>3. \A g \in Documents : IsThere(row'[g]) <=> IsThere(row[g])
      BY <2>2 DEF IsThere
    <2>4. ApartCalm(row', base, members, doubled)
      BY <1>9, <2>2, <2>3, FilesTyped DEF Calm, ApartCalm
    <2>5. RowsCalm(row', own, r)
      <3>1. ASSUME NEW g \in Documents PROVE RowCalm(row'[g], own[g])
        <4>1. RowCalm(row[g], own[g])
          BY <1>6, <1>9 DEF Calm, RowsCalm
        <4> QED BY <2>2, <2>3, <4>1 DEF RowCalm
      <3> QED BY <3>1 DEF RowsCalm
    <2>6. FoundCalm(base, members, r)
      BY <1>1, <1>3, <1>4, <1>9 DEF Calm, FoundCalm, Settles
    <2>7. CurrentCalm(row', base, members, doubled, r)
      <3>1. ASSUME ~doubled, NEW g \in members, row'[g].status = "completed"
            PROVE  CurrentIn(row'[g], VectorsIn(base, g))
        <4>1. g \in Documents
          BY FilesTyped
        <4>2. CurrentIn(row[g], VectorsIn(base, g))
          BY <1>6, <1>9, <2>2, <3>1, <4>1 DEF Calm, CurrentCalm
        <4> QED BY <2>2, <4>1, <4>2 DEF CurrentIn
      <3> QED BY <3>1 DEF CurrentCalm
    <2>8. BatchCalm(row', base, members, r)
      <3>1. \A p \in c.todo : IsThere(row'[p[1]]) /\ p[2] = row'[p[1]].text
        BY <1>4, <2>1, <2>2, <2>3
      <3> QED BY <1>3, <2>1, <3>1 DEF BatchCalm
    <2>9. /\ OwnCalm(row'[r.on], own[r.on], VectorsIn(base, r.on), r.on \in members, r)
          /\ BaseCalm(row'[r.on], base, VectorsIn(base, r.on), r.on \in members, doubled, r)
          /\ GoingCalm(row'[r.on], VectorsIn(base, r.on), r.on \in members, r)
          /\ RebuildCalm(base, members, r)
      BY <1>3, <1>4, <1>6 DEF OwnCalm, BaseCalm, GoingCalm, RebuildCalm
    <2> QED BY <2>4, <2>5, <2>6, <2>7, <2>8, <2>9 DEF Calm
  <1>10. doubled' \in BOOLEAN /\ (doubled => doubled')
    BY <1>1, FilesTyped DEF Index!Twins
  <1>11. own' \in [Documents -> SUBSET Versions] /\ members' \subseteq Documents
         /\ own' = own /\ members' = members
         /\ UNCHANGED <<base, inserted, split, mixed, died>> /\ c.at # "idle"
    BY <1>1, FilesTyped
  <1>12. ~split /\ Calm(row, own, base, members, doubled, c) =>
             Calm(row', own', base, members', doubled', r)
    <2>1. ASSUME Calm(row, own, base, members, doubled, c)
          PROVE  Calm(row', own, base, members, doubled', r)
      BY <1>9, <1>10, <2>1, CalmTwice
    <2> QED BY <1>11, <2>1
  <1>13. /\ \A g \in Documents : row'[g].status = "pending" =>
               Awaits(r, g) \/ (row[g].status = "pending" /\ ~Awaits(c, g))
         /\ r.kind = c.kind /\ r.old \subseteq c.old
    BY <1>3, <1>6, <1>7
  <1> QED BY <1>2, <1>5, <1>6, <1>8, <1>10, <1>11, <1>12, <1>13, FilesWrite

LEMMA FilesListsBatch ==
    ASSUME FilesInv, NEW h \in Requests, Index!ListBatch(h)
    PROVE  FilesInv'
  <1> DEFINE c == asks[h]
             r == Index!Idle
             puts == PutIn(c.todo)
  <1>1. /\ c.at = "listBatch" /\ asks' = [asks EXCEPT ![h] = r]
        /\ members' = members \cup puts
               \/ (members' = members /\ ~\A g \in puts : IsThere(row[g]))
        /\ UNCHANGED <<row, own, base, inserted, split, mixed, died, doubled>>
    BY DEF Index!ListBatch, Index!Enlisted, Index!There, IsThere, Index!Vectors, Index!Kept,
           Index!Progress, Index!At, Index!End, Index!Becomes, PutIn
  <1>2. /\ c.kind = "batch" /\ c.todo \subseteq Documents \X (0 .. MaxVersions)
        /\ puts \subseteq Documents
    BY <1>1, CallFacts DEF CourseOK, HeldOK, ProcessStages, PutIn
  <1>3. /\ r.at = "idle" /\ r.old \subseteq c.old /\ ~Replaces(r) /\ ~HasRow(c)
        /\ \A g : ~Awaits(c, g) /\ ~Answers(c, g)
    BY <1>2 DEF Index!Idle, Replaces, HasRow, Awaits, Answers, OnFile
  <1>4. ASSUME Calm(row, own, base, members, doubled, c)
        PROVE  Calm(row, own, base, members', doubled, r)
    <2>1. \A g \in puts : /\ IsThere(row[g])
                          /\ \A v \in VectorsIn(base, g) : v.text = row[g].text
                                                           /\ v.hash = Index!NoHash
                          /\ row[g].text # 0 => VectorsIn(base, g) # {}
      BY <1>1, <1>2, <1>4 DEF Calm, BatchCalm, PutIn
    <2>2. \A v \in base : v.file \in members \cup puts
      BY <1>2, <1>4 DEF Calm, FoundCalm, Settles
    <2> HIDE DEF puts
    <2>3. members' = members \cup puts
      BY <1>1, <2>1
    <2>4. ApartCalm(row, base, members', doubled)
      BY <1>4, <2>1, <2>3 DEF Calm, ApartCalm
    <2>5. \A g \in Documents : RowCalm(row[g], own[g])
      BY <1>3, <1>4 DEF Calm, RowsCalm
    <2>6. ~doubled => \A g \in members' : row[g].status = "completed" =>
                          CurrentIn(row[g], VectorsIn(base, g))
      <3>1. ASSUME NEW g \in puts, row[g].status = "completed"
            PROVE  CurrentIn(row[g], VectorsIn(base, g))
        BY <1>2, <2>1, <2>5, <3>1 DEF RowCalm, CurrentIn
      <3>2. ASSUME ~doubled, NEW g \in members, row[g].status = "completed"
            PROVE  CurrentIn(row[g], VectorsIn(base, g))
        BY <1>3, <1>4, <3>2 DEF Calm, CurrentCalm
      <3> QED BY <2>3, <3>1, <3>2
    <2> QED BY <2>2, <2>3, <2>4, <2>5, <2>6, QuietIsCalm DEF Quiet
  <1>5. /\ row' \in [Documents -> FileRows] /\ own' \in [Documents -> SUBSET Versions]
        /\ doubled' \in BOOLEAN /\ row' = row /\ own' = own /\ doubled' = doubled
        /\ members' \subseteq Documents
        /\ UNCHANGED <<base, inserted, split, mixed, died>> /\ c.at # "idle"
    BY <1>1, <1>2, FilesTyped
  <1>6. ~split /\ Calm(row, own, base, members, doubled, c) =>
            Calm(row', own', base, members', doubled', r)
    BY <1>4, <1>5
  <1>7. \A g \in Documents : row'[g].status = "pending" =>
            Awaits(r, g) \/ (row[g].status = "pending" /\ ~Awaits(c, g))
    BY <1>3, <1>5
  <1> QED BY <1>1, <1>3, <1>5, <1>6, <1>7, IdleCallOK, FilesWrite
\* A request that ends with the process.
LEMMA FilesDie ==
    ASSUME FilesInv, NEW h \in Requests, Index!Die(h)
    PROVE  FilesInv'
  <1> DEFINE r == Index!Idle
  <1>1. /\ died' = TRUE /\ split' = TRUE /\ asks' = [asks EXCEPT ![h] = r]
        /\ row' = row /\ own' = own /\ base' = base /\ inserted' = inserted
        /\ members' = members /\ mixed' = mixed /\ doubled' = doubled
    BY DEF Index!Die, Index!End, Index!Becomes, Index!Vectors
  <1>2. /\ asks'[h] = r /\ \A g \in Requests : g # h => asks'[g] = asks[g]
        /\ asks' = [g \in Requests |-> asks'[g]]
    BY <1>1, CallGoes
  <1>3. r.at = "idle" /\ r.old = {} /\ ~Replaces(r)
    BY DEF Index!Idle, Replaces
  <1> HIDE DEF r
  <1>4. \A g \in Requests : FileCallOK(asks'[g])
    BY <1>2, FilesTyped, IdleCallOK DEF r
  <1>5. Numbered'
    BY <1>1, <1>2, <1>3 DEF FilesInv, Numbered
  <1>6. PendingAwaited' /\ SerialCalm'
    BY <1>1 DEF PendingAwaited, SerialCalm
  <1>7. Unmixed'
    BY <1>1, <1>2, <1>3 DEF FilesInv, Unmixed
  <1>8. FilesOK(row', own', base', members') /\ doubled' \in BOOLEAN
    BY <1>1 DEF FilesInv
  <1> QED BY <1>2, <1>4, <1>5, <1>6, <1>7, <1>8 DEF FilesInv

LEMMA FilesBegin == Index!Init => FilesInv
  <1> SUFFICES ASSUME Index!Init PROVE FilesInv
    OBVIOUS
  <1> DEFINE fresh(some, listed, batched, text) ==
               /\ \A f, g \in listed : f # g => text[f] # text[g]
               /\ \A files \in {some, listed, batched} \ {{}} : \E f \in files : text[f] = 1
               /\ row = [f \in Documents |->
                           IF f \in some
                           THEN [status |-> "completed", text |-> text[f], hash |-> text[f]]
                           ELSE [status |-> "new", text |-> 0, hash |-> Index!NoHash]]
               /\ own = [f \in Documents |-> IF f \in some THEN {text[f]} ELSE {}]
               /\ base = {[id |-> 0, file |-> f, text |-> text[f],
                           hash |-> IF f \in batched THEN Index!NoHash ELSE text[f]] :
                             f \in listed}
               /\ members = listed
               /\ asks = [h \in Requests |-> Index!Idle]
               /\ tries = 0 /\ inserted = 0
               /\ split = FALSE /\ mixed = FALSE /\ died = FALSE /\ doubled = Index!Twins(row)
  <1>0. PICK some, listed, batched, text :
          /\ some \subseteq Documents /\ listed \subseteq some /\ batched \subseteq listed
          /\ text \in [some -> Index!Texts] /\ fresh(some, listed, batched, text)
    <2>1. \E some \in SUBSET Documents : \E listed \in SUBSET some :
          \E batched \in SUBSET listed : \E text \in [some -> Index!Texts] :
              fresh(some, listed, batched, text)
      BY Zenon DEF Index!Init
    <2> HIDE DEF fresh
    <2> QED BY <2>1
  <1> DEFINE vector(f) == [id |-> 0, file |-> f, text |-> text[f],
                           hash |-> IF f \in batched THEN Index!NoHash ELSE text[f]]
  <1>1. /\ \A f, g \in listed : f # g => text[f] # text[g]
        /\ row = [f \in Documents |->
                    IF f \in some
                    THEN [status |-> "completed", text |-> text[f], hash |-> text[f]]
                    ELSE [status |-> "new", text |-> 0, hash |-> Index!NoHash]]
        /\ own = [f \in Documents |-> IF f \in some THEN {text[f]} ELSE {}]
        /\ base = {vector(f) : f \in listed}
        /\ members = listed /\ asks = [h \in Requests |-> Index!Idle]
        /\ inserted = 0 /\ doubled = Index!Twins(row)
    BY <1>0
  <1>2. \A f \in some : text[f] \in Versions /\ text[f] # 0 /\ text[f] # Index!NoHash
    BY <1>0, HashKnown DEF Index!Texts, Versions
  <1> HIDE DEF fresh
  <1>3. \A f \in Documents :
            /\ row[f] \in FileRows /\ own[f] \subseteq Versions
            /\ f \in some => /\ row[f].status = "completed" /\ row[f].text = text[f]
                             /\ row[f].hash = text[f] /\ own[f] = {text[f]}
            /\ f \notin some => /\ row[f].status = "new" /\ row[f].text = 0 /\ own[f] = {}
    BY <1>1, <1>2, HashKnown DEF FileRows, Versions
  <1>4. /\ \A v \in base :
              /\ v \in FileVectors /\ v.id = 0 /\ v.file \in listed /\ v.text = text[v.file]
              /\ v.hash \in {text[v.file], Index!NoHash}
        /\ \A f \in listed : \E v \in base : v.file = f
    <2>1. ASSUME NEW f \in listed
          PROVE  /\ vector(f) \in FileVectors /\ vector(f).id = 0 /\ vector(f).file = f
                 /\ vector(f).text = text[f] /\ vector(f).hash \in {text[f], Index!NoHash}
      BY <1>0, <1>2, HashKnown DEF FileVectors, Versions
    <2> HIDE DEF vector
    <2> QED BY <1>1, <2>1
  <1> HIDE DEF vector
  <1>5. FilesOK(row, own, base, members) /\ doubled \in BOOLEAN
    BY <1>0, <1>1, <1>3, <1>4 DEF FilesOK, Index!Twins
  <1>6. asks = [h \in Requests |-> asks[h]] /\ \A h \in Requests : asks[h] = Index!Idle
    BY <1>1
  <1>7. Index!Idle.at = "idle" /\ Index!Idle.old = {} /\ ~Replaces(Index!Idle)
    BY DEF Index!Idle, Replaces
  <1>8. Numbered /\ PendingAwaited /\ Unmixed
    BY <1>1, <1>3, <1>4, <1>6, <1>7 DEF Numbered, PendingAwaited, Unmixed
  <1>9. Quiet(row, own, base, members, doubled)
    <2>1. ApartCalm(row, base, members, doubled)
      <3>1. ASSUME NEW v \in base, NEW w \in base, v.hash = w.hash, v.hash # Index!NoHash
            PROVE  v.file = w.file
        BY <1>1, <1>4, <3>1
      <3>2. ~doubled => \A f, g \in Documents : f # g /\ row[f].text = row[g].text =>
                                                    row[f].text = 0
        BY <1>1 DEF Index!Twins
      <3>3. \A f \in members : IsThere(row[f])
        BY <1>0, <1>1, <1>3 DEF IsThere
      <3> QED BY <3>1, <3>2, <3>3 DEF ApartCalm
    <2>2. \A f \in Documents : RowCalm(row[f], own[f])
      BY <1>2, <1>3 DEF RowCalm, IsThere
    <2>3. \A v \in base : v.file \in members
      BY <1>1, <1>4
    <2>4. \A f \in members : CurrentIn(row[f], VectorsIn(base, f))
      BY <1>0, <1>1, <1>3, <1>4 DEF CurrentIn, VectorsIn
    <2> QED BY <2>1, <2>2, <2>3, <2>4 DEF Quiet
  <1>10. SerialCalm
    BY <1>6, <1>7, <1>9, QuietIsCalm DEF SerialCalm
  <1> QED BY <1>5, <1>6, <1>8, <1>10, IdleCallOK DEF FilesInv

LEMMA FilesNext == FilesInv /\ [Index!Next]_index => FilesInv'
  <1> SUFFICES ASSUME FilesInv, [Index!Next]_index PROVE FilesInv'
    OBVIOUS
  <1>1. CASE UNCHANGED index
    BY <1>1 DEF index, FilesInv, Numbered, PendingAwaited, Unmixed, SerialCalm
  <1>2. ASSUME NEW h \in Requests, Index!Ask(h) PROVE FilesInv'
    <2>1. Index!Texts = Versions
      BY DEF Index!Texts, Versions
    <2>2. ASSUME NEW f \in Documents, NEW text \in Versions,
                 Index!Edit(h, f, text) \/ \E linked \in BOOLEAN : Index!Upload(h, f, text, linked)
          PROVE  FilesInv'
      BY <2>2, FilesEdits, FilesUploads
    <2>3. ASSUME NEW f \in Documents,
                 \/ Index!Add(h, f) \/ Index!Refresh(h, f) \/ Index!Delete(h, f)
                 \/ \E withFile \in BOOLEAN : Index!Remove(h, f, withFile)
          PROVE  FilesInv'
      BY <2>3, FilesAdds, FilesRefreshes, FilesDeletes, FilesRemoves
    <2>4. ASSUME NEW files \in SUBSET Documents, Index!AddBatch(h, files) PROVE FilesInv'
      BY <2>4, FilesBatches
    <2>5. CASE Index!Reindex(h) \/ Index!Reset(h)
      BY <2>5, FilesRebuilds
    <2> QED BY <1>2, <2>1, <2>2, <2>3, <2>4, <2>5 DEF Index!Ask
  <1>3. ASSUME NEW h \in Requests, Index!Process(h) PROVE FilesInv'
    <2>1. CASE Index!Embed(h)
      BY <2>1, FilesEmbedsOwn, FilesEmbedsBase
    <2> QED BY <1>3, <2>1, FilesLoads, FilesDropsOwn, FilesQueries, FilesWritesContent,
               FilesChecks, FilesEmbedFails, FilesCompletes, FilesFails DEF Index!Process
  <1>4. ASSUME NEW h \in Requests, Index!Finish(h) PROVE FilesInv'
    BY <1>4, FilesLinks, FilesNotesOld, FilesDropsOld, FilesUnlists, FilesClears,
       FilesDropsCollection, FilesDeletesRow, FilesDropsBase, FilesUnlistsAll, FilesGoOn,
       FilesEmbedsBatch, FilesRecordsBatch, FilesListsBatch DEF Index!Finish
  <1> QED BY <1>1, <1>2, <1>3, <1>4, FilesDie DEF Index!Next

\* Vectors are taken out of the base by an edit that has replaced them, and by
\* requests that remove.
LEMMA FilesStayFound ==
    ASSUME FilesInv, Index!Next, ~mixed', \A h \in Index!Busy : asks[h].kind \in Index!Additive
    PROVE  {v.file : v \in base} \subseteq {v.file : v \in base'}
  <1>1. SUFFICES \A v \in base : \E w \in base' : w.file = v.file
    OBVIOUS
  <1>2. PICK h \in Requests : Index!Ask(h) \/ Index!Process(h) \/ Index!Finish(h) \/ Index!Die(h)
    BY DEF Index!Next
  <1>3. CASE Index!Ask(h) \/ Index!Die(h)
    BY <1>3 DEF Index!Ask, Index!Edit, Index!Upload, Index!Add, Index!Refresh, Index!Delete,
       Index!Remove, Index!AddBatch, Index!Reindex, Index!Reset, Index!Die, Index!Vectors
  <1>4. CASE Index!Process(h)
    <2>1. CASE Index!Embed(h)
      BY <2>1 DEF Index!Embed
    <2> QED BY <1>4, <2>1 DEF Index!Process, Index!Load, Index!DropOwn, Index!QueryOwn,
               Index!WriteContent, Index!Check, Index!EmbedFails, Index!Complete, Index!Failed,
               Index!Vectors
  <1>5. CASE Index!Finish(h)
    <2>1. CASE Index!DropOld(h)
      <3> DEFINE c == asks[h]
      <3>1. c.at = "dropOld" /\ base' = base \ c.old /\ mixed' = mixed
        BY <2>1 DEF Index!DropOld, Index!At, Index!Kept, Index!Progress
      <3>2. c.kind = "edit" /\ c.into = "base" /\ \A w \in c.old : w.file = c.on
        BY <3>1, CallFacts DEF CourseOK, HeldOK, ProcessStages
      <3>3. PICK u \in base : u.file = c.on /\ \A w \in c.old : w.id < u.id
        BY <3>1, <3>2 DEF FilesInv, Unmixed, Replaces, NewerIn
      <3>4. u \notin c.old
        BY <3>3, FilesTyped DEF FileVectors
      <3> QED BY <3>1, <3>2, <3>3, <3>4
    <2>2. CASE Index!Clear(h) \/ Index!DropBase(h)
      <3>1. asks[h].at \in {"clear", "dropBase"}
        BY <2>2 DEF Index!Clear, Index!DropBase, Index!At
      <3>2. asks[h].kind \notin Index!Additive
        BY <3>1, CallFacts DEF CourseOK, ProcessStages, Index!Additive
      <3> QED BY <3>1, <3>2 DEF Index!Busy
    <2>3. CASE Index!EmbedBatch(h)
      BY <2>3 DEF Index!EmbedBatch
    <2> QED BY <1>5, <2>1, <2>2, <2>3 DEF Index!Finish, Index!Link, Index!OldAreNoted,
               Index!Unlist, Index!DropCollection, Index!DeleteRow, Index!UnlistAll,
               Index!NextFile, Index!RecordBatch, Index!ListBatch, Index!Vectors
  <1> QED BY <1>2, <1>3, <1>4, <1>5

LEMMA FilesDoAgree == FilesInv => Index!FilesAgree
  <1> SUFFICES ASSUME FilesInv PROVE Index!FilesAgree
    OBVIOUS
  <1>1. Index!NothingIsPending
    BY DEF FilesInv, PendingAwaited, Awaits, Index!NothingIsPending, Index!Busy
  <1>2. ASSUME ~split, Index!Busy = {}
        PROVE  Index!OnlyMembersAreFound /\ Index!NoDuplicates /\ Index!MembersAreCurrent
    <2>1. Quiet(row, own, base, members, doubled)
      BY <1>2, QuietIsCalm DEF FilesInv, SerialCalm, Index!Busy
    <2>2. Index!OnlyMembersAreFound
      BY <2>1 DEF Quiet, ApartCalm, IsThere, Index!OnlyMembersAreFound, Index!There
    <2>3. Index!NoDuplicates
      BY <2>1 DEF Quiet, ApartCalm, Index!NoDuplicates
    <2>4. Index!MembersAreCurrent
      BY <2>1 DEF Quiet, CurrentIn, VectorsIn, Index!MembersAreCurrent, Index!VectorsOf
    <2> QED BY <2>2, <2>3, <2>4
  <1> QED BY <1>1, <1>2 DEF Index!FilesAgree

\* As long as requests come one after the other, whichever of their embeddings
\* fail, a base serves the texts of its members, nothing else and nothing
\* twice; nobody waits for ever for a file (files.py:581-637); and whatever
\* uploads, additions, edits and batches overlap, fail or die, a file that can
\* be found stays so, also while an edit replaces it (files.py:710-729).
THEOREM FilesAreServed == MCSpec => FilesServed
  <1> DEFINE found == ~mixed' /\ (\A h \in Index!Busy : asks[h].kind \in Index!Additive)
                        => {v.file : v \in base} \subseteq {v.file : v \in base'}
  <1>1. MCInit => FilesInv
    BY FilesBegin DEF MCInit
  <1>2. [MCNext]_<<part, vars, branch, turn, register, tokens, limiter, tree, index, memories>>
            => [Index!Next]_index
    BY DEF MCNext
  <1>3. FilesInv /\ [MCNext]_<<part, vars, branch, turn, register, tokens, limiter, tree, index,
                               memories>> => FilesInv'
    BY <1>2, FilesNext
  <1>4. FilesInv /\ [MCNext]_<<part, vars, branch, turn, register, tokens, limiter, tree, index,
                               memories>> => [found]_base
    <2>1. FilesInv /\ Index!Next => found
      BY FilesStayFound
    <2>2. UNCHANGED index => base' = base
      BY DEF index
    <2> QED BY <1>2, <2>1, <2>2
  <1>5. FilesInv => Index!FilesAgree
    BY FilesDoAgree
  <1> QED BY <1>1, <1>3, <1>4, <1>5, PTL DEF MCSpec, FilesServed, Index!FilesServed,
             Index!StaysFound
=============================================================================
