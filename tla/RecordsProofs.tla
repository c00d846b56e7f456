---------------------------- MODULE RecordsProofs ----------------------------
(***************************************************************************)
(* Proofs about what MCRecords composes, for any number of requests,       *)
(* texts, memories, accounts and sessions.  A model remembers what the     *)
(* rows of its user's memories say; accounts keep their primary            *)
(* administrator and their credentials; a session keeps the refresh token  *)
(* that its provider honours; no window of time lets more attempts pass    *)
(* than the limit; the turn that writes an answer keeps its promises,      *)
(* however it is cut and continued; a request is told all of its branch    *)
(* but what a compaction has kept; and directories stay in order.          *)
(***************************************************************************)
EXTENDS MCRecords, FiniteSetTheorems, SequenceTheorems, WellFoundedInduction, TLAPS

-----------------------------------------------------------------------------
(* The memories of a user (MemoryIndex).                                   *)

\* What a request about memories is doing.
Recalls == [at : {"idle", "read", "embed", "drop", "dropAll"}, about : SUBSET Documents,
            puts : SUBSET (Documents \X Recall!Texts), twice : BOOLEAN,
            drops : SUBSET Documents, alone : BOOLEAN]

PutIn(puts) == {p[1] : p \in puts}

\* A request only changes what it is about; one about all memories neither
\* puts nor drops before it has read them.
RecallOK(r) ==
    /\ r \in Recalls
    /\ PutIn(r.puts) \subseteq r.about /\ r.drops \subseteq r.about
    /\ r.at \in {"read", "dropAll"} => r.about = Documents /\ r.drops = {}

StoreOK ==
    /\ remembered \in [Documents -> 0 .. MaxVersions]
    /\ vectors \in [Documents -> 0 .. MaxVersions]
    /\ known \subseteq Documents /\ astray \subseteq Documents
    /\ exists \in BOOLEAN /\ (~exists => vectors = Recall!None)
    \* A memory that is there has been there.
    /\ \A m \in Documents : remembered[m] # 0 => m \in known

RecallsOK == recall \in [Requests -> Recalls] /\ \A h \in Requests : RecallOK(recall[h])

\* Two requests are about one memory only if it is astray, and whoever still
\* is alone is the only request.
OneEach ==
    /\ \A h, g \in Recall!Busy : recall[h].about \cap recall[g].about \subseteq astray \/ h = g
    /\ \A h, g \in Recall!Busy : recall[h].alone => g = h

\* What is left for a request to do brings the collection in line with the rows.
DueOf(r, texts_, stored, m) ==
    /\ r.at = "read" => stored[m] = 0
    /\ r.at = "embed" =>
          \/ r.twice
          \/ m \in r.drops /\ texts_[m] = 0
          \/ /\ m \notin r.drops
             /\ m \in PutIn(r.puts) => \A p \in r.puts : p[1] = m => p[2] = texts_[m]
             /\ m \notin PutIn(r.puts) => stored[m] = texts_[m]
    /\ r.at = "drop" =>
          /\ m \in r.drops => texts_[m] = 0
          /\ m \notin r.drops => stored[m] = texts_[m]
    /\ r.at = "dropAll" => texts_[m] = 0

\* Whoever is about all memories, and alone, answers for those astray too.
Whole(r) == r.about = Documents /\ r.alone
Charge(r) == {m \in r.about : m \notin astray \/ Whole(r)}

AllDue ==
    \A h \in Recall!Busy : \A m \in Charge(recall[h]) : DueOf(recall[h], remembered, vectors, m)

RecallInv == StoreOK /\ RecallsOK /\ OneEach /\ AllDue /\ Recall!MemoriesAgree

\* A request begins: what it is about and others are goes astray, and what it
\* leaves in the rows and the collection is for it to bring in line.
LEMMA RecallStarts ==
    ASSUME RecallInv, NEW h \in Requests, NEW r, RecallOK(r), r.at # "idle",
           Recall!Start(h, r), StoreOK',
           \A m \in Documents \ r.about : remembered'[m] = remembered[m]
              /\ vectors'[m] = vectors[m],
           \A m \in r.about : DueOf(r, remembered', vectors', m)
    PROVE  RecallInv'
  <1>. DEFINE mine == [r EXCEPT !.alone = (Recall!Busy = {})]
              others(x) == [recall[x] EXCEPT !.alone = FALSE]
  <1>1. /\ h \notin Recall!Busy
        /\ recall' = [x \in Requests |-> IF x = h THEN mine ELSE others(x)]
        /\ astray' = astray \cup UNION {r.about \cap recall[x].about : x \in Recall!Busy}
    BY DEF Recall!Start, Recall!Ready
  <1>2. /\ mine \in Recalls /\ mine.at = r.at /\ mine.about = r.about /\ mine.puts = r.puts
        /\ mine.twice = r.twice /\ mine.drops = r.drops /\ mine.alone = (Recall!Busy = {})
    BY DEF RecallOK, Recalls
  <1>3. \A x \in Requests :
           /\ others(x) \in Recalls /\ others(x).at = recall[x].at
           /\ others(x).about = recall[x].about /\ others(x).puts = recall[x].puts
           /\ others(x).twice = recall[x].twice /\ others(x).drops = recall[x].drops
           /\ others(x).alone = FALSE
    BY DEF RecallInv, RecallsOK, Recalls
  <1>. HIDE DEF mine, others
  <1>4. /\ recall'[h] = mine
        /\ \A x \in Requests : x # h => recall'[x] = others(x)
    BY <1>1
  <1>5. Recall!Busy' = Recall!Busy \cup {h}
    BY <1>2, <1>3, <1>4 DEF Recall!Busy
  <1>6. RecallsOK'
    BY <1>1, <1>2, <1>3, <1>4 DEF RecallInv, RecallsOK, RecallOK
  <1>7. \A x \in Recall!Busy : r.about \cap recall[x].about \subseteq astray'
        /\ astray \subseteq astray'
    BY <1>1
  <1>8. OneEach'
    <2>1. ASSUME NEW x \in Recall!Busy', NEW y \in Recall!Busy', x # y
          PROVE  recall'[x].about \cap recall'[y].about \subseteq astray' /\ ~recall'[x].alone
      <3>1. CASE x = h
        <4>1. y \in Recall!Busy /\ recall'[y].about = recall[y].about
          BY <1>3, <1>4, <1>5, <2>1, <3>1 DEF Recall!Busy
        <4>2. recall'[x].about = r.about /\ ~recall'[x].alone
          BY <1>2, <1>4, <3>1, <4>1
        <4> QED BY <1>7, <4>1, <4>2
      <3>2. CASE x # h
        <4>1. x \in Recall!Busy /\ recall'[x].about = recall[x].about /\ ~recall'[x].alone
          BY <1>3, <1>4, <1>5, <2>1, <3>2 DEF Recall!Busy
        <4>2. CASE y = h
          BY <1>2, <1>4, <1>7, <4>1, <4>2
        <4>3. CASE y # h
          <5>1. y \in Recall!Busy /\ recall'[y].about = recall[y].about
            BY <1>3, <1>4, <1>5, <2>1, <4>3 DEF Recall!Busy
          <5>2. recall[x].about \cap recall[y].about \subseteq astray
            BY <2>1, <4>1, <5>1 DEF RecallInv, OneEach
          <5> QED BY <1>7, <4>1, <5>1, <5>2
        <4> QED BY <4>2, <4>3
      <3> QED BY <3>1, <3>2
    <2> QED BY <2>1 DEF OneEach
  <1>9. AllDue'
    <2>. SUFFICES ASSUME NEW x \in Recall!Busy', NEW m \in Charge(recall[x])'
                  PROVE  DueOf(recall'[x], remembered', vectors', m)
      BY DEF AllDue
    <2>1. m \in recall'[x].about /\ (m \notin astray' \/ recall'[x].alone)
      BY DEF Charge, Whole
    <2>2. CASE x = h
      <3>1. m \in r.about
        BY <1>2, <1>4, <2>1, <2>2
      <3>2. DueOf(mine, remembered', vectors', m) <=> DueOf(r, remembered', vectors', m)
        BY <1>2 DEF DueOf
      <3> QED BY <1>4, <2>2, <3>1, <3>2
    <2>3. CASE x # h
      <3>1. x \in Recall!Busy /\ m \in recall[x].about /\ m \notin astray'
        BY <1>3, <1>4, <1>5, <2>1, <2>3 DEF Recall!Busy
      <3>2. m \notin r.about /\ m \in Documents /\ m \notin astray
        BY <1>7, <3>1 DEF RecallInv, RecallsOK, Recalls, Recall!Busy
      <3>3. DueOf(recall[x], remembered, vectors, m)
        BY <3>1, <3>2 DEF RecallInv, AllDue, Charge
      <3>4. remembered'[m] = remembered[m] /\ vectors'[m] = vectors[m]
        BY <3>2
      <3>5. DueOf(others(x), remembered', vectors', m)
        BY <1>3, <3>1, <3>3, <3>4 DEF DueOf, Recall!Busy
      <3> QED BY <1>4, <2>3, <3>1, <3>5 DEF Recall!Busy
    <2> QED BY <2>2, <2>3
  <1>10. Recall!MemoriesAgree'
    <2>. SUFFICES ASSUME NEW m \in Documents, m \notin astray',
                         \A x \in Recall!Busy' : m \notin recall'[x].about
                  PROVE  vectors'[m] = remembered'[m]
      BY DEF Recall!MemoriesAgree
    <2>1. m \notin r.about
      BY <1>2, <1>4, <1>5
    <2>2. \A x \in Recall!Busy : m \notin recall[x].about
      BY <1>1, <1>3, <1>4, <1>5 DEF Recall!Busy
    <2>3. m \notin astray
      BY <1>1
    <2> QED BY <2>1, <2>2, <2>3 DEF RecallInv, Recall!MemoriesAgree
  <1> QED BY <1>6, <1>8, <1>9, <1>10 DEF RecallInv

\* A request ends: it has failed, and what it was about is astray, or it has
\* brought all it answers for in line.
LEMMA RecallEnds ==
    ASSUME RecallInv, NEW h \in Recall!Busy, Recall!End(h), StoreOK', UNCHANGED remembered,
           \A m \in Documents \ recall[h].about : vectors'[m] = vectors[m],
           \/ astray' = astray \cup recall[h].about
           \/ /\ \A m \in Charge(recall[h]) : vectors'[m] = remembered[m]
              /\ astray' = astray \/ (Whole(recall[h]) /\ astray' = {})
    PROVE  RecallInv'
  <1>1. /\ h \in Requests
        /\ Recall!Idle \in Recalls /\ Recall!Idle.at = "idle" /\ Recall!Idle.about = {}
        /\ RecallOK(Recall!Idle)
    BY DEF Recall!Busy, Recall!Idle, Recalls, RecallOK, PutIn
  <1>2. /\ recall'[h] = Recall!Idle /\ \A x \in Requests : x # h => recall'[x] = recall[x]
        /\ recall' \in [Requests -> Recalls]
    BY <1>1 DEF Recall!End, RecallInv, RecallsOK
  <1>3. Recall!Busy' = Recall!Busy \ {h}
    BY <1>1, <1>2 DEF Recall!Busy
  <1>4. RecallsOK'
    BY <1>1, <1>2 DEF RecallInv, RecallsOK, RecallOK
  <1>5. Whole(recall[h]) => Recall!Busy' = {}
    BY <1>3 DEF RecallInv, OneEach, Whole
  <1>6. Recall!Busy' = {} \/ astray \subseteq astray'
    BY <1>5
  <1>7. OneEach'
    BY <1>2, <1>3, <1>6 DEF RecallInv, OneEach, Recall!Busy
  <1>8. ASSUME NEW x \in Recall!Busy', NEW m \in recall[x].about, m \notin astray'
        PROVE  m \notin recall[h].about /\ m \notin astray /\ m \in Documents
    BY <1>3, <1>6, <1>8 DEF RecallInv, OneEach, RecallsOK, Recalls, Recall!Busy
  <1>9. AllDue'
    <2>. SUFFICES ASSUME NEW x \in Recall!Busy', NEW m \in Charge(recall[x])'
                  PROVE  DueOf(recall'[x], remembered', vectors', m)
      BY DEF AllDue
    <2>1. x \in Recall!Busy /\ x # h /\ recall'[x] = recall[x]
      BY <1>2, <1>3 DEF Recall!Busy
    <2>2. ~recall[x].alone
      BY <2>1 DEF RecallInv, OneEach
    <2>3. m \in recall[x].about /\ m \notin astray'
      BY <2>1, <2>2 DEF Charge, Whole
    <2>4. m \notin recall[h].about /\ m \notin astray /\ m \in Documents
      BY <1>8, <2>3
    <2>5. DueOf(recall[x], remembered, vectors, m)
      BY <2>1, <2>3, <2>4 DEF RecallInv, AllDue, Charge
    <2>6. vectors'[m] = vectors[m] /\ remembered' = remembered
      BY <2>4
    <2> QED BY <2>1, <2>5, <2>6 DEF DueOf
  <1>10. Recall!MemoriesAgree'
    <2>. SUFFICES ASSUME NEW m \in Documents, m \notin astray',
                         \A x \in Recall!Busy' : m \notin recall'[x].about
                  PROVE  vectors'[m] = remembered'[m]
      BY DEF Recall!MemoriesAgree
    <2>1. CASE m \in recall[h].about
      BY <2>1 DEF Charge
    <2>2. CASE m \notin recall[h].about
      <3>1. m \notin astray
        BY <2>2 DEF Whole
      <3>2. \A x \in Recall!Busy : m \notin recall[x].about
        BY <1>2, <1>3, <2>2 DEF Recall!Busy
      <3> QED BY <2>2, <3>1, <3>2 DEF RecallInv, Recall!MemoriesAgree
    <2> QED BY <2>1, <2>2
  <1> QED BY <1>4, <1>7, <1>9, <1>10 DEF RecallInv

\* A request goes on with what it is about.
LEMMA RecallMoves ==
    ASSUME RecallInv, NEW h \in Recall!Busy, NEW r, RecallOK(r), r.at # "idle",
           r.about = recall[h].about, r.alone = recall[h].alone,
           recall' = [recall EXCEPT ![h] = r],
           StoreOK', UNCHANGED <<remembered, astray>>,
           \A m \in Documents \ recall[h].about : vectors'[m] = vectors[m],
           \A m \in Charge(recall[h]) : DueOf(r, remembered, vectors', m)
    PROVE  RecallInv'
  <1>1. h \in Requests /\ r \in Recalls
    BY DEF Recall!Busy, RecallOK
  <1>2. /\ recall'[h] = r /\ \A x \in Requests : x # h => recall'[x] = recall[x]
        /\ recall' \in [Requests -> Recalls]
    BY <1>1 DEF RecallInv, RecallsOK
  <1>3. Recall!Busy' = Recall!Busy
    BY <1>1, <1>2 DEF Recall!Busy
  <1>4. \A x \in Requests :
           recall'[x].about = recall[x].about /\ recall'[x].alone = recall[x].alone
    BY <1>2
  <1>5. RecallsOK'
    BY <1>2 DEF RecallInv, RecallsOK, RecallOK
  <1>6. OneEach'
    BY <1>3, <1>4 DEF RecallInv, OneEach, Recall!Busy
  <1>7. AllDue'
    <2>. SUFFICES ASSUME NEW x \in Recall!Busy, NEW m \in Charge(recall[x])
                  PROVE  DueOf(recall'[x], remembered', vectors', m)
      <3>1. \A x \in Recall!Busy : Charge(recall[x])' = Charge(recall[x])
        BY <1>4 DEF Charge, Whole, Recall!Busy
      <3> QED BY <1>3, <3>1 DEF AllDue
    <2>1. CASE x = h
      BY <1>2, <2>1
    <2>2. CASE x # h
      <3>1. recall'[x] = recall[x] /\ ~recall[x].alone
        BY <1>2, <2>2 DEF Recall!Busy, RecallInv, OneEach
      <3>2. m \in recall[x].about /\ m \notin astray
        BY <3>1 DEF Charge, Whole
      <3>3. m \notin recall[h].about /\ m \in Documents
        BY <2>2, <3>2 DEF RecallInv, OneEach, RecallsOK, Recalls, Recall!Busy
      <3>4. DueOf(recall[x], remembered, vectors, m)
        BY DEF RecallInv, AllDue
      <3> QED BY <3>1, <3>3, <3>4 DEF DueOf
    <2> QED BY <2>1, <2>2
  <1>8. Recall!MemoriesAgree'
    BY <1>3, <1>4 DEF Recall!MemoriesAgree, RecallInv, Recall!Busy
  <1> QED BY <1>5, <1>6, <1>7, <1>8 DEF RecallInv

\* A request that is not there (Idle).
LEMMA RecallIdle ==
    /\ Recall!Idle \in Recalls /\ Recall!Idle.at = "idle" /\ Recall!Idle.about = {}
    /\ Recall!Idle.puts = {} /\ Recall!Idle.drops = {} /\ PutIn({}) = {}
  BY DEF Recall!Idle, Recalls, PutIn

\* What a request starts with.
LEMMA RecallFields ==
    ASSUME NEW x \in Recalls, NEW a \in {"idle", "read", "embed", "drop", "dropAll"},
           NEW b \in SUBSET Documents, NEW p \in SUBSET (Documents \X Recall!Texts),
           NEW d \in SUBSET Documents
    PROVE  /\ [x EXCEPT !.at = a] \in Recalls
           /\ [x EXCEPT !.about = b] \in Recalls
           /\ [x EXCEPT !.puts = p] \in Recalls
           /\ [x EXCEPT !.drops = d] \in Recalls
  <1>1. [x EXCEPT !.at = a] \in Recalls
    BY DEF Recalls
  <1>2. [x EXCEPT !.about = b] \in Recalls
    BY DEF Recalls
  <1>3. [x EXCEPT !.puts = p] \in Recalls
    BY DEF Recalls
  <1>4. [x EXCEPT !.drops = d] \in Recalls
    BY DEF Recalls
  <1> QED BY <1>1, <1>2, <1>3, <1>4

\* What goes astray is a memory.
LEMMA RecallAstray ==
    ASSUME RecallInv, NEW h, NEW r, r.about \subseteq Documents, Recall!Start(h, r)
    PROVE  astray' \subseteq Documents
  <1>1. astray' = astray \cup UNION {r.about \cap recall[x].about : x \in Recall!Busy}
    BY DEF Recall!Start
  <1>2. \A x \in Recall!Busy : r.about \cap recall[x].about \subseteq Documents
    OBVIOUS
  <1>3. astray \subseteq Documents
    BY DEF RecallInv, StoreOK
  <1> QED BY <1>1, <1>2, <1>3

\* add_memory and update_memory_by_id commit the row and owe the vector.
LEMMA RecallPuts ==
    ASSUME RecallInv, NEW h \in Requests, NEW m \in Documents, NEW text \in Recall!Texts,
           Recall!Add(h, m, text) \/ Recall!Update(h, m, text)
    PROVE  RecallInv'
  <1>. DEFINE r == [Recall!Idle EXCEPT !.at = "embed", !.about = {m}, !.puts = {<<m, text>>}]
  <1>2. Recall!Start(h, r) /\ remembered' = [remembered EXCEPT ![m] = text]
    BY DEF Recall!Add, Recall!Update
  <1>3. PutIn({<<m, text>>}) = {m}
    BY DEF PutIn
  <1>5. /\ r \in Recalls
        /\ r.at = "embed" /\ r.about = {m} /\ r.puts = {<<m, text>>} /\ r.drops = {}
    <2>1. {<<m, text>>} \in SUBSET (Documents \X Recall!Texts) /\ {m} \in SUBSET Documents
      OBVIOUS
    <2>2. [Recall!Idle EXCEPT !.at = "embed"] \in Recalls
      BY RecallIdle, RecallFields
    <2>3. [[Recall!Idle EXCEPT !.at = "embed"] EXCEPT !.about = {m}] \in Recalls
      BY <2>1, <2>2, RecallFields
    <2>4. r \in Recalls
      BY <2>1, <2>3, RecallFields
    <2> QED BY <2>4, RecallIdle DEF Recalls
  <1>4. RecallOK(r)
    BY <1>3, <1>5 DEF RecallOK
  <1>. HIDE DEF r
  <1>6. StoreOK'
    <2>1. astray' \subseteq Documents
      BY <1>2, <1>5, RecallAstray
    <2>2. text \in 0 .. MaxVersions /\ text # 0
      BY VersionConstants DEF Recall!Texts
    <2>3. /\ remembered' \in [Documents -> 0 .. MaxVersions]
          /\ \A x \in Documents : remembered'[x] # 0 => x \in known \cup {m}
      BY <1>2, <2>2 DEF RecallInv, StoreOK
    <2>4. known' = known \cup {m} \/ (known' = known /\ m \in known)
      BY DEF RecallInv, StoreOK, Recall!Add, Recall!Update
    <2>5. UNCHANGED <<exists, vectors>>
      BY DEF Recall!Add, Recall!Update, Recall!Collection
    <2> QED BY <2>1, <2>3, <2>4, <2>5 DEF RecallInv, StoreOK, Recall!None
  <1>7. DueOf(r, remembered', vectors', m)
    BY <1>2, <1>3, <1>5 DEF DueOf, RecallInv, StoreOK
  <1>8. \A x \in Documents \ r.about : remembered'[x] = remembered[x] /\ vectors'[x] = vectors[x]
    BY <1>2, <1>5 DEF RecallInv, StoreOK, Recall!Add, Recall!Update, Recall!Collection
  <1> QED BY <1>2, <1>4, <1>5, <1>6, <1>7, <1>8, RecallStarts

\* delete_memory_by_id deletes the row and owes the vector.
LEMMA RecallDeletes ==
    ASSUME RecallInv, NEW h \in Requests, NEW m \in Documents, Recall!Delete(h, m)
    PROVE  RecallInv'
  <1>. DEFINE r == [Recall!Idle EXCEPT !.at = "drop", !.about = {m}, !.drops = {m}]
  <1>2. Recall!Start(h, r) /\ remembered' = [remembered EXCEPT ![m] = 0]
    BY DEF Recall!Delete
  <1>4. r \in Recalls /\ r.at = "drop" /\ r.about = {m} /\ r.puts = {} /\ r.drops = {m}
    <2>1. {m} \in SUBSET Documents
      OBVIOUS
    <2>2. [Recall!Idle EXCEPT !.at = "drop"] \in Recalls
      BY RecallIdle, RecallFields
    <2>3. [[Recall!Idle EXCEPT !.at = "drop"] EXCEPT !.about = {m}] \in Recalls
      BY <2>1, <2>2, RecallFields
    <2>4. r \in Recalls
      BY <2>1, <2>3, RecallFields
    <2> QED BY <2>4, RecallIdle DEF Recalls
  <1>3. RecallOK(r)
    BY <1>4, RecallIdle DEF RecallOK
  <1>. HIDE DEF r
  <1>5. StoreOK'
    <2>1. astray' \subseteq Documents
      BY <1>2, <1>4, RecallAstray
    <2>2. /\ remembered' \in [Documents -> 0 .. MaxVersions]
          /\ \A x \in Documents : remembered'[x] # 0 => x \in known
      BY <1>2, VersionConstants DEF RecallInv, StoreOK
    <2>3. UNCHANGED <<known, exists, vectors>>
      BY DEF Recall!Delete, Recall!Collection
    <2> QED BY <2>1, <2>2, <2>3 DEF RecallInv, StoreOK, Recall!None
  <1>6. DueOf(r, remembered', vectors', m)
    BY <1>2, <1>4 DEF DueOf, RecallInv, StoreOK
  <1>7. \A x \in Documents \ r.about : remembered'[x] = remembered[x] /\ vectors'[x] = vectors[x]
    BY <1>2, <1>4 DEF RecallInv, StoreOK, Recall!Delete, Recall!Collection
  <1> QED BY <1>2, <1>3, <1>4, <1>5, <1>6, <1>7, RecallStarts

\* delete_memory_by_user_id and reset_memory_from_vector_db begin.
LEMMA RecallClears ==
    ASSUME RecallInv, NEW h \in Requests, Recall!DeleteAll(h) \/ Recall!Reset(h)
    PROVE  RecallInv'
  <1>0. PutIn({}) = {} /\ Recall!None \in [Documents -> 0 .. MaxVersions]
        /\ \A m \in Documents : Recall!None[m] = 0
    BY VersionConstants DEF PutIn, Recall!None
  <1>1. CASE Recall!DeleteAll(h)
    <2>. DEFINE r == [Recall!Idle EXCEPT !.at = "dropAll", !.about = Documents]
    <2>2. /\ Recall!Start(h, r) /\ remembered' = Recall!None
          /\ UNCHANGED <<known, exists, vectors>>
      BY <1>1 DEF Recall!DeleteAll, Recall!Collection
    <2>4. /\ r \in Recalls /\ r.at = "dropAll" /\ r.about = Documents
          /\ r.puts = {} /\ r.drops = {}
      <3>1. [Recall!Idle EXCEPT !.at = "dropAll"] \in Recalls
        BY RecallIdle, RecallFields
      <3>2. r \in Recalls
        BY <3>1, RecallFields
      <3> QED BY <3>2, RecallIdle DEF Recalls
    <2>3. RecallOK(r)
      BY <2>4, RecallIdle DEF RecallOK
    <2>. HIDE DEF r
    <2>5. StoreOK'
      <3>1. astray' \subseteq Documents
        BY <2>2, <2>4, RecallAstray
      <3> QED BY <1>0, <2>2, <3>1 DEF RecallInv, StoreOK
    <2>6. \A m \in r.about : DueOf(r, remembered', vectors', m)
      BY <1>0, <2>2, <2>4 DEF DueOf
    <2> QED BY <2>2, <2>3, <2>4, <2>5, <2>6, RecallStarts
  <1>2. CASE Recall!Reset(h)
    <2>. DEFINE r == [Recall!Idle EXCEPT !.at = "read", !.about = Documents]
    <2>2. /\ Recall!Start(h, r) /\ vectors' = Recall!None /\ exists' = FALSE
          /\ UNCHANGED <<remembered, known>>
      BY <1>2 DEF Recall!Reset, Recall!Table
    <2>4. /\ r \in Recalls /\ r.at = "read" /\ r.about = Documents
          /\ r.puts = {} /\ r.drops = {}
      <3>1. [Recall!Idle EXCEPT !.at = "read"] \in Recalls
        BY RecallIdle, RecallFields
      <3>2. r \in Recalls
        BY <3>1, RecallFields
      <3> QED BY <3>2, RecallIdle DEF Recalls
    <2>3. RecallOK(r)
      BY <2>4, RecallIdle DEF RecallOK
    <2>. HIDE DEF r
    <2>5. StoreOK'
      <3>1. astray' \subseteq Documents
        BY <2>2, <2>4, RecallAstray
      <3> QED BY <1>0, <2>2, <3>1 DEF RecallInv, StoreOK
    <2>6. \A m \in r.about : DueOf(r, remembered', vectors', m)
      BY <1>0, <2>2, <2>4 DEF DueOf
    <2> QED BY <2>2, <2>3, <2>4, <2>5, <2>6, RecallStarts
  <1> QED BY <1>1, <1>2

\* A transaction of a batch, and what it has done so far.
Transactions ==
    [rows : [Documents -> 0 .. MaxVersions], removed : SUBSET Documents,
     puts : SUBSET (Documents \X Recall!Texts), twice : BOOLEAN, drops : SUBSET Documents,
     refused : BOOLEAN]

BatchOK(s) ==
    /\ s \in Transactions
    /\ s.removed \subseteq s.drops /\ s.drops \subseteq known \cup PutIn(s.puts)
    /\ \A m \in Documents : s.rows[m] # 0 => m \in known \cup PutIn(s.puts)
    /\ \A m \in s.drops : m \in s.removed \/ s.rows[m] = 0
    /\ \A m \in Documents \ (s.drops \cup PutIn(s.puts)) : s.rows[m] = remembered[m]
    /\ s.twice \/ \A p \in s.puts : p[1] \in s.drops \/ p[2] = s.rows[p[1]]

\* One more row is written.
LEMMA PutInGrows ==
    ASSUME NEW puts, NEW m, NEW text
    PROVE  PutIn(puts \cup {<<m, text>>}) = PutIn(puts) \cup {m}
  <1>1. <<m, text>>[1] = m
    OBVIOUS
  <1> QED BY <1>1, Zenon DEF PutIn

\* An addition or a replacement.
LEMMA BatchWrites ==
    ASSUME RecallInv, NEW s, BatchOK(s), NEW m \in Documents, NEW text \in Recall!Texts,
           m \in s.drops => m \in s.removed,
           NEW v, v = IF m \in s.removed THEN 0 ELSE text,
           NEW u \in Transactions, u.rows = [Recall!Flushed(s) EXCEPT ![m] = v],
           u.removed = {}, u.puts = s.puts \cup {<<m, text>>}, u.drops = s.drops,
           u.twice \/ (~s.twice /\ m \notin PutIn(s.puts))
    PROVE  BatchOK(u)
  <1>1. PutIn(u.puts) = PutIn(s.puts) \cup {m}
    <2>1. PutIn(s.puts \cup {<<m, text>>}) = PutIn(s.puts) \cup {m}
      BY PutInGrows
    <2> QED BY <2>1
  <1>2. \A x \in Documents :
           u.rows[x] = IF x = m THEN v ELSE IF x \in s.removed THEN 0 ELSE s.rows[x]
    BY DEF Recall!Flushed
  <1>3. s.drops \subseteq Documents
    BY DEF BatchOK, Transactions
  <1>4. ASSUME NEW x \in Documents, u.rows[x] # 0
        PROVE  x \in known \cup PutIn(u.puts)
    BY <1>1, <1>2, <1>4 DEF BatchOK
  <1>5. \A x \in u.drops : u.rows[x] = 0
    BY <1>2, <1>3 DEF BatchOK
  <1>6. \A x \in Documents \ (u.drops \cup PutIn(u.puts)) : u.rows[x] = remembered[x]
    BY <1>1, <1>2 DEF BatchOK
  <1>7. ASSUME ~u.twice, NEW p \in u.puts, p[1] \notin u.drops
        PROVE  p[2] = u.rows[p[1]]
    <2>1. CASE p = <<m, text>>
      BY <1>2, <1>7, <2>1 DEF BatchOK
    <2>2. CASE p \in s.puts
      <3>1. p[1] \in Documents /\ p[1] # m
        BY <1>7, <2>2 DEF BatchOK, Transactions, PutIn
      <3>2. p[2] = s.rows[p[1]] /\ p[1] \notin s.removed
        BY <1>7, <2>2 DEF BatchOK
      <3> QED BY <1>2, <3>1, <3>2
    <2> QED BY <1>7, <2>1, <2>2
  <1>8. u.removed \subseteq u.drops /\ u.drops \subseteq known \cup PutIn(u.puts)
    BY <1>1 DEF BatchOK
  <1>9. u.twice \/ \A p \in u.puts : p[1] \in u.drops \/ p[2] = u.rows[p[1]]
    BY <1>7
  <1> QED BY <1>4, <1>5, <1>6, <1>8, <1>9 DEF BatchOK

\* What Written does to a transaction.
LEMMA WrittenFields ==
    ASSUME NEW s \in Transactions, NEW m \in Documents, NEW text \in Recall!Texts
    PROVE  LET w == Recall!Written(s, m, text)
           IN  /\ w \in Transactions
               /\ w.rows = [Recall!Flushed(s) EXCEPT ![m] = text]
               /\ w.removed = {} /\ w.puts = s.puts \cup {<<m, text>>} /\ w.drops = s.drops
               /\ w.twice \/ (~s.twice /\ m \notin PutIn(s.puts))
               /\ w.refused = s.refused
  <1>. DEFINE rows_ == [Recall!Flushed(s) EXCEPT ![m] = text]
              again == s.twice \/ \E p \in s.puts : p[1] = m
              more  == s.puts \cup {<<m, text>>}
  <1>1. Recall!Flushed(s) \in [Documents -> 0 .. MaxVersions]
    BY VersionConstants DEF Recall!Flushed, Transactions
  <1>2. rows_ \in [Documents -> 0 .. MaxVersions]
    BY <1>1 DEF Recall!Texts
  <1>3. again \in BOOLEAN /\ (again \/ (~s.twice /\ m \notin PutIn(s.puts)))
    BY DEF PutIn
  <1>4. more \in SUBSET (Documents \X Recall!Texts)
    BY DEF Transactions
  <1>5. Recall!Written(s, m, text) =
          [s EXCEPT !.rows = rows_, !.removed = {}, !.puts = more, !.twice = again]
    BY DEF Recall!Written, Transactions
  <1>. HIDE DEF rows_, again, more
  <1>6. Recall!Written(s, m, text) \in Transactions
    BY <1>2, <1>3, <1>4, <1>5 DEF Transactions
  <1>7. LET w == Recall!Written(s, m, text)
        IN  /\ w.rows = rows_ /\ w.removed = {} /\ w.puts = more /\ w.drops = s.drops
            /\ w.twice = again /\ w.refused = s.refused
    BY <1>5 DEF Transactions
  <1> QED BY <1>3, <1>6, <1>7 DEF rows_, more

\* One operation of a batch.
LEMMA BatchApplies ==
    ASSUME RecallInv, NEW s, BatchOK(s), NEW op \in Recall!Operations,
           op.action = "add" => op.id \notin known \cup PutIn(s.puts)
    PROVE  /\ BatchOK(Recall!Applied(s, op))
           /\ PutIn(Recall!Applied(s, op).puts) \subseteq PutIn(s.puts) \cup {op.id}
  <1>. DEFINE a == Recall!Applied(s, op)
              w == Recall!Written(s, op.id, op.text)
  <1>1. /\ op.id \in Documents /\ op.action \in {"add", "replace", "remove"}
        /\ op.action # "remove" => op.text \in Recall!Texts
        /\ s \in Transactions
    BY DEF Recall!Operations, BatchOK
  <1>2. CASE a = s
    BY <1>2
  <1>3. CASE op.action = "add" /\ a = w
    <2>1. op.id \notin s.drops /\ op.id \notin s.removed
      BY <1>3 DEF BatchOK
    <2>2. op.text \in Recall!Texts
      BY <1>1, <1>3
    <2>. HIDE DEF a, w
    <2>3. /\ w \in Transactions /\ w.rows = [Recall!Flushed(s) EXCEPT ![op.id] = op.text]
          /\ w.removed = {} /\ w.puts = s.puts \cup {<<op.id, op.text>>} /\ w.drops = s.drops
          /\ w.twice \/ (~s.twice /\ op.id \notin PutIn(s.puts))
      BY <1>1, <2>2, WrittenFields DEF w
    <2>4. BatchOK(w)
      BY <1>1, <2>1, <2>2, <2>3, BatchWrites
    <2>5. PutIn(s.puts \cup {<<op.id, op.text>>}) = PutIn(s.puts) \cup {op.id}
      BY PutInGrows
    <2>6. PutIn(w.puts) = PutIn(s.puts) \cup {op.id}
      BY <2>3, <2>5
    <2> QED BY <1>3, <2>4, <2>6 DEF a
  <1>4. CASE a = [s EXCEPT !.refused = TRUE]
    <2>1. /\ a \in Transactions /\ a.rows = s.rows /\ a.removed = s.removed
          /\ a.puts = s.puts /\ a.twice = s.twice /\ a.drops = s.drops
      BY <1>1, <1>4 DEF Transactions
    <2>. HIDE DEF a
    <2> QED BY <2>1 DEF BatchOK, a
  <1>5. CASE /\ s.rows[op.id] # 0
             /\ a = [s EXCEPT !.removed = @ \cup {op.id}, !.drops = @ \cup {op.id}]
    <2>1. /\ a \in Transactions /\ a.rows = s.rows /\ a.removed = s.removed \cup {op.id}
          /\ a.puts = s.puts /\ a.twice = s.twice /\ a.drops = s.drops \cup {op.id}
      <3>. DEFINE out == s.removed \cup {op.id}
                  off == s.drops \cup {op.id}
      <3>1. out \in SUBSET Documents /\ off \in SUBSET Documents
        BY <1>1 DEF Transactions
      <3>2. a = [s EXCEPT !.removed = out, !.drops = off]
        BY <1>1, <1>5 DEF Transactions
      <3>. HIDE DEF out, off, a
      <3>3. a \in Transactions
        BY <1>1, <3>1, <3>2 DEF Transactions
      <3>4. /\ a.rows = s.rows /\ a.removed = out /\ a.puts = s.puts /\ a.twice = s.twice
            /\ a.drops = off
        BY <1>1, <3>2 DEF Transactions
      <3> QED BY <3>3, <3>4 DEF out, off
    <2>2. op.id \in known \cup PutIn(s.puts)
      BY <1>1, <1>5 DEF BatchOK
    <2>. HIDE DEF a
    <2>3. BatchOK(a)
      BY <2>1, <2>2 DEF BatchOK
    <2> QED BY <2>1, <2>3 DEF a
  <1>6. CASE /\ s.rows[op.id] # 0 /\ op.action = "replace"
             /\ a = [w EXCEPT !.rows[op.id] = IF op.id \in s.removed THEN 0 ELSE op.text]
    <2>. DEFINE v == IF op.id \in s.removed THEN 0 ELSE op.text
    <2>1. op.text \in Recall!Texts /\ v \in 0 .. MaxVersions
      BY <1>1, <1>6, VersionConstants DEF Recall!Texts
    <2>. HIDE DEF w
    <2>3. /\ w \in Transactions /\ w.rows = [Recall!Flushed(s) EXCEPT ![op.id] = op.text]
          /\ w.removed = {} /\ w.puts = s.puts \cup {<<op.id, op.text>>} /\ w.drops = s.drops
          /\ w.twice \/ (~s.twice /\ op.id \notin PutIn(s.puts))
      BY <1>1, <2>1, WrittenFields DEF w
    <2>4. a = [w EXCEPT !.rows[op.id] = v]
      BY <1>6
    <2>. HIDE DEF v, a
    <2>5. /\ a.rows = [w.rows EXCEPT ![op.id] = v] /\ a.removed = w.removed /\ a.puts = w.puts
          /\ a.drops = w.drops /\ a.twice = w.twice
      BY <2>3, <2>4 DEF Transactions
    <2>6. a \in Transactions
      <3>1. [w.rows EXCEPT ![op.id] = v] \in [Documents -> 0 .. MaxVersions]
        BY <1>1, <2>1, <2>3 DEF Transactions
      <3>2. a = [w EXCEPT !.rows = [w.rows EXCEPT ![op.id] = v]]
        BY <2>3, <2>4 DEF Transactions
      <3>. DEFINE f == [w.rows EXCEPT ![op.id] = v]
      <3>. HIDE DEF f
      <3>3. [w EXCEPT !.rows = f] \in Transactions
        BY <2>3, <3>1 DEF Transactions, f
      <3> QED BY <3>2, <3>3 DEF f
    <2>7. a.rows = [Recall!Flushed(s) EXCEPT ![op.id] = v]
      BY <2>3, <2>5 DEF Recall!Flushed
    <2>8. op.id \in s.drops => op.id \in s.removed
      BY <1>6 DEF BatchOK
    <2>9. v = IF op.id \in s.removed THEN 0 ELSE op.text
      BY DEF v
    <2>10. /\ a.removed = {} /\ a.puts = s.puts \cup {<<op.id, op.text>>} /\ a.drops = s.drops
           /\ a.twice \/ (~s.twice /\ op.id \notin PutIn(s.puts))
      BY <2>3, <2>5
    <2>11. BatchOK(a)
      BY <1>1, <2>1, <2>6, <2>7, <2>8, <2>9, <2>10, BatchWrites
    <2>12. PutIn(s.puts \cup {<<op.id, op.text>>}) = PutIn(s.puts) \cup {op.id}
      BY PutInGrows
    <2>13. PutIn(a.puts) = PutIn(s.puts) \cup {op.id}
      BY <2>10, <2>12
    <2> QED BY <2>11, <2>13 DEF a
  <1>7. \/ a = s
        \/ op.action = "add" /\ a = w
        \/ a = [s EXCEPT !.refused = TRUE]
        \/ s.rows[op.id] # 0 /\ a = [s EXCEPT !.removed = @ \cup {op.id}, !.drops = @ \cup {op.id}]
        \/ /\ s.rows[op.id] # 0 /\ op.action = "replace"
           /\ a = [w EXCEPT !.rows[op.id] = IF op.id \in s.removed THEN 0 ELSE op.text]
    BY <1>1 DEF Recall!Applied
  <1> QED BY <1>2, <1>3, <1>4, <1>5, <1>6, <1>7

\* A transaction begins with the rows that are there.
LEMMA BatchBegins ==
    ASSUME RecallInv
    PROVE  BatchOK(Recall!Begun) /\ PutIn(Recall!Begun.puts) = {}
  <1>1. Recall!Begun \in Transactions
    BY DEF Recall!Begun, Transactions, RecallInv, StoreOK
  <1>2. /\ Recall!Begun.rows = remembered /\ Recall!Begun.removed = {} /\ Recall!Begun.puts = {}
        /\ Recall!Begun.drops = {} /\ Recall!Begun.twice = FALSE
    BY DEF Recall!Begun
  <1>3. PutIn({}) = {}
    BY RecallIdle
  <1>4. PutIn(Recall!Begun.puts) = {}
    BY <1>2, <1>3
  <1> QED BY <1>1, <1>2, <1>4 DEF BatchOK, RecallInv, StoreOK

\* A batch is committed.
LEMMA RecallBatches ==
    ASSUME RecallInv, NEW h \in Requests, NEW s, BatchOK(s), Recall!Batch(h, s)
    PROVE  RecallInv'
  <1>. DEFINE put == {p[1] : p \in s.puts}
              r == [Recall!Idle EXCEPT !.at = "embed", !.about = s.drops \cup put,
                                       !.puts = s.puts, !.twice = s.twice, !.drops = s.drops]
  <1>0. put = PutIn(s.puts) /\ s \in Transactions
    BY DEF PutIn, BatchOK
  <1>1. /\ Recall!Start(h, r)
        /\ remembered' = Recall!Flushed(s) /\ known' = known \cup put
        /\ UNCHANGED <<exists, vectors>>
    BY DEF Recall!Batch, Recall!Collection
  <1>2. s.drops \subseteq Documents /\ put \subseteq Documents
    BY <1>0 DEF Transactions, PutIn
  <1>3. /\ r \in Recalls /\ r.at = "embed" /\ r.about = s.drops \cup put
        /\ r.puts = s.puts /\ r.twice = s.twice /\ r.drops = s.drops
    <2>1. s.drops \cup put \in SUBSET Documents
      BY <1>2
    <2>. DEFINE x == [[[Recall!Idle EXCEPT !.at = "embed"] EXCEPT !.about = s.drops \cup put]
                        EXCEPT !.drops = s.drops]
    <2>2. [Recall!Idle EXCEPT !.at = "embed"] \in Recalls
      BY RecallIdle, RecallFields
    <2>3. [[Recall!Idle EXCEPT !.at = "embed"] EXCEPT !.about = s.drops \cup put] \in Recalls
      BY <2>1, <2>2, RecallFields
    <2>. HIDE DEF put
    <2>4. x \in Recalls
      BY <1>2, <2>3, RecallFields
    <2>5. [x EXCEPT !.puts = s.puts, !.twice = s.twice] \in Recalls
      BY <1>0, <2>4 DEF Recalls, Transactions
    <2> QED BY <2>5, RecallIdle DEF Recalls
  <1>. HIDE DEF r, put
  <1>4. RecallOK(r)
    BY <1>0, <1>3 DEF RecallOK
  <1>5. \A m \in Documents : remembered'[m] = IF m \in s.removed THEN 0 ELSE s.rows[m]
    BY <1>1 DEF Recall!Flushed
  <1>6. StoreOK'
    <2>1. astray' \subseteq Documents
      BY <1>1, <1>2, <1>3, RecallAstray
    <2>2. remembered' \in [Documents -> 0 .. MaxVersions]
      BY <1>0, <1>1, VersionConstants DEF Recall!Flushed, Transactions
    <2>3. ASSUME NEW m \in Documents, remembered'[m] # 0
          PROVE  m \in known'
      BY <1>0, <1>1, <1>5, <2>3 DEF BatchOK
    <2>4. known' \subseteq Documents
      BY <1>1, <1>2 DEF RecallInv, StoreOK
    <2> QED BY <1>1, <2>1, <2>2, <2>3, <2>4 DEF RecallInv, StoreOK, Recall!None
  <1>7. ASSUME NEW m \in Documents \ r.about
        PROVE  remembered'[m] = remembered[m] /\ vectors'[m] = vectors[m]
    BY <1>0, <1>1, <1>3, <1>5 DEF BatchOK
  <1>8. ASSUME NEW m \in r.about
        PROVE  DueOf(r, remembered', vectors', m)
    <2>1. m \in Documents
      BY <1>2, <1>3
    <2>2. CASE s.twice
      BY <1>3, <2>2 DEF DueOf
    <2>3. CASE m \in s.drops
      <3>1. remembered'[m] = 0
        BY <1>5, <2>1, <2>3 DEF BatchOK
      <3> QED BY <1>3, <2>3, <3>1 DEF DueOf
    <2>4. CASE ~s.twice /\ m \notin s.drops
      <3>1. m \in PutIn(r.puts) /\ m \notin s.removed
        BY <1>0, <1>3, <1>8, <2>4 DEF BatchOK
      <3>2. \A p \in r.puts : p[1] = m => p[2] = remembered'[m]
        BY <1>3, <1>5, <2>1, <2>4, <3>1 DEF BatchOK
      <3> QED BY <1>3, <2>4, <3>1, <3>2 DEF DueOf
    <2> QED BY <2>2, <2>3, <2>4
  <1> QED BY <1>1, <1>3, <1>4, <1>6, <1>7, <1>8, RecallStarts

\* A batch of one operation (apply_memory_operations).
LEMMA RecallBatchOfOne ==
    ASSUME RecallInv, NEW h \in Requests, NEW op \in Recall!Operations, Recall!BatchOfOne(h, op)
    PROVE  RecallInv'
  <1>1. BatchOK(Recall!Begun) /\ PutIn(Recall!Begun.puts) = {}
    BY BatchBegins
  <1>2. op.action = "add" => op.id \notin known \cup PutIn(Recall!Begun.puts)
    BY <1>1 DEF Recall!BatchOfOne, Recall!New
  <1>3. BatchOK(Recall!Applied(Recall!Begun, op))
    BY <1>1, <1>2, BatchApplies
  <1>4. Recall!Batch(h, Recall!Applied(Recall!Begun, op))
    BY DEF Recall!BatchOfOne
  <1> QED BY <1>3, <1>4, RecallBatches

\* A batch of two operations, each with what the other has done.
LEMMA RecallBatchOfTwo ==
    ASSUME RecallInv, NEW h \in Requests,
           NEW one \in Recall!Operations, NEW two \in Recall!Operations,
           Recall!BatchOfTwo(h, one, two)
    PROVE  RecallInv'
  <1>. DEFINE s == Recall!Applied(Recall!Begun, one)
  <1>1. BatchOK(Recall!Begun) /\ PutIn(Recall!Begun.puts) = {}
    BY BatchBegins
  <1>2. /\ one.action = "add" => one.id \notin known
        /\ two.action = "add" => two.id \notin known /\ two.id # one.id
        /\ Recall!Batch(h, Recall!Applied(s, two))
    BY DEF Recall!BatchOfTwo, Recall!New
  <1>3. BatchOK(s) /\ PutIn(s.puts) \subseteq PutIn(Recall!Begun.puts) \cup {one.id}
    BY <1>1, <1>2, BatchApplies
  <1>. HIDE DEF s
  <1>4. BatchOK(Recall!Applied(s, two))
    BY <1>1, <1>2, <1>3, BatchApplies
  <1> QED BY <1>2, <1>4, RecallBatches

\* A reset reads the rows that it is to embed.
LEMMA RecallReads ==
    ASSUME RecallInv, NEW h \in Requests, Recall!Read(h)
    PROVE  RecallInv'
  <1>. DEFINE puts == {<<m, remembered[m]>> : m \in {x \in Documents : remembered[x] # 0}}
              r == [recall[h] EXCEPT !.at = "embed", !.puts = puts]
  <1>1. /\ recall[h].at = "read" /\ recall' = [recall EXCEPT ![h] = r]
        /\ UNCHANGED <<remembered, known, exists, vectors, astray>>
    BY DEF Recall!Read, Recall!Table, Recall!Collection
  <1>2. /\ h \in Recall!Busy /\ recall[h] \in Recalls
        /\ recall[h].about = Documents /\ recall[h].drops = {}
    BY <1>1 DEF Recall!Busy, RecallInv, RecallsOK, RecallOK
  <1>3. puts \in SUBSET (Documents \X Recall!Texts)
    BY VersionConstants DEF RecallInv, StoreOK, Recall!Texts
  <1>4. PutIn(puts) = {x \in Documents : remembered[x] # 0}
    <2>1. ASSUME NEW x \in Documents, remembered[x] # 0
          PROVE  x \in PutIn(puts)
      <3>1. <<x, remembered[x]>> \in puts /\ <<x, remembered[x]>>[1] = x
        BY <2>1
      <3>. HIDE DEF puts
      <3> QED BY <3>1, Zenon DEF PutIn
    <2>2. ASSUME NEW x \in PutIn(puts)
          PROVE  x \in Documents /\ remembered[x] # 0
      <3>1. PICK p \in puts : x = p[1]
        BY Zenon DEF PutIn
      <3> QED BY <3>1
    <2> QED BY <2>1, <2>2
  <1>5. \A p \in puts : p[2] = remembered[p[1]]
    OBVIOUS
  <1>. HIDE DEF puts
  <1>6. r \in Recalls
    <2>1. [recall[h] EXCEPT !.at = "embed"] \in Recalls
      BY <1>2, RecallFields
    <2>2. [[recall[h] EXCEPT !.at = "embed"] EXCEPT !.puts = puts] \in Recalls
      BY <1>3, <2>1, RecallFields
    <2> QED BY <2>2
  <1>7. /\ r.at = "embed" /\ r.about = recall[h].about /\ r.puts = puts
        /\ r.drops = {} /\ r.alone = recall[h].alone
    BY <1>2 DEF Recalls
  <1>. HIDE DEF r
  <1>8. RecallOK(r)
    BY <1>2, <1>4, <1>6, <1>7 DEF RecallOK
  <1>9. ASSUME NEW m \in Charge(recall[h])
        PROVE  DueOf(r, remembered, vectors', m)
    <2>1. m \in Documents /\ vectors[m] = 0
      BY <1>1, <1>2 DEF RecallInv, AllDue, DueOf, Charge
    <2>2. m \in PutIn(puts) => \A p \in puts : p[1] = m => p[2] = remembered[m]
      BY <1>5
    <2>3. m \notin PutIn(puts) => vectors'[m] = remembered[m]
      BY <1>1, <1>4, <2>1
    <2> QED BY <1>7, <2>2, <2>3 DEF DueOf
  <1>10. StoreOK'
    BY <1>1 DEF RecallInv, StoreOK, Recall!None
  <1> QED BY <1>1, <1>2, <1>6, <1>7, <1>8, <1>9, <1>10, RecallMoves

\* A request fails.
LEMMA RecallFails ==
    ASSUME RecallInv, NEW h \in Requests,
           Recall!EmbedFails(h) \/ Recall!UpsertRefused(h) \/ Recall!Die(h)
    PROVE  RecallInv'
  <1>1. /\ h \in Recall!Busy /\ Recall!End(h) /\ astray' = astray \cup recall[h].about
        /\ UNCHANGED <<remembered, known, vectors>> /\ (exists' = exists \/ exists' = TRUE)
    BY DEF Recall!EmbedFails, Recall!UpsertRefused, Recall!Die, Recall!Fail, Recall!Table,
           Recall!Collection, Recall!Busy
  <1>2. recall[h].about \subseteq Documents
    BY DEF RecallInv, RecallsOK, Recalls
  <1>3. /\ exists' \in BOOLEAN /\ (~exists' => vectors = Recall!None)
        /\ astray' \subseteq Documents
    <2>1. exists \in BOOLEAN /\ (~exists => vectors = Recall!None) /\ astray \subseteq Documents
      BY DEF RecallInv, StoreOK
    <2>2. CASE exists' = exists
      BY <1>1, <1>2, <2>1, <2>2
    <2>3. CASE exists' = TRUE
      BY <1>1, <1>2, <2>1, <2>3
    <2> QED BY <1>1, <2>2, <2>3
  <1>4. StoreOK'
    BY <1>1, <1>3 DEF RecallInv, StoreOK, Recall!None
  <1> QED BY <1>1, <1>4, RecallEnds

\* What a request puts into the collection.
LEMMA RecallPut ==
    ASSUME RecallInv, NEW h \in Requests
    PROVE  /\ Recall!Put(h) \in [Documents -> 0 .. MaxVersions]
           /\ \A m \in Documents \ PutIn(recall[h].puts) : Recall!Put(h)[m] = vectors[m]
           /\ \A m \in Documents \cap PutIn(recall[h].puts) :
                 \E p \in recall[h].puts : p[1] = m /\ Recall!Put(h)[m] = p[2]
           /\ recall[h].puts = {} => Recall!Put(h) = vectors
  <1>1. recall[h].puts \in SUBSET (Documents \X Recall!Texts)
    BY DEF RecallInv, RecallsOK, Recalls
  <1>2. \A p \in recall[h].puts : p[2] \in 0 .. MaxVersions
    BY <1>1, VersionConstants DEF Recall!Texts
  <1>3. vectors \in [Documents -> 0 .. MaxVersions]
    BY DEF RecallInv, StoreOK
  <1>4. ASSUME NEW m \in Documents, m \notin PutIn(recall[h].puts)
        PROVE  Recall!Put(h)[m] = vectors[m]
    BY <1>4 DEF Recall!Put, PutIn
  <1>5. ASSUME NEW m \in Documents, m \in PutIn(recall[h].puts)
        PROVE  \E p \in recall[h].puts : p[1] = m /\ Recall!Put(h)[m] = p[2]
    <2>1. \E p \in recall[h].puts : p[1] = m
      BY <1>5 DEF PutIn
    <2>. DEFINE p == CHOOSE x \in recall[h].puts : x[1] = m
    <2>2. p \in recall[h].puts /\ p[1] = m
      BY <2>1
    <2>3. Recall!Put(h)[m] = p[2]
      BY <2>1 DEF Recall!Put
    <2> QED BY <2>2, <2>3
  <1>6. \A m \in Documents : Recall!Put(h)[m] \in 0 .. MaxVersions
    BY <1>2, <1>3, <1>4, <1>5
  <1>7. Recall!Put(h) = [m \in Documents |-> Recall!Put(h)[m]]
    BY DEF Recall!Put
  <1>8. ASSUME recall[h].puts = {}
        PROVE  Recall!Put(h) = vectors
    BY <1>3, <1>8 DEF Recall!Put
  <1> QED BY <1>4, <1>5, <1>6, <1>7, <1>8

\* The collection takes what has been embedded.
LEMMA RecallUpserts ==
    ASSUME RecallInv, NEW h \in Requests, Recall!Upsert(h)
    PROVE  RecallInv'
  <1>1. /\ recall[h].at = "embed" /\ ~recall[h].twice /\ vectors' = Recall!Put(h)
        /\ exists' \in BOOLEAN /\ (~exists' => ~exists /\ recall[h].puts = {})
        /\ UNCHANGED <<remembered, known>>
    BY DEF Recall!Upsert, Recall!Table, RecallInv, StoreOK
  <1>2. /\ h \in Recall!Busy /\ recall[h] \in Recalls /\ RecallOK(recall[h])
    BY <1>1 DEF Recall!Busy, RecallInv, RecallsOK
  <1>3. ASSUME NEW m \in Charge(recall[h])
        PROVE  /\ m \in recall[h].drops => remembered[m] = 0
               /\ m \notin recall[h].drops => vectors'[m] = remembered[m]
    <2>1. m \in Documents
      BY <1>2 DEF Charge, Recalls
    <2>2. DueOf(recall[h], remembered, vectors, m)
      BY <1>2 DEF RecallInv, AllDue
    <2> QED BY <1>1, <2>1, <2>2, RecallPut DEF DueOf
  <1>4. \A m \in Documents \ recall[h].about : vectors'[m] = vectors[m]
    BY <1>1, <1>2, RecallPut DEF RecallOK
  <1>5. astray' \subseteq Documents => StoreOK'
    BY <1>1, RecallPut DEF RecallInv, StoreOK, Recall!None
  <1>6. CASE recall[h].drops # {}
    <2>. DEFINE r == [recall[h] EXCEPT !.at = "drop"]
    <2>1. recall' = [recall EXCEPT ![h] = r] /\ astray' = astray
      BY <1>6 DEF Recall!Upsert, Recall!Goto
    <2>2. /\ r \in Recalls /\ r.at = "drop" /\ r.about = recall[h].about
          /\ r.puts = recall[h].puts /\ r.drops = recall[h].drops /\ r.alone = recall[h].alone
      BY <1>2 DEF Recalls
    <2>. HIDE DEF r
    <2>3. RecallOK(r)
      BY <1>2, <2>2 DEF RecallOK
    <2>4. \A m \in Charge(recall[h]) : DueOf(r, remembered, vectors', m)
      BY <1>3, <2>2 DEF DueOf
    <2>5. StoreOK'
      BY <1>5, <2>1 DEF RecallInv, StoreOK
    <2> QED BY <1>1, <1>2, <1>4, <2>1, <2>2, <2>3, <2>4, <2>5, RecallMoves
  <1>7. CASE recall[h].drops = {}
    <2>1. Recall!End(h) /\ Recall!Settled(h)
      BY <1>7 DEF Recall!Upsert
    <2>2. astray' = astray \/ (Whole(recall[h]) /\ astray' = {})
      BY <2>1 DEF Recall!Settled, Whole
    <2>3. \A m \in Charge(recall[h]) : vectors'[m] = remembered[m]
      BY <1>3, <1>7
    <2>4. StoreOK'
      BY <1>5, <2>2 DEF RecallInv, StoreOK
    <2> QED BY <1>1, <1>2, <1>4, <2>1, <2>2, <2>3, <2>4, RecallEnds
  <1> QED BY <1>6, <1>7

\* Vectors of deleted memories are deleted.
LEMMA RecallDrops ==
    ASSUME RecallInv, NEW h \in Requests, Recall!Drop(h)
    PROVE  RecallInv'
  <1>1. /\ recall[h].at = "drop" /\ Recall!End(h)
        /\ vectors' = [m \in Documents |-> IF m \in recall[h].drops THEN 0 ELSE vectors[m]]
        /\ UNCHANGED <<remembered, known, exists, astray>>
    BY DEF Recall!Drop, Recall!Table
  <1>2. h \in Recall!Busy /\ recall[h] \in Recalls /\ RecallOK(recall[h])
    BY <1>1 DEF Recall!Busy, RecallInv, RecallsOK
  <1>3. ASSUME NEW m \in Charge(recall[h])
        PROVE  vectors'[m] = remembered[m]
    <2>1. m \in Documents
      BY <1>2 DEF Charge, Recalls
    <2>2. DueOf(recall[h], remembered, vectors, m)
      BY <1>2 DEF RecallInv, AllDue
    <2> QED BY <1>1, <2>1, <2>2 DEF DueOf
  <1>4. \A m \in Documents \ recall[h].about : vectors'[m] = vectors[m]
    BY <1>1, <1>2 DEF RecallOK
  <1>5. vectors' \in [Documents -> 0 .. MaxVersions]
        /\ (vectors = Recall!None => vectors' = vectors)
    BY <1>1, VersionConstants DEF RecallInv, StoreOK, Recall!None
  <1>6. StoreOK'
    BY <1>1, <1>5 DEF RecallInv, StoreOK, Recall!None
  <1> QED BY <1>1, <1>2, <1>3, <1>4, <1>6, RecallEnds

\* The collection is deleted.
LEMMA RecallDropsAll ==
    ASSUME RecallInv, NEW h \in Requests, Recall!DropAll(h)
    PROVE  RecallInv'
  <1>1. /\ recall[h].at = "dropAll" /\ Recall!End(h) /\ Recall!Settled(h)
        /\ vectors' = Recall!None /\ exists' = FALSE
        /\ UNCHANGED <<remembered, known>>
    BY DEF Recall!DropAll, Recall!Table
  <1>2. h \in Recall!Busy /\ RecallOK(recall[h]) /\ recall[h].about = Documents
    BY <1>1 DEF Recall!Busy, RecallInv, RecallsOK, RecallOK
  <1>3. /\ Recall!None \in [Documents -> 0 .. MaxVersions]
        /\ \A m \in Documents : Recall!None[m] = 0
    BY VersionConstants DEF Recall!None
  <1>4. ASSUME NEW m \in Charge(recall[h])
        PROVE  vectors'[m] = remembered[m]
    BY <1>1, <1>2, <1>3 DEF RecallInv, AllDue, DueOf, Charge
  <1>5. astray' = astray \/ (Whole(recall[h]) /\ astray' = {})
    BY <1>1 DEF Recall!Settled, Whole
  <1>6. StoreOK'
    BY <1>1, <1>3, <1>5 DEF RecallInv, StoreOK, Recall!None
  <1> QED BY <1>1, <1>2, <1>4, <1>5, <1>6, RecallEnds

\* No request runs at first, and the collection has a vector for each row.
LEMMA RecallInit == Recall!Init => RecallInv
  <1>. SUFFICES ASSUME Recall!Init PROVE RecallInv
    OBVIOUS
  <1>1. /\ recall = [h \in Requests |-> Recall!Idle]
        /\ known \in SUBSET Documents /\ remembered \in [Documents -> 0 .. MaxVersions]
        /\ \A m \in Documents : remembered[m] # 0 <=> m \in known
        /\ vectors = remembered /\ exists = (known # {}) /\ astray = {}
    BY DEF Recall!Init
  <1>2. recall \in [Requests -> Recalls] /\ \A h \in Requests : recall[h] = Recall!Idle
    BY <1>1, RecallIdle
  <1>3. Recall!Busy = {}
    BY <1>2, RecallIdle DEF Recall!Busy
  <1>4. RecallOK(Recall!Idle)
    BY RecallIdle DEF RecallOK
  <1>5. StoreOK
    <2>1. known = {} => remembered = Recall!None
      BY <1>1 DEF Recall!None
    <2> QED BY <1>1, <2>1 DEF StoreOK
  <1>6. RecallsOK
    BY <1>2, <1>4 DEF RecallsOK
  <1> QED BY <1>1, <1>3, <1>5, <1>6 DEF RecallInv, OneEach, AllDue, Recall!MemoriesAgree

\* Each step, of any number of requests at once.
LEMMA RecallNext == RecallInv /\ [Recall!Next]_memories => RecallInv'
  <1>. SUFFICES ASSUME RecallInv, [Recall!Next]_memories PROVE RecallInv'
    OBVIOUS
  <1>1. CASE UNCHANGED memories
    BY <1>1 DEF memories, RecallInv, StoreOK, RecallsOK, OneEach, AllDue, Charge, Whole,
                Recall!MemoriesAgree, Recall!Busy, Recall!None
  <1>2. ASSUME NEW h \in Requests,
               \/ \E m \in Documents, text \in Recall!Texts :
                     Recall!Add(h, m, text) \/ Recall!Update(h, m, text)
               \/ \E m \in Documents : Recall!Delete(h, m)
               \/ \E one \in Recall!Operations : Recall!BatchOfOne(h, one)
               \/ \E one \in Recall!Operations, two \in Recall!Operations :
                     Recall!BatchOfTwo(h, one, two)
               \/ Recall!DeleteAll(h) \/ Recall!Reset(h)
        PROVE  RecallInv'
    BY <1>2, RecallPuts, RecallDeletes, RecallBatchOfOne, RecallBatchOfTwo, RecallClears
  <1>3. ASSUME NEW h \in Requests,
               \/ Recall!Read(h) \/ Recall!EmbedFails(h) \/ Recall!Upsert(h)
               \/ Recall!UpsertRefused(h) \/ Recall!Drop(h) \/ Recall!DropAll(h) \/ Recall!Die(h)
        PROVE  RecallInv'
    BY <1>3, RecallReads, RecallFails, RecallUpserts, RecallDrops, RecallDropsAll
  <1> QED BY <1>1, <1>2, <1>3 DEF Recall!Next

\* A memory that no request is about is found by query_memory with the text of
\* its row, or not at all if it is deleted, for any number of memories, texts
\* and requests, whatever they did at once and whichever of them failed.
THEOREM MemoriesFound == MCSpec => []MemoriesAgree
  <1>1. MCInit => RecallInv
    BY RecallInit DEF MCInit
  <1>2. RecallInv /\ [MCNext]_<<part, vars, branch, turn, register, tokens, limiter, tree, index,
                                memories>> => RecallInv'
    BY RecallNext DEF MCNext
  <1>3. RecallInv => MemoriesAgree
    BY DEF RecallInv, MemoriesAgree, Of
  <1> QED BY <1>1, <1>2, <1>3, PTL DEF MCSpec

-----------------------------------------------------------------------------
(* Accounts.                                                               *)

\* What a request about accounts is doing.
Signing ==
    [kind : {"none", "signup", "external", "delete", "user", "admin", "edit"},
     at : {"idle", "lookup", "insert", "insertAuth", "count", "promote", "close", "setRole",
           "editAuth", "editUser", "deleteUser", "deleteAuth"},
     id : Nat, email : Emails \cup {"none"}, seen : Nat]

Addressed(r) ==
    /\ r.id <= accounts
    /\ r.at \in {"lookup", "insert", "insertAuth", "editAuth", "editUser"} => r.email \in Emails
    /\ r.at = "insertAuth" => r.id # 0

AccountsOK ==
    /\ accounts \in Nat
    /\ users = [u \in DOMAIN users |-> users[u]] /\ DOMAIN users \subseteq 1 .. accounts
    /\ auths = [u \in DOMAIN auths |-> auths[u]] /\ DOMAIN auths \subseteq 1 .. accounts
    /\ \A u \in DOMAIN users : users[u] \in [email : Emails, role : {"user", "admin"}]
    /\ handler \in [Requests -> Signing]
    /\ \A h \in Requests : Addressed(handler[h])

\* Who is to be promoted, deleted or given a role, and who is the first.
Entitled(r) ==
    /\ r.at = "promote" /\ r.id \in DOMAIN users => r.id = Register!Primary
    /\ r.at = "deleteUser" => DOMAIN users # {} /\ r.id # Register!Primary
    /\ r.at = "setRole" =>
          /\ DOMAIN users # {} /\ r.kind \in {"user", "admin"}
          /\ r.id = Register!Primary => r.kind = "admin"

PrimaryOK ==
    /\ bootstrapped # {} => DOMAIN users # {}
    /\ \A u \in bootstrapped : u = Register!Primary
    /\ \A h \in Requests : Entitled(handler[h])

\* The addresses of users are different, and those of their credentials.
Unique == \A u, v \in DOMAIN users : users[u].email = users[v].email => u = v
Agreed(u) == u \in DOMAIN auths /\ auths[u] = users[u].email
Led == DOMAIN users # {} => users[Register!Primary].role = "admin"

\* Where a request stands that runs by itself.
Stage(r) ==
    /\ Unique
    /\ \A u \in DOMAIN users :
          (u = r.id /\ r.at \in {"insertAuth", "editUser"}) \/ Agreed(u)
    /\ r.at \notin {"insertAuth", "deleteAuth"} => DOMAIN auths = DOMAIN users
    /\ r.at \notin {"insertAuth", "count", "promote"} => Led
    /\ r.at \in {"insert", "editAuth", "editUser"} => Register!Named(r.email) = {}
    /\ r.at = "insertAuth" =>
          /\ r.id \in DOMAIN users /\ DOMAIN auths = DOMAIN users \ {r.id}
          /\ users[r.id].email = r.email
    /\ r.at \in {"insertAuth", "count"} => DOMAIN users = {r.id} \/ Led
    /\ r.at = "promote" => DOMAIN users = {r.id}
    /\ r.at \in {"count", "editAuth", "editUser", "deleteUser"} => r.id \in DOMAIN users
    /\ r.at = "editUser" => auths[r.id] = r.email
    /\ r.at = "deleteAuth" =>
          DOMAIN auths = DOMAIN users \cup {r.id} /\ r.id \notin DOMAIN users

Resting ==
    Unique /\ Led /\ DOMAIN auths = DOMAIN users /\ \A u \in DOMAIN users : Agreed(u)

InTurn ==
    ~crossed =>
        /\ Register!Busy = {} => Resting
        /\ \A h, g \in Register!Busy : h = g
        /\ \A h \in Register!Busy : Stage(handler[h])

RegisterInv == AccountsOK /\ PrimaryOK /\ InTurn

\* The least user.
LEMMA LeastUser ==
    ASSUME NEW S \in SUBSET Nat, S # {}
    PROVE  Register!Min(S) \in S /\ \A x \in S : Register!Min(S) <= x
  <1>1. PICK m \in S : \A y \in S : <<y, m>> \notin OpToRel(<, Nat)
    BY WFMin, NatLessThanWellFounded, Zenon
  <1>2. \A y \in S : ~(y < m)
    BY <1>1, Zenon DEF OpToRel
  <1>3. \A y \in S : m <= y
    BY <1>2
  <1> QED BY <1>3 DEF Register!Min

\* The primary user stays the primary one: users that come are younger.
LEMMA PrimaryFixed ==
    ASSUME AccountsOK, DOMAIN users # {}, NEW D \in SUBSET Nat, Register!Primary \in D,
           \A x \in D : x \in DOMAIN users \/ x > accounts
    PROVE  Register!Min(D) = Register!Primary
  <1>1. /\ Register!Primary \in DOMAIN users /\ \A x \in DOMAIN users : Register!Primary <= x
        /\ Register!Primary \in Nat /\ Register!Primary <= accounts /\ accounts \in Nat
    BY LeastUser DEF AccountsOK, Register!Primary
  <1>2. Register!Min(D) \in D /\ Register!Min(D) <= Register!Primary /\ Register!Min(D) \in Nat
    BY LeastUser
  <1> QED BY <1>1, <1>2

\* The primary user is the first of those there are (get_first_user).
LEMMA PrimaryIs ==
    ASSUME AccountsOK, DOMAIN users # {}
    PROVE  /\ Register!Primary \in DOMAIN users
           /\ \A x \in DOMAIN users : Register!Primary <= x
  BY LeastUser DEF AccountsOK, Register!Primary

\* A request goes on, or ends.
LEMMA SigningGoes ==
    ASSUME AccountsOK, NEW h \in Requests,
           NEW a \in {"idle", "lookup", "insert", "insertAuth", "count", "promote", "close",
                      "setRole", "editAuth", "editUser", "deleteUser", "deleteAuth"},
           handler' = [handler EXCEPT ![h].at = a]
    PROVE  /\ handler' \in [Requests -> Signing]
           /\ handler'[h].at = a /\ handler'[h].kind = handler[h].kind
           /\ handler'[h].id = handler[h].id /\ handler'[h].email = handler[h].email
           /\ \A x \in Requests : x # h => handler'[x] = handler[x]
  <1>. DEFINE r == [handler[h] EXCEPT !.at = a]
  <1>1. handler[h] \in Signing /\ handler \in [Requests -> Signing]
    BY DEF AccountsOK
  <1>2. /\ r \in Signing /\ r.at = a /\ r.kind = handler[h].kind /\ r.id = handler[h].id
        /\ r.email = handler[h].email
    BY <1>1 DEF Signing
  <1>3. handler' = [handler EXCEPT ![h] = r]
    BY <1>1
  <1>. HIDE DEF r
  <1> QED BY <1>1, <1>2, <1>3

\* A request has been answered, or its instance is gone.
LEMMA SigningEnds ==
    ASSUME AccountsOK, NEW h \in Requests, Register!End(h)
    PROVE  /\ handler' \in [Requests -> Signing] /\ handler'[h].at = "idle" /\ handler'[h].id = 0
           /\ \A x \in Requests : x # h => handler'[x] = handler[x]
  <1>1. Register!Idle \in Signing /\ Register!Idle.at = "idle" /\ Register!Idle.id = 0
    BY DEF Register!Idle, Signing
  <1> QED BY <1>1 DEF AccountsOK, Register!End

\* get_num_users counts the users there are.
LEMMA UsersFinite ==
    ASSUME AccountsOK
    PROVE  /\ IsFiniteSet(DOMAIN users) /\ Register!Cardinality(DOMAIN users) \in Nat
           /\ Register!Cardinality(DOMAIN users) = Cardinality(DOMAIN users)
  <1>1. IsFiniteSet(1 .. accounts)
    BY FS_Interval DEF AccountsOK
  <1>2. IsFiniteSet(DOMAIN users)
    BY <1>1, FS_Subset DEF AccountsOK
  <1>3. Register!Cardinality(DOMAIN users) = Cardinality(DOMAIN users)
    BY DEF Register!Cardinality, Cardinality
  <1> QED BY <1>2, <1>3, FS_CardinalityType

\* What a request is given when it passes its first checks.
LEMMA SigningStarts ==
    ASSUME AccountsOK, NEW h \in Requests,
           NEW kind \in {"signup", "external", "delete", "user", "admin", "edit"},
           NEW a \in {"lookup", "setRole", "editAuth", "deleteUser"},
           NEW id \in Nat, NEW email \in Emails \cup {"none"},
           Register!Start(h, kind, a, id, email)
    PROVE  /\ handler' \in [Requests -> Signing]
           /\ handler'[h].at = a /\ handler'[h].kind = kind /\ handler'[h].id = id
           /\ handler'[h].email = email /\ h \notin Register!Busy
           /\ \A x \in Requests : x # h => handler'[x] = handler[x]
           /\ crossed' = (crossed \/ Register!Busy # {})
           /\ UNCHANGED <<users, auths, accounts, bootstrapped>>
  <1>. DEFINE r == [kind |-> kind, at |-> a, id |-> id, email |-> email,
                    seen |-> Register!Cardinality(DOMAIN users)]
  <1>1. r \in Signing
    <2>. DEFINE n == Register!Cardinality(DOMAIN users)
    <2>1. n \in Nat
      BY UsersFinite
    <2>. HIDE DEF n
    <2>2. kind \in {"none", "signup", "external", "delete", "user", "admin", "edit"}
      OBVIOUS
    <2>3. a \in {"idle", "lookup", "insert", "insertAuth", "count", "promote", "close",
                 "setRole", "editAuth", "editUser", "deleteUser", "deleteAuth"}
      OBVIOUS
    <2>4. [kind |-> kind, at |-> a, id |-> id, email |-> email, seen |-> n] \in Signing
      BY <2>1, <2>2, <2>3 DEF Signing
    <2> QED BY <2>4 DEF n
  <1>2. handler' = [handler EXCEPT ![h] = r]
    BY DEF Register!Start
  <1>3. r.at = a /\ r.kind = kind /\ r.id = id /\ r.email = email
    OBVIOUS
  <1>. HIDE DEF r
  <1>4. /\ handler' \in [Requests -> Signing] /\ handler'[h] = r
        /\ \A x \in Requests : x # h => handler'[x] = handler[x]
    BY <1>1, <1>2 DEF AccountsOK
  <1> QED BY <1>3, <1>4 DEF Register!Start, Register!rows

\* Requests that run one after the other.
LEMMA TurnBegins ==
    ASSUME RegisterInv, NEW h \in Requests, h \notin Register!Busy,
           crossed' = (crossed \/ Register!Busy # {}), handler'[h].at # "idle",
           \A x \in Requests : x # h => handler'[x] = handler[x],
           Resting => Stage(handler[h])'
    PROVE  InTurn'
  <1>. SUFFICES ASSUME ~crossed' PROVE InTurn'
    BY DEF InTurn
  <1>1. ~crossed /\ Register!Busy = {}
    OBVIOUS
  <1>2. Register!Busy' = {h}
    BY <1>1 DEF Register!Busy
  <1>3. Stage(handler[h])'
    BY <1>1 DEF RegisterInv, InTurn
  <1> QED BY <1>2, <1>3 DEF InTurn

\* A request between two of its transactions, with no other one.
LEMMA TurnGoes ==
    ASSUME RegisterInv, NEW h \in Register!Busy, crossed' = crossed, handler'[h].at # "idle",
           \A x \in Requests : x # h => handler'[x] = handler[x],
           Stage(handler[h]) => Stage(handler[h])'
    PROVE  InTurn'
  <1>. SUFFICES ASSUME ~crossed' PROVE InTurn'
    BY DEF InTurn
  <1>1. Register!Busy = {h} /\ Stage(handler[h])
    BY DEF RegisterInv, InTurn
  <1>2. Register!Busy' = {h}
    BY <1>1 DEF Register!Busy
  <1> QED BY <1>1, <1>2 DEF InTurn

\* The last transaction of a request, with no other one.
LEMMA TurnEnds ==
    ASSUME RegisterInv, NEW h \in Register!Busy, crossed' = crossed, handler'[h].at = "idle",
           \A x \in Requests : x # h => handler'[x] = handler[x],
           Stage(handler[h]) => Resting'
    PROVE  InTurn'
  <1>. SUFFICES ASSUME ~crossed' PROVE InTurn'
    BY DEF InTurn
  <1>1. Register!Busy = {h} /\ Stage(handler[h])
    BY DEF RegisterInv, InTurn
  <1>2. Register!Busy' = {}
    BY <1>1 DEF Register!Busy
  <1> QED BY <1>1, <1>2 DEF InTurn

\* A request that changes no row.
LEMMA RegisterRests ==
    ASSUME RegisterInv, NEW h \in Requests, UNCHANGED <<users, auths, accounts, bootstrapped>>,
           handler' \in [Requests -> Signing],
           \A x \in Requests : x # h => handler'[x] = handler[x],
           Addressed(handler'[h]), Entitled(handler'[h]), InTurn'
    PROVE  RegisterInv'
  <1>1. AccountsOK'
    BY DEF RegisterInv, AccountsOK, Addressed
  <1>2. PrimaryOK'
    BY DEF RegisterInv, PrimaryOK, Entitled, Register!Primary
  <1> QED BY <1>1, <1>2 DEF RegisterInv

\* A request that has passed its first checks.
LEMMA RegisterStarts ==
    ASSUME RegisterInv, NEW h \in Requests,
           NEW kind \in {"signup", "external", "delete", "user", "admin", "edit"},
           NEW a \in {"lookup", "setRole", "editAuth", "deleteUser"},
           NEW id \in Nat, NEW email \in Emails \cup {"none"},
           Register!Start(h, kind, a, id, email),
           a = "lookup" => id = 0 /\ email \in Emails,
           a # "lookup" => id \in DOMAIN users,
           a = "deleteUser" => id # Register!Primary,
           a = "setRole" => kind \in {"user", "admin"}
              /\ (id = Register!Primary => kind = "admin"),
           a = "editAuth" => email \in Emails /\ Register!Named(email) = {}
    PROVE  RegisterInv'
  <1>1. /\ handler' \in [Requests -> Signing]
        /\ handler'[h].at = a /\ handler'[h].kind = kind /\ handler'[h].id = id
        /\ handler'[h].email = email /\ h \notin Register!Busy
        /\ \A x \in Requests : x # h => handler'[x] = handler[x]
        /\ crossed' = (crossed \/ Register!Busy # {})
        /\ UNCHANGED <<users, auths, accounts, bootstrapped>>
    BY SigningStarts DEF RegisterInv
  <1>2. Addressed(handler'[h])
    BY <1>1 DEF Addressed, RegisterInv, AccountsOK
  <1>3. Entitled(handler'[h])
    BY <1>1 DEF Entitled
  <1>4. Resting => Stage(handler[h])'
    BY <1>1 DEF Resting, Stage, Unique, Agreed, Led, Register!Primary, Register!Named
  <1>5. InTurn'
    BY <1>1, <1>4, TurnBegins
  <1> QED BY <1>1, <1>2, <1>3, <1>5, RegisterRests

\* Sign-ups and sign-ins, deletions and changes by an administrator.
LEMMA RegisterRequests ==
    ASSUME RegisterInv, NEW h \in Requests,
           \/ \E email \in Emails : Register!SignUp(h, email) \/ Register!ExternalSignIn(h, email)
           \/ \E a \in Register!Admins, u \in DOMAIN users :
                \/ Register!Delete(h, a, u)
                \/ \E role \in {"user", "admin"} : Register!SetRole(h, a, u, role)
                \/ \E email \in Emails : Register!SetEmail(h, a, u, email)
    PROVE  RegisterInv'
  <1>0. DOMAIN users \subseteq Nat /\ 0 \in Nat
    BY DEF RegisterInv, AccountsOK
  <1>1. ASSUME NEW email \in Emails,
               Register!SignUp(h, email) \/ Register!ExternalSignIn(h, email)
        PROVE  RegisterInv'
    BY <1>0, <1>1, RegisterStarts DEF Register!SignUp, Register!ExternalSignIn
  <1>2. ASSUME NEW a \in Register!Admins, NEW u \in DOMAIN users, Register!Delete(h, a, u)
        PROVE  RegisterInv'
    BY <1>0, <1>2, RegisterStarts DEF Register!Delete
  <1>3. ASSUME NEW a \in Register!Admins, NEW u \in DOMAIN users,
               NEW role \in {"user", "admin"}, Register!SetRole(h, a, u, role)
        PROVE  RegisterInv'
    BY <1>0, <1>3, RegisterStarts DEF Register!SetRole, Register!MayChange
  <1>4. ASSUME NEW a \in Register!Admins, NEW u \in DOMAIN users,
               NEW email \in Emails, Register!SetEmail(h, a, u, email)
        PROVE  RegisterInv'
    BY <1>0, <1>4, RegisterStarts DEF Register!SetEmail
  <1> QED BY <1>1, <1>2, <1>3, <1>4

\* A sign-up ends with an address that is known, an external sign-in goes on.
LEMMA RegisterLooksUp ==
    ASSUME RegisterInv, NEW h \in Requests, Register!Lookup(h)
    PROVE  RegisterInv'
  <1>. DEFINE named == Register!Named(handler[h].email)
  <1>1. /\ handler[h].at = "lookup" /\ h \in Register!Busy /\ AccountsOK
        /\ handler[h] \in Signing /\ handler[h].email \in Emails
        /\ UNCHANGED <<users, auths, accounts, bootstrapped, crossed>>
    BY DEF Register!Lookup, Register!rows, Register!other, Register!Busy, RegisterInv, AccountsOK,
           Addressed
  <1>2. CASE named = {}
    <2>1. /\ handler' \in [Requests -> Signing]
          /\ handler'[h].at = "insert" /\ handler'[h].id = handler[h].id
          /\ handler'[h].email = handler[h].email
          /\ \A x \in Requests : x # h => handler'[x] = handler[x]
      BY <1>1, <1>2, SigningGoes DEF Register!Lookup, Register!Goto
    <2>2. Addressed(handler'[h]) /\ Entitled(handler'[h])
      BY <1>1, <2>1 DEF Addressed, Entitled, AccountsOK
    <2>3. Stage(handler[h]) => Stage(handler[h])'
      BY <1>1, <1>2, <2>1 DEF Stage, Unique, Agreed, Led, Register!Primary, Register!Named
    <2>4. InTurn'
      BY <1>1, <2>1, <2>3, TurnGoes
    <2> QED BY <1>1, <2>1, <2>2, <2>4, RegisterRests
  <1>3. CASE named # {} /\ handler[h].kind = "external"
    <2>. DEFINE u == Register!Min(named)
                r == [handler[h] EXCEPT !.at = "count", !.id = u]
    <2>1. u \in named /\ u \in DOMAIN users /\ u \in Nat /\ u <= accounts
      <3>1. named \subseteq Nat /\ named \subseteq DOMAIN users
        BY <1>1 DEF Register!Named, AccountsOK
      <3>2. u \in named
        BY <1>3, <3>1, LeastUser
      <3> QED BY <1>1, <3>1, <3>2 DEF AccountsOK
    <2>2. handler' = [handler EXCEPT ![h] = r]
      BY <1>1, <1>3 DEF Register!Lookup, AccountsOK
    <2>. HIDE DEF u
    <2>3. r \in Signing /\ r.at = "count" /\ r.id = u
      BY <1>1, <2>1 DEF Signing
    <2>. HIDE DEF r
    <2>4. /\ handler' \in [Requests -> Signing] /\ handler'[h] = r
          /\ \A x \in Requests : x # h => handler'[x] = handler[x]
      BY <1>1, <2>2, <2>3 DEF AccountsOK
    <2>5. Addressed(handler'[h]) /\ Entitled(handler'[h])
      BY <2>1, <2>3, <2>4 DEF Addressed, Entitled
    <2>6. Stage(handler[h]) => Stage(handler[h])'
      BY <1>1, <2>1, <2>3, <2>4 DEF Stage, Unique, Agreed, Led, Register!Primary, Register!Named
    <2>7. InTurn'
      BY <1>1, <2>3, <2>4, <2>6, TurnGoes
    <2> QED BY <1>1, <2>4, <2>5, <2>7, RegisterRests
  <1>4. CASE named # {} /\ handler[h].kind # "external"
    <2>1. Register!End(h)
      BY <1>4 DEF Register!Lookup
    <2>2. /\ handler' \in [Requests -> Signing] /\ handler'[h].at = "idle" /\ handler'[h].id = 0
          /\ \A x \in Requests : x # h => handler'[x] = handler[x]
      BY <1>1, <2>1, SigningEnds
    <2>3. Stage(handler[h]) => Resting'
      BY <1>1 DEF Stage, Resting, Unique, Agreed, Led, Register!Primary
    <2>4. InTurn'
      BY <1>1, <2>2, <2>3, TurnEnds
    <2>5. Addressed(handler'[h]) /\ Entitled(handler'[h])
      BY <1>1, <2>2 DEF Addressed, Entitled, AccountsOK
    <2> QED BY <1>1, <2>2, <2>4, <2>5, RegisterRests
  <1> QED BY <1>2, <1>3, <1>4

\* The number of users is asked for: an only user is to be promoted.
LEMMA RegisterCounts ==
    ASSUME RegisterInv, NEW h \in Requests, Register!Count(h)
    PROVE  RegisterInv'
  <1>1. /\ handler[h].at = "count" /\ h \in Register!Busy /\ AccountsOK
        /\ handler[h] \in Signing
        /\ UNCHANGED <<users, auths, accounts, bootstrapped, crossed>>
    BY DEF Register!Count, Register!rows, Register!other, Register!Busy, RegisterInv, AccountsOK
  <1>2. CASE Register!Alone(h)
    <2>1. \E u : DOMAIN users = {u}
      <3>1. Cardinality(DOMAIN users) = 1 /\ IsFiniteSet(DOMAIN users)
        BY <1>1, <1>2, UsersFinite DEF Register!Alone
      <3> QED BY <3>1, FS_Singleton
    <2>2. /\ handler' \in [Requests -> Signing]
          /\ handler'[h].at = "promote" /\ handler'[h].id = handler[h].id
          /\ \A x \in Requests : x # h => handler'[x] = handler[x]
      BY <1>1, <1>2, SigningGoes DEF Register!Count, Register!Goto
    <2>3. handler[h].id \in DOMAIN users => handler[h].id = Register!Primary
      BY <1>1, <2>1, PrimaryIs
    <2>4. Addressed(handler'[h]) /\ Entitled(handler'[h])
      BY <1>1, <2>2, <2>3 DEF Addressed, Entitled, AccountsOK, Register!Primary
    <2>5. ~crossed => Stage(handler[h])
      BY <1>1 DEF RegisterInv, InTurn
    <2>6. Stage(handler[h]) => Stage(handler[h])'
      <3>. SUFFICES ASSUME Stage(handler[h]) PROVE Stage(handler[h])'
        OBVIOUS
      <3>1. DOMAIN users = {handler[h].id} \/ Led
        BY <1>1 DEF Stage
      <3> QED BY <1>1, <2>1, <2>2, <3>1 DEF Stage, Unique, Agreed
    <2>7. InTurn'
      BY <1>1, <2>2, <2>6, TurnGoes
    <2> QED BY <1>1, <2>2, <2>4, <2>7, RegisterRests
  <1>3. CASE ~Register!Alone(h)
    <2>1. Register!End(h)
      BY <1>3 DEF Register!Count
    <2>2. /\ handler' \in [Requests -> Signing] /\ handler'[h].at = "idle" /\ handler'[h].id = 0
          /\ \A x \in Requests : x # h => handler'[x] = handler[x]
      BY <1>1, <2>1, SigningEnds
    <2>3. DOMAIN users # {handler[h].id}
      <3>1. Cardinality({handler[h].id}) = 1
        BY FS_Singleton
      <3> QED BY <1>1, <1>3, <3>1, UsersFinite DEF Register!Alone
    <2>4. Stage(handler[h]) => Resting'
      BY <1>1, <2>3 DEF Stage, Resting, Unique, Agreed, Led, Register!Primary
    <2>5. InTurn'
      BY <1>1, <2>2, <2>4, TurnEnds
    <2>6. Addressed(handler'[h]) /\ Entitled(handler'[h])
      BY <1>1, <2>2 DEF Addressed, Entitled, AccountsOK
    <2> QED BY <1>1, <2>2, <2>5, <2>6, RegisterRests
  <1> QED BY <1>2, <1>3

\* The sign-up is opened or closed.
LEMMA RegisterCloses ==
    ASSUME RegisterInv, NEW h \in Requests, Register!CloseSignup(h)
    PROVE  RegisterInv'
  <1>1. /\ handler[h].at = "close" /\ h \in Register!Busy /\ AccountsOK /\ Register!End(h)
        /\ UNCHANGED <<users, auths, accounts, bootstrapped, crossed>>
    BY DEF Register!CloseSignup, Register!rows, Register!Busy, RegisterInv
  <1>2. /\ handler' \in [Requests -> Signing] /\ handler'[h].at = "idle" /\ handler'[h].id = 0
        /\ \A x \in Requests : x # h => handler'[x] = handler[x]
    BY <1>1, SigningEnds
  <1>3. Stage(handler[h]) => Resting'
    BY <1>1 DEF Stage, Resting, Unique, Agreed, Led, Register!Primary
  <1>4. InTurn'
    BY <1>1, <1>2, <1>3, TurnEnds
  <1>5. Addressed(handler'[h]) /\ Entitled(handler'[h])
    BY <1>1, <1>2 DEF Addressed, Entitled, AccountsOK
  <1> QED BY <1>1, <1>2, <1>4, <1>5, RegisterRests

\* An instance stops between two transactions.
LEMMA RegisterDies ==
    ASSUME RegisterInv, NEW h \in Requests, Register!Die(h)
    PROVE  RegisterInv'
  <1>1. /\ AccountsOK /\ Register!End(h) /\ crossed' = TRUE
        /\ UNCHANGED <<users, auths, accounts, bootstrapped>>
    BY DEF Register!Die, Register!rows, RegisterInv
  <1>2. /\ handler' \in [Requests -> Signing] /\ handler'[h].at = "idle" /\ handler'[h].id = 0
        /\ \A x \in Requests : x # h => handler'[x] = handler[x]
    BY <1>1, SigningEnds
  <1>3. InTurn'
    BY <1>1 DEF InTurn
  <1>4. Addressed(handler'[h]) /\ Entitled(handler'[h])
    BY <1>1, <1>2 DEF Addressed, Entitled, AccountsOK
  <1> QED BY <1>1, <1>2, <1>3, <1>4, RegisterRests

\* A change of rows that keeps the primary user.
LEMMA RegisterWrites ==
    ASSUME RegisterInv, NEW h \in Requests, AccountsOK', InTurn',
           DOMAIN users # {} => Register!Primary \in DOMAIN users',
           \A x \in DOMAIN users' : x \in DOMAIN users \/ x > accounts,
           \A x \in Requests : x # h => handler'[x] = handler[x],
           DOMAIN users # {} /\ Register!Primary' = Register!Primary => Entitled(handler[h])',
           DOMAIN users = {} => Entitled(handler[h])',
           \A u \in bootstrapped' : u \in bootstrapped
              \/ (DOMAIN users # {} /\ u = Register!Primary)
    PROVE  RegisterInv'
  <1>1. CASE DOMAIN users # {}
    <2>1. DOMAIN users' \in SUBSET Nat
      BY DEF AccountsOK
    <2>2. Register!Min(DOMAIN users') = Register!Primary
      BY <1>1, <2>1, PrimaryFixed DEF RegisterInv
    <2>3. Register!Primary' = Register!Primary /\ DOMAIN users' # {}
      BY <1>1, <2>2 DEF Register!Primary
    <2>4. \A u \in bootstrapped' : u = Register!Primary'
      BY <1>1, <2>3 DEF RegisterInv, PrimaryOK
    <2>5. ASSUME NEW x \in Requests, x # h
          PROVE  Entitled(handler[x])'
      <3>1. Entitled(handler[x]) /\ handler[x].id <= accounts /\ accounts \in Nat
            /\ handler[x].id \in Nat
        BY DEF RegisterInv, PrimaryOK, AccountsOK, Addressed, Signing
      <3>2. handler[x].id \in DOMAIN users' => handler[x].id \in DOMAIN users
        BY <3>1, <2>1
      <3> QED BY <2>3, <2>5, <3>1, <3>2 DEF Entitled
    <2> QED BY <1>1, <2>3, <2>4, <2>5 DEF RegisterInv, PrimaryOK
  <1>2. CASE DOMAIN users = {}
    <2>1. bootstrapped' = {}
      BY <1>2 DEF RegisterInv, PrimaryOK
    <2>2. ASSUME NEW x \in Requests, x # h
          PROVE  Entitled(handler[x])'
      <3>1. Entitled(handler[x]) /\ handler[x].id <= accounts /\ accounts \in Nat
            /\ handler[x].id \in Nat
        BY DEF RegisterInv, PrimaryOK, AccountsOK, Addressed, Signing
      <3>2. handler[x].id \notin DOMAIN users'
        BY <1>2, <3>1 DEF AccountsOK
      <3> QED BY <1>2, <2>2, <3>1, <3>2 DEF Entitled
    <2> QED BY <1>2, <2>1, <2>2 DEF RegisterInv, PrimaryOK
  <1> QED BY <1>1, <1>2

\* The user is committed.
LEMMA RegisterInsertsUser ==
    ASSUME RegisterInv, NEW h \in Requests, Register!InsertUser(h)
    PROVE  RegisterInv'
  <1>. DEFINE u == accounts + 1
              email == handler[h].email
              new == [email |-> email, role |-> "user"]
              at == IF sharing THEN "count" ELSE "insertAuth"
              r == [handler[h] EXCEPT !.at = at, !.id = u]
  <1>1. /\ handler[h].at = "insert" /\ h \in Register!Busy /\ AccountsOK
        /\ handler[h] \in Signing /\ email \in Emails /\ accounts \in Nat
        /\ DOMAIN users \subseteq 1 .. accounts /\ DOMAIN auths \subseteq 1 .. accounts
    BY DEF Register!InsertUser, Register!Busy, RegisterInv, AccountsOK, Addressed
  <1>2. /\ accounts' = u /\ UNCHANGED <<bootstrapped, crossed>>
        /\ users' = [x \in DOMAIN users \cup {u} |-> IF x = u THEN new ELSE users[x]]
        /\ auths' = IF sharing
                    THEN [x \in DOMAIN auths \cup {u} |-> IF x = u THEN email ELSE auths[x]]
                    ELSE auths
        /\ handler' = [handler EXCEPT ![h] = r]
    BY <1>1 DEF Register!InsertUser, AccountsOK
  <1>3. r \in Signing /\ r.at = at /\ r.id = u /\ r.email = email
    <2>1. at \in {"count", "insertAuth"} /\ u \in Nat
      BY <1>1
    <2>. HIDE DEF at, u
    <2>2. [handler[h] EXCEPT !.at = at, !.id = u] \in Signing
      BY <1>1, <2>1 DEF Signing
    <2> QED BY <1>1, <2>2 DEF Signing
  <1>. HIDE DEF r
  <1>4. /\ handler' \in [Requests -> Signing] /\ handler'[h] = r
        /\ \A x \in Requests : x # h => handler'[x] = handler[x]
    BY <1>1, <1>2, <1>3 DEF AccountsOK
  <1>5. u \notin DOMAIN users /\ u \notin DOMAIN auths /\ u \in Nat
        /\ \A x \in DOMAIN users : x < u
    BY <1>1
  <1>6. new \in [email : Emails, role : {"user", "admin"}]
    BY <1>1
  <1>. HIDE DEF new
  <1>7. AccountsOK'
    <2>1. /\ accounts' \in Nat /\ DOMAIN users' \subseteq 1 .. accounts'
          /\ users' = [x \in DOMAIN users' |-> users'[x]]
          /\ \A x \in DOMAIN users' : users'[x] \in [email : Emails, role : {"user", "admin"}]
      BY <1>1, <1>2, <1>6 DEF AccountsOK
    <2>2. DOMAIN auths' \subseteq 1 .. accounts' /\ auths' = [x \in DOMAIN auths' |-> auths'[x]]
      <3>1. CASE sharing
        <4>1. auths' = [x \in DOMAIN auths \cup {u} |-> IF x = u THEN email ELSE auths[x]]
          BY <1>2, <3>1
        <4>2. DOMAIN auths' = DOMAIN auths \cup {u} /\ accounts' = u
          BY <1>2, <4>1
        <4>3. DOMAIN auths' \subseteq 1 .. accounts'
          BY <1>1, <4>2
        <4>4. auths' = [x \in DOMAIN auths' |-> auths'[x]]
          BY <4>1
        <4> QED BY <4>3, <4>4
      <3>2. CASE ~sharing
        <4>1. auths' = auths
          BY <1>2, <3>2
        <4>2. DOMAIN auths' \subseteq 1 .. accounts'
          BY <1>1, <1>2, <4>1
        <4>3. auths' = [x \in DOMAIN auths' |-> auths'[x]]
          BY <1>1, <4>1 DEF AccountsOK
        <4> QED BY <4>2, <4>3
      <3> QED BY <3>1, <3>2
    <2>3. \A x \in Requests : Addressed(handler[x])'
      BY <1>1, <1>2, <1>3, <1>4 DEF Addressed, AccountsOK, Signing
    <2> QED BY <1>4, <2>1, <2>2, <2>3 DEF AccountsOK
  <1>8. DOMAIN users # {} => /\ Register!Primary \in DOMAIN users
                             /\ Register!Primary' = Register!Primary
    <2>. SUFFICES ASSUME DOMAIN users # {}
                  PROVE  Register!Primary \in DOMAIN users /\ Register!Primary' = Register!Primary
      OBVIOUS
    <2>1. Register!Primary \in DOMAIN users
      BY <1>1, PrimaryIs
    <2>2. DOMAIN users' \in SUBSET Nat /\ Register!Primary \in DOMAIN users'
          /\ \A x \in DOMAIN users' : x \in DOMAIN users \/ x > accounts
      BY <1>1, <1>2, <1>5, <2>1
    <2> QED BY <1>1, <2>1, <2>2, PrimaryFixed DEF Register!Primary
  <1>9. Entitled(handler[h])'
    BY <1>3, <1>4 DEF Entitled
  <1>10. Stage(handler[h]) => Stage(handler[h])'
    <2>. SUFFICES ASSUME Stage(handler[h]) PROVE Stage(handler[h])'
      OBVIOUS
    <2>1. /\ DOMAIN auths = DOMAIN users /\ Led /\ Unique
          /\ \A x \in DOMAIN users : users[x].email # email /\ auths[x] = users[x].email
      BY <1>1 DEF Stage, Agreed, Register!Named
    <2>2. /\ DOMAIN users' = DOMAIN users \cup {u} /\ users'[u].email = email
          /\ \A x \in DOMAIN users : users'[x] = users[x]
      BY <1>2, <1>5 DEF new
    <2>3. Unique'
      BY <2>1, <2>2 DEF Unique
    <2>4. DOMAIN users' = {u} \/ Led'
      BY <1>8, <2>1, <2>2 DEF Led
    <2>5. CASE sharing
      <3>1. /\ DOMAIN auths' = DOMAIN auths \cup {u} /\ auths'[u] = email
            /\ \A x \in DOMAIN users : auths'[x] = auths[x]
        BY <1>2, <1>5, <2>1, <2>5
      <3> QED BY <1>3, <1>4, <2>1, <2>2, <2>3, <2>4, <2>5, <3>1 DEF Stage, Agreed
    <2>6. CASE ~sharing
      <3>1. auths' = auths
        BY <1>2, <2>6
      <3>2. handler'[h].at = "insertAuth" /\ handler'[h].id = u /\ handler'[h].email = email
        BY <1>3, <1>4, <2>6
      <3> QED BY <1>5, <2>1, <2>2, <2>3, <2>4, <3>1, <3>2 DEF Stage, Agreed
    <2> QED BY <2>5, <2>6
  <1>11. InTurn'
    BY <1>1, <1>2, <1>3, <1>4, <1>10, TurnGoes
  <1>12. /\ DOMAIN users # {} => Register!Primary \in DOMAIN users'
         /\ \A x \in DOMAIN users' : x \in DOMAIN users \/ x > accounts
    BY <1>1, <1>2, <1>8
  <1> QED BY <1>2, <1>4, <1>7, <1>9, <1>11, <1>12, RegisterWrites

\* The credential follows.
LEMMA RegisterInsertsAuth ==
    ASSUME RegisterInv, NEW h \in Requests, Register!InsertAuth(h)
    PROVE  RegisterInv'
  <1>. DEFINE u == handler[h].id
              email == handler[h].email
  <1>1. /\ handler[h].at = "insertAuth" /\ h \in Register!Busy /\ AccountsOK
        /\ handler[h] \in Signing /\ email \in Emails /\ u \in 1 .. accounts
        /\ UNCHANGED <<users, accounts, bootstrapped, crossed>>
        /\ auths' = [x \in DOMAIN auths \cup {u} |-> IF x = u THEN email ELSE auths[x]]
    BY DEF Register!InsertAuth, Register!Busy, Register!other, RegisterInv, AccountsOK, Addressed,
           Signing
  <1>2. /\ handler' \in [Requests -> Signing] /\ handler'[h].at = "count"
        /\ handler'[h].id = u /\ \A x \in Requests : x # h => handler'[x] = handler[x]
    BY <1>1, SigningGoes DEF Register!InsertAuth, Register!Goto
  <1>3. AccountsOK'
    <2>1. DOMAIN auths' \subseteq 1 .. accounts /\ auths' = [x \in DOMAIN auths' |-> auths'[x]]
      BY <1>1 DEF AccountsOK
    <2>2. \A x \in Requests : Addressed(handler[x])'
      BY <1>1, <1>2 DEF Addressed, AccountsOK, Signing
    <2> QED BY <1>1, <1>2, <2>1, <2>2 DEF AccountsOK
  <1>4. Entitled(handler[h])'
    BY <1>2 DEF Entitled
  <1>5. Stage(handler[h]) => Stage(handler[h])'
    <2>. SUFFICES ASSUME Stage(handler[h]) PROVE Stage(handler[h])'
      OBVIOUS
    <2>1. /\ DOMAIN auths = DOMAIN users \ {u} /\ u \in DOMAIN users /\ users[u].email = email
          /\ (DOMAIN users = {u} \/ Led) /\ Unique
          /\ \A x \in DOMAIN users : x = u \/ auths[x] = users[x].email
      BY <1>1 DEF Stage, Agreed
    <2>2. /\ DOMAIN auths' = DOMAIN users /\ auths'[u] = email
          /\ \A x \in DOMAIN users : x = u \/ auths'[x] = auths[x]
      BY <1>1, <2>1
    <2>3. Unique' /\ (DOMAIN users' = {u} \/ Led')
      BY <1>1, <2>1 DEF Unique, Led, Register!Primary
    <2> QED BY <1>1, <1>2, <2>1, <2>2, <2>3 DEF Stage, Agreed
  <1>6. InTurn'
    BY <1>1, <1>2, <1>5, TurnGoes
  <1>7. DOMAIN users # {} => Register!Primary \in DOMAIN users'
    BY <1>1, PrimaryIs
  <1> QED BY <1>1, <1>2, <1>3, <1>4, <1>6, <1>7, RegisterWrites

\* The only user becomes administrator.
LEMMA RegisterPromotes ==
    ASSUME RegisterInv, NEW h \in Requests, Register!Promote(h)
    PROVE  RegisterInv'
  <1>. DEFINE u == handler[h].id
  <1>1. /\ handler[h].at = "promote" /\ h \in Register!Busy /\ AccountsOK
        /\ handler[h] \in Signing /\ UNCHANGED <<auths, accounts, crossed>>
        /\ users' = [x \in DOMAIN users |-> IF x = u THEN [users[x] EXCEPT !.role = "admin"]
                                            ELSE users[x]]
        /\ bootstrapped' = bootstrapped \cup ({u} \cap DOMAIN users)
    BY DEF Register!Promote, Register!Busy, RegisterInv, AccountsOK
  <1>2. /\ handler' \in [Requests -> Signing] /\ handler'[h].at \in {"idle", "close"}
        /\ handler'[h].id \in {0, u} /\ \A x \in Requests : x # h => handler'[x] = handler[x]
    BY <1>1, SigningGoes, SigningEnds DEF Register!Promote, Register!Goto
  <1>3. /\ DOMAIN users' = DOMAIN users
        /\ \A x \in DOMAIN users :
              /\ users'[x] \in [email : Emails, role : {"user", "admin"}]
              /\ users'[x].email = users[x].email
              /\ x = u => users'[x].role = "admin"
    BY <1>1 DEF AccountsOK
  <1>4. AccountsOK'
    <2>1. \A x \in Requests : Addressed(handler[x])'
      BY <1>1, <1>2 DEF Addressed, AccountsOK, Signing
    <2> QED BY <1>1, <1>2, <1>3, <2>1 DEF AccountsOK
  <1>5. Entitled(handler[h])'
    BY <1>2 DEF Entitled
  <1>6. u \in DOMAIN users => u = Register!Primary
    BY <1>1 DEF RegisterInv, PrimaryOK, Entitled
  <1>7. Stage(handler[h]) => Resting' /\ (handler'[h].at = "close" => Stage(handler[h])')
    <2>. SUFFICES ASSUME Stage(handler[h])
                  PROVE  Resting' /\ (handler'[h].at = "close" => Stage(handler[h])')
      OBVIOUS
    <2>1. /\ DOMAIN users = {u} /\ DOMAIN auths = DOMAIN users /\ auths[u] = users[u].email
      BY <1>1 DEF Stage, Agreed
    <2>2. Unique' /\ Led'
      BY <1>3, <1>6, <2>1 DEF Unique, Led, Register!Primary
    <2> QED BY <1>1, <1>3, <2>1, <2>2 DEF Stage, Resting, Agreed
  <1>8. InTurn'
    BY <1>1, <1>2, <1>7, TurnGoes, TurnEnds
  <1>9. DOMAIN users # {} => Register!Primary \in DOMAIN users'
    BY <1>1, <1>3, PrimaryIs
  <1>10. \A x \in bootstrapped' : x \in bootstrapped \/ (DOMAIN users # {} /\ x = Register!Primary)
    BY <1>1, <1>6
  <1> QED BY <1>2, <1>3, <1>4, <1>5, <1>8, <1>9, <1>10, RegisterWrites

\* A role is written; the primary user's stays.
LEMMA RegisterWritesRole ==
    ASSUME RegisterInv, NEW h \in Requests, Register!WriteRole(h)
    PROVE  RegisterInv'
  <1>. DEFINE u == handler[h].id
  <1>1. /\ handler[h].at = "setRole" /\ h \in Register!Busy /\ AccountsOK /\ Register!End(h)
        /\ handler[h].kind \in {"user", "admin"}
        /\ UNCHANGED <<auths, accounts, crossed, bootstrapped>>
        /\ users' = [x \in DOMAIN users |->
                       IF x = u THEN [users[x] EXCEPT !.role = handler[h].kind] ELSE users[x]]
    BY DEF Register!WriteRole, Register!Busy, Register!other, RegisterInv, PrimaryOK, Entitled
  <1>2. /\ handler' \in [Requests -> Signing] /\ handler'[h].at = "idle" /\ handler'[h].id = 0
        /\ \A x \in Requests : x # h => handler'[x] = handler[x]
    BY <1>1, SigningEnds
  <1>3. /\ DOMAIN users' = DOMAIN users
        /\ \A x \in DOMAIN users :
              /\ users'[x] \in [email : Emails, role : {"user", "admin"}]
              /\ users'[x].email = users[x].email
              /\ x # u \/ handler[h].kind = "admin" =>
                    (users[x].role = "admin" => users'[x].role = "admin")
    BY <1>1 DEF AccountsOK
  <1>4. AccountsOK'
    <2>1. \A x \in Requests : Addressed(handler[x])'
      BY <1>1, <1>2 DEF Addressed, AccountsOK, Signing
    <2> QED BY <1>1, <1>2, <1>3, <2>1 DEF AccountsOK
  <1>5. Entitled(handler[h])'
    BY <1>2 DEF Entitled
  <1>6. u = Register!Primary => handler[h].kind = "admin"
    BY <1>1 DEF RegisterInv, PrimaryOK, Entitled
  <1>7. Stage(handler[h]) => Resting'
    <2>. SUFFICES ASSUME Stage(handler[h]) PROVE Resting'
      OBVIOUS
    <2>1. Led /\ Unique /\ DOMAIN auths = DOMAIN users
          /\ \A x \in DOMAIN users : auths[x] = users[x].email
      BY <1>1 DEF Stage, Agreed
    <2>2. Led'
      BY <1>1, <1>3, <1>6, <2>1, PrimaryIs DEF Led, Register!Primary
    <2>3. Unique'
      BY <1>3, <2>1 DEF Unique
    <2> QED BY <1>1, <1>3, <2>1, <2>2, <2>3 DEF Resting, Agreed
  <1>8. InTurn'
    BY <1>1, <1>2, <1>7, TurnEnds
  <1>9. DOMAIN users # {} => Register!Primary \in DOMAIN users'
    BY <1>1, <1>3, PrimaryIs
  <1> QED BY <1>1, <1>2, <1>3, <1>4, <1>5, <1>8, <1>9, RegisterWrites

\* A new address goes to the credential first.
LEMMA RegisterEditsAuth ==
    ASSUME RegisterInv, NEW h \in Requests, Register!EditAuth(h)
    PROVE  RegisterInv'
  <1>. DEFINE u == handler[h].id
              email == handler[h].email
  <1>1. /\ handler[h].at = "editAuth" /\ h \in Register!Busy /\ AccountsOK /\ email \in Emails
        /\ handler[h] \in Signing /\ UNCHANGED <<users, accounts, crossed, bootstrapped>>
        /\ auths' = [x \in DOMAIN auths |-> IF x = u THEN email ELSE auths[x]]
    BY DEF Register!EditAuth, Register!Busy, Register!other, RegisterInv, AccountsOK, Addressed
  <1>2. /\ handler' \in [Requests -> Signing] /\ handler'[h].at = "editUser"
        /\ handler'[h].id = u /\ handler'[h].email = email
        /\ \A x \in Requests : x # h => handler'[x] = handler[x]
    BY <1>1, SigningGoes DEF Register!EditAuth, Register!Goto
  <1>3. AccountsOK'
    <2>1. DOMAIN auths' \subseteq 1 .. accounts /\ auths' = [x \in DOMAIN auths' |-> auths'[x]]
      BY <1>1 DEF AccountsOK
    <2>2. \A x \in Requests : Addressed(handler[x])'
      BY <1>1, <1>2 DEF Addressed, AccountsOK, Signing
    <2> QED BY <1>1, <1>2, <2>1, <2>2 DEF AccountsOK
  <1>4. Entitled(handler[h])'
    BY <1>2 DEF Entitled
  <1>5. Stage(handler[h]) => Stage(handler[h])'
    <2>. SUFFICES ASSUME Stage(handler[h]) PROVE Stage(handler[h])'
      OBVIOUS
    <2>1. /\ DOMAIN auths = DOMAIN users /\ u \in DOMAIN users /\ Led /\ Unique
          /\ \A x \in DOMAIN users : auths[x] = users[x].email /\ users[x].email # email
      BY <1>1 DEF Stage, Agreed, Register!Named
    <2>2. /\ DOMAIN auths' = DOMAIN users /\ auths'[u] = email
          /\ \A x \in DOMAIN users : x = u \/ auths'[x] = auths[x]
      BY <1>1, <2>1
    <2>3. Unique' /\ Led'
      BY <1>1, <2>1 DEF Unique, Led, Register!Primary
    <2> QED BY <1>1, <1>2, <2>1, <2>2, <2>3 DEF Stage, Agreed, Register!Named
  <1>6. InTurn'
    BY <1>1, <1>2, <1>5, TurnGoes
  <1>7. DOMAIN users # {} => Register!Primary \in DOMAIN users'
    BY <1>1, PrimaryIs
  <1> QED BY <1>1, <1>2, <1>3, <1>4, <1>6, <1>7, RegisterWrites

\* The address then goes to the user.
LEMMA RegisterEditsUser ==
    ASSUME RegisterInv, NEW h \in Requests, Register!EditUser(h)
    PROVE  RegisterInv'
  <1>. DEFINE u == handler[h].id
              email == handler[h].email
  <1>1. /\ handler[h].at = "editUser" /\ h \in Register!Busy /\ AccountsOK /\ email \in Emails
        /\ Register!End(h) /\ UNCHANGED <<auths, accounts, crossed, bootstrapped>>
        /\ users' = [x \in DOMAIN users |-> IF x = u THEN [users[x] EXCEPT !.email = email]
                                            ELSE users[x]]
    BY DEF Register!EditUser, Register!Busy, Register!other, RegisterInv, AccountsOK, Addressed
  <1>2. /\ handler' \in [Requests -> Signing] /\ handler'[h].at = "idle" /\ handler'[h].id = 0
        /\ \A x \in Requests : x # h => handler'[x] = handler[x]
    BY <1>1, SigningEnds
  <1>. HIDE DEF email
  <1>3. /\ DOMAIN users' = DOMAIN users
        /\ \A x \in DOMAIN users :
              /\ users'[x] \in [email : Emails, role : {"user", "admin"}]
              /\ users'[x].role = users[x].role
              /\ users'[x].email = IF x = u THEN email ELSE users[x].email
    BY <1>1 DEF AccountsOK
  <1>4. AccountsOK'
    <2>1. \A x \in Requests : Addressed(handler[x])'
      BY <1>1, <1>2 DEF Addressed, AccountsOK, Signing
    <2> QED BY <1>1, <1>2, <1>3, <2>1 DEF AccountsOK
  <1>5. Entitled(handler[h])'
    BY <1>2 DEF Entitled
  <1>6. Stage(handler[h]) => Resting'
    <2>. SUFFICES ASSUME Stage(handler[h]) PROVE Resting'
      OBVIOUS
    <2>1. /\ Led /\ Unique /\ DOMAIN auths = DOMAIN users /\ auths[u] = email /\ u \in DOMAIN users
          /\ \A x \in DOMAIN users : users[x].email # email
          /\ \A x \in DOMAIN users : x = u \/ auths[x] = users[x].email
      BY <1>1 DEF Stage, Agreed, Register!Named, email
    <2>2. Led'
      BY <1>1, <1>3, <2>1, PrimaryIs DEF Led, Register!Primary
    <2>3. Unique'
      BY <1>3, <2>1 DEF Unique
    <2> QED BY <1>1, <1>3, <2>1, <2>2, <2>3 DEF Resting, Agreed
  <1>7. InTurn'
    BY <1>1, <1>2, <1>6, TurnEnds
  <1>8. DOMAIN users # {} => Register!Primary \in DOMAIN users'
    BY <1>1, <1>3, PrimaryIs
  <1> QED BY <1>1, <1>2, <1>3, <1>4, <1>5, <1>7, <1>8, RegisterWrites

\* A user is deleted, not the primary one.
LEMMA RegisterDeletesUser ==
    ASSUME RegisterInv, NEW h \in Requests, Register!DeleteUser(h)
    PROVE  RegisterInv'
  <1>. DEFINE u == handler[h].id
  <1>1. /\ handler[h].at = "deleteUser" /\ h \in Register!Busy /\ AccountsOK
        /\ DOMAIN users # {} /\ u # Register!Primary
        /\ UNCHANGED <<auths, accounts, crossed, bootstrapped>>
        /\ users' = [x \in DOMAIN users \ {u} |-> users[x]]
    BY DEF Register!DeleteUser, Register!Busy, Register!other, RegisterInv, PrimaryOK, Entitled
  <1>2. /\ handler' \in [Requests -> Signing] /\ handler'[h].at = "deleteAuth"
        /\ handler'[h].id = u /\ \A x \in Requests : x # h => handler'[x] = handler[x]
    BY <1>1, SigningGoes DEF Register!DeleteUser, Register!Goto
  <1>3. /\ DOMAIN users' = DOMAIN users \ {u} /\ \A x \in DOMAIN users' : users'[x] = users[x]
    BY <1>1
  <1>4. AccountsOK'
    <2>1. \A x \in Requests : Addressed(handler[x])'
      BY <1>1, <1>2 DEF Addressed, AccountsOK, Signing
    <2> QED BY <1>1, <1>2, <1>3, <2>1 DEF AccountsOK
  <1>5. Entitled(handler[h])'
    BY <1>2 DEF Entitled
  <1>6. Register!Primary \in DOMAIN users /\ Register!Primary \in DOMAIN users'
    BY <1>1, <1>3, PrimaryIs
  <1>7. Stage(handler[h]) => Stage(handler[h])'
    <2>. SUFFICES ASSUME Stage(handler[h]) PROVE Stage(handler[h])'
      OBVIOUS
    <2>1. /\ DOMAIN auths = DOMAIN users /\ u \in DOMAIN users /\ Led /\ Unique
          /\ \A x \in DOMAIN users : auths[x] = users[x].email
      BY <1>1 DEF Stage, Agreed
    <2>2. Register!Primary' = Register!Primary
      <3>1. DOMAIN users' \in SUBSET Nat /\ \A x \in DOMAIN users' : x \in DOMAIN users
        BY <1>1, <1>3 DEF AccountsOK
      <3> QED BY <1>1, <1>6, <3>1, PrimaryFixed DEF Register!Primary
    <2>3. Led'
      BY <1>3, <1>6, <2>1, <2>2 DEF Led
    <2>4. Unique'
      BY <1>3, <2>1 DEF Unique
    <2> QED BY <1>1, <1>2, <1>3, <2>1, <2>3, <2>4 DEF Stage, Agreed
  <1>8. InTurn'
    BY <1>1, <1>2, <1>7, TurnGoes
  <1> QED BY <1>1, <1>2, <1>3, <1>4, <1>5, <1>6, <1>8, RegisterWrites

\* The credential of a user who is gone.
LEMMA RegisterDeletesAuth ==
    ASSUME RegisterInv, NEW h \in Requests, Register!DeleteAuth(h)
    PROVE  RegisterInv'
  <1>. DEFINE u == handler[h].id
  <1>1. /\ handler[h].at = "deleteAuth" /\ h \in Register!Busy /\ AccountsOK /\ Register!End(h)
        /\ UNCHANGED <<users, accounts, crossed, bootstrapped>>
        /\ auths' = [x \in DOMAIN auths \ {u} |-> auths[x]]
    BY DEF Register!DeleteAuth, Register!Busy, Register!other, RegisterInv
  <1>2. /\ handler' \in [Requests -> Signing] /\ handler'[h].at = "idle" /\ handler'[h].id = 0
        /\ \A x \in Requests : x # h => handler'[x] = handler[x]
    BY <1>1, SigningEnds
  <1>3. DOMAIN auths' = DOMAIN auths \ {u} /\ \A x \in DOMAIN auths' : auths'[x] = auths[x]
    BY <1>1
  <1>4. AccountsOK'
    <2>1. \A x \in Requests : Addressed(handler[x])'
      BY <1>1, <1>2 DEF Addressed, AccountsOK, Signing
    <2>2. DOMAIN auths' \subseteq 1 .. accounts /\ auths' = [x \in DOMAIN auths' |-> auths'[x]]
      BY <1>1, <1>3 DEF AccountsOK
    <2> QED BY <1>1, <1>2, <2>1, <2>2 DEF AccountsOK
  <1>5. Entitled(handler[h])'
    BY <1>2 DEF Entitled
  <1>6. Stage(handler[h]) => Resting'
    <2>. SUFFICES ASSUME Stage(handler[h]) PROVE Resting'
      OBVIOUS
    <2>1. /\ Led /\ Unique /\ DOMAIN auths = DOMAIN users \cup {u} /\ u \notin DOMAIN users
          /\ \A x \in DOMAIN users : auths[x] = users[x].email
      BY <1>1 DEF Stage, Agreed
    <2>2. Led' /\ Unique'
      BY <1>1, <2>1 DEF Led, Unique, Register!Primary
    <2>3. DOMAIN auths' = DOMAIN users /\ \A x \in DOMAIN users : auths'[x] = auths[x]
      BY <1>3, <2>1
    <2> QED BY <1>1, <2>1, <2>2, <2>3 DEF Resting, Agreed
  <1>7. InTurn'
    BY <1>1, <1>2, <1>6, TurnEnds
  <1>8. DOMAIN users # {} => Register!Primary \in DOMAIN users'
    BY <1>1, PrimaryIs
  <1> QED BY <1>1, <1>2, <1>4, <1>5, <1>7, <1>8, RegisterWrites

\* An installation begins without users.
LEMMA RegisterInit == Register!Init => RegisterInv
  <1>. SUFFICES ASSUME Register!Init PROVE RegisterInv
    OBVIOUS
  <1>1. /\ Register!Idle \in Signing /\ Register!Idle.at = "idle" /\ Register!Idle.id = 0
    BY DEF Register!Idle, Signing
  <1>2. /\ handler = [h \in Requests |-> Register!Idle] /\ accounts = 0 /\ bootstrapped = {}
        /\ users = <<>> /\ auths = <<>> /\ DOMAIN users = {} /\ DOMAIN auths = {}
    BY DEF Register!Init
  <1>3. \A h \in Requests : handler[h] = Register!Idle
    BY <1>2
  <1>4. AccountsOK
    <2>1. \A h \in Requests : Addressed(handler[h])
      BY <1>1, <1>2, <1>3 DEF Addressed
    <2>2. users = [u \in DOMAIN users |-> users[u]] /\ auths = [u \in DOMAIN auths |-> auths[u]]
      BY <1>2
    <2> QED BY <1>1, <1>2, <2>1, <2>2 DEF AccountsOK
  <1>5. PrimaryOK
    BY <1>1, <1>2, <1>3 DEF PrimaryOK, Entitled
  <1>6. Register!Busy = {}
    BY <1>1, <1>3 DEF Register!Busy
  <1>7. InTurn
    BY <1>2, <1>6 DEF InTurn, Resting, Unique, Led, Agreed
  <1> QED BY <1>4, <1>5, <1>7 DEF RegisterInv

\* The variables of the accounts, as in their module.
LEMMA RegisterVars == Register!vars = register
  BY DEF Register!vars, register

\* Each step, of any number of requests at once.
LEMMA RegisterNext == RegisterInv /\ [Register!Next]_register => RegisterInv'
  <1>. SUFFICES ASSUME RegisterInv, [Register!Next]_register PROVE RegisterInv'
    OBVIOUS
  <1>1. ASSUME UNCHANGED <<users, auths, handler, accounts, crossed, bootstrapped>>
        PROVE  RegisterInv'
    <2>1. Register!Primary' = Register!Primary
      BY <1>1 DEF Register!Primary
    <2>2. Register!Busy' = Register!Busy /\ \A e : Register!Named(e)' = Register!Named(e)
      BY <1>1 DEF Register!Busy, Register!Named
    <2>3. AccountsOK'
      BY <1>1 DEF RegisterInv, AccountsOK, Addressed
    <2>4. PrimaryOK'
      BY <1>1, <2>1 DEF RegisterInv, PrimaryOK, Entitled
    <2>5. Unique' = Unique /\ Led' = Led /\ \A u : Agreed(u)' = Agreed(u)
      BY <1>1, <2>1 DEF Unique, Led, Agreed
    <2>6. InTurn'
      BY <1>1, <2>2, <2>5 DEF RegisterInv, InTurn, Stage, Resting
    <2> QED BY <2>3, <2>4, <2>6 DEF RegisterInv
  <1>2. ASSUME NEW value \in BOOLEAN, Register!SetSignup(value)
        PROVE  RegisterInv'
    BY <1>1, <1>2 DEF Register!SetSignup, Register!rows
  <1>3. ASSUME NEW h \in Requests,
               \/ Register!Lookup(h) \/ Register!InsertUser(h) \/ Register!InsertAuth(h)
               \/ Register!Count(h) \/ Register!Promote(h) \/ Register!CloseSignup(h)
               \/ Register!WriteRole(h) \/ Register!EditAuth(h) \/ Register!EditUser(h)
               \/ Register!DeleteUser(h) \/ Register!DeleteAuth(h) \/ Register!Die(h)
        PROVE  RegisterInv'
    BY <1>3, RegisterLooksUp, RegisterInsertsUser, RegisterInsertsAuth, RegisterCounts,
       RegisterPromotes, RegisterCloses, RegisterWritesRole, RegisterEditsAuth,
       RegisterEditsUser, RegisterDeletesUser, RegisterDeletesAuth, RegisterDies
  <1> QED BY <1>1, <1>2, <1>3, RegisterRequests DEF Register!Next, register

\* No step takes the primary user, or the role of an administrator who is it.
LEMMA RegisterPrimaryStays ==
    ASSUME RegisterInv, [Register!Next]_register,
           NEW u \in Register!Admins, u = Register!Primary
    PROVE  u \in DOMAIN users' /\ users'[u].role = "admin"
  <1>1. u \in DOMAIN users /\ users[u].role = "admin" /\ u \in Nat /\ u <= accounts
        /\ accounts \in Nat /\ users[u] \in [email : Emails, role : {"user", "admin"}]
    BY DEF Register!Admins, RegisterInv, AccountsOK
  <1>2. CASE UNCHANGED users
    BY <1>1, <1>2
  <1>3. ASSUME NEW h \in Requests, Register!InsertUser(h)
        PROVE  u \in DOMAIN users' /\ users'[u].role = "admin"
    <2>1. u # accounts + 1
      BY <1>1
    <2> QED BY <1>1, <1>3, <2>1 DEF Register!InsertUser
  <1>4. ASSUME NEW h \in Requests, Register!Promote(h)
        PROVE  u \in DOMAIN users' /\ users'[u].role = "admin"
    BY <1>1, <1>4 DEF Register!Promote
  <1>5. ASSUME NEW h \in Requests, Register!WriteRole(h)
        PROVE  u \in DOMAIN users' /\ users'[u].role = "admin"
    <2>1. u = handler[h].id => handler[h].kind = "admin"
      BY <1>1, <1>5 DEF Register!WriteRole, RegisterInv, PrimaryOK, Entitled
    <2> QED BY <1>1, <1>5, <2>1 DEF Register!WriteRole
  <1>6. ASSUME NEW h \in Requests, Register!EditUser(h)
        PROVE  u \in DOMAIN users' /\ users'[u].role = "admin"
    BY <1>1, <1>6 DEF Register!EditUser
  <1>7. ASSUME NEW h \in Requests, Register!DeleteUser(h)
        PROVE  u \in DOMAIN users' /\ users'[u].role = "admin"
    <2>1. u # handler[h].id
      BY <1>1, <1>7 DEF Register!DeleteUser, RegisterInv, PrimaryOK, Entitled
    <2> QED BY <1>1, <1>7, <2>1 DEF Register!DeleteUser
  <1>8. ASSUME NEW h \in Requests,
               \/ \E email \in Emails : Register!SignUp(h, email)
                  \/ Register!ExternalSignIn(h, email)
               \/ \E a \in Register!Admins, v \in DOMAIN users :
                    \/ Register!Delete(h, a, v)
                    \/ \E role \in {"user", "admin"} : Register!SetRole(h, a, v, role)
                    \/ \E email \in Emails : Register!SetEmail(h, a, v, email)
               \/ Register!Lookup(h) \/ Register!InsertAuth(h) \/ Register!Count(h)
               \/ Register!CloseSignup(h) \/ Register!EditAuth(h) \/ Register!DeleteAuth(h)
               \/ Register!Die(h)
        PROVE  UNCHANGED users
    BY <1>8 DEF Register!SignUp, Register!ExternalSignIn, Register!Delete, Register!SetRole,
                Register!SetEmail, Register!Start, Register!rows, Register!Lookup,
                Register!InsertAuth, Register!Count, Register!CloseSignup, Register!EditAuth,
                Register!DeleteAuth, Register!Die
  <1>9. ASSUME NEW value \in BOOLEAN, Register!SetSignup(value)
        PROVE  UNCHANGED users
    BY <1>9 DEF Register!SetSignup, Register!rows
  <1>10. CASE UNCHANGED register
    BY <1>2, <1>10 DEF register
  <1> QED BY <1>2, <1>3, <1>4, <1>5, <1>6, <1>7, <1>8, <1>9, <1>10 DEF Register!Next

\* What the invariant says to those who use the accounts.
LEMMA RegisterAgrees == RegisterInv => Register!AccountsAgree
  <1>. SUFFICES ASSUME RegisterInv PROVE Register!AccountsAgree
    OBVIOUS
  <1>1. Register!OneBootstrap
    BY DEF RegisterInv, PrimaryOK, Register!OneBootstrap
  <1>2. users # <<>> => DOMAIN users # {}
    <2>1. users = [u \in DOMAIN users |-> users[u]]
      BY DEF RegisterInv, AccountsOK
    <2>2. DOMAIN users = {} => users = [u \in {} |-> users[u]]
      BY <2>1
    <2>3. <<>> = [u \in {} |-> users[u]]
      OBVIOUS
    <2> QED BY <2>2, <2>3
  <1>3. ~crossed /\ Register!Busy = {} => Resting
    BY DEF RegisterInv, InTurn
  <1>4. Register!PrimaryExists
    BY <1>2, <1>3 DEF Register!PrimaryExists, Resting, Led
  <1>5. Register!RowsAgree
    BY <1>3 DEF Register!RowsAgree, Resting, Unique, Agreed, Register!Named
  <1> QED BY <1>1, <1>4, <1>5 DEF Register!AccountsAgree

\* For any number of users, addresses and requests at once: only the primary
\* user is ever promoted for being alone, and no request takes the user or the
\* role from the primary administrator (routers/users.py:601-618, 717-730);
\* and when requests run one after the other, there is a primary administrator
\* and each user has the credential of the same address.
THEOREM AccountsAreServed == MCSpec => AccountsServed
  <1>1. MCInit => RegisterInv
    BY RegisterInit DEF MCInit
  <1>2. [MCNext]_<<part, vars, branch, turn, register, tokens, limiter, tree, index, memories>>
          => [Register!Next]_register
    BY DEF MCNext
  <1>3. RegisterInv /\ [Register!Next]_register => RegisterInv'
    BY RegisterNext
  <1>4. RegisterInv /\ [Register!Next]_register
          => [\A u \in Register!Admins : u = Register!Primary =>
                 u \in DOMAIN users' /\ users'[u].role = "admin"]_(Register!vars)
    BY RegisterPrimaryStays
  <1>5. RegisterInv => Register!AccountsAgree
    BY RegisterAgrees
  <1> QED BY <1>1, <1>2, <1>3, <1>4, <1>5, PTL
          DEF MCSpec, AccountsServed, Register!AccountsServed, Register!PrimaryStays

-----------------------------------------------------------------------------
(* Sessions with OAuth providers.                                          *)

\* What a request about sessions is doing.
Stages == {"idle", "prune", "load", "fallback", "exchange", "update", "drop"}
Exchanges ==
    [kind : {"none", "signin", "logout", "token"}, at : Stages, on : Nat, token : Nat,
     left : SUBSET Nat, fell : BOOLEAN]

Placed(r) ==
    /\ r.on <= sessions /\ r.left \subseteq 1 .. sessions
    /\ r.at \in {"load", "exchange", "update", "drop"} => r.on # 0

TokensOK ==
    /\ sessions \in Nat /\ writes \in Nat
    /\ store = [s \in DOMAIN store |-> store[s]] /\ DOMAIN store \subseteq 1 .. sessions
    /\ \A s \in DOMAIN store :
          /\ store[s] \in [token : Nat, fresh : BOOLEAN, touched : Nat]
          /\ store[s].touched <= writes
    /\ honoured \in [1 .. sessions -> Nat]
    /\ call \in [Requests -> Exchanges]
    /\ \A h \in Requests : Placed(call[h])

\* One request refreshes a session, unless two were seen at it.
Refreshes(r) == r.at \in {"exchange", "update", "drop"}
SoleRefresh ==
    \A h, g \in Requests :
        Refreshes(call[h]) /\ Refreshes(call[g]) /\ call[h].on = call[g].on
            => h = g \/ call[h].on \in torn

\* What a refresh brings back from the provider is what that honours.
InHand ==
    \A h \in Requests :
        call[h].at = "update" =>
            call[h].on \in torn \/ honoured[call[h].on] = 0 \/ call[h].token = honoured[call[h].on]

RefreshOK == SoleRefresh /\ InHand /\ Tokens!StoredIsHonoured

\* A sign-in that runs by itself leaves room for the session it will create.
Room == IF manager = "client" THEN 0 ELSE MaxPerUser - 1
SoleSignIn ==
    ~crowded => \A h, g \in Requests : call[h].kind = "signin" /\ call[g].kind = "signin" => h = g
RoomToCome ==
    ~crowded =>
        \A h \in Requests :
            call[h].kind = "signin" => Cardinality(DOMAIN store \ call[h].left) <= Room

SignInOK == SoleSignIn /\ RoomToCome /\ Tokens!LimitHolds

TokensInv == TokensOK /\ RefreshOK /\ SignInOK

\* A request that goes to its next step.
LEMMA CallIs ==
    ASSUME TokensOK, NEW h \in Requests, NEW r \in Exchanges, call' = [call EXCEPT ![h] = r]
    PROVE  /\ call' \in [Requests -> Exchanges] /\ call'[h] = r
           /\ \A x \in Requests : x # h => call'[x] = call[x]
           /\ \A x, y \in Requests : call'[x] # call[x] /\ call'[y] # call[y] => x = y
  BY DEF TokensOK

\* A request that goes to another stage.
LEMMA CallAt ==
    ASSUME NEW r \in Exchanges, NEW a \in Stages
    PROVE  /\ [r EXCEPT !.at = a] \in Exchanges
           /\ [r EXCEPT !.at = a].at = a /\ [r EXCEPT !.at = a].kind = r.kind
           /\ [r EXCEPT !.at = a].on = r.on /\ [r EXCEPT !.at = a].token = r.token
           /\ [r EXCEPT !.at = a].left = r.left /\ [r EXCEPT !.at = a].fell = r.fell
  <1>1. [r EXCEPT !.at = a] \in Exchanges
    BY DEF Exchanges
  <1>2. /\ [r EXCEPT !.at = a].at = a /\ [r EXCEPT !.at = a].kind = r.kind
        /\ [r EXCEPT !.at = a].on = r.on /\ [r EXCEPT !.at = a].token = r.token
    BY DEF Exchanges
  <1>3. [r EXCEPT !.at = a].left = r.left /\ [r EXCEPT !.at = a].fell = r.fell
    BY DEF Exchanges
  <1> QED BY <1>1, <1>2, <1>3

\* The other things a request may be given.
LEMMA CallGiven ==
    ASSUME NEW r \in Exchanges
    PROVE  /\ \A k \in {"none", "signin", "logout", "token"} : [r EXCEPT !.kind = k] \in Exchanges
           /\ \A s \in Nat : [r EXCEPT !.on = s] \in Exchanges
           /\ \A t \in Nat : [r EXCEPT !.token = t] \in Exchanges
           /\ \A D \in SUBSET Nat : [r EXCEPT !.left = D] \in Exchanges
           /\ [r EXCEPT !.fell = TRUE] \in Exchanges
  BY DEF Exchanges

\* A request that rests.
LEMMA CallIdle ==
    ASSUME sessions \in Nat
    PROVE  /\ Tokens!Idle \in Exchanges /\ Placed(Tokens!Idle)
           /\ Tokens!Idle.at = "idle" /\ Tokens!Idle.kind = "none" /\ Tokens!Idle.left = {}
           /\ Tokens!Idle.on = 0 /\ Tokens!Idle.token = 0
  BY DEF Tokens!Idle, Exchanges, Stages, Placed

\* The sessions there are can be counted.
LEMMA StoreCount ==
    ASSUME TokensOK
    PROVE  \A S \in SUBSET DOMAIN store :
              /\ IsFiniteSet(S) /\ Cardinality(S) \in Nat /\ Tokens!Cardinality(S) = Cardinality(S)
  <1>1. IsFiniteSet(1 .. sessions)
    BY FS_Interval DEF TokensOK
  <1>2. \A S \in SUBSET DOMAIN store : IsFiniteSet(S)
    BY <1>1, FS_Subset DEF TokensOK
  <1>3. \A S : Tokens!Cardinality(S) = Cardinality(S)
    BY DEF Tokens!Cardinality, Cardinality
  <1> QED BY <1>2, <1>3, FS_CardinalityType

\* The n newest sessions are at most n.
LEMMA NewestAtMost ==
    ASSUME TokensOK, NEW n \in Nat
    PROVE  Tokens!Newest(n) \subseteq DOMAIN store /\ Cardinality(Tokens!Newest(n)) <= n
  <1>. DEFINE S == DOMAIN store
              N == Tokens!Newest(n)
              above(m) == {x \in S : x > m}
  <1>1. S \subseteq Nat /\ N \subseteq S
    BY DEF Tokens!Newest, TokensOK
  <1>2. \A m \in N : Cardinality(above(m)) < n
    <2>1. \A m \in S : Tokens!Cardinality(above(m)) = Cardinality(above(m))
      BY StoreCount
    <2> QED BY <1>1, <2>1 DEF Tokens!Newest
  <1>3. CASE N = {}
    BY <1>1, <1>3, FS_EmptySet
  <1>4. CASE N # {}
    <2>1. PICK m \in N : \A y \in N : <<y, m>> \notin OpToRel(<, Nat)
      BY <1>1, <1>4, WFMin, NatLessThanWellFounded, Zenon
    <2>2. \A y \in N : ~(y < m)
      BY <1>1, <2>1, Zenon DEF OpToRel
    <2>3. N \subseteq above(m) \cup {m}
      BY <1>1, <2>2
    <2>4. /\ IsFiniteSet(above(m)) /\ Cardinality(above(m)) \in Nat /\ Cardinality(above(m)) < n
          /\ IsFiniteSet(N) /\ Cardinality(N) \in Nat
      <3>1. above(m) \in SUBSET S /\ N \in SUBSET S
        BY <1>1
      <3>2. Cardinality(above(m)) < n
        BY <1>2
      <3>3. \A T \in SUBSET S : IsFiniteSet(T) /\ Cardinality(T) \in Nat
        BY StoreCount
      <3>. HIDE DEF above, N, S
      <3> QED BY <3>1, <3>2, <3>3
    <2>. HIDE DEF above, N
    <2>5. /\ IsFiniteSet(above(m) \cup {m})
          /\ Cardinality(above(m) \cup {m}) <= Cardinality(above(m)) + 1
          /\ Cardinality(above(m) \cup {m}) \in Nat
      <3>. DEFINE A == above(m)
      <3>1. IsFiniteSet(A) /\ Cardinality(A) \in Nat
        BY <2>4
      <3>. HIDE DEF A
      <3>2. /\ IsFiniteSet(A \cup {m})
            /\ Cardinality(A \cup {m}) = IF m \in A THEN Cardinality(A) ELSE Cardinality(A) + 1
        BY <3>1, FS_AddElement
      <3>3. IsFiniteSet(A \cup {m}) /\ Cardinality(A \cup {m}) <= Cardinality(A) + 1
            /\ Cardinality(A \cup {m}) \in Nat
        BY <3>1, <3>2
      <3> QED BY <3>3 DEF A
    <2>6. Cardinality(N) <= Cardinality(above(m) \cup {m})
      BY <2>3, <2>5, FS_Subset
    <2>7. Cardinality(N) <= n
      BY <2>4, <2>5, <2>6
    <2> QED BY <1>1, <2>7 DEF N
  <1> QED BY <1>3, <1>4

\* Of sessions some was updated last.
LEMMA LastIs ==
    ASSUME TokensOK, DOMAIN store # {}
    PROVE  Tokens!Last \in DOMAIN store
  <1>. DEFINE D == {writes - store[s].touched : s \in DOMAIN store}
  <1>1. D \subseteq Nat /\ D # {}
    BY DEF TokensOK
  <1>2. PICK m \in D : \A y \in D : <<y, m>> \notin OpToRel(<, Nat)
    BY <1>1, WFMin, NatLessThanWellFounded, Zenon
  <1>3. \A y \in D : ~(y < m)
    BY <1>1, <1>2, Zenon DEF OpToRel
  <1>4. PICK s \in DOMAIN store : m = writes - store[s].touched
    OBVIOUS
  <1>5. ASSUME NEW x \in DOMAIN store
        PROVE  store[x].touched <= store[s].touched
    <2>1. writes - store[x].touched \in D
      OBVIOUS
    <2>2. ~(writes - store[x].touched < writes - store[s].touched)
      BY <1>3, <1>4, <2>1
    <2>3. writes \in Nat /\ store[x].touched \in Nat /\ store[s].touched \in Nat
      BY DEF TokensOK
    <2> QED BY <2>2, <2>3
  <1>6. \E t \in DOMAIN store : \A x \in DOMAIN store : store[x].touched <= store[t].touched
    BY <1>5
  <1> QED BY <1>6 DEF Tokens!Last

\* What a step leaves of the refreshes that updates no row and brings no
\* token from the provider.
LEMMA RefreshKept ==
    ASSUME TokensInv, sessions' = sessions, torn \subseteq torn',
           \A s \in DOMAIN store' : s \in DOMAIN store /\ store'[s].token = store[s].token,
           \A s \in 1 .. sessions : honoured'[s] \in {honoured[s], 0} \/ s \in torn',
           \A x, y \in Requests : call'[x] # call[x] /\ call'[y] # call[y] => x = y,
           \A x \in Requests :
              call'[x] # call[x] =>
                 /\ call'[x].at # "update"
                 /\ call[x].at = "update" => call[x].on \in torn'
                    \/ call[x].on \notin DOMAIN store'
                 /\ Refreshes(call'[x]) =>
                      \/ Refreshes(call[x]) /\ call'[x].on = call[x].on
                      \/ call'[x].on \in torn'
                      \/ \A y \in Requests : ~(Refreshes(call[y]) /\ call[y].on = call'[x].on)
    PROVE  RefreshOK'
  <1>1. SoleRefresh'
    <2>. SUFFICES ASSUME NEW h \in Requests, NEW g \in Requests, h # g,
                         Refreshes(call'[h]), Refreshes(call'[g]), call'[h].on = call'[g].on
                  PROVE  call'[h].on \in torn'
      BY DEF SoleRefresh, Refreshes
    <2>1. SoleRefresh
      BY DEF TokensInv, RefreshOK
    <2>2. CASE call'[h] = call[h] /\ call'[g] = call[g]
      BY <2>1, <2>2 DEF SoleRefresh
    <2>3. CASE call'[h] # call[h] /\ call'[g] = call[g]
      BY <2>1, <2>3 DEF SoleRefresh
    <2>4. CASE call'[h] = call[h] /\ call'[g] # call[g]
      BY <2>1, <2>4 DEF SoleRefresh
    <2> QED BY <2>2, <2>3, <2>4
  <1>2. InHand'
    <2>. SUFFICES ASSUME NEW h \in Requests, call'[h].at = "update"
                  PROVE  \/ call'[h].on \in torn' \/ honoured'[call'[h].on] = 0
                         \/ call'[h].token = honoured'[call'[h].on]
      BY DEF InHand
    <2>1. call'[h] = call[h]
      OBVIOUS
    <2>2. call[h].on \in 1 .. sessions
      BY <2>1 DEF TokensInv, TokensOK, Placed, Exchanges
    <2> QED BY <2>1, <2>2 DEF TokensInv, RefreshOK, InHand
  <1>3. Tokens!StoredIsHonoured'
    <2>. SUFFICES ASSUME NEW s \in DOMAIN store'
                  PROVE  \/ s \in torn' \/ honoured'[s] = 0
                         \/ \E h \in Requests : call'[h].at = "update" /\ call'[h].on = s
                         \/ store'[s].token = honoured'[s]
      BY DEF Tokens!StoredIsHonoured
    <2>1. s \in DOMAIN store /\ s \in 1 .. sessions /\ store'[s].token = store[s].token
      BY DEF TokensInv, TokensOK
    <2>2. \/ s \in torn \/ honoured[s] = 0
          \/ \E h \in Requests : call[h].at = "update" /\ call[h].on = s
          \/ store[s].token = honoured[s]
      BY <2>1 DEF TokensInv, RefreshOK, Tokens!StoredIsHonoured
    <2>3. ASSUME NEW h \in Requests, call[h].at = "update", call[h].on = s
          PROVE  s \in torn' \/ (call'[h].at = "update" /\ call'[h].on = s)
      BY <2>3
    <2> QED BY <2>1, <2>2, <2>3
  <1> QED BY <1>1, <1>2, <1>3 DEF RefreshOK

\* The sessions a sign-in may leave.
LEMMA RoomIs == Room \in Nat
   /\ Tokens!LimitHolds = (~crowded => Tokens!Cardinality(DOMAIN store) <= Room + 1)
  BY SessionConstants DEF Room, Tokens!LimitHolds

\* What a step leaves of the limit that creates no session.
LEMMA SignInKept ==
    ASSUME TokensInv, TokensOK', DOMAIN store' \subseteq DOMAIN store, crowded' = crowded,
           manager' = manager,
           \A x \in Requests :
              call'[x].kind = "signin" =>
                 /\ call[x].kind = "signin"
                 /\ DOMAIN store' \ call'[x].left \subseteq DOMAIN store \ call[x].left
    PROVE  SignInOK'
  <1>1. Room' = Room /\ Room \in Nat
    BY RoomIs DEF Room
  <1>2. SoleSignIn'
    BY DEF TokensInv, SignInOK, SoleSignIn
  <1>3. RoomToCome'
    <2>. SUFFICES ASSUME ~crowded, NEW h \in Requests, call'[h].kind = "signin"
                  PROVE  Cardinality(DOMAIN store' \ call'[h].left) <= Room
      BY <1>1 DEF RoomToCome
    <2>. DEFINE new == DOMAIN store' \ call'[h].left
                old == DOMAIN store \ call[h].left
    <2>1. new \subseteq old /\ old \subseteq DOMAIN store /\ Cardinality(old) <= Room
      BY DEF TokensInv, SignInOK, RoomToCome
    <2>2. new \in SUBSET DOMAIN store /\ old \in SUBSET DOMAIN store
      BY <2>1
    <2>. HIDE DEF new, old
    <2>3. IsFiniteSet(old) /\ Cardinality(old) \in Nat /\ Cardinality(new) \in Nat
      BY <2>2, StoreCount DEF TokensInv
    <2>4. Cardinality(new) <= Cardinality(old)
      BY <2>1, <2>3, FS_Subset
    <2>5. Cardinality(new) <= Room
      BY <1>1, <2>1, <2>3, <2>4
    <2> QED BY <2>5 DEF new
  <1>4. Tokens!LimitHolds'
    <2>. SUFFICES ASSUME ~crowded PROVE Tokens!LimitHolds'
      BY DEF Tokens!LimitHolds
    <2>1. Tokens!Cardinality(DOMAIN store) <= Room + 1
      BY RoomIs DEF TokensInv, SignInOK
    <2>2. /\ IsFiniteSet(DOMAIN store) /\ Cardinality(DOMAIN store) \in Nat
          /\ Tokens!Cardinality(DOMAIN store) = Cardinality(DOMAIN store)
          /\ Cardinality(DOMAIN store') \in Nat
          /\ Tokens!Cardinality(DOMAIN store') = Cardinality(DOMAIN store')
      BY StoreCount DEF TokensInv
    <2>3. Cardinality(DOMAIN store') <= Cardinality(DOMAIN store)
      BY <2>2, FS_Subset
    <2>4. Tokens!Cardinality(DOMAIN store') <= Room + 1
      BY <1>1, <2>1, <2>2, <2>3
    <2>5. Room + 1 = IF manager = "client" THEN 1 ELSE MaxPerUser
      BY SessionConstants DEF Room
    <2> QED BY <2>4, <2>5 DEF Tokens!LimitHolds
  <1> QED BY <1>2, <1>3, <1>4 DEF SignInOK

\* Sessions that go, or none, while a request goes on with what it has.
LEMMA TokensCalls ==
    ASSUME TokensInv, NEW h \in Requests, NEW r \in Exchanges, NEW D,
           call' = [call EXCEPT ![h] = r], Placed(r),
           store' = [s \in DOMAIN store \ D |-> store[s]],
           UNCHANGED <<manager, sessions, writes, crowded>>, torn \subseteq torn',
           honoured' \in [1 .. sessions -> Nat],
           \A s \in 1 .. sessions : honoured'[s] \in {honoured[s], 0} \/ s \in torn',
           r.at # "update",
           call[h].at = "update" => call[h].on \in torn' \/ call[h].on \notin DOMAIN store,
           Refreshes(r) => \/ Refreshes(call[h]) /\ r.on = call[h].on
                           \/ r.on \in torn'
                           \/ Tokens!Refreshing(r.on) = {},
           r.kind = "signin" => call[h].kind = "signin" /\ call[h].left \subseteq r.left \cup D
    PROVE  TokensInv'
  <1>1. /\ call' \in [Requests -> Exchanges] /\ call'[h] = r
        /\ \A x \in Requests : x # h => call'[x] = call[x]
        /\ \A x, y \in Requests : call'[x] # call[x] /\ call'[y] # call[y] => x = y
    BY CallIs DEF TokensInv
  <1>2. DOMAIN store' = DOMAIN store \ D /\ \A s \in DOMAIN store' : store'[s] = store[s]
    OBVIOUS
  <1>3. TokensOK'
    <2>1. \A x \in Requests : Placed(call[x])'
      BY <1>1 DEF TokensInv, TokensOK, Placed
    <2>2. store' = [s \in DOMAIN store' |-> store'[s]]
      OBVIOUS
    <2> QED BY <1>1, <1>2, <2>1, <2>2 DEF TokensInv, TokensOK
  <1>4. RefreshOK'
    <2>1. \A x \in Requests :
              call'[x] # call[x] =>
                 /\ call'[x].at # "update"
                 /\ call[x].at = "update" => call[x].on \in torn'
                    \/ call[x].on \notin DOMAIN store'
                 /\ Refreshes(call'[x]) =>
                      \/ Refreshes(call[x]) /\ call'[x].on = call[x].on
                      \/ call'[x].on \in torn'
                      \/ \A y \in Requests : ~(Refreshes(call[y]) /\ call[y].on = call'[x].on)
      <3>1. Tokens!Refreshing(r.on) = {} =>
                \A y \in Requests : ~(Refreshes(call[y]) /\ call[y].on = r.on)
        BY DEF Tokens!Refreshing, Refreshes
      <3> QED BY <1>1, <1>2, <3>1
    <2> QED BY <1>1, <1>2, <2>1, RefreshKept
  <1>5. SignInOK'
    <2>1. \A x \in Requests :
              call'[x].kind = "signin" =>
                 /\ call[x].kind = "signin"
                 /\ DOMAIN store' \ call'[x].left \subseteq DOMAIN store \ call[x].left
      BY <1>1, <1>2
    <2> QED BY <1>2, <1>3, <2>1, SignInKept
  <1> QED BY <1>3, <1>4, <1>5 DEF TokensInv

\* The rows as they are.
LEMMA NoneGone ==
    ASSUME TokensInv, UNCHANGED store
    PROVE  store' = [s \in DOMAIN store \ {} |-> store[s]]
  <1>1. store = [s \in DOMAIN store |-> store[s]]
    BY DEF TokensInv, TokensOK
  <1>2. DOMAIN store \ {} = DOMAIN store
    OBVIOUS
  <1> QED BY <1>1, <1>2

\* What the provider honours as it was.
LEMMA StillHonoured ==
    ASSUME TokensInv, UNCHANGED <<honoured, sessions>>
    PROVE  /\ honoured' \in [1 .. sessions -> Nat]
           /\ \A s \in 1 .. sessions : honoured'[s] \in {honoured[s], 0} \/ s \in torn'
  BY DEF TokensInv, TokensOK

\* A request that had nothing to do begins, with no row changed.
LEMMA TokensBegins ==
    ASSUME TokensInv, NEW h \in Requests, NEW r \in Exchanges, call[h].at = "idle",
           call' = [call EXCEPT ![h] = r], Placed(r), r.at \in {"prune", "load"},
           r.kind # "signin",
           UNCHANGED <<manager, store, honoured, sessions, writes, torn, crowded>>
    PROVE  TokensInv'
  <1>1. store' = [s \in DOMAIN store \ {} |-> store[s]]
    BY NoneGone
  <1>2. /\ honoured' \in [1 .. sessions -> Nat]
        /\ \A s \in 1 .. sessions : honoured'[s] \in {honoured[s], 0} \/ s \in torn'
    BY StillHonoured
  <1> QED BY <1>1, <1>2, TokensCalls DEF Refreshes

\* A back-channel logout begins.
LEMMA TokensLogsOut ==
    ASSUME TokensInv, NEW h \in Requests, Tokens!Logout(h)
    PROVE  TokensInv'
  <1>. DEFINE r == [Tokens!Idle EXCEPT !.kind = "logout", !.at = "prune", !.left = DOMAIN store]
  <1>1. /\ call[h].at = "idle" /\ call' = [call EXCEPT ![h] = r]
        /\ UNCHANGED <<manager, store, honoured, sessions, writes, torn, crowded>>
    BY DEF Tokens!Logout, Tokens!Start, Tokens!setup
  <1>2. DOMAIN store \subseteq 1 .. sessions /\ DOMAIN store \in SUBSET Nat /\ sessions \in Nat
    BY DEF TokensInv, TokensOK
  <1>3. Tokens!Idle \in Exchanges /\ [Tokens!Idle EXCEPT !.kind = "logout"] \in Exchanges
    BY <1>2, CallIdle, CallGiven
  <1>4. [[Tokens!Idle EXCEPT !.kind = "logout"] EXCEPT !.at = "prune"] \in Exchanges
    BY <1>3, CallAt DEF Stages
  <1>5. r \in Exchanges
    BY <1>2, <1>4, CallGiven
  <1>6. r.at = "prune" /\ r.kind = "logout" /\ r.left = DOMAIN store /\ r.on = 0
    BY DEF Tokens!Idle
  <1>. HIDE DEF r
  <1>7. Placed(r)
    BY <1>2, <1>6 DEF Placed
  <1> QED BY <1>1, <1>5, <1>6, <1>7, TokensBegins

\* A request for a token begins.
LEMMA TokensGets ==
    ASSUME TokensInv, NEW h \in Requests, NEW s \in 1 .. sessions, Tokens!GetToken(h, s)
    PROVE  TokensInv'
  <1>. DEFINE r == [Tokens!Idle EXCEPT !.kind = "token", !.at = "load", !.on = s]
  <1>1. /\ call[h].at = "idle" /\ call' = [call EXCEPT ![h] = r]
        /\ UNCHANGED <<manager, store, honoured, sessions, writes, torn, crowded>>
    BY DEF Tokens!GetToken, Tokens!Start, Tokens!setup
  <1>2. sessions \in Nat /\ s \in Nat /\ s <= sessions /\ s # 0
    BY DEF TokensInv, TokensOK
  <1>3. Tokens!Idle \in Exchanges /\ [Tokens!Idle EXCEPT !.kind = "token"] \in Exchanges
    BY <1>2, CallIdle, CallGiven
  <1>4. [[Tokens!Idle EXCEPT !.kind = "token"] EXCEPT !.at = "load"] \in Exchanges
    BY <1>3, CallAt DEF Stages
  <1>5. r \in Exchanges
    BY <1>2, <1>4, CallGiven
  <1>6. r.at = "load" /\ r.kind = "token" /\ r.left = {} /\ r.on = s
    BY DEF Tokens!Idle
  <1>. HIDE DEF r
  <1>7. Placed(r)
    BY <1>2, <1>6 DEF Placed
  <1> QED BY <1>1, <1>5, <1>6, <1>7, TokensBegins

\* A request ends that has nothing in hand, or whose session has been torn.
LEMMA TokensEnds ==
    ASSUME TokensInv, NEW h \in Requests, NEW D, Tokens!End(h), torn \subseteq torn',
           call[h].at = "update" => call[h].on \in torn' \/ call[h].on \notin DOMAIN store,
           store' = [s \in DOMAIN store \ D |-> store[s]],
           UNCHANGED <<manager, honoured, sessions, writes, crowded>>
    PROVE  TokensInv'
  <1>. DEFINE r == Tokens!Idle
  <1>1. call' = [call EXCEPT ![h] = r]
    BY DEF Tokens!End
  <1>2. r \in Exchanges /\ Placed(r) /\ r.at = "idle" /\ r.kind = "none"
    BY CallIdle DEF TokensInv, TokensOK
  <1>. HIDE DEF r
  <1>3. /\ honoured' \in [1 .. sessions -> Nat]
        /\ \A s \in 1 .. sessions : honoured'[s] \in {honoured[s], 0} \/ s \in torn'
    BY StillHonoured
  <1> QED BY <1>1, <1>2, <1>3, TokensCalls DEF Refreshes

\* A request goes to a stage of which nothing else is asked, or gives up.
LEMMA TokensGoes ==
    ASSUME TokensInv, NEW h \in Requests, NEW a \in Stages, NEW D,
           call[h].at # "idle", call[h].on # 0, call' = [call EXCEPT ![h].at = a], a # "update",
           a \in {"exchange", "drop"} =>
              Refreshes(call[h]) \/ call[h].on \in torn' \/ Tokens!Refreshing(call[h].on) = {},
           call[h].at = "update" => call[h].on \in torn' \/ call[h].on \notin DOMAIN store,
           store' = [s \in DOMAIN store \ D |-> store[s]],
           UNCHANGED <<manager, sessions, writes, crowded>>, torn \subseteq torn',
           honoured' \in [1 .. sessions -> Nat],
           \A s \in 1 .. sessions : honoured'[s] \in {honoured[s], 0} \/ s \in torn'
    PROVE  TokensInv'
  <1>. DEFINE r == [call[h] EXCEPT !.at = a]
  <1>1. call[h] \in Exchanges /\ Placed(call[h]) /\ call' = [call EXCEPT ![h] = r]
    BY DEF TokensInv, TokensOK
  <1>2. /\ r \in Exchanges /\ r.at = a /\ r.kind = call[h].kind /\ r.on = call[h].on
        /\ r.left = call[h].left
    BY <1>1, CallAt
  <1>. HIDE DEF r
  <1>3. Placed(r)
    BY <1>1, <1>2 DEF Placed
  <1> QED BY <1>1, <1>2, <1>3, TokensCalls DEF Refreshes

\* A request without a token falls back once, or ends.
LEMMA TokensFails ==
    ASSUME TokensInv, NEW h \in Requests, NEW D, Tokens!Fails(h),
           call[h].at \notin {"idle", "update"}, call[h].on # 0,
           store' = [s \in DOMAIN store \ D |-> store[s]],
           UNCHANGED <<manager, honoured, sessions, writes, torn, crowded>>
    PROVE  TokensInv'
  <1>1. /\ honoured' \in [1 .. sessions -> Nat]
        /\ \A s \in 1 .. sessions : honoured'[s] \in {honoured[s], 0} \/ s \in torn'
    BY StillHonoured
  <1>2. call \in [Requests -> Exchanges]
    BY DEF TokensInv, TokensOK
  <1>3. CASE manager = "sso" /\ ~call[h].fell
    <2>1. call' = [call EXCEPT ![h].at = "fallback"]
      BY <1>2, <1>3 DEF Tokens!Fails
    <2> QED BY <1>1, <2>1, TokensGoes DEF Stages
  <1>4. CASE ~(manager = "sso" /\ ~call[h].fell)
    <2>1. Tokens!End(h)
      BY <1>2, <1>4 DEF Tokens!Fails, Tokens!End
    <2> QED BY <2>1, TokensEnds
  <1> QED BY <1>3, <1>4

\* A session is loaded: one that is fresh is used, an old one is to be refreshed.
LEMMA TokensLoads ==
    ASSUME TokensInv, NEW h \in Requests, Tokens!Load(h)
    PROVE  TokensInv'
  <1>. DEFINE s == call[h].on
  <1>1. /\ call[h].at = "load" /\ s # 0 /\ call[h] \in Exchanges /\ Placed(call[h])
        /\ call \in [Requests -> Exchanges]
        /\ UNCHANGED <<manager, store, honoured, sessions, writes, crowded>>
    BY DEF Tokens!Load, Tokens!setup, TokensInv, TokensOK, Placed
  <1>2. store' = [x \in DOMAIN store \ {} |-> store[x]]
    BY <1>1, NoneGone
  <1>3. CASE s \notin DOMAIN store
    BY <1>1, <1>2, <1>3, TokensFails DEF Tokens!Load
  <1>4. CASE s \in DOMAIN store /\ store[s].fresh
    BY <1>1, <1>2, <1>4, TokensEnds DEF Tokens!Load
  <1>5. CASE s \in DOMAIN store /\ ~store[s].fresh
    <2>. DEFINE q == [call[h] EXCEPT !.at = "exchange"]
                r == [q EXCEPT !.token = store[s].token]
    <2>1. /\ call' = [call EXCEPT ![h].at = "exchange", ![h].token = store[s].token]
          /\ torn' = IF Tokens!Refreshing(s) = {} THEN torn ELSE torn \cup {s}
      BY <1>5 DEF Tokens!Load
    <2>2. call' = [call EXCEPT ![h] = r]
      BY <1>1, <2>1
    <2>3. store[s].token \in Nat
      BY <1>5 DEF TokensInv, TokensOK
    <2>4. /\ q \in Exchanges /\ q.at = "exchange" /\ q.kind = call[h].kind /\ q.on = s
          /\ q.left = call[h].left
      BY <1>1, CallAt DEF Stages
    <2>. HIDE DEF q
    <2>5. r \in Exchanges
      BY <2>3, <2>4, CallGiven
    <2>6. r.at = "exchange" /\ r.kind = call[h].kind /\ r.on = s /\ r.left = call[h].left
      BY <2>4 DEF Exchanges
    <2>. HIDE DEF r
    <2>7. Placed(r)
      BY <1>1, <2>6 DEF Placed
    <2>8. /\ honoured' \in [1 .. sessions -> Nat]
          /\ \A x \in 1 .. sessions : honoured'[x] \in {honoured[x], 0} \/ x \in torn'
      BY <1>1, StillHonoured
    <2>9. torn \subseteq torn' /\ (s \in torn' \/ Tokens!Refreshing(s) = {})
      BY <2>1
    <2> QED BY <1>1, <1>2, <2>2, <2>5, <2>6, <2>7, <2>8, <2>9, TokensCalls
  <1> QED BY <1>3, <1>4, <1>5

\* The session updated last is tried, if there is one.
LEMMA TokensFallsBack ==
    ASSUME TokensInv, NEW h \in Requests, Tokens!FallBack(h)
    PROVE  TokensInv'
  <1>1. /\ call[h].at = "fallback" /\ call[h] \in Exchanges /\ Placed(call[h])
        /\ call \in [Requests -> Exchanges]
        /\ UNCHANGED <<manager, store, honoured, sessions, writes, torn, crowded>>
    BY DEF Tokens!FallBack, Tokens!rest, Tokens!setup, TokensInv, TokensOK
  <1>2. store' = [x \in DOMAIN store \ {} |-> store[x]]
    BY <1>1, NoneGone
  <1>3. CASE DOMAIN store = {}
    BY <1>1, <1>2, <1>3, TokensEnds DEF Tokens!FallBack
  <1>4. CASE DOMAIN store # {}
    <2>. DEFINE last == Tokens!Last
                q == [call[h] EXCEPT !.at = "load"]
                p == [q EXCEPT !.on = last]
                r == [p EXCEPT !.fell = TRUE]
    <2>1. last \in DOMAIN store /\ last \in Nat /\ last # 0 /\ last <= sessions
      BY <1>4, LastIs DEF TokensInv, TokensOK
    <2>2. call' = [call EXCEPT ![h].at = "load", ![h].on = last, ![h].fell = TRUE]
      BY <1>4 DEF Tokens!FallBack
    <2>. HIDE DEF last
    <2>3. call' = [call EXCEPT ![h] = r]
      BY <1>1, <2>2
    <2>4. q \in Exchanges /\ q.at = "load" /\ q.kind = call[h].kind /\ q.left = call[h].left
      BY <1>1, CallAt DEF Stages
    <2>. HIDE DEF q
    <2>5. p \in Exchanges
      BY <2>1, <2>4, CallGiven
    <2>6. p.at = "load" /\ p.kind = call[h].kind /\ p.on = last /\ p.left = call[h].left
      BY <2>4 DEF Exchanges
    <2>. HIDE DEF p
    <2>7. r \in Exchanges
      BY <2>5, CallGiven
    <2>8. r.at = "load" /\ r.kind = call[h].kind /\ r.on = last /\ r.left = call[h].left
      BY <2>5, <2>6 DEF Exchanges
    <2>. HIDE DEF r
    <2>9. Placed(r)
      BY <1>1, <2>1, <2>8 DEF Placed
    <2>10. /\ honoured' \in [1 .. sessions -> Nat]
           /\ \A x \in 1 .. sessions : honoured'[x] \in {honoured[x], 0} \/ x \in torn'
      BY <1>1, StillHonoured
    <2> QED BY <1>1, <1>2, <2>3, <2>7, <2>8, <2>9, <2>10, TokensCalls DEF Refreshes
  <1> QED BY <1>3, <1>4

\* A refresh that failed deletes its session.
LEMMA TokensDrops ==
    ASSUME TokensInv, NEW h \in Requests, Tokens!Drop(h)
    PROVE  TokensInv'
  <1>1. /\ call[h].at = "drop" /\ call[h].on # 0
        /\ store' = [s \in DOMAIN store \ {call[h].on} |-> store[s]]
        /\ UNCHANGED <<manager, honoured, sessions, writes, torn, crowded>>
    BY DEF Tokens!Drop, Tokens!Without, Tokens!rest, Tokens!setup, TokensInv, TokensOK, Placed
  <1> QED BY <1>1, TokensFails DEF Tokens!Drop

\* The provider cannot be reached, or its answer is lost.
LEMMA TokensBreaks ==
    ASSUME TokensInv, NEW h \in Requests, Tokens!ExchangeBreaks(h)
    PROVE  TokensInv'
  <1>. DEFINE s == call[h].on
  <1>1. /\ call[h].at = "exchange" /\ s \in 1 .. sessions /\ s # 0
        /\ honoured \in [1 .. sessions -> Nat]
        /\ call' = [call EXCEPT ![h].at = "drop"] /\ torn' = torn \cup {s}
        /\ UNCHANGED <<manager, store, sessions, writes, crowded>>
    BY DEF Tokens!ExchangeBreaks, Tokens!Goto, Tokens!setup, TokensInv, TokensOK, Placed, Exchanges
  <1>2. honoured' = honoured \/ honoured' = [honoured EXCEPT ![s] = @ + 1]
    BY DEF Tokens!ExchangeBreaks
  <1>3. /\ honoured' \in [1 .. sessions -> Nat]
        /\ \A x \in 1 .. sessions : honoured'[x] \in {honoured[x], 0} \/ x \in torn'
    <2>. HIDE DEF s
    <2>1. CASE honoured' = honoured
      BY <1>1, <2>1
    <2>2. CASE honoured' = [honoured EXCEPT ![s] = @ + 1]
      <3>1. honoured[s] + 1 \in Nat
        BY <1>1
      <3>2. \A x \in 1 .. sessions : x # s => honoured'[x] = honoured[x]
        BY <1>1, <2>2
      <3>3. honoured' \in [1 .. sessions -> Nat]
        BY <1>1, <2>2, <3>1
      <3> QED BY <1>1, <3>2, <3>3
    <2> QED BY <1>2, <2>1, <2>2
  <1>4. store' = [x \in DOMAIN store \ {} |-> store[x]]
    BY <1>1, NoneGone
  <1> QED BY <1>1, <1>3, <1>4, TokensGoes DEF Refreshes, Stages

\* A process dies.
LEMMA TokensDies ==
    ASSUME TokensInv, NEW h \in Requests, Tokens!Die(h)
    PROVE  TokensInv'
  <1>1. /\ torn \subseteq torn' /\ (call[h].at = "update" => call[h].on \in torn')
        /\ UNCHANGED <<manager, store, honoured, sessions, writes, crowded>>
    BY DEF Tokens!Die, Tokens!setup
  <1>2. store' = [x \in DOMAIN store \ {} |-> store[x]]
    BY <1>1, NoneGone
  <1> QED BY <1>1, <1>2, TokensEnds DEF Tokens!Die

\* The provider accepts the token it honours, and hands out the next one.
LEMMA TokensExchanges ==
    ASSUME TokensInv, NEW h \in Requests, Tokens!Exchange(h)
    PROVE  TokensInv'
  <1>. DEFINE s == call[h].on
  <1>1. /\ call[h].at = "exchange" /\ s \in 1 .. sessions /\ s # 0 /\ call[h] \in Exchanges
        /\ Placed(call[h]) /\ honoured \in [1 .. sessions -> Nat] /\ TokensOK
        /\ call \in [Requests -> Exchanges] /\ honoured[s] \in Nat /\ call[h].token \in Nat
        /\ UNCHANGED <<manager, rotates, store, sessions, writes, torn, crowded>>
    BY DEF Tokens!Exchange, Tokens!setup, TokensInv, TokensOK, Placed, Exchanges
  <1>2. CASE ~(call[h].token # 0 /\ call[h].token = honoured[s])
    <2>1. call' = [call EXCEPT ![h].at = "drop"] /\ UNCHANGED honoured
      BY <1>2 DEF Tokens!Exchange, Tokens!Goto
    <2>2. store' = [x \in DOMAIN store \ {} |-> store[x]]
      BY <1>1, NoneGone
    <2>3. /\ honoured' \in [1 .. sessions -> Nat]
          /\ \A x \in 1 .. sessions : honoured'[x] \in {honoured[x], 0} \/ x \in torn'
      BY <1>1, <2>1, StillHonoured
    <2> QED BY <1>1, <2>1, <2>2, <2>3, TokensGoes DEF Refreshes, Stages
  <1>3. CASE call[h].token # 0 /\ call[h].token = honoured[s]
    <2>. DEFINE next == IF rotates THEN honoured[s] + 1 ELSE honoured[s]
                q == [call[h] EXCEPT !.at = "update"]
                r == [q EXCEPT !.token = next]
    <2>1. honoured' = [honoured EXCEPT ![s] = next] /\ next \in Nat
      BY <1>1, <1>3 DEF Tokens!Exchange
    <2>2. call' = [call EXCEPT ![h].at = "update", ![h].token = next]
      BY <1>1, <1>3 DEF Tokens!Exchange, Tokens!Merged
    <2>. HIDE DEF next
    <2>3. call' = [call EXCEPT ![h] = r]
      BY <1>1, <2>2
    <2>4. /\ q \in Exchanges /\ q.at = "update" /\ q.kind = call[h].kind /\ q.on = s
          /\ q.left = call[h].left
      BY <1>1, CallAt DEF Stages
    <2>. HIDE DEF q
    <2>5. r \in Exchanges
      BY <2>1, <2>4, CallGiven
    <2>6. /\ r.at = "update" /\ r.kind = call[h].kind /\ r.on = s /\ r.left = call[h].left
          /\ r.token = next
      BY <2>4 DEF Exchanges
    <2>. HIDE DEF r
    <2>7. /\ call' \in [Requests -> Exchanges] /\ call'[h] = r
          /\ \A x \in Requests : x # h => call'[x] = call[x]
      BY <1>1, <2>3, <2>5, CallIs
    <2>8. /\ honoured' \in [1 .. sessions -> Nat] /\ honoured'[s] = next
          /\ \A x \in 1 .. sessions : x # s => honoured'[x] = honoured[x]
      BY <1>1, <2>1
    <2>9. TokensOK'
      <3>1. \A x \in Requests : Placed(call[x])'
        BY <1>1, <2>6, <2>7 DEF Placed, TokensOK
      <3> QED BY <1>1, <2>7, <2>8, <3>1 DEF TokensOK
    <2>10. SoleRefresh'
      BY <1>1, <2>6, <2>7 DEF TokensInv, RefreshOK, SoleRefresh, Refreshes
    <2>11. InHand'
      <3>. SUFFICES ASSUME NEW x \in Requests, call'[x].at = "update"
                    PROVE  \/ call'[x].on \in torn \/ honoured'[call'[x].on] = 0
                           \/ call'[x].token = honoured'[call'[x].on]
        BY <1>1 DEF InHand
      <3>1. CASE x = h
        BY <2>6, <2>7, <2>8, <3>1
      <3>2. CASE x # h /\ call[x].on = s
        BY <1>1, <2>7, <3>2 DEF TokensInv, RefreshOK, SoleRefresh, Refreshes
      <3>3. CASE x # h /\ call[x].on # s
        <4>1. call[x].on \in 1 .. sessions /\ call'[x] = call[x]
          BY <2>7, <3>3 DEF TokensInv, TokensOK, Placed, Exchanges
        <4> QED BY <2>8, <3>3, <4>1 DEF TokensInv, RefreshOK, InHand
      <3> QED BY <3>1, <3>2, <3>3
    <2>12. Tokens!StoredIsHonoured'
      <3>. SUFFICES ASSUME NEW x \in DOMAIN store
                    PROVE  \/ x \in torn \/ honoured'[x] = 0
                           \/ \E g \in Requests : call'[g].at = "update" /\ call'[g].on = x
                           \/ store[x].token = honoured'[x]
        BY <1>1 DEF Tokens!StoredIsHonoured
      <3>1. CASE x = s
        BY <2>6, <2>7, <3>1
      <3>2. CASE x # s
        <4>1. honoured'[x] = honoured[x]
          BY <1>1, <2>8, <3>2 DEF TokensOK
        <4>2. \A g \in Requests : call[g].at = "update" => call'[g] = call[g]
          BY <1>1, <2>7
        <4> QED BY <4>1, <4>2 DEF TokensInv, RefreshOK, Tokens!StoredIsHonoured
      <3> QED BY <3>1, <3>2
    <2>13. SignInOK'
      <3>1. \A x \in Requests :
                call'[x].kind = "signin" =>
                   /\ call[x].kind = "signin"
                   /\ DOMAIN store' \ call'[x].left \subseteq DOMAIN store \ call[x].left
        BY <1>1, <2>6, <2>7
      <3> QED BY <1>1, <2>9, <3>1, SignInKept
    <2> QED BY <2>9, <2>10, <2>11, <2>12, <2>13 DEF TokensInv, RefreshOK
  <1> QED BY <1>2, <1>3

\* The row is updated with what the provider handed out, if it is still there.
LEMMA TokensUpdates ==
    ASSUME TokensInv, NEW h \in Requests, Tokens!Update(h)
    PROVE  TokensInv'
  <1>. DEFINE s == call[h].on
  <1>1. /\ call[h].at = "update" /\ s \in 1 .. sessions /\ s # 0 /\ call[h] \in Exchanges
        /\ Placed(call[h]) /\ honoured \in [1 .. sessions -> Nat] /\ TokensOK
        /\ call \in [Requests -> Exchanges] /\ call[h].token \in Nat /\ writes \in Nat
        /\ UNCHANGED <<manager, honoured, sessions, torn, crowded>>
    BY DEF Tokens!Update, Tokens!setup, TokensInv, TokensOK, Placed, Exchanges
  <1>2. CASE s \notin DOMAIN store
    <2>1. call' = [call EXCEPT ![h].at = "drop"] /\ UNCHANGED <<store, writes>>
      BY <1>2 DEF Tokens!Update, Tokens!Goto
    <2>2. store' = [x \in DOMAIN store \ {} |-> store[x]]
      BY <2>1, NoneGone
    <2>3. /\ honoured' \in [1 .. sessions -> Nat]
          /\ \A x \in 1 .. sessions : honoured'[x] \in {honoured[x], 0} \/ x \in torn'
      BY <1>1, StillHonoured
    <2> QED BY <1>1, <1>2, <2>1, <2>2, <2>3, TokensGoes DEF Refreshes, Stages
  <1>3. CASE s \in DOMAIN store
    <2>. DEFINE new == [token |-> call[h].token, fresh |-> TRUE, touched |-> writes + 1]
                r == Tokens!Idle
    <2>1. store' = [store EXCEPT ![s] = new] /\ writes' = writes + 1
      BY <1>3 DEF Tokens!Update
    <2>2. call' = [call EXCEPT ![h] = r]
      BY <1>3 DEF Tokens!Update, Tokens!End
    <2>3. /\ new \in [token : Nat, fresh : BOOLEAN, touched : Nat]
          /\ new.touched = writes' /\ new.token = call[h].token
      BY <1>1, <2>1
    <2>. HIDE DEF new
    <2>4. r \in Exchanges /\ Placed(r) /\ r.at = "idle" /\ r.kind = "none"
      BY <1>1, CallIdle DEF TokensOK
    <2>. HIDE DEF r
    <2>5. /\ call' \in [Requests -> Exchanges] /\ call'[h] = r
          /\ \A x \in Requests : x # h => call'[x] = call[x]
      BY <1>1, <2>2, <2>4, CallIs
    <2>6. /\ DOMAIN store' = DOMAIN store /\ store'[s] = new
          /\ \A x \in DOMAIN store : x # s => store'[x] = store[x]
      BY <1>3, <2>1
    <2>7. TokensOK'
      <3>1. \A x \in Requests : Placed(call[x])'
        BY <1>1, <2>4, <2>5 DEF Placed, TokensOK
      <3>2. store' = [x \in DOMAIN store' |-> store'[x]]
        BY <2>1
      <3>3. \A x \in DOMAIN store' :
                /\ store'[x] \in [token : Nat, fresh : BOOLEAN, touched : Nat]
                /\ store'[x].touched <= writes'
        <4>1. \A x \in DOMAIN store :
                  /\ store[x] \in [token : Nat, fresh : BOOLEAN, touched : Nat]
                  /\ store[x].touched <= writes /\ store[x].touched \in Nat
          BY <1>1 DEF TokensOK
        <4>2. \A x \in DOMAIN store : store[x].touched <= writes'
          BY <1>1, <2>1, <4>1
        <4>3. new.touched <= writes'
          BY <1>1, <2>1, <2>3
        <4> QED BY <2>3, <2>6, <4>1, <4>2, <4>3
      <3> QED BY <1>1, <2>1, <2>5, <2>6, <3>1, <3>2, <3>3 DEF TokensOK
    <2>8. SoleRefresh'
      BY <1>1, <2>4, <2>5 DEF TokensInv, RefreshOK, SoleRefresh, Refreshes
    <2>9. InHand'
      BY <1>1, <2>4, <2>5 DEF TokensInv, RefreshOK, InHand
    <2>10. Tokens!StoredIsHonoured'
      <3>. SUFFICES ASSUME NEW x \in DOMAIN store
                    PROVE  \/ x \in torn \/ honoured[x] = 0
                           \/ \E g \in Requests : call'[g].at = "update" /\ call'[g].on = x
                           \/ store'[x].token = honoured[x]
        BY <1>1, <2>6 DEF Tokens!StoredIsHonoured
      <3>1. CASE x = s
        BY <1>1, <2>3, <2>6, <3>1 DEF TokensInv, RefreshOK, InHand
      <3>2. CASE x # s
        <4>1. \A g \in Requests : call[g].at = "update" /\ call[g].on = x => call'[g] = call[g]
          BY <1>1, <2>5, <3>2
        <4> QED BY <2>6, <3>2, <4>1 DEF TokensInv, RefreshOK, Tokens!StoredIsHonoured
      <3> QED BY <3>1, <3>2
    <2>11. SignInOK'
      <3>1. \A x \in Requests :
                call'[x].kind = "signin" =>
                   /\ call[x].kind = "signin"
                   /\ DOMAIN store' \ call'[x].left \subseteq DOMAIN store \ call[x].left
        BY <1>1, <2>4, <2>5, <2>6
      <3> QED BY <1>1, <2>6, <2>7, <3>1, SignInKept
    <2> QED BY <2>7, <2>8, <2>9, <2>10, <2>11 DEF TokensInv, RefreshOK
  <1> QED BY <1>2, <1>3

\* A session is removed by a sign-in or a logout.
LEMMA TokensPrunes ==
    ASSUME TokensInv, NEW h \in Requests, NEW s \in call[h].left, Tokens!Prune(h, s)
    PROVE  TokensInv'
  <1>. DEFINE r == [call[h] EXCEPT !.left = call[h].left \ {s}]
  <1>1. /\ call[h].at = "prune" /\ call[h] \in Exchanges /\ Placed(call[h])
        /\ call \in [Requests -> Exchanges] /\ call[h].left \in SUBSET Nat
        /\ store' = [x \in DOMAIN store \ {s} |-> store[x]]
        /\ call' = [call EXCEPT ![h] = r]
        /\ UNCHANGED <<manager, honoured, sessions, writes, torn, crowded>>
    BY DEF Tokens!Prune, Tokens!Without, Tokens!setup, TokensInv, TokensOK, Exchanges
  <1>2. call[h].left \ {s} \in SUBSET Nat
    BY <1>1
  <1>3. r \in Exchanges
    BY <1>1, <1>2, CallGiven
  <1>4. /\ r.at = "prune" /\ r.kind = call[h].kind /\ r.on = call[h].on
        /\ r.left = call[h].left \ {s}
    BY <1>1 DEF Exchanges
  <1>. HIDE DEF r
  <1>5. Placed(r)
    BY <1>1, <1>4 DEF Placed
  <1>6. /\ honoured' \in [1 .. sessions -> Nat]
        /\ \A x \in 1 .. sessions : honoured'[x] \in {honoured[x], 0} \/ x \in torn'
    BY <1>1, StillHonoured
  <1> QED BY <1>1, <1>3, <1>4, <1>5, <1>6, TokensCalls DEF Refreshes

\* A sign-in begins, with the sessions it will have to remove.
LEMMA TokensSignsIn ==
    ASSUME TokensInv, NEW h \in Requests, Tokens!SignIn(h)
    PROVE  TokensInv'
  <1>. DEFINE surplus == Tokens!Surplus
              k == [Tokens!Idle EXCEPT !.kind = "signin"]
              q == [k EXCEPT !.at = "prune"]
              r == [q EXCEPT !.left = surplus]
  <1>1. /\ call[h].at = "idle" /\ call' = [call EXCEPT ![h] = r]
        /\ crowded' = (crowded \/ \E x \in Requests : call[x].kind = "signin")
        /\ UNCHANGED <<manager, store, honoured, sessions, writes, torn>>
    BY DEF Tokens!SignIn, Tokens!Start, Tokens!setup
  <1>2. /\ TokensOK /\ DOMAIN store \subseteq 1 .. sessions /\ sessions \in Nat
        /\ surplus \subseteq DOMAIN store /\ surplus \in SUBSET Nat
    BY DEF TokensInv, TokensOK, Tokens!Surplus
  <1>3. Tokens!Idle \in Exchanges /\ k \in Exchanges
    BY <1>2, CallIdle, CallGiven
  <1>4. q \in Exchanges
    BY <1>3, CallAt DEF Stages
  <1>5. r \in Exchanges
    BY <1>2, <1>4, CallGiven
  <1>6. r.at = "prune" /\ r.kind = "signin" /\ r.left = surplus /\ r.on = 0
    BY DEF Tokens!Idle
  <1>. HIDE DEF r
  <1>7. /\ call' \in [Requests -> Exchanges] /\ call'[h] = r
        /\ \A x \in Requests : x # h => call'[x] = call[x]
        /\ \A x, y \in Requests : call'[x] # call[x] /\ call'[y] # call[y] => x = y
    BY <1>1, <1>2, <1>5, CallIs
  <1>8. Cardinality(DOMAIN store \ surplus) <= Room
    <2>1. CASE manager = "client"
      <3>1. DOMAIN store \ surplus = {}
        BY <2>1 DEF Tokens!Surplus
      <3> QED BY <2>1, <3>1, FS_EmptySet DEF Room
    <2>2. CASE manager # "client"
      <3>1. MaxPerUser - 1 \in Nat
        BY SessionConstants
      <3>2. /\ Tokens!Newest(MaxPerUser - 1) \subseteq DOMAIN store
            /\ Cardinality(Tokens!Newest(MaxPerUser - 1)) <= MaxPerUser - 1
        BY <1>2, <3>1, NewestAtMost
      <3>3. DOMAIN store \ surplus = Tokens!Newest(MaxPerUser - 1)
        BY <2>2, <3>2 DEF Tokens!Surplus
      <3> QED BY <2>2, <3>2, <3>3 DEF Room
    <2> QED BY <2>1, <2>2
  <1>. HIDE DEF surplus
  <1>9. TokensOK'
    <2>1. \A x \in Requests : Placed(call[x])'
      BY <1>1, <1>2, <1>6, <1>7 DEF Placed, TokensOK
    <2> QED BY <1>1, <1>2, <1>7, <2>1 DEF TokensOK
  <1>10. RefreshOK'
    <2>1. \A s \in 1 .. sessions : honoured'[s] \in {honoured[s], 0} \/ s \in torn'
      BY <1>1
    <2> QED BY <1>1, <1>6, <1>7, <2>1, RefreshKept DEF Refreshes
  <1>11. SignInOK'
    <2>1. SoleSignIn'
      BY <1>1, <1>7 DEF SoleSignIn
    <2>2. RoomToCome'
      <3>. SUFFICES ASSUME ~crowded', NEW g \in Requests, call'[g].kind = "signin"
                    PROVE  Cardinality(DOMAIN store \ call'[g].left) <= Room
        BY <1>1 DEF RoomToCome, Room
      <3>1. g = h
        BY <1>1, <1>7
      <3> QED BY <1>6, <1>7, <1>8, <3>1
    <2>3. Tokens!LimitHolds'
      BY <1>1 DEF TokensInv, SignInOK, Tokens!LimitHolds
    <2> QED BY <2>1, <2>2, <2>3 DEF SignInOK
  <1> QED BY <1>9, <1>10, <1>11 DEF TokensInv

\* A sign-in that has removed its sessions creates one.
LEMMA TokensCreates ==
    ASSUME TokensInv, NEW h \in Requests, Tokens!Pruned(h)
    PROVE  TokensInv'
  <1>. DEFINE n == sessions + 1
              new == [token |-> 1, fresh |-> TRUE, touched |-> writes + 1]
              r == Tokens!Idle
  <1>1. /\ call[h].at = "prune" /\ call[h].left = {} /\ call' = [call EXCEPT ![h] = r]
        /\ TokensOK /\ sessions \in Nat /\ writes \in Nat /\ DOMAIN store \subseteq 1 .. sessions
        /\ honoured \in [1 .. sessions -> Nat] /\ n \in Nat /\ n \notin DOMAIN store
        /\ UNCHANGED <<manager, torn, crowded>>
    BY DEF Tokens!Pruned, Tokens!End, Tokens!setup, TokensInv, TokensOK
  <1>2. CASE call[h].kind # "signin"
    <2>1. UNCHANGED <<store, honoured, sessions, writes>>
      BY <1>2 DEF Tokens!Pruned
    <2>2. store' = [x \in DOMAIN store \ {} |-> store[x]]
      BY <2>1, NoneGone
    <2> QED BY <1>1, <2>1, <2>2, TokensEnds DEF Tokens!End
  <1>3. CASE call[h].kind = "signin"
    <2>1. /\ sessions' = n /\ writes' = writes + 1
          /\ store' = [s \in DOMAIN store \cup {n} |-> IF s = n THEN new ELSE store[s]]
          /\ honoured' = [s \in DOMAIN honoured \cup {n} |-> IF s = n THEN 1 ELSE honoured[s]]
      BY <1>3 DEF Tokens!Pruned
    <2>2. /\ new \in [token : Nat, fresh : BOOLEAN, touched : Nat]
          /\ new.touched = writes' /\ new.token = 1
      BY <1>1, <2>1
    <2>. HIDE DEF new
    <2>3. /\ DOMAIN store' = DOMAIN store \cup {n} /\ store'[n] = new
          /\ \A s \in DOMAIN store : store'[s] = store[s]
      BY <1>1, <2>1
    <2>4. /\ honoured' \in [1 .. n -> Nat] /\ honoured'[n] = 1
          /\ \A s \in 1 .. sessions : honoured'[s] = honoured[s]
      <3>1. DOMAIN honoured = 1 .. sessions /\ 1 .. n = (1 .. sessions) \cup {n}
            /\ n \notin 1 .. sessions
        BY <1>1
      <3>2. honoured' = [s \in 1 .. n |-> IF s = n THEN 1 ELSE honoured[s]]
        BY <2>1, <3>1
      <3>3. \A s \in 1 .. n : (IF s = n THEN 1 ELSE honoured[s]) \in Nat
        BY <1>1, <3>1
      <3>4. n \in 1 .. n
        BY <1>1
      <3>. HIDE DEF n
      <3> QED BY <3>1, <3>2, <3>3, <3>4
    <2>5. r \in Exchanges /\ r.at = "idle" /\ r.kind = "none" /\ r.left = {} /\ r.on = 0
      BY <1>1, CallIdle
    <2>. HIDE DEF r
    <2>6. /\ call' \in [Requests -> Exchanges] /\ call'[h] = r
          /\ \A x \in Requests : x # h => call'[x] = call[x]
      BY <1>1, <2>5, CallIs
    <2>7. TokensOK'
      <3>1. \A x \in Requests : Placed(call[x])'
        <4>1. ASSUME NEW x \in Requests, x # h PROVE Placed(call[x])'
          <5>1. Placed(call[x]) /\ call[x].on \in Nat
            BY <1>1 DEF TokensOK, Exchanges
          <5> QED BY <1>1, <2>1, <2>6, <4>1, <5>1 DEF Placed
        <4>2. Placed(call[h])'
          BY <1>1, <2>1, <2>5, <2>6 DEF Placed
        <4> QED BY <4>1, <4>2
      <3>2. store' = [x \in DOMAIN store' |-> store'[x]]
        BY <2>1
      <3>3. \A x \in DOMAIN store' :
                /\ store'[x] \in [token : Nat, fresh : BOOLEAN, touched : Nat]
                /\ store'[x].touched <= writes'
        <4>1. \A x \in DOMAIN store :
                  /\ store[x] \in [token : Nat, fresh : BOOLEAN, touched : Nat]
                  /\ store[x].touched <= writes /\ store[x].touched \in Nat
          BY <1>1 DEF TokensOK
        <4>2. \A x \in DOMAIN store : store[x].touched <= writes'
          BY <1>1, <2>1, <4>1
        <4>3. new.touched <= writes'
          BY <1>1, <2>1, <2>2
        <4> QED BY <2>2, <2>3, <4>1, <4>2, <4>3
      <3>4. DOMAIN store' \subseteq 1 .. n
        BY <1>1, <2>3
      <3>5. /\ sessions' \in Nat /\ writes' \in Nat /\ DOMAIN store' \subseteq 1 .. sessions'
            /\ honoured' \in [1 .. sessions' -> Nat]
        <4>. HIDE DEF n
        <4>1. n \in Nat /\ writes + 1 \in Nat
          BY <1>1
        <4> QED BY <2>1, <2>4, <3>4, <4>1
      <3>. HIDE DEF n
      <3> QED BY <2>6, <3>1, <3>2, <3>3, <3>5 DEF TokensOK
    <2>8. SoleRefresh'
      BY <1>1, <2>5, <2>6 DEF TokensInv, RefreshOK, SoleRefresh, Refreshes
    <2>9. InHand'
      <3>. SUFFICES ASSUME NEW x \in Requests, call'[x].at = "update"
                    PROVE  \/ call'[x].on \in torn \/ honoured'[call'[x].on] = 0
                           \/ call'[x].token = honoured'[call'[x].on]
        BY <1>1 DEF InHand
      <3>1. call'[x] = call[x]
        BY <2>5, <2>6
      <3>2. call[x].on \in 1 .. sessions
        BY <3>1 DEF TokensInv, TokensOK, Placed, Exchanges
      <3> QED BY <2>4, <3>1, <3>2 DEF TokensInv, RefreshOK, InHand
    <2>10. Tokens!StoredIsHonoured'
      <3>. SUFFICES ASSUME NEW x \in DOMAIN store'
                    PROVE  \/ x \in torn \/ honoured'[x] = 0
                           \/ \E g \in Requests : call'[g].at = "update" /\ call'[g].on = x
                           \/ store'[x].token = honoured'[x]
        BY <1>1 DEF Tokens!StoredIsHonoured
      <3>1. CASE x = n
        BY <2>2, <2>3, <2>4, <3>1
      <3>2. CASE x # n
        <4>1. \A g \in Requests : call[g].at = "update" => call'[g] = call[g]
          BY <1>1, <2>6
        <4>2. x \in DOMAIN store /\ x \in 1 .. sessions
          BY <1>1, <2>3, <3>2
        <4> QED BY <2>3, <2>4, <4>1, <4>2 DEF TokensInv, RefreshOK, Tokens!StoredIsHonoured
      <3> QED BY <3>1, <3>2
    <2>11. SignInOK'
      <3>1. Room' = Room /\ Room \in Nat
        BY <1>1, RoomIs DEF Room
      <3>2. SoleSignIn'
        BY <1>1, <2>5, <2>6 DEF TokensInv, SignInOK, SoleSignIn
      <3>3. RoomToCome'
        <4>1. ~crowded => \A x \in Requests : call'[x].kind # "signin"
          BY <1>3, <2>5, <2>6 DEF TokensInv, SignInOK, SoleSignIn
        <4> QED BY <1>1, <4>1 DEF RoomToCome
      <3>4. Tokens!LimitHolds'
        <4>. SUFFICES ASSUME ~crowded PROVE Tokens!LimitHolds'
          BY <1>1 DEF Tokens!LimitHolds
        <4>1. DOMAIN store \ call[h].left = DOMAIN store
          BY <1>1
        <4>2. Cardinality(DOMAIN store) <= Room
          BY <1>3, <4>1 DEF TokensInv, SignInOK, RoomToCome
        <4>3. IsFiniteSet(DOMAIN store) /\ Cardinality(DOMAIN store) \in Nat
          BY <1>1, StoreCount
        <4>4. Cardinality(DOMAIN store') = Cardinality(DOMAIN store) + 1
          BY <1>1, <2>3, <4>3, FS_AddElement
        <4>5. Tokens!Cardinality(DOMAIN store') = Cardinality(DOMAIN store')
          BY DEF Tokens!Cardinality, Cardinality
        <4>6. Tokens!Cardinality(DOMAIN store') <= Room + 1
          BY <3>1, <4>2, <4>3, <4>4, <4>5
        <4>7. Room + 1 = IF manager = "client" THEN 1 ELSE MaxPerUser
          BY SessionConstants DEF Room
        <4> QED BY <1>1, <4>6, <4>7 DEF Tokens!LimitHolds
      <3> QED BY <3>2, <3>3, <3>4 DEF SignInOK
    <2> QED BY <2>7, <2>8, <2>9, <2>10, <2>11 DEF TokensInv, RefreshOK
  <1> QED BY <1>2, <1>3

\* The user's grants: all sessions of a provider go at once, a token expires,
\* or the provider honours none any longer.
LEMMA TokensElsewhere ==
    ASSUME TokensInv,
           Tokens!Disconnect \/ \E s \in DOMAIN store : Tokens!Expire(s) \/ Tokens!Revoke(s)
    PROVE  TokensInv'
  <1>1. /\ UNCHANGED <<manager, call, sessions, writes, torn, crowded>> /\ TokensOK
        /\ honoured \in [1 .. sessions -> Nat]
    BY DEF Tokens!Disconnect, Tokens!Expire, Tokens!Revoke, Tokens!rest, Tokens!setup, TokensInv,
           TokensOK
  <1>2. /\ honoured' \in [1 .. sessions -> Nat]
        /\ \A x \in 1 .. sessions : honoured'[x] \in {honoured[x], 0}
    <2>1. CASE UNCHANGED honoured
      BY <1>1, <2>1
    <2>2. ASSUME NEW s \in DOMAIN store, honoured' = [honoured EXCEPT ![s] = 0]
          PROVE  /\ honoured' \in [1 .. sessions -> Nat]
                 /\ \A x \in 1 .. sessions : honoured'[x] \in {honoured[x], 0}
      BY <1>1, <2>2
    <2> QED BY <2>1, <2>2
            DEF Tokens!Disconnect, Tokens!Expire, Tokens!Revoke, Tokens!rest, Tokens!setup
  <1>3. /\ store' = [x \in DOMAIN store' |-> store'[x]] /\ DOMAIN store' \subseteq DOMAIN store
        /\ \A x \in DOMAIN store' :
              /\ store'[x].token = store[x].token
              /\ store'[x] \in [token : Nat, fresh : BOOLEAN, touched : Nat]
              /\ store'[x].touched <= writes
    <2>1. CASE Tokens!Disconnect
      <3>1. store' = <<>> /\ DOMAIN store' = {}
        BY <2>1 DEF Tokens!Disconnect
      <3>2. store' = [x \in DOMAIN store' |-> store'[x]]
        BY <3>1
      <3> QED BY <3>1, <3>2
    <2>2. ASSUME NEW s \in DOMAIN store, Tokens!Expire(s)
          PROVE  /\ store' = [x \in DOMAIN store' |-> store'[x]]
                 /\ DOMAIN store' \subseteq DOMAIN store
                 /\ \A x \in DOMAIN store' :
                       /\ store'[x].token = store[x].token
                       /\ store'[x] \in [token : Nat, fresh : BOOLEAN, touched : Nat]
                       /\ store'[x].touched <= writes
      <3>. DEFINE new == [store[s] EXCEPT !.fresh = FALSE]
      <3>1. store' = [store EXCEPT ![s] = new]
        BY <2>2 DEF Tokens!Expire
      <3>2. /\ new \in [token : Nat, fresh : BOOLEAN, touched : Nat] /\ new.token = store[s].token
            /\ new.touched = store[s].touched
        BY <1>1 DEF TokensOK
      <3>. HIDE DEF new
      <3>3. store' = [x \in DOMAIN store' |-> store'[x]]
        BY <3>1
      <3> QED BY <1>1, <3>1, <3>2, <3>3 DEF TokensOK
    <2>3. ASSUME NEW s \in DOMAIN store, Tokens!Revoke(s)
          PROVE  UNCHANGED store
      BY <2>3 DEF Tokens!Revoke
    <2>4. CASE UNCHANGED store
      BY <1>1, <2>4 DEF TokensOK
    <2> QED BY <2>1, <2>2, <2>3, <2>4
  <1>4. TokensOK'
    BY <1>1, <1>2, <1>3 DEF TokensOK, Placed
  <1>5. RefreshOK'
    BY <1>1, <1>2, <1>3, RefreshKept
  <1>6. SignInOK'
    <2>1. \A x \in Requests :
              call'[x].kind = "signin" =>
                 /\ call[x].kind = "signin"
                 /\ DOMAIN store' \ call'[x].left \subseteq DOMAIN store \ call[x].left
      BY <1>1, <1>3
    <2> QED BY <1>1, <1>3, <1>4, <2>1, SignInKept
  <1> QED BY <1>4, <1>5, <1>6 DEF TokensInv

\* A user begins without sessions.
LEMMA TokensInit == Tokens!Init => TokensInv
  <1>. SUFFICES ASSUME Tokens!Init PROVE TokensInv
    OBVIOUS
  <1>1. /\ store = <<>> /\ honoured = <<>> /\ DOMAIN store = {} /\ DOMAIN honoured = {}
        /\ sessions = 0 /\ writes = 0 /\ call = [h \in Requests |-> Tokens!Idle]
    BY DEF Tokens!Init
  <1>2. /\ Tokens!Idle \in Exchanges /\ Placed(Tokens!Idle)
        /\ Tokens!Idle.at = "idle" /\ Tokens!Idle.kind = "none"
    BY <1>1, CallIdle
  <1>3. call \in [Requests -> Exchanges] /\ \A h \in Requests : call[h] = Tokens!Idle
    BY <1>1, <1>2
  <1>4. TokensOK
    <2>1. 1 .. 0 = {}
      OBVIOUS
    <2>2. honoured \in [1 .. sessions -> Nat] /\ store = [s \in DOMAIN store |-> store[s]]
      BY <1>1, <2>1
    <2> QED BY <1>1, <1>2, <1>3, <2>2 DEF TokensOK
  <1>5. RefreshOK
    BY <1>1, <1>2, <1>3 DEF RefreshOK, SoleRefresh, InHand, Refreshes, Tokens!StoredIsHonoured
  <1>6. SignInOK
    <2>1. Tokens!Cardinality(DOMAIN store) = Cardinality(DOMAIN store) /\ Cardinality({}) = 0
      BY FS_EmptySet DEF Tokens!Cardinality, Cardinality
    <2>2. Tokens!LimitHolds
      <3>1. Tokens!Cardinality(DOMAIN store) = 0 /\ Room \in Nat
        BY <1>1, <2>1, RoomIs
      <3>2. 0 <= Room + 1
        BY <3>1
      <3> QED BY <3>1, <3>2, RoomIs
    <2> QED BY <1>2, <1>3, <2>2 DEF SignInOK, SoleSignIn, RoomToCome
  <1> QED BY <1>4, <1>5, <1>6 DEF TokensInv

\* Each step, of any number of requests at once.
LEMMA TokensNext == TokensInv /\ [Tokens!Next]_tokens => TokensInv'
  <1>. SUFFICES ASSUME TokensInv, [Tokens!Next]_tokens PROVE TokensInv'
    OBVIOUS
  <1>1. CASE UNCHANGED tokens
    <2>1. UNCHANGED <<manager, store, honoured, call, sessions, writes, torn, crowded>>
      BY <1>1 DEF tokens
    <2>2. TokensOK'
      BY <2>1 DEF TokensInv, TokensOK, Placed
    <2>3. RefreshOK'
      BY <2>1 DEF TokensInv, RefreshOK, SoleRefresh, InHand, Tokens!StoredIsHonoured
    <2>4. SignInOK'
      BY <2>1 DEF TokensInv, SignInOK, SoleSignIn, RoomToCome, Room, Tokens!LimitHolds
    <2> QED BY <2>2, <2>3, <2>4 DEF TokensInv
  <1>2. ASSUME NEW h \in Requests,
               \/ Tokens!SignIn(h) \/ Tokens!Logout(h)
               \/ \E s \in 1 .. sessions : Tokens!GetToken(h, s)
               \/ \E s \in call[h].left : Tokens!Prune(h, s)
               \/ Tokens!Pruned(h) \/ Tokens!Load(h) \/ Tokens!FallBack(h) \/ Tokens!Exchange(h)
               \/ Tokens!ExchangeBreaks(h) \/ Tokens!Update(h) \/ Tokens!Drop(h) \/ Tokens!Die(h)
        PROVE  TokensInv'
    BY <1>2, TokensSignsIn, TokensLogsOut, TokensGets, TokensPrunes, TokensCreates, TokensLoads,
       TokensFallsBack, TokensExchanges, TokensBreaks, TokensUpdates, TokensDrops, TokensDies
  <1> QED BY <1>1, <1>2, TokensElsewhere DEF Tokens!Next

\* A session holds the refresh token its provider honours, unless its refreshes
\* overlap or one is cut short, and sign-ins one after the other keep to
\* OAUTH_MAX_SESSIONS_PER_USER (oauth.py:1041-1124, 2003-2014), for any number
\* of sessions and requests.
THEOREM SessionsAreHonoured == MCSpec => []SessionsHonoured
  <1>1. MCInit => TokensInv
    BY TokensInit DEF MCInit
  <1>2. TokensInv /\ [MCNext]_<<part, vars, branch, turn, register, tokens, limiter, tree, index,
                                memories>> => TokensInv'
    BY TokensNext DEF MCNext
  <1>3. TokensInv => SessionsHonoured
    BY DEF TokensInv, RefreshOK, SignInOK, SessionsHonoured, Of, Tokens!SessionsHonoured
  <1> QED BY <1>1, <1>2, <1>3, PTL DEF MCSpec

-----------------------------------------------------------------------------
(* The limit on sign-in attempts.                                          *)

\* How many attempts a store has counted in each bucket.
IsTally(t) == t = [c \in DOMAIN t |-> t[c]] /\ \A c \in DOMAIN t : c \in Nat /\ t[c] \in Nat
CountOf(t, c) == IF c \in DOMAIN t THEN t[c] ELSE 0

\* Larger numbers have larger multiples.
LEMMA Multiples ==
    ASSUME NEW x \in Nat, NEW y \in Nat, x < y, NEW n \in Nat
    PROVE  x * n + n <= y * n
  OBVIOUS

\* Where a time lies in its bucket.
LEMMA BucketBounds ==
    ASSUME NEW t \in Nat
    PROVE  /\ Limiter!Bucket(t) \in Nat
           /\ Limiter!Bucket(t) * BucketSize <= t
           /\ t < Limiter!Bucket(t) * BucketSize + BucketSize
  BY WindowConstants DEF Limiter!Bucket

\* Later times are in later buckets.
LEMMA BucketsGrow ==
    ASSUME NEW t \in Nat, NEW u \in Nat, t <= u
    PROVE  Limiter!Bucket(t) <= Limiter!Bucket(u)
  <1>. DEFINE b == Limiter!Bucket(t)
              c == Limiter!Bucket(u)
  <1>1. /\ b \in Nat /\ b * BucketSize <= t
        /\ c \in Nat /\ u < c * BucketSize + BucketSize /\ BucketSize \in Nat
    BY BucketBounds, WindowConstants
  <1>2. ASSUME c < b PROVE c * BucketSize + BucketSize <= b * BucketSize
    BY <1>1, <1>2, Multiples
  <1>3. b * BucketSize \in Nat /\ c * BucketSize \in Nat
    BY <1>1
  <1>4. b <= c
    <2>. HIDE DEF b, c
    <2> QED BY <1>1, <1>2, <1>3
  <1> QED BY <1>4

\* A window is a number of buckets.
LEMMA WindowIs ==
    Limiter!NumBuckets \in Nat /\ Window = Limiter!NumBuckets * BucketSize
  BY WindowConstants DEF Limiter!NumBuckets

\* A bucket that is recent at a time has not expired by then.
LEMMA RecentLasts ==
    ASSUME NEW t \in Nat, NEW c \in Nat, c + Limiter!NumBuckets >= Limiter!Bucket(t)
    PROVE  t < c * BucketSize + Window + BucketSize
  <1>. DEFINE b == Limiter!Bucket(t)
              n == Limiter!NumBuckets
              d == c + n
  <1>1. /\ b \in Nat /\ t < b * BucketSize + BucketSize /\ BucketSize \in Nat
        /\ n \in Nat /\ Window = n * BucketSize
    BY BucketBounds, WindowConstants, WindowIs
  <1>2. d \in Nat /\ b <= d /\ d * BucketSize = c * BucketSize + n * BucketSize
    BY <1>1
  <1>3. b * BucketSize <= d * BucketSize
    <2>1. b < d => b * BucketSize + BucketSize <= d * BucketSize
      BY <1>1, <1>2, Multiples
    <2>2. b * BucketSize \in Nat /\ d * BucketSize \in Nat
      BY <1>1, <1>2
    <2>. HIDE DEF b, d
    <2> QED BY <1>1, <1>2, <2>1, <2>2
  <1>4. b * BucketSize \in Nat /\ d * BucketSize \in Nat /\ n * BucketSize \in Nat
        /\ c * BucketSize \in Nat
    BY <1>1, <1>2
  <1>. HIDE DEF b, n, d
  <1> QED BY <1>1, <1>2, <1>3, <1>4

\* What lies within the window of a call is in one of the buckets it counts.
LEMMA WindowCounted ==
    ASSUME NEW t \in Nat, NEW u \in Nat, t <= u, t + Window > u
    PROVE  Limiter!Bucket(t) \in Limiter!Counted(Limiter!Bucket(u))
  <1>. DEFINE b == Limiter!Bucket(t)
              c == Limiter!Bucket(u)
              n == Limiter!NumBuckets
              d == b + n
  <1>1. /\ b \in Nat /\ t < b * BucketSize + BucketSize
        /\ c \in Nat /\ c * BucketSize <= u /\ BucketSize \in Nat
        /\ n \in Nat /\ Window = n * BucketSize /\ b <= c
    BY BucketBounds, BucketsGrow, WindowConstants, WindowIs
  <1>2. d \in Nat /\ d * BucketSize = b * BucketSize + n * BucketSize
    BY <1>1
  <1>3. d < c => d * BucketSize + BucketSize <= c * BucketSize
    BY <1>1, <1>2, Multiples
  <1>4. b * BucketSize \in Nat /\ d * BucketSize \in Nat /\ n * BucketSize \in Nat
        /\ c * BucketSize \in Nat
    BY <1>1, <1>2
  <1>5. d >= c
    <2>. HIDE DEF b, n, c, d
    <2> QED BY <1>1, <1>2, <1>3, <1>4
  <1> QED BY <1>1, <1>5 DEF Limiter!Counted

\* The attempts that are counted are a number.
LEMMA TotalIs ==
    ASSUME NEW t, IsTally(t), NEW b \in Nat
    PROVE  LET All == UNION {{c} \X (1 .. t[c]) : c \in Limiter!Counted(b) \cap DOMAIN t}
           IN  /\ IsFiniteSet(All) /\ Limiter!Total(t, b) = Cardinality(All)
               /\ Limiter!Total(t, b) \in Nat
  <1>. DEFINE D == Limiter!Counted(b) \cap DOMAIN t
              Parts == {{c} \X (1 .. t[c]) : c \in D}
              All == UNION Parts
  <1>1. IsFiniteSet(D)
    <2>1. IsFiniteSet(0 .. b) /\ D \subseteq 0 .. b
      BY FS_Interval DEF Limiter!Counted
    <2> QED BY <2>1, FS_Subset
  <1>2. IsFiniteSet(Parts)
    <2>. DEFINE p == [c \in D |-> {c} \X (1 .. t[c])]
    <2>1. p \in Surjection(D, Parts)
      BY DEF Surjection
    <2>. HIDE DEF p, D, Parts
    <2> QED BY <1>1, <2>1, FS_Surjection
  <1>3. \A T \in Parts : IsFiniteSet(T)
    <2>. SUFFICES ASSUME NEW c \in D PROVE IsFiniteSet({c} \X (1 .. t[c]))
      OBVIOUS
    <2>1. 1 \in Int /\ t[c] \in Int
      BY DEF IsTally
    <2>2. IsFiniteSet(1 .. t[c])
      BY <2>1, FS_Interval
    <2>3. IsFiniteSet({c})
      BY FS_Singleton
    <2> QED BY <2>2, <2>3, FS_Product
  <1>4. IsFiniteSet(All)
    BY <1>2, <1>3, FS_UNION
  <1>5. Limiter!Total(t, b) = Cardinality(All)
    BY DEF Limiter!Total, Limiter!Cardinality, Cardinality
  <1> QED BY <1>4, <1>5, FS_CardinalityType

\* Things that are at most the count in each bucket are at most the total.
LEMMA AtMostTotal ==
    ASSUME NEW t, IsTally(t), NEW b \in Nat, NEW P, IsFiniteSet(P),
           NEW at \in [P -> Limiter!Counted(b)],
           \A c \in Limiter!Counted(b) : Cardinality({k \in P : at[k] = c}) <= CountOf(t, c)
    PROVE  Cardinality(P) <= Limiter!Total(t, b)
  <1>. DEFINE C == Limiter!Counted(b)
              In(c) == {k \in P : at[k] = c}
              To(c) == 1 .. CountOf(t, c)
              D == C \cap DOMAIN t
              All == UNION {{c} \X (1 .. t[c]) : c \in D}
              F == [c \in C |-> CHOOSE f \in Injection(In(c), To(c)) : TRUE]
              g == [k \in P |-> <<at[k], F[at[k]][k]>>]
  <1>1. \A c \in C : c \in Nat /\ CountOf(t, c) \in Nat /\ c <= b
    BY DEF Limiter!Counted, IsTally, CountOf
  <1>2. \A c \in C : Injection(In(c), To(c)) # {}
    <2>. SUFFICES ASSUME NEW c \in C PROVE Injection(In(c), To(c)) # {}
      OBVIOUS
    <2>. DEFINE n == Cardinality(In(c))
    <2>1. IsFiniteSet(In(c)) /\ n \in Nat
      BY FS_Subset, FS_CardinalityType
    <2>2. IsFiniteSet(1 .. n) /\ Cardinality(1 .. n) = n
      BY <2>1, FS_Interval
    <2>3. ExistsBijection(In(c), 1 .. n)
      BY <2>1, <2>2, FS_SameCardinalityBij
    <2>4. PICK f : f \in [In(c) -> 1 .. n] /\ IsInjective(f)
      BY <2>3 DEF ExistsBijection, Bijection, Injection
    <2>5. 1 .. n \subseteq To(c)
      BY <1>1, <2>1
    <2>6. f \in [In(c) -> To(c)]
      BY <2>4, <2>5
    <2> QED BY <2>4, <2>6 DEF Injection
  <1>3. \A c \in C : F[c] \in [In(c) -> To(c)] /\ IsInjective(F[c])
    BY <1>2 DEF Injection
  <1>4. IsFiniteSet(All) /\ Limiter!Total(t, b) = Cardinality(All)
    BY TotalIs
  <1>5. g \in Injection(P, All)
    <2>1. ASSUME NEW k \in P PROVE g[k] \in All
      <3>1. at[k] \in C /\ k \in In(at[k])
        OBVIOUS
      <3>2. F[at[k]] \in [In(at[k]) -> To(at[k])]
        BY <1>3, <3>1
      <3>3. F[at[k]][k] \in To(at[k])
        <4>. HIDE DEF F, In, To
        <4> QED BY <3>1, <3>2
      <3>4. at[k] \in D
        BY <3>1, <3>3 DEF CountOf
      <3>5. To(at[k]) = 1 .. t[at[k]]
        BY <3>4 DEF CountOf
      <3>6. g[k] \in {at[k]} \X (1 .. t[at[k]])
        <4>. HIDE DEF F, To
        <4> QED BY <3>3, <3>5
      <3>. HIDE DEF g, D
      <3> QED BY <3>4, <3>6
    <2>2. ASSUME NEW j \in P, NEW k \in P, g[j] = g[k] PROVE j = k
      <3>0. g[j] = <<at[j], F[at[j]][j]>> /\ g[k] = <<at[k], F[at[k]][k]>>
        <4>. HIDE DEF F
        <4> QED OBVIOUS
      <3>1. at[j] = at[k] /\ F[at[k]][j] = F[at[k]][k]
        <4>. HIDE DEF F, g
        <4>1. <<at[j], F[at[j]][j]>> = <<at[k], F[at[k]][k]>>
          BY <2>2, <3>0
        <4>2. at[j] = at[k] /\ F[at[j]][j] = F[at[k]][k]
          BY <4>1
        <4> QED BY <4>2
      <3>2. at[k] \in C /\ j \in In(at[k]) /\ k \in In(at[k])
        BY <3>1
      <3>3. F[at[k]] \in [In(at[k]) -> To(at[k])] /\ IsInjective(F[at[k]])
        BY <1>3, <3>2
      <3>. HIDE DEF F, In, To, g
      <3> QED BY <3>1, <3>2, <3>3 DEF IsInjective
    <2>. HIDE DEF All
    <2> QED BY <2>1, <2>2 DEF Injection, IsInjective
  <1> QED BY <1>4, <1>5, FS_Injection

\* The calls that passed.
Stores == {<<>>} \cup (Instances \X Nat)
PassedCalls == [store : Stores, time : Nat]

\* Those of a store in a bucket, and those within the window of one of them.
Granted(pass, s, c) ==
    {k \in DOMAIN pass : pass[k].store = s /\ Limiter!Bucket(pass[k].time) = c}
InWindow(pass, p) ==
    {k \in DOMAIN pass : /\ pass[k].store = p.store
                         /\ pass[k].time <= p.time /\ pass[k].time + Window > p.time}

\* They have a store and a time.
LEMMA PassedAre ==
    ASSUME NEW pass \in Seq(PassedCalls), NEW k \in DOMAIN pass
    PROVE  pass[k] \in PassedCalls /\ pass[k].store \in Stores /\ pass[k].time \in Nat
  <1>1. pass[k] \in PassedCalls
    OBVIOUS
  <1> QED BY <1>1 DEF PassedCalls

\* They can be counted.
LEMMA WithinFinite ==
    ASSUME NEW pass \in Seq(PassedCalls), NEW p
    PROVE  IsFiniteSet(InWindow(pass, p)) /\ Cardinality(InWindow(pass, p)) \in Nat
  <1>1. InWindow(pass, p) \subseteq 1 .. Len(pass) /\ Len(pass) \in Nat
    BY DEF InWindow
  <1>2. IsFiniteSet(1 .. Len(pass))
    BY <1>1, FS_Interval
  <1>3. IsFiniteSet(InWindow(pass, p))
    BY <1>1, <1>2, FS_Subset
  <1> QED BY <1>3, FS_CardinalityType

\* So can those of a bucket.
LEMMA GrantedFinite ==
    ASSUME NEW pass \in Seq(PassedCalls), NEW s, NEW c
    PROVE  /\ IsFiniteSet(Granted(pass, s, c)) /\ Cardinality(Granted(pass, s, c)) \in Nat
           /\ Granted(pass, s, c) \subseteq 1 .. Len(pass)
  <1>1. Granted(pass, s, c) \subseteq 1 .. Len(pass) /\ Len(pass) \in Nat
    BY DEF Granted
  <1>2. IsFiniteSet(1 .. Len(pass))
    BY <1>1, FS_Interval
  <1>3. IsFiniteSet(Granted(pass, s, c))
    BY <1>1, <1>2, FS_Subset
  <1> QED BY <1>1, <1>3, FS_CardinalityType

\* One more call passes.
LEMMA GrantedGrows ==
    ASSUME NEW pass \in Seq(PassedCalls), NEW x \in PassedCalls, NEW s, NEW c
    PROVE  Cardinality(Granted(Append(pass, x), s, c)) =
              Cardinality(Granted(pass, s, c))
                  + IF x.store = s /\ Limiter!Bucket(x.time) = c THEN 1 ELSE 0
  <1>. DEFINE n == Len(pass) + 1
              G == Granted(pass, s, c)
              H == Granted(Append(pass, x), s, c)
  <1>1. /\ IsFiniteSet(G) /\ Cardinality(G) \in Nat /\ G \subseteq 1 .. Len(pass)
        /\ Len(pass) \in Nat
    BY GrantedFinite
  <1>2. /\ DOMAIN Append(pass, x) = DOMAIN pass \cup {n} /\ n \notin DOMAIN pass
        /\ Append(pass, x)[n] = x
        /\ \A k \in DOMAIN pass : Append(pass, x)[k] = pass[k]
    OBVIOUS
  <1>3. CASE x.store = s /\ Limiter!Bucket(x.time) = c
    <2>1. H = G \cup {n} /\ n \notin G
      BY <1>2, <1>3 DEF Granted
    <2>. HIDE DEF G, H, n
    <2>2. Cardinality(G \cup {n}) = Cardinality(G) + 1
      BY <1>1, <2>1, FS_AddElement
    <2>3. Cardinality(H) = Cardinality(G) + 1
      BY <2>1, <2>2
    <2> QED BY <1>3, <2>3 DEF G, H
  <1>4. CASE ~(x.store = s /\ Limiter!Bucket(x.time) = c)
    <2>1. H = G
      BY <1>2, <1>4 DEF Granted
    <2> QED BY <1>1, <1>4, <2>1
  <1> QED BY <1>3, <1>4

\* As long as a store has counted the calls that passed, no more passed within
\* the window of one than it says.
LEMMA WithinTotal ==
    ASSUME NEW pass \in Seq(PassedCalls), NEW k \in DOMAIN pass, NEW t, IsTally(t),
           \A c \in Limiter!Counted(Limiter!Bucket(pass[k].time)) :
              Cardinality(Granted(pass, pass[k].store, c)) <= CountOf(t, c)
    PROVE  Cardinality(InWindow(pass, pass[k])) <= Limiter!Total(t, Limiter!Bucket(pass[k].time))
  <1>. DEFINE p == pass[k]
              b == Limiter!Bucket(p.time)
              P == InWindow(pass, p)
              at == [j \in P |-> Limiter!Bucket(pass[j].time)]
  <1>1. p \in PassedCalls /\ p.time \in Nat /\ b \in Nat
    <2>1. p \in PassedCalls /\ p.time \in Nat
      BY PassedAre
    <2> QED BY <2>1, BucketBounds
  <1>2. at \in [P -> Limiter!Counted(b)]
    <2>. SUFFICES ASSUME NEW j \in P PROVE Limiter!Bucket(pass[j].time) \in Limiter!Counted(b)
      OBVIOUS
    <2>1. j \in DOMAIN pass /\ pass[j].time <= p.time /\ pass[j].time + Window > p.time
      BY DEF InWindow
    <2>2. pass[j].time \in Nat
      BY <2>1, PassedAre
    <2> QED BY <1>1, <2>1, <2>2, WindowCounted
  <1>3. IsFiniteSet(P)
    BY WithinFinite
  <1>4. \A c \in Limiter!Counted(b) : Cardinality({j \in P : at[j] = c}) <= CountOf(t, c)
    <2>. SUFFICES ASSUME NEW c \in Limiter!Counted(b)
                  PROVE  Cardinality({j \in P : at[j] = c}) <= CountOf(t, c)
      OBVIOUS
    <2>. DEFINE In == {j \in P : at[j] = c}
                G == Granted(pass, p.store, c)
    <2>1. In \subseteq G
      BY DEF InWindow, Granted
    <2>2. IsFiniteSet(G) /\ Cardinality(G) \in Nat /\ Cardinality(G) <= CountOf(t, c)
      BY GrantedFinite
    <2>3. CountOf(t, c) \in Nat
      BY DEF CountOf, IsTally
    <2>4. Cardinality(In) <= Cardinality(G) /\ Cardinality(In) \in Nat
      <3>. HIDE DEF In, G
      <3> QED BY <2>1, <2>2, FS_Subset, FS_CardinalityType
    <2>. HIDE DEF In, G
    <2>5. Cardinality(In) <= CountOf(t, c)
      BY <2>2, <2>3, <2>4
    <2> QED BY <2>5 DEF In
  <1>. HIDE DEF at, P, b
  <1>5. Cardinality(P) <= Limiter!Total(t, b)
    BY <1>1, <1>2, <1>3, <1>4, AtMostTotal
  <1> QED BY <1>5 DEF P, b

\* A call passes whose store has counted no more than the limit: nowhere do
\* more than the limit pass.
LEMMA StillWithin ==
    ASSUME NEW pass \in Seq(PassedCalls), NEW x \in PassedCalls, NEW t, IsTally(t),
           \A j \in DOMAIN pass : /\ Limiter!Bucket(pass[j].time) <= Limiter!Bucket(x.time)
                                  /\ Cardinality(InWindow(pass, pass[j])) <= Limit,
           \A c \in Limiter!Counted(Limiter!Bucket(x.time)) :
              Cardinality(Granted(Append(pass, x), x.store, c)) <= CountOf(t, c),
           Limiter!Total(t, Limiter!Bucket(x.time)) <= Limit
    PROVE  \A j \in DOMAIN Append(pass, x) :
              Cardinality(InWindow(Append(pass, x), Append(pass, x)[j])) <= Limit
  <1>. DEFINE new == Append(pass, x)
              n == Len(pass) + 1
              b == Limiter!Bucket(x.time)
  <1>1. /\ DOMAIN new = DOMAIN pass \cup {n} /\ n \notin DOMAIN pass /\ new[n] = x
        /\ \A j \in DOMAIN pass : new[j] = pass[j]
        /\ new \in Seq(PassedCalls)
    OBVIOUS
  <1>. HIDE DEF new
  <1>. SUFFICES ASSUME NEW j \in DOMAIN new PROVE Cardinality(InWindow(new, new[j])) <= Limit
    BY DEF new
  <1>. DEFINE p == new[j]
  <1>2. p.time \in Nat /\ x.time \in Nat /\ b \in Nat /\ Limiter!Bucket(p.time) \in Nat
    <2>1. p.time \in Nat
      BY <1>1, PassedAre
    <2>2. x.time \in Nat
      BY DEF PassedCalls
    <2> QED BY <2>1, <2>2, BucketBounds
  <1>3. CASE p.store = x.store /\ Limiter!Bucket(p.time) = b
    <2>1. \A c \in Limiter!Counted(Limiter!Bucket(p.time)) :
              Cardinality(Granted(new, p.store, c)) <= CountOf(t, c)
      BY <1>3 DEF new
    <2>2. Cardinality(InWindow(new, p)) <= Limiter!Total(t, Limiter!Bucket(p.time))
      BY <1>1, <2>1, WithinTotal
    <2>3. Limiter!Total(t, b) \in Nat
      BY TotalIs, <1>2
    <2>4. Cardinality(InWindow(new, p)) \in Nat
      BY <1>1, WithinFinite
    <2>5. Limit \in Nat
      BY WindowConstants
    <2> QED BY <1>3, <2>2, <2>3, <2>4, <2>5
  <1>4. CASE ~(p.store = x.store /\ Limiter!Bucket(p.time) = b)
    <2>1. j \in DOMAIN pass /\ p = pass[j]
      BY <1>1, <1>4
    <2>2. p.store = x.store => ~(x.time <= p.time)
      BY <1>2, <1>4, <2>1, BucketsGrow
    <2>3. InWindow(new, p) = InWindow(pass, p)
      BY <1>1, <2>2 DEF InWindow
    <2> QED BY <2>1, <2>3
  <1> QED BY <1>3, <1>4

\* What the clock, the stores and the calls underway are.
LimiterStages == {"idle", "incr", "expire", "count"}
LimiterOK ==
    /\ now \in Nat /\ now <= MaxTime /\ slipped \in BOOLEAN
    /\ redis = [c \in DOMAIN redis |-> redis[c]]
    /\ \A c \in DOMAIN redis : c \in Nat /\ redis[c] \in [count : Nat, until : Nat]
    /\ memory = [i \in Instances |-> memory[i]] /\ \A i \in Instances : IsTally(memory[i])
    /\ asking \in [Instances -> [at : LimiterStages, time : Nat]]
    /\ \A i \in Instances : asking[i].time <= now
    /\ restarts \in [Instances -> Nat]
    /\ passed \in Seq(PassedCalls)
    /\ \A k \in DOMAIN passed :
          /\ passed[k].time <= now
          /\ \A i \in Instances, r \in Nat : passed[k].store = <<i, r>> => r <= restarts[i]

\* A call ends in the bucket it has begun in.
InBucket ==
    \A i \in Instances :
        asking[i].at # "idle" => Limiter!Bucket(asking[i].time) = Limiter!Bucket(now)

\* A bucket lasts as long as it is counted.
Lasting ==
    \A c \in DOMAIN redis :
        redis[c].until >= c * BucketSize + Window + BucketSize

\* Calls that have counted themselves in a bucket of Redis, and not been answered.
Waiting(c) ==
    {i \in Instances : /\ asking[i].at \in {"expire", "count"}
                       /\ Limiter!Bucket(asking[i].time) = c}

\* What passed, or still may, has been counted, in the buckets that matter.
Recent(c) == c + Limiter!NumBuckets >= Limiter!Bucket(now)
RedisCounted ==
    \A c \in Nat : Recent(c) =>
        Cardinality(Granted(passed, <<>>, c)) + Cardinality(Waiting(c))
            <= CountOf(Limiter!Counts, c)
MemoryCounted ==
    \A i \in Instances, c \in Nat : Recent(c) =>
        Cardinality(Granted(passed, <<i, restarts[i]>>, c)) <= CountOf(memory[i], c)

LimitKept == \A k \in DOMAIN passed : Cardinality(InWindow(passed, passed[k])) <= Limit

LimiterInv ==
    LimiterOK /\ (~slipped => InBucket /\ Lasting /\ RedisCounted /\ MemoryCounted /\ LimitKept)

\* A request about to be answered, or one of its commands.
LEMMA AskingGoes ==
    ASSUME LimiterOK, NEW i \in Instances, NEW r \in [at : LimiterStages, time : Nat],
           asking' = [asking EXCEPT ![i] = r], r.time <= now, now' = now
    PROVE  /\ asking' \in [Instances -> [at : LimiterStages, time : Nat]]
           /\ asking'[i] = r /\ \A h \in Instances : h # i => asking'[h] = asking[h]
           /\ \A h \in Instances : asking'[h].time <= now'
  BY DEF LimiterOK

\* Those that wait can be counted.
LEMMA WaitingFinite ==
    \A c : IsFiniteSet(Waiting(c)) /\ Cardinality(Waiting(c)) \in Nat
  <1>. SUFFICES ASSUME NEW c PROVE IsFiniteSet(Waiting(c)) /\ Cardinality(Waiting(c)) \in Nat
    OBVIOUS
  <1>1. Waiting(c) \subseteq Instances /\ IsFiniteSet(Instances)
    BY WindowConstants DEF Waiting
  <1>2. IsFiniteSet(Waiting(c))
    BY <1>1, FS_Subset
  <1> QED BY <1>2, FS_CardinalityType

\* And will be.
LEMMA WaitingStaysFinite ==
    \A c : IsFiniteSet(Waiting(c)') /\ Cardinality(Waiting(c)') \in Nat
  <1>. SUFFICES ASSUME NEW c PROVE IsFiniteSet(Waiting(c)') /\ Cardinality(Waiting(c)') \in Nat
    OBVIOUS
  <1>1. Waiting(c)' \subseteq Instances /\ IsFiniteSet(Instances)
    BY WindowConstants DEF Waiting
  <1>2. IsFiniteSet(Waiting(c)')
    BY <1>1, FS_Subset
  <1> QED BY <1>2, FS_CardinalityType

\* What Redis has counted.
LEMMA CountsAre ==
    ASSUME LimiterOK
    PROVE  /\ IsTally(Limiter!Counts)
           /\ \A c : CountOf(Limiter!Counts, c) = IF c \in DOMAIN redis THEN redis[c].count ELSE 0
           /\ \A c : CountOf(Limiter!Counts, c) \in Nat
  BY DEF LimiterOK, IsTally, CountOf, Limiter!Counts

\* The bucket of the moment.
LEMMA RecentNow ==
    ASSUME LimiterOK
    PROVE  /\ Limiter!Bucket(now) \in Nat
           /\ \A c \in Limiter!Counted(Limiter!Bucket(now)) : c \in Nat /\ Recent(c)
           /\ Recent(Limiter!Bucket(now))
           /\ \A i \in Instances : Limiter!Bucket(asking[i].time) \in Nat
  <1>1. now \in Nat /\ \A i \in Instances : asking[i].time \in Nat
    BY DEF LimiterOK
  <1>2. Limiter!Bucket(now) \in Nat
    BY <1>1, BucketBounds
  <1>3. \A i \in Instances : Limiter!Bucket(asking[i].time) \in Nat
    BY <1>1, BucketBounds
  <1>4. \A c \in Limiter!Counted(Limiter!Bucket(now)) : c \in Nat /\ Recent(c)
    BY <1>2 DEF Limiter!Counted, Recent
  <1>5. Recent(Limiter!Bucket(now))
    BY <1>2, WindowIs DEF Recent
  <1> QED BY <1>2, <1>3, <1>4, <1>5

\* is_limited begins.
LEMMA LimiterAsks ==
    ASSUME LimiterInv, NEW i \in Instances, Limiter!Ask(i)
    PROVE  LimiterInv'
  <1>. DEFINE r == [at |-> "incr", time |-> now]
  <1>1. LimiterOK /\ r \in [at : LimiterStages, time : Nat] /\ r.at = "incr" /\ r.time = now
        /\ r.time <= now
    BY DEF LimiterInv, LimiterOK, LimiterStages
  <1>2. /\ asking' = [asking EXCEPT ![i] = r] /\ asking[i] = Limiter!Idle
        /\ UNCHANGED <<now, redis, memory, passed, restarts, slipped>>
    BY DEF Limiter!Ask
  <1>. HIDE DEF r
  <1>3. /\ asking' \in [Instances -> [at : LimiterStages, time : Nat]]
        /\ asking'[i] = r /\ \A h \in Instances : h # i => asking'[h] = asking[h]
        /\ \A h \in Instances : asking'[h].time <= now'
    BY <1>1, <1>2, AskingGoes
  <1>4. LimiterOK'
    BY <1>1, <1>2, <1>3 DEF LimiterOK
  <1>5. \A c : Waiting(c)' = Waiting(c)
    BY <1>1, <1>2, <1>3 DEF Waiting, Limiter!Idle
  <1>6. ASSUME ~slipped'
        PROVE  InBucket' /\ Lasting' /\ RedisCounted' /\ MemoryCounted' /\ LimitKept'
    <2>1. InBucket /\ Lasting /\ RedisCounted /\ MemoryCounted /\ LimitKept
      BY <1>2, <1>6 DEF LimiterInv
    <2>2. InBucket'
      BY <1>1, <1>2, <1>3, <2>1 DEF InBucket
    <2>3. Lasting' /\ MemoryCounted' /\ LimitKept'
      BY <1>2, <2>1 DEF Lasting, MemoryCounted, LimitKept, Recent
    <2>4. RedisCounted'
      BY <1>2, <1>5, <2>1 DEF RedisCounted, Recent, Limiter!Counts
    <2> QED BY <2>2, <2>3, <2>4
  <1> QED BY <1>4, <1>6 DEF LimiterInv

\* INCR: the call is counted, and waits for its answer.
LEMMA LimiterIncrs ==
    ASSUME LimiterInv, NEW i \in Instances, Limiter!Incr(i)
    PROVE  LimiterInv'
  <1>. DEFINE b == Limiter!Bucket(asking[i].time)
              to == IF b \in DOMAIN redis THEN "count" ELSE "expire"
              r == [asking[i] EXCEPT !.at = to]
  <1>1. /\ LimiterOK /\ asking[i].at = "incr"
        /\ asking' = [asking EXCEPT ![i] = r]
        /\ redis' = [c \in DOMAIN redis \cup {b} |->
                       IF c \notin DOMAIN redis THEN [count |-> 1, until |-> Limiter!Never]
                       ELSE IF c = b THEN [redis[b] EXCEPT !.count = @ + 1] ELSE redis[c]]
        /\ UNCHANGED <<now, memory, passed, restarts, slipped>>
    BY DEF LimiterInv, Limiter!Incr, LimiterOK
  <1>2. /\ r \in [at : LimiterStages, time : Nat] /\ r.at \in {"expire", "count"}
        /\ r.time = asking[i].time /\ r.time <= now
    BY <1>1 DEF LimiterOK, LimiterStages
  <1>. HIDE DEF r
  <1>3. /\ asking' \in [Instances -> [at : LimiterStages, time : Nat]]
        /\ asking'[i] = r /\ \A h \in Instances : h # i => asking'[h] = asking[h]
        /\ \A h \in Instances : asking'[h].time <= now'
    BY <1>1, <1>2, AskingGoes
  <1>4. /\ b \in Nat /\ Limiter!Never \in Nat
        /\ Limiter!Never >= b * BucketSize + Window + BucketSize
    <2>1. asking[i].time \in Nat /\ asking[i].time <= MaxTime
      BY <1>1, WindowConstants DEF LimiterOK
    <2>2. b \in Nat /\ b * BucketSize <= asking[i].time
      BY <2>1, BucketBounds
    <2>3. b * BucketSize \in Nat
      BY <2>2, WindowConstants
    <2>. HIDE DEF b
    <2> QED BY <2>1, <2>2, <2>3, WindowConstants DEF Limiter!Never
  <1>. HIDE DEF b
  <1>5. /\ DOMAIN redis' = DOMAIN redis \cup {b}
        /\ \A c \in DOMAIN redis' :
              /\ c \in Nat /\ redis'[c] \in [count : Nat, until : Nat]
              /\ redis'[c].count = CountOf(Limiter!Counts, c) + IF c = b THEN 1 ELSE 0
              /\ redis'[c].until = IF c \in DOMAIN redis THEN redis[c].until ELSE Limiter!Never
        /\ redis' = [c \in DOMAIN redis' |-> redis'[c]]
    <2>1. DOMAIN redis' = DOMAIN redis \cup {b} /\ redis' = [c \in DOMAIN redis' |-> redis'[c]]
      BY <1>1
    <2>2. ASSUME NEW c \in DOMAIN redis'
          PROVE  /\ c \in Nat /\ redis'[c] \in [count : Nat, until : Nat]
                 /\ redis'[c].count = CountOf(Limiter!Counts, c) + IF c = b THEN 1 ELSE 0
                 /\ redis'[c].until = IF c \in DOMAIN redis THEN redis[c].until ELSE Limiter!Never
      <3>1. CASE c \notin DOMAIN redis
        BY <1>1, <1>4, <2>1, <3>1, CountsAre
      <3>2. CASE c \in DOMAIN redis
        <4>1. redis[c] \in [count : Nat, until : Nat] /\ c \in Nat
          BY <1>1, <3>2 DEF LimiterOK
        <4> QED BY <1>1, <1>4, <2>1, <3>2, <4>1, CountsAre
      <3> QED BY <3>1, <3>2
    <2> QED BY <2>1, <2>2
  <1>6. LimiterOK'
    BY <1>1, <1>3, <1>5 DEF LimiterOK
  <1>7. \A c : CountOf(Limiter!Counts, c)' = CountOf(Limiter!Counts, c) + IF c = b THEN 1 ELSE 0
    <2>1. \A c : CountOf(Limiter!Counts, c)' = IF c \in DOMAIN redis' THEN redis'[c].count ELSE 0
      BY DEF CountOf, Limiter!Counts
    <2>2. \A c : c \notin DOMAIN redis => CountOf(Limiter!Counts, c) = 0
      BY <1>1, CountsAre
    <2> QED BY <1>5, <2>1, <2>2
  <1>8. \A c : Cardinality(Waiting(c)') = Cardinality(Waiting(c)) + IF c = b THEN 1 ELSE 0
    <2>. SUFFICES ASSUME NEW c
                  PROVE  Cardinality(Waiting(c)') =
                            Cardinality(Waiting(c)) + IF c = b THEN 1 ELSE 0
      OBVIOUS
    <2>1. i \notin Waiting(c) /\ IsFiniteSet(Waiting(c)) /\ Cardinality(Waiting(c)) \in Nat
      BY <1>1, WaitingFinite DEF Waiting
    <2>2. CASE c = b
      <3>1. Waiting(c)' = Waiting(c) \cup {i}
        BY <1>2, <1>3, <2>2 DEF Waiting, b
      <3> QED BY <2>1, <2>2, <3>1, FS_AddElement
    <2>3. CASE c # b
      <3>1. Waiting(c)' = Waiting(c)
        BY <1>1, <1>2, <1>3, <2>3 DEF Waiting, b
      <3> QED BY <2>1, <2>3, <3>1
    <2> QED BY <2>2, <2>3
  <1>9. ASSUME ~slipped'
        PROVE  InBucket' /\ Lasting' /\ RedisCounted' /\ MemoryCounted' /\ LimitKept'
    <2>1. InBucket /\ Lasting /\ RedisCounted /\ MemoryCounted /\ LimitKept
      BY <1>1, <1>9 DEF LimiterInv
    <2>2. InBucket'
      BY <1>1, <1>2, <1>3, <2>1 DEF InBucket
    <2>3. MemoryCounted' /\ LimitKept'
      BY <1>1, <2>1 DEF MemoryCounted, LimitKept, Recent
    <2>4. Lasting'
      BY <1>4, <1>5, <2>1 DEF Lasting
    <2>5. RedisCounted'
      <3>. SUFFICES ASSUME NEW c \in Nat, Recent(c)
                    PROVE  Cardinality(Granted(passed, <<>>, c)) + Cardinality(Waiting(c)')
                               <= CountOf(Limiter!Counts, c)'
        BY <1>1 DEF RedisCounted, Recent
      <3>1. /\ Cardinality(Granted(passed, <<>>, c)) + Cardinality(Waiting(c))
                   <= CountOf(Limiter!Counts, c)
            /\ Cardinality(Granted(passed, <<>>, c)) \in Nat /\ Cardinality(Waiting(c)) \in Nat
            /\ CountOf(Limiter!Counts, c) \in Nat
        BY <1>1, <2>1, GrantedFinite, WaitingFinite, CountsAre DEF RedisCounted, LimiterOK
      <3> QED BY <1>7, <1>8, <3>1
    <2> QED BY <2>2, <2>3, <2>4, <2>5
  <1> QED BY <1>6, <1>9 DEF LimiterInv

\* EXPIRE: a bucket gets a new end, far enough away.
LEMMA LimiterExpires ==
    ASSUME LimiterInv, NEW i \in Instances, Limiter!Expire(i)
    PROVE  LimiterInv'
  <1>. DEFINE b == Limiter!Bucket(asking[i].time)
              e == Limiter!Expiry(now)
              r == [asking[i] EXCEPT !.at = "count"]
  <1>1. /\ LimiterOK /\ asking[i].at = "expire"
        /\ asking' = [asking EXCEPT ![i] = r]
        /\ redis' = [c \in DOMAIN redis |->
                       IF c = b THEN [redis[c] EXCEPT !.until = e] ELSE redis[c]]
        /\ UNCHANGED <<now, memory, passed, restarts, slipped>>
    BY DEF LimiterInv, Limiter!Expire, LimiterOK
  <1>2. /\ r \in [at : LimiterStages, time : Nat] /\ r.at = "count"
        /\ r.time = asking[i].time /\ r.time <= now
    BY <1>1 DEF LimiterOK, LimiterStages
  <1>. HIDE DEF r
  <1>3. /\ asking' \in [Instances -> [at : LimiterStages, time : Nat]]
        /\ asking'[i] = r /\ \A h \in Instances : h # i => asking'[h] = asking[h]
        /\ \A h \in Instances : asking'[h].time <= now'
    BY <1>1, <1>2, AskingGoes
  <1>4. b \in Nat /\ e \in Nat /\ e >= b * BucketSize + Window + BucketSize
    <2>1. asking[i].time \in Nat /\ asking[i].time <= now /\ now \in Nat
      BY <1>1 DEF LimiterOK
    <2>2. b \in Nat /\ b * BucketSize <= asking[i].time
      BY <2>1, BucketBounds
    <2>3. b * BucketSize \in Nat
      BY <2>2, WindowConstants
    <2>4. e = now + Window + BucketSize
      BY DEF Limiter!Expiry
    <2>. HIDE DEF b, e
    <2> QED BY <2>1, <2>2, <2>3, <2>4, WindowConstants
  <1>. HIDE DEF b, e
  <1>5. /\ DOMAIN redis' = DOMAIN redis
        /\ \A c \in DOMAIN redis :
              /\ c \in Nat /\ redis'[c] \in [count : Nat, until : Nat]
              /\ redis'[c].count = redis[c].count
              /\ redis'[c].until = IF c = b THEN e ELSE redis[c].until
        /\ redis' = [c \in DOMAIN redis' |-> redis'[c]]
    <2>1. DOMAIN redis' = DOMAIN redis /\ redis' = [c \in DOMAIN redis' |-> redis'[c]]
      BY <1>1
    <2>2. ASSUME NEW c \in DOMAIN redis
          PROVE  /\ c \in Nat /\ redis'[c] \in [count : Nat, until : Nat]
                 /\ redis'[c].count = redis[c].count
                 /\ redis'[c].until = IF c = b THEN e ELSE redis[c].until
      <3>1. redis[c] \in [count : Nat, until : Nat] /\ c \in Nat
        BY <1>1 DEF LimiterOK
      <3> QED BY <1>1, <1>4, <3>1
    <2> QED BY <2>1, <2>2
  <1>6. LimiterOK'
    BY <1>1, <1>3, <1>5 DEF LimiterOK
  <1>7. \A c : CountOf(Limiter!Counts, c)' = CountOf(Limiter!Counts, c)
    BY <1>5 DEF CountOf, Limiter!Counts
  <1>8. \A c : Waiting(c)' = Waiting(c)
    BY <1>1, <1>2, <1>3 DEF Waiting
  <1>9. ASSUME ~slipped'
        PROVE  InBucket' /\ Lasting' /\ RedisCounted' /\ MemoryCounted' /\ LimitKept'
    <2>1. InBucket /\ Lasting /\ RedisCounted /\ MemoryCounted /\ LimitKept
      BY <1>1, <1>9 DEF LimiterInv
    <2>2. InBucket'
      BY <1>1, <1>2, <1>3, <2>1 DEF InBucket
    <2>3. MemoryCounted' /\ LimitKept'
      BY <1>1, <2>1 DEF MemoryCounted, LimitKept, Recent
    <2>4. Lasting'
      BY <1>4, <1>5, <2>1 DEF Lasting
    <2>5. RedisCounted'
      BY <1>1, <1>7, <1>8, <2>1 DEF RedisCounted, Recent
    <2> QED BY <2>2, <2>3, <2>4, <2>5
  <1> QED BY <1>6, <1>9 DEF LimiterInv

\* A call is over, and waits no longer.
LEMMA WaitsNoLonger ==
    ASSUME LimiterOK, NEW i \in Instances, asking' = [asking EXCEPT ![i] = Limiter!Idle],
           now' = now
    PROVE  /\ asking' \in [Instances -> [at : LimiterStages, time : Nat]]
           /\ \A h \in Instances : asking'[h].time <= now'
           /\ \A h \in Instances : asking'[h].at # "idle" => asking'[h] = asking[h]
           /\ \A c : /\ Waiting(c)' = Waiting(c) \ {i}
                     /\ Cardinality(Waiting(c)') =
                           Cardinality(Waiting(c)) - IF i \in Waiting(c) THEN 1 ELSE 0
  <1>1. Limiter!Idle \in [at : LimiterStages, time : Nat] /\ Limiter!Idle.at = "idle"
        /\ Limiter!Idle.time <= now
    BY DEF Limiter!Idle, LimiterStages, LimiterOK
  <1>2. /\ asking' \in [Instances -> [at : LimiterStages, time : Nat]]
        /\ asking'[i] = Limiter!Idle /\ \A h \in Instances : h # i => asking'[h] = asking[h]
        /\ \A h \in Instances : asking'[h].time <= now'
    BY <1>1, AskingGoes
  <1>3. \A c : Waiting(c)' = Waiting(c) \ {i}
    BY <1>1, <1>2 DEF Waiting
  <1>4. \A c : Cardinality(Waiting(c) \ {i}) =
                  Cardinality(Waiting(c)) - IF i \in Waiting(c) THEN 1 ELSE 0
    <2>. SUFFICES ASSUME NEW c
                  PROVE  Cardinality(Waiting(c) \ {i}) =
                            Cardinality(Waiting(c)) - IF i \in Waiting(c) THEN 1 ELSE 0
      OBVIOUS
    <2>1. IsFiniteSet(Waiting(c)) /\ Cardinality(Waiting(c)) \in Nat
      BY WaitingFinite
    <2>2. Cardinality(Waiting(c) \ {i}) =
              IF i \in Waiting(c) THEN Cardinality(Waiting(c)) - 1 ELSE Cardinality(Waiting(c))
      BY <2>1, FS_RemoveElement
    <2> QED BY <2>1, <2>2
  <1> QED BY <1>1, <1>2, <1>3, <1>4

\* MGET and the answer: a call that passes was counted before.
LEMMA LimiterCounts ==
    ASSUME LimiterInv, NEW i \in Instances, Limiter!Count(i)
    PROVE  LimiterInv'
  <1>. DEFINE b == Limiter!Bucket(asking[i].time)
              x == [store |-> <<>>, time |-> asking[i].time]
  <1>1. /\ LimiterOK /\ asking[i].at = "count"
        /\ asking' = [asking EXCEPT ![i] = Limiter!Idle]
        /\ passed' = IF Limiter!Total(Limiter!Counts, b) > Limit THEN passed
                     ELSE Append(passed, x)
        /\ UNCHANGED <<now, redis, memory, restarts, slipped>>
    BY DEF LimiterInv, Limiter!Count, Limiter!Answer
  <1>2. x \in PassedCalls /\ x.store = <<>> /\ x.time = asking[i].time /\ x.time \in Nat
        /\ x.time <= now
    BY <1>1 DEF LimiterOK, PassedCalls, Stores
  <1>. HIDE DEF x
  <1>3. /\ asking' \in [Instances -> [at : LimiterStages, time : Nat]]
        /\ \A h \in Instances : asking'[h].time <= now'
        /\ \A h \in Instances : asking'[h].at # "idle" => asking'[h] = asking[h]
        /\ \A c : Cardinality(Waiting(c)') =
                     Cardinality(Waiting(c)) - IF i \in Waiting(c) THEN 1 ELSE 0
    BY <1>1, WaitsNoLonger
  <1>4. /\ passed' \in Seq(PassedCalls)
        /\ \A k \in DOMAIN passed' : \/ k \in DOMAIN passed /\ passed'[k] = passed[k]
                                     \/ passed'[k] = x
    BY <1>1, <1>2 DEF LimiterOK
  <1>5. LimiterOK'
    <2>1. \A k \in DOMAIN passed' :
            /\ passed'[k].time <= now'
            /\ \A h \in Instances, r \in Nat : passed'[k].store = <<h, r>> => r <= restarts'[h]
      <3>. SUFFICES ASSUME NEW k \in DOMAIN passed'
                    PROVE  /\ passed'[k].time <= now'
                           /\ \A h \in Instances, r \in Nat :
                                 passed'[k].store = <<h, r>> => r <= restarts'[h]
        OBVIOUS
      <3>1. CASE k \in DOMAIN passed /\ passed'[k] = passed[k]
        BY <1>1, <3>1 DEF LimiterOK
      <3>2. CASE passed'[k] = x
        <4>1. \A h \in Instances, r \in Nat : <<>> # <<h, r>>
          OBVIOUS
        <4> QED BY <1>1, <1>2, <3>2, <4>1
      <3> QED BY <1>4, <3>1, <3>2
    <2> QED BY <1>1, <1>3, <1>4, <2>1 DEF LimiterOK
  <1>6. ASSUME ~slipped'
        PROVE  InBucket' /\ Lasting' /\ RedisCounted' /\ MemoryCounted' /\ LimitKept'
    <2>1. InBucket /\ Lasting /\ RedisCounted /\ MemoryCounted /\ LimitKept
      BY <1>1, <1>6 DEF LimiterInv
    <2>2. InBucket'
      BY <1>1, <1>3, <2>1 DEF InBucket
    <2>3. Lasting'
      BY <1>1, <2>1 DEF Lasting
    <2>4. b = Limiter!Bucket(now) /\ Limiter!Bucket(x.time) = b /\ i \in Waiting(b)
      BY <1>1, <1>2, <2>1 DEF InBucket, Waiting
    <2>. HIDE DEF b
    <2>5. CASE Limiter!Total(Limiter!Counts, b) > Limit
      <3>1. passed' = passed
        BY <1>1, <2>5
      <3>2. MemoryCounted' /\ LimitKept'
        BY <1>1, <2>1, <3>1 DEF MemoryCounted, LimitKept, Recent
      <3>3. RedisCounted'
        <4>. SUFFICES ASSUME NEW c \in Nat, Recent(c)
                      PROVE  Cardinality(Granted(passed, <<>>, c)) + Cardinality(Waiting(c)')
                                 <= CountOf(Limiter!Counts, c)
          BY <1>1, <3>1 DEF RedisCounted, Recent, Limiter!Counts
        <4>1. /\ Cardinality(Granted(passed, <<>>, c)) + Cardinality(Waiting(c))
                     <= CountOf(Limiter!Counts, c)
              /\ Cardinality(Granted(passed, <<>>, c)) \in Nat /\ Cardinality(Waiting(c)) \in Nat
              /\ CountOf(Limiter!Counts, c) \in Nat
          BY <1>1, <2>1, GrantedFinite, WaitingFinite, CountsAre DEF RedisCounted, LimiterOK
        <4> QED BY <1>3, <4>1
      <3> QED BY <2>2, <2>3, <3>2, <3>3
    <2>6. CASE ~(Limiter!Total(Limiter!Counts, b) > Limit)
      <3>1. passed' = Append(passed, x) /\ passed \in Seq(PassedCalls)
        BY <1>1, <2>6 DEF LimiterOK
      <3>2. \A s, c : Cardinality(Granted(passed', s, c)) =
                        Cardinality(Granted(passed, s, c)) + IF <<>> = s /\ b = c THEN 1 ELSE 0
        BY <1>2, <2>4, <3>1, GrantedGrows
      <3>3. \A c \in Nat : Recent(c) =>
                Cardinality(Granted(passed', <<>>, c)) + Cardinality(Waiting(c)')
                    <= CountOf(Limiter!Counts, c)
        <4>. SUFFICES ASSUME NEW c \in Nat, Recent(c)
                      PROVE  Cardinality(Granted(passed', <<>>, c)) + Cardinality(Waiting(c)')
                                 <= CountOf(Limiter!Counts, c)
          OBVIOUS
        <4>1. /\ Cardinality(Granted(passed, <<>>, c)) + Cardinality(Waiting(c))
                     <= CountOf(Limiter!Counts, c)
              /\ Cardinality(Granted(passed, <<>>, c)) \in Nat /\ Cardinality(Waiting(c)) \in Nat
              /\ CountOf(Limiter!Counts, c) \in Nat
          BY <1>1, <2>1, GrantedFinite, WaitingFinite, CountsAre DEF RedisCounted, LimiterOK
        <4>2. Cardinality(Granted(passed', <<>>, c)) =
                  Cardinality(Granted(passed, <<>>, c)) + IF b = c THEN 1 ELSE 0
          BY <3>2
        <4>3. Cardinality(Waiting(c)') =
                     Cardinality(Waiting(c)) - IF i \in Waiting(c) THEN 1 ELSE 0
          BY <1>3
        <4> QED BY <2>4, <4>1, <4>2, <4>3
      <3>4. RedisCounted'
        BY <1>1, <3>3 DEF RedisCounted, Recent, Limiter!Counts
      <3>5. MemoryCounted'
        <4>1. \A h \in Instances, c \in Nat :
                Cardinality(Granted(passed', <<h, restarts[h]>>, c)) =
                    Cardinality(Granted(passed, <<h, restarts[h]>>, c))
          <5>. SUFFICES ASSUME NEW h \in Instances, NEW c \in Nat
                        PROVE  Cardinality(Granted(passed', <<h, restarts[h]>>, c)) =
                                  Cardinality(Granted(passed, <<h, restarts[h]>>, c))
            OBVIOUS
          <5>1. <<>> # <<h, restarts[h]>>
            OBVIOUS
          <5>2. Cardinality(Granted(passed, <<h, restarts[h]>>, c)) \in Nat
            BY <3>1, GrantedFinite
          <5>3. Cardinality(Granted(passed', <<h, restarts[h]>>, c)) =
                    Cardinality(Granted(passed, <<h, restarts[h]>>, c))
                        + IF <<>> = <<h, restarts[h]>> /\ b = c THEN 1 ELSE 0
            BY <3>2
          <5> QED BY <5>1, <5>2, <5>3
        <4> QED BY <1>1, <2>1, <4>1 DEF MemoryCounted, Recent
      <3>6. LimitKept'
        <4>1. \A k \in DOMAIN passed : /\ Limiter!Bucket(passed[k].time) <= Limiter!Bucket(x.time)
                                       /\ Cardinality(InWindow(passed, passed[k])) <= Limit
          BY <1>1, <2>1, <2>4, <3>1, PassedAre, BucketsGrow DEF LimiterOK, LimitKept
        <4>2. \A c \in Limiter!Counted(Limiter!Bucket(x.time)) :
                  Cardinality(Granted(Append(passed, x), x.store, c)) <= CountOf(Limiter!Counts, c)
          <5>. SUFFICES ASSUME NEW c \in Limiter!Counted(Limiter!Bucket(x.time))
                        PROVE  Cardinality(Granted(passed', <<>>, c)) <= CountOf(Limiter!Counts, c)
            BY <1>2, <3>1
          <5>1. c \in Nat /\ Recent(c)
            BY <1>1, <2>4, RecentNow
          <5>2. Cardinality(Granted(passed', <<>>, c)) + Cardinality(Waiting(c)')
                    <= CountOf(Limiter!Counts, c)
            BY <3>3, <5>1
          <5>3. /\ Cardinality(Granted(passed', <<>>, c)) \in Nat
                /\ Cardinality(Waiting(c)') \in Nat /\ CountOf(Limiter!Counts, c) \in Nat
            BY <1>1, <1>4, GrantedFinite, WaitingStaysFinite, CountsAre
          <5> QED BY <5>2, <5>3
        <4>3. Limiter!Total(Limiter!Counts, Limiter!Bucket(x.time)) <= Limit
          <5>1. Limiter!Total(Limiter!Counts, b) \in Nat /\ Limit \in Nat
            BY <1>1, <2>4, CountsAre, RecentNow, TotalIs, WindowConstants
          <5> QED BY <2>4, <2>6, <5>1
        <4>4. IsTally(Limiter!Counts)
          BY <1>1, CountsAre
        <4>5. \A k \in DOMAIN passed' : Cardinality(InWindow(passed', passed'[k])) <= Limit
          BY <1>2, <3>1, <4>1, <4>2, <4>3, <4>4, StillWithin
        <4> QED BY <4>5 DEF LimitKept
      <3> QED BY <2>2, <2>3, <3>4, <3>5, <3>6
    <2> QED BY <2>5, <2>6
  <1> QED BY <1>5, <1>6 DEF LimiterInv

\* A command fails: the attempt is counted in memory, for the instance alone.
LEMMA LimiterFallsBack ==
    ASSUME LimiterInv, NEW i \in Instances, Limiter!FallBack(i)
    PROVE  LimiterInv'
  <1>. DEFINE b == Limiter!Bucket(now)
              still == {c \in DOMAIN memory[i] : c + Limiter!NumBuckets >= b} \cup {b}
              tally == [c \in still |-> (IF c \in DOMAIN memory[i] THEN memory[i][c] ELSE 0)
                                           + (IF c = b THEN 1 ELSE 0)]
              mine == <<i, restarts[i]>>
              x == [store |-> mine, time |-> now]
  <1>1. /\ LimiterOK
        /\ asking' = [asking EXCEPT ![i] = Limiter!Idle]
        /\ memory' = [memory EXCEPT ![i] = tally]
        /\ passed' = IF Limiter!Total(tally, b) > Limit THEN passed ELSE Append(passed, x)
        /\ UNCHANGED <<now, redis, restarts, slipped>>
    BY DEF LimiterInv, Limiter!FallBack
  <1>2. /\ restarts[i] \in Nat /\ now \in Nat /\ b \in Nat /\ IsTally(memory[i])
        /\ memory = [h \in Instances |-> memory[h]]
    BY <1>1, RecentNow DEF LimiterOK
  <1>3. x \in PassedCalls /\ x.store = mine /\ x.time = now
    BY <1>2 DEF PassedCalls, Stores
  <1>4. /\ IsTally(tally)
        /\ \A c \in Nat : Recent(c) =>
              CountOf(tally, c) = CountOf(memory[i], c) + IF c = b THEN 1 ELSE 0
        /\ \A c : CountOf(memory[i], c) \in Nat
    <2>1. IsTally(tally)
      BY <1>2 DEF IsTally
    <2>2. ASSUME NEW c \in Nat, Recent(c)
          PROVE  CountOf(tally, c) = CountOf(memory[i], c) + IF c = b THEN 1 ELSE 0
      BY <1>2, <2>2 DEF CountOf, Recent
    <2>3. \A c : CountOf(memory[i], c) \in Nat
      BY <1>2 DEF CountOf, IsTally
    <2> QED BY <2>1, <2>2, <2>3
  <1>. HIDE DEF x, tally
  <1>5. /\ asking' \in [Instances -> [at : LimiterStages, time : Nat]]
        /\ \A h \in Instances : asking'[h].time <= now'
        /\ \A h \in Instances : asking'[h].at # "idle" => asking'[h] = asking[h]
        /\ \A c : Cardinality(Waiting(c)') =
                     Cardinality(Waiting(c)) - IF i \in Waiting(c) THEN 1 ELSE 0
    BY <1>1, WaitsNoLonger
  <1>6. /\ passed' \in Seq(PassedCalls) /\ passed \in Seq(PassedCalls)
        /\ \A k \in DOMAIN passed' : \/ k \in DOMAIN passed /\ passed'[k] = passed[k]
                                     \/ passed'[k] = x
    BY <1>1, <1>3 DEF LimiterOK
  <1>7. /\ memory' = [h \in Instances |-> memory'[h]] /\ memory'[i] = tally
        /\ \A h \in Instances : h # i => memory'[h] = memory[h]
    BY <1>1, <1>2
  <1>8. LimiterOK'
    <2>1. \A k \in DOMAIN passed' :
            /\ passed'[k].time <= now'
            /\ \A h \in Instances, r \in Nat : passed'[k].store = <<h, r>> => r <= restarts'[h]
      <3>. SUFFICES ASSUME NEW k \in DOMAIN passed'
                    PROVE  /\ passed'[k].time <= now'
                           /\ \A h \in Instances, r \in Nat :
                                 passed'[k].store = <<h, r>> => r <= restarts'[h]
        OBVIOUS
      <3>1. CASE k \in DOMAIN passed /\ passed'[k] = passed[k]
        BY <1>1, <3>1 DEF LimiterOK
      <3>2. CASE passed'[k] = x
        <4>1. \A h \in Instances, r \in Nat : mine = <<h, r>> => h = i /\ r = restarts[i]
          OBVIOUS
        <4> QED BY <1>1, <1>2, <1>3, <3>2, <4>1
      <3> QED BY <1>6, <3>1, <3>2
    <2>2. \A h \in Instances : IsTally(memory'[h])
      BY <1>1, <1>4, <1>7 DEF LimiterOK
    <2> QED BY <1>1, <1>5, <1>6, <1>7, <2>1, <2>2 DEF LimiterOK
  <1>9. ASSUME ~slipped'
        PROVE  InBucket' /\ Lasting' /\ RedisCounted' /\ MemoryCounted' /\ LimitKept'
    <2>1. InBucket /\ Lasting /\ RedisCounted /\ MemoryCounted /\ LimitKept
      BY <1>1, <1>9 DEF LimiterInv
    <2>2. InBucket'
      BY <1>1, <1>5, <2>1 DEF InBucket
    <2>3. Lasting'
      BY <1>1, <2>1 DEF Lasting
    <2>4. \A s, c : /\ Cardinality(Granted(passed', s, c)) \in Nat
                    /\ Cardinality(Granted(passed, s, c)) \in Nat
                    /\ Cardinality(Granted(passed', s, c)) <=
                          Cardinality(Granted(passed, s, c)) + IF mine = s /\ b = c THEN 1 ELSE 0
      <3>. SUFFICES ASSUME NEW s, NEW c
                    PROVE  /\ Cardinality(Granted(passed', s, c)) \in Nat
                           /\ Cardinality(Granted(passed, s, c)) \in Nat
                           /\ Cardinality(Granted(passed', s, c)) <=
                                 Cardinality(Granted(passed, s, c))
                                     + IF mine = s /\ b = c THEN 1 ELSE 0
        OBVIOUS
      <3>1. /\ Cardinality(Granted(passed', s, c)) \in Nat
            /\ Cardinality(Granted(passed, s, c)) \in Nat
        BY <1>6, GrantedFinite
      <3>2. passed' = passed \/ passed' = Append(passed, x)
        BY <1>1
      <3>3. Limiter!Bucket(x.time) = b /\ x.store = mine
        BY <1>3
      <3>. HIDE DEF mine, b
      <3>. DEFINE more == IF mine = s /\ b = c THEN 1 ELSE 0
      <3>4. Cardinality(Granted(Append(passed, x), s, c)) =
                Cardinality(Granted(passed, s, c)) + more
        BY <1>3, <1>6, <3>3, GrantedGrows
      <3>5. more \in Nat
        OBVIOUS
      <3>6. Cardinality(Granted(passed', s, c)) <= Cardinality(Granted(passed, s, c)) + more
        <4>. HIDE DEF more
        <4>1. CASE passed' = passed
          BY <3>1, <3>5, <4>1
        <4>2. CASE passed' = Append(passed, x)
          BY <3>1, <3>4, <3>5, <4>2
        <4> QED BY <3>2, <4>1, <4>2
      <3> QED BY <3>1, <3>6
    <2>5. RedisCounted'
      <3>. SUFFICES ASSUME NEW c \in Nat, Recent(c)
                    PROVE  Cardinality(Granted(passed', <<>>, c)) + Cardinality(Waiting(c)')
                               <= CountOf(Limiter!Counts, c)
        BY <1>1 DEF RedisCounted, Recent, Limiter!Counts
      <3>1. /\ Cardinality(Granted(passed, <<>>, c)) + Cardinality(Waiting(c))
                   <= CountOf(Limiter!Counts, c)
            /\ Cardinality(Waiting(c)) \in Nat /\ CountOf(Limiter!Counts, c) \in Nat
        BY <1>1, <2>1, WaitingFinite, CountsAre DEF RedisCounted
      <3>2. mine # <<>>
        OBVIOUS
      <3>3. /\ Cardinality(Granted(passed', <<>>, c)) \in Nat
            /\ Cardinality(Granted(passed, <<>>, c)) \in Nat
            /\ Cardinality(Granted(passed', <<>>, c)) <= Cardinality(Granted(passed, <<>>, c))
        BY <2>4, <3>2
      <3>4. Cardinality(Waiting(c)') = Cardinality(Waiting(c)) - IF i \in Waiting(c) THEN 1 ELSE 0
        BY <1>5
      <3> QED BY <3>1, <3>3, <3>4
    <2>6. MemoryCounted'
      <3>. SUFFICES ASSUME NEW h \in Instances, NEW c \in Nat, Recent(c)
                    PROVE  Cardinality(Granted(passed', <<h, restarts[h]>>, c))
                               <= CountOf(memory'[h], c)
        BY <1>1 DEF MemoryCounted, Recent
      <3>1. Cardinality(Granted(passed, <<h, restarts[h]>>, c)) <= CountOf(memory[h], c)
        BY <2>1 DEF MemoryCounted
      <3>2. CountOf(memory[h], c) \in Nat
        BY <1>1 DEF LimiterOK, CountOf, IsTally
      <3>3. CASE h = i
        <4>1. CountOf(memory'[h], c) = CountOf(memory[h], c) + IF c = b THEN 1 ELSE 0
          BY <1>4, <1>7, <3>3
        <4>2. /\ Cardinality(Granted(passed', mine, c)) \in Nat
              /\ Cardinality(Granted(passed, mine, c)) \in Nat
              /\ Cardinality(Granted(passed', mine, c)) <=
                     Cardinality(Granted(passed, mine, c)) + IF b = c THEN 1 ELSE 0
          BY <2>4
        <4>3. /\ Cardinality(Granted(passed, mine, c)) <= CountOf(memory[h], c)
              /\ mine = <<h, restarts[h]>>
          BY <3>1, <3>3
        <4>. HIDE DEF b, mine
        <4>4. Cardinality(Granted(passed', mine, c)) <= CountOf(memory'[h], c)
          BY <3>2, <4>1, <4>2, <4>3
        <4> QED BY <4>3, <4>4
      <3>4. CASE h # i
        <4>1. mine # <<h, restarts[h]>> /\ memory'[h] = memory[h]
          BY <1>7, <3>4
        <4>2. /\ Cardinality(Granted(passed', <<h, restarts[h]>>, c)) \in Nat
              /\ Cardinality(Granted(passed, <<h, restarts[h]>>, c)) \in Nat
              /\ Cardinality(Granted(passed', <<h, restarts[h]>>, c)) <=
                     Cardinality(Granted(passed, <<h, restarts[h]>>, c))
          BY <2>4, <4>1
        <4> QED BY <3>1, <3>2, <4>1, <4>2
      <3> QED BY <3>3, <3>4
    <2>7. LimitKept'
      <3>1. CASE passed' = passed
        BY <2>1, <3>1 DEF LimitKept
      <3>2. CASE passed' # passed
        <4>1. passed' = Append(passed, x) /\ ~(Limiter!Total(tally, b) > Limit)
          BY <1>1, <3>2
        <4>2. \A k \in DOMAIN passed : /\ Limiter!Bucket(passed[k].time) <= Limiter!Bucket(x.time)
                                       /\ Cardinality(InWindow(passed, passed[k])) <= Limit
          BY <1>1, <1>2, <1>3, <1>6, <2>1, PassedAre, BucketsGrow DEF LimiterOK, LimitKept
        <4>3. \A c \in Limiter!Counted(Limiter!Bucket(x.time)) :
                  Cardinality(Granted(Append(passed, x), x.store, c)) <= CountOf(tally, c)
          <5>. SUFFICES ASSUME NEW c \in Limiter!Counted(b)
                        PROVE  Cardinality(Granted(passed', mine, c)) <= CountOf(tally, c)
            BY <1>3, <4>1
          <5>1. c \in Nat /\ Recent(c)
            BY <1>1, RecentNow
          <5> QED BY <1>1, <1>7, <2>6, <5>1 DEF MemoryCounted, Recent
        <4>4. Limiter!Total(tally, Limiter!Bucket(x.time)) <= Limit
          <5>1. Limiter!Total(tally, b) \in Nat /\ Limit \in Nat
            BY <1>2, <1>4, TotalIs, WindowConstants
          <5>. HIDE DEF b
          <5>2. Limiter!Total(tally, b) <= Limit
            BY <4>1, <5>1
          <5> QED BY <1>3, <5>2 DEF b
        <4>5. \A k \in DOMAIN passed' : Cardinality(InWindow(passed', passed'[k])) <= Limit
          BY <1>3, <1>4, <1>6, <4>1, <4>2, <4>3, <4>4, StillWithin
        <4> QED BY <4>5 DEF LimitKept
      <3> QED BY <3>1, <3>2
    <2> QED BY <2>2, <2>3, <2>5, <2>6, <2>7
  <1> QED BY <1>8, <1>9 DEF LimiterInv

\* Time passes: no bucket goes that is still counted.
LEMMA LimiterTicks ==
    ASSUME LimiterInv, Limiter!Tick
    PROVE  LimiterInv'
  <1>1. /\ LimiterOK /\ now < MaxTime /\ now' = now + 1
        /\ redis' = [c \in {d \in DOMAIN redis : redis[d].until > now + 1} |-> redis[c]]
        /\ slipped' = (slipped \/ (Limiter!Bucket(now + 1) # Limiter!Bucket(now)
                                   /\ \E i \in Instances : asking[i] # Limiter!Idle))
        /\ UNCHANGED <<memory, asking, passed, restarts>>
    BY DEF LimiterInv, Limiter!Tick
  <1>2. now \in Nat /\ now' \in Nat /\ now' <= MaxTime /\ now <= now'
    BY <1>1, WindowConstants DEF LimiterOK
  <1>3. /\ DOMAIN redis' = {d \in DOMAIN redis : redis[d].until > now'}
        /\ redis' = [c \in DOMAIN redis' |-> redis'[c]]
        /\ \A c \in DOMAIN redis' : c \in DOMAIN redis /\ redis'[c] = redis[c]
    BY <1>1
  <1>4. LimiterOK'
    <2>1. \A i \in Instances : asking[i].time \in Nat
      BY <1>1 DEF LimiterOK
    <2>2. \A k \in DOMAIN passed : passed[k].time \in Nat
      BY <1>1, PassedAre DEF LimiterOK
    <2>3. slipped' \in BOOLEAN
      BY <1>1 DEF LimiterOK
    <2>4. \A c \in DOMAIN redis' : c \in Nat /\ redis'[c] \in [count : Nat, until : Nat]
      BY <1>1, <1>3 DEF LimiterOK
    <2>5. \A i \in Instances : asking'[i].time <= now'
      BY <1>1, <1>2, <2>1 DEF LimiterOK
    <2>6. \A k \in DOMAIN passed' :
            /\ passed'[k].time <= now'
            /\ \A i \in Instances, r \in Nat : passed'[k].store = <<i, r>> => r <= restarts'[i]
      BY <1>1, <1>2, <2>2 DEF LimiterOK
    <2> QED BY <1>1, <1>2, <1>3, <2>3, <2>4, <2>5, <2>6 DEF LimiterOK
  <1>5. ASSUME ~slipped'
        PROVE  InBucket' /\ Lasting' /\ RedisCounted' /\ MemoryCounted' /\ LimitKept'
    <2>1. /\ ~slipped
          /\ Limiter!Bucket(now') # Limiter!Bucket(now)
                => \A i \in Instances : asking[i] = Limiter!Idle
      BY <1>1, <1>5
    <2>2. InBucket /\ Lasting /\ RedisCounted /\ MemoryCounted /\ LimitKept
      BY <2>1 DEF LimiterInv
    <2>3. Limiter!Bucket(now) <= Limiter!Bucket(now') /\ Limiter!Bucket(now) \in Nat
          /\ Limiter!Bucket(now') \in Nat
      BY <1>2, BucketsGrow, BucketBounds
    <2>4. InBucket'
      BY <1>1, <2>1, <2>2 DEF InBucket, Limiter!Idle
    <2>5. Lasting'
      BY <1>3, <2>2 DEF Lasting
    <2>6. \A c \in Nat : Recent(c)' => Recent(c)
      BY <2>3, WindowIs DEF Recent
    <2>7. MemoryCounted' /\ LimitKept'
      BY <1>1, <2>2, <2>6 DEF MemoryCounted, LimitKept
    <2>8. \A c \in Nat : Recent(c)' => CountOf(Limiter!Counts, c)' = CountOf(Limiter!Counts, c)
      <3>. SUFFICES ASSUME NEW c \in Nat, Recent(c)'
                    PROVE  CountOf(Limiter!Counts, c)' = CountOf(Limiter!Counts, c)
        OBVIOUS
      <3>1. now' < c * BucketSize + Window + BucketSize
        BY <1>2, RecentLasts DEF Recent
      <3>2. c \in DOMAIN redis => c \in DOMAIN redis'
        <4>. SUFFICES ASSUME c \in DOMAIN redis PROVE redis[c].until > now'
          BY <1>3
        <4>1. redis[c].until >= c * BucketSize + Window + BucketSize /\ redis[c].until \in Nat
          BY <1>1, <2>2 DEF Lasting, LimiterOK
        <4>2. c * BucketSize + Window + BucketSize \in Nat
          BY WindowConstants
        <4> QED BY <1>2, <3>1, <4>1, <4>2
      <3> QED BY <1>3, <3>2 DEF CountOf, Limiter!Counts
    <2>9. \A c : Waiting(c)' = Waiting(c)
      BY <1>1 DEF Waiting
    <2>10. RedisCounted'
      BY <1>1, <2>2, <2>6, <2>8, <2>9 DEF RedisCounted
    <2> QED BY <2>4, <2>5, <2>7, <2>10
  <1> QED BY <1>4, <1>5 DEF LimiterInv

\* An instance is restarted, and counts from nothing.
LEMMA LimiterRestarts ==
    ASSUME LimiterInv, NEW i \in Instances, Limiter!Restart(i)
    PROVE  LimiterInv'
  <1>1. /\ LimiterOK /\ restarts[i] = 0
        /\ restarts' = [restarts EXCEPT ![i] = 1]
        /\ memory' = [memory EXCEPT ![i] = <<>>]
        /\ asking' = [asking EXCEPT ![i] = Limiter!Idle]
        /\ UNCHANGED <<now, redis, passed, slipped>>
    BY DEF LimiterInv, Limiter!Restart
  <1>2. /\ restarts' \in [Instances -> Nat] /\ restarts'[i] = 1
        /\ \A h \in Instances : h # i => restarts'[h] = restarts[h]
        /\ \A h \in Instances : restarts[h] <= restarts'[h] /\ restarts[h] \in Nat
    BY <1>1 DEF LimiterOK
  <1>3. /\ memory' = [h \in Instances |-> memory'[h]] /\ memory'[i] = <<>>
        /\ \A h \in Instances : h # i => memory'[h] = memory[h]
        /\ \A h \in Instances : IsTally(memory'[h])
    <2>1. memory' = [h \in Instances |-> memory'[h]] /\ memory'[i] = <<>>
          /\ \A h \in Instances : h # i => memory'[h] = memory[h]
      BY <1>1 DEF LimiterOK
    <2>2. IsTally(<<>>)
      BY DEF IsTally
    <2> QED BY <1>1, <2>1, <2>2 DEF LimiterOK
  <1>4. /\ asking' \in [Instances -> [at : LimiterStages, time : Nat]]
        /\ \A h \in Instances : asking'[h].time <= now'
        /\ \A h \in Instances : asking'[h].at # "idle" => asking'[h] = asking[h]
        /\ \A c : Cardinality(Waiting(c)') =
                     Cardinality(Waiting(c)) - IF i \in Waiting(c) THEN 1 ELSE 0
    BY <1>1, WaitsNoLonger
  <1>5. LimiterOK'
    <2>1. \A k \in DOMAIN passed' :
            /\ passed'[k].time <= now'
            /\ \A h \in Instances, r \in Nat : passed'[k].store = <<h, r>> => r <= restarts'[h]
      <3>1. \A k \in DOMAIN passed :
              /\ passed[k].time <= now
              /\ \A h \in Instances, r \in Nat : passed[k].store = <<h, r>> => r <= restarts[h]
        BY <1>1 DEF LimiterOK
      <3>2. \A h \in Instances, r \in Nat : r <= restarts[h] => r <= restarts'[h]
        BY <1>2
      <3> QED BY <1>1, <3>1, <3>2
    <2> QED BY <1>1, <1>2, <1>3, <1>4, <2>1 DEF LimiterOK
  <1>6. ASSUME ~slipped'
        PROVE  InBucket' /\ Lasting' /\ RedisCounted' /\ MemoryCounted' /\ LimitKept'
    <2>1. InBucket /\ Lasting /\ RedisCounted /\ MemoryCounted /\ LimitKept
      BY <1>1, <1>6 DEF LimiterInv
    <2>2. InBucket'
      BY <1>1, <1>4, <2>1 DEF InBucket
    <2>3. Lasting' /\ LimitKept'
      BY <1>1, <2>1 DEF Lasting, LimitKept
    <2>4. RedisCounted'
      <3>. SUFFICES ASSUME NEW c \in Nat, Recent(c)
                    PROVE  Cardinality(Granted(passed, <<>>, c)) + Cardinality(Waiting(c)')
                               <= CountOf(Limiter!Counts, c)
        BY <1>1 DEF RedisCounted, Recent, Limiter!Counts
      <3>1. /\ Cardinality(Granted(passed, <<>>, c)) + Cardinality(Waiting(c))
                   <= CountOf(Limiter!Counts, c)
            /\ Cardinality(Granted(passed, <<>>, c)) \in Nat /\ Cardinality(Waiting(c)) \in Nat
            /\ CountOf(Limiter!Counts, c) \in Nat
        BY <1>1, <2>1, GrantedFinite, WaitingFinite, CountsAre DEF RedisCounted, LimiterOK
      <3> QED BY <1>4, <3>1
    <2>5. MemoryCounted'
      <3>. SUFFICES ASSUME NEW h \in Instances, NEW c \in Nat, Recent(c)
                    PROVE  Cardinality(Granted(passed, <<h, restarts'[h]>>, c))
                               <= CountOf(memory'[h], c)
        BY <1>1 DEF MemoryCounted, Recent
      <3>1. CASE h # i
        BY <1>2, <1>3, <2>1, <3>1 DEF MemoryCounted
      <3>2. CASE h = i
        <4>1. Granted(passed, <<i, 1>>, c) = {}
          <5>1. \A k \in DOMAIN passed : passed[k].store = <<i, 1>> => 1 <= restarts[i]
            BY <1>1 DEF LimiterOK
          <5>2. \A k \in DOMAIN passed : passed[k].store # <<i, 1>>
            BY <1>1, <5>1
          <5> QED BY <5>2 DEF Granted
        <4>2. Cardinality(Granted(passed, <<i, 1>>, c)) = 0
          BY <4>1, FS_EmptySet
        <4>3. CountOf(memory'[h], c) = 0
          BY <1>3, <3>2 DEF CountOf
        <4> QED BY <1>2, <3>2, <4>2, <4>3
      <3> QED BY <3>1, <3>2
    <2> QED BY <2>2, <2>3, <2>4, <2>5
  <1> QED BY <1>5, <1>6 DEF LimiterInv

\* Nobody has tried yet.
LEMMA LimiterInit == Limiter!Init => LimiterInv
  <1>. SUFFICES ASSUME Limiter!Init PROVE LimiterInv
    OBVIOUS
  <1>1. /\ now = 0 /\ redis = <<>> /\ memory = [i \in Instances |-> <<>>]
        /\ asking = [i \in Instances |-> Limiter!Idle] /\ passed = <<>>
        /\ restarts = [i \in Instances |-> 0] /\ slipped = FALSE
    BY DEF Limiter!Init
  <1>2. Limiter!Idle \in [at : LimiterStages, time : Nat] /\ Limiter!Idle.at = "idle"
        /\ Limiter!Idle.time = 0
    BY DEF Limiter!Idle, LimiterStages
  <1>3. LimiterOK
    <2>1. IsTally(<<>>)
      BY DEF IsTally
    <2>2. passed \in Seq(PassedCalls) /\ DOMAIN passed = {}
      BY <1>1
    <2>3. redis = [c \in DOMAIN redis |-> redis[c]] /\ DOMAIN redis = {}
      BY <1>1
    <2>4. memory = [i \in Instances |-> memory[i]] /\ \A i \in Instances : IsTally(memory[i])
      BY <1>1, <2>1
    <2>5. restarts \in [Instances -> Nat] /\ now \in Nat /\ now <= MaxTime
      BY <1>1, WindowConstants
    <2>6. /\ asking \in [Instances -> [at : LimiterStages, time : Nat]]
          /\ \A i \in Instances : asking[i].time <= now
      BY <1>1, <1>2
    <2> QED BY <1>1, <2>2, <2>3, <2>4, <2>5, <2>6 DEF LimiterOK
  <1>4. InBucket /\ Lasting /\ LimitKept
    BY <1>1, <1>2 DEF InBucket, Lasting, LimitKept
  <1>5. \A s, c : Cardinality(Granted(passed, s, c)) = 0
    <2>1. \A s, c : Granted(passed, s, c) = {}
      BY <1>1 DEF Granted
    <2> QED BY <2>1, FS_EmptySet
  <1>6. \A c : Cardinality(Waiting(c)) = 0
    <2>1. \A c : Waiting(c) = {}
      BY <1>1, <1>2 DEF Waiting
    <2> QED BY <2>1, FS_EmptySet
  <1>7. RedisCounted
    <2>1. \A c : CountOf(Limiter!Counts, c) \in Nat
      BY <1>3, CountsAre
    <2> QED BY <1>5, <1>6, <2>1 DEF RedisCounted
  <1>8. MemoryCounted
    <2>1. \A i \in Instances : \A c : CountOf(memory[i], c) = 0
      BY <1>1 DEF CountOf
    <2> QED BY <1>5, <2>1 DEF MemoryCounted
  <1> QED BY <1>3, <1>4, <1>7, <1>8 DEF LimiterInv

\* Each step, whichever commands interleave.
LEMMA LimiterNext == LimiterInv /\ [Limiter!Next]_limiter => LimiterInv'
  <1>. SUFFICES ASSUME LimiterInv, [Limiter!Next]_limiter PROVE LimiterInv'
    OBVIOUS
  <1>1. CASE UNCHANGED limiter
    <2>1. UNCHANGED <<now, redis, memory, asking, passed, restarts, slipped>>
      BY <1>1 DEF limiter
    <2>2. LimiterOK'
      BY <2>1 DEF LimiterInv, LimiterOK
    <2>3. InBucket' = InBucket /\ Lasting' = Lasting /\ LimitKept' = LimitKept
      BY <2>1 DEF InBucket, Lasting, LimitKept
    <2>4. RedisCounted' = RedisCounted /\ MemoryCounted' = MemoryCounted
      BY <2>1 DEF RedisCounted, MemoryCounted, Recent, Waiting, Limiter!Counts
    <2> QED BY <2>1, <2>2, <2>3, <2>4 DEF LimiterInv
  <1>2. CASE Limiter!Tick
    BY <1>2, LimiterTicks
  <1>3. ASSUME NEW i \in Instances,
               \/ Limiter!Ask(i) \/ Limiter!Incr(i) \/ Limiter!Expire(i)
               \/ Limiter!Count(i) \/ Limiter!FallBack(i) \/ Limiter!Restart(i)
        PROVE  LimiterInv'
    BY <1>3, LimiterAsks, LimiterIncrs, LimiterExpires, LimiterCounts, LimiterFallsBack,
       LimiterRestarts
  <1> QED BY <1>1, <1>2, <1>3 DEF Limiter!Next

\* In every window of time, however it lies to the buckets, each store lets at
\* most the limit of attempts pass, as long as no bucket ends under a call
\* (rate_limit.py:74-94, 101-124), for any number of instances that overlap,
\* fall back and die.
THEOREM LimitIsKept == MCSpec => []LimitHolds
  <1>1. MCInit => LimiterInv
    BY LimiterInit DEF MCInit
  <1>2. LimiterInv /\ [MCNext]_<<part, vars, branch, turn, register, tokens, limiter, tree, index,
                                 memories>> => LimiterInv'
    BY LimiterNext DEF MCNext
  <1>3. LimiterInv => LimitHolds
    <2>1. \A p : Limiter!Passed(p) = InWindow(passed, p)
      BY DEF Limiter!Passed, InWindow
    <2>2. \A S : Limiter!Cardinality(S) = Cardinality(S)
      BY DEF Limiter!Cardinality, Cardinality
    <2> QED BY <2>1, <2>2 DEF LimiterInv, LimitKept, LimitHolds, Of, Limiter!LimitHolds
  <1> QED BY <1>1, <1>2, <1>3, PTL DEF MCSpec

-----------------------------------------------------------------------------
(* Sequences of items.                                                     *)

\* Every nonempty set of natural numbers has a least element.
LEMMA LeastExists ==
  ASSUME NEW S \in SUBSET Nat, S # {}
  PROVE  \E x \in S : \A y \in S : x <= y
  <1>1. PICK x \in S : \A y \in S : <<y, x>> \notin OpToRel(<, Nat)
    BY WFMin, NatLessThanWellFounded, Zenon
  <1>2. \A y \in S : ~(y < x)
    BY <1>1, Zenon DEF OpToRel
  <1> QED BY <1>2

Iterates(f, V, first, n, step) ==
    /\ f \in [0..n -> V]
    /\ f[0] = first
    /\ \A i \in 1..n : f[i] = step[<<f[i - 1], i>>]

\* A function on 0..n can be defined by its first value and a step.
LEMMA RecursionOnInterval ==
  ASSUME NEW V, NEW first \in V, NEW n \in Nat, NEW step \in [V \X (1..n) -> V]
  PROVE  \E f : Iterates(f, V, first, n, step)
  <1> DEFINE Good(m) == \E f \in [0..m -> V] :
                          /\ f[0] = first
                          /\ \A i \in 1..m : f[i] = step[<<f[i - 1], i>>]
             Bad == {m \in 0..n : ~Good(m)}
  <1>1. Good(0)
    <2> DEFINE g == [i \in 0..0 |-> first]
    <2>1. g \in [0..0 -> V] /\ g[0] = first /\ 1..0 = {}
      OBVIOUS
    <2> HIDE DEF g
    <2> QED BY <2>1
  <1>2. ASSUME NEW m \in 1..n, Good(m - 1)
        PROVE  Good(m)
    <2>1. PICK f \in [0..(m - 1) -> V] :
             /\ f[0] = first
             /\ \A i \in 1..(m - 1) : f[i] = step[<<f[i - 1], i>>]
      BY <1>2
    <2> DEFINE g == [i \in 0..m |-> IF i = m THEN step[<<f[m - 1], m>>] ELSE f[i]]
    <2>2. f[m - 1] \in V /\ m - 1 \in 0..m /\ m \in 0..m
      OBVIOUS
    <2>3. step[<<f[m - 1], m>>] \in V
      BY <2>2
    <2>4. g \in [0..m -> V]
      BY <2>3
    <2>5. \A i \in 0..(m - 1) : g[i] = f[i]
      OBVIOUS
    <2>6. g[m] = step[<<f[m - 1], m>>]
      OBVIOUS
    <2>7. g[0] = first
      BY <2>1, <2>5
    <2>8. ASSUME NEW i \in 1..m
          PROVE  g[i] = step[<<g[i - 1], i>>]
      <3> HIDE DEF g
      <3>1. i - 1 \in 0..(m - 1) /\ g[i - 1] = f[i - 1]
        BY <2>5
      <3>2. CASE i = m
        BY <3>1, <3>2, <2>6
      <3>3. CASE i # m
        <4>1. i \in 1..(m - 1) /\ i \in 0..(m - 1)
          BY <3>3
        <4> QED BY <4>1, <3>1, <2>1, <2>5
      <3> QED BY <3>2, <3>3
    <2> HIDE DEF g
    <2> QED BY <2>4, <2>7, <2>8
  <1> HIDE DEF Good
  <1>3. Bad = {}
    <2> SUFFICES ASSUME Bad # {} PROVE FALSE
      OBVIOUS
    <2>1. Bad \in SUBSET Nat
      OBVIOUS
    <2> HIDE DEF Bad
    <2>2. PICK m \in Bad : \A j \in Bad : m <= j
      BY <2>1, LeastExists
    <2>3. m \in 1..n /\ m - 1 \in 0..n /\ ~Good(m)
      BY <2>2, <1>1 DEF Bad
    <2>4. Good(m - 1)
      BY <2>2, <2>3 DEF Bad
    <2> QED BY <2>3, <2>4, <1>2
  <1>4. Good(n)
    BY <1>3
  <1> QED BY <1>4 DEF Good, Iterates

\* What Select finds among the first n members.
Finds(found, seq, S) ==
    found = [n \in 0 .. Len(seq) |->
                IF n = 0 THEN <<>>
                ELSE IF seq[n] \in S THEN Append(found[n - 1], seq[n]) ELSE found[n - 1]]

\* An injective sequence of members of A.
Lists(A) == {seq \in Seq(A) : IsInjective(seq)}

\* One more item, listed once.
LEMMA AppendLists ==
  ASSUME NEW A, NEW seq \in Lists(A), NEW x \in A, x \notin Range(seq)
  PROVE  Append(seq, x) \in Lists(A) /\ Range(Append(seq, x)) = Range(seq) \cup {x}
  <1>1. seq \in Seq(A) /\ \A i, j \in 1 .. Len(seq) : seq[i] = seq[j] => i = j
    BY DEF Lists, IsInjective
  <1>2. /\ Append(seq, x) \in Seq(A) /\ Len(Append(seq, x)) = Len(seq) + 1
        /\ \A i \in 1 .. Len(seq) : Append(seq, x)[i] = seq[i]
        /\ Append(seq, x)[Len(seq) + 1] = x
    BY <1>1
  <1>3. Len(seq) \in Nat /\ DOMAIN seq = 1 .. Len(seq) /\ DOMAIN Append(seq, x) = 1 .. Len(seq) + 1
    BY <1>1, <1>2
  <1>4. \A i \in 1 .. Len(seq) : seq[i] \in Range(seq)
    BY <1>3 DEF Range
  <1> DEFINE long == Append(seq, x)
  <1> HIDE DEF long
  <1>5. /\ long \in Seq(A) /\ Len(long) = Len(seq) + 1 /\ DOMAIN long = 1 .. Len(seq) + 1
        /\ \A i \in 1 .. Len(seq) : long[i] = seq[i]
        /\ long[Len(seq) + 1] = x
    BY <1>2, <1>3 DEF long
  <1>6. \A i, j \in 1 .. Len(seq) + 1 : long[i] = long[j] => i = j
    <2>1. ASSUME NEW i \in 1 .. Len(seq) + 1, NEW j \in 1 .. Len(seq) + 1, long[i] = long[j], i # j
          PROVE  FALSE
      <3>1. CASE i \in 1 .. Len(seq) /\ j \in 1 .. Len(seq)
        BY <3>1, <1>1, <1>5, <2>1
      <3>2. CASE i = Len(seq) + 1 /\ j \in 1 .. Len(seq)
        BY <3>2, <1>4, <1>5, <2>1
      <3>3. CASE j = Len(seq) + 1 /\ i \in 1 .. Len(seq)
        BY <3>3, <1>4, <1>5, <2>1
      <3> QED BY <3>1, <3>2, <3>3, <1>3, <2>1
    <2> QED BY <2>1
  <1>7. long \in Lists(A)
    BY <1>5, <1>6 DEF Lists, IsInjective
  <1>8. Range(long) = Range(seq) \cup {x}
    <2>1. Range(long) = {long[i] : i \in 1 .. Len(seq) + 1} /\ Range(seq) = {seq[i] : i \in 1 .. Len(seq)}
      BY <1>3, <1>5 DEF Range
    <2>2. 1 .. Len(seq) + 1 = (1 .. Len(seq)) \cup {Len(seq) + 1}
      BY <1>3
    <2> QED BY <2>1, <2>2, <1>5
  <1> QED BY <1>7, <1>8 DEF long

\* A list after another that shares nothing with it.
LEMMA ConcatLists ==
  ASSUME NEW A, NEW s \in Lists(A), NEW t \in Lists(A), Range(s) \cap Range(t) = {}
  PROVE  s \o t \in Lists(A) /\ Range(s \o t) = Range(s) \cup Range(t)
  <1> DEFINE m == Len(s)
             n == Len(t)
             st == s \o t
  <1>1. /\ s \in Seq(A) /\ t \in Seq(A) /\ m \in Nat /\ n \in Nat
        /\ DOMAIN s = 1 .. m /\ DOMAIN t = 1 .. n
        /\ \A i, j \in 1 .. m : s[i] = s[j] => i = j
        /\ \A i, j \in 1 .. n : t[i] = t[j] => i = j
    BY DEF Lists, IsInjective
  <1>2. /\ st \in Seq(A) /\ Len(st) = m + n /\ DOMAIN st = 1 .. (m + n)
        /\ \A i \in 1 .. m : st[i] = s[i]
        /\ \A i \in 1 .. n : st[m + i] = t[i]
    BY <1>1
  <1>3. Range(s) = {s[i] : i \in 1 .. m} /\ Range(t) = {t[i] : i \in 1 .. n}
    BY <1>1 DEF Range
  <1> HIDE DEF m, n, st
  <1>4. \A i \in 1 .. (m + n) : i \in 1 .. m \/ \E k \in 1 .. n : i = m + k
    <2>1. ASSUME NEW i \in 1 .. (m + n), i \notin 1 .. m PROVE \E k \in 1 .. n : i = m + k
      <3>1. i - m \in 1 .. n /\ i = m + (i - m)
        BY <2>1, <1>1
      <3> QED BY <3>1
    <2> QED BY <2>1
  <1>5. \A i, j \in 1 .. (m + n) : st[i] = st[j] => i = j
    <2>1. ASSUME NEW i \in 1 .. (m + n), NEW j \in 1 .. (m + n), st[i] = st[j] PROVE i = j
      <3>1. CASE i \in 1 .. m /\ j \in 1 .. m
        BY <3>1, <2>1, <1>1, <1>2
      <3>2. ASSUME NEW k \in 1 .. n, i = m + k, j \in 1 .. m PROVE FALSE
        BY <3>2, <2>1, <1>2, <1>3
      <3>3. ASSUME NEW k \in 1 .. n, j = m + k, i \in 1 .. m PROVE FALSE
        BY <3>3, <2>1, <1>2, <1>3
      <3>4. ASSUME NEW k \in 1 .. n, NEW l \in 1 .. n, i = m + k, j = m + l PROVE i = j
        <4>1. t[k] = t[l]
          BY <3>4, <2>1, <1>2
        <4> QED BY <4>1, <3>4, <1>1
      <3> QED BY <3>1, <3>2, <3>3, <3>4, <1>4
    <2> QED BY <2>1
  <1>6. st \in Lists(A)
    BY <1>2, <1>5 DEF Lists, IsInjective
  <1>7. Range(st) = Range(s) \cup Range(t)
    <2>1. Range(st) = {st[i] : i \in 1 .. (m + n)}
      BY <1>2 DEF Range
    <2>2. ASSUME NEW x \in Range(st) PROVE x \in Range(s) \cup Range(t)
      BY <2>1, <2>2, <1>2, <1>3, <1>4
    <2>3. Range(s) \subseteq Range(st)
      <3>1. 1 .. m \subseteq 1 .. (m + n)
        BY <1>1
      <3> QED BY <2>1, <3>1, <1>2, <1>3
    <2>4. Range(t) \subseteq Range(st)
      <3>1. \A i \in 1 .. n : m + i \in 1 .. (m + n)
        BY <1>1
      <3> QED BY <2>1, <3>1, <1>2, <1>3
    <2> QED BY <2>2, <2>3, <2>4
  <1> QED BY <1>6, <1>7 DEF st

\* Select finds exactly what it is to find, once each.
LEMMA SelectFinds ==
  ASSUME NEW A, NEW seq \in Lists(A), NEW S
  PROVE  Turn!Select(seq, S) \in Lists(A) /\ Range(Turn!Select(seq, S)) = Range(seq) \cap S
  <1> DEFINE n == Len(seq)
             V == Seq(A)
             f == CHOOSE g : Finds(g, seq, S)
             To(k) == {seq[i] : i \in 1 .. k}
             Good(k) == f[k] \in Lists(A) /\ Range(f[k]) = To(k) \cap S
             Bad == {k \in 0 .. n : ~Good(k)}
  <1>1. /\ seq \in Seq(A) /\ n \in Nat /\ DOMAIN seq = 1 .. n
        /\ \A i, j \in 1 .. n : seq[i] = seq[j] => i = j
    BY DEF Lists, IsInjective
  <1>2. \E g \in [0 .. n -> V] : Finds(g, seq, S)
    <2> DEFINE longer(p) == IF seq[p[2]] \in S THEN Append(p[1], seq[p[2]]) ELSE p[1]
               step == [p \in V \X (1 .. n) |-> longer(p)]
    <2>1. \A p \in V \X (1 .. n) : longer(p) \in V
      <3>1. ASSUME NEW q \in V, NEW i \in 1 .. n PROVE Append(q, seq[i]) \in V
        <4>1. seq[i] \in A
          BY <1>1
        <4> QED BY <4>1
      <3> QED BY <3>1
    <2> HIDE DEF longer
    <2>2. step \in [V \X (1 .. n) -> V] /\ <<>> \in V
      BY <2>1
    <2>3. \A q \in V, i \in 1 .. n : step[<<q, i>>] = longer(<<q, i>>)
      OBVIOUS
    <2> HIDE DEF step, V
    <2>4. PICK g : Iterates(g, V, <<>>, n, step)
      BY <1>1, <2>2, RecursionOnInterval, Zenon
    <2>5. /\ g \in [0 .. n -> V] /\ g[0] = <<>>
          /\ \A i \in 1 .. n : g[i] = longer(<<g[i - 1], i>>)
      <3>1. \A i \in 1 .. n : i - 1 \in 0 .. n
        BY <1>1
      <3> QED BY <2>3, <2>4, <3>1 DEF Iterates
    <2>6. \A i \in 1 .. n : g[i] = IF seq[i] \in S THEN Append(g[i - 1], seq[i]) ELSE g[i - 1]
      BY <2>5 DEF longer
    <2>7. \A i \in 0 .. n : g[i] = IF i = 0 THEN <<>>
              ELSE IF seq[i] \in S THEN Append(g[i - 1], seq[i]) ELSE g[i - 1]
      <3>1. ASSUME NEW i \in 0 .. n, i # 0 PROVE i \in 1 .. n
        BY <3>1, <1>1
      <3> QED BY <2>5, <2>6, <3>1
    <2>8. g = [i \in 0 .. n |-> IF i = 0 THEN <<>>
                ELSE IF seq[i] \in S THEN Append(g[i - 1], seq[i]) ELSE g[i - 1]]
      <3> DEFINE e(i) == IF i = 0 THEN <<>>
                         ELSE IF seq[i] \in S THEN Append(g[i - 1], seq[i]) ELSE g[i - 1]
      <3>1. \A i \in 0 .. n : g[i] = e(i)
        BY <2>7
      <3> HIDE DEF e
      <3>2. g = [i \in 0 .. n |-> e(i)]
        BY <2>5, <3>1
      <3> QED BY <3>2 DEF e
    <2> QED BY <2>5, <2>8 DEF Finds
  <1>3. Finds(f, seq, S)
    BY <1>2
  <1>4. Turn!Select(seq, S) = f[n]
    BY DEF Turn!Select, Finds
  <1> HIDE DEF f
  <1>5. /\ f[0] = <<>>
        /\ \A i \in 1 .. n : f[i] = IF seq[i] \in S THEN Append(f[i - 1], seq[i]) ELSE f[i - 1]
    <2> DEFINE e(i) == IF i = 0 THEN <<>>
                       ELSE IF seq[i] \in S THEN Append(f[i - 1], seq[i]) ELSE f[i - 1]
    <2>1. f = [i \in 0 .. n |-> e(i)]
      BY <1>3 DEF Finds
    <2>2. e(0) = <<>> /\ \A i \in 1 .. n :
              e(i) = IF seq[i] \in S THEN Append(f[i - 1], seq[i]) ELSE f[i - 1]
      OBVIOUS
    <2> HIDE DEF e
    <2>3. 0 \in 0 .. n /\ 1 .. n \subseteq 0 .. n
      BY <1>1
    <2>4. f[0] = e(0) /\ \A i \in 1 .. n : f[i] = e(i)
      BY <2>1, <2>3
    <2> QED BY <2>2, <2>4
  <1>6. Good(0)
    <2>1. <<>> \in Seq(A) /\ IsInjective(<<>>) /\ Range(<<>>) = {} /\ To(0) = {}
      BY DEF IsInjective, Range
    <2> QED BY <1>5, <2>1 DEF Lists
  <1>7. ASSUME NEW k \in 1 .. n, Good(k - 1) PROVE Good(k)
    <2>1. To(k) = To(k - 1) \cup {seq[k]} /\ seq[k] \notin To(k - 1) /\ seq[k] \in A
      <3>1. 1 .. k = (1 .. (k - 1)) \cup {k}
        OBVIOUS
      <3>2. ASSUME NEW i \in 1 .. (k - 1) PROVE seq[i] # seq[k]
        <4>1. i \in 1 .. n /\ i # k
          BY <1>1
        <4> QED BY <4>1, <1>1
      <3> QED BY <3>1, <3>2, <1>1
    <2>2. f[k - 1] \in Lists(A) /\ Range(f[k - 1]) = To(k - 1) \cap S
      BY <1>7
    <2> HIDE DEF To
    <2>3. CASE seq[k] \in S
      <3>1. f[k] = Append(f[k - 1], seq[k])
        BY <1>5, <2>3
      <3>2. seq[k] \notin Range(f[k - 1])
        BY <2>1, <2>2
      <3>3. f[k] \in Lists(A) /\ Range(f[k]) = Range(f[k - 1]) \cup {seq[k]}
        BY <2>1, <2>2, <3>1, <3>2, AppendLists
      <3> QED BY <2>1, <2>2, <2>3, <3>3
    <2>4. CASE seq[k] \notin S
      <3>1. f[k] = f[k - 1]
        BY <1>5, <2>4
      <3> QED BY <2>1, <2>2, <2>4, <3>1
    <2> QED BY <2>3, <2>4
  <1> HIDE DEF Good
  <1>8. Bad = {}
    <2> SUFFICES ASSUME Bad # {} PROVE FALSE
      OBVIOUS
    <2>1. Bad \in SUBSET Nat
      OBVIOUS
    <2> HIDE DEF Bad
    <2>2. PICK k \in Bad : \A j \in Bad : k <= j
      BY <2>1, LeastExists
    <2>3. k \in 1 .. n /\ k - 1 \in 0 .. n /\ ~Good(k)
      BY <2>2, <1>1, <1>6 DEF Bad
    <2>4. Good(k - 1)
      BY <2>2, <2>3 DEF Bad
    <2> QED BY <2>3, <2>4, <1>7
  <1>9. Good(n)
    BY <1>1, <1>8
  <1>10. To(n) = Range(seq)
    BY <1>1 DEF Range
  <1> QED BY <1>4, <1>9, <1>10 DEF Good

-----------------------------------------------------------------------------
(* The turn that writes an answer.                                         *)

\* The items there can be, with the numbers given so far.
Produced == {"text", "call", "result"} \X (1 .. items)
Said     == Range(prior) \cup Range(output)
Queued   == UNION {Range(queue[i]) : i \in DOMAIN queue}
Answer(c) == <<"result", c[2]>>
Unanswered(S, T) == {c \in S : c[1] = "call" /\ Answer(c) \notin T}

\* Calls that may be run: they have no result, and did not run unless a turn
\* that was cut had begun them.
Ready(S, T) == \A c \in S : c[1] = "call" /\ Answer(c) \notin T /\ (ran[c[2]] = 0 \/ c \in stale)

TurnTyped ==
    /\ realtime \in BOOLEAN /\ dialect \in {"chat", "responses"}
    /\ phase \in {"idle", "payload", "stream", "loop", "tools", "ask", "finish", "after", "ended"}
    /\ items \in 0 .. MaxItems /\ iterations \in 0 .. MaxIterations
    /\ marked \in {"none", "done", "error"}
    /\ output \in Lists(Produced) /\ prior \in Lists(Produced)
    /\ pending \in Lists(Produced) /\ saved \in Lists(Produced)
    /\ queue = <<>> \/ \E batched \in Lists(Produced) : queue = <<batched>>
    /\ shown \subseteq Produced
    /\ Range(prior) \cap Range(output) = {}
    /\ ran \in [1 .. MaxItems -> Nat] /\ \A n \in 1 .. MaxItems : n > items => ran[n] = 0

WhileIdle == phase \in {"idle", "payload"} =>
    output = <<>> /\ prior = <<>> /\ pending = <<>> /\ queue = <<>>

\* While a response streams, what came before it is aside.
WhileStreaming == phase = "stream" =>
    /\ queue = <<>>
    /\ shown = Said \cup Range(pending)
    /\ Unanswered(Range(prior), Said) \subseteq stale
    /\ \A c \in Unanswered(Range(output), Said) :
          c \in stale \/ (dialect = "responses" /\ ran[c[2]] = 0)
    /\ dialect = "responses" => pending = <<>>
    /\ Ready(Range(pending), Said) /\ Range(pending) \cap Said = {}

WhileLooping == phase = "loop" =>
    /\ prior = <<>> /\ pending = <<>>
    /\ shown = Range(output) \cup Queued
    /\ Unanswered(Range(output), Range(output)) \subseteq stale \cup Queued
    /\ Ready(Queued, Range(output))

WhileRunning == phase = "tools" =>
    /\ prior = <<>> /\ queue = <<>>
    /\ shown = Range(output) /\ Range(pending) \subseteq Range(output)
    /\ Unanswered(Range(output), Range(output)) \subseteq stale \cup Range(pending)
    /\ \A c \in Range(pending) : c[1] = "call" /\ Answer(c) \notin Range(output)

WhileAsking == phase = "ask" =>
    /\ prior = <<>> /\ queue = <<>> /\ pending = <<>>
    /\ shown = Range(output)
    /\ Unanswered(Range(output), Range(output)) \subseteq stale

WhileEnding ==
    /\ phase = "finish" /\ cut = "no" => shown = Range(output)
    /\ phase \in {"after", "ended"} /\ cut = "no" /\ ~realtime => shown = Range(saved)
    /\ phase = "after" => marked # "none"
    /\ phase = "ended" => marked # "none" \/ cut = "early"

TextKept == realtime /\ dialect = "chat" => \A i \in shown : i[1] = "text" => i \in Range(saved)

OnceOrStale == \A n \in 1 .. MaxItems : ran[n] <= 1 \/ <<"call", n>> \in stale

TurnPhases ==
    WhileIdle /\ WhileStreaming /\ WhileLooping /\ WhileRunning /\ WhileAsking /\ WhileEnding

TurnInv == TurnTyped /\ TurnPhases /\ TextKept /\ OnceOrStale

\* The empty list.
LEMMA NoItems == ASSUME NEW A PROVE <<>> \in Lists(A) /\ Range(<<>>) = {}
  BY DEF Lists, IsInjective, Range

\* A list of these items is one of any more.
LEMMA ListsGrow ==
  ASSUME NEW A, NEW B, A \subseteq B, NEW seq \in Lists(A)
  PROVE  seq \in Lists(B) /\ Range(seq) \subseteq A
  <1>1. seq \in Seq(A) /\ IsInjective(seq) /\ Len(seq) \in Nat /\ DOMAIN seq = 1 .. Len(seq)
    BY DEF Lists
  <1>2. \A i \in 1 .. Len(seq) : seq[i] \in A /\ seq[i] \in B
    BY <1>1
  <1>3. seq \in Seq(B)
    BY <1>1, <1>2, SeqDef
  <1> QED BY <1>1, <1>2, <1>3 DEF Lists, Range

\* What waits to be run.
LEMMA QueuedAre ==
  /\ queue = <<>> => Queued = {}
  /\ \A q : queue = <<q>> => Queued = Range(q)
  BY DEF Queued

\* Nothing said or shown changes with these.
turnSaid == <<realtime, dialect, items, shown, saved, ran, stale>>

\* A request about an answer arrives (chat_completion, main.py).
LEMMA TurnIsBegun == ASSUME TurnInv, Turn!Begin PROVE TurnInv'
  <1>1. /\ phase' = "payload" /\ output' = <<>> /\ prior' = <<>> /\ pending' = <<>> /\ queue' = <<>>
        /\ iterations' = 0 /\ marked' = "none" /\ UNCHANGED turnSaid
    BY DEF Turn!Begin, Turn!setup, Turn!calls, turnSaid
  <1>2. <<>> \in Lists(Produced) /\ Range(<<>>) = {}
    BY NoItems
  <1>3. Produced' = Produced
    BY <1>1 DEF Produced, turnSaid
  <1>4. MaxIterations \in Nat
    BY TurnConstants
  <1>5. TurnTyped'
    BY <1>1, <1>2, <1>3, <1>4 DEF TurnInv, TurnTyped, turnSaid
  <1>6. TurnPhases'
    BY <1>1 DEF TurnPhases, WhileIdle, WhileStreaming, WhileLooping, WhileRunning, WhileAsking, WhileEnding
  <1>7. TextKept' /\ OnceOrStale'
    BY <1>1 DEF TurnInv, TextKept, OnceOrStale, turnSaid
  <1> QED BY <1>5, <1>6, <1>7 DEF TurnInv

\* The turn reads what the message has saved, and marks what it finds open as stale.
LEMMA TurnOpens == ASSUME TurnInv, Turn!Open PROVE TurnInv'
  <1>1. /\ phase = "payload" /\ phase' = "stream" /\ output' = saved /\ shown' = Range(saved)
        /\ stale' = stale \cup Unanswered(Range(saved), Range(saved))
        /\ UNCHANGED <<realtime, dialect, prior, pending, queue, iterations, saved, marked, ran, items>>
    <2>1. stale' = stale \cup Unanswered(Range(saved), Range(saved))
      BY Zenon DEF Turn!Open, Turn!OpenCalls, Turn!HasResult, Turn!Item, Unanswered, Answer,
               Turn!Range, Range
    <2> QED BY <2>1 DEF Turn!Open, Turn!setup, Turn!Range, Range
  <1>2. prior = <<>> /\ pending = <<>> /\ queue = <<>> /\ Range(<<>>) = {}
    BY <1>1, NoItems DEF TurnInv, TurnPhases, WhileIdle
  <1>3. Produced' = Produced
    BY <1>1 DEF Produced
  <1>4. Range(saved) \subseteq Produced
    BY ListsGrow DEF TurnInv, TurnTyped
  <1>5. TurnTyped'
    <2>1. /\ output' \in Lists(Produced') /\ prior' \in Lists(Produced')
          /\ pending' \in Lists(Produced') /\ saved' \in Lists(Produced')
      BY <1>1, <1>3 DEF TurnInv, TurnTyped
    <2>2. Range(prior') \cap Range(output') = {} /\ shown' \subseteq Produced' /\ queue' = <<>>
      BY <1>1, <1>2, <1>3, <1>4
    <2> QED BY <1>1, <2>1, <2>2 DEF TurnInv, TurnTyped
  <1>6. Said' = Range(saved) /\ Range(prior') = {} /\ Range(pending') = {}
    BY <1>1, <1>2 DEF Said
  <1>7. WhileStreaming'
    BY <1>1, <1>2, <1>6 DEF WhileStreaming, Unanswered, Ready
  <1>8. TurnPhases'
    BY <1>1, <1>7 DEF TurnPhases, WhileIdle, WhileLooping, WhileRunning, WhileAsking, WhileEnding
  <1>9. TextKept' /\ OnceOrStale'
    BY <1>1 DEF TurnInv, TextKept, OnceOrStale
  <1> QED BY <1>5, <1>8, <1>9 DEF TurnInv

\* What a new number says of the items there are.
LEMMA NewItem ==
  ASSUME TurnTyped, items < MaxItems, items' = items + 1
  PROVE  /\ items' \in 0 .. MaxItems /\ Produced \subseteq Produced'
         /\ \A kind \in {"text", "call", "result"} :
               <<kind, items'>> \in Produced' /\ <<kind, items'>> \notin Produced
         /\ \A seq \in Lists(Produced) : seq \in Lists(Produced') /\ Range(seq) \subseteq Produced
         /\ ran[items'] = 0
  <1>1. items \in Nat /\ items' \in 0 .. MaxItems /\ items' \in 1 .. MaxItems
    BY TurnConstants DEF TurnTyped
  <1>2. Produced \subseteq Produced'
    BY <1>1 DEF Produced
  <1>3. \A kind \in {"text", "call", "result"} :
            <<kind, items'>> \in Produced' /\ <<kind, items'>> \notin Produced
    BY <1>1 DEF Produced
  <1>4. \A seq \in Lists(Produced) : seq \in Lists(Produced') /\ Range(seq) \subseteq Produced
    BY <1>2, ListsGrow
  <1>5. ran[items'] = 0
    BY <1>1 DEF TurnTyped
  <1> QED BY <1>1, <1>2, <1>3, <1>4, <1>5

\* A text is shown.
LEMMA TurnTexts == ASSUME TurnInv, Turn!Text PROVE TurnInv'
  <1> DEFINE new == <<"text", items'>>
  <1>1. /\ phase = "stream" /\ items < MaxItems /\ items' = items + 1
        /\ output' = Append(output, new) /\ shown' = shown \cup {new}
        /\ saved' = IF realtime /\ dialect = "chat" THEN prior \o output' ELSE saved
        /\ UNCHANGED <<realtime, dialect, phase, prior, pending, queue, iterations, marked, ran, stale>>
    BY DEF Turn!Text, Turn!setup, Turn!calls, Turn!Item
  <1>2. /\ items' \in 0 .. MaxItems /\ Produced \subseteq Produced'
        /\ new \in Produced' /\ new \notin Produced
        /\ \A seq \in Lists(Produced) : seq \in Lists(Produced') /\ Range(seq) \subseteq Produced
    BY <1>1, NewItem DEF TurnInv
  <1>3. /\ output \in Lists(Produced) /\ prior \in Lists(Produced)
        /\ pending \in Lists(Produced) /\ saved \in Lists(Produced) /\ queue = <<>>
        /\ shown \subseteq Produced /\ Range(prior) \cap Range(output) = {}
    BY <1>1 DEF TurnInv, TurnTyped, TurnPhases, WhileStreaming
  <1>4. output' \in Lists(Produced') /\ Range(output') = Range(output) \cup {new}
    BY <1>1, <1>2, <1>3, AppendLists
  <1>5. Range(prior) \cap Range(output') = {}
    BY <1>2, <1>3, <1>4
  <1>6. prior \o output' \in Lists(Produced') /\ Range(prior \o output') = Range(prior) \cup Range(output')
    <2>1. prior \in Lists(Produced')
      BY <1>2, <1>3
    <2> QED BY <2>1, <1>4, <1>5, ConcatLists
  <1>7. Said' = Said \cup {new} /\ new \notin Said /\ new[1] = "text" /\ new \notin Range(pending)
    BY <1>1, <1>2, <1>3, <1>4 DEF Said
  <1>8. TurnTyped'
    <2>1. saved' \in Lists(Produced') /\ shown' \subseteq Produced'
      BY <1>1, <1>2, <1>3, <1>6
    <2>2. \A n \in 1 .. MaxItems : n > items' => ran'[n] = 0
      BY <1>1 DEF TurnInv, TurnTyped
    <2> HIDE DEF new
    <2> QED BY <1>1, <1>2, <1>3, <1>4, <1>5, <2>1, <2>2 DEF TurnInv, TurnTyped
  <1>9. WhileStreaming'
    <2>1. shown' = Said' \cup Range(pending')
      BY <1>1, <1>7 DEF TurnInv, TurnPhases, WhileStreaming
    <2>2. Unanswered(Range(prior'), Said') \subseteq stale'
      BY <1>1, <1>7 DEF TurnInv, TurnPhases, WhileStreaming, Unanswered
    <2>3. \A c \in Unanswered(Range(output'), Said') :
              c \in stale' \/ (dialect' = "responses" /\ ran'[c[2]] = 0)
      <3>1. Unanswered(Range(output'), Said') \subseteq Unanswered(Range(output), Said)
        BY <1>4, <1>7 DEF Unanswered
      <3> QED BY <3>1, <1>1 DEF TurnInv, TurnPhases, WhileStreaming
    <2>4. Ready(Range(pending), Said)' /\ Range(pending') \cap Said' = {}
      <3>1. \A c : Answer(c) # new
        BY DEF Answer
      <3> HIDE DEF new
      <3> QED BY <3>1, <1>1, <1>7 DEF TurnInv, TurnPhases, WhileStreaming, Ready
    <2> QED BY <1>1, <2>1, <2>2, <2>3, <2>4 DEF TurnInv, TurnPhases, WhileStreaming
  <1>10. TurnPhases'
    BY <1>1, <1>9 DEF TurnPhases, WhileIdle, WhileLooping, WhileRunning, WhileAsking, WhileEnding
  <1>11. TextKept'
    <2> SUFFICES ASSUME realtime, dialect = "chat", NEW i \in shown', i[1] = "text"
                 PROVE  i \in Range(saved')
      BY <1>1 DEF TextKept
    <2>1. Range(saved') = Range(prior) \cup Range(output')
      BY <1>1, <1>6
    <2>2. shown = Said \cup Range(pending) /\ \A c \in Range(pending) : c[1] = "call"
      BY <1>1 DEF TurnInv, TurnPhases, WhileStreaming, Ready
    <2> QED BY <1>1, <1>4, <2>1, <2>2 DEF Said
  <1>12. OnceOrStale'
    BY <1>1 DEF TurnInv, OnceOrStale
  <1> QED BY <1>8, <1>10, <1>11, <1>12 DEF TurnInv

\* The model asks for a call.
LEMMA TurnCalls == ASSUME TurnInv, Turn!CallItem PROVE TurnInv'
  <1> DEFINE new == <<"call", items'>>
  <1>1. /\ phase = "stream" /\ items < MaxItems /\ items' = items + 1
        /\ IF dialect = "chat" THEN pending' = Append(pending, new) /\ output' = output
                               ELSE output' = Append(output, new) /\ pending' = pending
        /\ shown' = shown \cup {new}
        /\ UNCHANGED <<realtime, dialect, phase, prior, queue, iterations, saved, marked, ran, stale>>
    BY DEF Turn!CallItem, Turn!setup, Turn!calls, Turn!Item
  <1>2. /\ items' \in 0 .. MaxItems /\ Produced \subseteq Produced'
        /\ new \in Produced' /\ new \notin Produced /\ <<"result", items'>> \notin Produced
        /\ \A seq \in Lists(Produced) : seq \in Lists(Produced') /\ Range(seq) \subseteq Produced
        /\ ran[items'] = 0
    BY <1>1, NewItem DEF TurnInv
  <1>3. /\ output \in Lists(Produced) /\ prior \in Lists(Produced)
        /\ pending \in Lists(Produced) /\ saved \in Lists(Produced) /\ queue = <<>>
        /\ shown \subseteq Produced /\ Range(prior) \cap Range(output) = {}
        /\ dialect \in {"chat", "responses"}
    BY <1>1 DEF TurnInv, TurnTyped, TurnPhases, WhileStreaming
  <1>4. new \notin Range(output) /\ new \notin Range(prior) /\ new \notin Range(pending)
        /\ Answer(new) \notin Range(output) /\ Answer(new) \notin Range(prior)
    BY <1>2, <1>3 DEF Answer
  <1>5. \A seq \in Lists(Produced) : new \notin Range(seq) =>
            Append(seq, new) \in Lists(Produced') /\ Range(Append(seq, new)) = Range(seq) \cup {new}
    BY <1>2, AppendLists
  <1>6. /\ shown = Said \cup Range(pending)
        /\ Unanswered(Range(prior), Said) \subseteq stale
        /\ \A c \in Unanswered(Range(output), Said) :
              c \in stale \/ (dialect = "responses" /\ ran[c[2]] = 0)
        /\ dialect = "responses" => pending = <<>>
        /\ Ready(Range(pending), Said) /\ Range(pending) \cap Said = {}
    BY <1>1 DEF TurnInv, TurnPhases, WhileStreaming
  <1>7. new[1] = "call" /\ ran[new[2]] = 0 /\ Answer(new) \notin Said /\ \A c : Answer(c) # new
    BY <1>2, <1>4 DEF Answer, Said
  <1> HIDE DEF new
  <1>8. \A n \in 1 .. MaxItems : n > items' => ran'[n] = 0
    BY <1>1 DEF TurnInv, TurnTyped
  <1>9. saved' \in Lists(Produced') /\ shown' \subseteq Produced' /\ prior' \in Lists(Produced')
    BY <1>1, <1>2, <1>3
  <1>10. TextKept'
    BY <1>1, <1>7 DEF TurnInv, TextKept
  <1>11. OnceOrStale'
    BY <1>1 DEF TurnInv, OnceOrStale
  <1>12. CASE dialect = "chat"
    <2>1. /\ pending' \in Lists(Produced') /\ Range(pending') = Range(pending) \cup {new}
          /\ output' = output /\ Said' = Said
      BY <1>1, <1>3, <1>4, <1>5, <1>12 DEF Said
    <2>2. TurnTyped'
      BY <1>1, <1>2, <1>3, <1>8, <1>9, <2>1 DEF TurnInv, TurnTyped
    <2>3. shown' = Said' \cup Range(pending')
      BY <1>1, <1>6, <2>1
    <2>4. Ready(Range(pending), Said)'
      BY <1>1, <1>6, <1>7, <2>1 DEF Ready
    <2>5. Range(pending') \cap Said' = {}
      BY <1>4, <1>6, <2>1 DEF Said
    <2>6. WhileStreaming'
      BY <1>1, <1>3, <1>6, <1>12, <2>1, <2>3, <2>4, <2>5 DEF WhileStreaming
    <2>7. TurnPhases'
      BY <1>1, <2>6 DEF TurnPhases, WhileIdle, WhileLooping, WhileRunning, WhileAsking, WhileEnding
    <2> QED BY <1>10, <1>11, <2>2, <2>7 DEF TurnInv
  <1>13. CASE dialect = "responses"
    <2>1. /\ output' \in Lists(Produced') /\ Range(output') = Range(output) \cup {new}
          /\ pending' = pending /\ pending = <<>> /\ Range(pending) = {}
      BY <1>1, <1>3, <1>4, <1>5, <1>6, <1>13, NoItems
    <2>2. Said' = Said \cup {new}
      BY <1>1, <2>1 DEF Said
    <2>3. pending' \in Lists(Produced') /\ Range(prior') \cap Range(output') = {}
      BY <1>1, <1>2, <1>3, <1>4, <2>1
    <2>4. TurnTyped'
      BY <1>1, <1>2, <1>3, <1>8, <1>9, <2>1, <2>3 DEF TurnInv, TurnTyped
    <2>5. shown' = Said' \cup Range(pending')
      BY <1>1, <1>6, <2>1, <2>2
    <2>6. Unanswered(Range(prior'), Said') \subseteq stale'
      BY <1>1, <1>6, <2>2 DEF Unanswered
    <2>7. \A c \in Unanswered(Range(output'), Said') :
              c \in stale' \/ (dialect' = "responses" /\ ran'[c[2]] = 0)
      <3>1. Unanswered(Range(output'), Said') \subseteq Unanswered(Range(output), Said) \cup {new}
        BY <2>1, <2>2 DEF Unanswered
      <3>2. dialect' = "responses" /\ ran' = ran /\ stale' = stale
        BY <1>1, <1>13
      <3>3. \A c \in Unanswered(Range(output), Said) : c \in stale \/ ran[c[2]] = 0
        BY <1>6
      <3> QED BY <3>1, <3>2, <3>3, <1>7
    <2>8. Ready(Range(pending), Said)' /\ Range(pending') \cap Said' = {}
      BY <2>1 DEF Ready
    <2>9. WhileStreaming'
      BY <1>1, <1>3, <2>1, <2>5, <2>6, <2>7, <2>8 DEF WhileStreaming
    <2>10. TurnPhases'
      BY <1>1, <2>9 DEF TurnPhases, WhileIdle, WhileLooping, WhileRunning, WhileAsking, WhileEnding
    <2> QED BY <1>10, <1>11, <2>4, <2>10 DEF TurnInv
  <1> QED BY <1>3, <1>12, <1>13

\* The stream ends and its calls are queued.
LEMMA TurnEndsStream == ASSUME TurnInv, Turn!EndStream PROVE TurnInv'
  <1> DEFINE Open == Unanswered(Range(output), Said)
             found == Turn!Found
  <1>1. /\ phase = "stream" /\ phase' = "loop"
        /\ queue' = IF found = <<>> THEN queue ELSE Append(queue, found)
        /\ output' = prior \o output /\ prior' = <<>> /\ pending' = <<>>
        /\ UNCHANGED <<realtime, dialect, iterations, shown, saved, marked, ran, stale, items>>
    BY DEF Turn!EndStream, Turn!Full, Turn!setup, Turn!calls
  <1>2. /\ output \in Lists(Produced) /\ prior \in Lists(Produced)
        /\ pending \in Lists(Produced) /\ saved \in Lists(Produced) /\ queue = <<>>
        /\ shown \subseteq Produced /\ Range(prior) \cap Range(output) = {}
    BY <1>1 DEF TurnInv, TurnTyped, TurnPhases, WhileStreaming
  <1>3. /\ shown = Said \cup Range(pending)
        /\ Unanswered(Range(prior), Said) \subseteq stale
        /\ \A c \in Open : c \in stale \/ (dialect = "responses" /\ ran[c[2]] = 0)
        /\ dialect = "responses" => pending = <<>>
        /\ Ready(Range(pending), Said) /\ Range(pending) \cap Said = {}
    BY <1>1 DEF TurnInv, TurnPhases, WhileStreaming
  <1>4. output' \in Lists(Produced) /\ Range(output') = Said
    BY <1>1, <1>2, ConcatLists DEF Said
  <1>5. Turn!OpenCalls(output, Turn!Full) = Open
    <2>1. Range(Turn!Full) = Said
      BY <1>1, <1>4 DEF Turn!Full
    <2>2. Turn!OpenCalls(output, Turn!Full) = Unanswered(Range(output), Range(Turn!Full))
      BY Zenon DEF Turn!OpenCalls, Turn!HasResult, Turn!Item, Unanswered, Answer, Turn!Range, Range
    <2> QED BY <2>1, <2>2
  <1>6. \/ pending # <<>> /\ found = pending
        \/ pending = <<>> /\ found = Turn!Select(output, Open)
    BY <1>5 DEF Turn!Found, Turn!Unhandled
  <1> HIDE DEF found
  <1>7. found \in Lists(Produced) /\ Ready(Range(found), Said)
        /\ Unanswered(Said, Said) \subseteq stale \cup Range(found)
        /\ Said \cup Range(found) = shown
    <2>1. Unanswered(Said, Said) = Unanswered(Range(prior), Said) \cup Open
      BY DEF Unanswered, Said
    <2>2. CASE pending # <<>> /\ found = pending
      <3>1. Open \subseteq stale
        <4>1. dialect # "responses"
          BY <2>2, <1>3
        <4> QED BY <4>1, <1>3
      <3> QED BY <2>1, <2>2, <3>1, <1>2, <1>3
    <2>3. CASE pending = <<>> /\ found = Turn!Select(output, Open)
      <3>1. found \in Lists(Produced) /\ Range(found) = Range(output) \cap Open
        <4> HIDE DEF Open
        <4> QED BY <2>3, <1>2, SelectFinds
      <3>2. Range(found) = Open
        BY <3>1 DEF Unanswered
      <3>3. Ready(Range(found), Said)
        <4>1. \A c \in Open : c[1] = "call" /\ Answer(c) \notin Said
          BY DEF Unanswered
        <4> QED BY <3>2, <4>1, <1>3 DEF Ready
      <3>4. Range(pending) = {}
        BY <2>3, NoItems
      <3>5. Said \cup Range(found) = shown
        BY <3>1, <3>4, <1>3 DEF Said
      <3> QED BY <2>1, <3>1, <3>2, <3>3, <3>5, <1>3
    <2> QED BY <2>2, <2>3, <1>6
  <1>8. (queue' = <<>> /\ Range(found) = {}) \/ queue' = <<found>>
    <2>1. CASE found = <<>>
      BY <2>1, <1>1, <1>2, NoItems
    <2>2. CASE found # <<>>
      BY <2>2, <1>1, <1>2
    <2> QED BY <2>1, <2>2
  <1>9. Queued' = Range(found)
    BY <1>8 DEF Queued
  <1>10. Produced' = Produced
    BY <1>1 DEF Produced
  <1>11. TurnTyped'
    <2>1. /\ prior' \in Lists(Produced') /\ pending' \in Lists(Produced')
          /\ Range(prior') \cap Range(output') = {}
      BY <1>1, NoItems
    <2>2. queue' = <<>> \/ \E batched \in Lists(Produced') : queue' = <<batched>>
      BY <1>7, <1>8, <1>10
    <2> QED BY <1>1, <1>2, <1>4, <1>10, <2>1, <2>2 DEF TurnInv, TurnTyped
  <1>12. WhileLooping'
    <2>1. shown' = Range(output') \cup Queued'
      BY <1>1, <1>4, <1>7, <1>9
    <2>2. Unanswered(Range(output'), Range(output')) \subseteq stale' \cup Queued'
      BY <1>1, <1>4, <1>7, <1>9
    <2>3. Ready(Queued, Range(output))'
      BY <1>1, <1>4, <1>7, <1>9 DEF Ready
    <2> QED BY <1>1, <2>1, <2>2, <2>3 DEF WhileLooping
  <1>13. TurnPhases'
    BY <1>1, <1>12 DEF TurnPhases, WhileIdle, WhileStreaming, WhileRunning, WhileAsking, WhileEnding
  <1>14. TextKept' /\ OnceOrStale'
    BY <1>1 DEF TurnInv, TextKept, OnceOrStale
  <1> QED BY <1>11, <1>13, <1>14 DEF TurnInv

\* The first batch is taken from the queue, and its calls run.
LEMMA TurnRunsTools == ASSUME TurnInv, Turn!RunTools PROVE TurnInv'
  <1> DEFINE New == Range(queue[1]) \ Range(output)
             news == Turn!Select(queue[1], New)
  <1>1. PICK q \in Lists(Produced) : queue = <<q>>
    BY DEF TurnInv, TurnTyped, Turn!RunTools
  <1>2. Head(queue) = q /\ Tail(queue) = <<>> /\ queue[1] = q
    BY <1>1
  <1>3. /\ phase = "loop" /\ phase' = "tools" /\ iterations < MaxIterations
        /\ iterations' = iterations + 1 /\ queue' = <<>> /\ pending' = q
        /\ output' = output \o news
        /\ UNCHANGED <<realtime, dialect, prior, shown, saved, marked, stale, items>>
    <2>1. output' = output \o Turn!Select(Head(queue), Range(Head(queue)) \ Range(output))
      BY Zenon DEF Turn!RunTools, Turn!Range, Range
    <2> HIDE DEF New
    <2>2. Range(Head(queue)) \ Range(output) = New
      BY <1>2 DEF New
    <2>3. output' = output \o news
      BY <1>2, <2>1, <2>2
    <2> HIDE DEF news
    <2> QED BY <1>2, <2>3 DEF Turn!RunTools, Turn!setup
  <1>4. ran' = [n \in 1 .. MaxItems |-> IF <<"call", n>> \in Range(q) THEN ran[n] + 1 ELSE ran[n]]
    <2>1. DOMAIN ran = 1 .. MaxItems
      BY DEF TurnInv, TurnTyped
    <2>2. ran' = [n \in DOMAIN ran |->
                    IF <<"call", n>> \in Range(Head(queue)) THEN ran[n] + 1 ELSE ran[n]]
      BY Zenon DEF Turn!RunTools, Turn!Item, Turn!Range, Range
    <2> QED BY <1>2, <2>1, <2>2
  <1>5. /\ prior = <<>> /\ pending = <<>> /\ Range(<<>>) = {} /\ Queued = Range(q)
        /\ shown = Range(output) \cup Range(q)
        /\ Unanswered(Range(output), Range(output)) \subseteq stale \cup Range(q)
        /\ Ready(Range(q), Range(output))
    <2>1. Queued = Range(q)
      BY <1>1, QueuedAre
    <2> QED BY <1>3, <2>1, NoItems DEF TurnInv, TurnPhases, WhileLooping
  <1>6. output \in Lists(Produced) /\ saved \in Lists(Produced) /\ shown \subseteq Produced
        /\ ran \in [1 .. MaxItems -> Nat] /\ iterations \in Nat
    BY TurnConstants DEF TurnInv, TurnTyped
  <1>7. Range(q) \subseteq Produced
    BY ListsGrow
  <1>8. New = Range(q) \ Range(output)
    BY <1>2
  <1> HIDE DEF New
  <1>9. news \in Lists(Produced) /\ Range(news) = New
    <2>1. news \in Lists(Produced) /\ Range(news) = Range(q) \cap New
      BY <1>2, SelectFinds
    <2> QED BY <2>1, <1>8
  <1> HIDE DEF news
  <1>10. output' \in Lists(Produced) /\ Range(output') = Range(output) \cup Range(q)
    <2>1. Range(output) \cap Range(news) = {}
      BY <1>8, <1>9
    <2>2. output \o news \in Lists(Produced) /\ Range(output \o news) = Range(output) \cup Range(news)
      BY <1>6, <1>9, <2>1, ConcatLists
    <2> QED BY <1>3, <1>8, <1>9, <2>2
  <1>11. Produced' = Produced
    BY <1>3 DEF Produced
  <1>12. \A n \in 1 .. MaxItems : /\ ran'[n] \in Nat /\ ran[n] \in Nat
                                  /\ <<"call", n>> \notin Range(q) => ran'[n] = ran[n]
                                  /\ <<"call", n>> \in Range(q) => ran'[n] = ran[n] + 1
    <2>1. ASSUME NEW n \in 1 .. MaxItems
          PROVE  /\ ran'[n] \in Nat /\ ran[n] \in Nat
                 /\ <<"call", n>> \notin Range(q) => ran'[n] = ran[n]
                 /\ <<"call", n>> \in Range(q) => ran'[n] = ran[n] + 1
      <3>1. ran[n] \in Nat
        BY <1>6
      <3>2. ran'[n] = IF <<"call", n>> \in Range(q) THEN ran[n] + 1 ELSE ran[n]
        BY <1>4, Zenon
      <3> QED BY <3>1, <3>2
    <2> QED BY <2>1
  <1>13. ASSUME NEW n \in 1 .. MaxItems, n > items PROVE ran'[n] = 0
    <2>1. <<"call", n>> \notin Produced
      BY <1>13 DEF Produced, TurnInv, TurnTyped
    <2>2. ran[n] = 0
      BY <1>13 DEF TurnInv, TurnTyped
    <2> QED BY <1>7, <1>12, <2>1, <2>2
  <1>14. TurnTyped'
    <2>1. ran' \in [1 .. MaxItems -> Nat] /\ \A n \in 1 .. MaxItems : n > items' => ran'[n] = 0
      BY <1>3, <1>4, <1>12, <1>13
    <2>2. iterations' \in 0 .. MaxIterations
      BY <1>3, <1>6, TurnConstants
    <2>3. /\ prior' \in Lists(Produced') /\ pending' \in Lists(Produced')
          /\ Range(prior') \cap Range(output') = {}
      BY <1>3, <1>5, <1>11, NoItems
    <2> QED BY <1>3, <1>6, <1>10, <1>11, <2>1, <2>2, <2>3 DEF TurnInv, TurnTyped
  <1>15. WhileRunning'
    <2>1. \A c \in Range(q) : c[1] = "call" /\ Answer(c) \notin Range(output) /\ Answer(c) \notin Range(q)
      <3>1. \A c \in Range(q) : c[1] = "call" /\ Answer(c) \notin Range(output)
        BY <1>5 DEF Ready
      <3>2. \A c : Answer(c)[1] = "result"
        BY DEF Answer
      <3> QED BY <3>1, <3>2
    <2>2. Unanswered(Range(output'), Range(output')) \subseteq stale' \cup Range(pending')
      BY <1>3, <1>5, <1>10 DEF Unanswered
    <2>3. shown' = Range(output') /\ Range(pending') \subseteq Range(output')
      BY <1>3, <1>5, <1>10
    <2>4. \A c \in Range(pending') : c[1] = "call" /\ Answer(c) \notin Range(output')
      BY <1>3, <1>10, <2>1
    <2> QED BY <1>3, <1>5, <2>2, <2>3, <2>4 DEF WhileRunning
  <1>16. TurnPhases'
    BY <1>3, <1>15 DEF TurnPhases, WhileIdle, WhileStreaming, WhileLooping, WhileAsking, WhileEnding
  <1>17. TextKept'
    BY <1>3 DEF TurnInv, TextKept
  <1>18. OnceOrStale'
    <2>1. ASSUME NEW n \in 1 .. MaxItems PROVE ran'[n] <= 1 \/ <<"call", n>> \in stale
      <3>1. CASE <<"call", n>> \notin Range(q)
        BY <3>1, <1>12 DEF TurnInv, OnceOrStale
      <3>2. CASE <<"call", n>> \in Range(q)
        <4>1. ran[n] = 0 \/ <<"call", n>> \in stale
          BY <3>2, <1>5 DEF Ready
        <4> QED BY <4>1, <3>2, <1>12
      <3> QED BY <3>1, <3>2
    <2> QED BY <1>3, <2>1 DEF OnceOrStale
  <1> QED BY <1>14, <1>16, <1>17, <1>18 DEF TurnInv

\* The results of calls, once each.
LEMMA ResultsAre ==
  ASSUME TurnInv, NEW batched \in Lists(Produced), \A c \in Range(batched) : c[1] = "call"
  PROVE  /\ Turn!Results(batched) \in Lists(Produced)
         /\ Range(Turn!Results(batched)) = {Answer(c) : c \in Range(batched)}
  <1> DEFINE n == Len(batched)
             res == Turn!Results(batched)
  <1>1. /\ batched \in Seq(Produced) /\ n \in Nat /\ DOMAIN batched = 1 .. n
        /\ \A i, j \in 1 .. n : batched[i] = batched[j] => i = j
    BY DEF Lists, IsInjective
  <1>2. res = [i \in 1 .. n |-> Answer(batched[i])]
    BY DEF Turn!Results, Turn!Item, Answer
  <1>3. \A i \in 1 .. n : batched[i] \in Produced /\ batched[i][1] = "call" /\ batched[i] \in Range(batched)
    BY <1>1 DEF Range
  <1> HIDE DEF res
  <1>4. \A i \in 1 .. n : /\ res[i] = Answer(batched[i]) /\ res[i] \in Produced
                          /\ batched[i] = <<"call", res[i][2]>>
    <2>1. ASSUME NEW c \in Produced, c[1] = "call"
          PROVE  Answer(c) \in Produced /\ c = <<"call", Answer(c)[2]>>
      BY <2>1 DEF Produced, Answer
    <2> QED BY <1>2, <1>3, <2>1
  <1>5. res \in Seq(Produced) /\ DOMAIN res = 1 .. n
    BY <1>1, <1>2, <1>4, SeqDef
  <1>6. ASSUME NEW i \in 1 .. n, NEW j \in 1 .. n, res[i] = res[j]
        PROVE  i = j
    <2>1. batched[i] = <<"call", res[i][2]>> /\ batched[j] = <<"call", res[j][2]>>
      BY <1>4
    <2>2. batched[i] = batched[j]
      BY <1>6, <2>1, Zenon
    <2> QED BY <1>1, <2>2
  <1>7. Range(res) = {Answer(c) : c \in Range(batched)}
    BY <1>1, <1>4, <1>5 DEF Range
  <1> QED BY <1>5, <1>6, <1>7 DEF Lists, IsInjective, res

\* The results are appended.
LEMMA TurnToolsDone == ASSUME TurnInv, Turn!ToolsDone PROVE TurnInv'
  <1> DEFINE res == Turn!Results(pending)
  <1>1. /\ phase = "tools" /\ phase' = "ask" /\ output' = output \o res
        /\ shown' = shown \cup Range(res) /\ pending' = <<>>
        /\ UNCHANGED <<realtime, dialect, prior, queue, iterations, saved, marked, ran, stale, items>>
    <2>1. shown' = shown \cup Range(res)
      BY Zenon DEF Turn!ToolsDone, Turn!Range, Range
    <2> HIDE DEF res
    <2> QED BY <2>1 DEF Turn!ToolsDone, Turn!setup, Turn!calls, res
  <1>2. /\ prior = <<>> /\ queue = <<>>
        /\ shown = Range(output) /\ Range(pending) \subseteq Range(output)
        /\ Unanswered(Range(output), Range(output)) \subseteq stale \cup Range(pending)
        /\ \A c \in Range(pending) : c[1] = "call" /\ Answer(c) \notin Range(output)
    BY <1>1 DEF TurnInv, TurnPhases, WhileRunning
  <1>3. /\ output \in Lists(Produced) /\ prior \in Lists(Produced)
        /\ pending \in Lists(Produced) /\ saved \in Lists(Produced) /\ shown \subseteq Produced
    BY DEF TurnInv, TurnTyped
  <1>4. res \in Lists(Produced) /\ Range(res) = {Answer(c) : c \in Range(pending)}
    BY <1>2, <1>3, ResultsAre
  <1> HIDE DEF res
  <1>5. output' \in Lists(Produced) /\ Range(output') = Range(output) \cup Range(res)
    <2>1. Range(output) \cap Range(res) = {}
      BY <1>2, <1>4
    <2> QED BY <1>1, <1>3, <1>4, <2>1, ConcatLists
  <1>6. Range(res) \subseteq Produced /\ Produced' = Produced
    <2>1. Produced' = Produced
      BY <1>1 DEF Produced
    <2>2. Produced \subseteq Produced
      OBVIOUS
    <2>3. Range(res) \subseteq Produced
      BY <1>4, <2>2, ListsGrow
    <2> QED BY <2>1, <2>3
  <1>7. TurnTyped'
    <2>1. prior' \in Lists(Produced') /\ pending' \in Lists(Produced') /\ Range(prior') \cap Range(output') = {}
      BY <1>1, <1>2, <1>6, NoItems
    <2>2. shown' \subseteq Produced'
      BY <1>1, <1>3, <1>6
    <2> QED BY <1>1, <1>2, <1>3, <1>5, <1>6, <2>1, <2>2 DEF TurnInv, TurnTyped
  <1>8. Unanswered(Range(output'), Range(output')) \subseteq stale'
    <2>1. ASSUME NEW c \in Range(output'), c[1] = "call", Answer(c) \notin Range(output')
          PROVE  c \in stale
      <3>1. c \notin Range(res)
        <4>1. \A d : Answer(d)[1] = "result"
          BY DEF Answer
        <4> QED BY <4>1, <2>1, <1>4
      <3>2. c \in Unanswered(Range(output), Range(output))
        BY <2>1, <3>1, <1>5 DEF Unanswered
      <3>3. c \notin Range(pending)
        BY <2>1, <1>4, <1>5
      <3> QED BY <3>2, <3>3, <1>2
    <2> QED BY <1>1, <2>1 DEF Unanswered
  <1>9. WhileAsking'
    <2>1. shown' = Range(output')
      BY <1>1, <1>2, <1>5
    <2> QED BY <1>1, <1>2, <1>8, <2>1 DEF WhileAsking
  <1>10. TurnPhases'
    BY <1>1, <1>9 DEF TurnPhases, WhileIdle, WhileStreaming, WhileLooping, WhileRunning, WhileEnding
  <1>11. TextKept'
    <2>1. \A i \in Range(res) : i[1] # "text"
      BY <1>4 DEF Answer
    <2> QED BY <1>1, <2>1 DEF TurnInv, TextKept
  <1>12. OnceOrStale'
    BY <1>1 DEF TurnInv, OnceOrStale
  <1> QED BY <1>7, <1>10, <1>11, <1>12 DEF TurnInv

\* The model is asked to go on, and answers or fails.
LEMMA TurnAsks == ASSUME TurnInv, NEW answers \in BOOLEAN, Turn!Ask(answers) PROVE TurnInv'
  <1>1. /\ phase = "ask" /\ UNCHANGED <<turnSaid, pending, queue, iterations, marked>>
        /\ \/ phase' = "stream" /\ prior' = output /\ output' = <<>> /\ UNCHANGED cut
           \/ phase' = "finish" /\ cut' = "silently" /\ UNCHANGED <<prior, output>>
    BY DEF Turn!Ask, Turn!setup, Turn!calls, turnSaid
  <1>2. /\ prior = <<>> /\ queue = <<>> /\ pending = <<>> /\ Range(<<>>) = {}
        /\ shown = Range(output)
        /\ Unanswered(Range(output), Range(output)) \subseteq stale
        /\ <<>> \in Lists(Produced)
    BY <1>1, NoItems DEF TurnInv, TurnPhases, WhileAsking
  <1>3. Produced' = Produced
    BY <1>1 DEF Produced, turnSaid
  <1>4. TurnTyped'
    <2>1. /\ prior' \in Lists(Produced') /\ output' \in Lists(Produced')
          /\ Range(prior') \cap Range(output') = {}
      BY <1>1, <1>2, <1>3 DEF TurnInv, TurnTyped
    <2>2. phase' \in {"idle", "payload", "stream", "loop", "tools", "ask", "finish", "after", "ended"}
      BY <1>1
    <2> QED BY <1>1, <1>2, <1>3, <2>1, <2>2 DEF TurnInv, TurnTyped, turnSaid
  <1>5. TurnPhases'
    <2>1. CASE phase' = "stream"
      <3>1. prior' = output /\ output' = <<>>
        BY <2>1, <1>1
      <3>2. Said' = Range(output) /\ Range(prior') = Range(output) /\ Range(output') = {}
            /\ Range(pending') = {}
        BY <3>1, <1>1, <1>2 DEF Said
      <3>3. WhileStreaming'
        BY <3>1, <3>2, <1>1, <1>2 DEF WhileStreaming, Unanswered, Ready, turnSaid
      <3> QED BY <2>1, <3>3
              DEF TurnPhases, WhileIdle, WhileLooping, WhileRunning, WhileAsking, WhileEnding
    <2>2. CASE phase' = "finish"
      <3>1. cut' = "silently"
        BY <2>2, <1>1
      <3> QED BY <2>2, <3>1 DEF TurnPhases, WhileIdle, WhileStreaming, WhileLooping, WhileRunning,
                                WhileAsking, WhileEnding
    <2> QED BY <2>1, <2>2, <1>1
  <1>6. TextKept' /\ OnceOrStale'
    BY <1>1 DEF TurnInv, TextKept, OnceOrStale, turnSaid
  <1> QED BY <1>4, <1>5, <1>6 DEF TurnInv

\* Steps that move no item and store nothing.
LEMMA TurnMovesOn ==
  ASSUME TurnInv, UNCHANGED <<turnSaid, output, prior, queue, iterations>>,
         pending' = pending \/ pending' = <<>>, marked' \in {"none", "done", "error"},
         phase' \in {"finish", "after", "ended"}, WhileEnding'
  PROVE  TurnInv'
  <1>1. Produced' = Produced
    BY DEF Produced, turnSaid
  <1>2. pending' \in Lists(Produced')
    BY <1>1, NoItems DEF TurnInv, TurnTyped
  <1>3. TurnTyped'
    BY <1>1, <1>2 DEF TurnInv, TurnTyped, turnSaid
  <1>4. TurnPhases'
    BY DEF TurnPhases, WhileIdle, WhileStreaming, WhileLooping, WhileRunning, WhileAsking
  <1>5. TextKept' /\ OnceOrStale'
    BY DEF TurnInv, TextKept, OnceOrStale, turnSaid
  <1> QED BY <1>3, <1>4, <1>5 DEF TurnInv

\* The provider sends an error.
LEMMA TurnErrs == ASSUME TurnInv, Turn!ErrorEvent PROVE TurnInv'
  <1>1. /\ phase = "stream" /\ marked' = "error"
        /\ UNCHANGED <<turnSaid, phase, output, prior, pending, queue, iterations>>
    BY DEF Turn!ErrorEvent, Turn!setup, Turn!calls, turnSaid
  <1>2. Produced' = Produced /\ Said' = Said
    BY <1>1 DEF Produced, Said, turnSaid
  <1>3. TurnTyped'
    BY <1>1, <1>2 DEF TurnInv, TurnTyped, turnSaid
  <1>4. WhileStreaming'
    BY <1>1, <1>2 DEF TurnInv, TurnPhases, WhileStreaming, Unanswered, Ready, turnSaid
  <1>5. TurnPhases'
    BY <1>1, <1>4 DEF TurnPhases, WhileIdle, WhileLooping, WhileRunning, WhileAsking, WhileEnding
  <1>6. TextKept' /\ OnceOrStale'
    BY <1>1 DEF TurnInv, TextKept, OnceOrStale, turnSaid
  <1> QED BY <1>3, <1>5, <1>6 DEF TurnInv

\* The turn is cut, or leaves its loop.
LEMMA TurnBreaks == ASSUME TurnInv, Turn!StreamBreaks \/ Turn!LoopEnds \/ Turn!After \/ Turn!Raise PROVE TurnInv'
  <1>1. CASE Turn!StreamBreaks
    <2>1. /\ phase' = "finish" /\ cut' = "silently" /\ pending' = <<>>
          /\ UNCHANGED <<turnSaid, output, prior, queue, iterations, marked>>
      BY <1>1 DEF Turn!StreamBreaks, Turn!setup, Turn!calls, turnSaid
    <2>2. WhileEnding' /\ marked' \in {"none", "done", "error"}
      BY <2>1 DEF WhileEnding, TurnInv, TurnTyped
    <2> QED BY <2>1, <2>2, TurnMovesOn
  <1>2. CASE Turn!LoopEnds
    <2>1. /\ phase = "loop" /\ phase' = "finish"
          /\ marked' = IF queue # <<>> THEN "error" ELSE marked
          /\ cut' = IF queue # <<>> THEN "limit" ELSE cut
          /\ UNCHANGED <<turnSaid, output, prior, pending, queue, iterations>>
      BY <1>2 DEF Turn!LoopEnds, Turn!setup, Turn!calls, turnSaid
    <2>2. queue = <<>> => shown = Range(output)
      BY <2>1, QueuedAre DEF TurnInv, TurnPhases, WhileLooping
    <2>3. WhileEnding' /\ marked' \in {"none", "done", "error"}
      BY <2>1, <2>2 DEF WhileEnding, TurnInv, TurnTyped, turnSaid
    <2> QED BY <2>1, <2>3, TurnMovesOn
  <1>3. CASE Turn!After
    <2>1. /\ phase = "after" /\ phase' = "ended"
          /\ UNCHANGED <<turnSaid, output, prior, pending, queue, iterations, marked, cut>>
      BY <1>3 DEF Turn!After, Turn!setup, Turn!calls, turnSaid
    <2>2. WhileEnding' /\ marked' \in {"none", "done", "error"}
      BY <2>1 DEF WhileEnding, TurnInv, TurnTyped, TurnPhases, turnSaid
    <2> QED BY <2>1, <2>2, TurnMovesOn
  <1>4. CASE Turn!Raise
    <2>1. /\ phase' = "ended" /\ marked' = "error" /\ cut' = "error"
          /\ UNCHANGED <<turnSaid, output, prior, pending, queue, iterations>>
      BY <1>4 DEF Turn!Raise, Turn!setup, Turn!calls, turnSaid
    <2>2. WhileEnding'
      BY <2>1 DEF WhileEnding
    <2> QED BY <2>1, <2>2, TurnMovesOn
  <1> QED BY <1>1, <1>2, <1>3, <1>4

\* The last save, or that of a cancellation.
LEMMA TurnStores == ASSUME TurnInv, Turn!Finish \/ Turn!Cancel PROVE TurnInv'
  <1>1. /\ phase' \in {"after", "ended"}
        /\ saved' = saved \/ (~realtime /\ saved' = output)
        /\ marked' \in {"none", "done", "error"} /\ (marked' = "none" => cut' = "early")
        /\ phase' = "ended" => cut' # "no"
        /\ phase' = "after" => /\ phase = "finish" /\ cut' = cut /\ marked' # "none"
                               /\ ~realtime => saved' = output
        /\ UNCHANGED <<realtime, dialect, output, prior, pending, queue, iterations, shown, ran,
                       stale, items>>
    <2>1. marked \in {"none", "done", "error"} /\ realtime \in BOOLEAN
      BY DEF TurnInv, TurnTyped
    <2>2. CASE Turn!Finish
      BY <2>1, <2>2 DEF Turn!Finish, Turn!setup, Turn!calls
    <2>3. CASE Turn!Cancel
      BY <2>1, <2>3 DEF Turn!Cancel, Turn!setup, Turn!calls
    <2> QED BY <2>2, <2>3
  <1>2. Produced' = Produced
    BY <1>1 DEF Produced
  <1>3. TurnTyped'
    <2>1. saved' \in Lists(Produced')
      BY <1>1, <1>2 DEF TurnInv, TurnTyped
    <2> QED BY <1>1, <1>2, <2>1 DEF TurnInv, TurnTyped
  <1>4. TurnPhases'
    <2>1. WhileEnding'
      BY <1>1 DEF TurnInv, TurnPhases, WhileEnding
    <2> QED BY <1>1, <2>1 DEF TurnPhases, WhileIdle, WhileStreaming, WhileLooping, WhileRunning, WhileAsking
  <1>5. TextKept' /\ OnceOrStale'
    BY <1>1 DEF TurnInv, TextKept, OnceOrStale
  <1> QED BY <1>3, <1>4, <1>5 DEF TurnInv

\* No turn has begun.
LEMMA TurnInit == Turn!Init => TurnInv
  <1> SUFFICES ASSUME Turn!Init PROVE TurnInv
    OBVIOUS
  <1>1. MaxItems \in Nat /\ MaxIterations \in Nat
    BY TurnConstants
  <1>2. <<>> \in Lists(Produced) /\ Range(<<>>) = {}
    BY NoItems
  <1>3. Range(prior) \cap Range(output) = {}
    BY <1>2 DEF Turn!Init
  <1>4. TurnTyped
    BY <1>1, <1>2, <1>3 DEF Turn!Init, TurnTyped
  <1>5. TurnPhases
    BY DEF Turn!Init, TurnPhases, WhileIdle, WhileStreaming, WhileLooping, WhileRunning,
           WhileAsking, WhileEnding
  <1>6. TextKept /\ OnceOrStale
    BY DEF Turn!Init, TextKept, OnceOrStale
  <1> QED BY <1>4, <1>5, <1>6 DEF TurnInv

\* Every step of a turn.
LEMMA TurnNext == TurnInv /\ [Turn!Next]_turn => TurnInv'
  <1> SUFFICES ASSUME TurnInv, [Turn!Next]_turn PROVE TurnInv'
    OBVIOUS
  <1>1. ASSUME UNCHANGED turn PROVE TurnInv'
    <2>1. Produced' = Produced /\ Said' = Said /\ Queued' = Queued
      BY <1>1 DEF turn, Produced, Said, Queued
    <2>2. TurnTyped'
      BY <1>1, <2>1 DEF turn, TurnInv, TurnTyped
    <2>3. WhileIdle' /\ WhileStreaming' /\ WhileLooping'
      BY <1>1, <2>1 DEF turn, TurnInv, TurnPhases, WhileIdle, WhileStreaming, WhileLooping, Unanswered, Ready
    <2>4. WhileRunning' /\ WhileAsking' /\ WhileEnding'
      BY <1>1, <2>1 DEF turn, TurnInv, TurnPhases, WhileRunning, WhileAsking, WhileEnding, Unanswered
    <2>5. TextKept' /\ OnceOrStale'
      BY <1>1 DEF turn, TurnInv, TextKept, OnceOrStale
    <2> QED BY <2>2, <2>3, <2>4, <2>5 DEF TurnInv, TurnPhases
  <1> QED
    BY <1>1, TurnIsBegun, TurnOpens, TurnTexts, TurnCalls, TurnErrs, TurnEndsStream, TurnRunsTools,
       TurnToolsDone, TurnAsks, TurnBreaks, TurnStores DEF Turn!Next

\* What the invariant says of the answer.
LEMMA TurnPromises == TurnInv => Turn!TurnIsKept /\ Turn!TypeOK
  <1> SUFFICES ASSUME TurnInv PROVE Turn!TurnIsKept /\ Turn!TypeOK
    OBVIOUS
  <1> USE DEF TurnInv
  <1>1. Turn!RequestsComplete
    <2>1. Turn!OpenCalls(output, output) = Unanswered(Range(output), Range(output))
      BY Zenon DEF Turn!OpenCalls, Turn!HasResult, Turn!Item, Unanswered, Answer, Turn!Range, Range
    <2> QED BY <2>1 DEF Turn!RequestsComplete, TurnPhases, WhileAsking
  <1>2. Turn!RanOnce
    BY DEF Turn!RanOnce, Turn!Item, OnceOrStale, TurnTyped
  <1>3. Turn!QuietTurnIsSaved
    BY DEF Turn!QuietTurnIsSaved, TurnPhases, WhileEnding, Turn!Range, Range
  <1>4. Turn!RealtimeKeepsText
    <2>1. realtime /\ dialect = "chat" => {i \in shown : i[1] = "text"} \subseteq Range(saved)
      BY DEF TextKept
    <2> QED BY <2>1, Zenon DEF Turn!RealtimeKeepsText, Turn!Range, Range
  <1>5. Turn!TurnIsClosed
    BY DEF Turn!TurnIsClosed, TurnPhases, WhileEnding
  <1>6. Turn!TypeOK
    <2>1. Produced \subseteq Turn!ItemSet
      BY TurnConstants DEF TurnTyped, Produced, Turn!ItemSet
    <2>2. \A seq \in Lists(Produced) : Range(seq) \subseteq Turn!ItemSet /\ IsInjective(seq)
      <3>1. ASSUME NEW seq \in Lists(Produced)
            PROVE  Range(seq) \subseteq Turn!ItemSet /\ IsInjective(seq)
        <4>1. Produced \subseteq Produced
          OBVIOUS
        <4>2. Range(seq) \subseteq Produced
          BY <3>1, <4>1, ListsGrow
        <4>3. IsInjective(seq)
          BY <3>1 DEF Lists
        <4> QED BY <2>1, <4>2, <4>3
      <3> QED BY <3>1
    <2>3. \A seq : Turn!Range(seq) = Range(seq) /\ (Turn!IsInjective(seq) <=> IsInjective(seq))
      BY DEF Turn!Range, Range, Turn!IsInjective, IsInjective
    <2>4. Len(queue) <= 1
      <3>1. queue = <<>> \/ \E batched \in Lists(Produced) : queue = <<batched>>
        BY DEF TurnTyped
      <3>2. \A batched : Len(<<batched>>) = 1
        OBVIOUS
      <3>3. Len(queue) = 0 \/ Len(queue) = 1
        BY <3>1, <3>2
      <3> QED BY <3>3
    <2>5. \A seq \in {output, prior, pending, saved} : Turn!Range(seq) \subseteq Turn!ItemSet
      BY <2>2, <2>3 DEF TurnTyped
    <2>6. \A seq \in {output, saved} : Turn!IsInjective(seq)
      BY <2>2, <2>3 DEF TurnTyped
    <2>7. shown \subseteq Turn!ItemSet
      BY <2>1 DEF TurnTyped
    <2> QED BY <2>4, <2>5, <2>6, <2>7 DEF Turn!TypeOK, TurnTyped
  <1> QED BY <1>1, <1>2, <1>3, <1>4, <1>5, <1>6 DEF Turn!TurnIsKept

\* Whatever cuts a turn, and however often it is continued: each request it
\* sends has a result for each call it lists, but for those a cut turn left;
\* no call is run twice but those; what was shown is stored, in realtime also
\* the text of a turn that is cut; and the answer is closed
\* (middleware.py:4665-5390, main.py:1530-1545).
THEOREM TurnsAreKept == MCSpec => []TurnIsKept
  <1>1. MCInit => TurnInv
    BY TurnInit DEF MCInit
  <1>2. TurnInv /\ [MCNext]_<<part, vars, branch, turn, register, tokens, limiter, tree, index,
                              memories>> => TurnInv'
    BY TurnNext DEF MCNext
  <1>3. TurnInv => TurnIsKept
    BY TurnPromises DEF TurnIsKept, Of
  <1> QED BY <1>1, <1>2, <1>3, PTL DEF MCSpec

-----------------------------------------------------------------------------
(* What a model is told of a long chat (ContextCompaction).                *)

\* Messages of the branch before m, other than the system prompt.
Before(m) == 1 .. m - 1

\* What a summary does not stand for, a compaction has kept.
SummariesStand ==
    /\ length \in Nat
    /\ \A m \in DOMAIN summaries : m \in 1 .. length
    /\ \A m \in DOMAIN summaries : Before(m) \subseteq summaries[m] \cup kept

ContextInv ==
    /\ SummariesStand
    /\ Context!OnlyKeptAreForgotten

\* A list of the messages from the system prompt or the first one on.
IsBranch(list) ==
    /\ list \in Seq(Nat)
    /\ \/ \A i \in DOMAIN list : list[i] = i
       \/ \A i \in DOMAIN list : list[i] = i - 1

\* Numbers up to a bound have a largest.
LEMMA LargestThere ==
    ASSUME NEW S, NEW b \in Nat, S # {}, S \subseteq 0 .. b
    PROVE  \E x \in S : \A y \in S : x >= y
  <1> DEFINE T == {n \in Nat : b - n \in S}
  <1>1. T \subseteq Nat /\ T # {}
    <2>1. PICK x \in S : TRUE
      OBVIOUS
    <2>2. b - x \in Nat /\ b - (b - x) = x
      BY <2>1
    <2> QED BY <2>1, <2>2
  <1> HIDE DEF T
  <1>2. PICK n \in T : \A k \in T : ~(<<k, n>> \in OpToRel(<, Nat))
    BY <1>1, WFMin, NatLessThanWellFounded, Zenon
  <1>3. n \in Nat /\ \A k \in T : ~(k < n)
    BY <1>1, <1>2 DEF OpToRel
  <1>4. b - n \in S
    BY <1>2 DEF T
  <1>5. ASSUME NEW y \in S PROVE b - n >= y
    <2>1. y \in 0 .. b /\ b - y \in Nat /\ b - (b - y) = y
      BY <1>5
    <2>2. b - y \in T
      BY <1>5, <2>1 DEF T
    <2>3. ~(b - y < n)
      BY <1>3, <2>2
    <2> QED BY <1>3, <2>1, <2>3
  <1> QED BY <1>4, <1>5

LEMMA ContextMax ==
    ASSUME NEW S, NEW b \in Nat, S # {}, S \subseteq 0 .. b
    PROVE  Context!Max(S) \in S /\ \A y \in S : Context!Max(S) >= y
  BY LargestThere, Zenon DEF Context!Max

\* Numbers up to a bound have a smallest.
LEMMA ContextMin ==
    ASSUME NEW S, S # {}, S \subseteq Nat
    PROVE  Context!Min(S) \in S /\ \A y \in S : Context!Min(S) <= y
  <1>1. PICK n \in S : \A k \in S : ~(<<k, n>> \in OpToRel(<, Nat))
    BY WFMin, NatLessThanWellFounded, Zenon
  <1>2. n \in Nat /\ \A k \in S : k \in Nat /\ ~(k < n)
    BY <1>1 DEF OpToRel
  <1>3. \A k \in S : n <= k
    BY <1>2
  <1> QED BY <1>1, <1>3, Zenon DEF Context!Min

\* The latest checkpoint of a list.
LEMMA LatestCheckpoint ==
    ASSUME NEW list \in Seq(Nat), Context!Checkpoints(list) # {}
    PROVE  LET c == Context!Max(Context!Checkpoints(list))
           IN  c \in 1 .. Len(list) /\ list[c] \in DOMAIN summaries
  <1>1. Context!Checkpoints(list) \subseteq 0 .. Len(list) /\ Len(list) \in Nat
    BY DEF Context!Checkpoints
  <1>2. Context!Max(Context!Checkpoints(list)) \in Context!Checkpoints(list)
    BY <1>1, ContextMax
  <1> QED BY <1>2 DEF Context!Checkpoints

\* What starts at the latest checkpoint is the end of the list.
LEMMA SinceIs ==
    ASSUME NEW list \in Seq(Nat)
    PROVE  /\ Context!SinceCheckpoint(list) \in Seq(Nat)
           /\ Context!Range(Context!SinceCheckpoint(list)) \subseteq Context!Range(list)
  <1> DEFINE c == Context!Max(Context!Checkpoints(list))
  <1>1. CASE Context!Checkpoints(list) = {}
    BY <1>1 DEF Context!SinceCheckpoint
  <1>2. CASE Context!Checkpoints(list) # {}
    <2>1. c \in 1 .. Len(list)
      BY <1>2, LatestCheckpoint
    <2>2. Context!SinceCheckpoint(list) = SubSeq(list, c, Len(list))
      BY <1>2 DEF Context!SinceCheckpoint
    <2> HIDE DEF c
    <2>3. /\ SubSeq(list, c, Len(list)) \in Seq(Nat)
          /\ \A i \in DOMAIN SubSeq(list, c, Len(list)) :
                /\ c + i - 1 \in DOMAIN list
                /\ SubSeq(list, c, Len(list))[i] = list[c + i - 1]
      BY <2>1
    <2> QED BY <2>2, <2>3 DEF Context!Range
  <1> QED BY <1>1, <1>2

\* Nothing of the branch is lost when a request starts at the checkpoint: what
\* is older is in its summary, or has been kept beside one.
LEMMA SinceTells ==
    ASSUME SummariesStand, NEW list, IsBranch(list)
    PROVE  Context!Range(list) \ {0} \subseteq
             Context!Range(Context!SinceCheckpoint(list)) \cup Context!Summarised(list) \cup kept
  <1> DEFINE c == Context!Max(Context!Checkpoints(list))
  <1>0. list \in Seq(Nat)
    BY DEF IsBranch
  <1>1. CASE Context!Checkpoints(list) = {}
    BY <1>1 DEF Context!SinceCheckpoint
  <1>2. CASE Context!Checkpoints(list) # {}
    <2>1. c \in 1 .. Len(list) /\ list[c] \in DOMAIN summaries
      BY <1>0, <1>2, LatestCheckpoint
    <2>2. /\ Context!SinceCheckpoint(list) = SubSeq(list, c, Len(list))
          /\ Context!Summarised(list) = summaries[list[c]]
      BY <1>2 DEF Context!SinceCheckpoint, Context!Summarised
    <2> HIDE DEF c
    <2>3. Before(list[c]) \subseteq summaries[list[c]] \cup kept
      BY <2>1 DEF SummariesStand
    <2>4. ASSUME NEW i \in 1 .. Len(list), list[i] # 0
          PROVE  \/ list[i] \in Before(list[c])
                 \/ list[i] \in Context!Range(SubSeq(list, c, Len(list)))
      <3>1. CASE i < c
        <4>1. list[i] \in 1 .. list[c] - 1
          BY <1>0, <2>1, <2>4, <3>1 DEF IsBranch
        <4> QED BY <4>1 DEF Before
      <3>2. CASE c <= i
        <4>1. /\ i - c + 1 \in DOMAIN SubSeq(list, c, Len(list))
              /\ SubSeq(list, c, Len(list))[i - c + 1] = list[i]
          BY <1>0, <2>1, <3>2
        <4> QED BY <4>1 DEF Context!Range
      <3> QED BY <2>1, <3>1, <3>2
    <2>5. ASSUME NEW m \in Context!Range(list), m # 0
          PROVE  m \in Before(list[c]) \cup Context!Range(SubSeq(list, c, Len(list)))
      <3>1. PICK i \in DOMAIN list : list[i] = m
        BY <2>5 DEF Context!Range
      <3>2. i \in 1 .. Len(list)
        BY <1>0, <3>1
      <3> QED BY <2>4, <2>5, <3>1, <3>2
    <2> QED BY <2>2, <2>3, <2>5
  <1> QED BY <1>1, <1>2

\* A list splits in two wherever it is cut.
LEMMA CutInTwo ==
    ASSUME NEW list \in Seq(Nat), NEW k \in 0 .. Len(list)
    PROVE  Context!Range(list) = Context!Range(SubSeq(list, 1, k))
                                   \cup Context!Range(SubSeq(list, k + 1, Len(list)))
  <1> DEFINE left == SubSeq(list, 1, k)
             right == SubSeq(list, k + 1, Len(list))
  <1>0. /\ left \in Seq(Nat) /\ Len(left) = k /\ right \in Seq(Nat) /\ Len(right) = Len(list) - k
        /\ k \in Nat /\ Len(list) \in Nat /\ k <= Len(list)
        /\ \A i \in 1 .. k : left[i] = list[i]
        /\ \A i \in 1 .. Len(list) - k : right[i] = list[k + i]
    OBVIOUS
  <1>1. \A i \in DOMAIN left : i \in DOMAIN list /\ left[i] = list[i]
    BY <1>0
  <1>2. ASSUME NEW i \in DOMAIN right PROVE k + i \in DOMAIN list /\ right[i] = list[k + i]
    <2> HIDE DEF left, right
    <2>1. i \in 1 .. Len(list) - k /\ i \in Nat
      BY <1>0, <1>2
    <2>2. k + i \in 1 .. Len(list)
      <3>1. \A a, b, j \in Nat : a <= b /\ j \in 1 .. b - a => a + j \in 1 .. b
        OBVIOUS
      <3>2. k \in Nat /\ Len(list) \in Nat /\ k <= Len(list)
        BY <1>0
      <3> QED BY ONLY <2>1, <3>1, <3>2
    <2>3. k + i \in DOMAIN list
      BY <2>2
    <2>4. right[i] = list[k + i]
      BY <1>0, <2>1, Zenon
    <2> QED BY <2>3, <2>4
  <1>3. ASSUME NEW i \in DOMAIN list
        PROVE  \/ i \in DOMAIN left /\ left[i] = list[i]
               \/ i - k \in DOMAIN right /\ right[i - k] = list[i]
    <2>1. i \in 1 .. Len(list)
      BY <1>3
    <2> HIDE DEF left, right
    <2>2. CASE i <= k
      BY <1>0, <2>1, <2>2
    <2>3. CASE k < i
      <3>1. i - k \in 1 .. Len(list) - k /\ k + (i - k) = i
        BY <1>0, <2>1, <2>3
      <3>2. i - k \in DOMAIN right
        BY <1>0, <3>1
      <3> QED BY <1>0, <3>1, <3>2
    <2> QED BY <1>0, <2>1, <2>2, <2>3
  <1> HIDE DEF left, right
  <1>4. Context!Range(left) \subseteq Context!Range(list)
    BY <1>1 DEF Context!Range
  <1>5. Context!Range(right) \subseteq Context!Range(list)
    BY <1>2 DEF Context!Range
  <1>6. Context!Range(list) \subseteq Context!Range(left) \cup Context!Range(right)
    BY <1>3 DEF Context!Range
  <1>7. Context!Range(list) = Context!Range(left) \cup Context!Range(right)
    BY <1>4, <1>5, <1>6
  <1> QED BY <1>7 DEF left, right

\* A boundary leaves something before it and two messages after it.
LEMMA BoundaryCuts ==
    ASSUME NEW list \in Seq(Nat), Len(list) > 3
    PROVE  Context!Boundary(list) \in 1 .. Len(list) - 2
  <1> DEFINE n == Len(list)
             tail == Context!Max({2, (n * 2) \div 5})
             start == Context!Max({1, n - tail})
             free == {i \in start .. n - 1 : i = n - 1 \/ list[i] \notin outputs}
  <1>1. n \in Nat /\ n > 3 /\ (n * 2) \div 5 \in 0 .. n
    <2>1. n \in Nat /\ n > 3
      OBVIOUS
    <2>2. \A k \in Nat : (k * 2) \div 5 \in 0 .. k
      OBVIOUS
    <2> QED BY <2>1, <2>2
  <1>2. tail \in {2, (n * 2) \div 5} /\ tail >= 2 /\ tail <= n
    <2>1. {2, (n * 2) \div 5} \subseteq 0 .. n /\ {2, (n * 2) \div 5} # {}
      BY <1>1
    <2>2. tail \in {2, (n * 2) \div 5} /\ \A y \in {2, (n * 2) \div 5} : tail >= y
      BY <1>1, <2>1, ContextMax
    <2> QED BY <1>1, <2>1, <2>2
  <1> HIDE DEF tail
  <1>3. start \in 1 .. n - 1
    <2>1. {1, n - tail} \subseteq 0 .. n /\ {1, n - tail} # {}
      BY <1>1, <1>2
    <2>2. start \in {1, n - tail} /\ start >= 1
      BY <1>1, <2>1, ContextMax
    <2> QED BY <1>1, <1>2, <2>2
  <1> HIDE DEF start
  <1>4. free \subseteq 1 .. n - 1 /\ n - 1 \in free
    BY <1>1, <1>3
  <1> HIDE DEF free
  <1>5. Context!Min(free) \in 1 .. n - 1
    <2>1. free # {} /\ free \subseteq Nat
      BY <1>1, <1>4
    <2>2. Context!Min(free) \in free
      BY <2>1, ContextMin
    <2> QED BY <1>4, <2>2
  <1>6. Context!Boundary(list) = Context!Min({Context!Min(free), n - 2})
    BY DEF Context!Boundary, free, start, tail
  <1>7. Context!Min({Context!Min(free), n - 2}) \in 1 .. n - 2
    <2>1. {Context!Min(free), n - 2} \subseteq Nat
      BY <1>1, <1>5
    <2>2. /\ Context!Min({Context!Min(free), n - 2}) \in {Context!Min(free), n - 2}
          /\ Context!Min({Context!Min(free), n - 2}) <= n - 2
      BY <2>1, ContextMin
    <2> QED BY <1>1, <1>5, <2>2
  <1> QED BY <1>6, <1>7

\* A summary that stands for all before its message, but what is kept.
LEMMA SummaryAdded ==
    ASSUME SummariesStand, NEW m \in 1 .. length', NEW covered,
           length' \in Nat, length <= length', kept \subseteq kept',
           Context!Summarise(m, covered), Before(m) \subseteq covered \cup kept'
    PROVE  SummariesStand'
  <1>1. summaries' = [x \in DOMAIN summaries \cup {m} |->
                         IF x = m THEN covered ELSE summaries[x]]
    BY DEF Context!Summarise
  <1>2. \A x \in DOMAIN summaries' : x \in 1 .. length'
    BY <1>1 DEF SummariesStand
  <1>3. ASSUME NEW x \in DOMAIN summaries' PROVE Before(x) \subseteq summaries'[x] \cup kept'
    <2>1. CASE x = m
      BY <1>1, <2>1
    <2>2. CASE x # m
      <3>1. x \in DOMAIN summaries /\ summaries'[x] = summaries[x]
        BY <1>1, <2>2
      <3> QED BY <3>1 DEF SummariesStand
    <2> QED BY <2>1, <2>2
  <1> QED BY <1>2, <1>3 DEF SummariesStand

\* The branch as a request sends it.
LEMMA BranchIs ==
    ASSUME NEW n \in Nat
    PROVE  /\ IsBranch(Context!Branch(n))
           /\ 1 .. n \subseteq Context!Range(Context!Branch(n))
  <1> DEFINE b == Context!Branch(n)
  <1>1. CASE prompted
    <2>1. b = <<0>> \o [i \in 1 .. n |-> i]
      BY <1>1 DEF Context!Branch
    <2>2. [i \in 1 .. n |-> i] \in Seq(Nat) /\ Len([i \in 1 .. n |-> i]) = n
      OBVIOUS
    <2>3. b \in Seq(Nat) /\ Len(b) = n + 1 /\ \A i \in 1 .. n + 1 : b[i] = i - 1
      BY <2>1, <2>2
    <2> HIDE DEF b
    <2>4. \A i \in 1 .. n : i + 1 \in DOMAIN b /\ b[i + 1] = i
      BY <2>3
    <2>5. 1 .. n \subseteq Context!Range(b)
      BY <2>4 DEF Context!Range
    <2> QED BY <2>3, <2>5 DEF IsBranch, b
  <1>2. CASE ~prompted
    <2>1. b = <<>> \o [i \in 1 .. n |-> i]
      BY <1>2 DEF Context!Branch
    <2>2. b \in Seq(Nat) /\ Len(b) = n /\ \A i \in 1 .. n : b[i] = i
      BY <2>1
    <2> HIDE DEF b
    <2>3. 1 .. n \subseteq Context!Range(b)
      BY <2>2 DEF Context!Range
    <2> QED BY <2>2, <2>3 DEF IsBranch, b
  <1> QED BY <1>1, <1>2

\* A message that asks, with or without a compaction.
LEMMA ContextAsks ==
    ASSUME ContextInv, NEW exceeds \in BOOLEAN, NEW failed \in BOOLEAN,
           Context!Ask(exceeds, failed)
    PROVE  ContextInv'
  <1> DEFINE list == Context!Branch(length + 1)
             recent == Context!SinceCheckpoint(list)
             before == Context!Summarised(list)
             half == Context!Boundary(recent)
             keep == Context!Range(SubSeq(recent, half + 1, Len(recent)))
  <1>1. SummariesStand /\ length \in Nat /\ length' = length + 1 /\ asked' = list
    BY DEF ContextInv, SummariesStand, Context!Ask
  <1>2. \/ told' = Context!Range(recent) \cup before /\ UNCHANGED <<summaries, kept>>
        \/ told' = Context!Range(list) /\ UNCHANGED <<summaries, kept>>
        \/ /\ Len(recent) > 3
           /\ told' = Context!Range(recent) \cup before
           /\ Context!Summarise(length + 1, before \cup Context!Range(SubSeq(recent, 1, half)))
           /\ kept' = kept \cup (keep \ {length + 1})
    <2>1. IF ~exceeds \/ Len(recent) <= 3
          THEN told' = Context!Range(recent) \cup before /\ UNCHANGED <<summaries, kept>>
          ELSE IF failed
          THEN told' = Context!Range(list) /\ UNCHANGED <<summaries, kept>>
          ELSE /\ told' = Context!Range(recent) \cup before
               /\ Context!Summarise(length + 1, before \cup Context!Range(SubSeq(recent, 1, half)))
               /\ kept' = kept \cup (keep \ {length + 1})
      BY DEF Context!Ask
    <2>2. IsBranch(list)
      BY <1>1, BranchIs
    <2>3. recent \in Seq(Nat)
      BY <2>2, SinceIs DEF IsBranch
    <2>4. Len(recent) \in Nat
      BY <2>3
    <2> HIDE DEF recent, before, half, keep, list
    <2> QED BY <2>1, <2>4
  <1>3. IsBranch(list) /\ 1 .. length + 1 \subseteq Context!Range(list)
    BY <1>1, BranchIs
  <1>4. Context!Range(list) \ {0} \subseteq Context!Range(recent) \cup before \cup kept
    BY <1>1, <1>3, SinceTells
  <1>5. recent \in Seq(Nat)
    BY <1>3, SinceIs DEF IsBranch
  <1>6. Len(recent) > 3 => half \in 0 .. Len(recent)
    BY <1>5, BoundaryCuts
  <1> HIDE DEF recent, before, half, list
  <1>7. SummariesStand'
    <2>1. CASE UNCHANGED <<summaries, kept>>
      BY <1>1, <2>1 DEF SummariesStand, Before
    <2>2. CASE /\ Len(recent) > 3
               /\ Context!Summarise(length + 1, before \cup Context!Range(SubSeq(recent, 1, half)))
               /\ kept' = kept \cup (keep \ {length + 1})
      <3>1. Context!Range(recent) = Context!Range(SubSeq(recent, 1, half)) \cup keep
        BY <1>5, <1>6, <2>2, CutInTwo
      <3> HIDE DEF keep
      <3>2. Before(length + 1) \subseteq Context!Range(list) \ {0}
        BY <1>1, <1>3 DEF Before
      <3>3. length + 1 \notin Before(length + 1)
        BY <1>1 DEF Before
      <3>4. Before(length + 1) \subseteq
               (before \cup Context!Range(SubSeq(recent, 1, half))) \cup kept'
        BY <1>4, <2>2, <3>1, <3>2, <3>3
      <3>5. kept \subseteq kept' /\ length' \in Nat /\ length <= length'
            /\ length + 1 \in 1 .. length'
        BY <1>1, <2>2
      <3> QED BY <1>1, <2>2, <3>4, <3>5, SummaryAdded
    <2> QED BY <1>2, <2>1, <2>2
  <1>8. Context!OnlyKeptAreForgotten'
    <2>1. kept \subseteq kept'
      BY <1>2
    <2>2. Context!Range(list) \ ({0} \cup kept') \subseteq told'
      BY <1>2, <1>4, <2>1
    <2>3. Context!Range(asked') = Context!Range(list)
      BY <1>1
    <2> QED BY <2>2, <2>3 DEF Context!OnlyKeptAreForgotten, Context!Range
  <1> QED BY <1>7, <1>8 DEF ContextInv

\* The branch is compacted on demand, all but its last message.
LEMMA ContextCompacts ==
    ASSUME ContextInv, Context!CompactBranch
    PROVE  ContextInv'
  <1> DEFINE list == [i \in 1 .. length |-> i]
             recent == Context!SinceCheckpoint(list)
             front == SubSeq(recent, 1, Len(recent) - 1)
  <1>1. /\ SummariesStand /\ length \in Nat /\ length > 0
        /\ UNCHANGED <<length, asked, told, kept>>
    BY DEF ContextInv, SummariesStand, Context!CompactBranch
  <1>2. /\ Len(recent) > 2
        /\ Context!Summarise(length, Context!Summarised(list) \cup Context!Range(front))
    BY DEF Context!CompactBranch
  <1>3. list \in Seq(Nat) /\ Len(list) = length /\ \A i \in DOMAIN list : list[i] = i
    BY <1>1
  <1> HIDE DEF list
  <1>4. IsBranch(list)
    BY <1>3 DEF IsBranch
  <1>5. recent \in Seq(Nat)
    BY <1>3, SinceIs
  <1>6. Context!Range(list) \ {0} \subseteq
           Context!Range(recent) \cup Context!Summarised(list) \cup kept
    BY <1>1, <1>4, SinceTells
  <1>7. Context!Range(recent) \subseteq Context!Range(front) \cup {length}
    <2>1. recent[Len(recent)] = length
      <3>1. CASE Context!Checkpoints(list) = {}
        BY <1>1, <1>3, <3>1 DEF Context!SinceCheckpoint
      <3>2. CASE Context!Checkpoints(list) # {}
        <4> DEFINE c == Context!Max(Context!Checkpoints(list))
        <4>1. c \in 1 .. Len(list)
          BY <1>3, <3>2, LatestCheckpoint
        <4>2. recent = SubSeq(list, c, Len(list))
          BY <3>2 DEF Context!SinceCheckpoint
        <4> HIDE DEF c, recent
        <4> QED BY <1>1, <1>3, <4>1, <4>2
      <3> QED BY <3>1, <3>2
    <2> HIDE DEF recent
    <2>2. front = SubSeq(recent, 1, Len(recent) - 1)
      OBVIOUS
    <2> HIDE DEF front
    <2>3. \A i \in DOMAIN recent : i # Len(recent) => i \in DOMAIN front /\ front[i] = recent[i]
      BY <1>2, <1>5, <2>2
    <2> QED BY <2>1, <2>3 DEF Context!Range
  <1> HIDE DEF recent, front
  <1>8. Before(length) \subseteq (Context!Summarised(list) \cup Context!Range(front)) \cup kept'
    <2>1. Before(length) \subseteq Context!Range(list) \ {0}
      BY <1>1, <1>3 DEF Before, Context!Range
    <2>2. length \notin Before(length)
      BY <1>1 DEF Before
    <2> QED BY <1>1, <1>6, <1>7, <2>1, <2>2
  <1>9. length \in 1 .. length' /\ length' \in Nat /\ length <= length' /\ kept \subseteq kept'
    BY <1>1
  <1>10. SummariesStand'
    BY <1>1, <1>2, <1>8, <1>9, SummaryAdded
  <1>11. Context!OnlyKeptAreForgotten'
    BY <1>1 DEF ContextInv, Context!OnlyKeptAreForgotten, Context!Range
  <1> QED BY <1>10, <1>11 DEF ContextInv

LEMMA ContextNext == ContextInv /\ [Context!Next]_branch => ContextInv'
  <1>. SUFFICES ASSUME ContextInv, [Context!Next]_branch PROVE ContextInv'
    OBVIOUS
  <1>1. CASE UNCHANGED branch
    BY <1>1 DEF branch, ContextInv, SummariesStand, Before, Context!OnlyKeptAreForgotten,
       Context!Range
  <1>2. CASE \E exceeds, failed \in BOOLEAN : Context!Ask(exceeds, failed)
    BY <1>2, ContextAsks
  <1>3. ASSUME NEW hasOutput \in BOOLEAN, Context!Answer(hasOutput) PROVE ContextInv'
    <2>1. length \in Nat /\ length' = length + 1 /\ UNCHANGED <<summaries, asked, told, kept>>
      BY <1>3 DEF ContextInv, SummariesStand, Context!Answer
    <2> QED BY <2>1 DEF ContextInv, SummariesStand, Before, Context!OnlyKeptAreForgotten,
               Context!Range
  <1>4. CASE Context!CompactBranch
    BY <1>4, ContextCompacts
  <1> QED BY <1>1, <1>2, <1>3, <1>4 DEF Context!Next

\* What of a branch a request does not tell the model, a compaction has kept
\* beside its summary before (context_compaction.py:56-62, 110-118), however
\* long the branch is and wherever it was compacted.
THEOREM OnlyKeptForgotten == MCSpec => []OnlyKeptAreForgotten
  <1>1. MCInit => ContextInv
    BY DEF MCInit, Context!Init, ContextInv, SummariesStand, Context!OnlyKeptAreForgotten,
       Context!Range
  <1>2. ContextInv /\ [MCNext]_<<part, vars, branch, turn, register, tokens, limiter, tree, index,
                                 memories>> => ContextInv'
    BY ContextNext DEF MCNext
  <1>3. ContextInv => OnlyKeptAreForgotten
    BY DEF ContextInv, OnlyKeptAreForgotten, Of
  <1> QED BY <1>1, <1>2, <1>3, PTL DEF MCSpec

-----------------------------------------------------------------------------
(* The directories of a knowledge base.                                    *)

\* What a request about directories is doing.
TreeCalls == [at : {"idle", "walk", "write", "place", "read", "visit"}, on : Nat, to : Nat,
              file : Files \cup {"none"}, seen : SUBSET Nat, todo : SUBSET Nat,
              held : SUBSET Files, keep : BOOLEAN]

TreeShape ==
    /\ enforced \in BOOLEAN /\ dirs \in 0 .. MaxDirs
    /\ Tree!Dirs \subseteq 1 .. dirs
    /\ parent \in [Tree!Dirs -> 0 .. dirs]
    /\ DOMAIN place \subseteq Files /\ place \in [DOMAIN place -> 0 .. dirs]
    /\ walk \in [Requests -> TreeCalls]

\* No two requests are at work.
OneAtWork == \A g, h \in Requests : walk[g].at # "idle" /\ walk[h].at # "idle" => g = h

\* No directories are each below another of them.
Acyclic == \A S \in SUBSET Tree!Dirs : S # {} => \E d \in S : parent[d] \notin S

LeadUp(S) == \A d \in S : parent[d] \in S \cup {0}
\* The files are in the root, or in directories whose parents are there, and
\* theirs, up to the root.
FilesLed ==
    \E S \in SUBSET Tree!Dirs : LeadUp(S) /\ \A f \in DOMAIN place : place[f] \in S \cup {0}

\* What a move has seen on its way up does not hold the directory it moves.
Seen(r) == r.seen \subseteq Tree!Dirs /\ r.on \in Tree!Dirs /\ r.on \notin r.seen
WalkOK(r) ==
    /\ Seen(r)
    /\ r.to \in r.seen \cup r.todo
    /\ \A d \in r.seen : parent[d] \in r.seen \cup r.todo
    /\ r.todo \subseteq Tree!Dirs \cup {0} /\ \E d \in r.todo : r.todo = {d}
WriteOK(r) == Seen(r) /\ r.to \in r.seen \cup {0} /\ LeadUp(r.seen)

\* What a deletion has visited is below its directory, and what is below that
\* is visited or to be visited.
VisitOK(r) ==
    \E V \in SUBSET Tree!Dirs :
       /\ r.on \in Tree!Dirs /\ r.to = parent[r.on] /\ r.todo \subseteq Tree!Dirs
       /\ r.on \in V \cup r.todo
       /\ \A d \in V \cup r.todo : d = r.on \/ parent[d] \in V
       /\ \A d \in Tree!Dirs : parent[d] \in V => d \in V \cup r.todo
       /\ r.held = {f \in DOMAIN place : place[f] \in V}

TreeCallOK(r) ==
    r.at # "idle" =>
       /\ LeadUp(Tree!Dirs)
       /\ r.to \in Tree!Dirs \cup {0}
       /\ r.at = "walk" => WalkOK(r)
       /\ r.at = "write" => WriteOK(r)
       /\ r.at = "read" => r.on \in Tree!Dirs /\ r.held = {}
       /\ r.at = "visit" => VisitOK(r)

TreeGood ==
    /\ TreeShape /\ OneAtWork /\ Acyclic /\ FilesLed
    /\ \A h \in Requests : TreeCallOK(walk[h])

TreeInv == upset \/ TreeGood

-----------------------------------------------------------------------------
\* Nobody is at work, and every parent is there, when a request begins that
\* leaves the directories in order.
LEMMA TreeIsCalm ==
  ASSUME TreeGood, NEW p, Tree!Counted(p), ~upset'
  PROVE  /\ \A h \in Requests : walk[h].at = "idle"
         /\ LeadUp(Tree!Dirs) /\ p \in Tree!Dirs \cup {0}
  <1>1. Tree!Busy = {} /\ Tree!Exists(p) /\ \A d \in Tree!Dirs : Tree!Exists(parent[d])
    BY DEF Tree!Counted
  <1> QED BY <1>1 DEF Tree!Busy, Tree!Exists, LeadUp

\* A request that is not there.
LEMMA TreeIdle == Tree!Idle \in TreeCalls /\ Tree!Idle.at = "idle" /\ Tree!Idle.seen = {}
  BY DEF Tree!Idle, TreeCalls

\* What a request is given when it begins.
ToWalk(x, d, p) == [x EXCEPT !.at = "walk", !.on = d, !.to = p, !.todo = {p}]
ToPlace(x, f, p) == [x EXCEPT !.at = "place", !.file = f, !.to = p]
LEMMA TreeCallFields ==
  ASSUME NEW x \in TreeCalls, NEW d \in Nat, NEW p \in Nat
  PROVE  /\ ToWalk(x, d, p) \in TreeCalls /\ ToWalk(x, d, p).at = "walk" /\ ToWalk(x, d, p).on = d
         /\ ToWalk(x, d, p).to = p /\ ToWalk(x, d, p).todo = {p} /\ ToWalk(x, d, p).seen = x.seen
         /\ \A f \in Files : ToPlace(x, f, p) \in TreeCalls /\ ToPlace(x, f, p).at = "place"
  BY DEF TreeCalls, ToWalk, ToPlace

\* While the directories and the files stay, so does what is said of a request.
LEMMA TreeCallStays ==
  ASSUME parent' = parent, place' = place, NEW r, TreeCallOK(r)
  PROVE  TreeCallOK(r)'
  <1>1. LeadUp(Tree!Dirs) => LeadUp(Tree!Dirs)'
    BY DEF LeadUp, Tree!Dirs
  <1>2. WalkOK(r) => WalkOK(r)'
    BY DEF WalkOK, Seen, Tree!Dirs
  <1>3. WriteOK(r) => WriteOK(r)'
    BY DEF WriteOK, Seen, LeadUp, Tree!Dirs
  <1>4. VisitOK(r) => VisitOK(r)'
    <2>1. ASSUME VisitOK(r) PROVE VisitOK(r)'
      <3>1. PICK V \in SUBSET Tree!Dirs :
              /\ r.on \in Tree!Dirs /\ r.to = parent[r.on] /\ r.todo \subseteq Tree!Dirs
              /\ r.on \in V \cup r.todo
              /\ \A d \in V \cup r.todo : d = r.on \/ parent[d] \in V
              /\ \A d \in Tree!Dirs : parent[d] \in V => d \in V \cup r.todo
              /\ r.held = {f \in DOMAIN place : place[f] \in V}
        BY <2>1, Zenon DEF VisitOK
      <3>2. Tree!Dirs' = Tree!Dirs
        BY DEF Tree!Dirs
      <3> QED BY <3>1, <3>2, Zenon DEF VisitOK
    <2> QED BY <2>1
  <1>5. Tree!Dirs' = Tree!Dirs
    BY DEF Tree!Dirs
  <1> QED BY <1>1, <1>2, <1>3, <1>4, <1>5, Zenon DEF TreeCallOK

\* The one request at work goes on with r, or a first one begins.
LEMMA TreeGoes ==
  ASSUME TreeShape, NEW h \in Requests, \A g \in Requests : g # h => walk[g].at = "idle",
         NEW r \in TreeCalls, walk' = [walk EXCEPT ![h] = r],
         TreeCallOK(r)'
  PROVE  /\ walk' \in [Requests -> TreeCalls] /\ OneAtWork'
         /\ \A g \in Requests : TreeCallOK(walk[g])'
  <1>1. walk' \in [Requests -> TreeCalls] /\ walk'[h] = r
        /\ \A g \in Requests : g # h => walk'[g] = walk[g]
    BY DEF TreeShape
  <1>2. OneAtWork'
    BY <1>1 DEF OneAtWork
  <1>3. ASSUME NEW g \in Requests PROVE TreeCallOK(walk[g])'
    <2>1. CASE g = h
      BY <2>1, <1>1, Zenon
    <2>2. CASE g # h
      <3>1. walk'[g].at = "idle"
        BY <2>2, <1>1
      <3> QED BY <3>1, Zenon DEF TreeCallOK
    <2> QED BY <2>1, <2>2
  <1> QED BY <1>1, <1>2, <1>3

\* A step of a request that leaves directories and files where they are.
LEMMA TreeCallGoes ==
  ASSUME TreeGood, NEW h \in Requests, \A g \in Requests : g # h => walk[g].at = "idle",
         NEW r \in TreeCalls, walk' = [walk EXCEPT ![h] = r],
         TreeCallOK(r), UNCHANGED <<enforced, parent, place, dirs>>
  PROVE  TreeGood'
  <1>1. TreeCallOK(r)'
    BY TreeCallStays
  <1>2. /\ walk' \in [Requests -> TreeCalls] /\ OneAtWork'
        /\ \A g \in Requests : TreeCallOK(walk[g])'
    BY <1>1, TreeGoes DEF TreeGood
  <1>3. Tree!Dirs' = Tree!Dirs
    BY DEF Tree!Dirs
  <1>4. TreeShape'
    BY <1>2, <1>3 DEF TreeGood, TreeShape
  <1>5. Acyclic' /\ FilesLed'
    BY <1>3 DEF TreeGood, Acyclic, FilesLed, LeadUp
  <1> QED BY <1>2, <1>4, <1>5, Zenon DEF TreeGood

\* The others are idle while one request is at work.
LEMMA TreeAlone ==
  ASSUME TreeGood, NEW h \in Requests, walk[h].at # "idle"
  PROVE  /\ \A g \in Requests : g # h => walk[g].at = "idle"
         /\ walk[h] \in TreeCalls /\ TreeCallOK(walk[h])
         /\ LeadUp(Tree!Dirs) /\ walk[h].to \in Tree!Dirs \cup {0}
  <1>1. TreeCallOK(walk[h])
    BY Zenon DEF TreeGood
  <1>2. LeadUp(Tree!Dirs) /\ walk[h].to \in Tree!Dirs \cup {0}
    BY <1>1, Zenon DEF TreeCallOK
  <1>3. walk[h] \in TreeCalls /\ \A g \in Requests : g # h => walk[g].at = "idle"
    BY DEF TreeGood, TreeShape, OneAtWork
  <1> QED BY <1>1, <1>2, <1>3

-----------------------------------------------------------------------------
\* A directory is created.
LEMMA TreeCreates ==
  ASSUME TreeGood, NEW p \in 0 .. dirs, Tree!Create(p), ~upset'
  PROVE  TreeGood'
  <1>1. /\ dirs < MaxDirs /\ Tree!Counted(p) /\ dirs' = dirs + 1
        /\ UNCHANGED <<enforced, place, walk>>
    BY DEF Tree!Create
  <1>2. /\ \A h \in Requests : walk[h].at = "idle"
        /\ LeadUp(Tree!Dirs) /\ p \in Tree!Dirs \cup {0}
    BY <1>1, TreeIsCalm
  <1> DEFINE new == dirs + 1
  <1>3. /\ dirs \in Nat /\ Tree!Dirs \subseteq 1 .. dirs /\ parent \in [Tree!Dirs -> 0 .. dirs]
        /\ MaxDirs \in Nat
    BY TreeConstants DEF TreeGood, TreeShape
  <1>4. parent' = [d \in Tree!Dirs \cup {new} |-> IF d \in Tree!Dirs THEN parent[d] ELSE p]
    BY <1>2 DEF Tree!Create, Tree!Exists
  <1>5. Tree!Dirs' = Tree!Dirs \cup {new}
    BY <1>4 DEF Tree!Dirs
  <1>6. /\ new \notin Tree!Dirs /\ parent'[new] = p
        /\ \A d \in Tree!Dirs : parent'[d] = parent[d] /\ parent[d] \in 0 .. dirs
        /\ new # p /\ \A d \in Tree!Dirs : parent[d] # new
    BY <1>3, <1>4
  <1>7. TreeShape'
    <2>1. /\ dirs' \in 0 .. MaxDirs /\ Tree!Dirs' \subseteq 1 .. dirs'
          /\ 0 .. dirs \subseteq 0 .. dirs'
      BY <1>1, <1>3, <1>5
    <2>2. parent' \in [Tree!Dirs' -> 0 .. dirs']
      BY <1>4, <1>5, <1>6, <2>1
    <2>3. place' \in [DOMAIN place' -> 0 .. dirs']
      BY <1>1, <2>1 DEF TreeGood, TreeShape
    <2> QED BY <1>1, <2>1, <2>2, <2>3 DEF TreeGood, TreeShape
  <1>8. Acyclic'
    <2>1. ASSUME NEW S \in SUBSET (Tree!Dirs \cup {new}), S # {}
          PROVE  \E d \in S : parent'[d] \notin S
      <3>1. CASE S \cap Tree!Dirs = {}
        BY <2>1, <3>1, <1>6
      <3>2. CASE S \cap Tree!Dirs # {}
        <4>1. PICK d \in S \cap Tree!Dirs : parent[d] \notin S \cap Tree!Dirs
          BY <3>2 DEF TreeGood, Acyclic
        <4> QED BY <4>1, <1>6
      <3> QED BY <3>1, <3>2
    <2> QED BY <2>1, <1>5 DEF Acyclic
  <1>9. FilesLed'
    <2>1. PICK S \in SUBSET Tree!Dirs : \A f \in DOMAIN place : place[f] \in S \cup {0}
      BY DEF TreeGood, FilesLed
    <2>2. LeadUp(Tree!Dirs)'
      BY <1>2, <1>5, <1>6 DEF LeadUp
    <2>3. Tree!Dirs' \in SUBSET Tree!Dirs' /\ \A f \in DOMAIN place' : place'[f] \in Tree!Dirs' \cup {0}
      BY <1>1, <1>5, <2>1
    <2> QED BY <2>2, <2>3, Zenon DEF FilesLed, LeadUp
  <1>10. OneAtWork' /\ \A h \in Requests : TreeCallOK(walk[h])'
    BY <1>1, <1>2 DEF OneAtWork, TreeCallOK
  <1> QED BY <1>7, <1>8, <1>9, <1>10, Zenon DEF TreeGood

\* A request about a directory or a file begins.
LEMMA TreeStarts ==
  ASSUME TreeGood, NEW h \in Requests, NEW r \in TreeCalls, Tree!Start(h, r), ~upset',
         LeadUp(Tree!Dirs) /\ r.to \in Tree!Dirs \cup {0} => TreeCallOK(r)
  PROVE  TreeGood'
  <1>1. /\ Tree!Counted(r.to) /\ walk' = [walk EXCEPT ![h] = r]
        /\ UNCHANGED <<enforced, parent, place, dirs>>
    BY DEF Tree!Start
  <1>2. /\ \A g \in Requests : walk[g].at = "idle"
        /\ LeadUp(Tree!Dirs) /\ r.to \in Tree!Dirs \cup {0}
    BY <1>1, TreeIsCalm
  <1> QED BY <1>1, <1>2, TreeCallGoes

\* The requests there are.
LEMMA TreeRequests ==
  ASSUME TreeGood, NEW h \in Requests, ~upset',
         \/ \E d \in Tree!Dirs, p \in 0 .. dirs : Tree!Move(h, d, p)
         \/ \E d \in Tree!Dirs, keep \in BOOLEAN : Tree!Delete(h, d, keep)
         \/ \E f \in DOMAIN place, p \in 0 .. dirs : Tree!MoveFile(h, f, p)
  PROVE  TreeGood'
  <1>1. Tree!Dirs \subseteq Nat \ {0} /\ DOMAIN place \subseteq Files /\ dirs \in Nat
    BY DEF TreeGood, TreeShape
  <1>2. ASSUME NEW d \in Tree!Dirs, NEW p \in 0 .. dirs, Tree!Move(h, d, p)
        PROVE  TreeGood'
    <2> DEFINE r == ToWalk(Tree!Idle, d, p)
    <2>1. /\ r \in TreeCalls /\ r.at = "walk" /\ r.on = d /\ r.to = p /\ r.todo = {p}
          /\ r.seen = {}
      <3>1. d \in Nat /\ p \in Nat
        BY <1>1
      <3>2. Tree!Idle \in TreeCalls /\ Tree!Idle.seen = {}
        BY TreeIdle
      <3> HIDE DEF r
      <3>3. r = ToWalk(Tree!Idle, d, p)
        BY DEF r
      <3> QED BY ONLY <3>1, <3>2, <3>3, TreeCallFields
    <2>2. Tree!Start(h, r)
      BY <1>2, Zenon DEF Tree!Move, ToWalk
    <2> HIDE DEF r
    <2>3. ASSUME LeadUp(Tree!Dirs), r.to \in Tree!Dirs \cup {0} PROVE TreeCallOK(r)
      BY <2>1, <2>3 DEF TreeCallOK, WalkOK, Seen
    <2> QED BY <2>1, <2>2, <2>3, TreeStarts
  <1>3. ASSUME NEW d \in Tree!Dirs, NEW keep \in BOOLEAN, Tree!Delete(h, d, keep)
        PROVE  TreeGood'
    <2> DEFINE r == [Tree!Idle EXCEPT !.at = "read", !.on = d, !.keep = keep]
    <2>1. r \in TreeCalls /\ r.at = "read" /\ r.on = d /\ r.held = {}
      BY <1>1 DEF TreeCalls, Tree!Idle
    <2>2. Tree!Start(h, r)
      BY <1>3 DEF Tree!Delete
    <2> HIDE DEF r
    <2>3. ASSUME LeadUp(Tree!Dirs), r.to \in Tree!Dirs \cup {0} PROVE TreeCallOK(r)
      BY <2>1, <2>3 DEF TreeCallOK
    <2> QED BY <2>1, <2>2, <2>3, TreeStarts
  <1>4. ASSUME NEW f \in DOMAIN place, NEW p \in 0 .. dirs, Tree!MoveFile(h, f, p)
        PROVE  TreeGood'
    <2> DEFINE r == ToPlace(Tree!Idle, f, p)
    <2>1. r \in TreeCalls /\ r.at = "place"
      <3>1. p \in Nat /\ 0 \in Nat /\ f \in Files
        BY <1>1
      <3> QED BY <3>1, TreeIdle, TreeCallFields
    <2>2. Tree!Start(h, r)
      BY <1>4, Zenon DEF Tree!MoveFile, ToPlace
    <2> HIDE DEF r
    <2>3. ASSUME LeadUp(Tree!Dirs), r.to \in Tree!Dirs \cup {0} PROVE TreeCallOK(r)
      BY <2>1, <2>3 DEF TreeCallOK
    <2> QED BY <2>1, <2>2, <2>3, TreeStarts
  <1> QED BY <1>2, <1>3, <1>4

\* The request at work ends, and leaves directories and files where they are.
LEMMA TreeEnds ==
  ASSUME TreeGood, NEW h \in Requests, walk[h].at # "idle", Tree!End(h),
         UNCHANGED <<enforced, parent, place, dirs>>
  PROVE  TreeGood'
  <1>1. walk' = [walk EXCEPT ![h] = Tree!Idle] /\ TreeCallOK(Tree!Idle)
    BY TreeIdle DEF Tree!End, Tree!Goto, TreeCallOK
  <1> QED BY <1>1, TreeAlone, TreeIdle, TreeCallGoes

\* One directory on the way up.
LEMMA TreeWalks ==
  ASSUME TreeGood, NEW h \in Requests, Tree!Walk(h)
  PROVE  TreeGood'
  <1>1. walk[h].at = "walk" /\ UNCHANGED <<enforced, parent, place, dirs>>
    BY DEF Tree!Walk, Tree!rest
  <1>2. PICK current \in walk[h].todo : Tree!WalkStep(h, current)
    BY DEF Tree!Walk
  <1> DEFINE w == walk[h]
  <1>3. /\ \A g \in Requests : g # h => walk[g].at = "idle"
        /\ w \in TreeCalls /\ TreeCallOK(w)
        /\ LeadUp(Tree!Dirs) /\ w.to \in Tree!Dirs \cup {0}
    BY <1>1, TreeAlone
  <1>4. WalkOK(w)
    BY <1>1, <1>3, Zenon DEF TreeCallOK
  <1>5. w.todo = {current} /\ current \in Tree!Dirs \cup {0} /\ 0 \notin Tree!Dirs
        /\ \A d \in Tree!Dirs : d \in Nat
    BY <1>2, <1>4 DEF WalkOK, TreeGood, TreeShape
  <1>6. CASE current = w.on
    BY <1>1, <1>2, <1>6, TreeEnds DEF Tree!WalkStep
  <1>7. CASE current # w.on /\ (current = 0 \/ current \in w.seen)
    <2> DEFINE r == [w EXCEPT !.at = "write"]
    <2>1. walk' = [walk EXCEPT ![h] = r]
      BY <1>2, <1>7 DEF Tree!WalkStep, Tree!Goto
    <2>2. r \in TreeCalls /\ r.at = "write" /\ r.on = w.on /\ r.to = w.to /\ r.seen = w.seen
      BY <1>3 DEF TreeCalls
    <2> HIDE DEF r
    <2>3. WriteOK(r)
      BY <1>4, <1>5, <1>7, <2>2 DEF WalkOK, WriteOK, Seen, LeadUp
    <2>4. TreeCallOK(r)
      BY <1>3, <2>2, <2>3 DEF TreeCallOK
    <2> QED BY <1>1, <1>3, <2>1, <2>2, <2>4, TreeCallGoes
  <1>8. CASE current # w.on /\ current # 0 /\ current \notin w.seen
    <2> DEFINE up == IF current \in Tree!Dirs THEN parent[current] ELSE 0
               r == [w EXCEPT !.seen = @ \cup {current}, !.todo = {up}]
    <2>1. walk' = [walk EXCEPT ![h] = r]
      BY <1>2, <1>8 DEF Tree!WalkStep, Tree!Goto
    <2>2. current \in Tree!Dirs /\ up = parent[current] /\ up \in Tree!Dirs \cup {0} /\ up \in Nat
      <3>1. current \in Tree!Dirs
        BY <1>5, <1>8
      <3>2. parent[current] \in Tree!Dirs \cup {0}
        BY <1>3, <3>1 DEF LeadUp
      <3>3. up = parent[current]
        BY <3>1
      <3> HIDE DEF up
      <3>4. up \in Nat
        <4>1. parent[current] \in Nat
          BY <1>5, <3>2
        <4> QED BY <3>3, <4>1
      <3> QED BY <3>1, <3>2, <3>3, <3>4
    <2> HIDE DEF up
    <2>3. /\ r \in TreeCalls /\ r.at = "walk" /\ r.on = w.on /\ r.to = w.to
          /\ r.seen = w.seen \cup {current} /\ r.todo = {up}
      BY <1>1, <1>3, <1>5, <2>2 DEF TreeCalls
    <2> HIDE DEF r
    <2>4. WalkOK(r)
      BY <1>4, <1>5, <1>8, <2>2, <2>3 DEF WalkOK, Seen
    <2>5. TreeCallOK(r)
      BY <1>3, <2>3, <2>4 DEF TreeCallOK
    <2> QED BY <1>1, <1>3, <2>1, <2>3, <2>5, TreeCallGoes
  <1> QED BY <1>6, <1>7, <1>8

\* A directory gets a new parent, above which it is not.
LEMMA TreeWrites ==
  ASSUME TreeGood, NEW h \in Requests, Tree!WriteParent(h)
  PROVE  TreeGood'
  <1> DEFINE w == walk[h]
  <1>1. /\ w.at = "write" /\ Tree!End(h) /\ UNCHANGED <<enforced, place, dirs>>
        /\ parent' = parent \/ parent' = [parent EXCEPT ![w.on] = w.to]
    BY DEF Tree!WriteParent, Tree!rest
  <1>2. CASE parent' = parent
    BY <1>1, <1>2, TreeEnds
  <1>3. CASE parent' = [parent EXCEPT ![w.on] = w.to]
    <2>1. /\ \A g \in Requests : g # h => walk[g].at = "idle"
          /\ w \in TreeCalls /\ TreeCallOK(w)
          /\ LeadUp(Tree!Dirs) /\ w.to \in Tree!Dirs \cup {0}
      BY <1>1, TreeAlone
    <2>2. WriteOK(w)
      BY <1>1, <2>1, Zenon DEF TreeCallOK
    <2>3. /\ w.on \in Tree!Dirs /\ w.seen \subseteq Tree!Dirs /\ w.on \notin w.seen
          /\ w.to \in w.seen \cup {0} /\ \A d \in w.seen : parent[d] \in w.seen \cup {0}
      BY <2>2 DEF WriteOK, Seen, LeadUp
    <2>4. /\ parent \in [Tree!Dirs -> 0 .. dirs] /\ Tree!Dirs \subseteq 1 .. dirs /\ dirs \in Nat
      BY DEF TreeGood, TreeShape
    <2>5. /\ Tree!Dirs' = Tree!Dirs /\ parent'[w.on] = w.to
          /\ \A d \in Tree!Dirs : d # w.on => parent'[d] = parent[d]
          /\ parent' \in [Tree!Dirs -> 0 .. dirs]
      BY <1>3, <2>1, <2>3, <2>4 DEF Tree!Dirs
    <2>6. Acyclic'
      <3>1. ASSUME NEW S \in SUBSET Tree!Dirs, S # {}
            PROVE  \E d \in S : parent'[d] \notin S
        <4>1. CASE S \cap w.seen # {}
          <5>1. PICK d \in S \cap w.seen : parent[d] \notin S \cap w.seen
            BY <2>3, <4>1 DEF TreeGood, Acyclic
          <5>2. parent'[d] = parent[d] /\ parent[d] \in w.seen \cup {0} /\ 0 \notin S
            BY <2>3, <2>4, <2>5, <5>1
          <5> QED BY <5>1, <5>2
        <4>2. CASE S \cap w.seen = {} /\ w.on \in S
          <5>1. 0 \notin Tree!Dirs
            BY <2>4
          <5>2. parent'[w.on] \notin S
            BY <2>3, <2>5, <4>2, <5>1
          <5> QED BY <4>2, <5>2
        <4>3. CASE w.on \notin S
          <5>1. PICK d \in S : parent[d] \notin S
            BY <3>1 DEF TreeGood, Acyclic
          <5> QED BY <2>5, <4>3, <5>1
        <4> QED BY <4>1, <4>2, <4>3
      <3> QED BY <2>5, <3>1 DEF Acyclic
    <2>7. LeadUp(Tree!Dirs)'
      BY <2>1, <2>5 DEF LeadUp
    <2>8. FilesLed'
      <3>1. \A f \in DOMAIN place' : place'[f] \in Tree!Dirs' \cup {0}
        BY <1>1, <2>5 DEF TreeGood, FilesLed
      <3>2. Tree!Dirs' \in SUBSET Tree!Dirs'
        OBVIOUS
      <3> QED BY <2>7, <3>1, <3>2, Zenon DEF FilesLed, LeadUp
    <2>9. /\ walk' \in [Requests -> TreeCalls] /\ OneAtWork'
          /\ \A g \in Requests : TreeCallOK(walk[g])'
      <3>1. walk' = [walk EXCEPT ![h] = Tree!Idle] /\ TreeCallOK(Tree!Idle)'
        BY <1>1, TreeIdle DEF Tree!End, Tree!Goto, TreeCallOK
      <3> QED BY <2>1, <3>1, TreeIdle, TreeGoes DEF TreeGood
    <2>10. TreeShape'
      BY <1>1, <2>5, <2>9 DEF TreeGood, TreeShape
    <2> QED BY <2>6, <2>8, <2>9, <2>10, Zenon DEF TreeGood
  <1> QED BY <1>1, <1>2, <1>3

\* What holds of 0, and of a number if of the one before it, holds up to n.
LEMMA StepByStep ==
  ASSUME NEW n \in Nat, NEW G, 0 \in G, \A k \in 1 .. n : k - 1 \in G => k \in G
  PROVE  n \in G
  <1> DEFINE Bad == {k \in 0 .. n : k \notin G}
  <1>1. Bad = {}
    <2> SUFFICES ASSUME Bad # {} PROVE FALSE
      OBVIOUS
    <2>1. Bad \in SUBSET Nat
      OBVIOUS
    <2> HIDE DEF Bad
    <2>2. PICK k \in Bad : \A j \in Bad : k <= j
      BY <2>1, LeastExists
    <2>3. k \in 1 .. n /\ k - 1 \in 0 .. n /\ k \notin G
      BY <2>2 DEF Bad
    <2>4. k - 1 \in G
      BY <2>2, <2>3 DEF Bad
    <2> QED BY <2>3, <2>4
  <1> QED BY <1>1

\* Directories, with those directly below them.
Nearer(S) == S \cup {x \in Tree!Dirs : parent[x] \in S}
Levels(found, S) ==
    found = [n \in 0 .. MaxDirs |-> IF n = 0 THEN S ELSE Nearer(found[n - 1])]

\* The levels that Below goes down.
LEMMA LevelsExist ==
  ASSUME NEW S
  PROVE  \E f : /\ Tree!Below(S) = f[MaxDirs] /\ f[0] = S
                /\ \A n \in 1 .. MaxDirs : f[n] = Nearer(f[n - 1])
  <1> DEFINE V == SUBSET (S \cup Tree!Dirs)
             f == CHOOSE g : Levels(g, S)
  <1>1. MaxDirs \in Nat
    BY TreeConstants
  <1>2. \E g : Levels(g, S)
    <2> DEFINE step == [p \in V \X (1 .. MaxDirs) |-> Nearer(p[1])]
    <2>1. \A q \in V : Nearer(q) \in V
      BY DEF Nearer
    <2>2. step \in [V \X (1 .. MaxDirs) -> V] /\ S \in V
      BY <2>1
    <2>3. \A q \in V, i \in 1 .. MaxDirs : step[<<q, i>>] = Nearer(q)
      OBVIOUS
    <2> HIDE DEF step, V
    <2>4. PICK g : Iterates(g, V, S, MaxDirs, step)
      BY <1>1, <2>2, RecursionOnInterval, Zenon
    <2>5. /\ g \in [0 .. MaxDirs -> V] /\ g[0] = S
          /\ \A i \in 1 .. MaxDirs : g[i] = Nearer(g[i - 1])
      <3>1. \A i \in 1 .. MaxDirs : i - 1 \in 0 .. MaxDirs
        BY <1>1
      <3> QED BY <2>3, <2>4, <3>1 DEF Iterates
    <2>6. Levels(g, S)
      <3> DEFINE e(i) == IF i = 0 THEN S ELSE Nearer(g[i - 1])
      <3>1. ASSUME NEW i \in 0 .. MaxDirs PROVE g[i] = e(i)
        <4>1. i = 0 \/ i \in 1 .. MaxDirs
          BY <1>1
        <4> QED BY <2>5, <4>1
      <3> HIDE DEF e
      <3>2. g = [i \in 0 .. MaxDirs |-> e(i)]
        BY <2>5, <3>1
      <3> QED BY <3>2 DEF e, Levels
    <2> QED BY <2>6
  <1>3. Levels(f, S)
    BY <1>2
  <1>4. Tree!Below(S) = f[MaxDirs]
    BY DEF Tree!Below, Levels, Nearer
  <1> HIDE DEF f
  <1>5. f[0] = S /\ \A n \in 1 .. MaxDirs : f[n] = Nearer(f[n - 1])
    <2> DEFINE e(n) == IF n = 0 THEN S ELSE Nearer(f[n - 1])
    <2>1. f = [n \in 0 .. MaxDirs |-> e(n)]
      BY <1>3 DEF Levels
    <2>2. e(0) = S /\ \A n \in 1 .. MaxDirs : e(n) = Nearer(f[n - 1])
      OBVIOUS
    <2> HIDE DEF e
    <2>3. 0 \in 0 .. MaxDirs /\ 1 .. MaxDirs \subseteq 0 .. MaxDirs
      BY <1>1
    <2>4. f[0] = e(0) /\ \A n \in 1 .. MaxDirs : f[n] = e(n)
      BY <2>1, <2>3
    <2> QED BY <2>2, <2>4
  <1> QED BY <1>4, <1>5

\* Below is what is below: no directory whose parent is in it is outside, and it
\* is the least such set.  As long as a level adds a directory there are more
\* than levels, and there are no more than MaxDirs.
LEMMA BelowIs ==
  ASSUME TreeShape, NEW S
  PROVE  /\ S \subseteq Tree!Below(S)
         /\ \A x \in Tree!Dirs : parent[x] \in Tree!Below(S) => x \in Tree!Below(S)
         /\ \A Z : S \subseteq Z /\ (\A x \in Tree!Dirs : parent[x] \in Z => x \in Z)
                     => Tree!Below(S) \subseteq Z
  <1>1. PICK f : /\ Tree!Below(S) = f[MaxDirs] /\ f[0] = S
                 /\ \A n \in 1 .. MaxDirs : f[n] = Nearer(f[n - 1])
    BY LevelsExist
  <1>2. MaxDirs \in Nat /\ dirs \in 0 .. MaxDirs /\ Tree!Dirs \subseteq 1 .. dirs
    BY TreeConstants DEF TreeShape
  <1>3. Tree!Dirs \subseteq 1 .. MaxDirs /\ IsFiniteSet(1 .. MaxDirs) /\ Cardinality(1 .. MaxDirs) = MaxDirs
    <2>1. Tree!Dirs \subseteq 1 .. MaxDirs /\ 1 \in Int /\ MaxDirs \in Int
      BY <1>2
    <2>2. IsFiniteSet(1 .. MaxDirs) /\ Cardinality(1 .. MaxDirs) = IF 1 > MaxDirs THEN 0 ELSE MaxDirs - 1 + 1
      BY <2>1, FS_Interval, Zenon
    <2>3. Cardinality(1 .. MaxDirs) = MaxDirs
      BY <1>2, <2>2
    <2> QED BY <2>1, <2>2, <2>3
  <1> DEFINE Many == {n \in 0 .. MaxDirs : n <= Cardinality(f[n] \cap Tree!Dirs)}
             Still == {n \in 0 .. MaxDirs : Nearer(f[n]) = f[n]}
             Holds == {n \in 0 .. MaxDirs : S \subseteq f[n]}
  <1>4. \A n : IsFiniteSet(f[n] \cap Tree!Dirs) /\ Cardinality(f[n] \cap Tree!Dirs) \in Nat
    <2>1. ASSUME NEW n PROVE IsFiniteSet(f[n] \cap Tree!Dirs)
      BY <1>3, FS_Subset
    <2> QED BY <2>1, FS_CardinalityType
  <1>5. MaxDirs \in Holds
    <2>1. 0 \in Holds
      BY <1>1, <1>2
    <2>2. ASSUME NEW k \in 1 .. MaxDirs, k - 1 \in Holds PROVE k \in Holds
      BY <1>1, <1>2, <2>2 DEF Nearer
    <2> HIDE DEF Holds
    <2> QED BY <1>2, <2>1, <2>2, StepByStep
  <1>6. MaxDirs \in Many \cup Still
    <2>1. 0 \in Many \cup Still
      <3>1. 0 \in 0 .. MaxDirs
        BY <1>2
      <3>2. Cardinality(f[0] \cap Tree!Dirs) \in Nat
        BY <1>4
      <3>3. 0 <= Cardinality(f[0] \cap Tree!Dirs)
        BY <3>2
      <3> QED BY <3>1, <3>3
    <2>2. ASSUME NEW k \in 1 .. MaxDirs, k - 1 \in Many \cup Still PROVE k \in Many \cup Still
      <3>1. k - 1 \in 0 .. MaxDirs /\ k \in 0 .. MaxDirs /\ f[k] = Nearer(f[k - 1])
        BY <1>1, <1>2
      <3>2. CASE Nearer(f[k - 1]) = f[k - 1]
        BY <3>1, <3>2
      <3>3. CASE Nearer(f[k - 1]) # f[k - 1]
        <4> DEFINE A == f[k - 1] \cap Tree!Dirs
                   B == f[k] \cap Tree!Dirs
        <4>1. PICK x \in Tree!Dirs : x \notin f[k - 1] /\ x \in f[k]
          BY <3>1, <3>3 DEF Nearer
        <4>2. A \cup {x} \subseteq B /\ x \notin A
          BY <3>1, <4>1 DEF Nearer
        <4>3. IsFiniteSet(A) /\ IsFiniteSet(B) /\ Cardinality(A) \in Nat /\ Cardinality(B) \in Nat
          BY <1>4
        <4>4. k - 1 <= Cardinality(A)
          BY <2>2, <3>3
        <4> HIDE DEF A, B
        <4>5. Cardinality(A \cup {x}) = Cardinality(A) + 1
          BY <4>2, <4>3, FS_AddElement
        <4>6. Cardinality(A \cup {x}) <= Cardinality(B)
          BY <4>2, <4>3, FS_Subset
        <4>7. k <= Cardinality(B)
          BY <1>2, <4>3, <4>4, <4>5, <4>6
        <4> QED BY <3>1, <4>7 DEF B
      <3> QED BY <3>2, <3>3
    <2> HIDE DEF Many, Still
    <2> QED BY <1>2, <2>1, <2>2, StepByStep
  <1>7. \A x \in Tree!Dirs : parent[x] \in f[MaxDirs] => x \in f[MaxDirs]
    <2>1. CASE MaxDirs \in Still
      BY <2>1 DEF Nearer
    <2>2. CASE MaxDirs \in Many
      <3> DEFINE B == f[MaxDirs] \cap Tree!Dirs
      <3>1. B \subseteq 1 .. MaxDirs /\ MaxDirs <= Cardinality(B) /\ Cardinality(B) \in Nat
        BY <1>3, <1>4, <2>2
      <3> HIDE DEF B
      <3>2. Cardinality(B) <= MaxDirs
        BY <1>3, <3>1, FS_Subset
      <3>3. Cardinality(1 .. MaxDirs) = Cardinality(B)
        BY <1>2, <1>3, <3>1, <3>2
      <3>4. B \in SUBSET (1 .. MaxDirs)
        BY <3>1
      <3>5. B = 1 .. MaxDirs
        BY <1>3, <3>3, <3>4, FS_Subset, Zenon
      <3> QED BY <1>3, <3>5 DEF B
    <2> QED BY <1>6, <2>1, <2>2
  <1>8. ASSUME NEW Z, S \subseteq Z, \A x \in Tree!Dirs : parent[x] \in Z => x \in Z
        PROVE  f[MaxDirs] \subseteq Z
    <2> DEFINE Inside == {n \in 0 .. MaxDirs : f[n] \subseteq Z}
    <2>1. 0 \in Inside
      BY <1>1, <1>2, <1>8
    <2>2. ASSUME NEW k \in 1 .. MaxDirs, k - 1 \in Inside PROVE k \in Inside
      <3>1. f[k] = Nearer(f[k - 1]) /\ f[k - 1] \subseteq Z /\ k \in 0 .. MaxDirs
        BY <1>1, <1>2, <2>2
      <3>2. f[k] \subseteq Z
        BY <1>8, <3>1, Zenon DEF Nearer
      <3> QED BY <3>1, <3>2
    <2>3. MaxDirs \in Inside
      <3> HIDE DEF Inside
      <3> QED BY <1>2, <2>1, <2>2, StepByStep
    <2> QED BY <2>3
  <1> QED BY <1>1, <1>5, <1>7, <1>8

\* A file is moved.
LEMMA TreePlaces ==
  ASSUME TreeGood, NEW h \in Requests, Tree!WritePlace(h)
  PROVE  TreeGood'
  <1> DEFINE w == walk[h]
  <1>1. /\ w.at = "place" /\ Tree!End(h) /\ UNCHANGED <<enforced, parent, dirs>>
        /\ place' = place \/ place' = [place EXCEPT ![w.file] = w.to]
    BY DEF Tree!WritePlace, Tree!rest
  <1>2. CASE place' = place
    BY <1>1, <1>2, TreeEnds
  <1>3. CASE place' = [place EXCEPT ![w.file] = w.to]
    <2>1. /\ \A g \in Requests : g # h => walk[g].at = "idle"
          /\ LeadUp(Tree!Dirs) /\ w.to \in Tree!Dirs \cup {0}
      BY <1>1, TreeAlone
    <2>2. /\ Tree!Dirs \subseteq 1 .. dirs /\ dirs \in Nat /\ Tree!Dirs' = Tree!Dirs
          /\ place \in [DOMAIN place -> 0 .. dirs]
      BY <1>1 DEF TreeGood, TreeShape, Tree!Dirs
    <2>3. /\ DOMAIN place' = DOMAIN place /\ place' \in [DOMAIN place -> 0 .. dirs]
          /\ \A f \in DOMAIN place : place'[f] = place[f] \/ place'[f] = w.to
      <3>1. w.to \in 0 .. dirs
        BY <2>1, <2>2
      <3> QED BY <1>3, <2>2, <3>1
    <2>4. FilesLed'
      <3>1. \A f \in DOMAIN place' : place'[f] \in Tree!Dirs' \cup {0}
        BY <2>1, <2>2, <2>3 DEF TreeGood, FilesLed
      <3>2. LeadUp(Tree!Dirs)'
        BY <1>1, <2>1, <2>2 DEF LeadUp
      <3> QED BY <3>1, <3>2, Zenon DEF FilesLed, LeadUp
    <2>5. /\ walk' \in [Requests -> TreeCalls] /\ OneAtWork'
          /\ \A g \in Requests : TreeCallOK(walk[g])'
      <3>1. walk' = [walk EXCEPT ![h] = Tree!Idle] /\ TreeCallOK(Tree!Idle)'
        BY <1>1, TreeIdle DEF Tree!End, Tree!Goto, TreeCallOK
      <3> QED BY <2>1, <3>1, TreeIdle, TreeGoes DEF TreeGood
    <2>6. TreeShape'
      BY <1>1, <2>2, <2>3, <2>5 DEF TreeGood, TreeShape
    <2>7. Acyclic'
      BY <1>1, <2>2 DEF TreeGood, Acyclic
    <2> QED BY <2>4, <2>5, <2>6, <2>7, Zenon DEF TreeGood
  <1> QED BY <1>1, <1>2, <1>3

\* A deletion finds its directory.
LEMMA TreeReads ==
  ASSUME TreeGood, NEW h \in Requests, Tree!ReadParent(h)
  PROVE  TreeGood'
  <1> DEFINE w == walk[h]
             r == [w EXCEPT !.at = "visit", !.to = parent[w.on], !.todo = {w.on}]
  <1>1. /\ w.at = "read" /\ UNCHANGED <<enforced, parent, place, dirs>>
        /\ w.on \in Tree!Dirs => walk' = [walk EXCEPT ![h] = r]
    BY DEF Tree!ReadParent, Tree!rest, Tree!Goto
  <1>2. /\ \A g \in Requests : g # h => walk[g].at = "idle"
        /\ w \in TreeCalls /\ TreeCallOK(w) /\ LeadUp(Tree!Dirs)
    BY <1>1, TreeAlone
  <1>3. w.on \in Tree!Dirs
    BY <1>1, <1>2, Zenon DEF TreeCallOK
  <1>4. parent[w.on] \in Tree!Dirs \cup {0} /\ parent[w.on] \in Nat /\ w.on \in Nat
    BY <1>2, <1>3 DEF TreeGood, TreeShape, LeadUp
  <1>5. /\ r \in TreeCalls /\ r.at = "visit" /\ r.on = w.on /\ r.to = parent[w.on]
        /\ r.todo = {w.on} /\ r.held = w.held
    BY <1>2, <1>4 DEF TreeCalls
  <1>6. w.held = {}
    BY <1>1, <1>2, Zenon DEF TreeCallOK
  <1> HIDE DEF r
  <1>7. VisitOK(r)
    <2>1. {} \in SUBSET Tree!Dirs
      OBVIOUS
    <2>2. /\ r.on \in Tree!Dirs /\ r.to = parent[r.on] /\ r.todo \subseteq Tree!Dirs
          /\ r.on \in {} \cup r.todo
          /\ \A d \in {} \cup r.todo : d = r.on \/ parent[d] \in {}
          /\ \A d \in Tree!Dirs : parent[d] \in {} => d \in {} \cup r.todo
          /\ r.held = {f \in DOMAIN place : place[f] \in {}}
      BY <1>3, <1>5, <1>6
    <2> QED BY <2>1, <2>2, Zenon DEF VisitOK
  <1>8. TreeCallOK(r)
    BY <1>2, <1>4, <1>5, <1>7 DEF TreeCallOK
  <1> QED BY <1>1, <1>2, <1>3, <1>5, <1>8, TreeCallGoes

\* One more directory of the subtree is visited.
LEMMA TreeVisits ==
  ASSUME TreeGood, NEW h \in Requests, NEW d \in walk[h].todo, Tree!Visit(h, d)
  PROVE  TreeGood'
  <1> DEFINE w == walk[h]
             in == {f \in DOMAIN place : place[f] = d}
             next == (w.todo \ {d}) \cup Tree!Children(d)
             r == [w EXCEPT !.todo = next, !.held = @ \cup in]
  <1>1. /\ w.at = "visit" /\ UNCHANGED <<enforced, parent, place, dirs>>
        /\ walk' = [walk EXCEPT ![h] = r]
    BY DEF Tree!Visit, Tree!rest, Tree!Goto, Tree!ToVisit
  <1>2. /\ \A g \in Requests : g # h => walk[g].at = "idle"
        /\ w \in TreeCalls /\ TreeCallOK(w) /\ LeadUp(Tree!Dirs) /\ w.to \in Tree!Dirs \cup {0}
    BY <1>1, TreeAlone
  <1>3. VisitOK(w)
    BY <1>1, <1>2, Zenon DEF TreeCallOK
  <1>4. PICK V \in SUBSET Tree!Dirs :
          /\ w.on \in Tree!Dirs /\ w.to = parent[w.on] /\ w.todo \subseteq Tree!Dirs
          /\ w.on \in V \cup w.todo
          /\ \A x \in V \cup w.todo : x = w.on \/ parent[x] \in V
          /\ \A x \in Tree!Dirs : parent[x] \in V => x \in V \cup w.todo
          /\ w.held = {f \in DOMAIN place : place[f] \in V}
    BY <1>3, Zenon DEF VisitOK
  <1>5. /\ next \in SUBSET Nat /\ in \in SUBSET Files /\ next \subseteq Tree!Dirs
        /\ \A x : x \in next <=> (x \in w.todo /\ x # d) \/ (x \in Tree!Dirs /\ parent[x] = d)
    BY <1>4 DEF TreeGood, TreeShape, Tree!Children
  <1> HIDE DEF next
  <1>6. /\ r \in TreeCalls /\ r.at = "visit" /\ r.on = w.on /\ r.to = w.to
        /\ r.todo = next /\ r.held = w.held \cup in
    <2> HIDE DEF in
    <2> QED BY <1>1, <1>2, <1>5 DEF TreeCalls
  <1> HIDE DEF r
  <1>7. VisitOK(r)
    <2> DEFINE W == V \cup {d}
    <2>1. W \in SUBSET Tree!Dirs
      BY <1>4
    <2>2. r.on \in W \cup r.todo /\ \A x \in W \cup r.todo : x = r.on \/ parent[x] \in W
      BY <1>4, <1>5, <1>6
    <2>3. \A x \in Tree!Dirs : parent[x] \in W => x \in W \cup r.todo
      BY <1>4, <1>5, <1>6
    <2>4. r.held = {f \in DOMAIN place : place[f] \in W}
      BY <1>4, <1>6
    <2>5. r.on \in Tree!Dirs /\ r.to = parent[r.on] /\ r.todo \subseteq Tree!Dirs
      BY <1>4, <1>5, <1>6
    <2> HIDE DEF W
    <2> QED BY <2>1, <2>2, <2>3, <2>4, <2>5, Zenon DEF VisitOK
  <1>8. TreeCallOK(r)
    BY <1>2, <1>6, <1>7 DEF TreeCallOK
  <1> QED BY <1>1, <1>2, <1>6, <1>8, TreeCallGoes

\* A deletion is committed: what it has visited is all there is below its
\* directory, and no file is left there.
LEMMA TreeCommits ==
  ASSUME TreeGood, NEW h \in Requests, Tree!CommitDelete(h)
  PROVE  TreeGood'
  <1> DEFINE w == walk[h]
             gone == IF enforced THEN Tree!Below({w.on}) \cap Tree!Dirs ELSE {w.on}
             target(f) == IF f \in w.held THEN w.to ELSE place[f]
             left == DOMAIN place \ (IF w.keep THEN {} ELSE w.held)
  <1>1. /\ w.at = "visit" /\ w.todo = {} /\ Tree!End(h) /\ UNCHANGED <<enforced, dirs>>
        /\ parent' = [d \in Tree!Dirs \ gone |-> parent[d]]
        /\ place' = [f \in left |-> IF enforced /\ target(f) \in gone THEN 0 ELSE target(f)]
    BY DEF Tree!CommitDelete, Tree!rest
  <1>2. /\ \A g \in Requests : g # h => walk[g].at = "idle"
        /\ w \in TreeCalls /\ TreeCallOK(w) /\ LeadUp(Tree!Dirs)
    BY <1>1, TreeAlone
  <1>3. VisitOK(w)
    BY <1>1, <1>2, Zenon DEF TreeCallOK
  <1>4. PICK V \in SUBSET Tree!Dirs :
          /\ w.on \in Tree!Dirs /\ w.to = parent[w.on] /\ w.todo \subseteq Tree!Dirs
          /\ w.on \in V \cup w.todo
          /\ \A x \in V \cup w.todo : x = w.on \/ parent[x] \in V
          /\ \A x \in Tree!Dirs : parent[x] \in V => x \in V \cup w.todo
          /\ w.held = {f \in DOMAIN place : place[f] \in V}
    BY <1>3, Zenon DEF VisitOK
  <1>5. /\ w.on \in V /\ \A x \in V : x = w.on \/ parent[x] \in V
        /\ \A x \in Tree!Dirs : parent[x] \in V => x \in V
    BY <1>1, <1>4
  <1>6. gone \subseteq V
    <2>1. Tree!Below({w.on}) \subseteq V
      <3>1. {w.on} \subseteq V
        BY <1>5
      <3> QED BY <1>5, <3>1, BelowIs DEF TreeGood
    <2> QED BY <1>5, <2>1
  <1>7. w.to \notin V /\ w.to \in Tree!Dirs \cup {0}
    <2>1. PICK x \in V : parent[x] \notin V
      BY <1>5 DEF TreeGood, Acyclic
    <2>2. x = w.on
      BY <1>5, <2>1
    <2> QED BY <1>2, <1>4, <2>1, <2>2 DEF LeadUp
  <1> HIDE DEF gone
  <1>8. /\ dirs \in Nat /\ Tree!Dirs \subseteq 1 .. dirs /\ parent \in [Tree!Dirs -> 0 .. dirs]
        /\ \A f \in DOMAIN place : place[f] \in Tree!Dirs \cup {0}
        /\ DOMAIN place \subseteq Files
    BY DEF TreeGood, TreeShape, FilesLed
  <1>9. /\ Tree!Dirs' = Tree!Dirs \ gone
        /\ \A d \in Tree!Dirs' : parent'[d] = parent[d] /\ parent[d] \in 0 .. dirs
    BY <1>1, <1>8 DEF Tree!Dirs
  <1>10. ASSUME NEW f \in left PROVE place'[f] \in (Tree!Dirs \ V) \cup {0}
    <2>1. place'[f] = 0 \/ place'[f] = target(f)
      BY <1>1
    <2>2. target(f) \in (Tree!Dirs \ V) \cup {0}
      <3>1. CASE f \in w.held
        BY <1>7, <3>1
      <3>2. CASE f \notin w.held
        BY <1>4, <1>8, <3>2
      <3> QED BY <3>1, <3>2
    <2> HIDE DEF target
    <2> QED BY <2>1, <2>2
  <1>11. DOMAIN place' = left /\ left \subseteq Files /\ place' = [f \in left |-> place'[f]]
    <2> DEFINE e(f) == IF enforced /\ target(f) \in gone THEN 0 ELSE target(f)
    <2>1. place' = [f \in left |-> e(f)]
      BY <1>1
    <2> HIDE DEF e
    <2>2. DOMAIN place' = left /\ place' = [f \in left |-> place'[f]]
      BY <2>1
    <2> QED BY <2>2, <1>8
  <1> HIDE DEF left, target
  <1>12. FilesLed'
    <2> DEFINE S == Tree!Dirs \ V
    <2>1. S \in SUBSET Tree!Dirs'
      BY <1>6, <1>9
    <2>2. \A d \in S : parent'[d] \in S \cup {0}
      <3>1. \A d \in S : d \in Tree!Dirs' /\ parent[d] \in Tree!Dirs \cup {0} /\ parent[d] \notin V
        BY <1>2, <1>5, <2>1 DEF LeadUp
      <3> QED BY <1>9, <3>1
    <2>3. \A f \in DOMAIN place' : place'[f] \in S \cup {0}
      BY <1>10, <1>11
    <2> HIDE DEF S
    <2> QED BY <2>1, <2>2, <2>3, Zenon DEF FilesLed, LeadUp
  <1>13. Acyclic'
    <2>1. ASSUME NEW S \in SUBSET Tree!Dirs', S # {} PROVE \E d \in S : parent'[d] \notin S
      <3>1. S \in SUBSET Tree!Dirs
        BY <1>9
      <3>2. PICK d \in S : parent[d] \notin S
        BY <2>1, <3>1 DEF TreeGood, Acyclic
      <3> QED BY <1>9, <3>2
    <2> QED BY <2>1 DEF Acyclic
  <1>14. /\ walk' \in [Requests -> TreeCalls] /\ OneAtWork'
         /\ \A g \in Requests : TreeCallOK(walk[g])'
    <2>1. walk' = [walk EXCEPT ![h] = Tree!Idle] /\ TreeCallOK(Tree!Idle)'
      BY <1>1, TreeIdle DEF Tree!End, Tree!Goto, TreeCallOK
    <2> QED BY <1>2, <2>1, TreeIdle, TreeGoes DEF TreeGood
  <1>15. TreeShape'
    <2>1. parent' \in [Tree!Dirs' -> 0 .. dirs'] /\ Tree!Dirs' \subseteq 1 .. dirs'
      <3>1. \A d \in Tree!Dirs' : parent'[d] \in 0 .. dirs
        BY <1>9
      <3>2. parent' = [d \in Tree!Dirs' |-> parent'[d]]
        BY <1>1 DEF Tree!Dirs
      <3> QED BY <1>1, <1>8, <1>9, <3>1, <3>2
    <2>2. place' \in [DOMAIN place' -> 0 .. dirs']
      <3>1. \A f \in DOMAIN place' : place'[f] \in 0 .. dirs
        BY <1>8, <1>10, <1>11
      <3>2. place' = [f \in DOMAIN place' |-> place'[f]]
        BY <1>11
      <3> QED BY <1>1, <3>1, <3>2
    <2> QED BY <1>1, <1>11, <1>14, <2>1, <2>2 DEF TreeGood, TreeShape
  <1> QED BY <1>12, <1>13, <1>14, <1>15, Zenon DEF TreeGood

\* The directories of a knowledge base without any.
LEMMA TreeInit == Tree!Init => TreeInv
  <1> SUFFICES ASSUME Tree!Init PROVE TreeGood
    BY DEF TreeInv
  <1> USE DEF Tree!Init
  <1>1. Tree!Dirs = {}
    BY DEF Tree!Dirs
  <1>2. TreeShape
    <2>1. parent \in [{} -> 0 .. dirs]
      OBVIOUS
    <2>2. walk \in [Requests -> TreeCalls]
      BY TreeIdle
    <2> QED BY TreeConstants, <1>1, <2>1, <2>2 DEF TreeShape
  <1>3. Acyclic /\ FilesLed
    BY <1>1 DEF Acyclic, FilesLed, LeadUp
  <1>4. OneAtWork /\ \A h \in Requests : TreeCallOK(walk[h])
    BY TreeIdle DEF OneAtWork, TreeCallOK
  <1> QED BY <1>2, <1>3, <1>4 DEF TreeGood

\* Every step of the requests about directories.
LEMMA TreeNext == TreeInv /\ [Tree!Next]_tree => TreeInv'
  <1> SUFFICES ASSUME TreeInv, [Tree!Next]_tree PROVE TreeInv'
    OBVIOUS
  <1>1. upset => upset'
    BY DEF Tree!Next, Tree!Create, Tree!Counted, Tree!Move, Tree!MoveFile, Tree!Delete,
       Tree!Start, Tree!Walk, Tree!WriteParent, Tree!WritePlace, Tree!ReadParent, Tree!Visit,
       Tree!CommitDelete, Tree!rest, tree
  <1>2. CASE TreeGood /\ ~upset'
    <2>1. CASE UNCHANGED tree
      <3>1. UNCHANGED <<enforced, parent, place, walk, dirs>>
        BY <2>1 DEF tree
      <3>2. Tree!Dirs' = Tree!Dirs
        BY <3>1 DEF Tree!Dirs
      <3>3. TreeShape' /\ OneAtWork' /\ Acyclic' /\ FilesLed'
        BY <1>2, <3>1, <3>2 DEF TreeGood, TreeShape, OneAtWork, Acyclic, FilesLed, LeadUp
      <3>4. ASSUME NEW h \in Requests PROVE TreeCallOK(walk[h])'
        <4>1. TreeCallOK(walk[h])
          BY <1>2 DEF TreeGood
        <4>2. PICK r : r = walk[h] /\ r = walk'[h] /\ TreeCallOK(r)
          BY <3>1, <4>1
        <4>3. TreeCallOK(r)'
          BY <3>1, <4>2, TreeCallStays
        <4> QED BY <4>2, <4>3, Zenon
      <3> QED BY <3>3, <3>4, Zenon DEF TreeGood, TreeInv
    <2>2. CASE \E p \in 0 .. dirs : Tree!Create(p)
      BY <1>2, <2>2, TreeCreates DEF TreeInv
    <2>3. ASSUME NEW h \in Requests,
                 \/ \E d \in Tree!Dirs, p \in 0 .. dirs : Tree!Move(h, d, p)
                 \/ \E d \in Tree!Dirs, keep \in BOOLEAN : Tree!Delete(h, d, keep)
                 \/ \E f \in DOMAIN place, p \in 0 .. dirs : Tree!MoveFile(h, f, p)
          PROVE  TreeInv'
      BY <1>2, <2>3, TreeRequests DEF TreeInv
    <2>4. ASSUME NEW h \in Requests,
                 \/ Tree!Walk(h) \/ Tree!WriteParent(h) \/ Tree!WritePlace(h) \/ Tree!ReadParent(h)
                 \/ \E d \in walk[h].todo : Tree!Visit(h, d)
                 \/ Tree!CommitDelete(h)
          PROVE  TreeInv'
      BY <1>2, <2>4, TreeWalks, TreeWrites, TreePlaces, TreeReads, TreeVisits, TreeCommits
         DEF TreeInv
    <2> QED BY <2>1, <2>2, <2>3, <2>4, Zenon DEF Tree!Next
  <1> QED BY <1>1, <1>2, Zenon DEF TreeInv

\* What the invariant says of the directories and of the files in them.
LEMMA TreeInOrder == TreeInv => Tree!DirectoriesInOrder
  <1> SUFFICES ASSUME TreeGood
               PROVE  Tree!NoCycle /\ \A f \in DOMAIN place : place[f] \in Tree!Below({0})
    BY DEF TreeInv, Tree!DirectoriesInOrder
  <1>1. /\ TreeShape /\ dirs \in Nat /\ Tree!Dirs \subseteq 1 .. dirs
        /\ \A d \in Tree!Dirs : parent[d] \in 0 .. dirs
    BY DEF TreeGood, TreeShape
  <1>2. Tree!NoCycle
    <2> DEFINE S == {0} \cup {x \in 1 .. dirs : x \notin Tree!Dirs}
               B == Tree!Below(S)
               T == Tree!Dirs \ B
    <2>1. S \subseteq B /\ \A x \in Tree!Dirs : parent[x] \in B => x \in B
      BY <1>1, BelowIs
    <2> HIDE DEF B
    <2>2. T = {}
      <3> SUFFICES ASSUME T # {} PROVE FALSE
        OBVIOUS
      <3>1. PICK d \in T : parent[d] \notin T
        BY DEF TreeGood, Acyclic
      <3>2. parent[d] \in S \/ parent[d] \in Tree!Dirs
        BY <1>1, <3>1
      <3> QED BY <2>1, <3>1, <3>2
    <2> QED BY <2>2, Zenon DEF B, Tree!NoCycle
  <1>3. ASSUME NEW f \in DOMAIN place PROVE place[f] \in Tree!Below({0})
    <2> DEFINE B == Tree!Below({0})
    <2>1. 0 \in B /\ \A x \in Tree!Dirs : parent[x] \in B => x \in B
      BY <1>1, BelowIs
    <2> HIDE DEF B
    <2>2. PICK S \in SUBSET Tree!Dirs : /\ \A d \in S : parent[d] \in S \cup {0}
                                        /\ place[f] \in S \cup {0}
      BY DEF TreeGood, FilesLed, LeadUp
    <2>3. S \ B = {}
      <3> SUFFICES ASSUME S \ B # {} PROVE FALSE
        OBVIOUS
      <3>1. PICK d \in S \ B : parent[d] \notin S \ B
        BY DEF TreeGood, Acyclic
      <3> QED BY <2>1, <2>2, <3>1
    <2> QED BY <2>1, <2>2, <2>3 DEF B
  <1> QED BY <1>2, <1>3

\* As long as requests run one after the other and name directories that are
\* there, no directory is moved below itself, on either database, and each file
\* is in a directory that leads up to the root, also when a directory above it
\* is deleted and, on SQLite, those below that stay
\* (models/knowledge.py:970-1001, 1022-1088).
THEOREM DirectoriesAreInOrder == MCSpec => []DirectoriesInOrder
  <1>1. MCInit => TreeInv
    BY TreeInit DEF MCInit
  <1>2. TreeInv /\ [MCNext]_<<part, vars, branch, turn, register, tokens, limiter, tree, index,
                              memories>> => TreeInv'
    BY TreeNext DEF MCNext
  <1>3. TreeInv => DirectoriesInOrder
    BY TreeInOrder DEF DirectoriesInOrder, Of
  <1> QED BY <1>1, <1>2, <1>3, PTL DEF MCSpec
=============================================================================
