---------------------------- MODULE SocketProofs ----------------------------
(***************************************************************************)
(* What holds of a document for any number of editors, edits, connections  *)
(* and departures, any threshold of the compaction, in one process and     *)
(* with Redis.  Everything rests on one inductive invariant: what each     *)
(* waiting handler knows of the state that others change meanwhile.  Then  *)
(* what holds of the session pool and of the shared list of models, for    *)
(* any numbers of instances, sessions, models, refreshes and crashes, of   *)
(* the caches of plugins, and of all that sessions and instances share.    *)
(***************************************************************************)
EXTENDS MCSocket, SequenceTheorems, FiniteSetTheorems, TLAPS

\* A connection has one number; a handler never bears one that comes later.
SidsKnown ==
    /\ \A s \in room : s[2] <= conns[s[1]]
    /\ \A j \in jobs : j.sid[2] <= conns[j.sid[1]]

\* Without Redis the compaction is part of the push, and the document is
\* cleared before any other handler runs.
OneProcess ==
    ~shared =>
        /\ ~raced
        /\ \A j \in jobs : j.pc \notin {"llen", "replace"}
        /\ \A j \in jobs : j.pc \in {"clear", "drop"} => users = {}

\* Sessions are removed only once an editor has left.
Departed == departures = 0 => \A j \in jobs : j.pc \in JoinSteps \cup UpdateSteps

\* What an editor sends is in its own document.
OwnEdits ==
    \A j \in jobs :
        open[j.sid[1]] /\ Sid(j.sid[1]) = j.sid => j.edits \subseteq doc[j.sid[1]]

\* Where the edits of the log can be for an editor in the room: its join has
\* still to read them, it has them, they are in its mail, or underway.
Mailed(c) == UNION {m.edits : m \in mail[c]}

Reading(c) == \E j \in jobs : j.sid = Sid(c) /\ j.pc = "state"

Reached ==
    \A c \in Editors :
        ~raced /\ online[c] /\ open[c] /\ Sid(c) \in room
            => Reading(c) \/ Content(log) \subseteq doc[c] \cup Underway \cup Mailed(c)

\* c has been told that it is alone, or the stored text it put in is about.
Seeder(c) ==
    \/ \E m \in mail[c] : m.alone
    \/ \E j \in jobs : j.alone /\ j.sid[1] = c
    \/ \E j \in jobs : <<c, 0>> \in j.edits
    \/ <<c, 0>> \in Content(log)
    \/ \E d \in Editors : <<c, 0>> \in doc[d] \cup Mailed(d)

\* In one process there is one such editor, and it is in the room.
OneSeeder ==
    ~shared /\ departures = 0 =>
        /\ \A c \in Editors : Seeder(c) => \E s \in room : s[1] = c
        /\ \A c, d \in Editors : Seeder(c) /\ Seeder(d) => c = d

IInv ==
    /\ TypeOK /\ SidsKnown /\ OneProcess /\ Departed /\ OwnEdits
    /\ Reached /\ OneSeeder /\ SaveIsDue

-----------------------------------------------------------------------------
(* Lemmas about logs.                                                      *)

LEMMA ContentIn ==
  ASSUME NEW l \in Seq(Updates), NEW e
  PROVE  e \in Content(l) <=> \E i \in 1..Len(l) : e \in l[i]
  BY DEF Content, ToSet

LEMMA ContentTyped ==
  ASSUME NEW l \in Seq(Updates)
  PROVE  Content(l) \in Updates
  <1>1. \A i \in 1..Len(l) : l[i] \in Updates
    BY ElementOfSeq
  <1> QED BY <1>1, ContentIn DEF Updates

LEMMA ContentOfEmpty == Content(<<>>) = {}
  BY DEF Content, ToSet

LEMMA ContentOfAppend ==
  ASSUME NEW l \in Seq(Updates), NEW u \in Updates
  PROVE  /\ Append(l, u) \in Seq(Updates)
         /\ Content(Append(l, u)) = Content(l) \cup u
  <1> DEFINE longer == Append(l, u)
  <1>1. longer \in Seq(Updates) /\ Len(longer) = Len(l) + 1
        /\ (\A i \in 1..Len(l) : longer[i] = l[i]) /\ longer[Len(l) + 1] = u
    BY AppendProperties
  <1>2. Len(l) \in Nat
    BY LenProperties
  <1> HIDE DEF longer
  <1>3. ASSUME NEW e PROVE e \in Content(longer) <=> e \in Content(l) \cup u
    <2>1. e \in Content(longer) <=> \E i \in 1..Len(l) + 1 : e \in longer[i]
      BY <1>1, ContentIn
    <2>2. (\E i \in 1..Len(l) + 1 : e \in longer[i]) <=> (\E i \in 1..Len(l) : e \in l[i]) \/ e \in u
      BY <1>1, <1>2
    <2> QED BY <2>1, <2>2, ContentIn
  <1> QED BY <1>1, <1>3 DEF longer

\* Squashing the older half into one update loses nothing and adds nothing.
LEMMA ContentOfCompacted ==
  ASSUME NEW l \in Seq(Updates)
  PROVE  /\ Compacted(l) \in Seq(Updates)
         /\ Content(Compacted(l)) = Content(l)
  <1> DEFINE n == Len(l)
             m == Len(l) \div 2
             older == SubSeq(l, 1, m)
             newer == SubSeq(l, m + 1, n)
             squashed == Content(older)
             both == <<squashed>> \o newer
  <1>1. n \in Nat /\ m \in Nat /\ m <= n
    BY LenProperties
  <1>2. \A i \in 1..n : l[i] \in Updates
    BY ElementOfSeq
  <1>3. older \in Seq(Updates) /\ Len(older) = m /\ \A i \in 1..m : older[i] = l[i]
    <2>1. \A i \in 1..m : l[i] \in Updates
      BY <1>1, <1>2
    <2> HIDE DEF m
    <2>2. /\ SubSeq(l, 1, m) \in Seq(Updates)
          /\ Len(SubSeq(l, 1, m)) = IF 1 <= m THEN m - 1 + 1 ELSE 0
          /\ \A i \in 1..m - 1 + 1 : SubSeq(l, 1, m)[i] = l[1 + i - 1]
      BY <2>1, <1>1, SubSeqProperties
    <2> QED BY <2>2, <1>1
  <1>4. newer \in Seq(Updates) /\ Len(newer) = n - m /\ \A i \in 1..n - m : newer[i] = l[m + i]
    <2>1. \A i \in m + 1..n : l[i] \in Updates
      BY <1>1, <1>2
    <2> HIDE DEF m, n
    <2>2. /\ SubSeq(l, m + 1, n) \in Seq(Updates)
          /\ Len(SubSeq(l, m + 1, n)) = IF m + 1 <= n THEN n - (m + 1) + 1 ELSE 0
          /\ \A i \in 1..n - (m + 1) + 1 : SubSeq(l, m + 1, n)[i] = l[m + 1 + i - 1]
      BY <2>1, <1>1, SubSeqProperties
    <2> QED BY <2>2, <1>1
  <1> HIDE DEF m, older, newer
  <1>5. squashed \in Updates
    BY <1>3, ContentTyped
  <1> HIDE DEF squashed
  <1>6. <<squashed>> \in Seq(Updates) /\ Len(<<squashed>>) = 1 /\ <<squashed>>[1] = squashed
    BY <1>5
  <1>7. both \in Seq(Updates) /\ Len(both) = 1 + (n - m)
        /\ \A i \in 1..1 + (n - m) : both[i] = IF i <= 1 THEN squashed ELSE newer[i - 1]
    <2> DEFINE one == <<squashed>>
    <2>1. one \in Seq(Updates) /\ Len(one) = 1 /\ one[1] = squashed
      BY <1>6
    <2> HIDE DEF one
    <2>2. /\ one \o newer \in Seq(Updates)
          /\ Len(one \o newer) = Len(one) + Len(newer)
          /\ \A i \in 1..Len(one) + Len(newer) :
                (one \o newer)[i] = IF i <= Len(one) THEN one[i] ELSE newer[i - Len(one)]
      BY <2>1, <1>4, ConcatProperties
    <2>3. both = one \o newer
      BY DEF one
    <2> HIDE DEF both
    <2> QED BY <2>1, <2>2, <2>3, <1>1, <1>4
  <1>8. Compacted(l) = both
    BY DEF Compacted, squashed, older, newer, m
  <1> HIDE DEF both, n
  <1>9. ASSUME NEW e PROVE e \in Content(both) <=> e \in Content(l)
    <2>1. e \in squashed <=> \E i \in 1..m : e \in l[i]
      BY <1>3, ContentIn DEF squashed
    <2>2. e \in Content(both) <=> \E i \in 1..1 + (n - m) : e \in both[i]
      BY <1>7, ContentIn
    <2>3. e \in Content(l) <=> \E i \in 1..n : e \in l[i]
      BY ContentIn DEF n
    <2>4. ASSUME NEW i \in 1..n, e \in l[i] PROVE e \in Content(both)
      <3>1. CASE i <= m
        <4>1. e \in squashed /\ 1 \in 1..1 + (n - m) /\ both[1] = squashed
          BY <3>1, <2>1, <2>4, <1>1, <1>7
        <4> QED BY <4>1, <2>2
      <3>2. CASE i > m
        <4>1. i - m \in 1..n - m /\ i - m + 1 \in 1..1 + (n - m) /\ m + (i - m) = i
          BY <3>2, <1>1
        <4>2. both[i - m + 1] = newer[i - m] /\ newer[i - m] = l[i]
          BY <4>1, <3>2, <1>1, <1>4, <1>7
        <4> QED BY <4>1, <4>2, <2>2, <2>4
      <3> QED BY <3>1, <3>2, <1>1
    <2>5. ASSUME NEW i \in 1..1 + (n - m), e \in both[i] PROVE e \in Content(l)
      <3>1. CASE i = 1
        <4>1. e \in squashed
          BY <3>1, <2>5, <1>7, <1>1
        <4> QED BY <4>1, <2>1, <2>3, <1>1
      <3>2. CASE i > 1
        <4>1. i - 1 \in 1..n - m /\ m + (i - 1) \in 1..n
          BY <3>2, <1>1
        <4>2. both[i] = l[m + (i - 1)]
          BY <4>1, <3>2, <1>1, <1>4, <1>7
        <4> QED BY <4>1, <4>2, <2>3, <2>5
      <3> QED BY <3>1, <3>2, <1>1
    <2> QED BY <2>2, <2>3, <2>4, <2>5
  <1> QED BY <1>7, <1>8, <1>9

-----------------------------------------------------------------------------
(* Lemmas about handlers.                                                  *)

\* k is j at another await.
Carries(j, k, pc) ==
    /\ k \in Jobs
    /\ k.sid = j.sid /\ k.pc = pc /\ k.edits = j.edits /\ k.data = j.data

LEMMA JobFields ==
  ASSUME NEW j \in Jobs
  PROVE  /\ j.sid \in Sids /\ j.pc \in Steps /\ j.edits \in Updates /\ j.data \in BOOLEAN
         /\ j.seen \in Seq(Updates) /\ j.alone \in BOOLEAN
  BY DEF Jobs

LEMMA JobGoes ==
  ASSUME NEW j \in Jobs, NEW pc \in Steps
  PROVE  /\ Carries(j, [j EXCEPT !.pc = pc], pc)
         /\ [j EXCEPT !.pc = pc].alone = j.alone
  BY DEF Jobs, Carries

LEMMA JobEnters ==
  ASSUME NEW j \in Jobs, NEW pc \in Steps, NEW alone \in BOOLEAN
  PROVE  /\ Carries(j, [j EXCEPT !.pc = pc, !.alone = alone], pc)
         /\ [j EXCEPT !.pc = pc, !.alone = alone].alone = alone
  BY DEF Jobs, Carries

LEMMA JobReads ==
  ASSUME NEW j \in Jobs, NEW pc \in Steps, NEW seen \in Seq(Updates)
  PROVE  /\ Carries(j, [j EXCEPT !.pc = pc, !.seen = seen], pc)
         /\ [j EXCEPT !.pc = pc, !.seen = seen].alone = j.alone
  BY DEF Jobs, Carries

-----------------------------------------------------------------------------
(* The handlers that neither push nor send: what they change is who is in  *)
(* the document.                                                           *)

Passive == {"join", "add", "index", "enter", "update", "stop"} \cup LeaveSteps \cup DisconnectSteps

\* What such a handler j may change.
Frame(j) ==
    /\ j.pc \in Passive
    /\ pool' \subseteq Sids /\ users' \subseteq Sids /\ index' \subseteq Sids
    /\ room' \subseteq room /\ (j.pc \in JoinSteps \cup UpdateSteps => room' = room)
    /\ ~shared => users' \subseteq users \/ \A k \in jobs \ {j} : k.pc \notin Uninterrupted
    /\ UNCHANGED <<shared, log, note, editor>>

\* It goes on as the one in K, or ends.
Continues(j, K) ==
    /\ jobs' = (jobs \ {j}) \cup K
    /\ \A k \in K :
          /\ Carries(j, k, k.pc) /\ k.alone = j.alone /\ k.pc \in Passive
          /\ j.pc \in JoinSteps \cup UpdateSteps => k.pc \in JoinSteps \cup UpdateSteps
          /\ ~shared /\ k.pc \in {"clear", "drop"} => users' = {}

Quiet(j, K) == Frame(j) /\ Continues(j, K)

LEMMA QuietKeeps ==
  ASSUME IInv, NEW j \in jobs, NEW K, Quiet(j, K)
  PROVE  IInv'
  <1>1. TypeOK'
    <2>1. jobs' \subseteq Jobs
      BY DEF IInv, TypeOK, Quiet, Frame, Continues, Carries
    <2> QED BY <2>1 DEF IInv, TypeOK, Quiet, Frame, Continues, note, editor
  <1>2. SidsKnown'
    BY DEF IInv, SidsKnown, Quiet, Frame, Continues, Carries, editor
  <1>3. OneProcess'
    <2> SUFFICES ASSUME ~shared'
                 PROVE  /\ ~raced'
                        /\ \A k \in jobs' : k.pc \notin {"llen", "replace"}
                        /\ \A k \in jobs' : k.pc \in {"clear", "drop"} => users' = {}
      BY DEF OneProcess
    <2>1. ~raced /\ ~raced' /\ ~shared
      BY DEF IInv, OneProcess, Quiet, Frame, Continues, note
    <2>2. ASSUME NEW k \in jobs' PROVE k.pc \notin {"llen", "replace"}
      BY <2>1, <2>2 DEF IInv, OneProcess, Quiet, Frame, Continues, Passive, LeaveSteps, DisconnectSteps
    <2>3. ASSUME NEW k \in jobs', k.pc \in {"clear", "drop"} PROVE users' = {}
      BY <2>1, <2>3 DEF IInv, OneProcess, Quiet, Frame, Continues, Uninterrupted, DisconnectSteps
    <2> QED BY <2>1, <2>2, <2>3
  <1>4. Departed'
    BY DEF IInv, Departed, Quiet, Frame, Continues, editor
  <1>5. OwnEdits'
    <2>1. \A k \in jobs' : \E i \in jobs : k.sid = i.sid /\ k.edits = i.edits
      BY DEF Quiet, Frame, Continues, Carries
    <2> QED BY <2>1 DEF IInv, OwnEdits, Quiet, Frame, Continues, Sid, editor
  <1>6. Underway' = Underway
    <2>1. {k \in jobs' : k.pc \in {"llen", "replace", "emit"}} = {k \in jobs : k.pc \in {"llen", "replace", "emit"}}
      BY DEF Quiet, Frame, Continues, Passive, LeaveSteps, DisconnectSteps
    <2> QED BY <2>1 DEF Underway
  <1>7. Reached'
    <2> SUFFICES ASSUME NEW c \in Editors, (~raced /\ online[c] /\ open[c] /\ Sid(c) \in room)'
                 PROVE  (Reading(c) \/ Content(log) \subseteq doc[c] \cup Underway \cup Mailed(c))'
      BY DEF Reached
    <2>1. Reading(c) \/ Content(log) \subseteq doc[c] \cup Underway \cup Mailed(c)
      BY DEF IInv, Reached, Quiet, Frame, Continues, Sid, note, editor
    <2>2. Reading(c) => Reading(c)'
      BY DEF Reading, Quiet, Frame, Continues, Passive, LeaveSteps, DisconnectSteps, Sid, editor
    <2>3. (Content(log))' = Content(log) /\ Mailed(c)' = Mailed(c) /\ doc' = doc
      BY DEF Quiet, Frame, Continues, Content, Mailed, editor
    <2> QED BY <2>1, <2>2, <2>3, <1>6
  <1>8. OneSeeder'
    <2> SUFFICES ASSUME ~shared', departures' = 0
                 PROVE  (/\ \A c \in Editors : Seeder(c) => \E s \in room : s[1] = c
                         /\ \A c, d \in Editors : Seeder(c) /\ Seeder(d) => c = d)'
      BY DEF OneSeeder
    <2>1. ~shared /\ departures = 0
      BY DEF Quiet, Frame, Continues, editor
    <2>2. room' = room
      BY <2>1 DEF IInv, Departed, Quiet, Frame, Continues
    <2>3. ASSUME NEW c \in Editors, Seeder(c)' PROVE Seeder(c)
      <3>1. \A k \in jobs' : \E i \in jobs : k.sid = i.sid /\ k.edits = i.edits /\ k.alone = i.alone
        BY DEF Quiet, Frame, Continues, Carries
      <3>2. (Content(log))' = Content(log) /\ doc' = doc /\ mail' = mail
        BY DEF Quiet, Frame, Continues, Content, editor
      <3>3. \A d \in Editors : Mailed(d)' = Mailed(d)
        BY <3>2 DEF Mailed
      <3> QED BY <2>3, <3>1, <3>2, <3>3 DEF Seeder
    <2> QED BY <2>1, <2>2, <2>3 DEF IInv, OneSeeder
  <1>9. SaveIsDue'
    BY DEF IInv, SaveIsDue, UpdateSteps, Quiet, Frame, Continues, Passive, LeaveSteps, DisconnectSteps, note
  <1> QED BY <1>1, <1>2, <1>3, <1>4, <1>5, <1>7, <1>8, <1>9 DEF IInv

LEMMA QuietGoes ==
  ASSUME IInv, NEW j \in jobs, Frame(j), NEW pc \in Passive, Goes(j, pc),
         j.pc \in JoinSteps \cup UpdateSteps => pc \in JoinSteps \cup UpdateSteps,
         pc \in {"clear", "drop"} => users' = {}
  PROVE  IInv'
  <1> DEFINE k == [j EXCEPT !.pc = pc]
  <1>1. pc \in Steps
    BY DEF Passive, Steps, JoinSteps, UpdateSteps
  <1>2. Carries(j, k, pc) /\ k.alone = j.alone
    BY <1>1, JobGoes DEF IInv, TypeOK
  <1>3. jobs' = (jobs \ {j}) \cup {k}
    BY DEF Goes
  <1> HIDE DEF k
  <1>4. Quiet(j, {k})
    BY <1>2, <1>3 DEF Quiet, Continues, Carries
  <1> QED BY <1>4, QuietKeeps

LEMMA QuietEnds ==
  ASSUME IInv, NEW j \in jobs, Frame(j), Ends(j)
  PROVE  IInv'
  <1>1. Quiet(j, {})
    BY DEF Quiet, Continues, Ends
  <1> QED BY <1>1, QuietKeeps

\* The steps of ydoc_document_join before the room is entered, of a rejected
\* or accepted update, of yjs_document_leave and of disconnect.
LEMMA PassiveKeeps ==
  ASSUME IInv, NEW j \in jobs, UNCHANGED shared,
         \/ Join(j) \/ JoinAdd(j) \/ JoinIndex(j) \/ Update(j)
         \/ Leave(j) \/ LeaveIndex(j) \/ LeaveRoom(j) \/ LeaveCheck(j) \/ ClearUsers(j)
         \/ LoseSession(j) \/ FindDocument(j) \/ RemoveUser(j) \/ RemainingUsers(j) \/ Gone(j)
  PROVE  IInv'
  <1> USE DEF Passive, JoinSteps, UpdateSteps, LeaveSteps, DisconnectSteps
  <1>t. pool \subseteq Sids /\ users \subseteq Sids /\ index \subseteq Sids /\ j.sid \in Sids
    BY JobFields DEF IInv, TypeOK
  <1>1. CASE Join(j)
    <2>1. Frame(j)
      BY <1>1, <1>t DEF Join, At, Frame, session
    <2>2. Goes(j, "add") \/ Ends(j)
      BY <1>1 DEF Join
    <2> QED BY <1>1, <2>1, <2>2, QuietGoes, QuietEnds
  <1>2. CASE JoinAdd(j)
    <2>1. Frame(j)
      BY <1>2, <1>t DEF JoinAdd, At, Frame
    <2> QED BY <1>2, <2>1, QuietGoes DEF JoinAdd
  <1>3. CASE JoinIndex(j)
    <2>1. Frame(j)
      BY <1>3, <1>t DEF JoinIndex, At, Frame
    <2> QED BY <1>3, <2>1, QuietGoes DEF JoinIndex
  <1>4. CASE Update(j)
    <2>1. Frame(j)
      BY <1>4, <1>t DEF Update, At, Frame, session
    <2>2. Goes(j, "stop") \/ Ends(j)
      BY <1>4 DEF Update
    <2> QED BY <2>1, <2>2, QuietGoes, QuietEnds
  <1>5. CASE Leave(j)
    <2>1. Frame(j)
      BY <1>5, <1>t DEF Leave, At, Frame
    <2>2. Goes(j, "unindex") \/ Ends(j)
      BY <1>5 DEF Leave
    <2>3. j.pc = "leave"
      BY <1>5 DEF Leave, At
    <2> QED BY <2>1, <2>2, <2>3, QuietGoes, QuietEnds
  <1>6. CASE LeaveIndex(j)
    <2>1. Frame(j) /\ j.pc = "unindex"
      BY <1>6, <1>t DEF LeaveIndex, At, Frame
    <2> QED BY <1>6, <2>1, QuietGoes DEF LeaveIndex
  <1>7. CASE LeaveRoom(j)
    <2>1. Frame(j) /\ j.pc = "unroom"
      BY <1>7, <1>t DEF LeaveRoom, At, Frame
    <2> QED BY <1>7, <2>1, QuietGoes DEF LeaveRoom
  <1>8. CASE LeaveCheck(j)
    <2>1. Frame(j) /\ j.pc = "check"
      BY <1>8, <1>t DEF LeaveCheck, At, Frame, session
    <2>2. (Goes(j, "clear") /\ users' = {}) \/ Ends(j)
      BY <1>8 DEF LeaveCheck, NobodyLeft, session
    <2> QED BY <2>1, <2>2, QuietGoes, QuietEnds
  <1>9. CASE ClearUsers(j)
    <2>1. Frame(j) /\ j.pc \in {"clear_users", "drop_users"}
      BY <1>9, <1>t DEF ClearUsers, At, Frame
    <2>2. Goes(j, "gone") \/ Ends(j)
      BY <1>9 DEF ClearUsers
    <2> QED BY <2>1, <2>2, QuietGoes, QuietEnds
  <1>10. CASE LoseSession(j)
    <2>1. Frame(j) /\ j.pc = "disconnect"
      BY <1>10, <1>t DEF LoseSession, At, Frame
    <2> QED BY <1>10, <2>1, QuietGoes DEF LoseSession
  <1>11. CASE FindDocument(j)
    <2>1. Frame(j) /\ j.pc = "documents"
      BY <1>11, <1>t DEF FindDocument, At, Frame, session
    <2>2. Goes(j, "remove") \/ Goes(j, "gone")
      BY <1>11 DEF FindDocument
    <2> QED BY <2>1, <2>2, QuietGoes
  <1>12. CASE RemoveUser(j)
    <2>1. Frame(j) /\ j.pc = "remove"
      BY <1>12, <1>t DEF RemoveUser, At, Frame
    <2> QED BY <1>12, <2>1, QuietGoes DEF RemoveUser
  <1>13. CASE RemainingUsers(j)
    <2>1. Frame(j) /\ j.pc = "remaining"
      BY <1>13, <1>t DEF RemainingUsers, At, Frame, session
    <2>2. (Goes(j, "drop") /\ users' = {}) \/ Goes(j, "gone")
      BY <1>13 DEF RemainingUsers, NobodyLeft, session
    <2> QED BY <2>1, <2>2, QuietGoes
  <1>14. CASE Gone(j)
    <2>1. Frame(j) /\ j.pc = "gone"
      BY <1>14, <1>t DEF Gone, At, Frame
    <2> QED BY <1>14, <2>1, QuietEnds DEF Gone
  <1> QED
    BY <1>1, <1>2, <1>3, <1>4, <1>5, <1>6, <1>7, <1>8, <1>9, <1>10, <1>11, <1>12, <1>13, <1>14

-----------------------------------------------------------------------------
(* Each of the other steps.                                                *)

LEMMA JoinEnterKeeps ==
  ASSUME IInv, NEW j \in jobs, UNCHANGED shared, JoinEnter(j)
  PROVE  IInv'
  <1> DEFINE here == {s \in room : shared => Instance[s[1]] = Instance[j.sid[1]]}
             told == here \subseteq {j.sid}
             k == [j EXCEPT !.pc = "state", !.alone = told]
  <1>j. j \in Jobs /\ j.pc = "enter" /\ j.sid \in Sids
    BY JobFields DEF IInv, TypeOK, JoinEnter, At
  <1>u. UNCHANGED <<shared, pool, users, index, log, note, editor>>
    BY DEF JoinEnter
  <1>k. Carries(j, k, "state") /\ k.alone = told
    <2>1. told \in BOOLEAN /\ "state" \in Steps
      BY DEF Steps, JoinSteps
    <2> HIDE DEF told
    <2> QED BY <1>j, <2>1, JobEnters
  <1>1. CASE Connected(j.sid)
    <2>1. room' = room \cup {j.sid} /\ jobs' = (jobs \ {j}) \cup {k}
      BY <1>1 DEF JoinEnter
    <2> HIDE DEF k
    <2>2. TypeOK'
      BY <1>j, <1>u, <1>k, <2>1 DEF IInv, TypeOK, Carries, note, editor
    <2>3. SidsKnown'
      BY <1>u, <1>k, <2>1 DEF IInv, SidsKnown, Carries, editor
    <2>4. OneProcess'
      BY <1>u, <1>k, <2>1 DEF IInv, OneProcess, Carries, note
    <2>5. Departed'
      BY <1>u, <1>k, <2>1 DEF IInv, Departed, Carries, JoinSteps, editor
    <2>6. OwnEdits'
      BY <1>u, <1>k, <2>1 DEF IInv, OwnEdits, Carries, Sid, editor
    <2>7. Reached'
      <3> SUFFICES ASSUME NEW c \in Editors, (~raced /\ online[c] /\ open[c] /\ Sid(c) \in room)'
                   PROVE  (Reading(c) \/ Content(log) \subseteq doc[c] \cup Underway \cup Mailed(c))'
        BY DEF Reached
      <3>1. CASE Sid(c) = j.sid
        BY <3>1, <1>u, <1>k, <2>1 DEF Reading, Carries, Sid, editor
      <3>2. CASE Sid(c) # j.sid
        <4>1. Reading(c) \/ Content(log) \subseteq doc[c] \cup Underway \cup Mailed(c)
          BY <3>2, <1>u, <2>1 DEF IInv, Reached, Sid, note, editor
        <4>2. Reading(c) => Reading(c)'
          BY <1>j, <1>u, <1>k, <2>1 DEF Reading, Carries, Sid, editor
        <4>3. Underway \subseteq Underway'
          BY <1>j, <2>1 DEF Underway
        <4>4. (Content(log))' = Content(log) /\ Mailed(c)' = Mailed(c) /\ doc' = doc
          BY <1>u DEF Content, Mailed, editor
        <4> QED BY <4>1, <4>2, <4>3, <4>4
      <3> QED BY <3>1, <3>2
    <2>8. OneSeeder'
      <3> SUFFICES ASSUME ~shared', departures' = 0
                   PROVE  (/\ \A c \in Editors : Seeder(c) => \E s \in room : s[1] = c
                           /\ \A c, d \in Editors : Seeder(c) /\ Seeder(d) => c = d)'
        BY DEF OneSeeder
      <3>1. ~shared /\ departures = 0 /\ here = room
        BY <1>u DEF editor
      <3>2. /\ \A c \in Editors : Seeder(c) => \E s \in room : s[1] = c
            /\ \A c, d \in Editors : Seeder(c) /\ Seeder(d) => c = d
        BY <3>1 DEF IInv, OneSeeder
      <3>3. ASSUME NEW c \in Editors, Seeder(c)'
            PROVE  Seeder(c) \/ (c = j.sid[1] /\ room \subseteq {j.sid})
        <4>1. (Content(log))' = Content(log) /\ doc' = doc /\ mail' = mail
          BY <1>u DEF Content, editor
        <4>2. \A d \in Editors : Mailed(d)' = Mailed(d)
          BY <4>1 DEF Mailed
        <4>3. \A i \in jobs' : i \in jobs \/ (i.sid = j.sid /\ i.edits = j.edits /\ i.alone = (room \subseteq {j.sid}))
          BY <1>k, <2>1, <3>1 DEF Carries
        <4> QED BY <3>3, <4>1, <4>2, <4>3 DEF Seeder
      <3>4. j.sid \in room' /\ room \subseteq room'
        BY <2>1
      <3> QED BY <3>2, <3>3, <3>4
    <2>9. SaveIsDue'
      BY <1>j, <1>u, <2>1 DEF IInv, SaveIsDue, UpdateSteps, note
    <2> QED BY <2>2, <2>3, <2>4, <2>5, <2>6, <2>7, <2>8, <2>9 DEF IInv
  <1>2. CASE ~Connected(j.sid)
    <2>1. room' = room /\ Ends(j)
      BY <1>2 DEF JoinEnter
    <2>2. Frame(j)
      BY <1>j, <1>u, <2>1 DEF IInv, TypeOK, Frame, Passive
    <2> QED BY <2>1, <2>2, QuietEnds
  <1> QED BY <1>1, <1>2

LEMMA JoinStateKeeps ==
  ASSUME IInv, NEW j \in jobs, UNCHANGED shared, JoinState(j)
  PROVE  IInv'
  <1> DEFINE c == j.sid[1]
             m == State(j)
  <1>j. j \in Jobs /\ j.pc = "state" /\ c \in Editors /\ j.alone \in BOOLEAN
    BY JobFields DEF IInv, TypeOK, JoinState, At, Sids
  <1>u. UNCHANGED <<shared, session, log, note, open, doc, online, conns, made, departures>>
    BY DEF JoinState
  <1>m. m \in States /\ m.edits = Content(log) /\ m.alone = j.alone
    BY <1>j, ContentTyped DEF IInv, TypeOK, State, States
  <1>1. jobs' = jobs \ {j}
    BY DEF JoinState, Ends
  <1>2. mail' = IF Connected(j.sid) /\ open[c] THEN [mail EXCEPT ![c] = @ \cup {m}] ELSE mail
    BY DEF JoinState
  <1> HIDE DEF c, m
  <1>3. /\ mail' \in [Editors -> SUBSET States]
        /\ \A d \in Editors : mail[d] \subseteq mail'[d] /\ mail'[d] \subseteq mail[d] \cup {m}
        /\ \A d \in Editors : m \in mail'[d] /\ m \notin mail[d] => d = c
        /\ Connected(j.sid) /\ open[c] => m \in mail'[c]
    BY <1>2, <1>j, <1>m DEF IInv, TypeOK
  <1>4. TypeOK'
    BY <1>1, <1>3, <1>u DEF IInv, TypeOK, session, note
  <1>5. SidsKnown' /\ OneProcess' /\ Departed' /\ OwnEdits'
    BY <1>1, <1>u DEF IInv, SidsKnown, OneProcess, Departed, OwnEdits, Sid, session, note
  <1>6. Underway' = Underway
    BY <1>1, <1>j DEF Underway
  <1>7. Reached'
    <2> SUFFICES ASSUME NEW d \in Editors, (~raced /\ online[d] /\ open[d] /\ Sid(d) \in room)'
                 PROVE  (Reading(d) \/ Content(log) \subseteq doc[d] \cup Underway \cup Mailed(d))'
      BY DEF Reached
    <2>1. Reading(d) \/ Content(log) \subseteq doc[d] \cup Underway \cup Mailed(d)
      BY <1>u DEF IInv, Reached, Sid, session, note
    <2>2. Mailed(d) \subseteq Mailed(d)' /\ (Content(log))' = Content(log) /\ doc' = doc
      BY <1>3, <1>u DEF Mailed, Content
    <2>3. CASE j.sid = Sid(d)
      <3>1. Connected(j.sid) /\ open[c] /\ c = d
        BY <2>3, <1>u DEF Connected, Sid, c
      <3>2. Content(log) \subseteq Mailed(d)'
        BY <3>1, <1>3, <1>m DEF Mailed
      <3> QED BY <3>2, <2>2
    <2>4. CASE j.sid # Sid(d)
      <3>1. Reading(d) => Reading(d)'
        BY <2>4, <1>1, <1>u DEF Reading, Sid
      <3> QED BY <3>1, <2>1, <2>2, <1>6
    <2> QED BY <2>3, <2>4
  <1>8. OneSeeder'
    <2> SUFFICES ASSUME ~shared', departures' = 0
                 PROVE  (/\ \A d \in Editors : Seeder(d) => \E s \in room : s[1] = d
                         /\ \A d, e \in Editors : Seeder(d) /\ Seeder(e) => d = e)'
      BY DEF OneSeeder
    <2>1. ~shared /\ departures = 0 /\ room' = room
      BY <1>u DEF session
    <2>2. ASSUME NEW d \in Editors, Seeder(d)' PROVE Seeder(d)
      <3>1. (Content(log))' = Content(log) /\ doc' = doc
        BY <1>u DEF Content
      <3>2. \A e \in Editors : Mailed(e)' \subseteq Mailed(e) \cup Content(log)
        BY <1>3, <1>m DEF Mailed
      <3>3. (\E n \in mail'[d] : n.alone) => Seeder(d)
        BY <1>3, <1>m DEF Seeder, c
      <3> QED BY <2>2, <3>1, <3>2, <3>3, <1>1 DEF Seeder
    <2> QED BY <2>1, <2>2 DEF IInv, OneSeeder
  <1>9. SaveIsDue'
    BY <1>j, <1>1, <1>u DEF IInv, SaveIsDue, UpdateSteps, note
  <1> QED BY <1>4, <1>5, <1>7, <1>8, <1>9 DEF IInv

\* An update goes on to its next await: nobody enters, leaves or receives.
Works(j, k) ==
    /\ Carries(j, k, k.pc) /\ k.alone = j.alone
    /\ jobs' = (jobs \ {j}) \cup {k}
    /\ j.pc \in {"stop", "push", "llen", "replace"} /\ k.pc \in {"push", "llen", "replace", "emit"}
    /\ j.pc \in {"llen", "replace"} => k.pc \in {"llen", "replace", "emit"}
    /\ ~shared => k.pc \notin {"llen", "replace"} /\ ~raced'
    /\ log' \in Seq(Updates)
    /\ saves' \subseteq Updates /\ unsaved' \in BOOLEAN /\ forgone' \in BOOLEAN /\ raced' \in BOOLEAN
    /\ ~raced' => ~raced
    /\ UNCHANGED <<shared, session, editor>>

LEMMA WorksKeeps ==
  ASSUME IInv, NEW j \in jobs, NEW k, Works(j, k)
  PROVE  /\ TypeOK' /\ SidsKnown' /\ OneProcess' /\ Departed' /\ OwnEdits'
         /\ Underway \subseteq Underway'
         /\ (~raced' => Content(log') \subseteq Content(log) \cup Underway') => Reached'
         /\ (~shared /\ departures = 0 => Content(log') \subseteq Content(log) \cup j.edits)
               => OneSeeder'
  <1> USE DEF Works, Carries
  <1>1. TypeOK'
    BY DEF IInv, TypeOK, session, editor
  <1>2. SidsKnown' /\ OwnEdits'
    BY DEF IInv, SidsKnown, OwnEdits, Sid, session, editor
  <1>3. OneProcess' /\ Departed'
    BY DEF IInv, OneProcess, Departed, UpdateSteps, session, editor
  <1>4. Underway \subseteq Underway'
    <2> SUFFICES ASSUME NEW i \in jobs, i.pc \in {"llen", "replace", "emit"}, NEW e \in i.edits
                 PROVE  e \in Underway'
      BY DEF Underway
    <2>1. CASE i = j
      BY <2>1 DEF Underway
    <2>2. CASE i # j
      BY <2>2 DEF Underway
    <2> QED BY <2>1, <2>2
  <1>5. ASSUME ~raced' => Content(log') \subseteq Content(log) \cup Underway' PROVE Reached'
    <2> SUFFICES ASSUME NEW c \in Editors, (~raced /\ online[c] /\ open[c] /\ Sid(c) \in room)'
                 PROVE  (Reading(c) \/ Content(log) \subseteq doc[c] \cup Underway \cup Mailed(c))'
      BY DEF Reached
    <2>1. Reading(c) \/ Content(log) \subseteq doc[c] \cup Underway \cup Mailed(c)
      BY DEF IInv, Reached, Sid, session, editor
    <2>2. Reading(c) => Reading(c)'
      BY DEF Reading, Sid, editor
    <2>3. (Content(log))' = Content(log') /\ Mailed(c)' = Mailed(c) /\ doc' = doc
      BY DEF Content, Mailed, editor
    <2> QED BY <2>1, <2>2, <2>3, <1>4, <1>5
  <1>6. ASSUME ~shared /\ departures = 0 => Content(log') \subseteq Content(log) \cup j.edits
        PROVE  OneSeeder'
    <2> SUFFICES ASSUME ~shared', departures' = 0
                 PROVE  (/\ \A c \in Editors : Seeder(c) => \E s \in room : s[1] = c
                         /\ \A c, d \in Editors : Seeder(c) /\ Seeder(d) => c = d)'
      BY DEF OneSeeder
    <2>1. ~shared /\ departures = 0 /\ room' = room
      BY DEF session, editor
    <2>2. ASSUME NEW c \in Editors, Seeder(c)' PROVE Seeder(c)
      <3>1. (Content(log))' \subseteq Content(log) \cup j.edits /\ doc' = doc /\ mail' = mail
        BY <1>6, <2>1 DEF Content, editor
      <3>2. \A d \in Editors : Mailed(d)' = Mailed(d)
        BY <3>1 DEF Mailed
      <3>3. \A i \in jobs' : \E g \in jobs : i.sid = g.sid /\ i.edits = g.edits /\ i.alone = g.alone
        OBVIOUS
      <3> QED BY <2>2, <3>1, <3>2, <3>3 DEF Seeder
    <2> QED BY <2>1, <2>2 DEF IInv, OneSeeder
  <1> QED BY <1>1, <1>2, <1>3, <1>4, <1>5, <1>6

LEMMA UpdateStopKeeps ==
  ASSUME IInv, NEW j \in jobs, UNCHANGED shared, UpdateStop(j)
  PROVE  IInv'
  <1> DEFINE k == [j EXCEPT !.pc = "push"]
  <1>j. j \in Jobs /\ j.pc = "stop" /\ j.data \in BOOLEAN
    BY JobFields DEF IInv, TypeOK, UpdateStop, At
  <1>k. Carries(j, k, "push") /\ k.alone = j.alone
    BY <1>j, JobGoes DEF Steps, UpdateSteps
  <1>u. UNCHANGED <<shared, session, log, unsaved, raced, editor>>
    BY DEF UpdateStop
  <1>1. jobs' = (jobs \ {j}) \cup {k}
    BY DEF UpdateStop, Goes
  <1> HIDE DEF k
  <1>2. saves' \subseteq saves /\ forgone' = (forgone \/ (unsaved /\ ~j.data))
    BY DEF UpdateStop, StopSaves
  <1>3. Works(j, k)
    BY <1>j, <1>k, <1>u, <1>1, <1>2 DEF Works, Carries, IInv, TypeOK, OneProcess
  <1>4. Content(log') = Content(log)
    BY <1>u
  <1>5. SaveIsDue'
    BY <1>j, <1>k, <1>u, <1>1, <1>2 DEF IInv, SaveIsDue, UpdateSteps, Carries
  <1> QED BY <1>3, <1>4, <1>5, WorksKeeps DEF IInv

LEMMA UpdatePushKeeps ==
  ASSUME IInv, NEW j \in jobs, UNCHANGED shared, UpdatePush(j)
  PROVE  IInv' /\ Content(log') = Content(log) \cup j.edits
  <1> DEFINE pc == IF shared THEN "llen" ELSE "emit"
             k == [j EXCEPT !.pc = pc]
             longer == Append(log, j.edits)
  <1>j. j \in Jobs /\ j.pc = "push" /\ j.data \in BOOLEAN /\ j.edits \in Updates
    BY JobFields DEF IInv, TypeOK, UpdatePush, At
  <1>k. Carries(j, k, pc) /\ k.alone = j.alone
    <2>1. pc \in Steps
      BY DEF Steps, UpdateSteps
    <2> HIDE DEF pc
    <2> QED BY <2>1, <1>j, JobGoes
  <1>u. UNCHANGED <<shared, session, saves, forgone, raced, editor>>
    BY DEF UpdatePush
  <1>1. jobs' = (jobs \ {j}) \cup {k} /\ unsaved' = (unsaved \/ j.data)
    BY DEF UpdatePush, Goes
  <1>2. log' = longer \/ log' = Compacted(longer)
    BY DEF UpdatePush
  <1>3. longer \in Seq(Updates) /\ Content(longer) = Content(log) \cup j.edits
    BY <1>j, ContentOfAppend DEF IInv, TypeOK
  <1> HIDE DEF longer, k
  <1>4. log' \in Seq(Updates) /\ Content(log') = Content(log) \cup j.edits
    BY <1>2, <1>3, ContentOfCompacted
  <1>5. Works(j, k)
    BY <1>j, <1>k, <1>u, <1>1, <1>4 DEF Works, Carries, IInv, TypeOK, OneProcess
  <1>6. j.edits \subseteq Underway'
    <2>1. k \in jobs' /\ k.pc \in {"llen", "replace", "emit"} /\ k.edits = j.edits
      BY <1>k, <1>1 DEF Carries
    <2> QED BY <2>1 DEF Underway
  <1>7. SaveIsDue'
    BY <1>j, <1>k, <1>u, <1>1 DEF IInv, SaveIsDue, UpdateSteps, Carries
  <1> QED BY <1>4, <1>5, <1>6, <1>7, WorksKeeps DEF IInv

LEMMA CompactReadKeeps ==
  ASSUME IInv, NEW j \in jobs, UNCHANGED shared, CompactRead(j)
  PROVE  IInv'
  <1>j. j \in Jobs /\ j.pc = "llen" /\ j.data \in BOOLEAN /\ shared /\ log \in Seq(Updates)
    BY JobFields DEF IInv, TypeOK, OneProcess, CompactRead, At
  <1>u. UNCHANGED <<shared, session, log, note, editor>>
    BY DEF CompactRead
  <1>1. PICK k : /\ jobs' = (jobs \ {j}) \cup {k} /\ k.alone = j.alone
                 /\ k.pc \in {"replace", "emit"} /\ Carries(j, k, k.pc)
    <2>1. CASE Len(log) >= Threshold
      <3> DEFINE k == [j EXCEPT !.pc = "replace", !.seen = log]
      <3>1. jobs' = (jobs \ {j}) \cup {k}
        BY <2>1 DEF CompactRead
      <3>2. Carries(j, k, "replace") /\ k.alone = j.alone
        BY <1>j, JobReads DEF Steps, UpdateSteps
      <3> HIDE DEF k
      <3> QED BY <3>1, <3>2 DEF Carries
    <2>2. CASE ~(Len(log) >= Threshold)
      <3> DEFINE k == [j EXCEPT !.pc = "emit"]
      <3>1. jobs' = (jobs \ {j}) \cup {k}
        BY <2>2 DEF CompactRead
      <3>2. Carries(j, k, "emit") /\ k.alone = j.alone
        BY <1>j, JobGoes DEF Steps, UpdateSteps
      <3> HIDE DEF k
      <3> QED BY <3>1, <3>2 DEF Carries
    <2> QED BY <2>1, <2>2
  <1>2. Works(j, k)
    BY <1>j, <1>u, <1>1 DEF Works, IInv, TypeOK, note
  <1>3. Content(log') = Content(log)
    BY <1>u
  <1>4. SaveIsDue'
    BY <1>j, <1>u, <1>1 DEF IInv, SaveIsDue, UpdateSteps, Carries, note
  <1> QED BY <1>2, <1>3, <1>4, WorksKeeps DEF IInv

LEMMA CompactReplaceKeeps ==
  ASSUME IInv, NEW j \in jobs, UNCHANGED shared, CompactReplace(j)
  PROVE  IInv' /\ (~raced' => Content(log') = Content(log))
  <1> DEFINE k == [j EXCEPT !.pc = "emit", !.seen = <<>>]
  <1>j. j \in Jobs /\ j.pc = "replace" /\ j.data \in BOOLEAN /\ j.seen \in Seq(Updates) /\ shared
    BY JobFields DEF IInv, TypeOK, OneProcess, CompactReplace, At
  <1>k. Carries(j, k, "emit") /\ k.alone = j.alone
    BY <1>j, JobReads, EmptySeq DEF Steps, UpdateSteps
  <1>u. UNCHANGED <<shared, session, saves, unsaved, forgone, editor>>
    BY DEF CompactReplace
  <1>1. /\ jobs' = (jobs \ {j}) \cup {k}
        /\ log' = Compacted(j.seen) /\ raced' = (raced \/ log # j.seen)
    BY DEF CompactReplace
  <1> HIDE DEF k
  <1>2. log' \in Seq(Updates) /\ Content(log') = Content(j.seen)
    BY <1>j, <1>1, ContentOfCompacted
  <1>3. Works(j, k)
    BY <1>j, <1>k, <1>u, <1>1, <1>2 DEF Works, IInv, TypeOK, Carries
  <1>4. SaveIsDue'
    BY <1>j, <1>k, <1>u, <1>1 DEF IInv, SaveIsDue, UpdateSteps, Carries
  <1>5. ~raced' => Content(log') = Content(log)
    BY <1>1, <1>2
  <1> QED BY <1>j, <1>3, <1>4, <1>5, WorksKeeps DEF IInv

LEMMA UpdateSaveKeeps ==
  ASSUME IInv, NEW j \in jobs, UNCHANGED shared, UpdateSave(j)
  PROVE  IInv'
  <1>j. j.edits \in Updates /\ j.pc = "save"
    BY JobFields DEF IInv, TypeOK, UpdateSave, At
  <1>u. UNCHANGED <<shared, session, log, unsaved, forgone, raced, editor>>
    BY DEF UpdateSave
  <1>1. jobs' = jobs \ {j} /\ saves' = saves \cup {j.edits}
    BY DEF UpdateSave, Ends, Saved
  <1>2. TypeOK' /\ SaveIsDue'
    BY <1>j, <1>u, <1>1 DEF IInv, TypeOK, SaveIsDue, session, editor
  <1>3. SidsKnown' /\ OneProcess' /\ Departed' /\ OwnEdits'
    BY <1>u, <1>1 DEF IInv, SidsKnown, OneProcess, Departed, OwnEdits, Sid, session, editor
  <1>4. Underway' = Underway
    BY <1>j, <1>1 DEF Underway
  <1>5. (Content(log))' = Content(log) /\ \A c \in Editors : Mailed(c)' = Mailed(c)
    BY <1>u DEF Content, Mailed, editor
  <1>6. \A c \in Editors : Reading(c) => Reading(c)'
    BY <1>j, <1>u, <1>1 DEF Reading, Sid, editor
  <1>7. Reached'
    BY <1>u, <1>4, <1>5, <1>6 DEF IInv, Reached, Sid, session, editor
  <1>8. \A c \in Editors : Seeder(c)' => Seeder(c)
    BY <1>u, <1>1, <1>5 DEF Seeder, editor
  <1>9. OneSeeder'
    BY <1>u, <1>8 DEF IInv, OneSeeder, session, editor
  <1> QED BY <1>2, <1>3, <1>7, <1>9 DEF IInv

LEMMA SaveKeeps ==
  ASSUME IInv, NEW edits \in saves, UNCHANGED shared, Save(edits)
  PROVE  IInv'
  <1>u. UNCHANGED <<shared, session, log, jobs, forgone, raced, editor>>
    BY DEF Save
  <1>1. saves' \subseteq saves /\ unsaved' = FALSE
    BY DEF Save
  <1>2. TypeOK' /\ SaveIsDue'
    BY <1>u, <1>1 DEF IInv, TypeOK, SaveIsDue, session, editor
  <1>3. SidsKnown' /\ OneProcess' /\ Departed' /\ OwnEdits'
    BY <1>u DEF IInv, SidsKnown, OneProcess, Departed, OwnEdits, Sid, session, editor
  <1>4. Reached'
    BY <1>u DEF IInv, Reached, Reading, Mailed, Underway, Content, Sid, session, editor
  <1>5. \A c \in Editors : Seeder(c)' => Seeder(c)
    <2>1. (Content(log))' = Content(log) /\ \A c \in Editors : Mailed(c)' = Mailed(c)
      BY <1>u DEF Content, Mailed, editor
    <2> QED BY <1>u, <2>1 DEF Seeder, editor
  <1>6. OneSeeder'
    BY <1>u, <1>5 DEF IInv, OneSeeder, session, editor
  <1> QED BY <1>2, <1>3, <1>4, <1>6 DEF IInv

LEMMA ClearUpdatesKeeps ==
  ASSUME IInv, NEW j \in jobs, UNCHANGED shared, ClearUpdates(j)
  PROVE  IInv'
  <1> DEFINE pc == IF j.pc = "clear" THEN "clear_users" ELSE "drop_users"
             k == [j EXCEPT !.pc = pc]
  <1>j. j \in Jobs /\ j.pc \in {"clear", "drop"}
    BY DEF IInv, TypeOK, ClearUpdates, At
  <1>k. Carries(j, k, pc) /\ pc \in {"clear_users", "drop_users"}
    <2>1. pc \in {"clear_users", "drop_users"} /\ pc \in Steps
      BY DEF Steps, LeaveSteps, DisconnectSteps
    <2> HIDE DEF pc
    <2> QED BY <2>1, <1>j, JobGoes
  <1>u. UNCHANGED <<shared, session, note, editor>>
    BY DEF ClearUpdates
  <1>1. log' = <<>> /\ jobs' = (jobs \ {j}) \cup {k}
    BY DEF ClearUpdates, Goes
  <1> HIDE DEF k, pc
  <1>c. Content(log') = {} /\ (Content(log))' = {}
    BY <1>1, ContentOfEmpty DEF Content
  <1>2. TypeOK'
    BY <1>j, <1>k, <1>u, <1>1, EmptySeq DEF IInv, TypeOK, Carries, session, note, editor
  <1>3. SidsKnown' /\ OwnEdits'
    BY <1>k, <1>u, <1>1 DEF IInv, SidsKnown, OwnEdits, Carries, Sid, session, editor
  <1>4. OneProcess'
    BY <1>k, <1>u, <1>1 DEF IInv, OneProcess, Carries, session, note
  <1>5. Departed' /\ (departures' = 0 => FALSE)
    BY <1>j, <1>u DEF IInv, Departed, JoinSteps, UpdateSteps, editor
  <1>6. Reached'
    BY <1>c DEF Reached
  <1>7. OneSeeder'
    BY <1>5 DEF OneSeeder
  <1>8. SaveIsDue'
    BY <1>j, <1>u, <1>1 DEF IInv, SaveIsDue, UpdateSteps, note
  <1> QED BY <1>2, <1>3, <1>4, <1>5, <1>6, <1>7, <1>8 DEF IInv

LEMMA UpdateEmitKeeps ==
  ASSUME IInv, NEW j \in jobs, UNCHANGED shared, UpdateEmit(j)
  PROVE  IInv'
  <1> DEFINE next == IF j.data THEN {[j EXCEPT !.pc = "save"]} ELSE {}
             echoes == Echoes(j)
  <1>j. j \in Jobs /\ j.pc = "emit" /\ j.data \in BOOLEAN /\ j.edits \in Updates
    BY JobFields DEF IInv, TypeOK, UpdateEmit, At
  <1>t. doc \in [Editors -> Updates] /\ conns \in [Editors -> Nat]
    BY DEF IInv, TypeOK
  <1>u. UNCHANGED <<shared, session, log, note, open, online, conns, made, mail, departures>>
    BY DEF UpdateEmit
  <1>1. /\ doc' = [c \in Editors |-> IF Receives(c, j) THEN doc[c] \cup j.edits ELSE doc[c]]
        /\ jobs' = (jobs \ {j}) \cup echoes \cup next
    BY DEF UpdateEmit
  <1>n. /\ \A k \in next : Carries(j, k, "save") /\ k.alone = j.alone
        /\ j.data => next # {}
    BY <1>j, JobGoes DEF Steps, UpdateSteps
  <1>e. \A k \in echoes : \E c \in Editors :
           /\ k \in Jobs /\ k.sid = Sid(c) /\ k.pc = "update" /\ k.alone = FALSE
           /\ k.edits = j.edits \ doc[c] /\ Receives(c, j)
    <2>1. ASSUME NEW c \in Editors
          PROVE  LET k == Job(Sid(c), "update", j.edits \ doc[c], TRUE)
                 IN  /\ k \in Jobs /\ k.sid = Sid(c) /\ k.pc = "update" /\ k.alone = FALSE
                     /\ k.edits = j.edits \ doc[c]
      <3> DEFINE sid == Sid(c)
                 rest == j.edits \ doc[c]
      <3>1. sid \in Sids /\ rest \in Updates /\ "update" \in Steps
        BY <1>j, <1>t DEF Sid, Sids, Updates, Steps, UpdateSteps
      <3> HIDE DEF sid, rest
      <3>2. LET k == Job(sid, "update", rest, TRUE)
            IN  /\ k \in Jobs /\ k.sid = sid /\ k.pc = "update" /\ k.alone = FALSE
                /\ k.edits = rest
        BY <3>1, EmptySeq DEF Job, Jobs
      <3> QED BY <3>2 DEF sid, rest
    <2> QED BY <2>1 DEF Echoes
  <1>d. /\ doc' \in [Editors -> Updates]
        /\ \A c \in Editors : doc[c] \subseteq doc'[c] /\ doc'[c] \subseteq doc[c] \cup j.edits
        /\ \A c \in Editors : Receives(c, j) => j.edits \subseteq doc'[c]
    BY <1>1, <1>t, <1>j DEF Updates
  <1> HIDE DEF next, echoes
  <1>2. TypeOK'
    <2>1. jobs' \subseteq Jobs
      BY <1>1, <1>n, <1>e DEF IInv, TypeOK, Carries
    <2> QED BY <2>1, <1>d, <1>u DEF IInv, TypeOK, session, note
  <1>3. SidsKnown'
    <2>1. \A k \in jobs' : (\E i \in jobs : k.sid = i.sid) \/ \E c \in Editors : k.sid = Sid(c)
      BY <1>1, <1>n, <1>e DEF Carries
    <2>2. \A c \in Editors : Sid(c)[2] <= conns[Sid(c)[1]]
      BY <1>t DEF Sid
    <2> QED BY <2>1, <2>2, <1>u DEF IInv, SidsKnown, session
  <1>4. OneProcess' /\ Departed'
    BY <1>1, <1>n, <1>e, <1>u DEF IInv, OneProcess, Departed, Carries, UpdateSteps, session, note
  <1>5. OwnEdits'
    <2> SUFFICES ASSUME NEW k \in jobs', open[k.sid[1]], Sid(k.sid[1]) = k.sid
                 PROVE  k.edits \subseteq doc'[k.sid[1]]
      BY <1>u DEF OwnEdits, Sid
    <2>1. CASE \E i \in jobs : k.sid = i.sid /\ k.edits = i.edits
      <3>1. k.edits \subseteq doc[k.sid[1]]
        BY <2>1 DEF IInv, OwnEdits
      <3>2. k.sid[1] \in Editors
        BY <2>1, JobFields DEF IInv, TypeOK, Sids
      <3> QED BY <3>1, <3>2, <1>d
    <2>2. CASE k \in echoes
      <3>1. PICK c \in Editors : k.sid = Sid(c) /\ k.edits = j.edits \ doc[c] /\ Receives(c, j)
        BY <2>2, <1>e
      <3>2. k.sid[1] = c
        BY <3>1 DEF Sid
      <3> QED BY <3>1, <3>2, <1>d
    <2>3. k \in echoes \/ \E i \in jobs : k.sid = i.sid /\ k.edits = i.edits
      BY <1>1, <1>n DEF Carries
    <2> QED BY <2>1, <2>2, <2>3
  <1>6. Underway \subseteq Underway' \cup j.edits
    <2>1. \A i \in jobs : i # j => i \in jobs'
      BY <1>1
    <2> QED BY <2>1 DEF Underway
  <1>7. Reached'
    <2> SUFFICES ASSUME NEW c \in Editors, (~raced /\ online[c] /\ open[c] /\ Sid(c) \in room)'
                 PROVE  (Reading(c) \/ Content(log) \subseteq doc[c] \cup Underway \cup Mailed(c))'
      BY DEF Reached
    <2>1. ~raced /\ online[c] /\ open[c] /\ Sid(c) \in room /\ Sid(c)' = Sid(c)
      BY <1>u DEF Sid, session, note
    <2>2. Reading(c) \/ Content(log) \subseteq doc[c] \cup Underway \cup Mailed(c)
      BY <2>1 DEF IInv, Reached
    <2>3. Reading(c) => Reading(c)'
      BY <2>1, <1>1, <1>j DEF Reading
    <2>4. (Content(log))' = Content(log) /\ Mailed(c)' = Mailed(c)
      BY <1>u DEF Content, Mailed
    <2>5. j.edits \subseteq doc'[c]
      <3>1. CASE Sid(c) # j.sid
        BY <3>1, <2>1, <1>d DEF Receives
      <3>2. CASE Sid(c) = j.sid
        <4>1. j.sid[1] = c
          BY <3>2 DEF Sid
        <4>2. j.edits \subseteq doc[c]
          BY <4>1, <3>2, <2>1 DEF IInv, OwnEdits
        <4> QED BY <4>2, <1>d
      <3> QED BY <3>1, <3>2
    <2> QED BY <2>2, <2>3, <2>4, <2>5, <1>6, <1>d
  <1>8. OneSeeder'
    <2> SUFFICES ASSUME ~shared', departures' = 0
                 PROVE  (/\ \A c \in Editors : Seeder(c) => \E s \in room : s[1] = c
                         /\ \A c, d \in Editors : Seeder(c) /\ Seeder(d) => c = d)'
      BY DEF OneSeeder
    <2>1. ~shared /\ departures = 0 /\ room' = room
      BY <1>u DEF session
    <2>2. ASSUME NEW c \in Editors, Seeder(c)' PROVE Seeder(c)
      <3>1. (Content(log))' = Content(log) /\ mail' = mail /\ \A d \in Editors : Mailed(d)' = Mailed(d)
        BY <1>u DEF Content, Mailed
      <3>2. \A i \in jobs' : \E g \in jobs : i.edits \subseteq g.edits
        BY <1>1, <1>n, <1>e DEF Carries
      <3>3. \A i \in jobs' : i.alone => \E g \in jobs : g.alone /\ g.sid = i.sid
        BY <1>1, <1>n, <1>e DEF Carries
      <3> QED BY <2>2, <3>1, <3>2, <3>3, <1>d DEF Seeder
    <2> QED BY <2>1, <2>2 DEF IInv, OneSeeder
  <1>9. SaveIsDue'
    BY <1>j, <1>1, <1>n, <1>u DEF IInv, SaveIsDue, UpdateSteps, Carries, note
  <1> QED BY <1>2, <1>3, <1>4, <1>5, <1>7, <1>8, <1>9 DEF IInv

LEMMA ConnectKeeps ==
  ASSUME IInv, NEW c \in Editors, UNCHANGED shared, Connect(c)
  PROVE  IInv'
  <1> DEFINE sid == <<c, conns[c] + 1>>
             k == Job(sid, "join", {}, FALSE)
  <1>t. conns \in [Editors -> Nat] /\ online \in [Editors -> BOOLEAN] /\ conns[c] \in Nat
    BY DEF IInv, TypeOK
  <1>s. sid \in Sids /\ sid[1] = c /\ sid[2] = conns[c] + 1
    BY <1>t DEF Sids
  <1>u. UNCHANGED <<shared, users, index, room, log, note, open, doc, made, mail, departures>>
    BY DEF Connect
  <1>1. /\ online' = [online EXCEPT ![c] = TRUE] /\ conns' = [conns EXCEPT ![c] = conns[c] + 1]
        /\ pool' = pool \cup {sid} /\ jobs' = jobs \cup {k}
    BY DEF Connect
  <1>2. /\ conns' \in [Editors -> Nat] /\ online' \in [Editors -> BOOLEAN]
        /\ conns'[c] = conns[c] + 1 /\ \A d \in Editors \ {c} : conns'[d] = conns[d]
        /\ \A d \in Editors \ {c} : online'[d] = online[d]
        /\ \A d \in Editors : conns[d] <= conns'[d] /\ conns'[d] \in Nat /\ conns[d] \in Nat
    BY <1>1, <1>t
  <1> HIDE DEF sid
  <1>k. /\ k \in Jobs /\ k.sid = sid /\ k.pc = "join" /\ k.edits = {}
        /\ k.data = FALSE /\ k.alone = FALSE
    BY <1>s, EmptySeq DEF Job, Jobs, Steps, JoinSteps, Updates
  <1> HIDE DEF k
  <1>3. TypeOK'
    BY <1>1, <1>2, <1>s, <1>k, <1>u DEF IInv, TypeOK, note
  <1>4. /\ \A s \in room : s \in Sids /\ s[1] \in Editors /\ s[2] \in Nat /\ s[2] <= conns[s[1]]
        /\ \A j \in jobs : /\ j.sid \in Sids /\ j.sid[1] \in Editors /\ j.sid[2] \in Nat
                           /\ j.sid[2] <= conns[j.sid[1]]
    BY JobFields DEF IInv, TypeOK, SidsKnown, Sids
  <1>5. SidsKnown'
    <2>1. \A s \in room' : s[2] <= conns'[s[1]]
      BY <1>2, <1>4, <1>u
    <2>2. ASSUME NEW j \in jobs' PROVE j.sid[2] <= conns'[j.sid[1]]
      <3>1. CASE j = k
        BY <3>1, <1>2, <1>k, <1>s
      <3>2. CASE j \in jobs
        BY <3>2, <1>2, <1>4
      <3> QED BY <3>1, <3>2, <1>1
    <2> QED BY <2>1, <2>2 DEF SidsKnown
  <1>6. OneProcess' /\ Departed'
    BY <1>1, <1>k, <1>u DEF IInv, OneProcess, Departed, JoinSteps, note
  <1>7. \A d \in Editors \ {c} : Sid(d)' = Sid(d)
    BY <1>2 DEF Sid
  <1>8. Sid(c)' = sid /\ sid \notin room /\ \A j \in jobs : j.sid # sid
    BY <1>2, <1>4, <1>s DEF Sid, sid
  <1>9. OwnEdits'
    <2> SUFFICES ASSUME NEW j \in jobs', open[j.sid[1]], Sid(j.sid[1])' = j.sid
                 PROVE  j.edits \subseteq doc[j.sid[1]]
      BY <1>u DEF OwnEdits
    <2>1. CASE j = k
      BY <2>1, <1>k
    <2>2. CASE j \in jobs
      <3>1. j.sid[1] # c
        BY <2>2, <1>8
      <3>2. Sid(j.sid[1]) = j.sid
        BY <3>1, <2>2, <1>4, <1>7
      <3> QED BY <3>2, <2>2 DEF IInv, OwnEdits
    <2> QED BY <2>1, <2>2, <1>1
  <1>10. Underway' = Underway
    <2>1. {j \in jobs' : j.pc \in {"llen", "replace", "emit"}} = {j \in jobs : j.pc \in {"llen", "replace", "emit"}}
      BY <1>1, <1>k
    <2> QED BY <2>1 DEF Underway
  <1>11. (Content(log))' = Content(log) /\ mail' = mail /\ \A d \in Editors : Mailed(d)' = Mailed(d)
    BY <1>u DEF Content, Mailed
  <1>12. Reached'
    <2> SUFFICES ASSUME NEW d \in Editors, (~raced /\ online[d] /\ open[d] /\ Sid(d) \in room)'
                 PROVE  (Reading(d) \/ Content(log) \subseteq doc[d] \cup Underway \cup Mailed(d))'
      BY DEF Reached
    <2>1. d # c
      BY <1>8, <1>u
    <2>2. Reading(d) \/ Content(log) \subseteq doc[d] \cup Underway \cup Mailed(d)
      BY <2>1, <1>2, <1>7, <1>u DEF IInv, Reached, note
    <2>3. Reading(d) => Reading(d)'
      BY <2>1, <1>1, <1>7 DEF Reading
    <2> QED BY <2>2, <2>3, <1>10, <1>11, <1>u
  <1>13. \A d \in Editors : Seeder(d)' => Seeder(d)
    BY <1>1, <1>k, <1>11, <1>u DEF Seeder
  <1>14. OneSeeder'
    BY <1>13, <1>u DEF IInv, OneSeeder
  <1>15. SaveIsDue'
    BY <1>1, <1>u DEF IInv, SaveIsDue, note
  <1> QED BY <1>3, <1>5, <1>6, <1>9, <1>12, <1>14, <1>15 DEF IInv

\* An editor that closes or loses its connection: a handler starts that will
\* remove its session.
LEMMA DepartureKeeps ==
  ASSUME IInv, NEW c \in Editors, UNCHANGED shared, Disconnect(c) \/ Close(c)
  PROVE  IInv'
  <1> DEFINE pc == IF Disconnect(c) THEN "disconnect" ELSE "leave"
             k == Job(Sid(c), pc, {}, FALSE)
  <1>t. /\ conns \in [Editors -> Nat] /\ online \in [Editors -> BOOLEAN]
        /\ open \in [Editors -> BOOLEAN] /\ doc \in [Editors -> Updates]
        /\ mail \in [Editors -> SUBSET States] /\ departures \in Nat
    BY DEF IInv, TypeOK
  <1>s. Sid(c) \in Sids
    BY <1>t DEF Sid, Sids
  <1>u. UNCHANGED <<shared, session, log, note, conns, made>>
    BY DEF Disconnect, Close
  <1>0. \/ Disconnect(c) /\ pc = "disconnect" /\ online' = [online EXCEPT ![c] = FALSE]
           /\ UNCHANGED <<open, doc>>
        \/ Close(c) /\ pc = "leave" /\ open' = [open EXCEPT ![c] = FALSE]
           /\ doc' = [doc EXCEPT ![c] = {}] /\ UNCHANGED online
    <2>1. CASE Disconnect(c)
      BY <2>1 DEF Disconnect
    <2>2. CASE ~Disconnect(c)
      BY <2>2 DEF Close
    <2> QED BY <2>1, <2>2
  <1>1. jobs' = jobs \cup {k} /\ mail' = [mail EXCEPT ![c] = {}] /\ departures' = departures + 1
    <2>1. CASE Disconnect(c)
      BY <2>1 DEF Disconnect
    <2>2. CASE ~Disconnect(c)
      BY <2>2 DEF Close
    <2> QED BY <2>1, <2>2
  <1>p. pc \in {"disconnect", "leave"}
    OBVIOUS
  <1> HIDE DEF pc
  <1>k. /\ k \in Jobs /\ k.sid = Sid(c) /\ k.pc = pc /\ k.edits = {}
        /\ k.data = FALSE /\ k.alone = FALSE
    BY <1>s, <1>p, EmptySeq DEF Job, Jobs, Steps, LeaveSteps, DisconnectSteps, Updates
  <1> HIDE DEF k
  <1>2. /\ online' \in [Editors -> BOOLEAN] /\ open' \in [Editors -> BOOLEAN]
        /\ doc' \in [Editors -> Updates] /\ mail' \in [Editors -> SUBSET States]
        /\ departures' \in Nat /\ departures' # 0
        /\ \A d \in Editors \ {c} : online'[d] = online[d] /\ open'[d] = open[d]
                                    /\ doc'[d] = doc[d] /\ mail'[d] = mail[d]
        /\ ~(online'[c] /\ open'[c])
        /\ ~open'[c] \/ (open'[c] = open[c] /\ doc'[c] = doc[c])
    <2>e. {} \in Updates
      BY DEF Updates
    <2>1. /\ mail' \in [Editors -> SUBSET States] /\ departures' \in Nat /\ departures' # 0
          /\ \A d \in Editors \ {c} : mail'[d] = mail[d]
      BY <1>1, <1>t
    <2>2. CASE Disconnect(c) /\ online' = [online EXCEPT ![c] = FALSE] /\ UNCHANGED <<open, doc>>
      BY <2>1, <2>2, <1>t
    <2>3. CASE /\ open' = [open EXCEPT ![c] = FALSE]
               /\ doc' = [doc EXCEPT ![c] = {}] /\ UNCHANGED online
      BY <2>1, <2>3, <2>e, <1>t
    <2> QED BY <2>2, <2>3, <1>0
  <1>3. TypeOK'
    BY <1>1, <1>2, <1>k, <1>u DEF IInv, TypeOK, session, note
  <1>4. \A d \in Editors : Sid(d)' = Sid(d)
    BY <1>u DEF Sid
  <1>5. SidsKnown'
    <2>1. k.sid[2] <= conns[k.sid[1]]
      BY <1>k, <1>t DEF Sid
    <2> QED BY <2>1, <1>1, <1>u DEF IInv, SidsKnown, session
  <1>6. OneProcess'
    BY <1>1, <1>k, <1>p, <1>u DEF IInv, OneProcess, session, note
  <1>7. Departed' /\ OneSeeder'
    BY <1>2 DEF Departed, OneSeeder
  <1>8. OwnEdits'
    <2> SUFFICES ASSUME NEW j \in jobs', open'[j.sid[1]], Sid(j.sid[1])' = j.sid
                 PROVE  j.edits \subseteq doc'[j.sid[1]]
      BY DEF OwnEdits
    <2>1. CASE j = k
      BY <2>1, <1>k
    <2>2. CASE j \in jobs
      <3>1. j.sid[1] \in Editors
        BY <2>2, JobFields DEF IInv, TypeOK, Sids
      <3>2. open[j.sid[1]] /\ doc'[j.sid[1]] = doc[j.sid[1]] /\ Sid(j.sid[1]) = j.sid
        BY <3>1, <1>2, <1>4
      <3> QED BY <3>2, <2>2 DEF IInv, OwnEdits
    <2> QED BY <2>1, <2>2, <1>1
  <1>9. Underway' = Underway
    <2>1. {j \in jobs' : j.pc \in {"llen", "replace", "emit"}} = {j \in jobs : j.pc \in {"llen", "replace", "emit"}}
      BY <1>1, <1>k, <1>p
    <2> QED BY <2>1 DEF Underway
  <1>10. Reached'
    <2> SUFFICES ASSUME NEW d \in Editors, (~raced /\ online[d] /\ open[d] /\ Sid(d) \in room)'
                 PROVE  (Reading(d) \/ Content(log) \subseteq doc[d] \cup Underway \cup Mailed(d))'
      BY DEF Reached
    <2>1. d # c
      BY <1>2
    <2>2. Reading(d) \/ Content(log) \subseteq doc[d] \cup Underway \cup Mailed(d)
      BY <2>1, <1>2, <1>4, <1>u DEF IInv, Reached, session, note
    <2>3. Reading(d) => Reading(d)'
      BY <1>1, <1>4 DEF Reading
    <2>4. doc'[d] = doc[d] /\ Mailed(d)' = Mailed(d) /\ (Content(log))' = Content(log)
      BY <2>1, <1>2, <1>u DEF Mailed, Content
    <2> QED BY <2>2, <2>3, <2>4, <1>9
  <1>11. SaveIsDue'
    BY <1>1, <1>u DEF IInv, SaveIsDue, note
  <1> QED BY <1>3, <1>5, <1>6, <1>7, <1>8, <1>10, <1>11 DEF IInv

\* An editor changes its document, and may send an update.
Changes(c, J) ==
    /\ jobs' = jobs \cup J
    /\ \A k \in J : /\ k \in Jobs /\ k.sid = Sid(c) /\ k.pc = "update" /\ k.alone = FALSE
                    /\ k.edits \subseteq doc'[c]
    /\ doc' \in [Editors -> Updates] /\ made' \in [Editors -> Nat]
    /\ mail' \in [Editors -> SUBSET States]
    /\ \A d \in Editors : doc[d] \subseteq doc'[d] /\ mail'[d] \subseteq mail[d]
    /\ \A d \in Editors : \A m \in mail[d] \ mail'[d] : m.edits \subseteq doc'[d]
    /\ UNCHANGED <<shared, session, log, note, open, online, conns, departures>>

LEMMA ChangesKeeps ==
  ASSUME IInv, NEW c \in Editors, NEW J, Changes(c, J),
         \A d \in Editors :
            (\/ \E e \in Editors : <<d, 0>> \in doc'[e]
             \/ \E k \in J : <<d, 0>> \in k.edits)
            => Seeder(d)
  PROVE  IInv'
  <1> USE DEF Changes
  <1>t. conns \in [Editors -> Nat] /\ Sid(c)' = Sid(c) /\ Sid(c)[1] = c /\ Sid(c)[2] = conns[c]
    BY DEF IInv, TypeOK, Sid
  <1>1. TypeOK'
    BY DEF IInv, TypeOK, session, note
  <1>2. SidsKnown'
    <2>1. \A k \in J : k.sid[2] <= conns[k.sid[1]]
      BY <1>t
    <2> QED BY <2>1 DEF IInv, SidsKnown, session
  <1>3. OneProcess' /\ Departed'
    BY DEF IInv, OneProcess, Departed, UpdateSteps, session, note
  <1>4. OwnEdits'
    <2> SUFFICES ASSUME NEW j \in jobs', open[j.sid[1]], Sid(j.sid[1]) = j.sid
                 PROVE  j.edits \subseteq doc'[j.sid[1]]
      BY DEF OwnEdits, Sid
    <2>1. CASE j \in J
      BY <2>1, <1>t
    <2>2. CASE j \in jobs
      <3>1. j.sid[1] \in Editors
        BY <2>2, JobFields DEF IInv, TypeOK, Sids
      <3> QED BY <3>1, <2>2 DEF IInv, OwnEdits
    <2> QED BY <2>1, <2>2
  <1>5. Underway \subseteq Underway' /\ (Content(log))' = Content(log)
    BY DEF Underway, Content
  <1>6. \A d \in Editors : Mailed(d) \subseteq Mailed(d)' \cup doc'[d] /\ Mailed(d)' \subseteq Mailed(d)
    BY DEF Mailed
  <1>7. Reached'
    <2> SUFFICES ASSUME NEW d \in Editors, (~raced /\ online[d] /\ open[d] /\ Sid(d) \in room)'
                 PROVE  (Reading(d) \/ Content(log) \subseteq doc[d] \cup Underway \cup Mailed(d))'
      BY DEF Reached
    <2>1. Reading(d) \/ Content(log) \subseteq doc[d] \cup Underway \cup Mailed(d)
      BY DEF IInv, Reached, Sid, session, note
    <2>2. Reading(d) => Reading(d)'
      BY DEF Reading, Sid
    <2>3. doc[d] \subseteq doc'[d]
      OBVIOUS
    <2> QED BY <2>1, <2>2, <2>3, <1>5, <1>6
  <1>8. ASSUME NEW d \in Editors, Seeder(d)' PROVE Seeder(d)
    <2>1. (\E m \in mail'[d] : m.alone) => Seeder(d)
      BY DEF Seeder
    <2>2. (\E j \in jobs' : j.alone /\ j.sid[1] = d) => Seeder(d)
      BY DEF Seeder
    <2>3. (\E j \in jobs' : <<d, 0>> \in j.edits) => Seeder(d)
      BY DEF Seeder
    <2>4. (\E e \in Editors : <<d, 0>> \in doc'[e] \cup Mailed(e)') => Seeder(d)
      BY <1>6 DEF Seeder
    <2>5. <<d, 0>> \in (Content(log))' => Seeder(d)
      BY <1>5 DEF Seeder
    <2> QED BY <2>1, <2>2, <2>3, <2>4, <2>5, <1>8 DEF Seeder
  <1>9. OneSeeder'
    BY <1>8 DEF IInv, OneSeeder, session
  <1>10. SaveIsDue'
    BY DEF IInv, SaveIsDue, note
  <1> QED BY <1>1, <1>2, <1>3, <1>4, <1>7, <1>9, <1>10 DEF IInv

LEMMA EditKeeps ==
  ASSUME IInv, NEW c \in Editors, UNCHANGED shared, Edit(c)
  PROVE  IInv'
  <1> DEFINE n == made[c] + 1
             e == <<c, n>>
             k == Job(Sid(c), "update", {e}, TRUE)
             J == IF online[c] THEN {k} ELSE {}
  <1>t. /\ made \in [Editors -> Nat] /\ conns \in [Editors -> Nat] /\ doc \in [Editors -> Updates]
        /\ mail \in [Editors -> SUBSET States]
    BY DEF IInv, TypeOK
  <1>u. UNCHANGED <<shared, session, log, note, open, online, conns, mail, departures>>
    BY DEF Edit
  <1>1. /\ doc' = [doc EXCEPT ![c] = doc[c] \cup {e}] /\ made' = [made EXCEPT ![c] = n]
        /\ jobs' = jobs \cup J
    BY DEF Edit
  <1>n. n \in Nat /\ n # 0
    BY <1>t
  <1> HIDE DEF n
  <1>e. e \in Edits /\ \A d \in Editors : <<d, 0>> # e
    BY <1>n DEF Edits
  <1> HIDE DEF e
  <1>s. Sid(c) \in Sids /\ {e} \in Updates
    BY <1>t, <1>e DEF Sid, Sids, Updates
  <1>k. /\ k \in Jobs /\ k.sid = Sid(c) /\ k.pc = "update" /\ k.edits = {e} /\ k.alone = FALSE
    BY <1>s, EmptySeq DEF Job, Jobs, Steps, UpdateSteps
  <1> HIDE DEF k
  <1>2. /\ doc' \in [Editors -> Updates] /\ made' \in [Editors -> Nat] /\ e \in doc'[c]
        /\ \A d \in Editors : doc[d] \subseteq doc'[d] /\ doc'[d] \subseteq doc[d] \cup {e}
    BY <1>1, <1>t, <1>n, <1>e DEF Updates
  <1>3. Changes(c, J)
    BY <1>1, <1>2, <1>k, <1>u, <1>t DEF Changes
  <1>4. \A d \in Editors :
            (\/ \E a \in Editors : <<d, 0>> \in doc'[a]
             \/ \E i \in J : <<d, 0>> \in i.edits)
            => Seeder(d)
    BY <1>2, <1>k, <1>e DEF Seeder
  <1> HIDE DEF J
  <1> QED BY <1>3, <1>4, ChangesKeeps

LEMMA ReceiveStateKeeps ==
  ASSUME IInv, NEW c \in Editors, NEW m \in mail[c], UNCHANGED shared, ReceiveState(c, m)
  PROVE  IInv'
  <1>t. /\ made \in [Editors -> Nat] /\ conns \in [Editors -> Nat] /\ doc \in [Editors -> Updates]
        /\ mail \in [Editors -> SUBSET States] /\ m \in States /\ m.edits \in Updates
    BY DEF IInv, TypeOK, States
  <1>s. Sid(c) \in Sids /\ <<c, 0>> \in Edits /\ {<<c, 0>>} \in Updates /\ {} \in Updates
    BY <1>t DEF Sid, Sids, Edits, Updates
  <1>u. UNCHANGED <<shared, session, log, note, open, online, conns, made, departures>>
    BY DEF ReceiveState
  <1>1. mail' = [mail EXCEPT ![c] = mail[c] \ {m}]
    BY DEF ReceiveState
  <1>2. /\ mail' \in [Editors -> SUBSET States] /\ \A d \in Editors : mail'[d] \subseteq mail[d]
        /\ mail[c] \ mail'[c] = {m} /\ \A d \in Editors \ {c} : mail'[d] = mail[d]
    BY <1>1, <1>t
  <1>m. \A d \in Editors : \A e \in m.edits : e = <<d, 0>> => Seeder(d)
    BY DEF Seeder, Mailed
  <1>3. CASE /\ m.edits # {}
             /\ doc' = [doc EXCEPT ![c] = doc[c] \cup m.edits]
             /\ UNCHANGED jobs
    <2>1. /\ doc' \in [Editors -> Updates] /\ doc'[c] = doc[c] \cup m.edits
          /\ \A d \in Editors \ {c} : doc'[d] = doc[d]
      BY <1>3, <1>t DEF Updates
    <2>2. Changes(c, {})
      BY <1>2, <1>3, <1>u, <1>t, <2>1 DEF Changes
    <2>3. \A d \in Editors : (\E e \in Editors : <<d, 0>> \in doc'[e]) => Seeder(d)
      BY <2>1, <1>m DEF Seeder
    <2> QED BY <2>2, <2>3, ChangesKeeps
  <1>4. CASE m.edits = {} /\ doc[c] = {} /\ ~m.alone
             /\ doc' = [doc EXCEPT ![c] = {}] /\ UNCHANGED jobs
    <2>1. doc' = doc
      BY <1>4, <1>t
    <2>2. Changes(c, {})
      BY <1>2, <1>4, <1>u, <1>t, <2>1 DEF Changes
    <2>3. \A d \in Editors : (\E e \in Editors : <<d, 0>> \in doc'[e]) => Seeder(d)
      BY <2>1 DEF Seeder
    <2> QED BY <2>2, <2>3, ChangesKeeps
  <1>5. CASE m.edits = {} /\ doc[c] = {} /\ m.alone
             /\ doc' = [doc EXCEPT ![c] = {<<c, 0>>}]
             /\ jobs' = jobs \cup {Job(Sid(c), "update", {<<c, 0>>}, TRUE)}
    <2> DEFINE k == Job(Sid(c), "update", {<<c, 0>>}, TRUE)
    <2>1. /\ k \in Jobs /\ k.sid = Sid(c) /\ k.pc = "update" /\ k.edits = {<<c, 0>>}
          /\ k.alone = FALSE /\ jobs' = jobs \cup {k}
      BY <1>5, <1>s, EmptySeq DEF Job, Jobs, Steps, UpdateSteps
    <2> HIDE DEF k
    <2>2. /\ doc' \in [Editors -> Updates] /\ doc'[c] = {<<c, 0>>}
          /\ \A d \in Editors \ {c} : doc'[d] = doc[d]
      BY <1>5, <1>t, <1>s
    <2>3. Changes(c, {k})
      BY <1>2, <1>5, <1>u, <1>t, <2>1, <2>2 DEF Changes
    <2>4. Seeder(c)
      BY <1>5 DEF Seeder
    <2>5. \A d \in Editors : (\E e \in Editors : <<d, 0>> \in doc'[e]) => Seeder(d)
      BY <2>2, <2>4 DEF Seeder
    <2>6. \A d \in Editors : (\E i \in {k} : <<d, 0>> \in i.edits) => Seeder(d)
      BY <2>1, <2>4
    <2> QED BY <2>3, <2>5, <2>6, ChangesKeeps
  <1>6. CASE /\ m.edits = {} /\ UNCHANGED doc
             /\ jobs' = jobs \cup {Job(Sid(c), "update", doc[c], FALSE)}
    <2> DEFINE k == Job(Sid(c), "update", doc[c], FALSE)
    <2>1. /\ k \in Jobs /\ k.sid = Sid(c) /\ k.pc = "update" /\ k.edits = doc[c]
          /\ k.alone = FALSE /\ jobs' = jobs \cup {k}
      BY <1>6, <1>s, <1>t, EmptySeq DEF Job, Jobs, Steps, UpdateSteps
    <2> HIDE DEF k
    <2>2. Changes(c, {k})
      BY <1>2, <1>6, <1>u, <1>t, <2>1 DEF Changes
    <2>3. \A d \in Editors : (\E e \in Editors : <<d, 0>> \in doc'[e]) => Seeder(d)
      BY <1>6 DEF Seeder
    <2>4. \A d \in Editors : (\E i \in {k} : <<d, 0>> \in i.edits) => Seeder(d)
      BY <2>1 DEF Seeder
    <2> QED BY <2>2, <2>3, <2>4, ChangesKeeps
  <1> QED
    BY <1>3, <1>4, <1>5, <1>6 DEF ReceiveState, Seeds

-----------------------------------------------------------------------------
(* The theorems.                                                           *)

LEMMA Initially == Init => IInv
  <1> SUFFICES ASSUME Init PROVE IInv
    OBVIOUS
  <1> USE DEF Init
  <1>1. TypeOK
    BY EmptySeq DEF TypeOK, Updates
  <1>2. SidsKnown /\ OneProcess /\ Departed /\ OwnEdits /\ SaveIsDue
    BY DEF SidsKnown, OneProcess, Departed, OwnEdits, SaveIsDue
  <1>3. Reached
    BY DEF Reached
  <1>4. \A c \in Editors : ~Seeder(c)
    BY ContentOfEmpty DEF Seeder, Mailed
  <1>5. OneSeeder
    BY <1>4 DEF OneSeeder
  <1> QED BY <1>1, <1>2, <1>3, <1>5 DEF IInv

LEMMA HandlerKeeps ==
  ASSUME IInv, NEW j \in jobs, UNCHANGED shared, JobStep(j)
  PROVE  IInv'
  <1>1. CASE \/ Join(j) \/ JoinAdd(j) \/ JoinIndex(j) \/ Update(j)
             \/ Leave(j) \/ LeaveIndex(j) \/ LeaveRoom(j) \/ LeaveCheck(j) \/ ClearUsers(j)
             \/ LoseSession(j) \/ FindDocument(j) \/ RemoveUser(j) \/ RemainingUsers(j) \/ Gone(j)
    BY <1>1, PassiveKeeps
  <1>2. CASE JoinEnter(j) \/ JoinState(j)
    BY <1>2, JoinEnterKeeps, JoinStateKeeps
  <1>3. CASE UpdateStop(j) \/ UpdatePush(j) \/ CompactRead(j) \/ CompactReplace(j)
    BY <1>3, UpdateStopKeeps, UpdatePushKeeps, CompactReadKeeps, CompactReplaceKeeps
  <1>4. CASE UpdateEmit(j) \/ UpdateSave(j) \/ ClearUpdates(j)
    BY <1>4, UpdateEmitKeeps, UpdateSaveKeeps, ClearUpdatesKeeps
  <1> QED BY <1>1, <1>2, <1>3, <1>4 DEF JobStep

LEMMA StutterKeeps == IInv /\ UNCHANGED vars => IInv'
  <1> SUFFICES ASSUME IInv, UNCHANGED vars PROVE IInv'
    OBVIOUS
  <1>u. UNCHANGED <<shared, session, log, jobs, note, editor>>
    BY DEF vars
  <1>1. TypeOK' /\ SaveIsDue'
    BY <1>u DEF IInv, TypeOK, SaveIsDue, session, note, editor
  <1>2. SidsKnown' /\ OneProcess' /\ Departed' /\ OwnEdits'
    BY <1>u DEF IInv, SidsKnown, OneProcess, Departed, OwnEdits, Sid, session, note, editor
  <1>3. /\ (Content(log))' = Content(log) /\ Underway' = Underway
        /\ \A c \in Editors : Mailed(c)' = Mailed(c) /\ Sid(c)' = Sid(c)
    BY <1>u DEF Content, Underway, Mailed, Sid, editor
  <1>4. \A c \in Editors : Reading(c)' = Reading(c)
    BY <1>u, <1>3 DEF Reading
  <1>5. Reached'
    BY <1>u, <1>3, <1>4 DEF IInv, Reached, session, note, editor
  <1>6. \A c \in Editors : Seeder(c)' => Seeder(c)
    BY <1>u, <1>3 DEF Seeder, editor
  <1>7. OneSeeder'
    BY <1>u, <1>6 DEF IInv, OneSeeder, session, editor
  <1> QED BY <1>1, <1>2, <1>5, <1>7 DEF IInv

LEMMA Inductive == IInv /\ [Next]_vars => IInv'
  <1> SUFFICES ASSUME IInv, [Next]_vars PROVE IInv'
    OBVIOUS
  <1>1. ASSUME NEW c \in Editors, UNCHANGED shared,
               Connect(c) \/ Disconnect(c) \/ Close(c) \/ Edit(c)
        PROVE  IInv'
    BY <1>1, ConnectKeeps, DepartureKeeps, EditKeeps
  <1>2. ASSUME NEW c \in Editors, NEW m \in mail[c], UNCHANGED shared, ReceiveState(c, m)
        PROVE  IInv'
    BY <1>2, ReceiveStateKeeps
  <1>3. ASSUME NEW j \in jobs, UNCHANGED shared, JobStep(j)
        PROVE  IInv'
    BY <1>3, HandlerKeeps
  <1>4. ASSUME NEW edits \in saves, UNCHANGED shared, Save(edits)
        PROVE  IInv'
    BY <1>4, SaveKeeps
  <1>5. CASE UNCHANGED vars
    BY <1>5, StutterKeeps
  <1> QED BY <1>1, <1>2, <1>3, <1>4, <1>5 DEF Next, Handle

THEOREM Invariant == Spec => []IInv
  BY Initially, Inductive, PTL DEF Spec

\* Every variable of the document has its type, whatever the handlers of
\* socket/main.py and YdocManager do.
THEOREM TypeCorrect == Spec => []TypeOK
  <1>1. IInv => TypeOK
    BY DEF IInv
  <1> QED BY <1>1, Invariant, PTL

\* A save of an accepted edit is never cancelled for good (main.py 735, 766).
THEOREM AlwaysDue == Spec => []SaveIsDue
  <1>1. IInv => SaveIsDue
    BY DEF IInv
  <1> QED BY <1>1, Invariant, PTL

\* Whoever has received the state of a document shows what the log holds
\* (main.py 584-605, 748-759).
THEOREM UpToDate == Spec => []RoomIsUpToDate
  <1>1. IInv => RoomIsUpToDate
    <2> SUFFICES ASSUME IInv, NEW c \in Editors, ~raced, online[c], open[c], Sid(c) \in room,
                        mail[c] = {}, \A j \in jobs : j.sid = Sid(c) => j.pc \notin JoinSteps
                 PROVE  Content(log) \subseteq doc[c] \cup Underway
      BY DEF RoomIsUpToDate
    <2>1. ~Reading(c)
      BY DEF Reading, JoinSteps
    <2>2. Mailed(c) = {}
      BY DEF Mailed
    <2> QED BY <2>1, <2>2 DEF IInv, Reached
  <1> QED BY <1>1, Invariant, PTL

\* One process never has the stored text twice (Collaboration.ts 131-149).
THEOREM OnceSeeded == Spec => []SeededOnce
  <1>1. IInv => SeededOnce
    <2> SUFFICES ASSUME IInv, ~shared, departures = 0, NEW c \in Editors
                 PROVE  Cardinality({e \in doc[c] : e[2] = 0}) <= 1
      BY DEF SeededOnce
    <2> DEFINE seeds == {e \in doc[c] : e[2] = 0}
    <2>1. ASSUME NEW e \in seeds
          PROVE  e[1] \in Editors /\ e = <<e[1], 0>> /\ Seeder(e[1])
      <3>1. doc[c] \subseteq Editors \X Nat
        BY DEF IInv, TypeOK, Updates, Edits
      <3>2. e \in doc[c] /\ e[1] \in Editors /\ e = <<e[1], 0>>
        BY <3>1
      <3> QED BY <3>2 DEF Seeder
    <2>2. \A e, f \in seeds : e = f
      <3>1. \A a, d \in Editors : Seeder(a) /\ Seeder(d) => a = d
        BY DEF IInv, OneSeeder
      <3> HIDE DEF seeds
      <3> QED BY <2>1, <3>1
    <2> HIDE DEF seeds
    <2>3. Cardinality(seeds) <= 1
      <3>1. CASE seeds = {}
        BY <3>1, FS_EmptySet
      <3>2. CASE seeds # {}
        <4>1. PICK e \in seeds : TRUE
          BY <3>2
        <4>2. seeds = {e}
          BY <2>2, <4>1
        <4> QED BY <4>2, FS_Singleton
      <3> QED BY <3>1, <3>2
    <2> QED BY <2>3 DEF seeds
  <1> QED BY <1>1, Invariant, PTL

\* What is accepted stays in the log while somebody is in the document
\* (socket/utils.py 177, 196-205, socket/main.py 796-798).
THEOREM NothingLost == Spec => NothingDropped
  <1> DEFINE Kept == \/ raced'
                     \/ shared /\ departures # 0
                     \/ users = {}
                     \/ Content(log) \subseteq Content(log')
  <1>1. IInv /\ [Next]_vars => [Kept]_<<log, users>>
    <2> SUFFICES ASSUME IInv, Next, log' # log PROVE Kept
      BY DEF vars
    <2>1. PICK j \in jobs : UpdatePush(j) \/ CompactReplace(j) \/ ClearUpdates(j)
      BY DEF Next, Connect, Disconnect, Close, Edit, ReceiveState, Handle, JobStep, Join,
             JoinAdd, JoinIndex, JoinEnter, JoinState, Update, UpdateStop, CompactRead,
             UpdateEmit, UpdateSave, Save, Leave, LeaveIndex, LeaveRoom, LeaveCheck, ClearUsers,
             LoseSession, FindDocument, RemoveUser, RemainingUsers, Gone
    <2>2. UNCHANGED shared
      BY DEF Next
    <2>3. CASE UpdatePush(j)
      BY <2>2, <2>3, UpdatePushKeeps
    <2>4. CASE CompactReplace(j)
      BY <2>2, <2>4, CompactReplaceKeeps
    <2>5. CASE ClearUpdates(j)
      <3>1. j.pc \in {"clear", "drop"}
        BY <2>5 DEF ClearUpdates, At
      <3>2. CASE shared
        BY <3>1, <3>2 DEF IInv, Departed, JoinSteps, UpdateSteps
      <3>3. CASE ~shared
        BY <3>1, <3>3 DEF IInv, OneProcess
      <3> QED BY <3>2, <3>3
    <2> QED BY <2>1, <2>3, <2>4, <2>5
  <1> QED BY <1>1, Invariant, PTL DEF Spec, NothingDropped


-----------------------------------------------------------------------------
(* The session pool (SessionReaper).                                       *)

\* A session that is connected is listed and was heard of in time; one that
\* has not connected yet is not listed.
Heard ==
    \A s \in Sessions :
        /\ status[s] = "live" => s \in listed /\ age[s] <= Heartbeat
        /\ status[s] = "new" => s \notin listed

\* A cleanup is only about to delete sessions that have ended.
DoomedEnded == \A i \in Instances : \A s \in doomed[i] : status[s] = "gone"

PoolInv == Reaper!TypeOK /\ Heard /\ DoomedEnded

LEMMA PoolBegins == Reaper!Init => PoolInv
  BY ReaperConstants
  DEF PoolInv, Heard, DoomedEnded, Reaper!Init, Reaper!TypeOK, Reaper!Absent,
      Reaper!ReaperConstants

\* A key that a command leaves has an owner and a time to live.
LEMMA KeysOfLock ==
    /\ Reaper!Absent \in [by : Instances \cup {Nobody}, ttl : 0..LockTimeout]
    /\ \A i \in Instances : Reaper!Set(i) \in [by : Instances \cup {Nobody}, ttl : 0..LockTimeout]
    /\ \A l \in [by : Instances \cup {Nobody}, ttl : 0..LockTimeout] :
          /\ Reaper!Aged(l) \in [by : Instances \cup {Nobody}, ttl : 0..LockTimeout]
          /\ \A i \in Instances :
                Reaper!Released(l, i) \in [by : Instances \cup {Nobody}, ttl : 0..LockTimeout]
  <1>1. LockTimeout \in Nat
    BY ReaperConstants DEF Reaper!ReaperConstants
  <1>2. ASSUME NEW l \in [by : Instances \cup {Nobody}, ttl : 0..LockTimeout], ~(l.ttl <= 1)
        PROVE  [l EXCEPT !.ttl = @ - 1] \in [by : Instances \cup {Nobody}, ttl : 0..LockTimeout]
    BY <1>1, <1>2
  <1> QED BY <1>1, <1>2 DEF Reaper!Absent, Reaper!Set, Reaper!Aged, Reaper!Released

LEMMA PoolConnects ==
    ASSUME PoolInv, NEW s \in Sessions, Reaper!Connect(s) PROVE PoolInv'
  <1>1. Heartbeat \in Nat
    BY ReaperConstants DEF Reaper!ReaperConstants
  <1>2. Reaper!TypeOK'
    BY <1>1, ReaperConstants
    DEF PoolInv, Reaper!TypeOK, Reaper!Connect, Reaper!cleanup, Reaper!ReaperConstants
  <1>3. Heard' /\ DoomedEnded'
    BY <1>1 DEF PoolInv, Heard, DoomedEnded, Reaper!TypeOK, Reaper!Connect, Reaper!cleanup
  <1> QED BY <1>2, <1>3 DEF PoolInv

LEMMA PoolHears ==
    ASSUME PoolInv, NEW s \in Sessions, Reaper!HeartbeatOf(s) \/ Reaper!Disconnect(s)
    PROVE  PoolInv'
  <1>1. Heartbeat \in Nat
    BY ReaperConstants DEF Reaper!ReaperConstants
  <1>2. Reaper!TypeOK'
    BY <1>1, ReaperConstants
    DEF PoolInv, Reaper!TypeOK, Reaper!HeartbeatOf, Reaper!Disconnect, Reaper!cleanup,
        Reaper!ReaperConstants
  <1>3. Heard' /\ DoomedEnded'
    BY <1>1 DEF PoolInv, Heard, DoomedEnded, Reaper!TypeOK, Reaper!HeartbeatOf,
                Reaper!Disconnect, Reaper!cleanup
  <1> QED BY <1>2, <1>3 DEF PoolInv

LEMMA PoolCrashes ==
    ASSUME PoolInv, NEW i \in Instances, Reaper!Crash(i) \/ Reaper!Boot(i) PROVE PoolInv'
  <1>1. MaxCrashes \in Nat
    BY ReaperConstants DEF Reaper!ReaperConstants
  <1>2. Reaper!TypeOK'
    BY <1>1 DEF PoolInv, Reaper!TypeOK, Reaper!Crash, Reaper!Boot, Reaper!cleanup
  <1>3. Heard' /\ DoomedEnded'
    BY DEF PoolInv, Heard, DoomedEnded, Reaper!TypeOK, Reaper!Crash, Reaper!Boot, Reaper!cleanup
  <1> QED BY <1>2, <1>3 DEF PoolInv

LEMMA PoolLoops ==
    ASSUME PoolInv, NEW i \in Instances,
           \/ Reaper!TakeLock(i) \/ Reaper!BeginPass(i) \/ Reaper!EndLoop(i)
           \/ Reaper!Sleep(i) \/ Reaper!WakeUp(i)
    PROVE  PoolInv'
  <1>1. SessionTimeout \in Nat
    BY ReaperConstants DEF Reaper!ReaperConstants
  <1>2. lock' \in [by : Instances \cup {Nobody}, ttl : 0..LockTimeout]
    <2>1. lock' \in {lock, Reaper!Set(i), Reaper!Released(lock, i)}
      BY DEF Reaper!TakeLock, Reaper!BeginPass, Reaper!EndLoop, Reaper!Sleep, Reaper!WakeUp
    <2>2. lock \in [by : Instances \cup {Nobody}, ttl : 0..LockTimeout]
      BY DEF PoolInv, Reaper!TypeOK
    <2> QED BY <2>1, <2>2, KeysOfLock
  <1>3. CASE Reaper!TakeLock(i)
    <2>1. loop' \in [Instances -> {"down", "start", "awake", "pass", "sleep", "ended"}]
      BY <1>3 DEF PoolInv, Reaper!TypeOK, Reaper!TakeLock
    <2> QED
      BY <1>2, <1>3, <2>1
      DEF PoolInv, Heard, DoomedEnded, Reaper!TypeOK, Reaper!TakeLock, Reaper!cleanup
  <1>7. CASE Reaper!WakeUp(i)
    BY <1>2, <1>7
    DEF PoolInv, Heard, DoomedEnded, Reaper!TypeOK, Reaper!WakeUp, Reaper!cleanup
  <1>4. CASE Reaper!BeginPass(i)
    BY <1>2, <1>4 DEF PoolInv, Heard, DoomedEnded, Reaper!TypeOK, Reaper!BeginPass
  <1>5. CASE Reaper!EndLoop(i)
    BY <1>2, <1>5 DEF PoolInv, Heard, DoomedEnded, Reaper!TypeOK, Reaper!EndLoop
  <1>6. CASE Reaper!Sleep(i)
    BY <1>1, <1>2, <1>6 DEF PoolInv, Heard, DoomedEnded, Reaper!TypeOK, Reaper!Sleep
  <1> QED BY <1>3, <1>4, <1>5, <1>6, <1>7

\* What a pass finds too old is not connected: a connected session was heard
\* of within the interval of the heartbeats.
LEMMA PoolChecks ==
    ASSUME PoolInv, NEW i \in Instances, NEW s \in Sessions, Reaper!Check(i, s)
    PROVE  PoolInv'
  <1>1. Heartbeat \in Nat /\ SessionTimeout \in Nat /\ Heartbeat <= SessionTimeout
    BY ReaperConstants DEF Reaper!ReaperConstants
  <1>2. Reaper!TypeOK'
    BY DEF PoolInv, Reaper!TypeOK, Reaper!Check
  <1>3. s \in listed /\ Reaper!Expired(s) => status[s] = "gone"
    BY <1>1 DEF PoolInv, Heard, Reaper!TypeOK, Reaper!Expired
  <1>4. Heard' /\ DoomedEnded'
    BY <1>3 DEF PoolInv, Heard, DoomedEnded, Reaper!TypeOK, Reaper!Check
  <1> QED BY <1>2, <1>4 DEF PoolInv

LEMMA PoolReaps ==
    ASSUME PoolInv, NEW i \in Instances, Reaper!Reap(i) PROVE PoolInv'
  <1>1. Reaper!TypeOK'
    BY DEF PoolInv, Reaper!TypeOK, Reaper!Reap
  <1>2. Heard' /\ DoomedEnded'
    BY DEF PoolInv, Heard, DoomedEnded, Reaper!TypeOK, Reaper!Reap
  <1> QED BY <1>1, <1>2 DEF PoolInv

LEMMA PoolAges ==
    ASSUME PoolInv, Reaper!Tick PROVE PoolInv'
  <1>1. Heartbeat \in Nat /\ SessionTimeout \in Nat
    BY ReaperConstants DEF Reaper!ReaperConstants
  <1>2. Reaper!TypeOK'
    <2>1. lock' \in [by : Instances \cup {Nobody}, ttl : 0..LockTimeout]
      BY KeysOfLock DEF PoolInv, Reaper!TypeOK, Reaper!Tick
    <2> QED
      BY <1>1, <2>1 DEF PoolInv, Reaper!TypeOK, Reaper!Tick
  <1>3. Heard' /\ DoomedEnded'
    BY <1>1 DEF PoolInv, Heard, DoomedEnded, Reaper!TypeOK, Reaper!Tick
  <1> QED BY <1>2, <1>3 DEF PoolInv

LEMMA PoolKeeps == PoolInv /\ [Reaper!Next]_(Reaper!vars) => PoolInv'
  <1> SUFFICES ASSUME PoolInv, [Reaper!Next]_(Reaper!vars) PROVE PoolInv'
    OBVIOUS
  <1>1. CASE UNCHANGED Reaper!vars
    BY <1>1 DEF PoolInv, Heard, DoomedEnded, Reaper!TypeOK, Reaper!vars, Reaper!cleanup
  <1>2. CASE Reaper!Tick
    BY <1>2, PoolAges
  <1>3. ASSUME NEW s \in Sessions,
               Reaper!Connect(s) \/ Reaper!HeartbeatOf(s) \/ Reaper!Disconnect(s)
        PROVE  PoolInv'
    BY <1>3, PoolConnects, PoolHears
  <1>4. ASSUME NEW i \in Instances, Reaper!Crash(i) \/ Reaper!Boot(i) PROVE PoolInv'
    BY <1>4, PoolCrashes
  <1>5. ASSUME NEW i \in Instances, Reaper!LoopStep(i) PROVE PoolInv'
    BY <1>5, PoolLoops, PoolChecks, PoolReaps DEF Reaper!LoopStep
  <1> QED BY <1>1, <1>2, <1>3, <1>4, <1>5 DEF Reaper!Next

-----------------------------------------------------------------------------
(* The list of models (SharedModels).                                      *)

Writing(i) == refresh[i].pc \in {"fetched", "compare", "keys", "hset", "hdel"}

\* Every list on its way to the hash has the steady models, and no write is
\* about to remove one.
SteadyListed ==
    /\ Steady \subseteq enabled
    /\ \A i \in Instances :
          /\ base[i] # {} => Steady \subseteq base[i]
          /\ Writing(i) => Steady \subseteq refresh[i].list
          /\ Steady \cap refresh[i].stale = {}

\* A steady model that a request has found is there.
SteadyFound == \A i \in Instances : lookup[i] \in Steady => lookup[i] \in dict

\* While a process is the only one that has written the hash, what it is about
\* to remove is all that its list does not have.
SoleWriter ==
    \A i \in Instances :
        /\ refresh[i].pc = "hdel" => i \in writers
        /\ refresh[i].pc = "hset" /\ writers \subseteq {i} =>
              refresh[i].stale = dict \ refresh[i].list
        /\ refresh[i].pc = "hdel" /\ writers = {i} =>
              dict \ refresh[i].stale = refresh[i].list

ListInv == List!TypeOK /\ SteadyListed /\ SteadyFound /\ SoleWriter /\ List!SoleWriterAgrees

\* The refreshes of an instance that moves.
Refreshes == [pc : {"idle", "fetched", "compare", "keys", "hset", "hdel"},
              list : SUBSET Models, stale : SUBSET Models]

LEMMA ListBegins == List!Init => ListInv
  BY ListConstants
  DEF ListInv, List!Init, List!TypeOK, SteadyListed, SteadyFound, SoleWriter,
      List!SoleWriterAgrees, List!ListConstants, List!Idle, Writing

LEMMA ListFetches ==
    ASSUME ListInv, NEW i \in Instances, List!Fetch(i) PROVE ListInv'
  <1>1. PICK answer \in SUBSET Models :
          /\ Steady \subseteq answer
          /\ base' = [base EXCEPT ![i] = IF answer # {} THEN answer ELSE @]
    BY DEF List!Fetch
  <1>2. /\ base'[i] \in SUBSET Models
        /\ base'[i] # {} => Steady \subseteq base'[i]
        /\ base' \in [Instances -> SUBSET Models]
        /\ \A j \in Instances : j # i => base'[j] = base[j]
    BY <1>1 DEF ListInv, List!TypeOK, SteadyListed
  <1>. DEFINE r == IF base'[i] = {} THEN List!Idle
                   ELSE [List!Idle EXCEPT !.pc = "fetched", !.list = base'[i]]
  <1>3. /\ r \in Refreshes /\ r.pc \in {"idle", "fetched"} /\ r.stale = {}
        /\ r.pc = "fetched" => Steady \subseteq r.list
    BY <1>2 DEF List!Idle, Refreshes
  <1>4. refresh' = [refresh EXCEPT ![i] = r]
    BY DEF List!Fetch, List!Goes
  <1>. HIDE DEF r
  <1>5. refreshes' \in 0..MaxRefreshes
    BY ListConstants DEF List!Fetch, ListInv, List!TypeOK, List!ListConstants
  <1>6. List!TypeOK'
    BY <1>2, <1>3, <1>4, <1>5 DEF List!Fetch, ListInv, List!TypeOK, Refreshes
  <1>7. SteadyListed'
    BY <1>2, <1>3, <1>4 DEF List!Fetch, ListInv, List!TypeOK, SteadyListed, Writing
  <1>8. SteadyFound' /\ SoleWriter'
    BY <1>3, <1>4 DEF List!Fetch, ListInv, List!TypeOK, SteadyFound, SoleWriter
  <1>9. List!SoleWriterAgrees'
    BY <1>3, <1>4 DEF List!Fetch, List!At, ListInv, List!TypeOK, List!SoleWriterAgrees
  <1> QED BY <1>6, <1>7, <1>8, <1>9 DEF ListInv

\* A refresh that only moves on keeps what is known of it.
LEMMA ListMoves ==
    ASSUME ListInv, NEW i \in Instances, NEW r \in Refreshes,
           refresh' = [refresh EXCEPT ![i] = r],
           UNCHANGED <<dict, enabled, base, signature, lookup, writers, refreshes, restarts>>,
           r.pc \in {"idle", "compare", "keys", "hset"},
           r.pc # "idle" => Steady \subseteq r.list,
           Steady \cap r.stale = {},
           r.pc = "hset" => r.stale = dict \ r.list,
           r.pc \in {"idle", "compare"} => refresh[i].pc \in {"fetched", "compare"}
    PROVE  ListInv'
  <1>1. List!TypeOK'
    BY DEF ListInv, List!TypeOK, Refreshes
  <1>2. SteadyListed'
    BY DEF ListInv, List!TypeOK, SteadyListed, Writing
  <1>3. SteadyFound' /\ SoleWriter'
    BY DEF ListInv, List!TypeOK, SteadyFound, SoleWriter
  <1>4. List!SoleWriterAgrees'
    BY DEF ListInv, List!TypeOK, List!SoleWriterAgrees
  <1> QED BY <1>1, <1>2, <1>3, <1>4 DEF ListInv

LEMMA ListOverrides ==
    ASSUME ListInv, NEW i \in Instances, List!Override(i) PROVE ListInv'
  <1>. DEFINE r == [refresh[i] EXCEPT !.pc = "compare", !.list = @ \cap enabled]
  <1>1. refresh[i] \in Refreshes /\ refresh[i].pc = "fetched"
    BY DEF ListInv, List!TypeOK, List!Override, List!At, Refreshes
  <1>2. /\ r \in Refreshes /\ r.pc = "compare" /\ r.list = refresh[i].list \cap enabled
        /\ r.stale = refresh[i].stale
    BY <1>1 DEF Refreshes
  <1>3. refresh' = [refresh EXCEPT ![i] = r]
    BY DEF List!Override, List!Goes
  <1>. HIDE DEF r
  <1>4. Steady \subseteq r.list /\ Steady \cap r.stale = {}
    BY <1>1, <1>2 DEF ListInv, SteadyListed, Writing
  <1> QED BY <1>1, <1>2, <1>3, <1>4, ListMoves DEF List!Override

LEMMA ListReadsKeys ==
    ASSUME ListInv, NEW i \in Instances, List!HKeys(i) PROVE ListInv'
  <1>. DEFINE r == [refresh[i] EXCEPT !.pc = "hset", !.stale = List!Stale(i)]
  <1>1. refresh[i] \in Refreshes /\ refresh[i].pc = "keys" /\ dict \subseteq Models
    BY DEF ListInv, List!TypeOK, List!HKeys, List!At, Refreshes
  <1>2. /\ r \in Refreshes /\ r.pc = "hset" /\ r.list = refresh[i].list
        /\ r.stale = dict \ r.list
    BY <1>1 DEF Refreshes, List!Stale
  <1>3. refresh' = [refresh EXCEPT ![i] = r]
    BY DEF List!HKeys, List!Goes
  <1>. HIDE DEF r
  <1>4. Steady \subseteq r.list
    BY <1>1, <1>2 DEF ListInv, SteadyListed, Writing
  <1> QED BY <1>1, <1>2, <1>3, <1>4, ListMoves DEF List!HKeys

LEMMA ListCompares ==
    ASSUME ListInv, NEW i \in Instances, List!Compare(i) PROVE ListInv'
  <1>1. refresh[i] \in Refreshes /\ refresh[i].pc = "compare"
    BY DEF ListInv, List!TypeOK, List!Compare, List!At, Refreshes
  <1>2. Steady \subseteq refresh[i].list /\ Steady \cap refresh[i].stale = {}
    BY <1>1 DEF ListInv, SteadyListed, Writing
  <1>3. List!Idle \in Refreshes /\ List!Idle.pc = "idle" /\ List!Idle.stale = {}
    BY DEF List!Idle, Refreshes
  <1>4. CASE refresh[i].list = {}
    <2>1. /\ dict' = {} /\ writers' = writers \cup {i}
          /\ signature' = [signature EXCEPT ![i] = Never]
          /\ refresh' = [refresh EXCEPT ![i] = List!Idle]
          /\ UNCHANGED <<enabled, base, lookup, refreshes, restarts>>
      BY <1>4 DEF List!Compare, List!Goes
    <2>2. Steady = {}
      BY <1>2, <1>4
    <2>3. List!TypeOK'
      BY <1>3, <2>1 DEF ListInv, List!TypeOK, Refreshes
    <2>4. SteadyListed' /\ SteadyFound'
      BY <2>2 DEF SteadyListed, SteadyFound
    <2>5. SoleWriter'
      BY <1>3, <2>1 DEF ListInv, List!TypeOK, SoleWriter
    <2>6. List!SoleWriterAgrees'
      BY <1>3, <2>1 DEF ListInv, List!TypeOK, List!SoleWriterAgrees
    <2> QED BY <2>3, <2>4, <2>5, <2>6 DEF ListInv
  <1>5. CASE refresh[i].list # {} /\ List!Same(i)
    <2>1. /\ refresh' = [refresh EXCEPT ![i] = List!Idle]
          /\ UNCHANGED <<dict, enabled, base, signature, lookup, writers, refreshes, restarts>>
      BY <1>5 DEF List!Compare, List!Goes
    <2> QED BY <1>1, <1>3, <2>1, ListMoves
  <1>6. CASE refresh[i].list # {} /\ ~List!Same(i)
    <2>. DEFINE r == [refresh[i] EXCEPT !.pc = "keys"]
    <2>1. /\ refresh' = [refresh EXCEPT ![i] = r]
          /\ UNCHANGED <<dict, enabled, base, signature, lookup, writers, refreshes, restarts>>
      BY <1>6 DEF List!Compare, List!Goes
    <2>2. /\ r \in Refreshes /\ r.pc = "keys" /\ r.list = refresh[i].list
          /\ r.stale = refresh[i].stale
      BY <1>1 DEF Refreshes
    <2>. HIDE DEF r
    <2> QED BY <1>2, <2>1, <2>2, ListMoves
  <1> QED BY <1>4, <1>5, <1>6

LEMMA ListWrites ==
    ASSUME ListInv, NEW i \in Instances, List!HSet(i) PROVE ListInv'
  <1>. DEFINE r == [refresh[i] EXCEPT !.pc = "hdel"]
  <1>1. refresh[i] \in Refreshes /\ refresh[i].pc = "hset"
    BY DEF ListInv, List!TypeOK, List!HSet, List!At, Refreshes
  <1>2. /\ r \in Refreshes /\ r.pc = "hdel" /\ r.list = refresh[i].list
        /\ r.stale = refresh[i].stale
    BY <1>1 DEF Refreshes
  <1>3. /\ refresh' = [refresh EXCEPT ![i] = r]
        /\ dict' = dict \cup r.list /\ writers' = writers \cup {i}
        /\ UNCHANGED <<enabled, base, signature, lookup, refreshes, restarts>>
    BY <1>2 DEF List!HSet, List!Goes, List!Written
  <1>. HIDE DEF r
  <1>4. List!TypeOK'
    BY <1>2, <1>3 DEF ListInv, List!TypeOK, Refreshes
  <1>5. SteadyListed'
    BY <1>1, <1>2, <1>3 DEF ListInv, List!TypeOK, SteadyListed, Writing
  <1>6. SteadyFound'
    BY <1>3 DEF ListInv, SteadyFound
  <1>7. SoleWriter'
    BY <1>1, <1>2, <1>3 DEF ListInv, List!TypeOK, SoleWriter
  <1>8. List!SoleWriterAgrees'
    BY <1>2, <1>3 DEF ListInv, List!TypeOK, List!SoleWriterAgrees
  <1> QED BY <1>4, <1>5, <1>6, <1>7, <1>8 DEF ListInv

LEMMA ListRemoves ==
    ASSUME ListInv, NEW i \in Instances, List!HDel(i) PROVE ListInv'
  <1>1. /\ refresh[i] \in Refreshes /\ refresh[i].pc = "hdel" /\ i \in writers
        /\ Steady \cap refresh[i].stale = {}
    BY DEF ListInv, List!TypeOK, List!HDel, List!At, Refreshes, SoleWriter, SteadyListed
  <1>2. List!Idle \in Refreshes /\ List!Idle.pc = "idle" /\ List!Idle.stale = {}
    BY DEF List!Idle, Refreshes
  <1>3. /\ refresh' = [refresh EXCEPT ![i] = List!Idle]
        /\ dict' = dict \ refresh[i].stale
        /\ signature' = [signature EXCEPT ![i] = refresh[i].list]
        /\ UNCHANGED <<enabled, base, lookup, writers, refreshes, restarts>>
    BY DEF List!HDel, List!Goes
  <1>4. List!TypeOK'
    BY <1>1, <1>2, <1>3 DEF ListInv, List!TypeOK, Refreshes
  <1>5. SteadyListed'
    BY <1>2, <1>3 DEF ListInv, List!TypeOK, SteadyListed, Writing
  <1>6. SteadyFound'
    BY <1>1, <1>3 DEF ListInv, SteadyFound
  <1>7. SoleWriter'
    BY <1>1, <1>2, <1>3 DEF ListInv, List!TypeOK, SoleWriter
  <1>8. List!SoleWriterAgrees'
    BY <1>1, <1>2, <1>3 DEF ListInv, List!TypeOK, List!SoleWriterAgrees, SoleWriter
  <1> QED BY <1>4, <1>5, <1>6, <1>7, <1>8 DEF ListInv

LEMMA ListRestarts ==
    ASSUME ListInv, NEW i \in Instances, List!Restart(i) PROVE ListInv'
  <1>1. List!Idle \in Refreshes /\ List!Idle.pc = "idle" /\ List!Idle.stale = {}
    BY DEF List!Idle, Refreshes
  <1>2. restarts' \in 0..MaxRestarts /\ Never \notin Steady
    BY ListConstants DEF List!Restart, ListInv, List!TypeOK, List!ListConstants
  <1>3. List!TypeOK'
    BY <1>1, <1>2 DEF List!Restart, List!Goes, ListInv, List!TypeOK, Refreshes
  <1>4. SteadyListed'
    BY <1>1 DEF List!Restart, List!Goes, ListInv, List!TypeOK, SteadyListed, Writing
  <1>5. SteadyFound' /\ SoleWriter'
    BY <1>1, <1>2 DEF List!Restart, List!Goes, ListInv, List!TypeOK, SteadyFound, SoleWriter
  <1>6. List!SoleWriterAgrees'
    BY <1>1 DEF List!Restart, List!Goes, ListInv, List!TypeOK, List!SoleWriterAgrees
  <1> QED BY <1>3, <1>4, <1>5, <1>6 DEF ListInv

LEMMA ListServes ==
    ASSUME ListInv, NEW i \in Instances, NEW m \in Models,
           List!LookUp(i, m) \/ List!GetModel(i) \/ List!Enable(m)
    PROVE  ListInv'
  <1>1. Never \notin Steady
    BY ListConstants DEF List!ListConstants
  <1>2. List!TypeOK'
    BY DEF List!LookUp, List!GetModel, List!Enable, ListInv, List!TypeOK
  <1>3. SteadyListed' /\ SteadyFound' /\ SoleWriter'
    BY <1>1 DEF List!LookUp, List!GetModel, List!Enable, ListInv, List!TypeOK, SteadyListed,
                SteadyFound, SoleWriter, Writing
  <1>4. List!SoleWriterAgrees'
    BY DEF List!LookUp, List!GetModel, List!Enable, ListInv, List!TypeOK, List!SoleWriterAgrees
  <1> QED BY <1>2, <1>3, <1>4 DEF ListInv

LEMMA ListKeeps == ListInv /\ [List!Next]_(List!vars) => ListInv'
  <1> SUFFICES ASSUME ListInv, [List!Next]_(List!vars) PROVE ListInv'
    OBVIOUS
  <1>1. CASE UNCHANGED List!vars
    BY <1>1 DEF ListInv, List!TypeOK, SteadyListed, SteadyFound, SoleWriter, Writing,
                List!SoleWriterAgrees, List!vars
  <1>2. ASSUME NEW i \in Instances, List!GetModel(i) PROVE ListInv'
    <2>1. lookup[i] \in Models
      BY <1>2 DEF ListInv, List!TypeOK, List!GetModel
    <2> QED BY <1>2, <2>1, ListServes
  <1>3. ASSUME NEW i \in Instances, List!Refresh(i) \/ List!Restart(i) PROVE ListInv'
    BY <1>3, ListFetches, ListOverrides, ListCompares, ListReadsKeys, ListWrites, ListRemoves,
       ListRestarts DEF List!Refresh
  <1>4. ASSUME NEW m \in Models, List!Enable(m) PROVE ListInv'
    <2>1. CASE Instances = {}
      BY <1>4, <2>1 DEF List!Enable, ListInv, List!TypeOK, SteadyListed, SteadyFound, SoleWriter,
                        List!SoleWriterAgrees
    <2>2. ASSUME NEW i \in Instances PROVE ListInv'
      BY <1>4, <2>2, ListServes
    <2> QED BY <2>1, <2>2
  <1>5. ASSUME NEW i \in Instances, NEW m \in Models, List!LookUp(i, m) PROVE ListInv'
    BY <1>5, ListServes
  <1> QED BY <1>1, <1>2, <1>3, <1>4, <1>5 DEF List!Next

\* The step a refresh may take: nothing steady is removed.
SteadyStay ==
    /\ Steady \cap dict \subseteq dict'
    /\ \A i \in Instances : lookup[i] \in Steady => lookup[i] \in dict'

LEMMA ListKeepsSteady == ListInv /\ [List!Next]_(List!vars) => [SteadyStay]_(List!vars)
  <1> SUFFICES ASSUME ListInv, List!Next PROVE Steady \cap dict \subseteq dict'
    BY DEF SteadyStay, ListInv, SteadyFound
  <1>1. ASSUME NEW i \in Instances, List!Compare(i) PROVE Steady \cap dict \subseteq dict'
    BY <1>1 DEF ListInv, SteadyListed, Writing, List!Compare, List!At
  <1>2. ASSUME NEW i \in Instances, List!HSet(i) PROVE Steady \cap dict \subseteq dict'
    BY <1>2 DEF List!HSet, List!Written
  <1>3. ASSUME NEW i \in Instances, List!HDel(i) PROVE Steady \cap dict \subseteq dict'
    BY <1>3 DEF ListInv, SteadyListed, List!HDel
  <1> QED
    BY <1>1, <1>2, <1>3
    DEF List!Next, List!Refresh, List!Enable, List!Fetch, List!Override, List!HKeys,
        List!Restart, List!GetModel, List!LookUp

-----------------------------------------------------------------------------
(* The caches of tools and functions.                                      *)

PluginEdits == {h \in Editors : request[h].kind \in {"create", "update", "sync"}}

\* Only edits are saved, and they have a text.
EditsOK ==
    /\ \A h \in Editors : request[h].at = "save" => h \in PluginEdits
    /\ \A h \in PluginEdits : Cache!Text(h) # 0 /\ request[h].at \in {"load", "save"}

\* What is about has been tried before.
Known(text) == text = 0 \/ text \in used

AllKnown ==
    /\ Known(source)
    /\ \A i \in Instances : Known(content[i])
    /\ \A h \in Editors : Known(Cache!Text(h))

\* A module that was loaded from the database came with its text.
LoadedWithText ==
    \A i \in Instances :
        module[i].text # 0 /\ ~module[i].edited => content[i] \in {0, module[i].text}

\* As long as no text comes back, a text that is being saved is nowhere but in
\* the cache of its own instance.
EditsAreNew ==
    ~reverted =>
        \A h \in PluginEdits :
            /\ Cache!Text(h) # source
            /\ \A i \in Instances : Cache!Text(h) # content[i]
            /\ \A g \in Editors \ {h} : Cache!Text(h) # Cache!Text(g)

CacheInv == Cache!TypeOK /\ EditsOK /\ AllKnown /\ LoadedWithText /\ EditsAreNew
   /\ Cache!LatestIsUsed

Request == [kind : Cache!Kinds, at : Cache!Stages, host : Instances \cup {"none"}, text : Nat]

-----------------------------------------------------------------------------
(* Lemmas about requests.                                                  *)

\* A request that begins.
LEMMA StartEffect ==
  ASSUME Cache!TypeOK, NEW h \in Editors, NEW i \in Instances, NEW kind \in Cache!Kinds,
         NEW at \in Cache!Stages,
         NEW text \in Nat, Cache!Start(h, i, kind, at, text)
  PROVE  /\ request' \in [Editors -> Request]
         /\ h \notin Cache!Busy
         /\ \A g \in Editors \ {h} : request'[g] = request[g]
         /\ request'[h].kind = kind /\ request'[h].at = at
         /\ request'[h].host = i /\ request'[h].text = text
         /\ \A g \in Editors : request'[g].at # "idle" => request'[g].host \in Instances
  <1> DEFINE r == [kind |-> kind, at |-> at, host |-> i, text |-> text]
  <1>1. r \in Request /\ r.kind = kind /\ r.at = at /\ r.host = i /\ r.text = text
    BY DEF Request
  <1>2. request \in [Editors -> Request] /\ request' = [request EXCEPT ![h] = r]
        /\ h \notin Cache!Busy
    BY DEF Cache!Start, Cache!TypeOK, Request
  <1> HIDE DEF r
  <1>3. request' \in [Editors -> Request] /\ request'[h] = r
        /\ \A g \in Editors \ {h} : request'[g] = request[g]
    BY <1>1, <1>2
  <1> QED BY <1>1, <1>2, <1>3 DEF Cache!TypeOK, Cache!Busy, Cache!Host

\* A request that goes to another stage is a request.
LEMMA MovedRequest ==
  ASSUME NEW r \in Request, NEW at \in Cache!Stages
  PROVE  /\ [r EXCEPT !.at = at] \in Request
         /\ [r EXCEPT !.at = at].kind = r.kind /\ [r EXCEPT !.at = at].at = at
         /\ [r EXCEPT !.at = at].host = r.host /\ [r EXCEPT !.at = at].text = r.text
  BY DEF Request

\* A request that goes to another stage leaves the others where they are.
LEMMA GotoEffect ==
  ASSUME Cache!TypeOK, NEW h \in Cache!Busy, NEW at \in Cache!Stages, Cache!Goto(h, at)
  PROVE  /\ request' \in [Editors -> Request]
         /\ \A g \in Editors \ {h} : request'[g] = request[g]
         /\ request'[h].kind = request[h].kind /\ request'[h].at = at
         /\ request'[h].host = request[h].host /\ request'[h].text = request[h].text
         /\ \A g \in Editors : request'[g].at # "idle" => request'[g].host \in Instances
  <1> DEFINE r == [request[h] EXCEPT !.at = at]
  <1>1. request \in [Editors -> Request] /\ h \in Editors
    BY DEF Cache!TypeOK, Request, Cache!Busy
  <1>2. /\ r \in Request /\ r.kind = request[h].kind /\ r.at = at
        /\ r.host = request[h].host /\ r.text = request[h].text
    BY <1>1, MovedRequest
  <1>3. request' = [request EXCEPT ![h] = r]
    BY DEF Cache!Goto
  <1> HIDE DEF r
  <1>4. request' \in [Editors -> Request] /\ request'[h] = r
        /\ \A g \in Editors \ {h} : request'[g] = request[g]
    BY <1>1, <1>2, <1>3
  <1> QED BY <1>1, <1>2, <1>4 DEF Cache!TypeOK, Cache!Busy, Cache!Host

\* No request is one too.
LEMMA IdleRequest ==
  Cache!Idle \in Request /\ Cache!Idle.kind = "none" /\ Cache!Idle.at = "idle"
     /\ Cache!Idle.text = 0
  BY DEF Cache!Idle, Request, Cache!Kinds, Cache!Stages

\* A request that ends leaves the others where they are.
LEMMA EndEffect ==
  ASSUME Cache!TypeOK, NEW h \in Editors, Cache!End(h)
  PROVE  /\ request' \in [Editors -> Request]
         /\ request'[h] = Cache!Idle /\ \A g \in Editors \ {h} : request'[g] = request[g]
         /\ \A g \in Editors : request'[g].at # "idle" => request'[g].host \in Instances
  BY IdleRequest DEF Cache!End, Cache!TypeOK, Request, Cache!Busy, Cache!Host

\* An edit is tried with a text.
LEMMA CandidatesTyped ==
  ASSUME MaxTexts \in Nat, Cache!TypeOK
  PROVE  Cache!Candidates \subseteq Cache!Texts
  <1>1. 1 .. MaxTexts \subseteq Cache!Texts
    BY DEF Cache!Texts
  <1>2. used \subseteq Cache!Texts
    BY DEF Cache!TypeOK
  <1> QED BY <1>1, <1>2 DEF Cache!Candidates

-----------------------------------------------------------------------------
(* The steps.                                                              *)

\* Requests that are not about to save start, go on or end: the row, the cache
\* and the edits to be saved stay as they are.
LEMMA OthersKeep ==
  ASSUME CacheInv, request' \in [Editors -> Request],
         \A g \in Editors : request'[g].at # "idle" => request'[g].host \in Instances,
         \A g \in Editors :
            \/ request'[g] = request[g]
            \/ /\ request[g].at # "save" /\ request'[g].kind \notin {"create", "update", "sync"}
               /\ request'[g].at # "save" /\ request'[g].text \in {0, source, Cache!Text(g)},
         UNCHANGED <<isTool, Cache!Cache, Cache!Database>>
  PROVE  CacheInv'
  <1>1. Cache!TypeOK'
    BY DEF CacheInv, Cache!TypeOK, Request, Cache!Busy, Cache!Host, Cache!Cache, Cache!Database
  <1>2. EditsOK'
    BY DEF CacheInv, EditsOK, PluginEdits, Cache!Text
  <1>3. AllKnown'
    BY DEF CacheInv, AllKnown, Known, Cache!Text, Cache!Cache, Cache!Database
  <1>4. LoadedWithText'
    BY DEF CacheInv, LoadedWithText, Cache!Cache
  <1>5. \A g \in Editors : g \in PluginEdits' => g \in PluginEdits /\ request'[g] = request[g]
    BY DEF PluginEdits
  <1>6. EditsAreNew'
    <2> SUFFICES ASSUME ~reverted', NEW h \in PluginEdits'
                 PROVE  (/\ Cache!Text(h) # source
                         /\ \A i \in Instances : Cache!Text(h) # content[i]
                         /\ \A g \in Editors \ {h} : Cache!Text(h) # Cache!Text(g))'
      BY DEF EditsAreNew
    <2>1. h \in PluginEdits /\ request'[h] = request[h] /\ h \in Editors
      BY <1>5 DEF PluginEdits
    <2>2. /\ ~reverted /\ Cache!Text(h) # source /\ Cache!Text(h) # 0
          /\ \A i \in Instances : Cache!Text(h) # content[i]
          /\ \A g \in Editors \ {h} : Cache!Text(h) # Cache!Text(g)
      BY <2>1 DEF CacheInv, EditsAreNew, EditsOK, Cache!Database
    <2>3. \A g \in Editors : request'[g].text \in {0, source, Cache!Text(g)}
      BY DEF Cache!Text
    <2> QED BY <2>1, <2>2, <2>3 DEF Cache!Text, Cache!Cache, Cache!Database
  <1>7. Cache!LatestIsUsed'
    <2> SUFFICES ASSUME ~reverted', NEW i \in Instances, Cache!Hit(i)'
                 PROVE  (module[i].text = source \/ (module[i].edited /\ Cache!Unsaved(i)))'
      BY DEF Cache!LatestIsUsed
    <2>1. module[i].text = source \/ (module[i].edited /\ Cache!Unsaved(i))
      BY DEF CacheInv, Cache!LatestIsUsed, Cache!Hit, Cache!Cache, Cache!Database
    <2>2. Cache!Unsaved(i) => Cache!Unsaved(i)'
      <3> SUFFICES ASSUME NEW h \in Cache!Busy, Cache!Host(h) = i, request[h].at = "save",
                          Cache!Text(h) = module[i].text
                   PROVE  Cache!Unsaved(i)'
        BY DEF Cache!Unsaved
      <3>1. h \in Editors /\ h \in PluginEdits
        BY DEF CacheInv, EditsOK, Cache!Busy
      <3> QED BY <3>1 DEF Cache!Unsaved, Cache!Busy, Cache!Host, Cache!Text, Cache!Cache
    <2> QED BY <2>1, <2>2 DEF Cache!Cache, Cache!Database
  <1> QED BY <1>1, <1>2, <1>3, <1>4, <1>6, <1>7 DEF CacheInv

\* A request ends after it has changed the cache of its instance, or nothing.
LEMMA LoadedKeeps ==
  ASSUME CacheInv, NEW h \in Editors, Cache!Loaded(h)
  PROVE  CacheInv'
  <1> DEFINE i == Cache!Host(h)
             t == Cache!Text(h)
             kept == IF request[h].kind = "get" THEN t ELSE 0
             m == [text |-> t, edited |-> FALSE]
  <1>t. /\ request \in [Editors -> Request] /\ content \in [Instances -> Nat]
        /\ module \in [Instances -> [text : Nat, edited : BOOLEAN]]
    BY DEF CacheInv, Cache!TypeOK, Request
  <1>h. /\ request[h].kind \in {"get", "stream"} /\ request[h].at = "load"
        /\ i \in Instances /\ t \in Nat /\ t = request[h].text /\ t = Cache!Text(h)
           /\ h \notin PluginEdits
    BY <1>t DEF CacheInv, Cache!TypeOK, Request, Cache!Busy, Cache!Host, Cache!Text,
       Cache!Loaded, PluginEdits
  <1>u. UNCHANGED <<isTool, source, used, reverted>>
    BY DEF Cache!Loaded, Cache!Database, Cache!Kept
  <1>1. /\ module' = [module EXCEPT ![i] = m] /\ content' = [content EXCEPT ![i] = kept]
    BY DEF Cache!Loaded
  <1>2. /\ request' \in [Editors -> Request]
        /\ request'[h] = Cache!Idle /\ \A g \in Editors \ {h} : request'[g] = request[g]
        /\ \A g \in Editors : request'[g].at # "idle" => request'[g].host \in Instances
    BY EndEffect DEF CacheInv, Cache!Loaded
  <1>3. kept \in Nat /\ kept \in {0, t}
    BY <1>h
  <1>4. m \in [text : Nat, edited : BOOLEAN] /\ m.text = t /\ m.edited = FALSE
    BY <1>h
  <1> HIDE DEF i, t, kept, m
  <1>5. /\ module' \in [Instances -> [text : Nat, edited : BOOLEAN]] /\ module'[i] = m
        /\ content' \in [Instances -> Nat] /\ content'[i] = kept
        /\ \A k \in Instances \ {i} : module'[k] = module[k] /\ content'[k] = content[k]
    BY <1>1, <1>3, <1>4, <1>h, <1>t
  <1>6. Cache!TypeOK'
    BY <1>2, <1>5, <1>u DEF CacheInv, Cache!TypeOK, Request, Cache!Busy, Cache!Host
  <1>7. \A g \in Editors : g \in PluginEdits' => g # h /\ g \in PluginEdits
        /\ request'[g] = request[g]
    BY <1>2, IdleRequest DEF PluginEdits
  <1>8. EditsOK'
    BY <1>2, <1>7, IdleRequest DEF CacheInv, EditsOK, PluginEdits, Cache!Text
  <1>9. AllKnown'
    <2>1. Known(source') /\ Known(t)
      BY <1>u, <1>h DEF CacheInv, AllKnown, Known, Cache!Text
    <2>2. \A k \in Instances : Known(content'[k])
      BY <2>1, <1>3, <1>5, <1>u DEF CacheInv, AllKnown, Known
    <2>3. \A g \in Editors : Known(request'[g].text)
      BY <1>2, IdleRequest DEF CacheInv, AllKnown, Known, Cache!Text
    <2> QED BY <2>1, <2>2, <2>3, <1>u DEF AllKnown, Known, Cache!Text
  <1>10. LoadedWithText'
    BY <1>3, <1>4, <1>5 DEF CacheInv, LoadedWithText
  <1>11. EditsAreNew'
    <2> SUFFICES ASSUME ~reverted', NEW g \in PluginEdits'
                 PROVE  (/\ Cache!Text(g) # source
                         /\ \A k \in Instances : Cache!Text(g) # content[k]
                         /\ \A e \in Editors \ {g} : Cache!Text(g) # Cache!Text(e))'
      BY DEF EditsAreNew
    <2>1. g \in PluginEdits /\ g # h /\ request'[g] = request[g] /\ g \in Editors
      BY <1>7 DEF PluginEdits
    <2>2. /\ Cache!Text(g) # source /\ Cache!Text(g) # 0
          /\ \A k \in Instances : Cache!Text(g) # content[k]
          /\ \A e \in Editors \ {g} : Cache!Text(g) # Cache!Text(e)
      BY <2>1, <1>u DEF CacheInv, EditsAreNew, EditsOK
    <2>3. Cache!Text(g) # t
      BY <2>1, <2>2, <1>h
    <2>4. \A k \in Instances : Cache!Text(g) # content'[k]
      BY <2>2, <2>3, <1>3, <1>5
    <2>5. \A e \in Editors \ {g} : Cache!Text(g) # request'[e].text
      BY <2>2, <1>2, IdleRequest DEF Cache!Text
    <2> QED BY <2>1, <2>2, <2>4, <2>5, <1>u DEF Cache!Text
  <1>12. Cache!LatestIsUsed'
    <2> SUFFICES ASSUME ~reverted', NEW k \in Instances, Cache!Hit(k)'
                 PROVE  (module[k].text = source \/ (module[k].edited /\ Cache!Unsaved(k)))'
      BY DEF Cache!LatestIsUsed
    <2>1. CASE k = i
      <3>1. source' # 0 /\ content'[i] = source'
        BY <2>1 DEF Cache!Hit
      <3> QED BY <3>1, <2>1, <1>3, <1>4, <1>5
    <2>2. CASE k # i
      <3>1. module[k].text = source \/ (module[k].edited /\ Cache!Unsaved(k))
        BY <2>2, <1>5, <1>u DEF CacheInv, Cache!LatestIsUsed, Cache!Hit
      <3>2. Cache!Unsaved(k) => Cache!Unsaved(k)'
        <4> SUFFICES ASSUME NEW g \in Cache!Busy, Cache!Host(g) = k, request[g].at = "save",
                            Cache!Text(g) = module[k].text
                     PROVE  Cache!Unsaved(k)'
          BY DEF Cache!Unsaved
        <4>1. g \in Editors /\ g # h
          BY <1>h DEF Cache!Busy
        <4> QED BY <4>1, <2>2, <1>2, <1>5 DEF Cache!Unsaved, Cache!Busy, Cache!Host, Cache!Text
      <3> QED BY <3>1, <3>2, <2>2, <1>5, <1>u
    <2> QED BY <2>1, <2>2
  <1> QED BY <1>6, <1>8, <1>9, <1>10, <1>11, <1>12 DEF CacheInv

\* An edit that is tried has a new text, and nobody runs it yet.
LEMMA TryKeeps ==
  ASSUME CacheInv, NEW h \in Editors, NEW i \in Instances,
         NEW kind \in {"create", "update", "sync"},
         NEW text \in Cache!Texts, Cache!Try(h, i, kind, text)
  PROVE  CacheInv'
  <1>t. text \in Nat /\ text # 0 /\ kind \in Cache!Kinds /\ "load" \in Cache!Stages
    BY DEF Cache!Texts, Cache!Kinds, Cache!Stages
  <1>1. /\ request' \in [Editors -> Request]
        /\ h \notin Cache!Busy
        /\ \A g \in Editors \ {h} : request'[g] = request[g]
        /\ request'[h].kind = kind /\ request'[h].at = "load"
        /\ request'[h].host = i /\ request'[h].text = text
        /\ \A g \in Editors : request'[g].at # "idle" => request'[g].host \in Instances
    <2>1. Cache!Start(h, i, kind, "load", text)
      BY DEF Cache!Try
    <2> QED BY <2>1, <1>t, StartEffect DEF CacheInv
  <1>2. used' = used \cup {text} /\ reverted' = (reverted \/ text \in used)
        /\ UNCHANGED <<isTool, source, module, content>>
    BY DEF Cache!Try, Cache!Cache
  <1>3. Cache!TypeOK'
    BY <1>1, <1>2 DEF CacheInv, Cache!TypeOK, Request, Cache!Busy, Cache!Host
  <1>4. \A g \in Editors \ {h} : g \in PluginEdits' => g \in PluginEdits
    BY <1>1 DEF PluginEdits
  <1>5. EditsOK'
    BY <1>t, <1>1, <1>4 DEF CacheInv, EditsOK, PluginEdits, Cache!Text
  <1>6. AllKnown'
    BY <1>1, <1>2 DEF CacheInv, AllKnown, Known, Cache!Text
  <1>7. LoadedWithText'
    BY <1>2 DEF CacheInv, LoadedWithText
  <1>8. EditsAreNew'
    <2> SUFFICES ASSUME ~reverted', NEW g \in PluginEdits'
                 PROVE  (/\ Cache!Text(g) # source
                         /\ \A k \in Instances : Cache!Text(g) # content[k]
                         /\ \A e \in Editors \ {g} : Cache!Text(g) # Cache!Text(e))'
      BY DEF EditsAreNew
    <2>1. ~reverted /\ text \notin used /\ g \in Editors
      BY <1>2 DEF PluginEdits
    <2>2. /\ text # source /\ \A k \in Instances : text # content[k]
          /\ \A e \in Editors : text # Cache!Text(e)
      BY <2>1, <1>t DEF CacheInv, AllKnown, Known
    <2>3. CASE g = h
      BY <2>2, <2>3, <1>1, <1>2 DEF Cache!Text
    <2>4. CASE g # h
      BY <2>1, <2>2, <2>4, <1>1, <1>2, <1>4 DEF CacheInv, EditsAreNew, Cache!Text
    <2> QED BY <2>3, <2>4
  <1>9. Cache!LatestIsUsed'
    <2> SUFFICES ASSUME ~reverted', NEW k \in Instances, Cache!Hit(k)'
                 PROVE  (module[k].text = source \/ (module[k].edited /\ Cache!Unsaved(k)))'
      BY DEF Cache!LatestIsUsed
    <2>1. module[k].text = source \/ (module[k].edited /\ Cache!Unsaved(k))
      BY <1>2 DEF CacheInv, Cache!LatestIsUsed, Cache!Hit
    <2>2. Cache!Unsaved(k) => Cache!Unsaved(k)'
      BY <1>1, <1>2 DEF Cache!Unsaved, Cache!Busy, Cache!Host, Cache!Text
    <2> QED BY <2>1, <2>2, <1>2
  <1> QED BY <1>3, <1>5, <1>6, <1>7, <1>8, <1>9 DEF CacheInv

\* The module of an edit is cached before its row is saved: the edit is unsaved.
LEMMA CacheEditKeeps ==
  ASSUME CacheInv, NEW h \in Editors, Cache!CacheEdit(h)
  PROVE  CacheInv'
  <1> DEFINE i == Cache!Host(h)
             t == Cache!Text(h)
             m == [text |-> t, edited |-> TRUE]
  <1>t. /\ request \in [Editors -> Request]
        /\ module \in [Instances -> [text : Nat, edited : BOOLEAN]]
    BY DEF CacheInv, Cache!TypeOK, Request
  <1>h. /\ h \in PluginEdits /\ h \in Cache!Busy /\ i \in Instances /\ t \in Nat /\ t # 0
        /\ "save" \in Cache!Stages
    BY <1>t DEF CacheInv, Cache!TypeOK, EditsOK, Request, Cache!Busy, Cache!Host, Cache!Text,
       Cache!CacheEdit, PluginEdits, Cache!Stages
  <1>u. UNCHANGED <<isTool, source, content, used, reverted>>
    BY DEF Cache!CacheEdit, Cache!Database, Cache!Kept
  <1>1. /\ request' \in [Editors -> Request]
        /\ \A g \in Editors \ {h} : request'[g] = request[g]
        /\ request'[h].kind = request[h].kind /\ request'[h].at = "save"
        /\ request'[h].host = request[h].host /\ request'[h].text = request[h].text
        /\ \A g \in Editors : request'[g].at # "idle" => request'[g].host \in Instances
    <2>1. Cache!Goto(h, "save")
      BY DEF Cache!CacheEdit
    <2> QED BY <2>1, <1>h, GotoEffect DEF CacheInv
  <1>2. module' = module \/ module' = [module EXCEPT ![i] = m]
    BY DEF Cache!CacheEdit
  <1>3. m \in [text : Nat, edited : BOOLEAN] /\ m.text = t /\ m.edited = TRUE
    BY <1>h
  <1>n. t = request[h].text /\ i = request[h].host
    BY DEF Cache!Host, Cache!Text
  <1> HIDE DEF i, t, m
  <1>4. /\ module' \in [Instances -> [text : Nat, edited : BOOLEAN]]
        /\ \A k \in Instances : module'[k] = module[k] \/ (k = i /\ module'[k] = m)
    BY <1>2, <1>3, <1>h, <1>t
  <1>5. Cache!TypeOK'
    BY <1>1, <1>4, <1>u DEF CacheInv, Cache!TypeOK, Request, Cache!Busy, Cache!Host
  <1>6. \A g \in Editors : g \in PluginEdits' <=> g \in PluginEdits
    BY <1>1 DEF PluginEdits
  <1>7. EditsOK'
    BY <1>1, <1>6, <1>h DEF CacheInv, EditsOK, PluginEdits, Cache!Text
  <1>8. AllKnown'
    BY <1>1, <1>u DEF CacheInv, AllKnown, Known, Cache!Text
  <1>9. LoadedWithText'
    BY <1>3, <1>4, <1>u DEF CacheInv, LoadedWithText
  <1>10. EditsAreNew'
    BY <1>1, <1>6, <1>u DEF CacheInv, EditsAreNew, Cache!Text, PluginEdits
  <1>11. Cache!LatestIsUsed'
    <2> SUFFICES ASSUME ~reverted', NEW k \in Instances, Cache!Hit(k)'
                 PROVE  (module[k].text = source \/ (module[k].edited /\ Cache!Unsaved(k)))'
      BY DEF Cache!LatestIsUsed
    <2>1. CASE k = i /\ module'[k] = m
      <3>1. h \in Cache!Busy' /\ Cache!Host(h)' = k /\ Cache!Text(h)' = module'[k].text
            /\ request'[h].at = "save"
        BY <2>1, <1>1, <1>3, <1>n, <1>h DEF Cache!Busy, Cache!Host, Cache!Text
      <3> QED BY <3>1, <2>1, <1>3 DEF Cache!Unsaved
    <2>2. CASE module'[k] = module[k]
      <3>1. module[k].text = source \/ (module[k].edited /\ Cache!Unsaved(k))
        BY <2>2, <1>u DEF CacheInv, Cache!LatestIsUsed, Cache!Hit
      <3>2. Cache!Unsaved(k) => Cache!Unsaved(k)'
        BY <2>2, <1>1 DEF Cache!Unsaved, Cache!Busy, Cache!Host, Cache!Text
      <3> QED BY <3>1, <3>2, <2>2, <1>u
    <2> QED BY <2>1, <2>2, <1>4
  <1> QED BY <1>5, <1>7, <1>8, <1>9, <1>10, <1>11 DEF CacheInv

\* What leaves the cache as it is while the row becomes another text, none,
\* or stays: the edit that is saved, a stream that writes, a deletion.
LEMMA RowKeeps ==
  ASSUME CacheInv, request' \in [Editors -> Request],
         \A g \in Editors : request'[g].at # "idle" => request'[g].host \in Instances,
         \A g \in Editors : g \in PluginEdits' => g \in PluginEdits /\ request'[g] = request[g],
         \A g \in Editors : request'[g].at = "save" => g \in PluginEdits',
         \A g \in Editors : request'[g].text \in {0, Cache!Text(g)},
         source' \in Nat, Known(source'), reverted' \in BOOLEAN, reverted => reverted',
         UNCHANGED <<isTool, Cache!Cache, used>>,
         ~reverted' => /\ \A g \in PluginEdits' : Cache!Text(g) # source'
                       /\ \/ source' = 0
                          \/ source' = source /\ \A g \in PluginEdits : request'[g] = request[g]
                          \/ \A i \in Instances : content[i] # source'
  PROVE  CacheInv'
  <1>1. Cache!TypeOK'
    BY DEF CacheInv, Cache!TypeOK, Request, Cache!Busy, Cache!Host, Cache!Cache
  <1>2. EditsOK'
    BY DEF CacheInv, EditsOK, PluginEdits, Cache!Text
  <1>3. AllKnown'
    BY DEF CacheInv, AllKnown, Known, Cache!Text, Cache!Cache
  <1>4. LoadedWithText'
    BY DEF CacheInv, LoadedWithText, Cache!Cache
  <1>5. EditsAreNew'
    <2> SUFFICES ASSUME ~reverted', NEW h \in PluginEdits'
                 PROVE  (/\ Cache!Text(h) # source
                         /\ \A i \in Instances : Cache!Text(h) # content[i]
                         /\ \A g \in Editors \ {h} : Cache!Text(h) # Cache!Text(g))'
      BY DEF EditsAreNew
    <2>1. h \in PluginEdits /\ request'[h] = request[h] /\ h \in Editors
      BY DEF PluginEdits
    <2>2. /\ ~reverted /\ Cache!Text(h) # 0
          /\ \A i \in Instances : Cache!Text(h) # content[i]
          /\ \A g \in Editors \ {h} : Cache!Text(h) # Cache!Text(g)
      BY <2>1 DEF CacheInv, EditsAreNew, EditsOK
    <2> QED BY <2>1, <2>2 DEF Cache!Text, Cache!Cache
  <1>6. Cache!LatestIsUsed'
    <2> SUFFICES ASSUME ~reverted', NEW i \in Instances, Cache!Hit(i)'
                 PROVE  (module[i].text = source \/ (module[i].edited /\ Cache!Unsaved(i)))'
      BY DEF Cache!LatestIsUsed
    <2>1. source' = source /\ \A g \in PluginEdits : request'[g] = request[g]
      BY DEF Cache!Hit, Cache!Cache
    <2>2. module[i].text = source \/ (module[i].edited /\ Cache!Unsaved(i))
      BY <2>1 DEF CacheInv, Cache!LatestIsUsed, Cache!Hit, Cache!Cache
    <2>3. Cache!Unsaved(i) => Cache!Unsaved(i)'
      <3> SUFFICES ASSUME NEW h \in Cache!Busy, Cache!Host(h) = i, request[h].at = "save",
                          Cache!Text(h) = module[i].text
                   PROVE  Cache!Unsaved(i)'
        BY DEF Cache!Unsaved
      <3>1. h \in Editors /\ h \in PluginEdits
        BY DEF CacheInv, EditsOK, Cache!Busy
      <3> QED BY <2>1, <3>1 DEF Cache!Unsaved, Cache!Busy, Cache!Host, Cache!Text, Cache!Cache
    <2> QED BY <2>1, <2>2, <2>3 DEF Cache!Cache
  <1> QED BY <1>1, <1>2, <1>3, <1>4, <1>5, <1>6 DEF CacheInv

\* A module is dropped, or an instance with its requests.
LEMMA DropKeeps ==
  ASSUME CacheInv, NEW i \in Instances, request' \in [Editors -> Request],
         \A g \in Editors : request'[g].at # "idle" => request'[g].host \in Instances,
         \A g \in Editors :
            \/ request'[g] = request[g]
            \/ request'[g] = Cache!Idle /\ (Cache!Host(g) = i \/ g \notin PluginEdits),
         module' = [module EXCEPT ![i] = Cache!Nothing],
         content' = content \/ content' = [content EXCEPT ![i] = 0],
         UNCHANGED <<isTool, Cache!Database>>
  PROVE  CacheInv'
  <1>t. /\ content \in [Instances -> Nat]
        /\ module \in [Instances -> [text : Nat, edited : BOOLEAN]]
    BY DEF CacheInv, Cache!TypeOK
  <1>n. Cache!Nothing \in [text : Nat, edited : BOOLEAN] /\ Cache!Nothing.text = 0
    BY DEF Cache!Nothing
  <1>1. /\ module' \in [Instances -> [text : Nat, edited : BOOLEAN]]
        /\ module'[i].text = 0 /\ \A k \in Instances \ {i} : module'[k] = module[k]
        /\ content' \in [Instances -> Nat]
        /\ \A k \in Instances : content'[k] \in {0, content[k]}
        /\ \A k \in Instances \ {i} : content'[k] = content[k]
    BY <1>t, <1>n
  <1>2. Cache!TypeOK'
    BY <1>1 DEF CacheInv, Cache!TypeOK, Request, Cache!Busy, Cache!Host, Cache!Database
  <1>3. \A g \in Editors : g \in PluginEdits' => g \in PluginEdits /\ request'[g] = request[g]
    BY IdleRequest DEF PluginEdits
  <1>4. EditsOK'
    BY <1>3, IdleRequest DEF CacheInv, EditsOK, PluginEdits, Cache!Text
  <1>5. \A g \in Editors : request'[g].text \in {0, Cache!Text(g)}
    BY IdleRequest DEF Cache!Text
  <1>6. AllKnown'
    BY <1>1, <1>5 DEF CacheInv, AllKnown, Known, Cache!Text, Cache!Database
  <1>7. LoadedWithText'
    BY <1>1 DEF CacheInv, LoadedWithText
  <1>8. EditsAreNew'
    <2> SUFFICES ASSUME ~reverted', NEW h \in PluginEdits'
                 PROVE  (/\ Cache!Text(h) # source
                         /\ \A k \in Instances : Cache!Text(h) # content[k]
                         /\ \A g \in Editors \ {h} : Cache!Text(h) # Cache!Text(g))'
      BY DEF EditsAreNew
    <2>1. h \in PluginEdits /\ request'[h] = request[h] /\ h \in Editors
      BY <1>3 DEF PluginEdits
    <2>2. /\ ~reverted /\ Cache!Text(h) # 0 /\ Cache!Text(h) # source
          /\ \A k \in Instances : Cache!Text(h) # content[k]
          /\ \A g \in Editors \ {h} : Cache!Text(h) # Cache!Text(g)
      BY <2>1 DEF CacheInv, EditsAreNew, EditsOK, Cache!Database
    <2> QED BY <2>1, <2>2, <1>1, <1>5 DEF Cache!Text, Cache!Database
  <1>9. Cache!LatestIsUsed'
    <2> SUFFICES ASSUME ~reverted', NEW k \in Instances, Cache!Hit(k)'
                 PROVE  (module[k].text = source \/ (module[k].edited /\ Cache!Unsaved(k)))'
      BY DEF Cache!LatestIsUsed
    <2>1. k # i
      BY <1>1 DEF Cache!Hit
    <2>2. module[k].text = source \/ (module[k].edited /\ Cache!Unsaved(k))
      BY <2>1, <1>1 DEF CacheInv, Cache!LatestIsUsed, Cache!Hit, Cache!Database
    <2>3. Cache!Unsaved(k) => Cache!Unsaved(k)'
      <3> SUFFICES ASSUME NEW h \in Cache!Busy, Cache!Host(h) = k, request[h].at = "save",
                          Cache!Text(h) = module[k].text
                   PROVE  Cache!Unsaved(k)'
        BY DEF Cache!Unsaved
      <3>1. h \in Editors /\ h \in PluginEdits /\ request'[h] = request[h]
        BY <2>1 DEF CacheInv, EditsOK, Cache!Busy
      <3> QED BY <2>1, <3>1, <1>1 DEF Cache!Unsaved, Cache!Busy, Cache!Host, Cache!Text
    <2> QED BY <2>1, <2>2, <2>3, <1>1 DEF Cache!Database
  <1> QED BY <1>2, <1>4, <1>6, <1>7, <1>8, <1>9 DEF CacheInv

\* A use only begins, compares or ends.
LEMMA UseKeeps ==
  ASSUME CacheInv, NEW h \in Editors, NEW i \in Instances,
         Cache!Get(h, i) \/ Cache!GetCached(h, i) \/ Cache!Compare(h) \/ Cache!LoadFails(h)
  PROVE  CacheInv'
  <1>t. /\ source \in Nat /\ "get" \in Cache!Kinds /\ "stream" \in Cache!Kinds
        /\ "compare" \in Cache!Stages /\ "writeBack" \in Cache!Stages /\ "load" \in Cache!Stages
        /\ request \in [Editors -> Request]
    BY DEF CacheInv, Cache!TypeOK, Cache!Kinds, Cache!Stages, Request
  <1>1. ASSUME NEW kind \in {"get", "stream"}, NEW at \in {"compare", "writeBack"},
               Cache!Start(h, i, kind, at, source),
               UNCHANGED <<isTool, Cache!Cache, Cache!Database>>
        PROVE  CacheInv'
    <2>1. /\ request' \in [Editors -> Request] /\ h \notin Cache!Busy
          /\ \A g \in Editors \ {h} : request'[g] = request[g]
          /\ request'[h].kind = kind /\ request'[h].at = at /\ request'[h].text = source
          /\ \A g \in Editors : request'[g].at # "idle" => request'[g].host \in Instances
      <3>1. kind \in Cache!Kinds /\ at \in Cache!Stages
        BY <1>t, <1>1
      <3> QED BY <3>1, <1>t, <1>1, StartEffect DEF CacheInv
    <2>2. request[h].at # "save"
      BY <2>1 DEF Cache!Busy
    <2> QED BY <2>1, <2>2, <1>1, OthersKeep
  <1>2. ASSUME Cache!End(h), request[h].at # "save",
               UNCHANGED <<isTool, Cache!Cache, Cache!Database>>
        PROVE  CacheInv'
    <2>1. /\ request' \in [Editors -> Request]
          /\ request'[h] = Cache!Idle /\ \A g \in Editors \ {h} : request'[g] = request[g]
          /\ \A g \in Editors : request'[g].at # "idle" => request'[g].host \in Instances
      BY <1>2, EndEffect DEF CacheInv
    <2> QED BY <2>1, <1>2, IdleRequest, OthersKeep
  <1>3. CASE Cache!Get(h, i)
    <2>1. Cache!Start(h, i, "get", "compare", source)
          /\ UNCHANGED <<isTool, Cache!Cache, Cache!Database>>
      BY <1>3 DEF Cache!Get
    <2> QED BY <2>1, <1>1
  <1>4. CASE Cache!GetCached(h, i)
    <2>1. Cache!Start(h, i, "stream", "writeBack", source)
          /\ UNCHANGED <<isTool, Cache!Cache, Cache!Database>>
      BY <1>4 DEF Cache!GetCached
    <2> QED BY <2>1, <1>1
  <1>5. CASE Cache!Compare(h)
    <2>1. /\ request[h].kind = "get" /\ request[h].at = "compare"
          /\ Cache!End(h) \/ Cache!Goto(h, "load")
          /\ UNCHANGED <<isTool, Cache!Cache, Cache!Database>>
      BY <1>5 DEF Cache!Compare, Cache!At, Cache!Kept
    <2>2. CASE Cache!Goto(h, "load")
      <3>1. h \in Cache!Busy
        BY <2>1 DEF Cache!Busy
      <3>2. /\ request' \in [Editors -> Request]
            /\ \A g \in Editors \ {h} : request'[g] = request[g]
            /\ request'[h].kind = request[h].kind /\ request'[h].at = "load"
            /\ request'[h].host = request[h].host /\ request'[h].text = request[h].text
            /\ \A g \in Editors : request'[g].at # "idle" => request'[g].host \in Instances
        BY <3>1, <2>2, <1>t, GotoEffect DEF CacheInv
      <3> QED BY <3>2, <2>1, OthersKeep DEF Cache!Text
    <2> QED BY <2>1, <2>2, <1>2
  <1>6. CASE Cache!LoadFails(h)
    <2>1. request[h].at = "load" /\ Cache!End(h)
          /\ UNCHANGED <<isTool, Cache!Cache, Cache!Database>>
      BY <1>6 DEF Cache!LoadFails, Cache!Kept
    <2> QED BY <2>1, <1>2
  <1> QED BY <1>3, <1>4, <1>5, <1>6

\* A stream that writes an old text back is one of the exceptions.
LEMMA WriteBackKeeps ==
  ASSUME CacheInv, NEW h \in Editors, Cache!WriteBack(h)
  PROVE  CacheInv'
  <1>1. /\ request[h].kind = "stream" /\ request[h].at = "writeBack"
        /\ source' = (IF source = 0 THEN 0 ELSE Cache!Text(h))
        /\ reverted' = (reverted \/ source' # source)
        /\ Cache!Goto(h, "load") /\ UNCHANGED <<isTool, Cache!Cache, used>>
    BY DEF Cache!WriteBack, Cache!At, Cache!Kept
  <1>2. h \in Cache!Busy /\ h \notin PluginEdits /\ "load" \in Cache!Stages
    BY <1>1 DEF Cache!Busy, PluginEdits, Cache!Stages
  <1>3. /\ request' \in [Editors -> Request]
        /\ \A g \in Editors \ {h} : request'[g] = request[g]
        /\ request'[h].kind = "stream" /\ request'[h].at = "load"
        /\ request'[h].text = Cache!Text(h)
        /\ \A g \in Editors : request'[g].at # "idle" => request'[g].host \in Instances
    BY <1>1, <1>2, GotoEffect DEF CacheInv, Cache!Text
  <1>4. source' \in Nat /\ Known(source') /\ reverted' \in BOOLEAN
    BY <1>1 DEF CacheInv, Cache!TypeOK, AllKnown, Known, Cache!Text, Request
  <1>5. \A g \in Editors : g \in PluginEdits' => g \in PluginEdits /\ request'[g] = request[g]
    BY <1>3 DEF PluginEdits
  <1>6. \A g \in Editors : request'[g].at = "save" => g \in PluginEdits'
    BY <1>3 DEF CacheInv, EditsOK, PluginEdits
  <1>7. \A g \in Editors : request'[g].text \in {0, Cache!Text(g)}
    BY <1>3 DEF Cache!Text
  <1>8. ASSUME ~reverted' PROVE /\ \A g \in PluginEdits' : Cache!Text(g) # source'
                                /\ source' = source /\ \A g \in PluginEdits : request'[g] = request[g]
    <2>1. ~reverted /\ source' = source
      BY <1>1, <1>8
    <2>2. \A g \in PluginEdits : request'[g] = request[g]
      BY <1>2, <1>3 DEF PluginEdits
    <2>3. \A g \in PluginEdits' : g \in PluginEdits
      BY <1>5 DEF PluginEdits
    <2> QED BY <2>1, <2>2, <2>3 DEF CacheInv, EditsAreNew
  <1> QED BY <1>1, <1>3, <1>4, <1>5, <1>6, <1>7, <1>8, RowKeeps

\* A row is saved with the text the cache has, or the save is given up.
LEMMA RowSaved ==
  ASSUME CacheInv, NEW h \in Editors, Cache!Save(h) \/ Cache!SaveFails(h)
  PROVE  CacheInv'
  <1>1. /\ request[h].at = "save" /\ Cache!End(h) /\ UNCHANGED <<isTool, Cache!Cache, used>>
        /\ \/ source' = Cache!Saved(h) /\ reverted' = (reverted \/ source' # Cache!Text(h))
           \/ source' = source /\ reverted' = TRUE
    BY DEF Cache!Save, Cache!SaveFails, Cache!Kept
  <1>2. h \in PluginEdits
    BY <1>1 DEF CacheInv, EditsOK
  <1>3. /\ request' \in [Editors -> Request]
        /\ request'[h] = Cache!Idle /\ \A g \in Editors \ {h} : request'[g] = request[g]
        /\ \A g \in Editors : request'[g].at # "idle" => request'[g].host \in Instances
    BY <1>1, EndEffect DEF CacheInv
  <1>4. source' \in {0, source, Cache!Text(h)}
    BY <1>1, <1>2 DEF Cache!Saved, PluginEdits
  <1>5. source' \in Nat /\ Known(source') /\ reverted' \in BOOLEAN
    <2>1. Cache!Text(h) \in Nat /\ source \in Nat /\ Known(source) /\ Known(Cache!Text(h))
      BY DEF CacheInv, Cache!TypeOK, AllKnown, Cache!Text
    <2>2. source' \in Nat /\ Known(source')
      BY <2>1, <1>4 DEF Known
    <2>3. reverted' \in BOOLEAN
      BY <1>1 DEF CacheInv, Cache!TypeOK
    <2> QED BY <1>1, <2>2, <2>3 DEF Known
  <1>6. \A g \in Editors : g \in PluginEdits' => g # h /\ g \in PluginEdits
        /\ request'[g] = request[g]
    BY <1>3, IdleRequest DEF PluginEdits
  <1>7. \A g \in Editors : request'[g].at = "save" => g \in PluginEdits'
    BY <1>3, IdleRequest DEF CacheInv, EditsOK, PluginEdits
  <1>8. \A g \in Editors : request'[g].text \in {0, Cache!Text(g)}
    BY <1>3, IdleRequest DEF Cache!Text
  <1>9. ASSUME ~reverted' PROVE /\ \A g \in PluginEdits' : Cache!Text(g) # source'
                                /\ \A i \in Instances : content[i] # source'
    <2>1. ~reverted /\ source' = Cache!Text(h)
      BY <1>1, <1>9
    <2>2. \A g \in PluginEdits' : g \in PluginEdits /\ g # h /\ g \in Editors
      BY <1>6 DEF PluginEdits
    <2> QED BY <2>1, <2>2, <1>2 DEF CacheInv, EditsAreNew
  <1> QED BY <1>1, <1>3, <1>5, <1>6, <1>7, <1>8, <1>9, RowKeeps

\* A row that goes away leaves the caches behind.
LEMMA GoesAwayKeeps ==
  ASSUME CacheInv, Cache!SyncAway \/ \E h \in Editors, i \in Instances : Cache!Delete(h, i)
  PROVE  CacheInv'
  <1>0. source' = 0 /\ UNCHANGED <<isTool, Cache!Cache, used, reverted>>
    BY DEF Cache!SyncAway, Cache!Delete
  <1>1. /\ request' \in [Editors -> Request]
        /\ \A g \in Editors : request'[g].at # "idle" => request'[g].host \in Instances
        /\ \A g \in Editors : \/ request'[g] = request[g]
                               \/ /\ request'[g].kind = "delete" /\ request'[g].at = "pop"
                                  /\ request'[g].text = 0
    <2>1. CASE Cache!SyncAway
      BY <2>1 DEF Cache!SyncAway, CacheInv, Cache!TypeOK, Request, Cache!Busy, Cache!Host
    <2>2. CASE \E h \in Editors, i \in Instances : Cache!Delete(h, i)
      <3>1. PICK h \in Editors, i \in Instances : Cache!Start(h, i, "delete", "pop", 0)
        BY <2>2 DEF Cache!Delete
      <3>2. "delete" \in Cache!Kinds /\ "pop" \in Cache!Stages /\ 0 \in Nat
        BY DEF Cache!Kinds, Cache!Stages
      <3> QED BY <3>1, <3>2, StartEffect DEF CacheInv
    <2> QED BY <2>1, <2>2
  <1>2. \A g \in Editors : g \in PluginEdits' => g \in PluginEdits /\ request'[g] = request[g]
    BY <1>1 DEF PluginEdits
  <1>3. \A g \in Editors : request'[g].at = "save" => g \in PluginEdits'
    BY <1>1 DEF CacheInv, EditsOK, PluginEdits
  <1>4. \A g \in Editors : request'[g].text \in {0, Cache!Text(g)}
    BY <1>1 DEF Cache!Text
  <1>5. \A g \in PluginEdits' : Cache!Text(g) # source'
    BY <1>0, <1>2 DEF CacheInv, EditsOK, PluginEdits
  <1>6. source' \in Nat /\ Known(source') /\ reverted' \in BOOLEAN
    BY <1>0 DEF CacheInv, Cache!TypeOK, Known
  <1> QED BY <1>0, <1>1, <1>2, <1>3, <1>4, <1>5, <1>6, RowKeeps

\* What a deletion takes out of the cache is no longer run.
LEMMA PopKeeps ==
  ASSUME CacheInv, NEW h \in Editors, Cache!Pop(h)
  PROVE  CacheInv'
  <1>1. /\ request[h].kind = "delete" /\ request[h].at = "pop" /\ Cache!End(h)
        /\ module' = [module EXCEPT ![Cache!Host(h)] = Cache!Nothing]
        /\ UNCHANGED <<isTool, content, Cache!Database>>
    BY DEF Cache!Pop, Cache!At, Cache!Kept
  <1>2. Cache!Host(h) \in Instances /\ h \notin PluginEdits
    BY <1>1 DEF CacheInv, Cache!TypeOK, Cache!Busy, PluginEdits
  <1>3. /\ request' \in [Editors -> Request]
        /\ request'[h] = Cache!Idle /\ \A g \in Editors \ {h} : request'[g] = request[g]
        /\ \A g \in Editors : request'[g].at # "idle" => request'[g].host \in Instances
    BY <1>1, EndEffect DEF CacheInv
  <1> QED BY <1>1, <1>2, <1>3, DropKeeps

\* A restart empties the caches and ends the requests.
LEMMA RestartKeeps ==
  ASSUME CacheInv, NEW i \in Instances, Cache!Restart(i)
  PROVE  CacheInv'
  <1>1. /\ module' = [module EXCEPT ![i] = Cache!Nothing]
        /\ content' = [content EXCEPT ![i] = 0]
        /\ request' = [h \in Editors |-> IF Cache!Host(h) = i THEN Cache!Idle ELSE request[h]]
        /\ UNCHANGED <<isTool, Cache!Database>>
    BY DEF Cache!Restart, Cache!Kept
  <1>2. request' \in [Editors -> Request]
    BY <1>1, IdleRequest DEF CacheInv, Cache!TypeOK, Request
  <1>3. \A g \in Editors :
            request'[g] = request[g] \/ (request'[g] = Cache!Idle /\ Cache!Host(g) = i)
    BY <1>1
  <1>4. \A g \in Editors : request'[g].at # "idle" => request'[g].host \in Instances
    BY <1>3, IdleRequest DEF CacheInv, Cache!TypeOK, Cache!Busy, Cache!Host
  <1> QED BY <1>1, <1>2, <1>3, <1>4, DropKeeps

-----------------------------------------------------------------------------
(* The theorems.                                                           *)

\* Nothing is cached at first.
LEMMA CacheBegins == Cache!Init => CacheInv
  <1> SUFFICES ASSUME Cache!Init PROVE CacheInv
    OBVIOUS
  <1> USE DEF Cache!Init
  <1>1. request \in [Editors -> Request]
    BY IdleRequest
  <1>2. \A h \in Editors : request[h] = Cache!Idle
    OBVIOUS
  <1>3. Cache!TypeOK
    <2>1. Cache!Nothing \in [text : Nat, edited : BOOLEAN] /\ Cache!Busy = {}
      BY <1>2, IdleRequest DEF Cache!Nothing, Cache!Busy
    <2>2. /\ module \in [Instances -> [text : Nat, edited : BOOLEAN]]
          /\ content \in [Instances -> Nat] /\ source \in Nat /\ used \subseteq Cache!Texts
      BY <2>1 DEF Cache!Texts
    <2> QED BY <1>1, <2>1, <2>2 DEF Cache!TypeOK, Request
  <1>4. EditsOK /\ EditsAreNew
    BY <1>2, IdleRequest DEF EditsOK, EditsAreNew, PluginEdits
  <1>5. AllKnown
    BY <1>2, IdleRequest DEF AllKnown, Known, Cache!Text
  <1>6. LoadedWithText /\ Cache!LatestIsUsed
    BY DEF LoadedWithText, Cache!LatestIsUsed, Cache!Hit, Cache!Nothing
  <1> QED BY <1>3, <1>4, <1>5, <1>6 DEF CacheInv

\* Every step of an edit, a use, a deletion or a restart.
LEMMA CacheKeeps ==
  ASSUME MaxTexts \in Nat, CacheInv, [Cache!Next]_(Cache!vars)
  PROVE  CacheInv'
  <1>1. ASSUME NEW h \in Editors, NEW i \in Instances, Cache!Get(h, i) \/ Cache!GetCached(h, i)
        PROVE  CacheInv'
    BY <1>1, UseKeeps
  <1>2. ASSUME NEW h \in Editors, NEW i \in Instances, Cache!Delete(h, i)
        PROVE  CacheInv'
    BY <1>2, GoesAwayKeeps
  <1>3. ASSUME NEW h \in Editors, NEW i \in Instances, NEW text \in Cache!Candidates,
               Cache!Create(h, i, text) \/ Cache!Update(h, i, text) \/ Cache!Sync(h, i, text)
        PROVE  CacheInv'
    <2>1. text \in Cache!Texts
      BY CandidatesTyped DEF CacheInv
    <2>2. Cache!Try(h, i, "create", text) \/ Cache!Try(h, i, "update", text)
          \/ Cache!Try(h, i, "sync", text)
      BY <1>3 DEF Cache!Create, Cache!Update, Cache!Sync
    <2> QED BY <2>1, <2>2, TryKeeps
  <1>4. ASSUME NEW h \in Editors, Cache!Compare(h) \/ Cache!LoadFails(h)
        PROVE  CacheInv'
    <2>1. Cache!Host(h) \in Instances
      BY <1>4 DEF Cache!Compare, Cache!LoadFails, Cache!At, CacheInv, Cache!TypeOK, Cache!Busy
    <2> QED BY <1>4, <2>1, UseKeeps
  <1>5. ASSUME NEW h \in Editors,
               Cache!WriteBack(h) \/ Cache!Loaded(h) \/ Cache!CacheEdit(h) \/ Cache!Save(h)
                  \/ Cache!SaveFails(h) \/ Cache!Pop(h)
        PROVE  CacheInv'
    BY <1>5, WriteBackKeeps, LoadedKeeps, CacheEditKeeps, RowSaved, PopKeeps
  <1>6. CASE Cache!SyncAway
    BY <1>6, GoesAwayKeeps
  <1>7. ASSUME NEW i \in Instances, Cache!Restart(i)
        PROVE  CacheInv'
    BY <1>7, RestartKeeps
  <1>8. CASE UNCHANGED Cache!vars
    <2>1. request' \in [Editors -> Request] /\ request' = request
          /\ UNCHANGED <<isTool, Cache!Cache, Cache!Database>>
      BY <1>8 DEF CacheInv, Cache!TypeOK, Request, Cache!vars, Cache!Cache, Cache!Database
    <2>2. \A g \in Editors : request'[g].at # "idle" => request'[g].host \in Instances
      BY <2>1 DEF CacheInv, Cache!TypeOK, Cache!Busy, Cache!Host
    <2> QED BY <2>1, <2>2, OthersKeep
  <1> QED BY <1>1, <1>2, <1>3, <1>4, <1>5, <1>6, <1>7, <1>8 DEF Cache!Next

\* What the plugin caches hold, whatever interleaves (utils/plugin.py 340-420).
THEOREM CacheInvariant ==
  ASSUME MaxTexts \in Nat
  PROVE  Cache!Spec => []CacheInv
  <1>1. CacheInv /\ [Cache!Next]_(Cache!vars) => CacheInv'
    BY CacheKeeps
  <1> QED BY CacheBegins, <1>1, PTL DEF Cache!Spec

\* Rows, caches and requests have their types, whatever edits, uses,
\* deletions and restarts interleave (utils/plugin.py).
THEOREM CacheTyped ==
  ASSUME MaxTexts \in Nat
  PROVE  Cache!Spec => []Cache!TypeOK
  <1>1. CacheInv => Cache!TypeOK
    BY DEF CacheInv
  <1> QED BY <1>1, CacheInvariant, PTL

\* What an instance runs from its cache is the text of the database, or an
\* edit of its own about to be saved, until a text comes back, a save fails or
\* a stream writes an old text (utils/plugin.py 373-374).
THEOREM LatestUsed ==
  ASSUME MaxTexts \in Nat
  PROVE  Cache!Spec => []Cache!LatestIsUsed
  <1>1. CacheInv => Cache!LatestIsUsed
    BY DEF CacheInv
  <1> QED BY <1>1, CacheInvariant, PTL

\* Always: a module loaded from an older row is never run in place of the
\* current text (utils/plugin.py 388-390, 402-403).
THEOREM NoOldRow ==
  ASSUME MaxTexts \in Nat
  PROVE  Cache!Spec => []Cache!OnlyEditsLinger
  <1>1. CacheInv => Cache!OnlyEditsLinger
    BY DEF CacheInv, Cache!TypeOK, LoadedWithText, Cache!OnlyEditsLinger, Cache!Hit
  <1> QED BY <1>1, CacheInvariant, PTL

-----------------------------------------------------------------------------
(* The parts side by side.                                                 *)

allVars == <<part, vars, sessionVars, modelVars, pluginVars>>

\* A behaviour of the whole is one of each part.
LEMMA EachPart == MCSpec => Spec /\ Reaper!Spec /\ List!Spec /\ Cache!Spec
  <1>1. MCInit => Init /\ Reaper!Init /\ List!Init /\ Cache!Init
    BY DEF MCInit
  <1>2. [MCNext]_allVars => [Next]_vars
    BY DEF MCNext, allVars
  <1>3. [MCNext]_allVars => [Reaper!Next]_(Reaper!vars)
    BY DEF MCNext, allVars, sessionVars, Reaper!vars, Reaper!cleanup
  <1>4. [MCNext]_allVars => [List!Next]_(List!vars)
    BY DEF MCNext, allVars, modelVars, List!vars
  <1>5. [MCNext]_allVars => [Cache!Next]_(Cache!vars)
    BY DEF MCNext, allVars, pluginVars, Cache!vars
  <1> QED
    BY <1>1, <1>2, <1>3, <1>4, <1>5, PTL
    DEF MCSpec, Spec, Reaper!Spec, List!Spec, Cache!Spec, allVars

\* The session of a browser that sends its heartbeats is never taken out of
\* SESSION_POOL, whichever cleanups run, overlap or are late (main.py 166-188,
\* 413-417).
THEOREM LiveStay == MCSpec => []LiveSessionsStay
  <1>1. Reaper!Spec => []PoolInv
    BY PoolBegins, PoolKeeps, PTL DEF Reaper!Spec
  <1>2. PoolInv => LiveSessionsStay
    BY DEF PoolInv, Heard, LiveSessionsStay, Of, Reaper!LiveSessionsStay
  <1> QED BY <1>1, <1>2, EachPart, PTL

\* A model that every refresh lists stays in the shared list, a request that
\* has found it gets it, and while one process writes, the list is what it last
\* wrote (socket/utils.py 95-129, utils/models.py, main.py 1051-1054).
THEOREM ListServed == MCSpec => ModelsAreServed
  <1>1. List!Spec => []ListInv
    BY ListBegins, ListKeeps, PTL DEF List!Spec
  <1>2. ListInv => List!SoleWriterAgrees
    BY DEF ListInv
  <1>3. List!Spec => [][SteadyStay]_(List!vars)
    BY <1>1, ListKeepsSteady, PTL DEF List!Spec
  <1>4. List!Spec => List!SteadyModelsStay
    BY <1>3 DEF List!SteadyModelsStay, SteadyStay
  <1> QED
    BY <1>1, <1>2, <1>4, EachPart, PTL DEF ModelsAreServed, List!ModelsAreServed

\* No tool or function runs from an older module than the database and the
\* edits allow (utils/plugin.py 340-420).
THEOREM PluginsFresh == MCSpec => []PluginsAreFresh
  <1>1. Cache!Spec => [](Cache!LatestIsUsed) /\ [](Cache!OnlyEditsLinger)
    BY CacheConstants, LatestUsed, NoOldRow
  <1>2. Cache!LatestIsUsed /\ Cache!OnlyEditsLinger => PluginsAreFresh
    BY DEF PluginsAreFresh, Of, Cache!PluginsAreFresh
  <1> QED BY <1>1, <1>2, EachPart, PTL

\* Every variable of the document, the pool, the list of models and the plugin
\* caches has its type.
THEOREM TypesCorrect == MCSpec => []TypesOK
  <1>1. Reaper!Spec => []PoolInv
    BY PoolBegins, PoolKeeps, PTL DEF Reaper!Spec
  <1>2. List!Spec => []ListInv
    BY ListBegins, ListKeeps, PTL DEF List!Spec
  <1>3. Cache!Spec => [](Cache!TypeOK)
    BY CacheConstants, CacheTyped
  <1>4. TypeOK /\ PoolInv /\ ListInv /\ Cache!TypeOK => TypesOK
    BY DEF TypesOK, Of, PoolInv, ListInv
  <1>5. Spec => []TypeOK
    BY TypeCorrect
  <1> QED BY <1>1, <1>2, <1>3, <1>4, <1>5, EachPart, PTL
=============================================================================
