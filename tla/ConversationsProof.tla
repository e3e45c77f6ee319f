------------------------- MODULE ConversationsProof -------------------------
(***************************************************************************)
(* Why no turn reaches the file of another conversation, for any number of *)
(* overlays, command lines and conversations: whatever a user or a summary *)
(* thread holds in hand belongs to the conversation it holds it for.       *)
(*                                                                         *)
(* And why the store deletes no conversation below its cap, for any cap    *)
(* and any number of users: a list may be stale, but each user who makes   *)
(* room has made a file before, and a list is never longer than the number *)
(* of files that are there besides those.                                  *)
(***************************************************************************)
EXTENDS Conversations, SequenceTheorems, FiniteSetTheorems, TLAPS

FileType == [turns : SUBSET Turns, titled : BOOLEAN, there : BOOLEAN]
UserType == [op : {"none", "open", "first", "new", "save", "switch"},
             at : {"closed", "idle", "opened", "create", "list", "evict", "index",
                   "file", "stats", "load", "switch"},
             id : Ids \cup {None}, msgs : SUBSET Turns,
             arg : Ids \cup {None}, got : SUBSET Turns,
             titled : BOOLEAN, snap : Index]
JobType == [at : {"none", "ready", "index", "read", "write"},
            id : Ids \cup {None}, got : SUBSET Turns, snap : Index]

(* The turns of S were all taken in conversation c. *)
Own(S, c) == \A t \in S : t \in 1..Len(owner) /\ owner[t] = c

(* Nothing is in hand while the conversation meant is being chosen, so     *)
(* that choosing another one makes nothing its own.                        *)
EmptyHanded(x) ==
  x.at \in {"closed", "idle", "opened", "create", "list", "load"} \/ x.op = "first" => x.got = {}

GoodUser(x) ==
  /\ x \in UserType
  /\ Own(x.msgs, x.id)
  /\ Own(x.got, x.arg)
  /\ EmptyHanded(x)
  /\ x.at = "load" => x.op # "first"
  /\ x.at \in {"list", "file", "stats"} => x.arg # None
  /\ x.at = "file" => x.arg = x.id

GoodJob(x) == x \in JobType /\ Own(x.got, x.id)

FilesAreGood ==
  /\ files \in [Ids -> FileType]
  /\ \A c \in Ids : Own(files[c].turns, c)

UsersAreGood ==
  /\ user \in [Users -> UserType]
  /\ \A u \in Users : GoodUser(user[u])

JobsAreGood ==
  /\ job \in [Users -> JobType]
  /\ \A u \in Users : GoodJob(job[u])

IInv ==
  /\ index \in Index
  /\ owner \in Seq(Ids \cup {None})
  /\ FilesAreGood
  /\ UsersAreGood
  /\ JobsAreGood

-----------------------------------------------------------------------------
LEMMA ConstantTypes ==
  /\ NoIndex \in Index
  /\ NoFile \in FileType /\ NoFile.turns = {}
  /\ Closed \in UserType /\ Closed.got = {} /\ Closed.msgs = {} /\ Closed.at = "closed"
  /\ NoJob \in JobType /\ NoJob.got = {}
BY DEF NoIndex, Index, NoFile, FileType, Closed, UserType, NoJob, JobType

LEMMA InitIInv == Init => IInv
<1> SUFFICES ASSUME Init PROVE IInv
  OBVIOUS
<1>1. GoodUser(Closed) /\ GoodJob(NoJob)
  BY ConstantTypes DEF GoodUser, GoodJob, Own, EmptyHanded
<1>2. UsersAreGood /\ JobsAreGood
  BY <1>1, ConstantTypes DEF Init, UsersAreGood, JobsAreGood
<1>3. FilesAreGood
  BY ConstantTypes DEF Init, FilesAreGood, Own
<1> QED BY <1>2, <1>3, ConstantTypes DEF Init, IInv

(* A step of one user: the others hold what they held. *)
LEMMA OneUser ==
  ASSUME IInv, NEW u \in Users, NEW x, GoodUser(x), user' = [user EXCEPT ![u] = x],
         UNCHANGED owner
  PROVE  UsersAreGood'
<1>1. x \in UserType
  BY DEF GoodUser
<1>2. user' \in [Users -> UserType]
  BY <1>1 DEF IInv, UsersAreGood
<1>3. ASSUME NEW v \in Users PROVE GoodUser(user[v])'
  <2>1. user'[v] = IF v = u THEN x ELSE user[v]
    BY DEF IInv, UsersAreGood
  <2>2. GoodUser(user'[v])
    BY <2>1 DEF IInv, UsersAreGood
  <2> QED BY <2>2 DEF GoodUser, Own, EmptyHanded
<1> QED BY <1>2, <1>3 DEF UsersAreGood

LEMMA OneJob ==
  ASSUME IInv, NEW u \in Users, NEW z, GoodJob(z), job' = [job EXCEPT ![u] = z],
         UNCHANGED owner
  PROVE  JobsAreGood'
<1>1. z \in JobType
  BY DEF GoodJob
<1>2. job' \in [Users -> JobType]
  BY <1>1 DEF IInv, JobsAreGood
<1>3. ASSUME NEW v \in Users PROVE GoodJob(job[v])'
  <2>1. job'[v] = IF v = u THEN z ELSE job[v]
    BY DEF IInv, JobsAreGood
  <2>2. GoodJob(job'[v])
    BY <2>1 DEF IInv, JobsAreGood
  <2> QED BY <2>2 DEF GoodJob, Own
<1> QED BY <1>2, <1>3 DEF JobsAreGood

LEMMA SameFiles == ASSUME IInv, UNCHANGED <<files, owner>> PROVE FilesAreGood'
BY DEF IInv, FilesAreGood, Own

LEMMA SameJobs == ASSUME IInv, UNCHANGED <<job, owner>> PROVE JobsAreGood'
BY DEF IInv, JobsAreGood, GoodJob, Own

LEMMA SameUsers == ASSUME IInv, UNCHANGED <<user, owner>> PROVE UsersAreGood'
BY DEF IInv, UsersAreGood, GoodUser, Own, EmptyHanded

LEMMA OneFile ==
  ASSUME IInv, NEW c, NEW S \in SUBSET Turns, NEW b \in BOOLEAN, Own(S, c),
         files' = [files EXCEPT ![c] = File(S, b)], UNCHANGED owner
  PROVE  FilesAreGood'
<1>1. File(S, b) \in FileType /\ File(S, b).turns = S
  BY DEF File, FileType
<1>2. files' \in [Ids -> FileType]
  BY <1>1 DEF IInv, FilesAreGood
<1>3. ASSUME NEW d \in Ids PROVE Own(files'[d].turns, d)
  BY <1>1 DEF IInv, FilesAreGood
<1> QED BY <1>2, <1>3 DEF FilesAreGood, Own

-----------------------------------------------------------------------------
(* The operations on the index. *)
LEMMA ReadableType == ASSUME index \in Index PROVE Readable \subseteq Index
BY ConstantTypes DEF Readable

LEMMA InsertedType == ASSUME NEW idx \in Index, NEW c \in Ids PROVE Inserted(idx, c) \in Index
<1>1. <<c>> \o idx.list \in Seq(Ids)
  BY DEF Index
<1> QED BY <1>1 DEF Inserted, Index

LEMMA SparedType == ASSUME NEW idx \in Index PROVE Spared(idx) \in Seq(Ids)
BY StoreAssumption DEF Spared, Index

LEMMA ToFrontType == ASSUME NEW s \in Seq(Ids), NEW c \in Ids PROVE ToFront(s, c) \in Seq(Ids)
<1>1. CASE c \in ToSet(s)
  <2> DEFINE i == CHOOSE i \in DOMAIN s : s[i] = c
  <2>1. i \in 1..Len(s)
    BY <1>1 DEF ToSet
  <2> HIDE DEF i
  <2>2. RemoveAt(s, i) \in Seq(Ids)
    BY <2>1 DEF RemoveAt
  <2>3. <<c>> \o RemoveAt(s, i) \in Seq(Ids)
    BY <2>2
  <2> QED BY <1>1, <2>3 DEF ToFront, i
<1>2. CASE c \notin ToSet(s)
  BY <1>2 DEF ToFront
<1> QED BY <1>1, <1>2

(* Steps that only move one user on. *)
LEMMA UserMoves ==
  ASSUME IInv, NEW u \in Users, NEW x, GoodUser(x), user' = [user EXCEPT ![u] = x],
         UNCHANGED <<index, files, job, owner>>
  PROVE  IInv'
BY OneUser, SameFiles, SameJobs DEF IInv

LEMMA UserInHand ==
  ASSUME IInv, NEW u \in Users
  PROVE  /\ user[u] \in UserType /\ GoodUser(user[u])
         /\ user[u].snap \in Index
         /\ user[u].snap.active \in Ids \cup {None} /\ user[u].snap.list \in Seq(Ids)
         /\ Readable \subseteq Index
BY ReadableType DEF IInv, UsersAreGood, UserType, Index

LEMMA FileInHand ==
  ASSUME IInv, NEW c \in Ids \cup {None}, There(c)
  PROVE  c \in Ids /\ files[c].turns \in SUBSET Turns /\ Own(files[c].turns, c)
BY DEF There, IInv, FilesAreGood, FileType

LEMMA JobInHand ==
  ASSUME IInv, NEW u \in Users
  PROVE  job[u] \in JobType /\ GoodJob(job[u])
BY DEF IInv, JobsAreGood

LEMMA OpenIInv == ASSUME IInv, NEW u \in Users, Open(u) PROVE IInv'
<1> PICK idx \in Index : user' = [user EXCEPT ![u].op = "open", ![u].at = "opened", ![u].snap = idx]
  BY UserInHand DEF Open
<1> DEFINE x == [user[u] EXCEPT !.op = "open", !.at = "opened", !.snap = idx]
<1>1. user' = [user EXCEPT ![u] = x]
  OBVIOUS
<1>2. GoodUser(user[u]) /\ user[u] \in UserType /\ user[u].at = "closed"
  BY UserInHand DEF Open, At
<1>3. GoodUser(x)
  BY <1>2 DEF GoodUser, UserType, EmptyHanded
<1> HIDE DEF x
<1> QED BY <1>1, <1>3, UserMoves DEF Open

LEMMA OpenActiveIInv == ASSUME IInv, NEW u \in Users, OpenActive(u) PROVE IInv'
<1> DEFINE c == user[u].snap.active
           x == [Closed EXCEPT !.at = "idle", !.id = c, !.msgs = files[c].turns]
<1>1. user' = [user EXCEPT ![u] = x] /\ There(c) /\ UNCHANGED <<index, files, job, owner>>
  BY DEF OpenActive
<1>2. c \in Ids /\ files[c].turns \in SUBSET Turns /\ Own(files[c].turns, c)
  BY <1>1, UserInHand, FileInHand
<1>3. GoodUser(x)
  <2> HIDE DEF c
  <2>1. x \in UserType /\ x.msgs = files[c].turns /\ x.id = c /\ x.got = {} /\ x.at = "idle"
    BY <1>2, ConstantTypes DEF UserType
  <2> QED BY <1>2, <2>1 DEF GoodUser, EmptyHanded, Own
<1> HIDE DEF x
<1> QED BY <1>1, <1>3, UserMoves

LEMMA OpenFreshIInv == ASSUME IInv, NEW u \in Users, NEW c \in Ids, OpenFresh(u, c) PROVE IInv'
<1> DEFINE x == [user[u] EXCEPT !.at = "evict", !.arg = c, !.snap = Inserted(user[u].snap, c)]
<1>1. /\ user' = [user EXCEPT ![u] = x] /\ files' = [files EXCEPT ![c] = File({}, FALSE)]
      /\ UNCHANGED <<index, job, owner>> /\ user[u].at = "opened"
  BY DEF OpenFresh
<1>2. GoodUser(user[u]) /\ user[u] \in UserType /\ Inserted(user[u].snap, c) \in Index
  BY UserInHand, InsertedType
<1>3. GoodUser(x)
  BY <1>1, <1>2 DEF GoodUser, UserType, EmptyHanded, Own
<1>4. FilesAreGood'
  <2>1. Own({}, c) /\ {} \in SUBSET Turns /\ FALSE \in BOOLEAN
    BY DEF Own
  <2> QED BY <1>1, <2>1, OneFile
<1> HIDE DEF x
<1> QED BY <1>1, <1>3, <1>4, OneUser, SameJobs DEF IInv

LEMMA OpenCliIInv == ASSUME IInv, NEW u \in Users, OpenCli(u) PROVE IInv'
<1>1. GoodUser(user[u]) /\ user[u] \in UserType /\ user[u].at = "closed"
      /\ UNCHANGED <<index, files, job, owner>>
  BY UserInHand DEF OpenCli, At
<1>2. CASE user' = [user EXCEPT ![u].op = "first", ![u].at = "create"]
  <2> DEFINE x == [user[u] EXCEPT !.op = "first", !.at = "create"]
  <2>1. user' = [user EXCEPT ![u] = x]
    BY <1>2
  <2>2. GoodUser(x)
    BY <1>1 DEF GoodUser, UserType, EmptyHanded
  <2> HIDE DEF x
  <2> QED BY <1>1, <2>1, <2>2, UserMoves
<1>3. ASSUME NEW c \in Ids,
             user' = [user EXCEPT ![u].op = "switch", ![u].at = "load", ![u].arg = c]
      PROVE  IInv'
  <2> DEFINE x == [user[u] EXCEPT !.op = "switch", !.at = "load", !.arg = c]
  <2>1. user' = [user EXCEPT ![u] = x]
    BY <1>3
  <2>2. GoodUser(x)
    BY <1>1, <1>3 DEF GoodUser, UserType, EmptyHanded, Own
  <2> HIDE DEF x
  <2> QED BY <1>1, <2>1, <2>2, UserMoves
<1> QED BY <1>2, <1>3 DEF OpenCli

(* A summary thread starts with nothing in hand. *)
LEMMA SummarizeKeeps == ASSUME IInv, NEW u \in Users, Summarize(u), UNCHANGED owner PROVE JobsAreGood'
<1>1. CASE UNCHANGED job
  BY <1>1, SameJobs
<1>2. ASSUME job' = [job EXCEPT ![u] = [NoJob EXCEPT !.at = "ready", !.id = user[u].id]]
      PROVE  JobsAreGood'
  <2> DEFINE z == [NoJob EXCEPT !.at = "ready", !.id = user[u].id]
  <2>1. user[u].id \in Ids \cup {None}
    BY UserInHand DEF UserType
  <2>2. z \in JobType /\ z.got = {}
    BY <2>1, ConstantTypes DEF JobType
  <2>3. GoodJob(z)
    BY <2>2 DEF GoodJob, Own
  <2> HIDE DEF z
  <2>4. job' = [job EXCEPT ![u] = z]
    BY <1>2 DEF z
  <2> QED BY <2>3, <2>4, OneJob
<1> QED BY <1>1, <1>2 DEF Summarize

LEMMA NewIInv == ASSUME IInv, NEW u \in Users, New(u) PROVE IInv'
<1> DEFINE x == [user[u] EXCEPT !.op = "new", !.at = "create"]
<1>1. user' = [user EXCEPT ![u] = x] /\ user[u].at = "idle" /\ UNCHANGED <<index, files, owner>>
      /\ (Summarize(u) \/ UNCHANGED job)
  BY DEF New, Idle
<1>2. GoodUser(user[u]) /\ user[u] \in UserType
  BY UserInHand
<1>3. GoodUser(x)
  BY <1>1, <1>2 DEF GoodUser, UserType, EmptyHanded
<1>4. JobsAreGood'
  BY <1>1, SummarizeKeeps, SameJobs
<1> HIDE DEF x
<1> QED BY <1>1, <1>3, <1>4, OneUser, SameFiles DEF IInv

LEMMA CreateIInv == ASSUME IInv, NEW u \in Users, NEW c \in Ids, Create(u, c) PROVE IInv'
<1> DEFINE x == [user[u] EXCEPT !.at = "list", !.arg = c]
<1>0. c # None
  BY StoreAssumption
<1>1. /\ user' = [user EXCEPT ![u] = x] /\ files' = [files EXCEPT ![c] = File({}, FALSE)]
      /\ UNCHANGED <<index, job, owner>> /\ user[u].at = "create"
  BY DEF Create
<1>2. GoodUser(user[u]) /\ user[u] \in UserType
  BY UserInHand
<1>3. GoodUser(x)
  BY <1>0, <1>1, <1>2 DEF GoodUser, UserType, EmptyHanded, Own
<1>4. FilesAreGood'
  <2>1. Own({}, c) /\ {} \in SUBSET Turns /\ FALSE \in BOOLEAN
    BY DEF Own
  <2> QED BY <1>1, <2>1, OneFile
<1> HIDE DEF x
<1> QED BY <1>1, <1>3, <1>4, OneUser, SameJobs DEF IInv

LEMMA ListIInv == ASSUME IInv, NEW u \in Users, List(u) PROVE IInv'
<1> PICK idx \in Index :
      user' = [user EXCEPT ![u].at = "evict", ![u].snap = Inserted(idx, user[u].arg)]
  BY UserInHand DEF List
<1> DEFINE x == [user[u] EXCEPT !.at = "evict", !.snap = Inserted(idx, user[u].arg)]
<1>1. user' = [user EXCEPT ![u] = x]
  OBVIOUS
<1>2. GoodUser(user[u]) /\ user[u] \in UserType /\ user[u].at = "list"
  BY UserInHand DEF List
<1>3. Inserted(idx, user[u].arg) \in Index
  <2>1. user[u].arg \in Ids
    BY <1>2 DEF GoodUser, UserType
  <2> QED BY <2>1, InsertedType
<1>4. GoodUser(x)
  BY <1>2, <1>3 DEF GoodUser, UserType, EmptyHanded
<1> HIDE DEF x
<1> QED BY <1>1, <1>4, UserMoves DEF List

LEMMA EvictIInv == ASSUME IInv, NEW u \in Users, Evict(u) PROVE IInv'
<1> DEFINE kept == Spared(user[u].snap)
           x == [user[u] EXCEPT !.at = "index", !.snap.list = kept, !.got = {}]
<1>1. /\ user' = [user EXCEPT ![u] = x] /\ user[u].at = "evict"
      /\ files' = [c \in Ids |-> IF c \in ToSet(user[u].snap.list) \ ToSet(kept) THEN NoFile
                                 ELSE files[c]]
      /\ UNCHANGED <<index, job, owner>>
  BY DEF Evict
<1>2. GoodUser(user[u]) /\ user[u] \in UserType /\ user[u].snap \in Index /\ kept \in Seq(Ids)
  BY UserInHand, SparedType
<1> HIDE DEF kept
<1>3. [user[u].snap EXCEPT !.list = kept] \in Index
  BY <1>2 DEF Index
<1>4. GoodUser(x)
  BY <1>1, <1>2, <1>3 DEF GoodUser, UserType, EmptyHanded, Own
<1>5. FilesAreGood'
  <2>1. files' \in [Ids -> FileType]
    BY <1>1, ConstantTypes DEF IInv, FilesAreGood
  <2>2. ASSUME NEW c \in Ids PROVE Own(files'[c].turns, c)
    BY <1>1, ConstantTypes DEF IInv, FilesAreGood, Own
  <2> QED BY <1>1, <2>1, <2>2 DEF FilesAreGood, Own
<1> HIDE DEF x
<1> QED BY <1>1, <1>4, <1>5, OneUser, SameJobs DEF IInv

LEMMA AfterSaveKeeps == ASSUME IInv, NEW u \in Users, AfterSave(u), UNCHANGED owner PROVE JobsAreGood'
BY SummarizeKeeps, SameJobs DEF AfterSave

(* What is shown next belongs to the conversation that is made active. *)
LEMMA WriteIndexIInv == ASSUME IInv, NEW u \in Users, WriteIndex(u) PROVE IInv'
<1>1. /\ user[u].at = "index" /\ index' = user[u].snap
      /\ AfterSave(u) /\ UNCHANGED <<files, owner>>
  BY DEF WriteIndex
<1>2. GoodUser(user[u]) /\ user[u] \in UserType /\ user[u].snap \in Index
  BY UserInHand
<1>3. JobsAreGood' /\ FilesAreGood' /\ index' \in Index /\ owner' \in Seq(Ids \cup {None})
  BY <1>1, <1>2, AfterSaveKeeps, SameFiles DEF IInv
<1>4. CASE user[u].op = "first"
  <2> DEFINE x == [user[u] EXCEPT !.op = "switch", !.at = "load", !.snap = NoIndex]
  <2>1. user' = [user EXCEPT ![u] = x]
    BY <1>4 DEF WriteIndex
  <2>2. GoodUser(x)
    BY <1>2, <1>4, ConstantTypes DEF GoodUser, UserType, EmptyHanded
  <2> HIDE DEF x
  <2> QED BY <1>1, <1>3, <2>1, <2>2, OneUser DEF IInv
<1>5. CASE user[u].op # "first"
  <2> DEFINE x == [Closed EXCEPT !.at = "idle", !.id = user[u].arg, !.msgs = user[u].got]
  <2>1. user' = [user EXCEPT ![u] = x]
    BY <1>5 DEF WriteIndex
  <2>2. x \in UserType /\ x.id = user[u].arg /\ x.msgs = user[u].got /\ x.got = {} /\ x.at = "idle"
    BY <1>2, ConstantTypes DEF UserType
  <2>3. GoodUser(x)
    BY <1>2, <2>2 DEF GoodUser, EmptyHanded, Own
  <2> HIDE DEF x
  <2> QED BY <1>1, <1>3, <2>1, <2>3, OneUser DEF IInv
<1> QED BY <1>4, <1>5

LEMMA SwitchIInv == ASSUME IInv, NEW u \in Users, NEW c \in Ids, Switch(u, c) PROVE IInv'
<1> DEFINE x == [user[u] EXCEPT !.op = "switch", !.at = "load", !.arg = c]
<1>1. user' = [user EXCEPT ![u] = x] /\ user[u].at = "idle" /\ UNCHANGED <<index, files, owner>>
      /\ (Summarize(u) \/ UNCHANGED job)
  BY DEF Switch, Idle
<1>2. GoodUser(user[u]) /\ user[u] \in UserType
  BY UserInHand
<1>3. GoodUser(x)
  BY <1>1, <1>2 DEF GoodUser, UserType, EmptyHanded, Own
<1>4. JobsAreGood'
  BY <1>1, SummarizeKeeps, SameJobs
<1> HIDE DEF x
<1> QED BY <1>1, <1>3, <1>4, OneUser, SameFiles DEF IInv

LEMMA LoadTargetIInv == ASSUME IInv, NEW u \in Users, LoadTarget(u) PROVE IInv'
<1> DEFINE c == user[u].arg
           x == [user[u] EXCEPT !.at = "switch", !.got = files[c].turns]
<1>1. /\ user' = [user EXCEPT ![u] = x] /\ user[u].at = "load" /\ There(c)
      /\ UNCHANGED <<index, files, job, owner>>
  BY DEF LoadTarget
<1>2. GoodUser(user[u]) /\ user[u] \in UserType
  BY UserInHand
<1>3. files[c].turns \in SUBSET Turns /\ Own(files[c].turns, c)
  BY <1>1, <1>2, FileInHand DEF UserType
<1>4. GoodUser(x)
  BY <1>1, <1>2, <1>3 DEF GoodUser, UserType, EmptyHanded
<1> HIDE DEF x
<1> QED BY <1>1, <1>4, UserMoves

LEMMA SwitchActiveIInv == ASSUME IInv, NEW u \in Users, SwitchActive(u) PROVE IInv'
<1> PICK idx \in Index :
      user' = [user EXCEPT ![u].at = "index", ![u].snap = [idx EXCEPT !.active = user[u].arg]]
  BY UserInHand DEF SwitchActive
<1> DEFINE x == [user[u] EXCEPT !.at = "index", !.snap = [idx EXCEPT !.active = user[u].arg]]
<1>1. user' = [user EXCEPT ![u] = x]
  OBVIOUS
<1>2. GoodUser(user[u]) /\ user[u] \in UserType
  BY UserInHand
<1>3. [idx EXCEPT !.active = user[u].arg] \in Index
  BY <1>2 DEF UserType, Index
<1>4. GoodUser(x)
  BY <1>2, <1>3 DEF GoodUser, UserType, EmptyHanded
<1> HIDE DEF x
<1> QED BY <1>1, <1>4, UserMoves DEF SwitchActive

-----------------------------------------------------------------------------
(* A turn adds to the history; what was owned before stays owned. *)
LEMMA TurnIInv == ASSUME IInv, NEW u \in Users, Turn(u) PROVE IInv'
<1> DEFINE t == Len(owner) + 1
<1> PICK c : c = user[u].id
  OBVIOUS
<1> PICK shown : shown = user[u].msgs \cup {t}
  OBVIOUS
<1> PICK titled : titled = (There(c) /\ files[c].titled)
  OBVIOUS
<1> PICK x :
      x = IF c = None THEN [user[u] EXCEPT !.msgs = shown]
          ELSE [user[u] EXCEPT !.op = "save", !.at = "file", !.msgs = shown, !.arg = c,
                               !.got = shown, !.titled = titled]
  OBVIOUS
<1>1. /\ user[u].at = "idle" /\ t \in Turns /\ owner' = Append(owner, c)
      /\ user' = [user EXCEPT ![u] = x] /\ UNCHANGED <<index, files, job>>
  BY DEF Turn, Idle
<1>2. GoodUser(user[u]) /\ user[u] \in UserType /\ c \in Ids \cup {None}
  BY UserInHand DEF UserType
<1>3. /\ owner' \in Seq(Ids \cup {None}) /\ Len(owner') = t /\ owner'[t] = c
      /\ Len(owner) \in Nat /\ \A i \in 1..Len(owner) : owner'[i] = owner[i]
  BY <1>1, <1>2 DEF IInv
<1>4. ASSUME NEW S, NEW d, Own(S, d) PROVE Own(S, d)'
  BY <1>3, <1>4 DEF Own
<1>5. Own(shown, c)'
  BY <1>2, <1>3 DEF Own, GoodUser
<1>6. shown \in SUBSET Turns /\ titled \in BOOLEAN
  <2>1. shown \in SUBSET Turns
    BY <1>1, <1>2 DEF UserType
  <2>2. (There(c) /\ files[c].titled) \in BOOLEAN
    BY DEF There
  <2> QED BY <2>1, <2>2
<1> HIDE DEF t
<1>7. GoodUser(x)'
  <2>1. CASE c = None
    <3>1. x \in UserType /\ x.id = c /\ x.msgs = shown /\ x.arg = user[u].arg /\ x.got = user[u].got
          /\ x.at = "idle" /\ x.op = user[u].op
      BY <1>1, <1>2, <1>6, <2>1 DEF UserType
    <3>2. Own(x.got, x.arg)' /\ EmptyHanded(x)
      BY <1>1, <1>2, <1>4, <3>1 DEF GoodUser, EmptyHanded
    <3> QED BY <1>5, <3>1, <3>2 DEF GoodUser, EmptyHanded, Own
  <2>2. CASE c # None
    <3>1. x \in UserType /\ x.id = c /\ x.msgs = shown /\ x.arg = c /\ x.got = shown
          /\ x.at = "file" /\ x.op = "save"
      BY <1>1, <1>2, <1>6, <2>2 DEF UserType
    <3> QED BY <1>5, <2>2, <3>1 DEF GoodUser, EmptyHanded, Own
  <2> QED BY <2>1, <2>2
<1>8. UsersAreGood'
  <2>0. x \in UserType
    BY <1>7 DEF GoodUser
  <2>1. user' \in [Users -> UserType]
    BY <1>1, <2>0 DEF IInv, UsersAreGood
  <2>2. ASSUME NEW v \in Users PROVE GoodUser(user[v])'
    <3>1. CASE v = u
      <4>1. user'[v] = x
        BY <1>1, <3>1 DEF IInv, UsersAreGood
      <4> QED BY <1>7, <4>1 DEF GoodUser, Own, EmptyHanded
    <3>2. CASE v # u
      <4>1. user'[v] = user[v] /\ GoodUser(user[v])
        BY <1>1, <3>2 DEF IInv, UsersAreGood
      <4> QED BY <1>4, <4>1 DEF GoodUser, EmptyHanded
    <3> QED BY <3>1, <3>2
  <2> QED BY <2>1, <2>2 DEF UsersAreGood
<1>9. FilesAreGood' /\ JobsAreGood'
  <2>1. FilesAreGood'
    BY <1>1, <1>4 DEF IInv, FilesAreGood
  <2>2. JobsAreGood'
    BY <1>1, <1>4 DEF IInv, JobsAreGood, GoodJob
  <2> QED BY <2>1, <2>2
<1> QED BY <1>1, <1>3, <1>8, <1>9 DEF IInv

LEMMA WriteFileIInv == ASSUME IInv, NEW u \in Users, WriteFile(u) PROVE IInv'
<1> DEFINE x == [user[u] EXCEPT !.at = "stats", !.titled = FALSE]
<1>1. /\ user' = [user EXCEPT ![u] = x] /\ user[u].at = "file"
      /\ files' = [files EXCEPT ![user[u].arg] = File(user[u].msgs, user[u].titled)]
      /\ UNCHANGED <<index, job, owner>>
  BY DEF WriteFile
<1>2. GoodUser(user[u]) /\ user[u] \in UserType
  BY UserInHand
<1>3. GoodUser(x)
  BY <1>1, <1>2 DEF GoodUser, UserType, EmptyHanded
<1>4. FilesAreGood'
  <2>1. user[u].arg = user[u].id /\ Own(user[u].msgs, user[u].id)
        /\ user[u].msgs \in SUBSET Turns /\ user[u].titled \in BOOLEAN
    BY <1>1, <1>2 DEF GoodUser, UserType
  <2>2. Own(user[u].msgs, user[u].arg)
    BY <2>1
  <2> QED BY <1>1, <2>1, <2>2, OneFile
<1> HIDE DEF x
<1> QED BY <1>1, <1>3, <1>4, OneUser, SameJobs DEF IInv

LEMMA RefreshStatsIInv == ASSUME IInv, NEW u \in Users, RefreshStats(u) PROVE IInv'
<1> PICK idx \in Index :
      user' = [user EXCEPT ![u].at = "index",
                           ![u].snap = [idx EXCEPT !.list = ToFront(@, user[u].arg)]]
  BY UserInHand DEF RefreshStats
<1> DEFINE snap == [idx EXCEPT !.list = ToFront(idx.list, user[u].arg)]
           x == [user[u] EXCEPT !.at = "index", !.snap = snap]
<1>1. user' = [user EXCEPT ![u] = x]
  OBVIOUS
<1>2. GoodUser(user[u]) /\ user[u] \in UserType /\ user[u].at = "stats"
  BY UserInHand DEF RefreshStats
<1>3. snap \in Index
  <2>1. user[u].arg \in Ids /\ idx.list \in Seq(Ids)
    BY <1>2 DEF GoodUser, UserType, Index
  <2>2. ToFront(idx.list, user[u].arg) \in Seq(Ids)
    BY <2>1, ToFrontType
  <2> QED BY <2>2 DEF Index
<1> HIDE DEF snap
<1>4. GoodUser(x)
  BY <1>2, <1>3 DEF GoodUser, UserType, EmptyHanded
<1> HIDE DEF x
<1> QED BY <1>1, <1>4, UserMoves DEF RefreshStats

LEMMA FailIInv == ASSUME IInv, NEW u \in Users, Fail(u) PROVE IInv'
<1> DEFINE kept == IF user[u].op = "new" /\ u \in Overlays THEN {} ELSE user[u].msgs
           x == IF user[u].op = "open" THEN [Closed EXCEPT !.op = "new", !.at = "create"]
                ELSE IF u \in Clis /\ user[u].id = None THEN Closed
                ELSE [Closed EXCEPT !.at = "idle", !.id = user[u].id, !.msgs = kept]
<1>1. user' = [user EXCEPT ![u] = x] /\ AfterSave(u) /\ UNCHANGED <<index, files, owner>>
  BY DEF Fail
<1>2. GoodUser(user[u]) /\ user[u] \in UserType
  BY UserInHand
<1>3. kept \in SUBSET Turns /\ Own(kept, user[u].id) /\ user[u].id \in Ids \cup {None}
  BY <1>2 DEF GoodUser, UserType, Own
<1> HIDE DEF kept
<1>4. /\ x \in UserType /\ x.got = {} /\ x.at \in {"create", "closed", "idle"}
      /\ \/ x.msgs = {}
         \/ /\ x.msgs = kept
            /\ x.id = user[u].id
  BY <1>3, ConstantTypes DEF UserType
<1> HIDE DEF x
<1>5. GoodUser(x)
  BY <1>3, <1>4 DEF GoodUser, EmptyHanded, Own
<1> QED BY <1>1, <1>5, OneUser, SameFiles, AfterSaveKeeps DEF IInv

LEMMA CloseIInv == ASSUME IInv, NEW u \in Users, Close(u) PROVE IInv'
<1>1. GoodUser(Closed) /\ GoodJob(NoJob)
  BY ConstantTypes DEF GoodUser, GoodJob, Own, EmptyHanded
<1>2. UsersAreGood'
  BY <1>1, OneUser DEF Close
<1>3. JobsAreGood'
  BY <1>1, OneJob, SameJobs DEF Close
<1> QED BY <1>2, <1>3, SameFiles DEF Close, IInv

-----------------------------------------------------------------------------
(* The summary thread's steps. *)
LEMMA JobMoves ==
  ASSUME IInv, NEW u \in Users, NEW z, GoodJob(z), job' = [job EXCEPT ![u] = z],
         index' \in Index, UNCHANGED <<files, user, owner>>
  PROVE  IInv'
BY OneJob, SameFiles, SameUsers DEF IInv

LEMMA JobLoadIInv == ASSUME IInv, NEW u \in Users, JobLoad(u) PROVE IInv'
<1> DEFINE z == IF job[u].id \in ToSet(index.list)
                THEN [job[u] EXCEPT !.at = "index", !.snap = index] ELSE NoJob
<1>1. job' = [job EXCEPT ![u] = z] /\ UNCHANGED <<index, files, user, owner>>
  BY DEF JobLoad
<1>2. index \in Index /\ job[u] \in JobType /\ GoodJob(job[u])
  BY JobInHand DEF IInv
<1>3. GoodJob(z)
  BY <1>2, ConstantTypes DEF GoodJob, JobType, Own
<1> HIDE DEF z
<1> QED BY <1>1, <1>2, <1>3, JobMoves

LEMMA JobIndexIInv == ASSUME IInv, NEW u \in Users, JobIndex(u) PROVE IInv'
<1> DEFINE z == [job[u] EXCEPT !.at = "read", !.snap = NoIndex]
<1>1. job' = [job EXCEPT ![u] = z] /\ index' = job[u].snap /\ UNCHANGED <<files, user, owner>>
  BY DEF JobIndex
<1>2. job[u] \in JobType /\ GoodJob(job[u]) /\ job[u].snap \in Index
  BY JobInHand DEF JobType
<1>3. GoodJob(z)
  BY <1>2, ConstantTypes DEF GoodJob, JobType
<1> HIDE DEF z
<1> QED BY <1>1, <1>2, <1>3, JobMoves

LEMMA JobReadIInv == ASSUME IInv, NEW u \in Users, JobRead(u) PROVE IInv'
<1> DEFINE c == job[u].id
           z == IF There(c) THEN [job[u] EXCEPT !.at = "write", !.got = files[c].turns] ELSE NoJob
<1>1. job' = [job EXCEPT ![u] = z] /\ UNCHANGED <<index, files, user, owner>>
  BY DEF JobRead
<1>2. index \in Index /\ job[u] \in JobType /\ GoodJob(job[u]) /\ c \in Ids \cup {None}
  BY JobInHand DEF IInv, JobType
<1>3. GoodJob(z)
  <2>1. CASE There(c)
    <3>1. files[c].turns \in SUBSET Turns /\ Own(files[c].turns, c)
      BY <1>2, <2>1, FileInHand
    <3>2. z \in JobType /\ z.got = files[c].turns /\ z.id = c
      BY <1>2, <2>1, <3>1 DEF JobType
    <3> HIDE DEF z
    <3> QED BY <3>1, <3>2 DEF GoodJob
  <2>2. CASE ~There(c)
    BY <2>2, ConstantTypes DEF GoodJob, Own
  <2> QED BY <2>1, <2>2
<1> HIDE DEF z
<1> QED BY <1>1, <1>2, <1>3, JobMoves

LEMMA JobWriteIInv == ASSUME IInv, NEW u \in Users, JobWrite(u) PROVE IInv'
<1>1. /\ files' = [files EXCEPT ![job[u].id] = File(job[u].got, TRUE)]
      /\ job' = [job EXCEPT ![u] = NoJob] /\ UNCHANGED <<index, user, owner>>
  BY DEF JobWrite
<1>2. job[u].got \in SUBSET Turns /\ Own(job[u].got, job[u].id) /\ GoodJob(NoJob)
  BY JobInHand, ConstantTypes DEF GoodJob, JobType, Own
<1>3. FilesAreGood'
  BY <1>1, <1>2, OneFile
<1>4. JobsAreGood'
  BY <1>1, <1>2, OneJob
<1> QED BY <1>1, <1>3, <1>4, SameUsers DEF IInv

-----------------------------------------------------------------------------
LEMMA NextIInv == IInv /\ [Next]_vars => IInv'
<1> SUFFICES ASSUME IInv, [Next]_vars PROVE IInv'
  OBVIOUS
<1>1. CASE UNCHANGED vars
  BY <1>1, SameFiles, SameUsers, SameJobs DEF vars, IInv
<1>2. ASSUME NEW u \in Users, UserStep(u) PROVE IInv'
  BY <1>2, OpenIInv, OpenActiveIInv, OpenCliIInv, NewIInv, ListIInv, EvictIInv, WriteIndexIInv,
     LoadTargetIInv, SwitchActiveIInv, TurnIInv, WriteFileIInv, RefreshStatsIInv, FailIInv, CloseIInv,
     OpenFreshIInv, CreateIInv, SwitchIInv DEF UserStep
<1>3. ASSUME NEW u \in Users, Job(u) PROVE IInv'
  BY <1>3, JobLoadIInv, JobIndexIInv, JobReadIInv, JobWriteIInv DEF Job
<1> QED BY <1>1, <1>2, <1>3 DEF Next

(* What every user and every summary thread holds in hand is owned by the  *)
(* conversation it is held for, at every step of every operation.          *)
THEOREM StoreInvariant == Spec => []IInv
<1>1. Init => IInv
  BY InitIInv
<1>2. IInv /\ [Next]_vars => IInv'
  BY NextIInv
<1> QED BY <1>1, <1>2, PTL DEF Spec

(* No turn reaches the file of another conversation (save_active_messages, *)
(* switch_active and update_summary, whatever stands between their reads   *)
(* and their writes).                                                      *)
THEOREM StoreKeepsTurnsApart == Spec => []TurnsStayInConversation
<1>1. IInv => TurnsStayInConversation
  BY DEF IInv, FilesAreGood, Own, TurnsStayInConversation
<1> QED BY <1>1, StoreInvariant, PTL

-----------------------------------------------------------------------------
(* The cap. *)
Stored == {c \in Ids : There(c)}

(* The users who made a file and have not made room for it yet. *)
InFlight == {u \in Users : user[u].at \in {"list", "evict"}}

Room == Cardinality(Stored) - Cardinality(InFlight)

(* A list that can be the index. *)
Tight(list, room) == IsInjective(list) /\ Len(list) <= Cap /\ Len(list) <= room

(* One in which a user has put a conversation and has yet to make room. *)
Loose(list, room) == IsInjective(list) /\ Len(list) <= Cap + 1 /\ Len(list) <= room + 1

TightUser(x, room) ==
  IF x.at = "evict" THEN Loose(x.snap.list, room) ELSE Tight(x.snap.list, room)

(* Every id that is in some list. *)
Mentioned ==
  {c \in Ids : \/ c \in ToSet(index.list)
               \/ \E u \in Users : c \in ToSet(user[u].snap.list) \cup ToSet(job[u].snap.list)}

(* An id made for a new conversation is in no list until its user puts it  *)
(* into one, and nobody else has it.                                       *)
NewIsUnlisted ==
  \A u \in Users : user[u].at = "list" =>
    /\ user[u].arg \notin Mentioned
    /\ \A v \in Users : v # u /\ user[v].at = "list" => user[v].arg # user[u].arg

CapInv ==
  /\ IsFiniteSet(Stored)
  /\ Tight(index.list, Room)
  /\ \A u \in Users : TightUser(user[u], Room) /\ Tight(job[u].snap.list, Room)
  /\ NewIsUnlisted

-----------------------------------------------------------------------------
LEMMA RoomType ==
  ASSUME IsFiniteSet(Stored)
  PROVE  /\ IsFiniteSet(InFlight) /\ Cardinality(InFlight) \in Nat
         /\ Cardinality(Stored) \in Nat /\ Room \in Int
<1>1. IsFiniteSet(InFlight)
  BY StoreAssumption, FS_Subset DEF InFlight
<1> QED BY <1>1, FS_CardinalityType DEF Room

LEMMA NoListIsTight ==
  ASSUME NEW room \in Nat
  PROVE  NoIndex.list = <<>> /\ Tight(<<>>, room) /\ ToSet(<<>>) = {}
BY StoreAssumption DEF NoIndex, Tight, IsInjective, ToSet

(* The lists anyone may have in hand when not making room. *)
LEMMA ListsAreTight ==
  ASSUME IInv, CapInv, NEW u \in Users
  PROVE  /\ Room \in Nat
         /\ Tight(<<>>, Room) /\ ToSet(<<>>) = {} /\ NoIndex.list = <<>>
         /\ Tight(index.list, Room) /\ ToSet(index.list) \subseteq Mentioned
         /\ user[u].at # "evict" => Tight(user[u].snap.list, Room)
         /\ ToSet(user[u].snap.list) \subseteq Mentioned
         /\ Tight(job[u].snap.list, Room) /\ ToSet(job[u].snap.list) \subseteq Mentioned
<1>1. Room \in Nat
  <2>1. Room \in Int
    BY RoomType DEF CapInv
  <2>2. Len(index.list) \in Nat /\ Len(index.list) <= Room
    BY DEF CapInv, Tight, IInv, Index
  <2> QED BY <2>1, <2>2
<1>2. /\ ToSet(index.list) \subseteq Mentioned
      /\ ToSet(user[u].snap.list) \subseteq Mentioned
      /\ ToSet(job[u].snap.list) \subseteq Mentioned
  <2>1. /\ index.list \in Seq(Ids) /\ user[u].snap.list \in Seq(Ids) /\ job[u].snap.list \in Seq(Ids)
    BY UserInHand, JobInHand DEF IInv, Index, JobType
  <2>2. ToSet(index.list) \subseteq Ids /\ ToSet(user[u].snap.list) \subseteq Ids /\ ToSet(job[u].snap.list) \subseteq Ids
    BY <2>1 DEF ToSet
  <2> QED BY <2>2 DEF Mentioned
<1>3. Tight(<<>>, Room) /\ ToSet(<<>>) = {} /\ NoIndex.list = <<>>
  BY <1>1, NoListIsTight
<1>4. /\ Tight(index.list, Room) /\ Tight(job[u].snap.list, Room)
      /\ user[u].at # "evict" => Tight(user[u].snap.list, Room)
  BY DEF CapInv, TightUser
<1> QED BY <1>1, <1>2, <1>3, <1>4

LEMMA TightStays ==
  ASSUME NEW list, Len(list) \in Nat, NEW a \in Int, NEW b \in Int, a <= b
  PROVE  (Tight(list, a) => Tight(list, b)) /\ (Loose(list, a) => Loose(list, b))
BY DEF Tight, Loose

LEMMA RoomGrows ==
  ASSUME IsFiniteSet(Stored), IsFiniteSet(Stored'), Stored \subseteq Stored', InFlight' \subseteq InFlight
  PROVE  Room' \in Int /\ Room <= Room'
<1>1. /\ IsFiniteSet(InFlight) /\ Cardinality(InFlight) \in Nat
      /\ Cardinality(Stored) \in Nat /\ Room \in Int
  BY RoomType
<1>2. IsFiniteSet(InFlight') /\ Cardinality(InFlight') \in Nat /\ Cardinality(InFlight') <= Cardinality(InFlight)
  BY <1>1, FS_Subset, FS_CardinalityType
<1>3. Cardinality(Stored') \in Nat /\ Cardinality(Stored) <= Cardinality(Stored')
  BY FS_Subset, FS_CardinalityType
<1> QED BY <1>1, <1>2, <1>3 DEF Room

(* A step after which there is no less room, and what changed is tight.    *)
LEMMA StepIsTight ==
  ASSUME IInv, IInv', CapInv, IsFiniteSet(Stored'), Room' \in Int, Room <= Room', NewIsUnlisted',
         index'.list = index.list \/ Tight(index'.list, Room'),
         \A v \in Users : user'[v] = user[v] \/ TightUser(user'[v], Room'),
         \A v \in Users : job'[v].snap.list = job[v].snap.list \/ Tight(job'[v].snap.list, Room')
  PROVE  CapInv'
<1>1. Room \in Int
  BY RoomType DEF CapInv
<1>2. Tight(index'.list, Room')
  <2>1. Len(index.list) \in Nat
    BY DEF IInv, Index
  <2> QED BY <1>1, <2>1, TightStays DEF CapInv
<1>3. ASSUME NEW v \in Users
      PROVE  TightUser(user'[v], Room') /\ Tight(job'[v].snap.list, Room')
  <2>1. Len(user[v].snap.list) \in Nat
    BY UserInHand
  <2>2. Len(job[v].snap.list) \in Nat
    BY JobInHand DEF JobType, Index
  <2>3. TightUser(user'[v], Room')
    BY <1>1, <2>1, TightStays DEF CapInv, TightUser
  <2>4. Tight(job'[v].snap.list, Room')
    BY <1>1, <2>2, TightStays DEF CapInv
  <2> QED BY <2>3, <2>4
<1>4. /\ Tight(index.list, Room)' /\ IsFiniteSet(Stored)'
      /\ \A v \in Users : (TightUser(user[v], Room) /\ Tight(job[v].snap.list, Room))'
  BY <1>2, <1>3 DEF Tight, TightUser, Loose
<1> QED BY <1>4 DEF CapInv

(* A step of u that neither makes a conversation nor makes room. *)
LEMMA PlainStep ==
  ASSUME IInv, IInv', CapInv, NEW u \in Users,
         Stored \subseteq Stored', IsFiniteSet(Stored'),
         \A v \in Users : v # u => user'[v] = user[v],
         user'[u] # user[u] =>
           /\ user'[u].at \notin {"list", "evict"}
           /\ Tight(user'[u].snap.list, Room) /\ ToSet(user'[u].snap.list) \subseteq Mentioned,
         Tight(index'.list, Room) /\ ToSet(index'.list) \subseteq Mentioned,
         \A v \in Users : Tight(job'[v].snap.list, Room) /\ ToSet(job'[v].snap.list) \subseteq Mentioned
  PROVE  CapInv'
<1>1. InFlight' \subseteq InFlight
  BY DEF InFlight
<1>2. IsFiniteSet(Stored) /\ Room \in Int
  BY RoomType DEF CapInv
<1>3. Room' \in Int /\ Room <= Room'
  BY <1>1, <1>2, RoomGrows
<1>4. Len(index'.list) \in Nat /\ \A v \in Users : Len(user'[v].snap.list) \in Nat /\ Len(job'[v].snap.list) \in Nat
  BY DEF IInv, UsersAreGood, JobsAreGood, UserType, JobType, Index
<1>5. Tight(index'.list, Room')
  BY <1>2, <1>3, <1>4, TightStays
<1>6. \A v \in Users : user'[v] = user[v] \/ TightUser(user'[v], Room')
  BY <1>2, <1>3, <1>4, TightStays DEF TightUser
<1>7. \A v \in Users : Tight(job'[v].snap.list, Room')
  BY <1>2, <1>3, <1>4, TightStays
<1>8. Mentioned' \subseteq Mentioned
  <2>1. ASSUME NEW v \in Users
        PROVE  ToSet(user'[v].snap.list) \subseteq Mentioned /\ ToSet(job'[v].snap.list) \subseteq Mentioned
    <3>1. ToSet(user[v].snap.list) \subseteq Mentioned
      BY ListsAreTight
    <3> QED BY <3>1
  <2>2. \A c \in Mentioned' : \/ c \in ToSet(index'.list)
                              \/ \E v \in Users : c \in ToSet(user'[v].snap.list) \cup ToSet(job'[v].snap.list)
    BY DEF Mentioned, ToSet
  <2> HIDE DEF Mentioned
  <2> QED BY <2>1, <2>2
<1>9. NewIsUnlisted'
  <2> SUFFICES ASSUME NEW v \in Users, user'[v].at = "list"
               PROVE  /\ user'[v].arg \notin Mentioned'
                      /\ \A w \in Users : w # v /\ user'[w].at = "list" => user'[w].arg # user'[v].arg
    BY DEF NewIsUnlisted
  <2>1. user'[v] = user[v] /\ \A w \in Users : user'[w].at = "list" => user'[w] = user[w]
    OBVIOUS
  <2> QED BY <1>8, <2>1 DEF CapInv, NewIsUnlisted
<1> QED BY <1>2, <1>3, <1>5, <1>6, <1>7, <1>9, StepIsTight

LEMMA StoredGrows ==
  ASSUME IInv, CapInv, NEW c, NEW S, NEW b, files' = [files EXCEPT ![c] = File(S, b)]
  PROVE  /\ Stored \subseteq Stored' /\ Stored' \subseteq Stored \cup {c} /\ IsFiniteSet(Stored')
         /\ c \in Ids => Stored' = Stored \cup {c}
<1>1. files \in [Ids -> FileType] /\ File(S, b).there
  BY DEF IInv, FilesAreGood, File
<1>2. \A d \in Ids : files'[d] = IF d = c THEN File(S, b) ELSE files[d]
  BY <1>1
<1>3. Stored' = {d \in Ids : d # None /\ files'[d].there}
  BY DEF Stored, There
<1>4. Stored \subseteq Stored' /\ Stored' \subseteq Stored \cup {c}
  BY <1>1, <1>2, <1>3 DEF Stored, There
<1>5. c \in Ids => c \in Stored'
  BY <1>1, <1>2, <1>3, StoreAssumption
<1>6. IsFiniteSet(Stored')
  BY <1>4, FS_AddElement, FS_Subset DEF CapInv
<1> QED BY <1>4, <1>5, <1>6

LEMMA StoredStays ==
  ASSUME CapInv, UNCHANGED files
  PROVE  Stored' = Stored /\ IsFiniteSet(Stored')
BY DEF CapInv, Stored, There

(* The summary threads when u starts one, or none.                         *)
LEMMA JobsAreTight ==
  ASSUME IInv, CapInv, NEW u \in Users, NEW z, job' = [job EXCEPT ![u] = z],
         Tight(z.snap.list, Room), ToSet(z.snap.list) \subseteq Mentioned
  PROVE  \A v \in Users : Tight(job'[v].snap.list, Room) /\ ToSet(job'[v].snap.list) \subseteq Mentioned
<1> SUFFICES ASSUME NEW v \in Users
             PROVE  Tight(job'[v].snap.list, Room) /\ ToSet(job'[v].snap.list) \subseteq Mentioned
  OBVIOUS
<1>1. job'[v] = IF v = u THEN z ELSE job[v]
  BY DEF IInv, JobsAreGood
<1> QED BY <1>1, ListsAreTight

LEMMA SummariesAreTight ==
  ASSUME IInv, CapInv, NEW u \in Users, UNCHANGED job \/ Summarize(u)
  PROVE  \A v \in Users : Tight(job'[v].snap.list, Room) /\ ToSet(job'[v].snap.list) \subseteq Mentioned
<1>1. CASE UNCHANGED job
  BY <1>1, ListsAreTight
<1>2. CASE ~UNCHANGED job
  <2> DEFINE z == [NoJob EXCEPT !.at = "ready", !.id = user[u].id]
  <2>1. job' = [job EXCEPT ![u] = z] /\ z.snap.list = <<>>
    BY <1>2 DEF Summarize, NoJob, NoIndex
  <2> HIDE DEF z
  <2> QED BY <2>1, ListsAreTight, JobsAreTight
<1> QED BY <1>1, <1>2

(* A step of u with a list it had, the index or none, that leaves the      *)
(* index, and files but for the one it writes, as they are.                *)
LEMMA UserKeepsTight ==
  ASSUME IInv, IInv', CapInv, NEW u \in Users, NEW x, user' = [user EXCEPT ![u] = x],
         x.at \notin {"list", "evict"},
         \/ x.snap.list \in {<<>>, index.list}
         \/ user[u].at # "evict" /\ x.snap.list = user[u].snap.list,
         UNCHANGED job \/ Summarize(u), UNCHANGED <<index, files>>
  PROVE  CapInv'
<1>1. Stored' = Stored /\ IsFiniteSet(Stored')
  BY StoredStays
<1>2. \A v \in Users : user'[v] = IF v = u THEN x ELSE user[v]
  BY DEF IInv, UsersAreGood
<1>3. Tight(x.snap.list, Room) /\ ToSet(x.snap.list) \subseteq Mentioned
  BY ListsAreTight
<1>4. \A v \in Users : Tight(job'[v].snap.list, Room) /\ ToSet(job'[v].snap.list) \subseteq Mentioned
  BY SummariesAreTight
<1>5. Tight(index'.list, Room) /\ ToSet(index'.list) \subseteq Mentioned
  BY ListsAreTight
<1> QED BY <1>1, <1>2, <1>3, <1>4, <1>5, PlainStep

LEMMA ReadableLists ==
  ASSUME NEW idx \in Readable
  PROVE  idx.list \in {<<>>, index.list}
BY DEF Readable, NoIndex

LEMMA OpenTight == ASSUME IInv, IInv', CapInv, NEW u \in Users, Open(u) PROVE CapInv'
<1>1. PICK idx \in Readable :
        user' = [user EXCEPT ![u].op = "open", ![u].at = "opened", ![u].snap = idx]
  BY DEF Open
<1> DEFINE x == [user[u] EXCEPT !.op = "open", !.at = "opened", !.snap = idx]
<1>2. user' = [user EXCEPT ![u] = x]
  BY <1>1 DEF IInv, UsersAreGood
<1>3. x.at = "opened" /\ x.snap = idx
  BY UserInHand DEF UserType
<1> HIDE DEF x
<1> QED BY <1>2, <1>3, ReadableLists, UserKeepsTight DEF Open

LEMMA OpenActiveTight == ASSUME IInv, IInv', CapInv, NEW u \in Users, OpenActive(u) PROVE CapInv'
<1> DEFINE c == user[u].snap.active
           x == [Closed EXCEPT !.at = "idle", !.id = c, !.msgs = files[c].turns]
<1>1. user' = [user EXCEPT ![u] = x] /\ UNCHANGED <<index, files, job>>
  BY DEF OpenActive
<1>2. x.at = "idle" /\ x.snap.list = <<>>
  BY DEF Closed, NoIndex
<1> HIDE DEF x
<1> QED BY <1>1, <1>2, UserKeepsTight

LEMMA OpenCliTight == ASSUME IInv, IInv', CapInv, NEW u \in Users, OpenCli(u) PROVE CapInv'
<1> DEFINE x1 == [user[u] EXCEPT !.op = "first", !.at = "create"]
           x2(c) == [user[u] EXCEPT !.op = "switch", !.at = "load", !.arg = c]
<1>1. \/ user' = [user EXCEPT ![u] = x1]
      \/ \E c \in Ids : user' = [user EXCEPT ![u] = x2(c)]
  <2>1. CASE user' = [user EXCEPT ![u].op = "first", ![u].at = "create"]
    BY <2>1 DEF IInv, UsersAreGood
  <2>2. ASSUME NEW c, user' = [user EXCEPT ![u].op = "switch", ![u].at = "load", ![u].arg = c]
        PROVE  user' = [user EXCEPT ![u] = x2(c)]
    BY <2>2 DEF IInv, UsersAreGood
  <2> QED BY <2>1, <2>2 DEF OpenCli
<1>2. /\ x1.at = "create" /\ x1.snap.list = user[u].snap.list /\ user[u].at = "closed"
      /\ \A c : x2(c).at = "load" /\ x2(c).snap.list = user[u].snap.list
  BY UserInHand DEF UserType, OpenCli, At
<1> HIDE DEF x1, x2
<1> QED BY <1>1, <1>2, UserKeepsTight DEF OpenCli

LEMMA NewTight == ASSUME IInv, IInv', CapInv, NEW u \in Users, New(u) PROVE CapInv'
<1> DEFINE x == [user[u] EXCEPT !.op = "new", !.at = "create"]
<1>1. user' = [user EXCEPT ![u] = x]
  BY DEF New, IInv, UsersAreGood
<1>2. x.at = "create" /\ x.snap.list = user[u].snap.list /\ user[u].at = "idle"
  BY UserInHand DEF UserType, New, Idle
<1> HIDE DEF x
<1> QED BY <1>1, <1>2, UserKeepsTight DEF New

LEMMA SwitchTight ==
  ASSUME IInv, IInv', CapInv, NEW u \in Users, NEW c \in Ids, Switch(u, c) PROVE CapInv'
<1> DEFINE x == [user[u] EXCEPT !.op = "switch", !.at = "load", !.arg = c]
<1>1. user' = [user EXCEPT ![u] = x]
  BY DEF Switch, IInv, UsersAreGood
<1>2. x.at = "load" /\ x.snap.list = user[u].snap.list /\ user[u].at = "idle"
  BY UserInHand DEF UserType, Switch, Idle
<1> HIDE DEF x
<1> QED BY <1>1, <1>2, UserKeepsTight DEF Switch

LEMMA LoadTargetTight == ASSUME IInv, IInv', CapInv, NEW u \in Users, LoadTarget(u) PROVE CapInv'
<1> DEFINE x == [user[u] EXCEPT !.at = "switch", !.got = files[user[u].arg].turns]
<1>1. user' = [user EXCEPT ![u] = x]
  BY DEF LoadTarget, IInv, UsersAreGood
<1>2. x.at = "switch" /\ x.snap.list = user[u].snap.list /\ user[u].at = "load"
  BY UserInHand DEF UserType, LoadTarget
<1> HIDE DEF x
<1> QED BY <1>1, <1>2, UserKeepsTight DEF LoadTarget

LEMMA SwitchActiveTight == ASSUME IInv, IInv', CapInv, NEW u \in Users, SwitchActive(u) PROVE CapInv'
<1>1. PICK idx \in Readable :
        user' = [user EXCEPT ![u].at = "index", ![u].snap = [idx EXCEPT !.active = user[u].arg]]
  BY DEF SwitchActive
<1> DEFINE x == [user[u] EXCEPT !.at = "index", !.snap = [idx EXCEPT !.active = user[u].arg]]
<1>2. user' = [user EXCEPT ![u] = x]
  BY <1>1 DEF IInv, UsersAreGood
<1>3. x.at = "index" /\ x.snap.list = idx.list
  BY UserInHand DEF UserType, Index
<1> HIDE DEF x
<1> QED BY <1>2, <1>3, ReadableLists, UserKeepsTight DEF SwitchActive

LEMMA TurnTight == ASSUME IInv, IInv', CapInv, NEW u \in Users, Turn(u) PROVE CapInv'
<1> DEFINE c == user[u].id
           shown == user[u].msgs \cup {Len(owner) + 1}
           titled == There(c) /\ files[c].titled
           x1 == [user[u] EXCEPT !.msgs = shown]
           x2 == [user[u] EXCEPT !.op = "save", !.at = "file", !.msgs = shown, !.arg = c, !.got = shown,
                                 !.titled = titled]
<1>1. user' = [user EXCEPT ![u] = x1] \/ user' = [user EXCEPT ![u] = x2]
  BY DEF Turn, IInv, UsersAreGood
<1> HIDE DEF shown, titled
<1>2. /\ x1.at = "idle" /\ x1.snap.list = user[u].snap.list /\ user[u].at = "idle"
      /\ x2.at = "file" /\ x2.snap.list = user[u].snap.list
  BY UserInHand DEF UserType, Turn, Idle
<1> HIDE DEF x1, x2
<1> QED BY <1>1, <1>2, UserKeepsTight DEF Turn

(* A fail or a closing leaves the user without a list. *)
LEMMA FailTight == ASSUME IInv, IInv', CapInv, NEW u \in Users, Fail(u) PROVE CapInv'
<1> DEFINE keep == IF user[u].op = "new" /\ u \in Overlays THEN {} ELSE user[u].msgs
           x == IF user[u].op = "open" THEN [Closed EXCEPT !.op = "new", !.at = "create"]
                ELSE IF u \in Clis /\ user[u].id = None THEN Closed
                ELSE [Closed EXCEPT !.at = "idle", !.id = user[u].id, !.msgs = keep]
<1>1. user' = [user EXCEPT ![u] = x]
  BY DEF Fail, IInv, UsersAreGood
<1> HIDE DEF keep
<1>2. x.at \in {"create", "closed", "idle"} /\ x.snap.list = <<>>
  BY DEF Closed, NoIndex
<1> HIDE DEF x
<1>3. (UNCHANGED job \/ Summarize(u)) /\ UNCHANGED <<index, files>>
  BY DEF Fail, AfterSave
<1> QED BY <1>1, <1>2, <1>3, UserKeepsTight

LEMMA CloseTight == ASSUME IInv, IInv', CapInv, NEW u \in Users, Close(u) PROVE CapInv'
<1>1. user' = [user EXCEPT ![u] = Closed] /\ UNCHANGED <<index, files>>
      /\ (UNCHANGED job \/ job' = [job EXCEPT ![u] = NoJob])
  BY DEF Close
<1>2. Closed.at = "closed" /\ Closed.snap.list = <<>> /\ NoJob.snap.list = <<>>
  BY DEF Closed, NoJob, NoIndex
<1>3. \A v \in Users : Tight(job'[v].snap.list, Room) /\ ToSet(job'[v].snap.list) \subseteq Mentioned
  BY <1>1, <1>2, ListsAreTight, JobsAreTight
<1>4. \A v \in Users : user'[v] = IF v = u THEN Closed ELSE user[v]
  BY <1>1 DEF IInv, UsersAreGood
<1>5. /\ Tight(index'.list, Room) /\ ToSet(index'.list) \subseteq Mentioned
      /\ Tight(Closed.snap.list, Room) /\ ToSet(Closed.snap.list) \subseteq Mentioned
  BY <1>1, <1>2, ListsAreTight
<1>6. Stored' = Stored /\ IsFiniteSet(Stored')
  BY <1>1, StoredStays
<1> QED BY <1>2, <1>3, <1>4, <1>5, <1>6, PlainStep

LEMMA WriteFileTight == ASSUME IInv, IInv', CapInv, NEW u \in Users, WriteFile(u) PROVE CapInv'
<1> DEFINE x == [user[u] EXCEPT !.at = "stats", !.titled = FALSE]
<1>1. user' = [user EXCEPT ![u] = x] /\ UNCHANGED <<index, job>>
      /\ files' = [files EXCEPT ![user[u].arg] = File(user[u].msgs, user[u].titled)]
  BY DEF WriteFile, IInv, UsersAreGood
<1>2. x.at = "stats" /\ x.snap.list = user[u].snap.list /\ user[u].at = "file"
  BY UserInHand DEF UserType, WriteFile
<1> HIDE DEF x
<1>3. \A v \in Users : user'[v] = IF v = u THEN x ELSE user[v]
  BY <1>1 DEF IInv, UsersAreGood
<1>4. /\ Tight(index'.list, Room) /\ ToSet(index'.list) \subseteq Mentioned
      /\ Tight(x.snap.list, Room) /\ ToSet(x.snap.list) \subseteq Mentioned
  BY <1>1, <1>2, ListsAreTight
<1>5. \A v \in Users : Tight(job'[v].snap.list, Room) /\ ToSet(job'[v].snap.list) \subseteq Mentioned
  BY <1>1, SummariesAreTight
<1>6. Stored \subseteq Stored' /\ IsFiniteSet(Stored')
  BY <1>1, StoredGrows
<1> QED BY <1>2, <1>3, <1>4, <1>5, <1>6, PlainStep

LEMMA WriteIndexTight == ASSUME IInv, IInv', CapInv, NEW u \in Users, WriteIndex(u) PROVE CapInv'
<1> DEFINE x == IF user[u].op = "first" THEN [user[u] EXCEPT !.op = "switch", !.at = "load", !.snap = NoIndex]
                ELSE [Closed EXCEPT !.at = "idle", !.id = user[u].arg, !.msgs = user[u].got]
<1>1. /\ user' = [user EXCEPT ![u] = x] /\ UNCHANGED files /\ index' = user[u].snap
      /\ (UNCHANGED job \/ Summarize(u))
  BY DEF WriteIndex, AfterSave, IInv, UsersAreGood
<1>2. x.at \in {"load", "idle"} /\ x.snap.list = <<>> /\ user[u].at = "index"
  BY UserInHand DEF UserType, WriteIndex, Closed, NoIndex
<1> HIDE DEF x
<1>3. \A v \in Users : user'[v] = IF v = u THEN x ELSE user[v]
  BY <1>1 DEF IInv, UsersAreGood
<1>4. /\ Tight(index'.list, Room) /\ ToSet(index'.list) \subseteq Mentioned
      /\ Tight(x.snap.list, Room) /\ ToSet(x.snap.list) \subseteq Mentioned
  BY <1>1, <1>2, ListsAreTight
<1>5. \A v \in Users : Tight(job'[v].snap.list, Room) /\ ToSet(job'[v].snap.list) \subseteq Mentioned
  BY <1>1, SummariesAreTight
<1>6. Stored' = Stored /\ IsFiniteSet(Stored')
  BY <1>1, StoredStays
<1> QED BY <1>2, <1>3, <1>4, <1>5, <1>6, PlainStep

LEMMA JobTight == ASSUME IInv, IInv', CapInv, NEW u \in Users, Job(u) PROVE CapInv'
<1>1. PICK z : job' = [job EXCEPT ![u] = z] /\ z.snap.list \in {<<>>, index.list, job[u].snap.list}
  <2>1. NoJob.snap.list = <<>> /\ NoIndex.list = <<>>
    BY DEF NoJob, NoIndex
  <2>2. job[u] \in JobType /\ job \in [Users -> JobType]
    BY JobInHand DEF IInv, JobsAreGood
  <2>3. CASE JobLoad(u)
    <3> DEFINE z == [job[u] EXCEPT !.at = "index", !.snap = index]
    <3>1. z.snap.list = index.list
      BY <2>2 DEF JobType
    <3>2. job' = [job EXCEPT ![u] = z] \/ job' = [job EXCEPT ![u] = NoJob]
      BY <2>2, <2>3 DEF JobLoad
    <3> HIDE DEF z
    <3> QED BY <2>1, <3>1, <3>2
  <2>4. CASE JobIndex(u)
    <3> DEFINE z == [job[u] EXCEPT !.at = "read", !.snap = NoIndex]
    <3>1. z.snap.list = <<>>
      BY <2>1, <2>2 DEF JobType
    <3>2. job' = [job EXCEPT ![u] = z]
      BY <2>2, <2>4 DEF JobIndex
    <3> HIDE DEF z
    <3> QED BY <3>1, <3>2
  <2>5. CASE JobRead(u)
    <3> DEFINE z == [job[u] EXCEPT !.at = "write", !.got = files[job[u].id].turns]
    <3>1. z.snap.list = job[u].snap.list
      BY <2>2 DEF JobType
    <3>2. job' = [job EXCEPT ![u] = z] \/ job' = [job EXCEPT ![u] = NoJob]
      BY <2>2, <2>5 DEF JobRead
    <3> HIDE DEF z
    <3> QED BY <2>1, <3>1, <3>2
  <2>6. CASE JobWrite(u)
    BY <2>1, <2>6 DEF JobWrite
  <2> QED BY <2>3, <2>4, <2>5, <2>6 DEF Job
<1>2. \A v \in Users : Tight(job'[v].snap.list, Room) /\ ToSet(job'[v].snap.list) \subseteq Mentioned
  BY <1>1, ListsAreTight, JobsAreTight
<1>3. user' = user /\ (index' = index \/ index' = job[u].snap)
  BY DEF Job, JobLoad, JobIndex, JobRead, JobWrite
<1>4. Tight(index'.list, Room) /\ ToSet(index'.list) \subseteq Mentioned
  BY <1>3, ListsAreTight
<1>5. Stored \subseteq Stored' /\ IsFiniteSet(Stored')
  <2>1. UNCHANGED files \/ files' = [files EXCEPT ![job[u].id] = File(job[u].got, TRUE)]
    BY DEF Job, JobLoad, JobIndex, JobRead, JobWrite
  <2> QED BY <2>1, StoredStays, StoredGrows
<1> QED BY <1>2, <1>3, <1>4, <1>5, PlainStep

-----------------------------------------------------------------------------
LEMMA RemoveAtElements ==
  ASSUME NEW S, NEW s \in Seq(S), NEW i \in 1..Len(s)
  PROVE  /\ RemoveAt(s, i) \in Seq(S)
         /\ Len(RemoveAt(s, i)) = Len(s) - 1
         /\ \A k \in 1..(Len(s) - 1) : RemoveAt(s, i)[k] = IF k < i THEN s[k] ELSE s[k + 1]
<1> DEFINE a == SubSeq(s, 1, i - 1)
           b == SubSeq(s, i + 1, Len(s))
<1>1. a \in Seq(S) /\ Len(a) = i - 1 /\ \A k \in 1..(i - 1) : a[k] = s[k]
  BY SubSeqProperties
<1>2. b \in Seq(S) /\ Len(b) = Len(s) - i /\ \A k \in 1..(Len(s) - i) : b[k] = s[i + k]
  BY SubSeqProperties
<1>3. /\ a \o b \in Seq(S)
      /\ Len(a \o b) = Len(a) + Len(b)
      /\ \A k \in 1..(Len(a) + Len(b)) : (a \o b)[k] = IF k <= Len(a) THEN a[k] ELSE b[k - Len(a)]
  <2> HIDE DEF a, b
  <2> QED BY <1>1, <1>2, ConcatProperties
<1>4. RemoveAt(s, i) = a \o b
  BY DEF RemoveAt
<1>5. Len(s) \in Nat
  OBVIOUS
<1> HIDE DEF a, b
<1>6. Len(a \o b) = Len(s) - 1 /\ Len(a) + Len(b) = Len(s) - 1
  BY <1>1, <1>2, <1>3, <1>5
<1>7. ASSUME NEW k \in 1..(Len(s) - 1)
      PROVE  (a \o b)[k] = IF k < i THEN s[k] ELSE s[k + 1]
  <2>0. (a \o b)[k] = IF k <= i - 1 THEN a[k] ELSE b[k - (i - 1)]
    BY <1>1, <1>3, <1>6
  <2>1. CASE k < i
    <3>1. k \in 1..(i - 1) /\ k <= i - 1
      BY <1>5, <2>1
    <3> QED BY <1>1, <2>0, <2>1, <3>1
  <2>2. CASE ~(k < i)
    <3>1. k - (i - 1) \in 1..(Len(s) - i) /\ i + (k - (i - 1)) = k + 1 /\ ~(k <= i - 1)
      BY <1>5, <2>2
    <3>2. b[k - (i - 1)] = s[k + 1]
      BY <1>2, <3>1
    <3> QED BY <2>0, <2>2, <3>1, <3>2
  <2> QED BY <2>1, <2>2
<1>8. a \o b \in Seq(S)
  BY <1>3
<1> QED
  BY <1>4, <1>6, <1>7, <1>8

(* Refreshing an entry puts it first and loses none. *)
LEMMA ToFrontKeeps ==
  ASSUME NEW s \in Seq(Ids), IsInjective(s), NEW c \in Ids
  PROVE  /\ Len(ToFront(s, c)) = Len(s) /\ IsInjective(ToFront(s, c))
         /\ ToSet(ToFront(s, c)) \subseteq ToSet(s)
<1>1. CASE c \notin ToSet(s)
  BY <1>1 DEF ToFront
<1>2. CASE c \in ToSet(s)
  <2> DEFINE i == CHOOSE i \in DOMAIN s : s[i] = c
             rest == RemoveAt(s, i)
             r == <<c>> \o rest
             from(k) == IF k = 1 THEN i ELSE IF k <= i THEN k - 1 ELSE k
  <2>1. i \in 1..Len(s) /\ s[i] = c
    <3>1. \E j \in DOMAIN s : s[j] = c
      BY <1>2 DEF ToSet
    <3> QED BY <3>1
  <2>2. ToFront(s, c) = r
    BY <1>2 DEF ToFront
  <2> HIDE DEF i
  <2>3. /\ rest \in Seq(Ids) /\ Len(rest) = Len(s) - 1
        /\ \A k \in 1..(Len(s) - 1) : rest[k] = IF k < i THEN s[k] ELSE s[k + 1]
    BY <2>1, RemoveAtElements
  <2> HIDE DEF rest
  <2>4. /\ Len(r) = Len(s) /\ r \in Seq(Ids)
        /\ \A k \in 1..Len(s) : r[k] = IF k = 1 THEN c ELSE rest[k - 1]
    BY <2>3, Len(s) \in Nat
  <2> HIDE DEF r
  <2>5. \A k \in 1..Len(s) : from(k) \in 1..Len(s) /\ r[k] = s[from(k)]
    <3> TAKE k \in 1..Len(s)
    <3>1. CASE k = 1
      BY <2>1, <2>4, <3>1
    <3>2. CASE k # 1
      <4>1. k - 1 \in 1..(Len(s) - 1) /\ Len(s) \in Nat
        BY <3>2
      <4>2. r[k] = IF k - 1 < i THEN s[k - 1] ELSE s[(k - 1) + 1]
        BY <2>3, <2>4, <3>2, <4>1
      <4> QED BY <2>1, <3>2, <4>1, <4>2
    <3> QED BY <3>1, <3>2
  <2>6. \A k, j \in 1..Len(s) : from(k) = from(j) => k = j
    BY <2>1, Len(s) \in Nat
  <2> HIDE DEF from
  <2>7. IsInjective(r)
    BY <2>4, <2>5, <2>6 DEF IsInjective
  <2>8. ToSet(r) \subseteq ToSet(s)
    BY <2>4, <2>5 DEF ToSet
  <2> QED BY <2>2, <2>4, <2>7, <2>8
<1> QED BY <1>1, <1>2

LEMMA InsertedIsLoose ==
  ASSUME NEW idx \in Index, NEW c \in Ids, NEW room \in Int, Tight(idx.list, room),
         c \notin ToSet(idx.list)
  PROVE  /\ Loose(Inserted(idx, c).list, room)
         /\ ToSet(Inserted(idx, c).list) \subseteq ToSet(idx.list) \cup {c}
<1> DEFINE s == idx.list
           r == <<c>> \o s
<1>1. s \in Seq(Ids) /\ Len(s) \in Nat /\ Inserted(idx, c).list = r
  BY DEF Index, Inserted
<1> HIDE DEF s
<1>2. /\ Len(r) = Len(s) + 1 /\ r \in Seq(Ids)
      /\ \A k \in 1..(Len(s) + 1) : r[k] = IF k = 1 THEN c ELSE s[k - 1]
  BY <1>1
<1> HIDE DEF r
<1>3. \A k \in 1..Len(s) : s[k] # c
  BY <1>1 DEF ToSet, s
<1>4. IsInjective(s)
  BY DEF Tight, s
<1>5. IsInjective(r)
  <2> SUFFICES ASSUME NEW k \in 1..(Len(s) + 1), NEW j \in 1..(Len(s) + 1), r[k] = r[j] PROVE k = j
    BY <1>1, <1>2 DEF IsInjective
  <2>0. \A h \in 1..(Len(s) + 1) : h # 1 => r[h] # c
    <3> TAKE h \in 1..(Len(s) + 1)
    <3>1. h # 1 => h - 1 \in 1..Len(s) /\ r[h] = s[h - 1]
      BY <1>1, <1>2
    <3> QED BY <1>3, <3>1
  <2>1. CASE k = 1 \/ j = 1
    BY <1>1, <1>2, <2>0, <2>1
  <2>2. CASE k # 1 /\ j # 1
    <3>1. k - 1 \in DOMAIN s /\ j - 1 \in DOMAIN s /\ s[k - 1] = s[j - 1]
      BY <1>1, <1>2, <2>2
    <3> QED BY <1>4, <3>1 DEF IsInjective
  <2> QED BY <2>1, <2>2
<1>6. Len(s) <= Cap /\ Len(s) <= room
  BY DEF Tight, s
<1>7. ToSet(r) \subseteq ToSet(s) \cup {c}
  BY <1>1, <1>2 DEF ToSet
<1> QED BY <1>1, <1>2, <1>5, <1>6, <1>7, StoreAssumption DEF Loose, s

(* Making room takes out nothing, or the oldest of one too many. *)
LEMMA SparedIsTight ==
  ASSUME NEW idx \in Index, NEW room \in Int, Loose(idx.list, room)
  PROVE  /\ Spared(idx) \in Seq(Ids) /\ IsInjective(Spared(idx))
         /\ Len(Spared(idx)) <= Cap
         /\ ToSet(Spared(idx)) \subseteq ToSet(idx.list)
         /\ \/ Spared(idx) = idx.list
            \/ /\ Len(idx.list) = Cap + 1 /\ Len(Spared(idx)) = Cap
               /\ ToSet(idx.list) \ ToSet(Spared(idx)) \subseteq {idx.list[Cap + 1]}
<1> DEFINE s == idx.list
           r == SubSeq(s, 1, Cap)
<1>1. s \in Seq(Ids) /\ Len(s) \in Nat /\ Cap \in Nat /\ Cap >= 1
  BY StoreAssumption DEF Index
<1>2. IsInjective(s) /\ Len(s) <= Cap + 1
  BY DEF Loose
<1>3. CASE Len(s) <= Cap
  BY <1>1, <1>2, <1>3 DEF Spared
<1>4. CASE ~(Len(s) <= Cap)
  <2>1. Spared(idx) = r /\ Len(s) = Cap + 1
    BY <1>1, <1>2, <1>4 DEF Spared
  <2> HIDE DEF s
  <2>2. r \in Seq(Ids) /\ Len(r) = Cap /\ \A k \in 1..Cap : r[k] = s[k]
    BY <1>1, <2>1, SubSeqProperties
  <2> HIDE DEF r
  <2>3. IsInjective(r)
    BY <1>1, <1>2, <2>1, <2>2 DEF IsInjective
  <2>4. ToSet(r) \subseteq ToSet(s)
    BY <1>1, <2>1, <2>2 DEF ToSet
  <2>5. ToSet(s) \ ToSet(r) \subseteq {s[Cap + 1]}
    <3> SUFFICES ASSUME NEW k \in 1..(Cap + 1), k # Cap + 1 PROVE s[k] \in ToSet(r)
      BY <1>1, <2>1 DEF ToSet
    <3>1. k \in DOMAIN r /\ r[k] = s[k]
      BY <1>1, <2>2
    <3> QED BY <3>1 DEF ToSet
  <2> QED BY <1>1, <2>1, <2>2, <2>3, <2>4, <2>5 DEF s
<1> QED BY <1>3, <1>4

LEMMA RefreshStatsTight == ASSUME IInv, IInv', CapInv, NEW u \in Users, RefreshStats(u) PROVE CapInv'
<1>1. PICK idx \in Readable :
        user' = [user EXCEPT ![u].at = "index",
                             ![u].snap = [idx EXCEPT !.list = ToFront(@, user[u].arg)]]
  BY DEF RefreshStats
<1> DEFINE x == [user[u] EXCEPT !.at = "index", !.snap = [idx EXCEPT !.list = ToFront(@, user[u].arg)]]
<1>2. idx \in Index
  BY ReadableType DEF IInv
<1>3. user' = [user EXCEPT ![u] = x]
  BY <1>1 DEF IInv, UsersAreGood
<1>4. x.at = "index" /\ x.snap.list = ToFront(idx.list, user[u].arg)
  BY <1>2, UserInHand DEF UserType, Index
<1> HIDE DEF x
<1>5. Tight(idx.list, Room) /\ ToSet(idx.list) \subseteq Mentioned
  BY ReadableLists, ListsAreTight
<1>6. idx.list \in Seq(Ids) /\ user[u].arg \in Ids
  BY <1>2, UserInHand DEF Index, UserType, GoodUser, RefreshStats
<1>7. Tight(x.snap.list, Room) /\ ToSet(x.snap.list) \subseteq Mentioned
  BY <1>4, <1>5, <1>6, ToFrontKeeps DEF Tight
<1>8. \A v \in Users : user'[v] = IF v = u THEN x ELSE user[v]
  BY <1>3 DEF IInv, UsersAreGood
<1>9. UNCHANGED <<index, files, job>>
  BY DEF RefreshStats
<1>10. Stored' = Stored /\ IsFiniteSet(Stored')
  BY <1>9, StoredStays
<1>11. \A v \in Users : Tight(job'[v].snap.list, Room) /\ ToSet(job'[v].snap.list) \subseteq Mentioned
  BY <1>9, ListsAreTight
<1>12. Tight(index'.list, Room) /\ ToSet(index'.list) \subseteq Mentioned
  BY <1>9, ListsAreTight
<1> QED BY <1>4, <1>7, <1>8, <1>10, <1>11, <1>12, PlainStep

-----------------------------------------------------------------------------
(* The steps that make a conversation, or make room for it. *)
LEMMA UnknownIsNew ==
  ASSUME NEW c \in Ids, c \notin Known
  PROVE  c \notin Mentioned /\ c \notin Stored /\ \A v \in Users : user[v].arg # c
BY DEF Known, Mentioned, Stored

LEMMA MentionedGrows ==
  ASSUME IInv, CapInv, NEW u \in Users, NEW x, user' = [user EXCEPT ![u] = x],
         UNCHANGED <<index, job>>, NEW S, ToSet(x.snap.list) \subseteq Mentioned \cup S
  PROVE  Mentioned' \subseteq Mentioned \cup S
<1>1. \A v \in Users : user'[v] = IF v = u THEN x ELSE user[v]
  BY DEF IInv, UsersAreGood
<1>2. ASSUME NEW v \in Users
      PROVE  ToSet(user'[v].snap.list) \subseteq Mentioned \cup S /\ ToSet(job'[v].snap.list) \subseteq Mentioned
  <2>1. ToSet(user[v].snap.list) \subseteq Mentioned /\ ToSet(job[v].snap.list) \subseteq Mentioned
    BY ListsAreTight
  <2> QED BY <1>1, <2>1
<1>3. ToSet(index'.list) \subseteq Mentioned
  BY ListsAreTight
<1>4. \A c \in Mentioned' : \/ c \in ToSet(index'.list)
                            \/ \E v \in Users : c \in ToSet(user'[v].snap.list) \cup ToSet(job'[v].snap.list)
  BY DEF Mentioned, ToSet
<1> HIDE DEF Mentioned
<1> QED BY <1>2, <1>3, <1>4

(* A user makes a file: one more is stored, and one more is in flight. *)
LEMMA MakingKeepsRoom ==
  ASSUME IInv, CapInv, NEW u \in Users, NEW c \in Ids, c \notin Stored,
         files' = [files EXCEPT ![c] = File({}, FALSE)],
         user[u].at \notin {"list", "evict"},
         NEW x, user' = [user EXCEPT ![u] = x], x.at \in {"list", "evict"}
  PROVE  Room' = Room /\ Room \in Int /\ IsFiniteSet(Stored')
<1>1. Stored' = Stored \cup {c} /\ IsFiniteSet(Stored')
  BY StoredGrows
<1>2. \A v \in Users : user'[v] = IF v = u THEN x ELSE user[v]
  BY DEF IInv, UsersAreGood
<1>3. InFlight' = InFlight \cup {u} /\ u \notin InFlight
  BY <1>2 DEF InFlight
<1>4. /\ IsFiniteSet(Stored) /\ IsFiniteSet(InFlight) /\ Cardinality(InFlight) \in Nat
      /\ Cardinality(Stored) \in Nat /\ Room \in Int
  BY RoomType DEF CapInv
<1>5. Cardinality(Stored') = Cardinality(Stored) + 1
  BY <1>1, <1>4, FS_AddElement
<1>6. Cardinality(InFlight') = Cardinality(InFlight) + 1
  BY <1>3, <1>4, FS_AddElement
<1> QED BY <1>1, <1>4, <1>5, <1>6 DEF Room

LEMMA OpenFreshTight ==
  ASSUME IInv, IInv', CapInv, NEW u \in Users, NEW c \in Ids, OpenFresh(u, c) PROVE CapInv'
<1> DEFINE x == [user[u] EXCEPT !.at = "evict", !.arg = c, !.snap = Inserted(user[u].snap, c)]
<1>1. /\ user' = [user EXCEPT ![u] = x] /\ files' = [files EXCEPT ![c] = File({}, FALSE)]
      /\ UNCHANGED <<index, job>> /\ user[u].at = "opened" /\ c \notin Known
  BY DEF OpenFresh, IInv, UsersAreGood
<1>2. x.at = "evict" /\ x.arg = c /\ x.snap = Inserted(user[u].snap, c)
  BY UserInHand DEF UserType
<1> HIDE DEF x
<1>3. c \notin Mentioned /\ c \notin Stored /\ \A v \in Users : user[v].arg # c
  BY <1>1, UnknownIsNew
<1>4. Room' = Room /\ Room \in Int /\ IsFiniteSet(Stored')
  BY <1>1, <1>2, <1>3, MakingKeepsRoom
<1>5. Tight(user[u].snap.list, Room) /\ ToSet(user[u].snap.list) \subseteq Mentioned
  BY <1>1, ListsAreTight
<1>6. Loose(x.snap.list, Room) /\ ToSet(x.snap.list) \subseteq ToSet(user[u].snap.list) \cup {c}
  BY <1>2, <1>3, <1>4, <1>5, UserInHand, InsertedIsLoose
<1>7. Mentioned' \subseteq Mentioned \cup {c}
  <2>1. ToSet(x.snap.list) \subseteq Mentioned \cup {c}
    BY <1>5, <1>6
  <2> QED BY <1>1, <2>1, MentionedGrows
<1>8. \A v \in Users : user'[v] = IF v = u THEN x ELSE user[v]
  BY <1>1 DEF IInv, UsersAreGood
<1>9. NewIsUnlisted'
  <2> SUFFICES ASSUME NEW v \in Users, user'[v].at = "list"
               PROVE  /\ user'[v].arg \notin Mentioned'
                      /\ \A w \in Users : w # v /\ user'[w].at = "list" => user'[w].arg # user'[v].arg
    BY DEF NewIsUnlisted
  <2>1. user'[v] = user[v] /\ \A w \in Users : user'[w].at = "list" => user'[w] = user[w]
    BY <1>2, <1>8
  <2> QED BY <1>3, <1>7, <2>1 DEF CapInv, NewIsUnlisted
<1>10. TightUser(x, Room')
  BY <1>2, <1>4, <1>6 DEF TightUser
<1>11. Room' \in Int /\ Room <= Room'
  BY <1>4
<1> QED BY <1>1, <1>4, <1>8, <1>9, <1>10, <1>11, StepIsTight

LEMMA CreateTight ==
  ASSUME IInv, IInv', CapInv, NEW u \in Users, NEW c \in Ids, Create(u, c) PROVE CapInv'
<1> DEFINE x == [user[u] EXCEPT !.at = "list", !.arg = c]
<1>1. /\ user' = [user EXCEPT ![u] = x] /\ files' = [files EXCEPT ![c] = File({}, FALSE)]
      /\ UNCHANGED <<index, job>> /\ user[u].at = "create" /\ c \notin Known
  BY DEF Create, IInv, UsersAreGood
<1>2. x.at = "list" /\ x.arg = c /\ x.snap = user[u].snap
  BY UserInHand DEF UserType
<1> HIDE DEF x
<1>3. c \notin Mentioned /\ c \notin Stored /\ \A v \in Users : user[v].arg # c
  BY <1>1, UnknownIsNew
<1>4. Room' = Room /\ Room \in Int /\ IsFiniteSet(Stored')
  BY <1>1, <1>2, <1>3, MakingKeepsRoom
<1>5. Tight(user[u].snap.list, Room) /\ ToSet(user[u].snap.list) \subseteq Mentioned
  BY <1>1, ListsAreTight
<1>6. Mentioned' \subseteq Mentioned
  <2>1. ToSet(x.snap.list) \subseteq Mentioned \cup {}
    BY <1>2, <1>5
  <2>2. Mentioned' \subseteq Mentioned \cup {}
    BY <1>1, <2>1, MentionedGrows
  <2> QED BY <2>2
<1>7. \A v \in Users : user'[v] = IF v = u THEN x ELSE user[v]
  BY <1>1 DEF IInv, UsersAreGood
<1>8. NewIsUnlisted'
  <2> SUFFICES ASSUME NEW v \in Users, user'[v].at = "list"
               PROVE  /\ user'[v].arg \notin Mentioned'
                      /\ \A w \in Users : w # v /\ user'[w].at = "list" => user'[w].arg # user'[v].arg
    BY DEF NewIsUnlisted
  <2>1. CASE v = u
    BY <1>2, <1>3, <1>6, <1>7, <2>1
  <2>2. CASE v # u
    <3>1. user'[v] = user[v] /\ user[v].arg \notin Mentioned
      BY <1>7, <2>2 DEF CapInv, NewIsUnlisted
    <3>2. ASSUME NEW w \in Users, w # v, user'[w].at = "list" PROVE user'[w].arg # user'[v].arg
      BY <1>2, <1>3, <1>7, <2>2, <3>1, <3>2 DEF CapInv, NewIsUnlisted
    <3> QED BY <1>6, <3>1, <3>2
  <2> QED BY <2>1, <2>2
<1>9. TightUser(x, Room')
  BY <1>2, <1>4, <1>5 DEF TightUser
<1>10. Room' \in Int /\ Room <= Room'
  BY <1>4
<1> QED BY <1>1, <1>4, <1>7, <1>8, <1>9, <1>10, StepIsTight

LEMMA ListTight == ASSUME IInv, IInv', CapInv, NEW u \in Users, List(u) PROVE CapInv'
<1>1. PICK idx \in Readable :
        user' = [user EXCEPT ![u].at = "evict", ![u].snap = Inserted(idx, user[u].arg)]
  BY DEF List
<1> DEFINE c == user[u].arg
           x == [user[u] EXCEPT !.at = "evict", !.snap = Inserted(idx, c)]
<1>2. user' = [user EXCEPT ![u] = x] /\ UNCHANGED <<index, files, job>> /\ user[u].at = "list"
  BY <1>1 DEF List, IInv, UsersAreGood
<1>3. x.at = "evict" /\ x.snap = Inserted(idx, c)
  BY UserInHand DEF UserType
<1> HIDE DEF x
<1>4. c \in Ids /\ c \notin Mentioned /\ idx \in Index
  BY <1>2, ReadableType, UserInHand DEF IInv, UserType, GoodUser, CapInv, NewIsUnlisted
<1>5. Tight(idx.list, Room) /\ ToSet(idx.list) \subseteq Mentioned
  BY ReadableLists, ListsAreTight
<1>6. \A v \in Users : user'[v] = IF v = u THEN x ELSE user[v]
  BY <1>2 DEF IInv, UsersAreGood
<1>7. Room' = Room /\ Room \in Int /\ IsFiniteSet(Stored')
  <2>1. Stored' = Stored /\ IsFiniteSet(Stored')
    BY <1>2, StoredStays
  <2>2. InFlight' = InFlight
    BY <1>2, <1>3, <1>6 DEF InFlight
  <2> QED BY <2>1, <2>2, RoomType DEF Room
<1>8. Loose(x.snap.list, Room) /\ ToSet(x.snap.list) \subseteq ToSet(idx.list) \cup {c}
  <2>1. c \notin ToSet(idx.list)
    BY <1>4, <1>5
  <2> HIDE DEF c
  <2> QED BY <1>3, <1>4, <1>5, <1>7, <2>1, InsertedIsLoose
<1>9. Mentioned' \subseteq Mentioned \cup {c}
  <2>1. ToSet(x.snap.list) \subseteq Mentioned \cup {c}
    BY <1>5, <1>8
  <2> HIDE DEF c
  <2> QED BY <1>2, <2>1, MentionedGrows
<1>10. NewIsUnlisted'
  <2> SUFFICES ASSUME NEW v \in Users, user'[v].at = "list"
               PROVE  /\ user'[v].arg \notin Mentioned'
                      /\ \A w \in Users : w # v /\ user'[w].at = "list" => user'[w].arg # user'[v].arg
    BY DEF NewIsUnlisted
  <2>1. v # u /\ user'[v] = user[v] /\ \A w \in Users : user'[w].at = "list" => user'[w] = user[w]
    BY <1>3, <1>6
  <2>2. user[v].arg \notin Mentioned /\ user[v].arg # c
    BY <1>2, <2>1 DEF CapInv, NewIsUnlisted
  <2> QED BY <1>9, <2>1, <2>2 DEF CapInv, NewIsUnlisted
<1>11. TightUser(x, Room')
  BY <1>3, <1>7, <1>8 DEF TightUser
<1>12. Room' \in Int /\ Room <= Room'
  BY <1>7
<1> QED BY <1>2, <1>6, <1>7, <1>10, <1>11, <1>12, StepIsTight

LEMMA EvictTight == ASSUME IInv, IInv', CapInv, NEW u \in Users, Evict(u) PROVE CapInv'
<1> DEFINE idx == user[u].snap
           kept == Spared(user[u].snap)
           gone == ToSet(user[u].snap.list) \ ToSet(kept)
           x == [user[u] EXCEPT !.at = "index", !.snap.list = kept, !.got = {}]
<1>1. /\ user' = [user EXCEPT ![u] = x] /\ UNCHANGED <<index, job>> /\ user[u].at = "evict"
      /\ files' = [c \in Ids |-> IF c \in gone THEN NoFile ELSE files[c]]
  BY DEF Evict, IInv, UsersAreGood
<1>2. x.at = "index" /\ x.snap.list = kept
  BY UserInHand DEF UserType, Index
<1> HIDE DEF x
<1>3. idx \in Index /\ Loose(idx.list, Room) /\ ToSet(idx.list) \subseteq Mentioned
  BY <1>1, UserInHand, ListsAreTight DEF CapInv, TightUser
<1>4. /\ IsFiniteSet(Stored) /\ IsFiniteSet(InFlight) /\ Cardinality(InFlight) \in Nat
      /\ Cardinality(Stored) \in Nat /\ Room \in Int
  BY RoomType DEF CapInv
<1>5. /\ kept \in Seq(Ids) /\ IsInjective(kept) /\ Len(kept) <= Cap
      /\ ToSet(kept) \subseteq ToSet(idx.list)
      /\ \/ kept = idx.list
         \/ Len(idx.list) = Cap + 1 /\ Len(kept) = Cap /\ gone \subseteq {idx.list[Cap + 1]}
  BY <1>3, <1>4, SparedIsTight
<1>6. /\ Len(idx.list) \in Nat /\ Len(idx.list) <= Room + 1 /\ Cap \in Nat
  BY <1>3, StoreAssumption DEF Loose, Index
<1>7. kept = idx.list => gone = {}
  OBVIOUS
<1> HIDE DEF kept, gone, idx
<1>8. \A v \in Users : user'[v] = IF v = u THEN x ELSE user[v]
  BY <1>1 DEF IInv, UsersAreGood
<1>9. Cardinality(InFlight') = Cardinality(InFlight) - 1
  <2>1. InFlight' = InFlight \ {u} /\ u \in InFlight
    BY <1>1, <1>2, <1>8 DEF InFlight
  <2> QED BY <1>4, <2>1, FS_RemoveElement
<1>10. Stored' = Stored \ gone
  BY <1>1 DEF Stored, There, NoFile
<1>11. IsFiniteSet(Stored') /\ Cardinality(Stored') \in Nat
  BY <1>4, <1>10, FS_Subset, FS_CardinalityType
<1>12. Room' \in Int /\ Room <= Room' /\ Len(kept) <= Room'
  <2>1. CASE kept = idx.list
    <3>1. Stored' = Stored
      BY <1>7, <1>10, <2>1
    <3> QED BY <1>4, <1>6, <1>9, <2>1, <3>1 DEF Room
  <2>2. CASE Len(idx.list) = Cap + 1 /\ Len(kept) = Cap /\ gone \subseteq {idx.list[Cap + 1]}
    <3> DEFINE d == idx.list[Cap + 1]
    <3> HIDE DEF d
    <3>1. Stored \ {d} \subseteq Stored'
      BY <1>10, <2>2 DEF d
    <3>2. Cardinality(Stored \ {d}) >= Cardinality(Stored) - 1 /\ Cardinality(Stored \ {d}) \in Nat
      <4>1. /\ IsFiniteSet(Stored \ {d})
            /\ Cardinality(Stored \ {d}) = IF d \in Stored THEN Cardinality(Stored) - 1
                                            ELSE Cardinality(Stored)
        BY <1>4, FS_RemoveElement
      <4>2. Cardinality(Stored \ {d}) \in Nat
        BY <4>1, FS_CardinalityType
      <4> QED BY <1>4, <4>1, <4>2
    <3>3. Cardinality(Stored \ {d}) <= Cardinality(Stored')
      BY <1>11, <3>1, FS_Subset
    <3> QED BY <1>4, <1>6, <1>9, <1>11, <2>2, <3>2, <3>3 DEF Room
  <2> QED BY <1>5, <2>1, <2>2
<1>13. TightUser(x, Room')
  BY <1>2, <1>5, <1>12 DEF TightUser, Tight
<1>14. Mentioned' \subseteq Mentioned
  <2>1. ToSet(x.snap.list) \subseteq Mentioned \cup {}
    BY <1>2, <1>3, <1>5
  <2>2. Mentioned' \subseteq Mentioned \cup {}
    BY <1>1, <2>1, MentionedGrows
  <2> QED BY <2>2
<1>15. NewIsUnlisted'
  <2> SUFFICES ASSUME NEW v \in Users, user'[v].at = "list"
               PROVE  /\ user'[v].arg \notin Mentioned'
                      /\ \A w \in Users : w # v /\ user'[w].at = "list" => user'[w].arg # user'[v].arg
    BY DEF NewIsUnlisted
  <2>1. user'[v] = user[v] /\ \A w \in Users : user'[w].at = "list" => user'[w] = user[w]
    BY <1>2, <1>8
  <2> QED BY <1>14, <2>1 DEF CapInv, NewIsUnlisted
<1> QED BY <1>1, <1>8, <1>11, <1>12, <1>13, <1>15, StepIsTight

-----------------------------------------------------------------------------
LEMMA InitCapInv == Init => CapInv
<1> SUFFICES ASSUME Init PROVE CapInv
  OBVIOUS
<1>1. Stored = {}
  BY DEF Init, Stored, There, NoFile
<1>2. InFlight = {}
  BY DEF Init, InFlight, Closed
<1>3. IsFiniteSet(Stored) /\ Room = 0
  BY <1>1, <1>2, FS_EmptySet DEF Room
<1>4. Tight(<<>>, Room) /\ NoIndex.list = <<>>
  BY <1>3, NoListIsTight
<1>5. Tight(index.list, Room)
  BY <1>4 DEF Init
<1>6. ASSUME NEW u \in Users PROVE TightUser(user[u], Room) /\ Tight(job[u].snap.list, Room)
  <2>1. user[u].at = "closed" /\ user[u].snap.list = <<>> /\ job[u].snap.list = <<>>
    BY <1>4 DEF Init, Closed, NoJob
  <2> QED BY <1>4, <2>1 DEF TightUser
<1>7. NewIsUnlisted
  BY DEF Init, Closed, NewIsUnlisted
<1> QED BY <1>3, <1>5, <1>6, <1>7 DEF CapInv

LEMMA NextCapInv == ASSUME IInv, IInv', CapInv, [Next]_vars PROVE CapInv'
<1>1. CASE UNCHANGED vars
  <2>1. Stored' = Stored /\ InFlight' = InFlight /\ Mentioned' = Mentioned
    BY <1>1 DEF vars, Stored, There, InFlight, Mentioned, ToSet
  <2>2. Room' = Room
    BY <2>1 DEF Room
  <2> HIDE DEF Mentioned, Stored, Room
  <2>3. NewIsUnlisted'
    BY <1>1, <2>1 DEF vars, CapInv, NewIsUnlisted
  <2>4. \A u \in Users : (TightUser(user[u], Room) /\ Tight(job[u].snap.list, Room))'
    BY <1>1, <2>2 DEF vars, CapInv, TightUser, Tight, Loose
  <2>5. Tight(index.list, Room)'
    BY <1>1, <2>2 DEF vars, CapInv, Tight
  <2>6. IsFiniteSet(Stored)'
    BY <2>1 DEF CapInv
  <2> QED BY <2>3, <2>4, <2>5, <2>6 DEF CapInv
<1>2. ASSUME NEW u \in Users, UserStep(u) PROVE CapInv'
  BY <1>2, OpenTight, OpenActiveTight, OpenCliTight, NewTight, ListTight, EvictTight,
     WriteIndexTight, LoadTargetTight, SwitchActiveTight, TurnTight, WriteFileTight,
     RefreshStatsTight, FailTight, CloseTight, OpenFreshTight, CreateTight, SwitchTight
  DEF UserStep
<1>3. ASSUME NEW u \in Users, Job(u) PROVE CapInv'
  BY <1>3, JobTight
<1> QED BY <1>1, <1>2, <1>3 DEF Next

(* No list in anybody's hands is longer than the files that are there      *)
(* besides those of conversations for which room is yet to be made.        *)
THEOREM StoreListsAreTight == Spec => []CapInv
<1>1. IInv /\ CapInv /\ [Next]_vars => IInv' /\ CapInv'
  BY NextIInv, NextCapInv
<1>2. Init => IInv /\ CapInv
  BY InitIInv, InitCapInv
<1> QED BY <1>1, <1>2, PTL DEF Spec

(* Every variable keeps its type, for any number of users and any cap: the *)
(* index lists no conversation twice and never more of them than the cap.  *)
THEOREM StoreTypeCorrect == Spec => []TypeOK
<1>1. IInv /\ CapInv => TypeOK
  BY DEF IInv, CapInv, Tight, FilesAreGood, UsersAreGood, JobsAreGood, TypeOK,
         FileType, UserType, JobType
<1> QED BY <1>1, StoreInvariant, StoreListsAreTight, PTL

(* A file is only ever deleted while more conversations than the cap are   *)
(* on disk, however stale the list evict_excess works on.                  *)
THEOREM StoreEvictsOverCap == Spec => EvictsOnlyOverCap
<1>1. ASSUME IInv, CapInv, [Next]_vars, NEW c \in Ids, There(c), ~files'[c].there
      PROVE  Cardinality({d \in Ids : There(d)}) > Cap
  <2>1. files \in [Ids -> FileType] /\ files[c].there
    BY <1>1 DEF IInv, FilesAreGood, There
  <2>2. PICK u \in Users : Evict(u)
    <3>1. ASSUME NEW d, NEW f, f.there, files' = [files EXCEPT ![d] = f] PROVE FALSE
      <4>1. files'[c] = IF c = d THEN f ELSE files[c]
        BY <2>1, <3>1
      <4> QED BY <1>1, <2>1, <3>1, <4>1
    <3>2. files' # files
      BY <1>1, <2>1
    <3>3. PICK u \in Users : UserStep(u) \/ Job(u)
      BY <1>1, <3>2 DEF Next, vars
    <3> DEFINE new == File({}, FALSE)
               saved == File(user[u].msgs, user[u].titled)
               summed == File(job[u].got, TRUE)
    <3>4. new.there /\ saved.there /\ summed.there
      BY DEF File
    <3>5. /\ JobWrite(u) => files' = [files EXCEPT ![job[u].id] = summed]
          /\ WriteFile(u) => files' = [files EXCEPT ![user[u].arg] = saved]
          /\ \A d \in Ids : OpenFresh(u, d) \/ Create(u, d) => files' = [files EXCEPT ![d] = new]
      BY DEF JobWrite, WriteFile, OpenFresh, Create
    <3> HIDE DEF new, saved, summed
    <3>6. ~JobWrite(u) /\ ~WriteFile(u) /\ \A d \in Ids : ~OpenFresh(u, d) /\ ~Create(u, d)
      BY <3>1, <3>4, <3>5
    <3>7. ~Job(u) /\ \A d \in Ids : ~Switch(u, d)
      BY <3>2, <3>6 DEF Job, JobLoad, JobIndex, JobRead, Switch
    <3>8. ~(\/ Open(u) \/ OpenActive(u) \/ OpenCli(u) \/ New(u) \/ List(u) \/ WriteIndex(u)
            \/ LoadTarget(u) \/ SwitchActive(u) \/ Turn(u) \/ RefreshStats(u) \/ Fail(u) \/ Close(u))
      BY <3>2 DEF Open, OpenActive, OpenCli, New, List, WriteIndex, LoadTarget, SwitchActive,
                  Turn, RefreshStats, Fail, Close
    <3> QED BY <3>3, <3>6, <3>7, <3>8 DEF UserStep
  <2> DEFINE idx == user[u].snap
  <2>3. idx \in Index /\ Loose(idx.list, Room) /\ user[u].at = "evict"
    BY <1>1, <2>2, UserInHand DEF Evict, CapInv, TightUser
  <2>4. c \in ToSet(idx.list) \ ToSet(Spared(idx))
    BY <1>1, <2>1, <2>2 DEF Evict
  <2>5. /\ IsFiniteSet(Stored) /\ IsFiniteSet(InFlight) /\ Cardinality(InFlight) \in Nat
        /\ Cardinality(Stored) \in Nat /\ Room \in Int
    BY <1>1, RoomType DEF CapInv
  <2> HIDE DEF idx
  <2>6. Len(idx.list) = Cap + 1
    BY <2>3, <2>4, <2>5, SparedIsTight
  <2>7. Cap + 1 <= Room + 1 /\ Cap \in Nat
    BY <2>3, <2>6, StoreAssumption DEF Loose
  <2>8. Cardinality(InFlight) >= 1
    <3>1. InFlight # {}
      BY <2>3 DEF InFlight
    <3> QED BY <2>5, <3>1, FS_EmptySet
  <2> QED BY <2>5, <2>7, <2>8 DEF Room, Stored
<1>2. IInv /\ CapInv /\ [Next]_vars =>
        [(\E c \in Ids : There(c) /\ ~files'[c].there)
           => Cardinality({c \in Ids : There(c)}) > Cap]_vars
  BY <1>1
<1> QED BY <1>2, StoreInvariant, StoreListsAreTight, PTL DEF Spec, EvictsOnlyOverCap
=============================================================================
