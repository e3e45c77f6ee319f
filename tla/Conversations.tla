--------------------------- MODULE Conversations ---------------------------
(***************************************************************************)
(* The conversation store of hiterm-gui/src/ai_conversations.rs: one index *)
(* file and one file per conversation, shared without a lock by every chat *)
(* overlay of the GUI, every command line chat, and the threads that write *)
(* summaries in the background.  A single file is replaced atomically; an  *)
(* operation reads and writes several, and anyone may come in between.     *)
(*                                                                         *)
(* A conversation's file holds the turns saved in it and says whether it   *)
(* has a real summary.  The index is kept newest first; two stamps of the  *)
(* clock are never equal here.  The cwd index is one way to the id that a  *)
(* command line chat opens, and nothing more is said of it.                *)
(***************************************************************************)
EXTENDS Naturals, Sequences, FiniteSets, SequencesExt

CONSTANTS
  Overlays,  \* chat overlays
  Clis,      \* command line chats
  Ids,       \* conversation ids that can be generated
  None,      \* no conversation
  Cap,       \* MAX_CONVERSATIONS
  MaxTurns,  \* bound: turns taken by all users
  CanFail    \* can writing a file fail, or a process be killed?

Users == Overlays \cup Clis

ASSUME StoreAssumption ==
  /\ Overlays \cap Clis = {} /\ None \notin Ids /\ IsFiniteSet(Users)
  /\ Cap \in Nat \ {0} /\ MaxTurns \in Nat /\ CanFail \in BOOLEAN

VARIABLES
  index,   \* index.json: active_id and conversations
  files,   \* <id>.json of each conversation, NoFile if there is none
  user,    \* each overlay or command line chat: what it shows and where it is
  job,     \* each user's background summary thread
  owner    \* history: for each turn taken the conversation it was taken in

vars == <<index, files, user, job, owner>>

Turns == 1..MaxTurns
NoFile == [turns |-> {}, titled |-> FALSE, there |-> FALSE]
File(turns, titled) == [turns |-> turns, titled |-> titled, there |-> TRUE]
There(c) == c # None /\ files[c].there

Index == [active : Ids \cup {None}, list : Seq(Ids)]

(* op: what the user is doing, at: its next step; arg and got: the id and  *)
(* the turns it will show afterwards; snap: the index it has read.         *)
TypeOK ==
  /\ index \in Index
  /\ Len(index.list) <= Cap
  /\ IsInjective(index.list)
  /\ files \in [Ids -> [turns : SUBSET Turns, titled : BOOLEAN, there : BOOLEAN]]
  /\ user \in [Users -> [op : {"none", "open", "first", "new", "save", "switch"},
                         at : {"closed", "idle", "opened", "create", "list", "evict", "index",
                               "file", "stats", "load", "switch"},
                         id : Ids \cup {None}, msgs : SUBSET Turns,
                         arg : Ids \cup {None}, got : SUBSET Turns,
                         titled : BOOLEAN, snap : Index]]
  /\ job \in [Users -> [at : {"none", "ready", "index", "read", "write"},
                        id : Ids \cup {None}, got : SUBSET Turns, snap : Index]]
  /\ owner \in Seq(Ids \cup {None})

NoIndex == [active |-> None, list |-> <<>>]
Closed == [op |-> "none", at |-> "closed", id |-> None, msgs |-> {}, arg |-> None, got |-> {},
           titled |-> FALSE, snap |-> NoIndex]
NoJob == [at |-> "none", id |-> None, got |-> {}, snap |-> NoIndex]

Init ==
  /\ index = NoIndex
  /\ files = [c \in Ids |-> NoFile]
  /\ user = [u \in Users |-> Closed]
  /\ job = [u \in Users |-> NoJob]
  /\ owner = <<>>

-----------------------------------------------------------------------------
At(u, op, at) == user[u].op = op /\ user[u].at = at
Idle(u) == user[u].at = "idle"

(* generate_id: an id nobody ever had. *)
Known ==
  {c \in Ids : \/ There(c) \/ c = index.active \/ c \in ToSet(index.list)
               \/ \E u \in Users : \/ c \in {user[u].id, user[u].arg, job[u].id}
                                   \/ c \in ToSet(user[u].snap.list) \cup ToSet(job[u].snap.list)
               \/ c \in ToSet(owner)}

Inserted(idx, c) == [active |-> c, list |-> <<c>> \o idx.list]

(* Mutant: one conversation more than the cap. *)
SparedOneMore(idx) ==
  IF Len(idx.list) <= Cap + 1 THEN idx.list ELSE SubSeq(idx.list, 1, Cap)

(* Mutant: a conversation goes as soon as the cap is reached. *)
SparedEarly(idx) == IF Len(idx.list) < Cap THEN idx.list ELSE SubSeq(idx.list, 1, Len(idx.list) - 1)

(* evict_excess: the oldest entry that is not the active one goes.  Here   *)
(* the active one was just put first.                                      *)
Spared(idx) == IF Len(idx.list) <= Cap THEN idx.list ELSE SubSeq(idx.list, 1, Cap)

(* The refreshed entry is the newest, so that sorting puts it first. *)
ToFront(list, c) ==
  IF c \in ToSet(list)
  THEN <<c>> \o RemoveAt(list, CHOOSE i \in DOMAIN list : list[i] = c)
  ELSE list

(* load_index_from: an index that cannot be read counts as an empty one. *)
Readable == IF CanFail THEN {index, NoIndex} ELSE {index}

(* ensure_active, the command line's start, and what it does next. *)
Open(u) ==
  /\ At(u, "none", "closed") /\ u \in Overlays
  /\ \E idx \in Readable :
       user' = [user EXCEPT ![u].op = "open", ![u].at = "opened", ![u].snap = idx]
  /\ UNCHANGED <<index, files, job, owner>>

OpenActive(u) ==
  LET c == user[u].snap.active IN
  /\ user[u].at = "opened" /\ There(c)
  /\ user' = [user EXCEPT ![u] = [Closed EXCEPT !.at = "idle", !.id = c, !.msgs = files[c].turns]]
  /\ UNCHANGED <<index, files, job, owner>>

(* An active conversation whose file is gone, or cannot be read, is left.  *)
OpenFresh(u, c) ==
  /\ user[u].at = "opened" /\ (CanFail \/ ~There(user[u].snap.active))
  /\ c \notin Known
  /\ files' = [files EXCEPT ![c] = File({}, FALSE)]
  /\ user' = [user EXCEPT ![u].at = "evict", ![u].arg = c, ![u].snap = Inserted(@, c)]
  /\ UNCHANGED <<index, job, owner>>

(* A new conversation, or one by its id: from the index, the cwd index or  *)
(* the command line.                                                       *)
OpenCli(u) ==
  /\ At(u, "none", "closed") /\ u \in Clis
  /\ \/ user' = [user EXCEPT ![u].op = "first", ![u].at = "create"]
     \/ \E c \in Ids :
          user' = [user EXCEPT ![u].op = "switch", ![u].at = "load", ![u].arg = c]
  /\ UNCHANGED <<index, files, job, owner>>

(* A summary thread for the conversation u leaves or has added to.  At     *)
(* most one per user, and generating the summary may fail.                 *)
Summarize(u) ==
  \/ UNCHANGED job
  \/ /\ job[u].at = "none" /\ user[u].msgs # {} /\ user[u].id # None
     /\ job' = [job EXCEPT ![u] = [NoJob EXCEPT !.at = "ready", !.id = user[u].id]]

(* start_new_active *)
New(u) ==
  /\ Idle(u)
  /\ u \in Overlays => user[u].msgs # {}
  /\ user' = [user EXCEPT ![u].op = "new", ![u].at = "create"]
  /\ IF u \in Overlays THEN Summarize(u) ELSE UNCHANGED job
  /\ UNCHANGED <<index, files, owner>>

Create(u, c) ==
  /\ user[u].at = "create"
  /\ c \notin Known
  /\ files' = [files EXCEPT ![c] = File({}, FALSE)]
  /\ user' = [user EXCEPT ![u].at = "list", ![u].arg = c]
  /\ UNCHANGED <<index, job, owner>>

List(u) ==
  /\ user[u].at = "list"
  /\ \E idx \in Readable :
       user' = [user EXCEPT ![u].at = "evict", ![u].snap = Inserted(idx, user[u].arg)]
  /\ UNCHANGED <<index, files, job, owner>>

Evict(u) ==
  LET kept == Spared(user[u].snap) IN
  /\ user[u].at = "evict"
  /\ files' = [c \in Ids |-> IF c \in ToSet(user[u].snap.list) \ ToSet(kept) THEN NoFile
                             ELSE files[c]]
  /\ user' = [user EXCEPT ![u].at = "index", ![u].snap.list = kept, ![u].got = {}]
  /\ UNCHANGED <<index, job, owner>>

(* A command line chat summarizes after a round, even one not saved. *)
AfterSave(u) == IF user[u].op = "save" /\ u \in Clis THEN Summarize(u) ELSE UNCHANGED job

(* save_index_to.  A new command line chat goes on to switch_active. *)
WriteIndex(u) ==
  /\ user[u].at = "index"
  /\ index' = user[u].snap
  /\ user' = [user EXCEPT ![u] =
       IF user[u].op = "first" THEN [@ EXCEPT !.op = "switch", !.at = "load", !.snap = NoIndex]
       ELSE [Closed EXCEPT !.at = "idle", !.id = user[u].arg, !.msgs = user[u].got]]
  /\ AfterSave(u)
  /\ UNCHANGED <<files, owner>>

-----------------------------------------------------------------------------
(* switch_active, from the picker or by an id the index listed.            *)
Switch(u, c) ==
  /\ Idle(u) /\ c \in ToSet(index.list)
  /\ u \in Overlays => c # user[u].id
  /\ user' = [user EXCEPT ![u].op = "switch", ![u].at = "load", ![u].arg = c]
  /\ IF u \in Overlays THEN Summarize(u) ELSE UNCHANGED job
  /\ UNCHANGED <<index, files, owner>>

LoadTarget(u) ==
  /\ user[u].at = "load" /\ There(user[u].arg)
  /\ user' = [user EXCEPT ![u].at = "switch", ![u].got = files[user[u].arg].turns]
  /\ UNCHANGED <<index, files, job, owner>>

SwitchActive(u) ==
  /\ user[u].at = "switch"
  /\ \E idx \in Readable :
       user' = [user EXCEPT ![u].at = "index", ![u].snap = [idx EXCEPT !.active = user[u].arg]]
  /\ UNCHANGED <<index, files, job, owner>>

(* A turn, and save_active_messages: the summary found in the file is      *)
(* kept, the messages are replaced, the index entry is refreshed.          *)
Turn(u) ==
  LET c == user[u].id
      t == Len(owner) + 1
      shown == user[u].msgs \cup {t} IN
  /\ Idle(u) /\ t \in Turns
  /\ owner' = Append(owner, c)
  /\ user' = [user EXCEPT ![u] =
       IF c = None THEN [@ EXCEPT !.msgs = shown]
       ELSE [@ EXCEPT !.op = "save", !.at = "file", !.msgs = shown, !.arg = c, !.got = shown,
                      !.titled = There(c) /\ files[c].titled]]
  /\ UNCHANGED <<index, files, job>>

WriteFile(u) ==
  /\ user[u].at = "file"
  /\ files' = [files EXCEPT ![user[u].arg] = File(user[u].msgs, user[u].titled)]
  /\ user' = [user EXCEPT ![u].at = "stats", ![u].titled = FALSE]
  /\ UNCHANGED <<index, job, owner>>

RefreshStats(u) ==
  /\ user[u].at = "stats"
  /\ \E idx \in Readable :
       user' = [user EXCEPT ![u].at = "index",
                            ![u].snap = [idx EXCEPT !.list = ToFront(@, user[u].arg)]]
  /\ UNCHANGED <<index, files, job, owner>>

(* A write fails, or the file to switch to is gone or cannot be read.  An  *)
(* overlay whose /new failed clears its rows all the same, and one that    *)
(* cannot open its conversation tries a new one.                           *)
Fail(u) ==
  /\ \/ CanFail /\ user[u].at \in {"opened", "create", "index", "file", "load"}
     \/ user[u].at = "load" /\ ~There(user[u].arg)
  /\ user' = [user EXCEPT ![u] =
       IF user[u].op = "open" THEN [Closed EXCEPT !.op = "new", !.at = "create"]
       ELSE IF u \in Clis /\ user[u].id = None THEN Closed
       ELSE [Closed EXCEPT !.at = "idle", !.id = user[u].id,
               !.msgs = IF user[u].op = "new" /\ u \in Overlays THEN {} ELSE user[u].msgs]]
  /\ AfterSave(u)
  /\ UNCHANGED <<index, files, owner>>

Close(u) ==
  /\ Idle(u) \/ (CanFail /\ user[u].at # "closed")
  /\ user' = [user EXCEPT ![u] = Closed]
  /\ job' \in {job, [job EXCEPT ![u] = NoJob]}
  /\ UNCHANGED <<index, files, owner>>

-----------------------------------------------------------------------------
(* update_summary *)
JobLoad(u) ==
  /\ job[u].at = "ready"
  /\ job' = [job EXCEPT ![u] = IF job[u].id \in ToSet(index.list)
                               THEN [@ EXCEPT !.at = "index", !.snap = index] ELSE NoJob]
  /\ UNCHANGED <<index, files, user, owner>>

JobIndex(u) ==
  /\ job[u].at = "index"
  /\ index' = job[u].snap
  /\ job' = [job EXCEPT ![u].at = "read", ![u].snap = NoIndex]
  /\ UNCHANGED <<files, user, owner>>

JobRead(u) ==
  /\ job[u].at = "read"
  /\ job' = [job EXCEPT ![u] = IF There(job[u].id)
                               THEN [@ EXCEPT !.at = "write", !.got = files[job[u].id].turns]
                               ELSE NoJob]
  /\ UNCHANGED <<index, files, user, owner>>

(* Mutant: the summary goes to the conversation on display. *)
JobWriteToShown(u) ==
  /\ job[u].at = "write" /\ user[u].id # None
  /\ files' = [files EXCEPT ![user[u].id] = File(job[u].got, TRUE)]
  /\ job' = [job EXCEPT ![u] = NoJob]
  /\ UNCHANGED <<index, user, owner>>

JobWrite(u) ==
  /\ job[u].at = "write"
  /\ files' = [files EXCEPT ![job[u].id] = File(job[u].got, TRUE)]
  /\ job' = [job EXCEPT ![u] = NoJob]
  /\ UNCHANGED <<index, user, owner>>

UserStep(u) ==
  \/ Open(u) \/ OpenActive(u) \/ OpenCli(u)
  \/ New(u) \/ List(u) \/ Evict(u) \/ WriteIndex(u)
  \/ LoadTarget(u) \/ SwitchActive(u)
  \/ Turn(u) \/ WriteFile(u) \/ RefreshStats(u)
  \/ Fail(u) \/ Close(u)
  \/ \E c \in Ids : OpenFresh(u, c) \/ Create(u, c) \/ Switch(u, c)

Job(u) == JobLoad(u) \/ JobIndex(u) \/ JobRead(u) \/ JobWrite(u)

Next == \E u \in Users : UserStep(u) \/ Job(u)

Spec == Init /\ [][Next]_vars

-----------------------------------------------------------------------------
(* A conversation's file never holds a turn of another conversation,       *)
(* however switches, failures, stale indexes and summary threads overlap.  *)
TurnsStayInConversation ==
  \A c \in Ids : \A t \in files[c].turns : owner[t] = c

(* A file is only ever deleted while more conversations than the cap are   *)
(* on disk (evict_excess works on an index that may be stale).             *)
EvictsOnlyOverCap ==
  [][(\E c \in Ids : There(c) /\ ~files'[c].there)
       => Cardinality({c \in Ids : There(c)}) > Cap]_vars

(* ai_chat_engine/mod.rs:785 "Record the completed assistant response and  *)
(* persist the conversation": what a command line chat has saved stays in  *)
(* the file of its conversation while the chat goes on.                    *)
SavedTurnsStay ==
  [][\A u \in Clis : Idle(u) /\ user'[u].id = user[u].id /\ There(user[u].id) =>
       files[user[u].id].turns \subseteq files'[user[u].id].turns]_vars
=============================================================================
