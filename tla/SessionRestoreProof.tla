------------------------- MODULE SessionRestoreProof -------------------------
(* What SessionRestore keeps for any number of windows, directories and      *)
(* restores at once.                                                         *)
EXTENDS SessionRestore, TLAPS

(* A directory that is being filled is named by no envelope yet, so that     *)
(* taking it away again hurts none.                                          *)
NewIsUnnamed ==
  main.at = "envelope" =>
    /\ main.dir \in Dirs
    /\ {main.dir} \X main.side \subseteq sidecar
    /\ \A k \in Kinds : file[k] # None => file[k].dir # main.dir

(* The session's envelope is written only when the process ends.  Until then *)
(* a restore under way holds what the envelope says.                         *)
SessionSavedLast ==
  main.at # "idle" => IF main.kind = "session" THEN app = "quit" ELSE main.window \in Windows
StartsWithSession == app = "starting" => file["session"] # None
RestoreHoldsSession ==
  app # "quit" => \A r \in Restores :
    restore[r].at # "off" /\ restore[r].kind = "session" =>
      /\ file["session"] # None
      /\ restore[r].dir = file["session"].dir
      /\ restore[r].side = file["session"].side

IInv == /\ TypeOK
        /\ ContentIsThere
        /\ NewIsUnnamed
        /\ SessionSavedLast
        /\ StartsWithSession
        /\ RestoreHoldsSession

RestoreType ==
  [at : {"off", "next", "build"}, kind : Kinds, dir : Dirs \cup {None},
   todo : SUBSET Windows, side : SUBSET Windows,
   target : Windows \cup {None}, into : Windows \cup {None}, fresh : BOOLEAN]
MainType ==
  [at : {"idle", "content", "envelope", "gc"}, kind : Kinds, window : Windows \cup {None},
   dir : Dirs \cup {None}, wins : SUBSET Windows, side : SUBSET Windows]

LEMMA IdleTypes == NoRestore \in RestoreType /\ NoSave \in MainType
BY DEF NoRestore, NoSave, RestoreType, MainType, Kinds

LEMMA InitIInv == Init => IInv
<1> SUFFICES ASSUME Init PROVE IInv
  OBVIOUS
<1>1. TypeOK
  BY IdleTypes DEF Init, TypeOK, RestoreType, MainType, Shapes
<1>2. NewIsUnnamed /\ SessionSavedLast /\ RestoreHoldsSession
  BY DEF Init, NewIsUnnamed, SessionSavedLast, RestoreHoldsSession, NoSave, NoRestore
<1>3. ContentIsThere /\ StartsWithSession
  BY DEF Init, ContentIsThere, StartsWithSession
<1> QED BY <1>1, <1>2, <1>3 DEF IInv

-----------------------------------------------------------------------------
(* The process ends: the disk is as it was, or lost what nobody names. *)
LEMMA DownTypes == ASSUME Down PROVE
  /\ app' = "off"
  /\ win' \in [Windows -> Shapes] /\ closed' \subseteq Windows /\ dirty' \in BOOLEAN
  /\ restore' \in [Restores -> RestoreType] /\ main' \in MainType
BY IdleTypes DEF Down, Shapes

LEMMA DownRest == ASSUME Down PROVE
  NewIsUnnamed' /\ SessionSavedLast' /\ StartsWithSession' /\ RestoreHoldsSession'
BY DEF Down, NewIsUnnamed, SessionSavedLast, StartsWithSession, RestoreHoldsSession,
       NoSave, NoRestore

LEMMA CrashIInv == ASSUME IInv, Crash PROVE IInv'
<1>1. Down /\ UNCHANGED disk
  BY DEF Crash
<1>2. TypeOK'
  BY <1>1, DownTypes DEF IInv, TypeOK, disk, RestoreType, MainType
<1>3. ContentIsThere'
  BY <1>1 DEF IInv, ContentIsThere, disk
<1> QED BY <1>1, <1>2, <1>3, DownRest DEF IInv

LEMMA LaunchIInv == ASSUME IInv, Launch PROVE IInv'
<1>1. TypeOK'
  BY DEF IInv, Launch, TypeOK, disk
<1>2. ContentIsThere' /\ NewIsUnnamed'
  BY DEF IInv, Launch, ContentIsThere, NewIsUnnamed, disk
<1>3. SessionSavedLast' /\ StartsWithSession' /\ RestoreHoldsSession'
  BY DEF IInv, Launch, SessionSavedLast, StartsWithSession, RestoreHoldsSession, disk
<1> QED BY <1>1, <1>2, <1>3 DEF IInv

LEMMA QuitIInv == ASSUME IInv, Quit PROVE IInv'
<1>1. CASE dirty
  <2>1. main' = [NoSave EXCEPT !.at = "content"] /\ app' = "quit"
        /\ UNCHANGED <<win, closed, dirty, restore, disk>>
    BY <1>1 DEF Quit
  <2>2. main' \in MainType /\ main'.at = "content" /\ main'.kind = "session"
    BY <2>1 DEF NoSave, MainType, Kinds
  <2>3. TypeOK'
    BY <2>1, <2>2 DEF IInv, TypeOK, disk, MainType
  <2>4. ContentIsThere'
    BY <2>1 DEF IInv, ContentIsThere, disk
  <2>5. NewIsUnnamed' /\ SessionSavedLast' /\ StartsWithSession' /\ RestoreHoldsSession'
    BY <2>1, <2>2 DEF NewIsUnnamed, SessionSavedLast, StartsWithSession, RestoreHoldsSession
  <2> QED BY <2>3, <2>4, <2>5 DEF IInv
<1>2. CASE ~dirty
  <2>1. Down /\ UNCHANGED disk
    BY <1>2 DEF Quit
  <2>2. TypeOK' /\ ContentIsThere'
    BY <2>1, DownTypes DEF IInv, TypeOK, ContentIsThere, disk, RestoreType, MainType
  <2> QED BY <2>1, <2>2, DownRest DEF IInv
<1> QED BY <1>1, <1>2

(* The user and the window system change neither disk nor what is restored. *)
LEMMA WindowsIInv ==
  ASSUME IInv, win' \in [Windows -> Shapes], closed' \subseteq Windows, dirty' \in BOOLEAN,
         UNCHANGED <<app, restore, main, disk>>
  PROVE  IInv'
<1>1. TypeOK'
  BY DEF IInv, TypeOK, disk
<1>2. ContentIsThere' /\ NewIsUnnamed'
  BY DEF IInv, ContentIsThere, NewIsUnnamed, disk
<1>3. SessionSavedLast' /\ StartsWithSession' /\ RestoreHoldsSession'
  BY DEF IInv, SessionSavedLast, StartsWithSession, RestoreHoldsSession, disk
<1> QED BY <1>1, <1>2, <1>3 DEF IInv

LEMMA UserIInv ==
  ASSUME IInv, NEW w \in Windows,
         NewWindow(w) \/ (\E shape \in Filled : Change(w, shape)) \/ Output(w) \/ WindowGone(w)
  PROVE  IInv'
<1> DEFINE Same == UNCHANGED <<app, restore, main, disk>>
<1>0. TypeOK /\ "plain" \in Shapes /\ "full" \in Shapes /\ "none" \in Shapes /\ Filled \subseteq Shapes
  BY DEF IInv, Shapes, Filled
<1>1. MarkedDirty \in BOOLEAN
  BY DEF MarkedDirty, TypeOK, IInv
<1>2. CASE NewWindow(w)
  BY <1>0, <1>1, <1>2, WindowsIInv DEF NewWindow, TypeOK
<1>3. CASE \E shape \in Filled : Change(w, shape)
  BY <1>0, <1>1, <1>3, WindowsIInv DEF Change, TypeOK
<1>4. CASE Output(w)
  BY <1>0, <1>4, WindowsIInv DEF Output, TypeOK
<1>5. CASE WindowGone(w)
  BY <1>0, <1>1, <1>5, WindowsIInv DEF WindowGone, TypeOK
<1> QED BY <1>2, <1>3, <1>4, <1>5

LEMMA CloseIInv == ASSUME IInv, NEW w \in Windows, CloseRequested(w) PROVE IInv'
<1>0. MarkedDirty \in BOOLEAN
  BY DEF MarkedDirty, TypeOK, IInv
<1>1. CASE Trivial(w)
  BY <1>0, <1>1, WindowsIInv DEF CloseRequested, Marked, IInv, TypeOK
<1>2. CASE ~Trivial(w)
  <2>1. main' = [NoSave EXCEPT !.at = "content", !.kind = "closed", !.window = w]
        /\ UNCHANGED <<app, win, closed, dirty, restore, disk>>
    BY <1>2 DEF CloseRequested
  <2>2. main' \in MainType /\ main'.at = "content" /\ main'.kind = "closed" /\ main'.window = w
    BY <2>1 DEF NoSave, MainType, Kinds
  <2>3. TypeOK'
    BY <2>1, <2>2 DEF IInv, TypeOK, disk, MainType
  <2>4. ContentIsThere' /\ NewIsUnnamed' /\ SessionSavedLast'
    BY <2>1, <2>2 DEF IInv, ContentIsThere, NewIsUnnamed, SessionSavedLast, disk
  <2>5. StartsWithSession' /\ RestoreHoldsSession'
    BY <2>1 DEF IInv, StartsWithSession, RestoreHoldsSession, disk
  <2> QED BY <2>3, <2>4, <2>5 DEF IInv
<1> QED BY <1>1, <1>2

-----------------------------------------------------------------------------
(* A save's steps. *)
LEMMA WriteContentIInv ==
  ASSUME IInv, NEW d \in NewDirs, NEW wins \in SUBSET Windows, NEW side \in SUBSET wins,
         WriteContent(d, wins, side)
  PROVE  IInv'
<1>1. TypeOK /\ d \in Dirs /\ side \subseteq Windows
  BY DEF IInv, NewDirs
<1>2. main' = [main EXCEPT !.at = "envelope", !.dir = d, !.wins = wins, !.side = side]
      /\ main.at = "content" /\ sidecar' = sidecar \cup ({d} \X side)
      /\ UNCHANGED <<app, win, closed, dirty, restore, file, unread>>
  BY DEF WriteContent
<1>3. main \in MainType
  BY <1>1 DEF TypeOK, MainType
<1>4. main' \in MainType /\ main'.dir = d /\ main'.side = side /\ main'.kind = main.kind
      /\ main'.window = main.window
  BY <1>1, <1>2, <1>3 DEF MainType
<1>5. TypeOK'
  BY <1>1, <1>2, <1>4 DEF TypeOK, MainType
<1>6. ContentIsThere'
  BY <1>2 DEF IInv, ContentIsThere
<1>7. NewIsUnnamed'
  <2>1. \A k \in Kinds : file[k] # None => file[k].dir # d
    BY DEF NewDirs, Named
  <2> QED BY <1>1, <1>2, <1>4, <2>1 DEF NewIsUnnamed
<1>8. SessionSavedLast' /\ StartsWithSession' /\ RestoreHoldsSession'
  BY <1>2, <1>4 DEF IInv, SessionSavedLast, StartsWithSession, RestoreHoldsSession
<1> QED BY <1>5, <1>6, <1>7, <1>8 DEF IInv

LEMMA WriteEnvelopeIInv == ASSUME IInv, WriteEnvelope PROVE IInv'
<1> DEFINE new == [dir |-> main.dir, wins |-> main.wins, side |-> main.side]
<1>1. TypeOK /\ main \in MainType /\ main.at = "envelope"
      /\ file' = [file EXCEPT ![main.kind] = new]
      /\ main' = [main EXCEPT !.at = "gc"] /\ unread' = unread \ {main.kind}
      /\ UNCHANGED <<app, win, closed, dirty, restore, sidecar>>
  BY DEF IInv, TypeOK, MainType, WriteEnvelope
<1>2. main.dir \in Dirs /\ {main.dir} \X main.side \subseteq sidecar
  BY <1>1 DEF IInv, NewIsUnnamed
<1>3. main.kind \in Kinds /\ new \in Envelopes
  BY <1>1, <1>2 DEF MainType, Envelopes
<1>4. main' \in MainType /\ main'.at = "gc" /\ main'.kind = main.kind /\ main'.window = main.window
  BY <1>1 DEF MainType
<1>5. file \in [Kinds -> Envelopes \cup {None}]
  BY <1>1 DEF TypeOK
<1>6. file' \in [Kinds -> Envelopes \cup {None}] /\ file'[main.kind] = new
      /\ \A k \in Kinds : k # main.kind => file'[k] = file[k]
  BY <1>1, <1>3, <1>5
<1>7. TypeOK'
  BY <1>1, <1>4, <1>6 DEF TypeOK, MainType
<1>8. ContentIsThere'
  <2> SUFFICES ASSUME NEW k \in Kinds, file'[k] # None, k \notin unread'
               PROVE  {file'[k].dir} \X file'[k].side \subseteq sidecar
    BY <1>1 DEF ContentIsThere
  <2>1. CASE k = main.kind
    BY <1>2, <1>6, <2>1
  <2>2. CASE k # main.kind
    BY <1>1, <1>6, <2>2 DEF IInv, ContentIsThere
  <2> QED BY <2>1, <2>2
<1>9. NewIsUnnamed' /\ SessionSavedLast'
  BY <1>1, <1>4 DEF IInv, NewIsUnnamed, SessionSavedLast
<1>10. CASE main.kind = "session"
  <2>1. app' = "quit"
    BY <1>1, <1>10 DEF IInv, SessionSavedLast
  <2> QED BY <1>7, <1>8, <1>9, <2>1 DEF IInv, StartsWithSession, RestoreHoldsSession
<1>11. CASE main.kind # "session"
  <2>1. file'["session"] = file["session"]
    BY <1>6, <1>11 DEF Kinds
  <2>2. StartsWithSession' /\ RestoreHoldsSession'
    BY <1>1, <2>1 DEF IInv, StartsWithSession, RestoreHoldsSession
  <2> QED BY <1>7, <1>8, <1>9, <2>2 DEF IInv
<1> QED BY <1>10, <1>11

(* What a save's last step does besides leaving: a disk that still holds all *)
(* content is enough.                                                        *)
LEMMA ReturnsIInv ==
  ASSUME IInv, main.at # "idle", Returns, UNCHANGED file,
         ContentIsThere', sidecar' \subseteq sidecar, unread' \subseteq Kinds
  PROVE  IInv'
<1>1. TypeOK /\ SessionSavedLast
  BY DEF IInv
<1>2. CASE main.kind = "session"
  <2>1. Down
    BY <1>2 DEF Returns
  <2>2. TypeOK'
    BY <1>1, <2>1, DownTypes DEF TypeOK, RestoreType, MainType
  <2> QED BY <2>1, <2>2, DownRest DEF IInv
<1>3. CASE main.kind # "session"
  <2>1. closed' = closed \cup {main.window} /\ dirty' = MarkedDirty /\ main' = NoSave
        /\ UNCHANGED <<app, win, restore>> /\ main.window \in Windows
    BY <1>1, <1>3 DEF Returns, Marked, SessionSavedLast
  <2>2. MarkedDirty \in BOOLEAN
    BY <1>1 DEF MarkedDirty, TypeOK
  <2>3. TypeOK'
    BY <1>1, <2>1, <2>2, IdleTypes DEF TypeOK, MainType
  <2>4. NewIsUnnamed' /\ SessionSavedLast'
    BY <2>1 DEF NewIsUnnamed, SessionSavedLast, NoSave
  <2>5. StartsWithSession' /\ RestoreHoldsSession'
    BY <2>1 DEF IInv, StartsWithSession, RestoreHoldsSession
  <2> QED BY <2>3, <2>4, <2>5 DEF IInv
<1> QED BY <1>2, <1>3

LEMMA DropIInv ==
  ASSUME IInv, main.at = "envelope", DropContent, Returns, UNCHANGED <<file, unread>>
  PROVE  IInv'
<1>1. sidecar' = sidecar \ ({main.dir} \X Windows)
  BY DEF DropContent
<1>2. ContentIsThere'
  <2> SUFFICES ASSUME NEW k \in Kinds, file[k] # None, k \notin unread
               PROVE  {file[k].dir} \X file[k].side \subseteq sidecar'
    BY DEF ContentIsThere
  <2>1. {file[k].dir} \X file[k].side \subseteq sidecar /\ file[k].dir # main.dir
    BY DEF IInv, ContentIsThere, NewIsUnnamed
  <2> QED BY <1>1, <2>1
<1>3. unread' \subseteq Kinds
  BY DEF IInv, TypeOK
<1> QED BY <1>1, <1>2, <1>3, ReturnsIInv

LEMMA GcIInv == ASSUME IInv, NEW bad \in SUBSET Kinds, Gc(bad) PROVE IInv'
<1>1. main.at = "gc" /\ Returns /\ UNCHANGED file
      /\ sidecar' = {s \in sidecar : s[1] \in Keep(Kinds \ bad)}
      /\ unread' = unread \cup {k \in bad : file[k] # None}
  BY DEF Gc
<1>2. ContentIsThere'
  <2> SUFFICES ASSUME NEW k \in Kinds, file[k] # None, k \notin unread'
               PROVE  {file[k].dir} \X file[k].side \subseteq sidecar'
    BY <1>1 DEF ContentIsThere
  <2>1. file[k].dir \in Keep(Kinds \ bad)
    BY <1>1 DEF Keep
  <2>2. {file[k].dir} \X file[k].side \subseteq sidecar
    BY <1>1 DEF IInv, ContentIsThere
  <2> QED BY <1>1, <2>1, <2>2
<1>3. unread' \subseteq Kinds
  BY <1>1 DEF IInv, TypeOK
<1> QED BY <1>1, <1>2, <1>3, ReturnsIInv

LEMMA SavesIInv == ASSUME IInv, Saves PROVE IInv'
<1>1. ASSUME NEW d \in NewDirs, NEW wins \in SUBSET Shown, NEW side \in SUBSET wins,
             WriteContent(d, wins, side)
      PROVE  IInv'
  <2>1. main.at # "idle" /\ main.kind \in Kinds
    BY <1>1 DEF WriteContent, IInv, TypeOK
  <2>2. Shown \subseteq Windows
    BY <2>1 DEF Shown, IInv, SessionSavedLast
  <2> QED BY <1>1, <2>2, WriteContentIInv
<1>2. CASE SkipSave
  BY <1>2, DropIInv DEF SkipSave
<1>3. CASE WriteFails
  BY <1>3, DropIInv DEF WriteFails
<1>4. CASE WriteEnvelope
  BY <1>4, WriteEnvelopeIInv
<1>5. ASSUME NEW bad \in SUBSET Kinds, Gc(bad) PROVE IInv'
  BY <1>5, GcIInv
<1> QED BY <1>1, <1>2, <1>3, <1>4, <1>5 DEF Saves

-----------------------------------------------------------------------------
(* The steps of a restore.  Each needs an idle main thread and a process     *)
(* that is not ending, and keeps the directories as they are.                *)
Closed == \/ UNCHANGED <<file, unread>>
          \/ file' = [file EXCEPT !["closed"] = None] /\ unread' = unread \ {"closed"}

LEMMA RestoreIInv ==
  ASSUME IInv, Live, app' \in {"starting", "running"}, app' = app \/ app' = "running",
         win' \in [Windows -> Shapes], closed' \subseteq Windows, dirty' \in BOOLEAN,
         restore' \in [Restores -> RestoreType], UNCHANGED <<main, sidecar>>, Closed,
         \A r \in Restores : restore'[r].at # "off" /\ restore'[r].kind = "session" =>
            /\ file["session"] # None
            /\ restore'[r].dir = file["session"].dir
            /\ restore'[r].side = file["session"].side
  PROVE  IInv'
<1>1. TypeOK /\ main = NoSave
  BY DEF IInv, Live
<1>2. file \in [Kinds -> Envelopes \cup {None}]
  BY <1>1 DEF TypeOK
<1>3. file' \in [Kinds -> Envelopes \cup {None}] /\ file'["session"] = file["session"]
      /\ \A k \in Kinds : file'[k] # None => file'[k] = file[k] /\ (k \notin unread' => k \notin unread)
  <2>1. CASE UNCHANGED <<file, unread>>
    BY <1>2, <2>1 DEF Kinds
  <2>2. CASE file' = [file EXCEPT !["closed"] = None] /\ unread' = unread \ {"closed"}
    BY <1>2, <2>2 DEF Kinds
  <2> QED BY <2>1, <2>2 DEF Closed
<1>4. TypeOK'
  <2>1. unread' \subseteq Kinds
    BY <1>1 DEF Closed, TypeOK
  <2> QED BY <1>1, <1>3, <2>1 DEF TypeOK, RestoreType
<1>5. ContentIsThere'
  BY <1>3 DEF IInv, ContentIsThere
<1>6. NewIsUnnamed' /\ SessionSavedLast'
  BY <1>1 DEF NewIsUnnamed, SessionSavedLast, NoSave
<1>7. StartsWithSession' /\ RestoreHoldsSession'
  BY <1>3 DEF IInv, StartsWithSession, RestoreHoldsSession
<1> QED BY <1>4, <1>5, <1>6, <1>7 DEF IInv

LEMMA StartsIInv ==
  ASSUME IInv, Live, NEW r \in Restores, NEW kind \in Kinds, NEW target \in Windows \cup {None},
         file[kind] # None, app' \in {"starting", "running"}, app' = app \/ app' = "running",
         Starts(r, kind, target)
  PROVE  IInv'
<1> DEFINE new == [NoRestore EXCEPT !.at = "next", !.kind = kind, !.target = target,
                     !.dir = file[kind].dir, !.todo = file[kind].wins, !.side = file[kind].side]
<1>1. TypeOK /\ restore' = [restore EXCEPT ![r] = new]
      /\ UNCHANGED <<win, closed, dirty, main, file, sidecar, unread>>
  BY DEF IInv, Starts, disk
<1>2. file[kind] \in Envelopes
  BY <1>1 DEF TypeOK
<1>3. new \in RestoreType /\ new.kind = kind /\ new.dir = file[kind].dir /\ new.side = file[kind].side
  BY <1>2 DEF NoRestore, RestoreType, Envelopes
<1>4. restore \in [Restores -> RestoreType]
  BY <1>1 DEF TypeOK, RestoreType
<1> HIDE DEF new
<1>5. restore' \in [Restores -> RestoreType] /\ restore'[r] = new
      /\ \A q \in Restores : q # r => restore'[q] = restore[q]
  BY <1>1, <1>3, <1>4
<1>6. ASSUME NEW q \in Restores, restore'[q].at # "off", restore'[q].kind = "session"
      PROVE  /\ file["session"] # None
             /\ restore'[q].dir = file["session"].dir
             /\ restore'[q].side = file["session"].side
  <2>1. CASE q = r
    BY <1>3, <1>5, <1>6, <2>1
  <2>2. CASE q # r
    BY <1>5, <1>6, <2>2 DEF IInv, RestoreHoldsSession, Live
  <2> QED BY <2>1, <2>2
<1>7. win' \in [Windows -> Shapes] /\ closed' \subseteq Windows /\ dirty' \in BOOLEAN
  BY <1>1 DEF TypeOK
<1> QED BY <1>1, <1>5, <1>6, <1>7, RestoreIInv DEF Closed

(* A restore that goes on keeps its directory, or is off. *)
LEMMA OneRestore ==
  ASSUME IInv, Live, NEW r \in Restores, NEW new \in RestoreType,
         restore' = [restore EXCEPT ![r] = new],
         new.at = "off" \/ (restore[r].at # "off" /\ new.kind = restore[r].kind
                              /\ new.dir = restore[r].dir /\ new.side = restore[r].side)
  PROVE  /\ restore' \in [Restores -> RestoreType]
         /\ \A q \in Restores : restore'[q].at # "off" /\ restore'[q].kind = "session" =>
              /\ file["session"] # None
              /\ restore'[q].dir = file["session"].dir
              /\ restore'[q].side = file["session"].side
<1>1. restore \in [Restores -> RestoreType]
  BY DEF IInv, TypeOK, RestoreType
<1>2. restore'[r] = new /\ \A q \in Restores : q # r => restore'[q] = restore[q]
  BY <1>1
<1> QED BY <1>1, <1>2 DEF IInv, RestoreHoldsSession, Live

LEMMA RestoreNextIInv ==
  ASSUME IInv, NEW r \in Restores, NEW w \in Windows, RestoreNext(r, w)
  PROVE  IInv'
<1> DEFINE reuse == restore[r].target # None /\ w = restore[r].target
           new == [restore[r] EXCEPT !.at = "build", !.target = None, !.into = w, !.fresh = ~reuse]
<1>1. TypeOK /\ Live /\ restore[r].at = "next" /\ closed' = closed \ {restore[r].target}
      /\ UNCHANGED <<app, dirty, main, file, sidecar, unread>>
  BY DEF IInv, RestoreNext, disk
<1>2. restore' = [restore EXCEPT ![r] = new]
  BY DEF RestoreNext
<1>3. restore[r] \in RestoreType /\ reuse \in BOOLEAN
  BY <1>1 DEF TypeOK, RestoreType
<1>4. new \in RestoreType /\ new.kind = restore[r].kind /\ new.dir = restore[r].dir
      /\ new.side = restore[r].side
  BY <1>3 DEF RestoreType
<1> HIDE DEF new, reuse
<1>5. win' \in [Windows -> Shapes] /\ closed' \subseteq Windows /\ dirty' \in BOOLEAN
  <2>1. win' = win \/ win' = [win EXCEPT ![w] = "plain"]
    BY DEF RestoreNext
  <2> QED BY <1>1, <2>1 DEF TypeOK, Shapes, Filled
<1>6. app' \in {"starting", "running"}
  BY <1>1 DEF Live
<1>7. /\ restore' \in [Restores -> RestoreType]
      /\ \A q \in Restores : restore'[q].at # "off" /\ restore'[q].kind = "session" =>
           /\ file["session"] # None
           /\ restore'[q].dir = file["session"].dir
           /\ restore'[q].side = file["session"].side
  BY <1>1, <1>2, <1>4, OneRestore
<1> QED BY <1>1, <1>5, <1>6, <1>7, RestoreIInv DEF Closed

LEMMA NextOrDoneKeeps ==
  ASSUME IInv, Live, NEW r \in Restores, NEW saved \in Windows, restore[r].at = "build",
         NextOrDone(r, saved)
  PROVE  /\ dirty' \in BOOLEAN
         /\ restore' \in [Restores -> RestoreType]
         /\ \A q \in Restores : restore'[q].at # "off" /\ restore'[q].kind = "session" =>
              /\ file["session"] # None
              /\ restore'[q].dir = file["session"].dir
              /\ restore'[q].side = file["session"].side
<1>1. restore[r] \in RestoreType /\ dirty \in BOOLEAN
  BY DEF IInv, TypeOK, RestoreType
<1>2. CASE restore[r].todo = {saved}
  <2>1. restore' = [restore EXCEPT ![r] = NoRestore] /\ dirty' = (dirty /\ Active # {r})
    BY <1>2 DEF NextOrDone, GuardDropped
  <2>2. NoRestore \in RestoreType /\ NoRestore.at = "off"
    BY IdleTypes DEF NoRestore
  <2> QED BY <1>1, <2>1, <2>2, OneRestore
<1>3. CASE restore[r].todo # {saved}
  <2> DEFINE new == [restore[r] EXCEPT !.at = "next", !.todo = @ \ {saved}, !.into = None,
                                       !.fresh = FALSE]
  <2>1. restore' = [restore EXCEPT ![r] = new] /\ dirty' = dirty
    BY <1>3 DEF NextOrDone
  <2>2. new \in RestoreType /\ new.kind = restore[r].kind /\ new.dir = restore[r].dir
        /\ new.side = restore[r].side
    BY <1>1 DEF RestoreType
  <2> HIDE DEF new
  <2> QED BY <1>1, <2>1, <2>2, OneRestore
<1> QED BY <1>2, <1>3

LEMMA RestoreEndsIInv ==
  ASSUME IInv, NEW r \in Restores, NEW saved \in Windows, NEW shape \in Filled,
         RestoreBuilt(r, saved, shape) \/ RestoreFails(r, saved, shape)
  PROVE  IInv'
<1>1. TypeOK /\ Live /\ restore[r].at = "build" /\ NextOrDone(r, saved)
      /\ UNCHANGED <<app, main, sidecar>>
  BY DEF IInv, RestoreBuilt, RestoreFails, disk
<1>2. Closed /\ win' \in [Windows -> Shapes] /\ closed' \subseteq Windows
  <2>1. CASE RestoreBuilt(r, saved, shape)
    <3>1. win' \in [Windows -> Shapes] /\ closed' \subseteq Windows
      BY <1>1, <2>1 DEF RestoreBuilt, TypeOK, Shapes
    <3>2. CASE restore[r].kind = "closed"
      BY <2>1, <3>1, <3>2 DEF RestoreBuilt, Closed
    <3>3. CASE restore[r].kind # "closed"
      BY <2>1, <3>1, <3>3 DEF RestoreBuilt, Closed
    <3> QED BY <3>2, <3>3
  <2>2. CASE RestoreFails(r, saved, shape)
    <3>1. win' \in [Windows -> Shapes]
      BY <1>1, <2>2 DEF RestoreFails, TypeOK, Shapes
    <3> QED BY <1>1, <2>2, <3>1 DEF RestoreFails, TypeOK, Closed, disk
  <2> QED BY <2>1, <2>2
<1>3. app' \in {"starting", "running"}
  BY <1>1 DEF Live
<1> QED BY <1>1, <1>2, <1>3, NextOrDoneKeeps, RestoreIInv

-----------------------------------------------------------------------------
LEMMA StepIInv == ASSUME IInv, Next PROVE IInv'
<1>1. CASE Launch
  BY <1>1, LaunchIInv
<1>2. CASE Crash
  BY <1>2, CrashIInv
<1>3. CASE Quit
  BY <1>3, QuitIInv
<1>4. ASSUME NEW w \in Windows,
             NewWindow(w) \/ (\E shape \in Filled : Change(w, shape)) \/ Output(w) \/ WindowGone(w)
      PROVE  IInv'
  BY <1>4, UserIInv
<1>5. ASSUME NEW w \in Windows, CloseRequested(w) PROVE IInv'
  BY <1>5, CloseIInv
<1>6. CASE Saves
  BY <1>6, SavesIInv
<1>7. ASSUME NEW r \in Restores, StartupRestore(r) PROVE IInv'
  <2>1. Live /\ file["session"] # None /\ app' = "running"
    BY <1>7 DEF StartupRestore, Live, IInv, StartsWithSession
  <2>2. PICK w \in Windows \cup {None} : Starts(r, "session", w)
    BY <1>7 DEF StartupRestore, Empty
  <2> QED BY <2>1, <2>2, StartsIInv DEF Kinds
<1>8. ASSUME NEW r \in Restores, NEW w \in Windows, RestoreMenu(r, w) PROVE IInv'
  <2>1. Live /\ file["closed"] # None /\ app' = app /\ app' \in {"starting", "running"}
    BY <1>8 DEF RestoreMenu, Live
  <2>2. PICK target \in Windows \cup {None} : Starts(r, "closed", target)
    BY <1>8 DEF RestoreMenu
  <2> QED BY <2>1, <2>2, StartsIInv DEF Kinds
<1>9. ASSUME NEW r \in Restores, Steps(r) PROVE IInv'
  BY <1>9, RestoreNextIInv, RestoreEndsIInv DEF Steps
<1> QED
  BY <1>1, <1>2, <1>3, <1>4, <1>5, <1>6, <1>7, <1>8, <1>9 DEF Next

LEMMA StutterIInv == ASSUME IInv, UNCHANGED vars PROVE IInv'
<1>1. TypeOK'
  BY DEF IInv, vars, TypeOK
<1>2. ContentIsThere' /\ NewIsUnnamed' /\ SessionSavedLast'
  BY DEF IInv, vars, ContentIsThere, NewIsUnnamed, SessionSavedLast
<1>3. StartsWithSession' /\ RestoreHoldsSession'
  BY DEF IInv, vars, StartsWithSession, RestoreHoldsSession
<1> QED BY <1>1, <1>2, <1>3 DEF IInv

(* The inductive invariant of saving and restoring. *)
THEOREM RestoreInvariant == Spec => []IInv
<1>1. IInv /\ [Next]_vars => IInv'
  BY StepIInv, StutterIInv
<1> QED BY InitIInv, <1>1, PTL DEF Spec

(* The types, for every instance. *)
THEOREM RestoreTypeCorrect == Spec => []TypeOK
<1>1. IInv => TypeOK
  BY DEF IInv
<1> QED BY <1>1, RestoreInvariant, PTL

(* What an envelope on disk names is on disk too, at whatever step the       *)
(* process dies (write_json_atomic after the sidecars, gc_kept_content_dirs  *)
(* by the envelopes on disk).                                                *)
THEOREM RestoreKeepsContent == Spec => []ContentIsThere
<1>1. IInv => ContentIsThere
  BY DEF IInv
<1> QED BY <1>1, RestoreInvariant, PTL

(* A session that is being restored finds its content, however many windows *)
(* are closed, saved and collected and however many restores run meanwhile. *)
THEOREM RestoreFinds == Spec => []RestoreFindsContent
<1>1. ASSUME IInv PROVE RestoreFindsContent
  <2> SUFFICES ASSUME app # "quit", NEW r \in Active, restore[r].kind = "session",
                      "session" \notin unread
               PROVE  {restore[r].dir} \X (restore[r].todo \cap restore[r].side) \subseteq sidecar
    BY DEF RestoreFindsContent
  <2>1. /\ file["session"] # None
        /\ restore[r].dir = file["session"].dir
        /\ restore[r].side = file["session"].side
    BY <1>1 DEF IInv, RestoreHoldsSession, Active
  <2>2. {file["session"].dir} \X file["session"].side \subseteq sidecar
    BY <1>1, <2>1 DEF IInv, ContentIsThere, Kinds
  <2> QED BY <2>1, <2>2
<1> QED BY <1>1, RestoreInvariant, PTL
=============================================================================
