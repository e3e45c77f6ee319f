--------------------------- MODULE SessionRestore ---------------------------
(* Saving windows and restoring them: hiterm-gui/src/session_restore.rs with *)
(* its callers in frontend.rs, termwindow/mod.rs and main.rs.                *)
(*                                                                           *)
(* A snapshot is two things on disk: a directory of sidecars, one for the    *)
(* scrollback of each pane, and after it an envelope that names the          *)
(* directory.  There are two envelopes, of the session and of the window     *)
(* closed last.  A directory no envelope names is collected after each save. *)
(* The process may die at any step; the disk stays.                          *)
(*                                                                           *)
(* A save runs on the main thread without an await, so that nothing else     *)
(* happens between its steps but a crash; a restore awaits the spawn of      *)
(* every pane.  One process uses the directory, and the configuration has    *)
(* restore_previous_session.                                                 *)
EXTENDS FiniteSets, Naturals

CONSTANTS
  Windows,    \* ids of mux windows; an id is used again, which bounds them
  Dirs,       \* names of content directories, likewise
  Restores,   \* restores that may be under way at once
  None

ASSUME NoneAssumption == None \notin Windows \cup Dirs

VARIABLES
  app,        \* "off", "starting", "running" or "quit"
  win,        \* what there is to see of a window
  closed,     \* LOGICALLY_CLOSED windows
  dirty,      \* MUX_DIRTY
  restore,    \* what each restore holds; those not off are RESTORING_DEPTH
  main,       \* the save the main thread is in
  file,       \* the two envelopes
  sidecar,    \* <<d, w>>: directory d holds content of window w
  unread      \* history: envelopes whose content was collected when they could not be read

vars == <<app, win, closed, dirty, restore, main, file, sidecar, unread>>
disk == <<file, sidecar, unread>>

Kinds == {"session", "closed"}
(* A plain window has no tab yet, or one pane that shows at most a screenful; *)
(* a full one has history or more panes.                                     *)
Filled == {"plain", "full"}
Shapes == Filled \cup {"none"}
(* side: the windows of wins that have a content_ref. *)
Envelopes == [dir : Dirs, wins : SUBSET Windows, side : SUBSET Windows]

NoSave == [at |-> "idle", kind |-> "session", window |-> None,
           dir |-> None, wins |-> {}, side |-> {}]
NoRestore == [at |-> "off", kind |-> "session", dir |-> None, todo |-> {}, side |-> {},
              target |-> None, into |-> None, fresh |-> FALSE]

TypeOK ==
  /\ app \in {"off", "starting", "running", "quit"}
  /\ win \in [Windows -> Shapes]
  /\ closed \subseteq Windows
  /\ dirty \in BOOLEAN
  /\ restore \in [Restores ->
       [at : {"off", "next", "build"}, kind : Kinds, dir : Dirs \cup {None},
        todo : SUBSET Windows, side : SUBSET Windows,
        target : Windows \cup {None}, into : Windows \cup {None}, fresh : BOOLEAN]]
  /\ main \in [at : {"idle", "content", "envelope", "gc"}, kind : Kinds,
               window : Windows \cup {None}, dir : Dirs \cup {None},
               wins : SUBSET Windows, side : SUBSET Windows]
  /\ file \in [Kinds -> Envelopes \cup {None}]
  /\ sidecar \subseteq Dirs \X Windows
  /\ unread \subseteq Kinds

Init ==
  /\ app = "off"
  /\ win = [w \in Windows |-> "none"]
  /\ closed = {}
  /\ dirty = FALSE
  /\ restore = [r \in Restores |-> NoRestore]
  /\ main = NoSave
  /\ file = [k \in Kinds |-> None]
  /\ sidecar = {}
  /\ unread = {}

Active == {r \in Restores : restore[r].at # "off"}
Exists(w) == win[w] # "none"
(* is_window_trivial *)
Trivial(w) == win[w] # "full"
MarkedDirty == dirty \/ Active = {}

Live == app \in {"starting", "running"} /\ main = NoSave

(* Bounds: an id for every window a restore has still to make, and a new    *)
(* directory name for a save.  The code's ids and names never repeat.        *)
Named == {restore[r].dir : r \in Active} \cup {main.dir}
           \cup {file[k].dir : k \in {j \in Kinds : file[j] # None}}
NewDirs == {d \in Dirs : d \notin Named /\ \A w \in Windows : <<d, w>> \notin sidecar}
Unused == {w \in Windows : ~Exists(w) /\ \A r \in Active : w \notin {restore[r].into, restore[r].target}}
Owed == UNION {{r} \X restore[r].todo : r \in Active}
Building == {r \in Active : restore[r].at = "build"}
Room(n) == Cardinality(Unused) + Cardinality(Building) >= Cardinality(Owed) + n

-----------------------------------------------------------------------------
(* The process. *)
Down ==
  /\ app' = "off"
  /\ win' = [w \in Windows |-> "none"]
  /\ closed' = {}
  /\ dirty' = FALSE
  /\ restore' = [r \in Restores |-> NoRestore]
  /\ main' = NoSave

(* Without a session to load there is nothing to restore at startup. *)
Launch ==
  /\ app = "off"
  /\ app' = IF file["session"] = None THEN "running" ELSE "starting"
  /\ UNCHANGED <<win, closed, dirty, restore, main, disk>>

Crash == app # "off" /\ Down /\ UNCHANGED disk

(* main(): the event loop has returned; a session that did not change since *)
(* it was restored is not saved.                                             *)
Quit ==
  /\ Live
  /\ IF dirty
     THEN /\ NewDirs # {}
          /\ app' = "quit"
          /\ main' = [NoSave EXCEPT !.at = "content"]
          /\ UNCHANGED <<win, closed, dirty, restore>>
     ELSE Down
  /\ UNCHANGED disk

-----------------------------------------------------------------------------
(* The user, the processes in the panes, and the window system.  A change   *)
(* made while a restore is under way does not mark the state dirty.          *)
NewWindow(w) ==
  /\ Live /\ w \in Unused /\ Room(1)
  /\ win' = [win EXCEPT ![w] = "plain"]
  /\ dirty' = MarkedDirty
  /\ UNCHANGED <<app, closed, restore, main, disk>>

(* Tabs and panes come, go and are resized. *)
Change(w, shape) ==
  /\ Live /\ Exists(w)
  /\ win' = [win EXCEPT ![w] = shape]
  /\ dirty' = MarkedDirty
  /\ UNCHANGED <<app, closed, restore, main, disk>>

(* Output alone is no change of the session. *)
Output(w) ==
  /\ Live /\ win[w] = "plain"
  /\ win' = [win EXCEPT ![w] = "full"]
  /\ UNCHANGED <<app, closed, dirty, restore, main, disk>>

(* MuxNotification::WindowRemoved *)
WindowGone(w) ==
  /\ Live /\ Exists(w)
  /\ win' = [win EXCEPT ![w] = "none"]
  /\ closed' = closed \ {w}
  /\ dirty' = MarkedDirty
  /\ UNCHANGED <<app, restore, main, disk>>

-----------------------------------------------------------------------------
(* Saving. *)
Marked(w) ==
  /\ closed' = closed \cup {w}
  /\ dirty' = MarkedDirty

(* Mutant: the save does not carry the window to mark when it is done. *)
CloseForgets(w) ==
  /\ Live /\ Exists(w)
  /\ IF Trivial(w)
     THEN Marked(w) /\ UNCHANGED main
     ELSE /\ NewDirs # {}
          /\ main' = [NoSave EXCEPT !.at = "content", !.kind = "closed"]
          /\ UNCHANGED <<closed, dirty>>
  /\ UNCHANGED <<app, win, restore, disk>>

CloseRequested(w) ==
  /\ Live /\ Exists(w)
  /\ IF Trivial(w)
     THEN Marked(w) /\ UNCHANGED main
     ELSE /\ NewDirs # {}
          /\ main' = [NoSave EXCEPT !.at = "content", !.kind = "closed", !.window = w]
          /\ UNCHANGED <<closed, dirty>>
  /\ UNCHANGED <<app, win, restore, disk>>

(* The save returns, well or not: the process ends after the session's, and *)
(* close_requested goes on after a window's.                                 *)
Returns ==
  IF main.kind = "session"
  THEN Down
  ELSE /\ Marked(main.window)
       /\ main' = NoSave
       /\ UNCHANGED <<app, win, restore>>

Shown == IF main.kind = "session" THEN {w \in Windows : Exists(w) /\ w \notin closed}
                                  ELSE {main.window}

(* A window whose snapshot cannot be built is left out, and a pane whose     *)
(* content is empty or cannot be written gets no sidecar.                    *)
WriteContent(d, wins, side) ==
  /\ main.at = "content"
  /\ sidecar' = sidecar \cup ({d} \X side)
  /\ main' = [main EXCEPT !.at = "envelope", !.dir = d, !.wins = wins, !.side = side]
  /\ UNCHANGED <<app, win, closed, dirty, restore, file, unread>>

(* There is nothing to save; or a session is one window without content:     *)
(* then it is not worth it, unless that window has several panes.            *)
OneBare == main.kind = "session" /\ main.side = {} /\ Cardinality(main.wins) = 1
MaySkip == main.wins = {} \/ OneBare
MaySave == main.wins # {} /\ (OneBare => \E w \in main.wins : win[w] = "full")

DropContent == sidecar' = sidecar \ ({main.dir} \X Windows)

SkipSave ==
  /\ main.at = "envelope" /\ MaySkip
  /\ DropContent
  /\ Returns
  /\ UNCHANGED <<file, unread>>

(* write_json_atomic, which replaces the file or leaves it. *)
WriteEnvelope ==
  /\ main.at = "envelope" /\ MaySave
  /\ file' = [file EXCEPT ![main.kind] =
                [dir |-> main.dir, wins |-> main.wins, side |-> main.side]]
  /\ main' = [main EXCEPT !.at = "gc"]
  /\ unread' = unread \ {main.kind}
  /\ UNCHANGED <<app, win, closed, dirty, restore, sidecar>>

(* Mutant: the envelope could not be written, and its directory has the name *)
(* of the one before.                                                        *)
WriteFailsOnOld ==
  /\ main.at = "envelope" /\ MaySave
  /\ sidecar' = {s \in sidecar : file[main.kind] = None \/ s[1] # file[main.kind].dir}
  /\ Returns
  /\ UNCHANGED <<file, unread>>

WriteFails ==
  /\ main.at = "envelope" /\ MaySave
  /\ DropContent
  /\ Returns
  /\ UNCHANGED <<file, unread>>

(* gc_kept_content_dirs: bad are the envelopes that cannot be read just now. *)
(* What cannot be removed is named by nothing, and never looked at again.    *)
Keep(kinds) == {file[k].dir : k \in {j \in kinds : file[j] # None}}

(* Mutant: only the envelope just written is kept. *)
GcOwn(bad) ==
  LET keep == Keep({main.kind} \ bad)
  IN  /\ main.at = "gc"
      /\ sidecar' = {s \in sidecar : s[1] \in keep}
      /\ unread' = unread \cup {k \in bad : file[k] # None}
      /\ Returns
      /\ UNCHANGED file

Gc(bad) ==
  LET keep == Keep(Kinds \ bad)
  IN  /\ main.at = "gc"
      /\ sidecar' = {s \in sidecar : s[1] \in keep}
      /\ unread' = unread \cup {k \in bad : file[k] # None}
      /\ Returns
      /\ UNCHANGED file

-----------------------------------------------------------------------------
(* Restoring.  Starts is RestoringGuard::new with what the task then holds. *)
Starts(r, kind, target) ==
  /\ restore' = [restore EXCEPT ![r] =
       [NoRestore EXCEPT !.at = "next", !.kind = kind, !.target = target,
          !.dir = file[kind].dir, !.todo = file[kind].wins, !.side = file[kind].side]]
  /\ UNCHANGED <<win, closed, dirty, main, disk>>

(* try_restore_on_startup: a window that is still empty is the target. *)
Empty == {w \in Windows : Exists(w) /\ Trivial(w)}
StartupRestore(r) ==
  /\ app = "starting" /\ main = NoSave
  /\ r \notin Active /\ Room(Cardinality(file["session"].wins))
  /\ app' = "running"
  /\ \E w \in Empty \cup {None} :
       /\ (w = None) = (Empty = {})
       /\ Starts(r, "session", w)

RestoreMenu(r, current) ==
  /\ Live /\ Exists(current) /\ file["closed"] # None
  /\ r \notin Active /\ Room(1)
  /\ Starts(r, "closed", IF Trivial(current) THEN current ELSE None)
  /\ UNCHANGED app

(* restore_window up to its first spawn: into the target if that is still    *)
(* there, else into a new window.                                            *)
RestoreNext(r, w) ==
  LET reuse == restore[r].target # None /\ w = restore[r].target
  IN  /\ Live /\ restore[r].at = "next"
      /\ IF restore[r].target # None /\ Exists(restore[r].target) THEN reuse ELSE w \in Unused
      /\ closed' = closed \ {restore[r].target}
      /\ win' = IF reuse THEN win ELSE [win EXCEPT ![w] = "plain"]
      /\ restore' = [restore EXCEPT ![r].at = "build", ![r].target = None,
                                    ![r].into = w, ![r].fresh = ~reuse]
      /\ UNCHANGED <<app, dirty, main, disk>>

(* The guard goes: only the last one clears the flag. *)
GuardDropped(r) ==
  /\ restore' = [restore EXCEPT ![r] = NoRestore]
  /\ dirty' = (dirty /\ Active # {r})

NextOrDone(r, saved) ==
  /\ saved \in restore[r].todo
  /\ IF restore[r].todo = {saved}
     THEN GuardDropped(r)
     ELSE /\ restore' = [restore EXCEPT ![r].at = "next", ![r].todo = @ \ {saved},
                                        ![r].into = None, ![r].fresh = FALSE]
          /\ UNCHANGED dirty

(* Every pane is spawned and its content shown again.  A window closed last *)
(* is consumed.                                                              *)
RestoreBuilt(r, saved, shape) ==
  /\ Live /\ restore[r].at = "build" /\ Exists(restore[r].into)
  /\ win' = [win EXCEPT ![restore[r].into] = shape]
  /\ NextOrDone(r, saved)
  /\ IF restore[r].kind = "closed"
     THEN file' = [file EXCEPT !["closed"] = None] /\ unread' = unread \ {"closed"}
     ELSE UNCHANGED <<file, unread>>
  /\ UNCHANGED <<app, closed, main, sidecar>>

(* A domain is not there, or the window has gone.  A new window is taken    *)
(* back, a reused one keeps what was added to it; a session goes on with its *)
(* next window.                                                              *)
RestoreFails(r, saved, shape) ==
  LET w == restore[r].into
  IN  /\ Live /\ restore[r].at = "build"
      /\ win' = IF ~Exists(w) THEN win
                ELSE [win EXCEPT ![w] = IF restore[r].fresh THEN "none" ELSE shape]
      /\ closed' = IF restore[r].fresh THEN closed \ {w} ELSE closed
      /\ NextOrDone(r, saved)
      /\ UNCHANGED <<app, main, disk>>

-----------------------------------------------------------------------------
Saves ==
  \/ \E d \in NewDirs, wins \in SUBSET Shown :
       \E side \in SUBSET wins : WriteContent(d, wins, side)
  \/ SkipSave
  \/ WriteEnvelope
  \/ WriteFails
  \/ \E bad \in SUBSET Kinds : Gc(bad)

Steps(r) ==
  \/ \E w \in Windows : RestoreNext(r, w)
  \/ \E saved \in Windows, shape \in Filled : RestoreBuilt(r, saved, shape)
  \/ \E saved \in Windows, shape \in Filled : RestoreFails(r, saved, shape)

Next ==
  \/ Launch
  \/ Crash
  \/ Quit
  \/ \E w \in Windows : NewWindow(w)
  \/ \E w \in Windows, shape \in Filled : Change(w, shape)
  \/ \E w \in Windows : Output(w)
  \/ \E w \in Windows : WindowGone(w)
  \/ \E w \in Windows : CloseRequested(w)
  \/ Saves
  \/ \E r \in Restores : StartupRestore(r)
  \/ \E r \in Restores, w \in Windows : RestoreMenu(r, w)
  \/ \E r \in Restores : Steps(r)

Spec == Init /\ [][Next]_vars

-----------------------------------------------------------------------------
(* Every envelope's content is there, whenever the process died and whatever *)
(* it failed to write or to remove: content is written before the envelope   *)
(* that names it, and collected only when neither envelope names it          *)
(* (save_session_snapshot, save_closed_window_snapshot,                      *)
(* gc_kept_content_dirs).  An envelope that could not be read while the      *)
(* directories were collected is the exception the code makes.               *)
ContentIsThere ==
  \A k \in Kinds :
    file[k] # None /\ k \notin unread => {file[k].dir} \X file[k].side \subseteq sidecar

(* A session that is being restored finds the content of each window it has  *)
(* still to show, although windows are closed, saved and collected meanwhile *)
(* (restore_session, load_pane_payload).                                     *)
RestoreFindsContent ==
  app # "quit" => \A r \in Active :
    restore[r].kind = "session" /\ "session" \notin unread
      => {restore[r].dir} \X (restore[r].todo \cap restore[r].side) \subseteq sidecar
=============================================================================
