----------------------------- MODULE MuxWindows -----------------------------
(***************************************************************************)
(* The mux core of mux/src/lib.rs: which windows, tabs and panes exist,    *)
(* how they are opened, moved and closed, and how prune_dead_windows       *)
(* cleans up behind processes that end.                                    *)
(*                                                                         *)
(* The maps are changed on the main thread only, which runs queued tasks   *)
(* to their next await.  Other threads do three things: a process ends and *)
(* its waiter queues a prune, a pane's reader ends and queues a removal or *)
(* a prune, a domain answers a spawn.  These interleave also with the two  *)
(* halves of a prune, since each half asks every process anew whether it   *)
(* ended.                                                                  *)
(*                                                                         *)
(* A tab's tree is the set of its panes (SplitTree has its shape) and a    *)
(* window's list the set of its tabs (WindowTabs has order and selection). *)
(* Several queued prunes are one flag that a prune may leave set.  Nobody  *)
(* but the main thread locks the map of windows, so try_write succeeds.    *)
(* An operation may also fail half-way, with what it did left behind: a    *)
(* split that finds no space after its pane was made, a pane that cannot   *)
(* be resized or read.  Nobody sees to such a pane (strays) or to a tab    *)
(* that lost its last pane so (torn).                                      *)
(* Ids of windows and tabs that nothing refers to are used again.          *)
(***************************************************************************)
EXTENDS FiniteSets, Naturals

CONSTANTS
  Windows, Tabs, Panes, \* ids
  Ops,                  \* spawns and splits that await their domain at once
  Behaviours,           \* the values of exit_behavior looked at
  None

ASSUME MuxAssumption ==
  Behaviours \subseteq {"Close", "CloseOnCleanExit", "Hold"} /\ None \notin Panes

VARIABLES
  mux,       \* the maps and the processes behind them, see MuxType
  behaviour, \* exit_behavior of the configuration
  op,        \* spawns and splits that await their domain
  main,      \* the main thread: idle, at a half of a prune, after one, or broken
  doomed,    \* windows the first half found empty
  moving     \* the pane a MovePane split has in hand during its prune

vars == <<mux, behaviour, op, main, doomed, moving>>

(* Of a process: running, or killed and about to end; ended, and what the  *)
(* pane will be when it is next asked: dead, held open for its output      *)
(* ("fails") or held until it is killed ("stays"); and what it was found.  *)
ProcState == {"none", "running", "dying", "closes", "fails", "stays", "held", "dead"}

MuxType ==
  [windows  : SUBSET Windows,            \* Mux::windows
   tabsOf   : [Windows -> SUBSET Tabs],  \* the tabs of each window
   tabs     : SUBSET Tabs,               \* Mux::tabs
   tree     : [Tabs -> SUBSET Panes],    \* the panes of each tab
   panes    : SUBSET Panes,              \* Mux::panes
   proc     : [Panes -> ProcState],
   reading  : SUBSET Panes,              \* panes with a reader at work
   queued   : BOOLEAN,                   \* is a prune queued?
   removals : SUBSET Panes,              \* queued calls of remove_pane
   strays   : SUBSET Panes,              \* history: panes a failed step left out
   torn     : SUBSET Tabs]               \* history: tabs left empty by a failed move

Idle == [kind |-> "none", win |-> None, tab |-> None, pane |-> None, act |-> FALSE]

OpType ==
  [kind : {"none", "tab", "window", "split"}, win : Windows \cup {None},
   tab : Tabs \cup {None}, pane : Panes \cup {None}, act : BOOLEAN]

(* Values; and what the main thread has in hand is set only while it has. *)
TypeOK ==
  /\ mux \in MuxType
  /\ behaviour \in Behaviours
  /\ op \in [Ops -> OpType]
  /\ main \in {"idle", "prune", "pruneTabs", "insert", "broken"}
  /\ doomed \subseteq mux.windows /\ (doomed # {} => main = "pruneTabs")
  /\ moving \in [tab : Tabs \cup {None}, at : Panes \cup {None}, pane : Panes \cup {None}]
  /\ \A w \in Windows \ mux.windows : mux.tabsOf[w] = {}

Nothing == [tab |-> None, at |-> None, pane |-> None]

(* One window with a tab and a pane. *)
Init ==
  \E w \in Windows, t \in Tabs, p \in Panes :
    /\ mux = [windows  |-> {w},
              tabsOf   |-> [v \in Windows |-> IF v = w THEN {t} ELSE {}],
              tabs     |-> {t},
              tree     |-> [u \in Tabs |-> IF u = t THEN {p} ELSE {}],
              panes    |-> {p},
              proc     |-> [q \in Panes |-> IF q = p THEN "running" ELSE "none"],
              reading  |-> {p},
              queued   |-> FALSE,
              removals |-> {},
              strays   |-> {},
              torn     |-> {}]
    /\ behaviour \in Behaviours
    /\ op = [o \in Ops |-> Idle]
    /\ main = "idle" /\ doomed = {} /\ moving = Nothing

-----------------------------------------------------------------------------
(* Pieces of several operations. *)
Shown(m)  == UNION {m.tabsOf[w] : w \in m.windows}
Listed(m) == {p \in Panes : \E t \in m.tabs : p \in m.tree[t]}

(* What a process that ends will leave of its pane. *)
End(state, clean) ==
  CASE behaviour = "Close"            -> "closes"
    [] behaviour = "CloseOnCleanExit" -> IF clean THEN "closes" ELSE "fails"
    [] OTHER                          -> IF state = "dying" THEN "closes" ELSE "stays"

(* LocalPane::is_dead *)
Asked(state) ==
  CASE state = "closes"              -> "dead"
    [] state \in {"fails", "stays"} -> "held"
    [] OTHER                         -> state

Ask(m, S) == [m EXCEPT !.proc = [p \in Panes |-> IF p \in S THEN Asked(@[p]) ELSE @[p]]]

(* LocalPane::kill *)
Killed(state) ==
  CASE state = "running" -> "dying"
    [] state = "stays"   -> "closes"
    [] state = "held"    -> "dead"
    [] OTHER             -> state

(* remove_pane_internal for each pane of S, whose readers are told to stop. *)
RemovePanes(m, S) ==
  LET gone == S \cap m.panes IN
  [m EXCEPT !.panes   = @ \ gone,
            !.reading = @ \ gone,
            !.proc    = [p \in Panes |-> IF p \in gone THEN Killed(@[p]) ELSE @[p]]]

(* remove_tab_internal for each tab of S *)
RemoveTabs(m, S) ==
  LET gone == S \cap m.tabs
      m1   == [m EXCEPT !.tabs = @ \ gone, !.tabsOf = [w \in Windows |-> @[w] \ gone]]
  IN RemovePanes(m1, UNION {m.tree[t] : t \in gone})

(* The state after a step, without what no longer matters: the panes of a  *)
(* tab that neither the mux nor a task holds, how the process of a pane    *)
(* that is nowhere any more ended.  A removal of a pane that is out of the *)
(* mux is a prune.                                                         *)
Settled(m, tabsHeld, panesHeld) ==
  LET tree == [t \in Tabs |-> IF t \in m.tabs \cup Shown(m) \cup tabsHeld THEN m.tree[t] ELSE {}]
      used == m.panes \cup panesHeld \cup UNION {tree[t] : t \in Tabs}
  IN [m EXCEPT !.tree     = tree,
               !.proc     = [p \in Panes |->
                  IF p \in used \/ @[p] \in {"none", "running", "dying"} THEN @[p] ELSE "dead"],
               !.removals = @ \cap m.panes,
               !.queued   = @ \/ ~(m.removals \subseteq m.panes),
               !.strays   = @ \cap m.panes,
               !.torn     = @ \cap m.tabs]

Becomes(m) ==
  mux' = Settled(m, {op'[o].tab : o \in Ops} \cup {moving'.tab}, {moving'.pane})

IsDead(m, t) == \A p \in m.tree[t] : m.proc[p] = "dead"

HomeOf(m, p) == CHOOSE t \in m.tabs : p \in m.tree[t]

(* resolve_pane_id *)
Resolves(m, p) == \E t \in m.tabs \cap Shown(m) : p \in m.tree[t]

(* Is the pane still in that tab, and the tab in a window? *)
Placed(p, t) == t \in mux.tabs \cap Shown(mux) /\ p \in mux.tree[t]

(* alloc_tab_id and the like: ids that nothing refers to. *)
FreshTab(t)    == t \notin mux.tabs \cup Shown(mux) /\ \A o \in Ops : op[o].tab # t
FreshWindow(w) == w \notin mux.windows /\ \A o \in Ops : op[o].win # w
FreshPane(p)   == mux.proc[p] = "none"

(* spawn_pane: the process, its reader, the entry in the map. *)
WithPane(m, p) ==
  [m EXCEPT !.panes = @ \cup {p}, !.reading = @ \cup {p}, !.proc[p] = "running"]

WithTab(m, t, p) == [m EXCEPT !.tabs = @ \cup {t}, !.tree[t] = {p}]

Activity == \E o \in Ops : op[o].act

-----------------------------------------------------------------------------
(* Other threads.  split_child: the process ends, which a prune will see. *)
ProcessEnds(p, clean) ==
  /\ mux.proc[p] \in {"running", "dying"}
  /\ UNCHANGED <<behaviour, op, main, doomed, moving>>
  /\ Becomes([mux EXCEPT !.proc[p] = End(@, clean), !.queued = TRUE])

(* read_from_pane_pty: the end of the file, or a broken pty.  (A reader    *)
(* that was told to stop has nothing left to do but to queue a prune.)     *)
ReaderEnds(p, fatal) ==
  LET ended == [mux EXCEPT !.reading = @ \ {p}] IN
  /\ p \in mux.reading
  /\ fatal \/ mux.proc[p] # "running"
  /\ UNCHANGED <<behaviour, op, main, doomed, moving>>
  /\ IF fatal \/ behaviour = "Close"
       THEN Becomes([ended EXCEPT !.removals = @ \cup {p}])
       ELSE Becomes([ended EXCEPT !.queued = TRUE])

-----------------------------------------------------------------------------
(* prune_dead_windows *)
RunPrune ==
  /\ main = "idle" /\ mux.queued
  /\ main' = "prune"
  /\ \E more \in BOOLEAN : mux' = [mux EXCEPT !.queued = more]
  /\ UNCHANGED <<behaviour, op, doomed, moving>>

Afterwards == IF moving = Nothing THEN "idle" ELSE "insert"

PruneSkipped ==
  /\ main = "prune" /\ Activity
  /\ main' = Afterwards
  /\ UNCHANGED <<mux, behaviour, op, doomed, moving>>

(* Mutant: a pane found dead is taken as removed from the mux already. *)
CutForgets(m, skip) ==
  LET dead(t) == {p \in m.tree[t] : m.proc[p] = "dead"} IN
  UNION {IF dead(t) \subseteq skip THEN dead(t) ELSE dead(t) \ skip : t \in Shown(m)}

(* Of the dead panes in the windows' tabs a pass over the trees takes out  *)
(* some: it can step over the sibling of one (skip), but takes out one     *)
(* dead pane where there is any.                                           *)
Cut(m, skip) ==
  LET dead(t) == {p \in m.tree[t] : m.proc[p] = "dead" \/ p \notin m.panes} IN
  UNION {IF dead(t) \subseteq skip THEN dead(t) ELSE dead(t) \ skip : t \in Shown(m)}

(* The first half: each window drops the dead panes of its tabs, to be     *)
(* removed by a task each, and the tabs that are dead or unlisted.         *)
PruneWindows(skip) ==
  LET m1  == Ask(mux, UNION {mux.tree[t] : t \in Shown(mux)})
      cut == Cut(m1, skip)
      m2  == [m1 EXCEPT !.tree = [t \in Tabs |-> IF t \in Shown(mux) THEN @[t] \ cut ELSE @[t]],
                        !.removals = @ \cup cut]
      m3  == [m2 EXCEPT !.tabsOf = [w \in Windows |-> {t \in @[w] : t \in m2.tabs /\ ~IsDead(m2, t)}]]
  IN
  /\ main = "prune" /\ ~Activity
  /\ doomed' = {w \in m3.windows : m3.tabsOf[w] = {}}
  /\ main' = "pruneTabs"
  /\ UNCHANGED <<behaviour, op, moving>>
  /\ Becomes(m3)

(* Mutant: the list of empty windows is not cleared afterwards. *)
PruneTabsKeepsList ==
  LET m1 == Ask(mux, Listed(mux))
      m2 == RemoveTabs(m1, {t \in m1.tabs : IsDead(m1, t)})
  IN
  /\ main = "pruneTabs"
  /\ main' = Afterwards
  /\ UNCHANGED <<behaviour, op, doomed, moving>>
  /\ Becomes([m2 EXCEPT !.windows = @ \ doomed])

(* The second half: the tabs that are dead by now, and the windows that    *)
(* the first half emptied.                                                 *)
PruneTabs ==
  LET m1 == Ask(mux, Listed(mux))
      m2 == RemoveTabs(m1, {t \in m1.tabs : IsDead(m1, t)})
  IN
  /\ main = "pruneTabs"
  /\ doomed' = {}
  /\ main' = Afterwards
  /\ UNCHANGED <<behaviour, op, moving>>
  /\ Becomes([m2 EXCEPT !.windows = @ \ doomed])

(* remove_pane, as queued by a reader, a prune or the closing of a pane *)
RunRemovePane(p) ==
  /\ main = "idle" /\ p \in mux.removals
  /\ main' = "prune"
  /\ UNCHANGED <<behaviour, op, doomed, moving>>
  /\ Becomes(RemovePanes([mux EXCEPT !.removals = @ \ {p}], {p}))

-----------------------------------------------------------------------------
(* The user closes a pane (Tab::kill_pane), a tab, or a window. *)
ClosePane(p) ==
  /\ main = "idle" /\ Resolves(mux, p)
  /\ UNCHANGED <<behaviour, op, main, doomed, moving>>
  /\ Becomes([mux EXCEPT !.tree[HomeOf(mux, p)] = @ \ {p}, !.removals = @ \cup {p}])

CloseTab(t) ==
  /\ main = "idle" /\ t \in mux.tabs
  /\ main' = "prune"
  /\ UNCHANGED <<behaviour, op, doomed, moving>>
  /\ Becomes(RemoveTabs(mux, {t}))

WithoutWindow(m, w) == [m EXCEPT !.windows = @ \ {w}, !.tabsOf[w] = {}]

(* kill_window *)
CloseWindow(w) ==
  /\ main = "idle" /\ w \in mux.windows
  /\ main' = "prune"
  /\ UNCHANGED <<behaviour, op, doomed, moving>>
  /\ Becomes(RemoveTabs(WithoutWindow(mux, w), mux.tabsOf[w]))

-----------------------------------------------------------------------------
(* spawn_tab_or_window up to the domain's spawn.  A new window is announced *)
(* at once, which drops the builder's Activity; the caller may hold one.    *)
SpawnTab(o, w, act) ==
  /\ main = "idle" /\ op[o] = Idle
  /\ w \in mux.windows
  /\ \E t \in mux.tabsOf[w] : mux.tree[t] # {}
  /\ op' = [op EXCEPT ![o] = [Idle EXCEPT !.kind = "tab", !.win = w, !.act = act]]
  /\ UNCHANGED <<mux, behaviour, main, doomed, moving>>

SpawnWindow(o, w, act) ==
  /\ main = "idle" /\ op[o] = Idle
  /\ FreshWindow(w)
  /\ op' = [op EXCEPT ![o] = [Idle EXCEPT !.kind = "window", !.win = w, !.act = act]]
  /\ UNCHANGED <<behaviour, main, doomed, moving>>
  /\ Becomes([mux EXCEPT !.windows = @ \cup {w}, !.queued = TRUE])

(* Split a pane; the domain is asked for a process. *)
SplitPane(o, p) ==
  /\ main = "idle" /\ op[o] = Idle
  /\ Resolves(mux, p)
  /\ op' = [op EXCEPT ![o] = [Idle EXCEPT !.kind = "split", !.tab = HomeOf(mux, p), !.pane = p]]
  /\ UNCHANGED <<mux, behaviour, main, doomed, moving>>

(* Mutant: the Activity that goes queues no prune. *)
ReturnsQuietly(o, m) ==
  /\ op' = [op EXCEPT ![o] = Idle]
  /\ UNCHANGED <<behaviour, main, doomed, moving>>
  /\ Becomes(m)

(* The operation returns, and with it goes its caller's Activity, which    *)
(* queues a prune.                                                         *)
Returns(o, m) ==
  /\ op' = [op EXCEPT ![o] = Idle]
  /\ UNCHANGED <<behaviour, main, doomed, moving>>
  /\ Becomes([m EXCEPT !.queued = @ \/ op[o].act])

DomainFails(o) ==
  /\ main = "idle" /\ op[o] # Idle
  /\ Returns(o, mux)

(* The domain answers: pane and tab enter the maps before it is known that *)
(* the window is still there to take the tab.                              *)
SpawnArrives(o, t, p) ==
  LET w == op[o].win
      m == WithTab(WithPane(mux, p), t, p)
  IN
  /\ main = "idle" /\ op[o].kind \in {"tab", "window"}
  /\ FreshTab(t) /\ FreshPane(p)
  /\ Returns(o, IF w \in mux.windows
                  THEN [m EXCEPT !.tabsOf[w] = @ \cup {t}]
                  ELSE [m EXCEPT !.strays = @ \cup {p}])

(* Put p next to at in t, if at is still there and the split fits: the tab *)
(* is not zoomed and has the room.  It is an error otherwise, which leaves *)
(* p where it is, outside every tab.                                       *)
PutInto(m, t, at, p, fits) ==
  [m EXCEPT !.tree[t] = IF fits /\ at \in m.tree[t] THEN @ \cup {p} ELSE @,
            !.strays  = IF fits /\ Placed(at, t) THEN @ ELSE @ \cup {p}]

(* split_and_insert takes the tree out of the tab and resizes both panes;  *)
(* if a pty refuses, it returns without putting the tree back.  The next   *)
(* look at the tab (a frame, a prune) panics on the main thread.           *)
LosesTree(m, t, at, p) ==
  /\ t \in m.tabs /\ at \in m.tree[t]
  /\ main' = "broken"
  /\ UNCHANGED <<behaviour, doomed>>
  /\ Becomes([m EXCEPT !.tree[t] = {}, !.strays = @ \cup m.tree[t] \cup {p}])

(* The tab is the one found before the wait; the pane to split may have    *)
(* left it, and the room it had may have gone.                             *)
SplitArrives(o, p) ==
  /\ main = "idle" /\ op[o].kind = "split"
  /\ FreshPane(p)
  /\ \E fits \in BOOLEAN :
       Returns(o, PutInto(WithPane(mux, p), op[o].tab, op[o].pane, p, fits))

SplitBreaks(o, p) ==
  /\ main = "idle" /\ op[o].kind = "split"
  /\ FreshPane(p)
  /\ op' = [op EXCEPT ![o] = Idle] /\ UNCHANGED moving
  /\ LosesTree(WithPane(mux, p), op[o].tab, op[o].pane, p)

(* add_pane: the pane is in the map already when its pty gives no reader,  *)
(* and stays there while the spawn or split fails.                         *)
ReaderFails(o, p) ==
  /\ main = "idle" /\ op[o] # Idle
  /\ FreshPane(p)
  /\ Returns(o, [WithPane(mux, p) EXCEPT !.reading = @ \ {p}, !.strays = @ \cup {p}])

-----------------------------------------------------------------------------
(* Domain::split_pane with MovePane: the pane leaves its tab, which is     *)
(* removed (with a prune) if nothing alive is left in it.                  *)
MoveToSplit(p, at) ==
  LET src == HomeOf(mux, p)
      m   == Ask([mux EXCEPT !.tree[src] = @ \ {p}], mux.tree[src] \ {p})
  IN
  /\ main = "idle" /\ Resolves(mux, p) /\ Resolves(mux, at)
  /\ moving' = [tab |-> HomeOf(mux, at), at |-> at, pane |-> p]
  /\ UNCHANGED <<behaviour, op, doomed>>
  /\ main' = IF IsDead(m, src) THEN "prune" ELSE "insert"
  /\ Becomes(IF IsDead(m, src) THEN RemoveTabs(m, {src}) ELSE m)

(* It is inserted next to the target, if that is still in its tab and the  *)
(* split fits.                                                             *)
Insert ==
  /\ main = "insert"
  /\ main' = "idle"
  /\ moving' = Nothing
  /\ UNCHANGED <<behaviour, op, doomed>>
  /\ \E fits \in BOOLEAN : Becomes(PutInto(mux, moving.tab, moving.at, moving.pane, fits))

InsertBreaks ==
  /\ main = "insert"
  /\ moving' = Nothing /\ UNCHANGED op
  /\ LosesTree(mux, moving.tab, moving.at, moving.pane)

(* Mutant: the pane is put into the new tab but not taken out of the old. *)
MoveToTabCopies(p, w, t) ==
  /\ main = "idle" /\ Resolves(mux, p) /\ FreshTab(t)
  /\ IF w \in mux.windows THEN mux.tabsOf[w] # {} ELSE FreshWindow(w)
  /\ UNCHANGED <<behaviour, op, main, doomed, moving>>
  /\ Becomes([WithTab(mux, t, p) EXCEPT
        !.windows = @ \cup {w}, !.tabsOf[w] = @ \cup {t}, !.queued = @ \/ w \notin mux.windows])

(* move_pane_to_new_tab, into a window that has tabs or a new one.  The    *)
(* new window's builder holds an Activity to the end, so that the prune    *)
(* inside remove_tab does nothing and one is queued instead.               *)
MoveToTab(p, w, t) ==
  LET src == HomeOf(mux, p)
      new == w \notin mux.windows
      m1  == WithTab([mux EXCEPT !.tree[src] = @ \ {p}], t, p)
      m2  == [m1 EXCEPT !.windows = @ \cup {w}, !.tabsOf[w] = @ \cup {t}, !.queued = @ \/ new]
      m3  == Ask(m2, m2.tree[src])
  IN
  /\ main = "idle" /\ Resolves(mux, p) /\ FreshTab(t)
  /\ IF new THEN FreshWindow(w) ELSE mux.tabsOf[w] # {}
  /\ main' = IF IsDead(m3, src) /\ ~new THEN "prune" ELSE "idle"
  /\ UNCHANGED <<behaviour, op, doomed, moving>>
  /\ Becomes(IF IsDead(m3, src) THEN RemoveTabs(m3, {src}) ELSE m3)

(* The pane is out of its tab, and cannot be resized for the new one: the  *)
(* tab is not added and the old one, empty or not, not looked at again.    *)
MoveToTabFails(p, w) ==
  LET src == HomeOf(mux, p)
      new == w \notin mux.windows
  IN
  /\ main = "idle" /\ Resolves(mux, p)
  /\ IF new THEN FreshWindow(w) ELSE mux.tabsOf[w] # {}
  /\ UNCHANGED <<behaviour, op, main, doomed, moving>>
  /\ Becomes([mux EXCEPT !.tree[src] = @ \ {p}, !.strays = @ \cup {p},
                         !.torn = IF mux.tree[src] = {p} THEN @ \cup {src} ELSE @,
                         !.windows = @ \cup {w}, !.queued = @ \/ new])

-----------------------------------------------------------------------------
MainStep ==
  \/ RunPrune \/ PruneSkipped \/ PruneTabs \/ Insert \/ InsertBreaks
  \/ \E skip \in SUBSET Panes : PruneWindows(skip)
  \/ \E p \in Panes : RunRemovePane(p)

DomainAnswers(o) ==
  \/ DomainFails(o)
  \/ \E p \in Panes : SplitArrives(o, p) \/ SplitBreaks(o, p) \/ ReaderFails(o, p)
  \/ \E p \in Panes, t \in Tabs : SpawnArrives(o, t, p)

Next ==
  \/ MainStep
  \/ \E p \in Panes : \E b \in BOOLEAN : ProcessEnds(p, b) \/ ReaderEnds(p, b)
  \/ \E p \in Panes : ClosePane(p) \/ \E q \in Panes : MoveToSplit(p, q)
  \/ \E p \in Panes, w \in Windows : MoveToTabFails(p, w) \/ \E t \in Tabs : MoveToTab(p, w, t)
  \/ \E t \in Tabs : CloseTab(t)
  \/ \E w \in Windows : CloseWindow(w)
  \/ \E o \in Ops :
       \/ DomainAnswers(o)
       \/ \E w \in Windows, b \in BOOLEAN : SpawnTab(o, w, b) \/ SpawnWindow(o, w, b)
       \/ \E p \in Panes : SplitPane(o, p)

Spec == Init /\ [][Next]_vars

(* Killed processes end, readers see the end, and domains answer.  The     *)
(* main thread's queue is in order and finite: what it runs is finished,   *)
(* and removals, answers and the last prune in it have their turn, a prune *)
(* also in between the spawns that would make it pass.  (A pane does each  *)
(* of these things once, so fairness to some pane is fairness to each.)    *)
Fairness ==
  /\ WF_vars(MainStep)
  /\ SF_vars(RunPrune /\ ~Activity /\ ~mux'.queued)
  /\ SF_vars(\E p \in Panes : RunRemovePane(p))
  /\ \A o \in Ops : SF_vars(DomainAnswers(o))
  /\ WF_vars(\E p \in Panes, b \in BOOLEAN : mux.proc[p] = "dying" /\ ProcessEnds(p, b))
  /\ WF_vars(\E p \in Panes : ReaderEnds(p, FALSE))

FairSpec == Spec /\ Fairness

-----------------------------------------------------------------------------
(* A pane is in one tab and a tab in one window, through every split, move *)
(* and close; and a pane of the mux has such a place unless its removal is *)
(* queued or an operation that reports an error left it without: the place *)
(* was gone, the split refused, the pane not to be read or resized.  No    *)
(* operation that succeeds loses one (lib.rs, domain.rs).                  *)
PanesHaveOneHome ==
  /\ \A t, u \in mux.tabs : t # u => mux.tree[t] \cap mux.tree[u] = {}
  /\ \A v, w \in mux.windows : v # w => mux.tabsOf[v] \cap mux.tabsOf[w] = {}
  /\ main = "idle" =>
       \A p \in mux.panes \ mux.strays : Resolves(mux, p) \/ p \in mux.removals

Quiet ==
  /\ main = "idle" /\ ~mux.queued
  /\ mux.removals = {}
  /\ \A o \in Ops : op[o] = Idle

(* When nothing is queued and nothing awaited, there is nothing to clean   *)
(* up: no window is empty, its tabs are known to the mux and have panes,   *)
(* and those panes are in the mux and were asked since their process       *)
(* ended.  So every way to lose a pane, also one that meets an Activity, a *)
(* half-done prune or a pass that steps over a pane, queues the prune that *)
(* follows it up, but for a move to a new tab that fails after it took the *)
(* last pane out of its tab (lib.rs, activity.rs, localpane.rs).           *)
NothingStranded ==
  Quiet =>
    \A w \in mux.windows :
      /\ mux.tabsOf[w] # {}
      /\ \A t \in mux.tabsOf[w] :
           /\ t \in mux.tabs /\ (mux.tree[t] # {} \/ t \in mux.torn)
           /\ mux.tree[t] \subseteq mux.panes
           /\ \A p \in mux.tree[t] : mux.proc[p] \in {"running", "held"}

Alive(w) ==
  \E t \in mux.tabsOf[w] : \E p \in mux.tree[t] \cap mux.panes : mux.proc[p] \in {"running", "held"}

Torn(w) == mux.tabsOf[w] # {} /\ mux.tabsOf[w] \subseteq mux.torn

(* A window in which no pane is alive any more goes, or gets a live pane   *)
(* again (prune_dead_windows and all that queues it), unless failed moves  *)
(* emptied all its tabs or the main thread breaks on a lost tree.          *)
DeadWindowsGo ==
  \A w \in Windows :
    w \in mux.windows /\ ~Alive(w)
      ~> w \notin mux.windows \/ Alive(w) \/ Torn(w) \/ main = "broken"
=============================================================================
