-------------------------- MODULE MuxWindowsProof --------------------------
(***************************************************************************)
(* Proofs about module MuxWindows, for any sets of windows, tabs, panes    *)
(* and operations: a pane has one home, is lost only by an operation that  *)
(* fails, and whatever a prune should take is followed up by one.          *)
(***************************************************************************)
EXTENDS MuxWindows, TLAPS

(* The maps agree with each other: a window's tabs are in the mux, no tab  *)
(* is in two windows and no pane in two tabs, and a pane that was never    *)
(* made is nowhere.                                                        *)
Proper(m) ==
  /\ m \in MuxType
  /\ \A w \in Windows \ m.windows : m.tabsOf[w] = {}
  /\ \A w \in Windows : m.tabsOf[w] \subseteq m.tabs
  /\ \A t, u \in m.tabs : t # u => m.tree[t] \cap m.tree[u] = {}
  /\ \A v, w \in Windows : v # w => m.tabsOf[v] \cap m.tabsOf[w] = {}
  /\ \A p \in Panes : m.proc[p] = "none" => p \notin m.panes /\ \A t \in Tabs : p \notin m.tree[t]

(* The panes a MovePane split has in hand are in no tab. *)
InHand(m, hand) ==
  \A p \in hand : p \in Panes /\ m.proc[p] # "none" /\ \A t \in m.tabs : p \notin m.tree[t]

(* A pane that no failed step left out is in a tab of a window, or         *)
(* somebody will see to it: a queued removal, the split that has it in     *)
(* hand, or between the halves of a prune the second one, if its tab is    *)
(* dead.                                                                   *)
Housed(m, hand, step) ==
  \A p \in m.panes \ m.strays :
    \/ Resolves(m, p) \/ p \in m.removals \/ p \in hand
    \/ step = "pruneTabs" /\ \E t \in m.tabs : p \in m.tree[t] /\ IsDead(m, t)

Sound(m, hand, step) == Proper(m) /\ InHand(m, hand) /\ Housed(m, hand, step)

(* Outside the second half of a prune nothing depends on the step. *)
LEMMA SoundElsewhere ==
  ASSUME NEW m, NEW hand, NEW step, NEW next, Sound(m, hand, step), step # "pruneTabs"
  PROVE  Sound(m, hand, next)
BY DEF Sound, Housed

LEMMA ResolvesDef ==
  ASSUME NEW m \in MuxType, NEW p
  PROVE  Resolves(m, p) <=> \E w \in m.windows, t \in m.tabs : t \in m.tabsOf[w] /\ p \in m.tree[t]
BY DEF Resolves, Shown

(* Settling a state forgets nothing the maps still hold. *)
LEMMA SettledFields ==
  ASSUME NEW m \in MuxType, NEW T, NEW P
  PROVE  /\ Settled(m, T, P) \in MuxType
         /\ Settled(m, T, P).windows = m.windows
         /\ Settled(m, T, P).tabsOf = m.tabsOf
         /\ Settled(m, T, P).tabs = m.tabs
         /\ Settled(m, T, P).panes = m.panes
         /\ Settled(m, T, P).removals = m.removals \cap m.panes
         /\ Settled(m, T, P).strays = m.strays \cap m.panes
         /\ Settled(m, T, P).torn = m.torn \cap m.tabs
         /\ \A t \in m.tabs : Settled(m, T, P).tree[t] = m.tree[t]
         /\ \A t \in Tabs : Settled(m, T, P).tree[t] \subseteq m.tree[t]
         /\ \A p \in Panes : Settled(m, T, P).proc[p] = m.proc[p]
                             \/ (Settled(m, T, P).proc[p] = "dead" /\ m.proc[p] # "none")
<1> DEFINE tree == [t \in Tabs |-> IF t \in m.tabs \cup Shown(m) \cup T THEN m.tree[t] ELSE {}]
           used == m.panes \cup P \cup UNION {tree[t] : t \in Tabs}
           proc == [p \in Panes |-> IF p \in used \/ m.proc[p] \in {"none", "running", "dying"}
                                      THEN m.proc[p] ELSE "dead"]
           queued == m.queued \/ ~(m.removals \subseteq m.panes)
<1>1. m = [windows |-> m.windows, tabsOf |-> m.tabsOf, tabs |-> m.tabs, tree |-> m.tree,
           panes |-> m.panes, proc |-> m.proc, reading |-> m.reading, queued |-> m.queued,
           removals |-> m.removals, strays |-> m.strays, torn |-> m.torn]
  BY DEF MuxType
<1>2. Settled(m, T, P) =
        [windows |-> m.windows, tabsOf |-> m.tabsOf, tabs |-> m.tabs, tree |-> tree,
         panes |-> m.panes, proc |-> proc, reading |-> m.reading, queued |-> queued,
         removals |-> m.removals \cap m.panes, strays |-> m.strays \cap m.panes,
         torn |-> m.torn \cap m.tabs]
  <2> HIDE DEF tree, proc
  <2>1. Settled(m, T, P) =
          [m EXCEPT !.tree = tree, !.proc = proc, !.removals = @ \cap m.panes,
                    !.queued = @ \/ ~(m.removals \subseteq m.panes), !.strays = @ \cap m.panes,
                    !.torn = @ \cap m.tabs]
    BY DEF Settled, tree, proc
  <2> QED BY <1>1, <2>1
<1>3. tree \in [Tabs -> SUBSET Panes] /\ proc \in [Panes -> ProcState] /\ queued \in BOOLEAN
  <2>1. m.tree \in [Tabs -> SUBSET Panes] /\ m.proc \in [Panes -> ProcState] /\ m.queued \in BOOLEAN
    BY DEF MuxType
  <2> HIDE DEF used
  <2> QED BY <2>1 DEF ProcState
<1>4. m.tabs \subseteq Tabs
  BY DEF MuxType
<1> HIDE DEF proc, queued
<1>5. Settled(m, T, P) \in MuxType
  BY <1>2, <1>3 DEF MuxType
<1>6. \A p \in Panes : proc[p] = m.proc[p] \/ (proc[p] = "dead" /\ m.proc[p] # "none")
  <2> SUFFICES ASSUME NEW p \in Panes
               PROVE  proc[p] = m.proc[p] \/ (proc[p] = "dead" /\ m.proc[p] # "none")
    OBVIOUS
  <2> HIDE DEF used
  <2>1. proc[p] = IF p \in used \/ m.proc[p] \in {"none", "running", "dying"}
                    THEN m.proc[p] ELSE "dead"
    BY DEF proc
  <2> QED BY <2>1
<1> QED
  BY <1>2, <1>4, <1>5, <1>6

LEMMA SettledIsSound ==
  ASSUME NEW m, NEW hand, NEW step, Sound(m, hand, step), NEW T, NEW P
  PROVE  Sound(Settled(m, T, P), hand, step)
<1> DEFINE s == Settled(m, T, P)
<1>1. /\ s \in MuxType /\ s.windows = m.windows /\ s.tabsOf = m.tabsOf /\ s.tabs = m.tabs
      /\ s.panes = m.panes /\ s.removals = m.removals \cap m.panes
      /\ s.strays = m.strays \cap m.panes
      /\ \A t \in m.tabs : s.tree[t] = m.tree[t]
      /\ \A t \in Tabs : s.tree[t] \subseteq m.tree[t]
      /\ \A p \in Panes : s.proc[p] = m.proc[p] \/ (s.proc[p] = "dead" /\ m.proc[p] # "none")
  BY SettledFields DEF Sound, Proper
<1> HIDE DEF s
<1>2. Proper(s)
  BY <1>1 DEF Sound, Proper
<1>3. InHand(s, hand)
  BY <1>1 DEF Sound, InHand
<1>4. Housed(s, hand, step)
  <2> SUFFICES ASSUME NEW p \in s.panes \ s.strays
               PROVE  \/ Resolves(s, p) \/ p \in s.removals \/ p \in hand
                      \/ step = "pruneTabs" /\ \E t \in s.tabs : p \in s.tree[t] /\ IsDead(s, t)
    BY DEF Housed
  <2>1. m \in MuxType /\ p \in m.panes \ m.strays /\ m.tabs \subseteq Tabs
    BY <1>1 DEF Sound, Proper, MuxType
  <2>2. CASE Resolves(m, p)
    BY <1>1, <2>1, <2>2, ResolvesDef
  <2>3. ASSUME NEW t \in m.tabs, p \in m.tree[t], IsDead(m, t)
        PROVE  p \in s.tree[t] /\ IsDead(s, t)
    <3>1. m.tree[t] \subseteq Panes
      BY <2>1 DEF MuxType
    <3> QED BY <1>1, <2>1, <2>3, <3>1 DEF IsDead
  <2>4. \/ Resolves(m, p) \/ p \in m.removals \/ p \in hand
        \/ step = "pruneTabs" /\ \E t \in m.tabs : p \in m.tree[t] /\ IsDead(m, t)
    BY <2>1 DEF Sound, Housed
  <2> QED BY <1>1, <2>1, <2>2, <2>3, <2>4
<1> QED BY <1>2, <1>3, <1>4 DEF Sound, s
-----------------------------------------------------------------------------
(* What a step may do to processes: none is forgotten, no ended one that   *)
(* was seen comes back.                                                    *)
Later(old, new) ==
  \A p \in Panes : /\ new[p] = "none" <=> old[p] = "none"
                   /\ old[p] = "dead" => new[p] = "dead"

(* Tabs go with their panes; windows come and go empty; panes leave the    *)
(* mux; removals are queued, or done.                                      *)
LEMMA ShrinkIsSound ==
  ASSUME NEW m, NEW n, NEW hand, NEW step, NEW gone, Sound(m, hand, step),
         n \in MuxType, n.tree = m.tree, Later(m.proc, n.proc),
         n.tabs = m.tabs \ gone, \A w \in Windows : n.tabsOf[w] = m.tabsOf[w] \ gone,
         \A w \in Windows \ n.windows : n.tabsOf[w] = {},
         n.panes \subseteq m.panes, \A t \in m.tabs \cap gone : m.tree[t] \cap n.panes = {},
         m.removals \cap n.panes \subseteq n.removals, m.strays \cap n.panes \subseteq n.strays
  PROVE  Sound(n, hand, step)
<1>1. Proper(n)
  BY DEF Sound, Proper, Later
<1>2. InHand(n, hand)
  BY DEF Sound, InHand, Later
<1>3. Housed(n, hand, step)
  <2> SUFFICES ASSUME NEW p \in n.panes \ n.strays
               PROVE  \/ Resolves(n, p) \/ p \in n.removals \/ p \in hand
                      \/ step = "pruneTabs" /\ \E t \in n.tabs : p \in n.tree[t] /\ IsDead(n, t)
    BY DEF Housed
  <2>1. m \in MuxType /\ p \in m.panes \ m.strays /\ m.windows \subseteq Windows /\ m.tabs \subseteq Tabs
    BY DEF Sound, Proper, MuxType
  <2>2. ASSUME NEW w \in m.windows, NEW t \in m.tabs, t \in m.tabsOf[w], p \in m.tree[t]
        PROVE  Resolves(n, p)
    <3>1. t \notin gone
      BY <2>2
    <3>2. t \in n.tabsOf[w] /\ w \in n.windows /\ t \in n.tabs
      BY <2>1, <2>2, <3>1
    <3> QED BY <2>2, <3>2, ResolvesDef
  <2>3. ASSUME NEW t \in m.tabs, p \in m.tree[t], IsDead(m, t)
        PROVE  t \in n.tabs /\ p \in n.tree[t] /\ IsDead(n, t)
    <3>1. m.tree[t] \subseteq Panes
      BY <2>1 DEF MuxType
    <3> QED BY <2>1, <2>3, <3>1 DEF IsDead, Later
  <2>4. \/ Resolves(m, p) \/ p \in m.removals \/ p \in hand
        \/ step = "pruneTabs" /\ \E t \in m.tabs : p \in m.tree[t] /\ IsDead(m, t)
    BY <2>1 DEF Sound, Housed
  <2>5. CASE Resolves(m, p)
    BY <2>1, <2>2, <2>5, ResolvesDef
  <2> QED BY <2>3, <2>4, <2>5
<1> QED BY <1>1, <1>2, <1>3 DEF Sound

(* The same with all tabs kept. *)
LEMMA KeepIsSound ==
  ASSUME NEW m, NEW n, NEW hand, NEW step, Sound(m, hand, step),
         n \in MuxType, n.tree = m.tree, n.tabs = m.tabs, n.tabsOf = m.tabsOf,
         m.windows \subseteq n.windows, Later(m.proc, n.proc), n.panes \subseteq m.panes,
         m.removals \cap n.panes \subseteq n.removals, m.strays \cap n.panes \subseteq n.strays
  PROVE  Sound(n, hand, step)
<1> DEFINE gone == {}
<1>1. /\ n.tabs = m.tabs \ gone
      /\ \A w \in Windows : n.tabsOf[w] = m.tabsOf[w] \ gone
      /\ \A t \in m.tabs \cap gone : m.tree[t] \cap n.panes = {}
  OBVIOUS
<1>2. \A w \in Windows \ n.windows : n.tabsOf[w] = {}
  BY DEF Sound, Proper
<1>3. /\ Sound(m, hand, step)
      /\ n \in MuxType /\ n.tree = m.tree /\ Later(m.proc, n.proc) /\ n.panes \subseteq m.panes
      /\ m.removals \cap n.panes \subseteq n.removals /\ m.strays \cap n.panes \subseteq n.strays
  OBVIOUS
<1> HIDE DEF gone
<1> QED BY ONLY <1>1, <1>2, <1>3, ShrinkIsSound

(* resolve_pane_id finds the one tab the pane is in. *)
LEMMA HomeIsHome ==
  ASSUME NEW m, Proper(m), NEW p, Resolves(m, p)
  PROVE  /\ HomeOf(m, p) \in m.tabs /\ p \in m.tree[HomeOf(m, p)]
         /\ p \in Panes /\ m.proc[p] # "none"
         /\ \A t \in m.tabs : p \in m.tree[t] => t = HomeOf(m, p)
<1>1. m \in MuxType /\ \E t \in m.tabs : p \in m.tree[t]
  BY DEF Proper, Resolves
<1>2. HomeOf(m, p) \in m.tabs /\ p \in m.tree[HomeOf(m, p)]
  BY <1>1 DEF HomeOf
<1>3. HomeOf(m, p) \in Tabs /\ p \in Panes
  BY <1>1, <1>2 DEF MuxType
<1> QED BY <1>1, <1>2, <1>3 DEF Proper

(* A pane taken out of its tab is in hand. *)
LEMMA TakeOutIsSound ==
  ASSUME NEW m, Sound(m, {}, "idle"), NEW p, Resolves(m, p)
  PROVE  Sound([m EXCEPT !.tree[HomeOf(m, p)] = @ \ {p}], {p}, "idle")
<1> DEFINE src == HomeOf(m, p)
           n == [m EXCEPT !.tree[src] = @ \ {p}]
<1>1. /\ m \in MuxType /\ src \in m.tabs /\ p \in Panes /\ m.proc[p] # "none" /\ m.tabs \subseteq Tabs
      /\ \A t \in m.tabs : p \in m.tree[t] => t = src
  BY HomeIsHome DEF Sound, Proper, MuxType
<1> HIDE DEF src
<1>2. /\ n \in MuxType /\ n.windows = m.windows /\ n.tabsOf = m.tabsOf /\ n.tabs = m.tabs
      /\ n.panes = m.panes /\ n.proc = m.proc /\ n.removals = m.removals /\ n.strays = m.strays
      /\ n.tree = [m.tree EXCEPT ![src] = @ \ {p}]
  BY <1>1 DEF MuxType
<1>3. /\ \A t \in Tabs : n.tree[t] = m.tree[t] \ (IF t = src THEN {p} ELSE {})
      /\ \A t \in m.tabs : n.tree[t] = m.tree[t] \ {p}
  <2>1. m.tree \in [Tabs -> SUBSET Panes]
    BY <1>1 DEF MuxType
  <2> HIDE DEF n
  <2> QED BY <1>1, <1>2, <2>1
<1> HIDE DEF n
<1>4. Proper(n)
  BY <1>2, <1>3 DEF Sound, Proper
<1>5. InHand(n, {p})
  BY <1>1, <1>2, <1>3 DEF InHand
<1>6. Housed(n, {p}, "idle")
  <2> SUFFICES ASSUME NEW q \in m.panes \ m.strays, q # p
               PROVE  Resolves(n, q) \/ q \in n.removals
    BY <1>2 DEF Housed
  <2>1. Resolves(m, q) \/ q \in m.removals
    BY DEF Sound, Housed
  <2>2. ASSUME NEW w \in m.windows, NEW t \in m.tabs, t \in m.tabsOf[w], q \in m.tree[t]
        PROVE  Resolves(n, q)
    <3>1. q \in n.tree[t]
      BY <1>3, <2>2
    <3> QED BY <1>2, <2>2, <3>1, ResolvesDef
  <2> QED BY <1>1, <1>2, <2>1, <2>2, ResolvesDef
<1> QED BY <1>4, <1>5, <1>6 DEF Sound, n, src

(* A new pane is in hand. *)
LEMMA NewPaneIsSound ==
  ASSUME NEW m, Sound(m, {}, "idle"), NEW p \in Panes, m.proc[p] = "none"
  PROVE  /\ Sound(WithPane(m, p), {p}, "idle")
         /\ WithPane(m, p) \in MuxType
         /\ WithPane(m, p).windows = m.windows /\ WithPane(m, p).tabsOf = m.tabsOf
         /\ WithPane(m, p).tabs = m.tabs /\ WithPane(m, p).tree = m.tree
<1> DEFINE n == WithPane(m, p)
<1>1. m \in MuxType /\ m.tabs \subseteq Tabs
  BY DEF Sound, Proper, MuxType
<1>2. /\ n \in MuxType /\ n.windows = m.windows /\ n.tabsOf = m.tabsOf /\ n.tabs = m.tabs
      /\ n.tree = m.tree /\ n.panes = m.panes \cup {p}
      /\ n.proc = [m.proc EXCEPT ![p] = "running"]
      /\ n.removals = m.removals /\ n.strays = m.strays
  BY <1>1 DEF MuxType, WithPane, ProcState
<1> HIDE DEF n
<1>3. \A q \in Panes : n.proc[q] = IF q = p THEN "running" ELSE m.proc[q]
  <2>1. m.proc \in [Panes -> ProcState]
    BY <1>1 DEF MuxType
  <2> QED BY <1>2, <2>1
<1>4. Proper(n)
  BY <1>2, <1>3 DEF Sound, Proper
<1>5. InHand(n, {p})
  BY <1>1, <1>2, <1>3 DEF Sound, Proper, InHand
<1>6. Housed(n, {p}, "idle")
  <2> SUFFICES ASSUME NEW q \in m.panes \ m.strays, q # p
               PROVE  Resolves(n, q) \/ q \in n.removals
    BY <1>2 DEF Housed
  <2>1. Resolves(m, q) \/ q \in m.removals
    BY DEF Sound, Housed
  <2> QED BY <1>1, <1>2, <2>1, ResolvesDef
<1> QED BY <1>2, <1>4, <1>5, <1>6 DEF Sound, n

(* A new tab takes the pane that is in hand, and a window takes the tab.   *)
LEMMA NewTabIsSound ==
  ASSUME NEW m, NEW n, NEW p, Sound(m, {p}, "idle"), NEW t \in Tabs, NEW w \in Windows,
         t \notin m.tabs, n \in MuxType,
         n.windows = m.windows \cup {w}, n.tabsOf = [m.tabsOf EXCEPT ![w] = @ \cup {t}],
         n.tabs = m.tabs \cup {t}, n.tree = [m.tree EXCEPT ![t] = {p}],
         n.panes = m.panes, n.proc = m.proc, n.removals = m.removals, n.strays = m.strays
  PROVE  Sound(n, {}, "idle")
<1>1. m \in MuxType /\ m.tabs \subseteq Tabs /\ m.windows \subseteq Windows
  BY DEF Sound, Proper, MuxType
<1>2. p \in Panes /\ m.proc[p] # "none" /\ \A u \in m.tabs : p \notin m.tree[u]
  BY DEF Sound, InHand
<1>3. /\ \A u \in Tabs : n.tree[u] = IF u = t THEN {p} ELSE m.tree[u]
      /\ \A v \in Windows : n.tabsOf[v] = m.tabsOf[v] \cup (IF v = w THEN {t} ELSE {})
  <2>1. m.tree \in [Tabs -> SUBSET Panes] /\ m.tabsOf \in [Windows -> SUBSET Tabs]
    BY <1>1 DEF MuxType
  <2> QED BY <2>1
<1>4. Proper(n)
  <2>1. \A v \in Windows : t \notin m.tabsOf[v]
    BY DEF Sound, Proper
  <2>2. \A u, v \in n.tabs : u # v => n.tree[u] \cap n.tree[v] = {}
    BY <1>1, <1>2, <1>3 DEF Sound, Proper
  <2>3. \A u, v \in Windows : u # v => n.tabsOf[u] \cap n.tabsOf[v] = {}
    BY <1>3, <2>1 DEF Sound, Proper
  <2>4. /\ \A v \in Windows \ n.windows : n.tabsOf[v] = {}
        /\ \A v \in Windows : n.tabsOf[v] \subseteq n.tabs
    BY <1>3 DEF Sound, Proper
  <2>5. \A q \in Panes : n.proc[q] = "none" => q \notin n.panes /\ \A u \in Tabs : q \notin n.tree[u]
    BY <1>2, <1>3 DEF Sound, Proper
  <2> QED BY <2>2, <2>3, <2>4, <2>5 DEF Proper
<1>5. Housed(n, {}, "idle")
  <2> SUFFICES ASSUME NEW q \in m.panes \ m.strays
               PROVE  Resolves(n, q) \/ q \in n.removals
    BY DEF Housed
  <2>1. Resolves(m, q) \/ q \in m.removals \/ q = p
    BY DEF Sound, Housed
  <2>2. ASSUME NEW v \in m.windows, NEW u \in m.tabs, u \in m.tabsOf[v], q \in m.tree[u]
        PROVE  Resolves(n, q)
    <3>1. q \in n.tree[u] /\ u \in n.tabsOf[v]
      BY <1>1, <1>3, <2>2
    <3> QED BY <2>2, <3>1, ResolvesDef
  <2>3. q = p => Resolves(n, q)
    BY <1>3, ResolvesDef
  <2> QED BY <1>1, <2>1, <2>2, <2>3, ResolvesDef
<1> QED BY <1>4, <1>5 DEF Sound, InHand

(* A tab that no window takes: its pane is a stray. *)
LEMMA StrayTabIsSound ==
  ASSUME NEW m, NEW n, NEW p, Sound(m, {p}, "idle"), NEW t \in Tabs,
         t \notin m.tabs, n \in MuxType,
         n.windows = m.windows, n.tabsOf = m.tabsOf,
         n.tabs = m.tabs \cup {t}, n.tree = [m.tree EXCEPT ![t] = {p}],
         n.panes = m.panes, n.proc = m.proc, n.removals = m.removals, n.strays = m.strays \cup {p}
  PROVE  Sound(n, {}, "idle")
<1>1. m \in MuxType /\ m.tabs \subseteq Tabs /\ m.windows \subseteq Windows
  BY DEF Sound, Proper, MuxType
<1>2. p \in Panes /\ m.proc[p] # "none" /\ \A u \in m.tabs : p \notin m.tree[u]
  BY DEF Sound, InHand
<1>3. \A u \in Tabs : n.tree[u] = IF u = t THEN {p} ELSE m.tree[u]
  <2>1. m.tree \in [Tabs -> SUBSET Panes]
    BY <1>1 DEF MuxType
  <2> QED BY <2>1
<1>4. Proper(n)
  <2>1. \A u, v \in n.tabs : u # v => n.tree[u] \cap n.tree[v] = {}
    BY <1>1, <1>2, <1>3 DEF Sound, Proper
  <2>2. \A q \in Panes : n.proc[q] = "none" => q \notin n.panes /\ \A u \in Tabs : q \notin n.tree[u]
    BY <1>2, <1>3 DEF Sound, Proper
  <2>3. /\ \A v \in Windows \ n.windows : n.tabsOf[v] = {}
        /\ \A v \in Windows : n.tabsOf[v] \subseteq n.tabs
        /\ \A u, v \in Windows : u # v => n.tabsOf[u] \cap n.tabsOf[v] = {}
    BY DEF Sound, Proper
  <2> QED BY <2>1, <2>2, <2>3 DEF Proper
<1>5. Housed(n, {}, "idle")
  <2> SUFFICES ASSUME NEW q \in m.panes \ m.strays, q # p
               PROVE  Resolves(n, q) \/ q \in n.removals
    BY DEF Housed
  <2>1. Resolves(m, q) \/ q \in m.removals
    BY DEF Sound, Housed
  <2>2. ASSUME NEW v \in m.windows, NEW u \in m.tabs, u \in m.tabsOf[v], q \in m.tree[u]
        PROVE  Resolves(n, q)
    <3>1. q \in n.tree[u]
      BY <1>1, <1>3, <2>2
    <3> QED BY <2>2, <3>1, ResolvesDef
  <2> QED BY <1>1, <2>1, <2>2, ResolvesDef
<1> QED BY <1>4, <1>5 DEF Sound, InHand

(* The pane in hand is put next to another one, or is a stray. *)
LEMMA PutIntoIsSound ==
  ASSUME NEW m, NEW p, Sound(m, {p}, "idle"), NEW t, NEW at, NEW fits \in BOOLEAN,
         m.windows = mux.windows, m.tabsOf = mux.tabsOf, m.tabs = mux.tabs, m.tree = mux.tree
  PROVE  Sound(PutInto(m, t, at, p, fits), {}, "idle")
<1> DEFINE n == PutInto(m, t, at, p, fits)
           strays == IF fits /\ Placed(at, t) THEN m.strays ELSE m.strays \cup {p}
           tree == [m.tree EXCEPT ![t] = IF fits /\ at \in m.tree[t] THEN @ \cup {p} ELSE @]
<1>1. m \in MuxType /\ m.tabs \subseteq Tabs /\ m.windows \subseteq Windows
  BY DEF Sound, Proper, MuxType
<1>2. p \in Panes /\ m.proc[p] # "none" /\ \A u \in m.tabs : p \notin m.tree[u]
  BY DEF Sound, InHand
<1>3. /\ tree \in [Tabs -> SUBSET Panes]
      /\ \A u \in Tabs : tree[u] = IF u = t /\ fits /\ at \in m.tree[t]
                                   THEN m.tree[u] \cup {p} ELSE m.tree[u]
  <2>1. m.tree \in [Tabs -> SUBSET Panes]
    BY <1>1 DEF MuxType
  <2> QED BY <1>2, <2>1
<1>4. /\ n \in MuxType /\ n.windows = m.windows /\ n.tabsOf = m.tabsOf /\ n.tabs = m.tabs
      /\ n.panes = m.panes /\ n.proc = m.proc /\ n.removals = m.removals
      /\ n.strays = strays /\ n.tree = tree
  <2>1. strays \subseteq Panes
    BY <1>1, <1>2 DEF MuxType
  <2>2. n = [m EXCEPT !.tree = tree, !.strays = strays]
    BY <1>1 DEF PutInto, MuxType
  <2> HIDE DEF n, tree, strays
  <2> QED BY <1>1, <1>3, <2>1, <2>2 DEF MuxType
<1> HIDE DEF n, tree
<1>5. Proper(n)
  <2>1. \A u, v \in n.tabs : u # v => n.tree[u] \cap n.tree[v] = {}
    BY <1>1, <1>2, <1>3, <1>4 DEF Sound, Proper
  <2>2. \A q \in Panes : n.proc[q] = "none" => q \notin n.panes /\ \A u \in Tabs : q \notin n.tree[u]
    BY <1>2, <1>3, <1>4 DEF Sound, Proper
  <2>3. /\ \A v \in Windows \ n.windows : n.tabsOf[v] = {}
        /\ \A v \in Windows : n.tabsOf[v] \subseteq n.tabs
        /\ \A u, v \in Windows : u # v => n.tabsOf[u] \cap n.tabsOf[v] = {}
    BY <1>4 DEF Sound, Proper
  <2> QED BY <1>4, <2>1, <2>2, <2>3 DEF Proper
<1>6. Housed(n, {}, "idle")
  <2> SUFFICES ASSUME NEW q \in m.panes \ n.strays
               PROVE  Resolves(n, q) \/ q \in n.removals
    BY <1>4 DEF Housed
  <2>1. q \in m.panes \ m.strays /\ (q = p => fits /\ Placed(at, t))
    BY <1>4
  <2>2. Resolves(m, q) \/ q \in m.removals \/ q = p
    BY <2>1 DEF Sound, Housed
  <2>3. ASSUME NEW v \in m.windows, NEW u \in m.tabs, u \in m.tabsOf[v], q \in m.tree[u]
        PROVE  Resolves(n, q)
    <3>1. q \in n.tree[u]
      BY <1>1, <1>3, <1>4, <2>3
    <3> QED BY <1>4, <2>3, <3>1, ResolvesDef
  <2>4. ASSUME fits, Placed(at, t), q = p PROVE Resolves(n, q)
    <3>1. t \in m.tabs /\ at \in m.tree[t] /\ \E v \in m.windows : t \in m.tabsOf[v]
      BY <2>4 DEF Placed, Shown
    <3>2. p \in n.tree[t]
      BY <1>1, <1>3, <1>4, <2>4, <3>1
    <3> QED BY <1>4, <2>4, <3>1, <3>2, ResolvesDef
  <2> QED BY <1>1, <1>4, <2>1, <2>2, <2>3, <2>4, ResolvesDef
<1> QED BY <1>5, <1>6 DEF Sound, InHand, n
(* A pane in hand is dropped, and others may fall out of their tabs with   *)
(* it: they are strays, and the rest stays where it is.                    *)
LEMMA DroppedIsSound ==
  ASSUME NEW m, NEW n, NEW p, Sound(m, {p}, "idle"), n \in MuxType,
         m.windows \subseteq n.windows, n.tabsOf = m.tabsOf, n.tabs = m.tabs,
         n.panes = m.panes, n.proc = m.proc, n.removals = m.removals,
         m.strays \subseteq n.strays, p \in n.strays,
         \A t \in Tabs : n.tree[t] \subseteq m.tree[t] /\ m.tree[t] \subseteq n.tree[t] \cup n.strays
  PROVE  Sound(n, {}, "idle")
<1>1. m \in MuxType /\ m.tabs \subseteq Tabs /\ m.windows \subseteq Windows
  BY DEF Sound, Proper, MuxType
<1>2. Proper(n)
  <2>1. \A t, u \in n.tabs : t # u => n.tree[t] \cap n.tree[u] = {}
    BY <1>1 DEF Sound, Proper
  <2>2. /\ \A w \in Windows \ n.windows : n.tabsOf[w] = {}
        /\ \A w \in Windows : n.tabsOf[w] \subseteq n.tabs
        /\ \A v, w \in Windows : v # w => n.tabsOf[v] \cap n.tabsOf[w] = {}
    BY DEF Sound, Proper
  <2>3. \A q \in Panes : n.proc[q] = "none" => q \notin n.panes /\ \A t \in Tabs : q \notin n.tree[t]
    BY DEF Sound, Proper
  <2> QED BY <2>1, <2>2, <2>3 DEF Proper
<1>3. Housed(n, {}, "idle")
  <2> SUFFICES ASSUME NEW q \in m.panes \ n.strays
               PROVE  Resolves(n, q) \/ q \in n.removals
    BY DEF Housed
  <2>1. q # p /\ q \in m.panes \ m.strays
    OBVIOUS
  <2>2. Resolves(m, q) \/ q \in m.removals
    BY <2>1 DEF Sound, Housed
  <2>3. ASSUME NEW w \in m.windows, NEW t \in m.tabs, t \in m.tabsOf[w], q \in m.tree[t]
        PROVE  Resolves(n, q)
    <3>1. q \in n.tree[t]
      BY <1>1, <2>3
    <3> QED BY <2>3, <3>1, ResolvesDef
  <2> QED BY <1>1, <2>2, <2>3, ResolvesDef
<1> QED BY <1>2, <1>3 DEF Sound, InHand
-----------------------------------------------------------------------------
(* How processes go on. *)
LEMMA AskedState ==
  ASSUME NEW state \in ProcState
  PROVE  /\ Asked(state) \in ProcState /\ (Asked(state) = "none" <=> state = "none")
         /\ (state = "dead" => Asked(state) = "dead")
BY DEF Asked, ProcState

LEMMA KilledState ==
  ASSUME NEW state \in ProcState
  PROVE  /\ Killed(state) \in ProcState /\ (Killed(state) = "none" <=> state = "none")
         /\ (state = "dead" => Killed(state) = "dead")
BY DEF Killed, ProcState

LEMMA EndState ==
  ASSUME NEW state, NEW clean \in BOOLEAN
  PROVE  End(state, clean) \in {"closes", "fails", "stays"}
BY DEF End

(* Asking panes whether they are dead changes processes only. *)
LEMMA AskFields ==
  ASSUME NEW m \in MuxType, NEW S
  PROVE  /\ Ask(m, S) \in MuxType
         /\ Ask(m, S).windows = m.windows /\ Ask(m, S).tabsOf = m.tabsOf
         /\ Ask(m, S).tabs = m.tabs /\ Ask(m, S).tree = m.tree /\ Ask(m, S).panes = m.panes
         /\ Ask(m, S).removals = m.removals /\ Ask(m, S).strays = m.strays
         /\ Ask(m, S).torn = m.torn
         /\ Later(m.proc, Ask(m, S).proc)
<1> DEFINE proc == [p \in Panes |-> IF p \in S THEN Asked(m.proc[p]) ELSE m.proc[p]]
<1>1. Ask(m, S) = [m EXCEPT !.proc = proc]
  BY DEF Ask, MuxType
<1>2. m.proc \in [Panes -> ProcState]
  BY DEF MuxType
<1>3. proc \in [Panes -> ProcState] /\ Later(m.proc, proc)
  BY <1>2, AskedState DEF Later
<1> HIDE DEF proc
<1> QED BY <1>1, <1>3 DEF MuxType

LEMMA AskIsSound ==
  ASSUME NEW m, NEW hand, NEW step, Sound(m, hand, step), NEW S
  PROVE  Sound(Ask(m, S), hand, step)
<1> DEFINE n == Ask(m, S)
<1>1. /\ n \in MuxType /\ n.windows = m.windows /\ n.tabsOf = m.tabsOf /\ n.tabs = m.tabs
      /\ n.tree = m.tree /\ n.panes = m.panes /\ n.removals = m.removals /\ n.strays = m.strays
      /\ Later(m.proc, n.proc)
  BY AskFields DEF Sound, Proper
<1> HIDE DEF n
<1>2. /\ m.windows \subseteq n.windows /\ n.panes \subseteq m.panes
      /\ m.removals \cap n.panes \subseteq n.removals /\ m.strays \cap n.panes \subseteq n.strays
  BY <1>1
<1>3. Sound(n, hand, step)
  BY <1>1, <1>2, KeepIsSound
<1> QED BY <1>3 DEF n

LEMMA RemovePanesFields ==
  ASSUME NEW m \in MuxType, NEW S
  PROVE  /\ RemovePanes(m, S) \in MuxType
         /\ RemovePanes(m, S).windows = m.windows /\ RemovePanes(m, S).tabsOf = m.tabsOf
         /\ RemovePanes(m, S).tabs = m.tabs /\ RemovePanes(m, S).tree = m.tree
         /\ RemovePanes(m, S).panes = m.panes \ S
         /\ RemovePanes(m, S).removals = m.removals /\ RemovePanes(m, S).strays = m.strays
         /\ RemovePanes(m, S).torn = m.torn
         /\ Later(m.proc, RemovePanes(m, S).proc)
<1> DEFINE gone == S \cap m.panes
           proc == [p \in Panes |-> IF p \in gone THEN Killed(m.proc[p]) ELSE m.proc[p]]
<1>1. RemovePanes(m, S) = [m EXCEPT !.panes = @ \ gone, !.reading = @ \ gone, !.proc = proc]
  BY DEF RemovePanes, MuxType
<1>2. m.proc \in [Panes -> ProcState]
  BY DEF MuxType
<1>3. proc \in [Panes -> ProcState] /\ Later(m.proc, proc)
  BY <1>2, KilledState DEF Later
<1> HIDE DEF proc
<1> QED BY <1>1, <1>3 DEF MuxType

LEMMA RemoveTabsFields ==
  ASSUME NEW m \in MuxType, NEW S
  PROVE  /\ RemoveTabs(m, S) \in MuxType
         /\ RemoveTabs(m, S).windows = m.windows
         /\ \A w \in Windows : RemoveTabs(m, S).tabsOf[w] = m.tabsOf[w] \ (S \cap m.tabs)
         /\ RemoveTabs(m, S).tabs = m.tabs \ S /\ RemoveTabs(m, S).tree = m.tree
         /\ RemoveTabs(m, S).panes \subseteq m.panes
         /\ \A t \in S \cap m.tabs : m.tree[t] \cap RemoveTabs(m, S).panes = {}
         /\ RemoveTabs(m, S).removals = m.removals /\ RemoveTabs(m, S).strays = m.strays
         /\ RemoveTabs(m, S).torn = m.torn
         /\ Later(m.proc, RemoveTabs(m, S).proc)
<1> DEFINE gone == S \cap m.tabs
           tabsOf == [w \in Windows |-> m.tabsOf[w] \ gone]
           m1 == [m EXCEPT !.tabs = @ \ gone, !.tabsOf = tabsOf]
           all == UNION {m.tree[t] : t \in gone}
<1>1. RemoveTabs(m, S) = RemovePanes(m1, all)
  BY DEF RemoveTabs, MuxType
<1>2. tabsOf \in [Windows -> SUBSET Tabs] /\ \A w \in Windows : tabsOf[w] = m.tabsOf[w] \ gone
  BY DEF MuxType
<1> HIDE DEF tabsOf
<1>3. /\ m1 \in MuxType /\ m1.windows = m.windows /\ m1.tabsOf = tabsOf /\ m1.tabs = m.tabs \ S
      /\ m1.tree = m.tree /\ m1.panes = m.panes /\ m1.removals = m.removals
      /\ m1.strays = m.strays /\ m1.torn = m.torn /\ m1.proc = m.proc
  BY <1>2 DEF MuxType
<1> HIDE DEF m1
<1>4. \A t \in gone : m.tree[t] \subseteq all
  OBVIOUS
<1> HIDE DEF all
<1> QED BY <1>1, <1>2, <1>3, <1>4, RemovePanesFields

(* Closing tabs closes their panes. *)
LEMMA RemoveTabsIsSound ==
  ASSUME NEW m, NEW hand, NEW step, Sound(m, hand, step), NEW S
  PROVE  Sound(RemoveTabs(m, S), hand, step)
<1> DEFINE n == RemoveTabs(m, S)
           gone == S \cap m.tabs
<1>1. /\ n \in MuxType /\ n.windows = m.windows
      /\ \A w \in Windows : n.tabsOf[w] = m.tabsOf[w] \ gone
      /\ n.tabs = m.tabs \ S /\ n.tree = m.tree /\ n.panes \subseteq m.panes
      /\ \A t \in gone : m.tree[t] \cap n.panes = {}
      /\ n.removals = m.removals /\ n.strays = m.strays
      /\ Later(m.proc, n.proc)
  BY RemoveTabsFields DEF Sound, Proper
<1>2. n.tabs = m.tabs \ gone /\ m.tabs \cap gone = gone
  BY <1>1
<1> HIDE DEF n, gone
<1>3. \A w \in Windows \ n.windows : n.tabsOf[w] = {}
  BY <1>1 DEF Sound, Proper
<1>4. /\ m.removals \cap n.panes \subseteq n.removals /\ m.strays \cap n.panes \subseteq n.strays
      /\ \A t \in m.tabs \cap gone : m.tree[t] \cap n.panes = {}
  BY <1>1, <1>2
<1>5. Sound(m, hand, step)
  OBVIOUS
<1>6. Sound(n, hand, step)
  BY ONLY <1>1, <1>2, <1>3, <1>4, <1>5, ShrinkIsSound
<1> QED BY <1>6 DEF n
-----------------------------------------------------------------------------
Hand(mv) == IF mv = Nothing THEN {} ELSE {mv.pane}

(* The main thread is where its variables say it is; and the first half of *)
(* a prune leaves no window with an empty tab.                             *)
Control ==
  /\ behaviour \in Behaviours
  /\ op \in [Ops -> OpType]
  /\ main \in {"idle", "prune", "pruneTabs", "insert", "broken"}
  /\ moving \in [tab : Tabs \cup {None}, at : Panes \cup {None}, pane : Panes \cup {None}]
  /\ main = "idle" => moving = Nothing
  /\ main = "insert" => moving # Nothing
  /\ doomed \subseteq mux.windows /\ (doomed # {} => main = "pruneTabs")
  /\ \A w \in doomed : mux.tabsOf[w] = {}
  /\ main = "pruneTabs" => \A w \in Windows : \A t \in mux.tabsOf[w] : mux.tree[t] # {}

IInv == Sound(mux, Hand(moving), main) /\ Control

LEMMA BecomesIsSound ==
  ASSUME NEW m, NEW hand, NEW step, Sound(m, hand, step), Becomes(m)
  PROVE  /\ Sound(mux', hand, step) /\ mux'.windows = m.windows /\ mux'.tabsOf = m.tabsOf
         /\ \A t \in m.tabs : mux'.tree[t] = m.tree[t]
<1> DEFINE T == {op'[o].tab : o \in Ops} \cup {moving'.tab}
           P == {moving'.pane}
<1>1. mux' = Settled(m, T, P)
  BY DEF Becomes
<1> HIDE DEF T, P
<1>2. m \in MuxType
  BY DEF Sound, Proper
<1> QED BY <1>1, <1>2, SettledFields, SettledIsSound

(* What holds when the main thread takes up a task. *)
LEMMA WhenIdle ==
  ASSUME IInv, main = "idle"
  PROVE  /\ Sound(mux, {}, "idle") /\ moving = Nothing /\ Hand(moving) = {} /\ doomed = {}
         /\ mux \in MuxType /\ mux.tabs \subseteq Tabs /\ mux.windows \subseteq Windows
<1>1. moving = Nothing /\ doomed = {}
  BY DEF IInv, Control
<1>2. Hand(moving) = {}
  BY <1>1 DEF Hand
<1> QED BY <1>1, <1>2 DEF IInv, Sound, Proper, MuxType

(* A task that ends, or goes on with a prune. *)
LEMMA TaskIsGood ==
  ASSUME IInv, main = "idle", NEW m, Sound(m, {}, "idle"), Becomes(m),
         main' \in {"idle", "prune"}, UNCHANGED <<behaviour, doomed, moving>>,
         op' \in [Ops -> OpType]
  PROVE  IInv'
<1>1. moving = Nothing /\ Hand(moving') = {} /\ doomed = {}
  BY WhenIdle
<1>2. Sound(mux', {}, "idle")
  BY BecomesIsSound
<1>3. Sound(mux', Hand(moving'), main')
  BY <1>1, <1>2, SoundElsewhere
<1> QED BY <1>1, <1>3 DEF IInv, Control

(* Steps of other threads and the queue's bookkeeping. *)
LEMMA ThreadsAreGood ==
  ASSUME IInv, NEW p \in Panes, NEW b \in BOOLEAN, ProcessEnds(p, b) \/ ReaderEnds(p, b)
  PROVE  IInv'
<1>1. mux \in MuxType /\ Sound(mux, Hand(moving), main)
  BY DEF IInv, Sound, Proper
<1>2. UNCHANGED <<behaviour, op, main, doomed, moving>>
  BY DEF ProcessEnds, ReaderEnds
<1>3. ASSUME NEW m, Becomes(m), Sound(m, Hand(moving), main),
             m.windows = mux.windows, m.tabsOf = mux.tabsOf, m.tabs = mux.tabs, m.tree = mux.tree
      PROVE  IInv'
  <2>1. /\ Sound(mux', Hand(moving), main) /\ mux'.windows = mux.windows /\ mux'.tabsOf = mux.tabsOf
        /\ \A t \in mux.tabs : mux'.tree[t] = mux.tree[t]
    BY <1>3, BecomesIsSound
  <2>2. \A w \in Windows : mux.tabsOf[w] \subseteq mux.tabs
    BY <1>1 DEF Sound, Proper
  <2> QED BY <1>2, <2>1, <2>2 DEF IInv, Control
<1>4. CASE ProcessEnds(p, b)
  <2> DEFINE n == [mux EXCEPT !.proc[p] = End(@, b), !.queued = TRUE]
             e == End(mux.proc[p], b)
  <2>1. mux.proc[p] \in {"running", "dying"} /\ Becomes(n)
    BY <1>4 DEF ProcessEnds
  <2>2. e \in {"closes", "fails", "stays"}
    BY EndState
  <2>3. n = [mux EXCEPT !.proc = [mux.proc EXCEPT ![p] = e], !.queued = TRUE]
    BY <1>1 DEF MuxType
  <2> HIDE DEF e
  <2>4. /\ [mux.proc EXCEPT ![p] = e] \in [Panes -> ProcState]
        /\ Later(mux.proc, [mux.proc EXCEPT ![p] = e])
    <3>1. mux.proc \in [Panes -> ProcState]
      BY <1>1 DEF MuxType
    <3> QED BY <2>1, <2>2, <3>1 DEF ProcState, Later
  <2> HIDE DEF n
  <2>5. /\ n \in MuxType /\ n.tree = mux.tree /\ n.tabs = mux.tabs /\ n.tabsOf = mux.tabsOf
        /\ n.windows = mux.windows /\ n.panes = mux.panes /\ n.removals = mux.removals
        /\ n.strays = mux.strays /\ Later(mux.proc, n.proc)
    BY <1>1, <2>3, <2>4 DEF MuxType
  <2>6. Sound(n, Hand(moving), main)
    BY <1>1, <2>5, KeepIsSound
  <2> QED BY <1>3, <2>1, <2>5, <2>6
<1>5. CASE ReaderEnds(p, b)
  <2>1. PICK n : /\ Becomes(n)
                 /\ \/ n = [mux EXCEPT !.reading = @ \ {p}, !.removals = @ \cup {p}]
                    \/ n = [mux EXCEPT !.reading = @ \ {p}, !.queued = TRUE]
    <3>1. \/ Becomes([[mux EXCEPT !.reading = @ \ {p}] EXCEPT !.removals = @ \cup {p}])
          \/ Becomes([[mux EXCEPT !.reading = @ \ {p}] EXCEPT !.queued = TRUE])
      BY <1>5 DEF ReaderEnds
    <3>2. /\ [[mux EXCEPT !.reading = @ \ {p}] EXCEPT !.removals = @ \cup {p}]
               = [mux EXCEPT !.reading = @ \ {p}, !.removals = @ \cup {p}]
          /\ [[mux EXCEPT !.reading = @ \ {p}] EXCEPT !.queued = TRUE]
               = [mux EXCEPT !.reading = @ \ {p}, !.queued = TRUE]
      BY <1>1 DEF MuxType
    <3> QED BY <3>1, <3>2
  <2>2. /\ n \in MuxType /\ n.tree = mux.tree /\ n.tabs = mux.tabs /\ n.tabsOf = mux.tabsOf
        /\ n.windows = mux.windows /\ n.panes = mux.panes /\ mux.removals \subseteq n.removals
        /\ n.strays = mux.strays /\ n.proc = mux.proc
    <3>1. CASE n = [mux EXCEPT !.reading = @ \ {p}, !.removals = @ \cup {p}]
      BY <1>1, <3>1 DEF MuxType
    <3>2. CASE n = [mux EXCEPT !.reading = @ \ {p}, !.queued = TRUE]
      BY <1>1, <3>2 DEF MuxType
    <3> QED BY <2>1, <3>1, <3>2
  <2>3. Later(mux.proc, n.proc)
    BY <2>2 DEF Later
  <2>4. Sound(n, Hand(moving), main)
    BY <1>1, <2>2, <2>3, KeepIsSound
  <2> QED BY <1>3, <2>1, <2>2, <2>4
<1> QED BY <1>4, <1>5

-----------------------------------------------------------------------------
LEMMA RunPruneIsGood ==
  ASSUME IInv, RunPrune
  PROVE  IInv'
<1>1. /\ Sound(mux, {}, "idle") /\ moving = Nothing /\ Hand(moving) = {} /\ doomed = {}
      /\ mux \in MuxType
  BY WhenIdle DEF RunPrune
<1>2. PICK more \in BOOLEAN : mux' = [mux EXCEPT !.queued = more]
  BY DEF RunPrune
<1>3. /\ mux' \in MuxType /\ mux'.tree = mux.tree /\ mux'.tabs = mux.tabs
      /\ mux'.tabsOf = mux.tabsOf /\ mux'.windows = mux.windows /\ mux'.panes = mux.panes
      /\ mux'.removals = mux.removals /\ mux'.strays = mux.strays /\ mux'.proc = mux.proc
  BY <1>1, <1>2 DEF MuxType
<1>4. Later(mux.proc, mux'.proc)
  BY <1>3 DEF Later
<1>5. Sound(mux', {}, "idle")
  BY <1>1, <1>3, <1>4, KeepIsSound
<1>6. Sound(mux', Hand(moving'), main')
  BY <1>1, <1>5, SoundElsewhere DEF RunPrune
<1> QED BY <1>1, <1>6 DEF IInv, Control, RunPrune

LEMMA PruneSkippedIsGood ==
  ASSUME IInv, PruneSkipped
  PROVE  IInv'
<1>1. Sound(mux, Hand(moving), "prune") /\ doomed = {}
  BY DEF IInv, Control, PruneSkipped
<1>2. Sound(mux, Hand(moving), Afterwards)
  BY <1>1, SoundElsewhere
<1> QED BY <1>1, <1>2 DEF IInv, Control, PruneSkipped, Afterwards

(* The first half: what leaves a tab is queued for removal, and a tab that *)
(* leaves its window is dead and in the mux for the second half to find.   *)
LEMMA PruneWindowsIsGood ==
  ASSUME IInv, NEW skip \in SUBSET Panes, PruneWindows(skip)
  PROVE  IInv'
<1> DEFINE m1  == Ask(mux, UNION {mux.tree[t] : t \in Shown(mux)})
           cut == Cut(m1, skip)
           tree == [t \in Tabs |-> IF t \in Shown(mux) THEN m1.tree[t] \ cut ELSE m1.tree[t]]
           m2  == [m1 EXCEPT !.tree = tree, !.removals = @ \cup cut]
           m3  == [m2 EXCEPT !.tabsOf = [w \in Windows |-> {t \in m2.tabsOf[w] : t \in m2.tabs /\ ~IsDead(m2, t)}]]
           hand == Hand(moving)
<1>1. Sound(mux, hand, "prune") /\ mux \in MuxType /\ mux.tabs \subseteq Tabs
  BY DEF IInv, Sound, Proper, MuxType, PruneWindows
<1>2. Sound(m1, hand, "prune") /\ m1 \in MuxType
      /\ m1.windows = mux.windows /\ m1.tabsOf = mux.tabsOf /\ m1.tabs = mux.tabs /\ m1.tree = mux.tree
  <2> HIDE DEF hand
  <2> QED BY <1>1, AskIsSound, AskFields
<1>3. Becomes(m3) /\ doomed' = {w \in m3.windows : m3.tabsOf[w] = {}} /\ main' = "pruneTabs"
      /\ UNCHANGED <<behaviour, op, moving>>
  <2>1. m2 = [m1 EXCEPT !.tree = [t \in Tabs |-> IF t \in Shown(mux) THEN @[t] \ cut ELSE @[t]],
                        !.removals = @ \cup cut]
    <3> HIDE DEF cut, m1
    <3> QED BY <1>2 DEF MuxType
  <2> QED BY <2>1 DEF PruneWindows
<1> HIDE DEF m1
<1>4. cut \subseteq Panes
  BY <1>1, <1>2 DEF Cut, MuxType, Shown
<1> HIDE DEF cut
<1>5. /\ tree \in [Tabs -> SUBSET Panes]
      /\ \A t \in Tabs : tree[t] \subseteq m1.tree[t] /\ m1.tree[t] \subseteq tree[t] \cup cut
  BY <1>2 DEF MuxType
<1> HIDE DEF tree
<1>6. /\ m2 \in MuxType /\ m2.windows = m1.windows /\ m2.tabsOf = m1.tabsOf /\ m2.tabs = m1.tabs
      /\ m2.tree = tree /\ m2.panes = m1.panes /\ m2.proc = m1.proc
      /\ m2.removals = m1.removals \cup cut /\ m2.strays = m1.strays
  BY <1>2, <1>4, <1>5 DEF MuxType
<1> HIDE DEF m2
<1>7. /\ m3 \in MuxType /\ m3.windows = m1.windows /\ m3.tabs = m1.tabs
      /\ \A w \in Windows : m3.tabsOf[w] = {t \in m1.tabsOf[w] : t \in m1.tabs /\ ~IsDead(m2, t)}
      /\ m3.tree = tree /\ m3.panes = m1.panes /\ m3.proc = m1.proc
      /\ m3.removals = m1.removals \cup cut /\ m3.strays = m1.strays
  BY <1>2, <1>6 DEF MuxType
<1> HIDE DEF m3, hand
<1>8. \A t \in m1.tabs : IsDead(m2, t) => IsDead(m3, t)
  BY <1>6, <1>7 DEF IsDead
<1>9. Proper(m3)
  <2>1. Proper(m1) /\ m1.tabs \subseteq Tabs
    BY <1>2 DEF Sound, MuxType
  <2>2. \A w \in Windows : m3.tabsOf[w] \subseteq m1.tabsOf[w]
    BY <1>7
  <2>3. \A t \in Tabs : m3.tree[t] \subseteq m1.tree[t]
    BY <1>5, <1>7
  <2>4. /\ \A w \in Windows \ m3.windows : m3.tabsOf[w] = {}
        /\ \A w \in Windows : m3.tabsOf[w] \subseteq m3.tabs
        /\ \A v, w \in Windows : v # w => m3.tabsOf[v] \cap m3.tabsOf[w] = {}
    BY <1>7, <2>1, <2>2 DEF Proper
  <2>5. \A t, u \in m3.tabs : t # u => m3.tree[t] \cap m3.tree[u] = {}
    BY <1>7, <2>1, <2>3 DEF Proper
  <2>6. \A p \in Panes : m3.proc[p] = "none" => p \notin m3.panes /\ \A t \in Tabs : p \notin m3.tree[t]
    BY <1>7, <2>1, <2>3 DEF Proper
  <2> QED BY <1>7, <2>4, <2>5, <2>6 DEF Proper
<1>10. InHand(m3, hand)
  BY <1>1, <1>2, <1>5, <1>7 DEF Sound, InHand
<1>11. Housed(m3, hand, "pruneTabs")
  <2> SUFFICES ASSUME NEW p \in m1.panes \ m1.strays
               PROVE  \/ Resolves(m3, p) \/ p \in m3.removals \/ p \in hand
                      \/ \E t \in m3.tabs : p \in m3.tree[t] /\ IsDead(m3, t)
    BY <1>7 DEF Housed
  <2>1. Resolves(m1, p) \/ p \in m1.removals \/ p \in hand
    BY <1>2 DEF Sound, Housed
  <2>2. ASSUME NEW w \in m1.windows, NEW t \in m1.tabs, t \in m1.tabsOf[w], p \in m1.tree[t], p \notin cut
        PROVE  Resolves(m3, p) \/ (t \in m3.tabs /\ p \in m3.tree[t] /\ IsDead(m3, t))
    <3>1. p \in m3.tree[t] /\ t \in m3.tabs /\ w \in m3.windows /\ w \in Windows
      BY <1>1, <1>2, <1>5, <1>7, <2>2 DEF MuxType
    <3>2. CASE IsDead(m2, t)
      BY <1>8, <3>1, <3>2
    <3>3. CASE ~IsDead(m2, t)
      <4>1. t \in m3.tabsOf[w]
        BY <1>7, <2>2, <3>1, <3>3
      <4> QED BY <1>7, <3>1, <4>1, ResolvesDef
    <3> QED BY <3>2, <3>3
  <2> QED BY <1>2, <1>7, <2>1, <2>2, ResolvesDef
<1>12. Sound(m3, hand, "pruneTabs")
  BY <1>9, <1>10, <1>11 DEF Sound
<1>13. /\ Sound(mux', hand, "pruneTabs") /\ mux'.windows = m3.windows /\ mux'.tabsOf = m3.tabsOf
       /\ \A t \in m3.tabs : mux'.tree[t] = m3.tree[t]
  BY <1>3, <1>12, BecomesIsSound
<1>14. Hand(moving') = hand
  BY <1>3 DEF hand
<1>15. /\ doomed' \subseteq mux'.windows /\ \A w \in doomed' : mux'.tabsOf[w] = {}
  BY <1>3, <1>13
<1>16. ASSUME NEW w \in Windows, NEW t \in mux'.tabsOf[w]
       PROVE  mux'.tree[t] # {}
  <2>1. t \in m3.tabs /\ ~IsDead(m2, t)
    BY <1>7, <1>13, <1>16
  <2> QED BY <1>6, <1>7, <1>13, <2>1 DEF IsDead
<1> QED BY <1>3, <1>13, <1>14, <1>15, <1>16 DEF IInv, Control

(* The second half: what is dead goes, and so do the emptied windows. *)
LEMMA PruneTabsIsGood ==
  ASSUME IInv, PruneTabs
  PROVE  IInv'
<1> DEFINE m1 == Ask(mux, Listed(mux))
           dead == {t \in m1.tabs : IsDead(m1, t)}
           m2 == RemoveTabs(m1, dead)
           m3 == [m2 EXCEPT !.windows = @ \ doomed]
           hand == Hand(moving)
<1>1. /\ Sound(mux, hand, "pruneTabs") /\ mux \in MuxType
      /\ \A w \in doomed : mux.tabsOf[w] = {}
  BY DEF IInv, Control, Sound, Proper, PruneTabs
<1>2. Becomes(m3) /\ doomed' = {} /\ main' = Afterwards /\ UNCHANGED <<behaviour, op, moving>>
  BY DEF PruneTabs
<1> HIDE DEF hand
<1>3. Sound(m1, hand, "pruneTabs") /\ m1 \in MuxType /\ m1.tabsOf = mux.tabsOf
  BY <1>1, AskIsSound, AskFields
<1> HIDE DEF m1
<1>4. Sound(m2, hand, "pruneTabs")
  <2> HIDE DEF dead
  <2> QED BY <1>3, RemoveTabsIsSound
<1>5. /\ m2 \in MuxType /\ m2.windows = m1.windows
      /\ \A w \in Windows : m2.tabsOf[w] \subseteq m1.tabsOf[w]
      /\ m2.tabs = m1.tabs \ dead /\ m2.tree = m1.tree
      /\ m2.removals = m1.removals /\ m2.strays = m1.strays
      /\ \A t \in dead : m1.tree[t] \cap m2.panes = {}
      /\ m2.panes \subseteq m1.panes
  <2>1. dead \cap m1.tabs = dead
    OBVIOUS
  <2> HIDE DEF dead
  <2> QED BY <1>3, <2>1, RemoveTabsFields
<1>6. Housed(m2, hand, "idle")
  <2> SUFFICES ASSUME NEW p \in m2.panes \ m2.strays
               PROVE  Resolves(m2, p) \/ p \in m2.removals \/ p \in hand
    BY DEF Housed
  <2>1. p \in m1.panes \ m1.strays
    BY <1>5
  <2>2. \/ Resolves(m1, p) \/ p \in m1.removals \/ p \in hand
        \/ \E t \in m1.tabs : p \in m1.tree[t] /\ IsDead(m1, t)
    BY <1>3, <2>1 DEF Sound, Housed
  <2>3. \A t \in m1.tabs : p \in m1.tree[t] => ~IsDead(m1, t)
    BY <1>5
  <2>4. ASSUME NEW w \in m1.windows, NEW t \in m1.tabs, t \in m1.tabsOf[w], p \in m1.tree[t]
        PROVE  Resolves(m2, p)
    <3>1. t \in m2.tabs /\ p \in m2.tree[t]
      BY <1>5, <2>3, <2>4
    <3>2. t \in m2.tabsOf[w]
      <4>1. w \in Windows /\ m2.tabsOf[w] = m1.tabsOf[w] \ (dead \cap m1.tabs)
        <5> HIDE DEF dead
        <5> QED BY <1>3, RemoveTabsFields DEF MuxType
      <4> QED BY <2>3, <2>4, <4>1
    <3> QED BY <1>5, <2>4, <3>1, <3>2, ResolvesDef
  <2> QED BY <1>3, <1>5, <2>2, <2>3, <2>4, ResolvesDef
<1> HIDE DEF m2
<1>7. /\ m3 \in MuxType /\ m3.windows = m2.windows \ doomed /\ m3.tabsOf = m2.tabsOf
      /\ m3.tabs = m2.tabs /\ m3.tree = m2.tree /\ m3.panes = m2.panes /\ m3.proc = m2.proc
      /\ m3.removals = m2.removals /\ m3.strays = m2.strays
  BY <1>5 DEF MuxType
<1> HIDE DEF m3
<1>8. \A w \in Windows \ m3.windows : m3.tabsOf[w] = {}
  BY <1>1, <1>3, <1>4, <1>5, <1>7 DEF Sound, Proper
<1>9. Sound(m2, hand, "idle")
  BY <1>4, <1>6 DEF Sound
<1>10. Sound(m3, hand, "idle")
  <2> DEFINE gone == {}
  <2>1. /\ m3.tabs = m2.tabs \ gone
        /\ \A w \in Windows : m3.tabsOf[w] = m2.tabsOf[w] \ gone
        /\ \A t \in m2.tabs \cap gone : m2.tree[t] \cap m3.panes = {}
        /\ m3.panes \subseteq m2.panes
        /\ m2.removals \cap m3.panes \subseteq m3.removals
        /\ m2.strays \cap m3.panes \subseteq m3.strays
    BY <1>7
  <2>2. m3 \in MuxType /\ m3.tree = m2.tree /\ Later(m2.proc, m3.proc)
    BY <1>7 DEF Later
  <2> HIDE DEF gone
  <2> QED BY ONLY <1>8, <1>9, <2>1, <2>2, ShrinkIsSound
<1>11. Sound(mux', hand, "idle")
  BY <1>2, <1>10, BecomesIsSound
<1>12. Sound(mux', Hand(moving'), main')
  BY <1>2, <1>11, SoundElsewhere DEF hand
<1> QED BY <1>2, <1>12 DEF IInv, Control, Afterwards

LEMMA RunRemovePaneIsGood ==
  ASSUME IInv, NEW p \in Panes, RunRemovePane(p)
  PROVE  IInv'
<1> DEFINE m == [mux EXCEPT !.removals = @ \ {p}]
           n == RemovePanes(m, {p})
<1>1. Sound(mux, {}, "idle") /\ mux \in MuxType
  BY WhenIdle DEF RunRemovePane
<1>2. /\ Becomes(n) /\ main = "idle" /\ main' \in {"idle", "prune"}
      /\ UNCHANGED <<behaviour, op, doomed, moving>>
  BY DEF RunRemovePane
<1>3. /\ m \in MuxType /\ m.windows = mux.windows /\ m.tabsOf = mux.tabsOf /\ m.tabs = mux.tabs
      /\ m.tree = mux.tree /\ m.panes = mux.panes /\ m.proc = mux.proc
      /\ m.removals = mux.removals \ {p} /\ m.strays = mux.strays
  BY <1>1 DEF MuxType
<1> HIDE DEF m
<1>4. /\ n \in MuxType /\ n.windows = mux.windows /\ n.tabsOf = mux.tabsOf /\ n.tabs = mux.tabs
      /\ n.tree = mux.tree /\ n.panes = mux.panes \ {p}
      /\ n.removals = mux.removals \ {p} /\ n.strays = mux.strays
      /\ Later(mux.proc, n.proc)
  BY <1>3, RemovePanesFields
<1> HIDE DEF n
<1>5. /\ n.panes \subseteq mux.panes /\ mux.windows \subseteq n.windows
      /\ mux.removals \cap n.panes \subseteq n.removals /\ mux.strays \cap n.panes \subseteq n.strays
  BY <1>4
<1>6. Sound(n, {}, "idle")
  BY <1>1, <1>4, <1>5, KeepIsSound
<1> QED BY <1>2, <1>6, TaskIsGood DEF IInv, Control

LEMMA InsertIsGood ==
  ASSUME IInv, Insert
  PROVE  IInv'
<1>0. PICK fits \in BOOLEAN : Becomes(PutInto(mux, moving.tab, moving.at, moving.pane, fits))
  BY DEF Insert
<1> DEFINE n == PutInto(mux, moving.tab, moving.at, moving.pane, fits)
<1>1. /\ Becomes(n) /\ main' = "idle" /\ moving' = Nothing
      /\ UNCHANGED <<behaviour, op, doomed>>
  BY <1>0 DEF Insert
<1>2. Sound(mux, {moving.pane}, "idle") /\ doomed = {}
  BY SoundElsewhere DEF IInv, Control, Insert, Hand
<1>3. Sound(n, {}, "idle")
  BY <1>2, PutIntoIsSound
<1> HIDE DEF n
<1>4. Sound(mux', {}, "idle")
  BY <1>1, <1>3, BecomesIsSound
<1> QED BY <1>1, <1>2, <1>4 DEF IInv, Control, Hand, Nothing

(* A tree is lost: all its panes are strays.                               *)
LEMMA LosesTreeIsGood ==
  ASSUME IInv, NEW m, NEW p, Sound(m, {p}, "idle"), NEW t, NEW at, LosesTree(m, t, at, p),
         moving' = Nothing, op' \in [Ops -> OpType], doomed = {}
  PROVE  IInv'
<1> DEFINE n == [m EXCEPT !.tree[t] = {}, !.strays = @ \cup m.tree[t] \cup {p}]
           tree == [m.tree EXCEPT ![t] = {}]
           strays == m.strays \cup m.tree[t] \cup {p}
<1>1. t \in m.tabs /\ main' = "broken" /\ UNCHANGED <<behaviour, doomed>> /\ Becomes(n)
  BY DEF LosesTree
<1>2. m \in MuxType /\ t \in Tabs /\ p \in Panes
  BY <1>1 DEF Sound, Proper, InHand, MuxType
<1>3. tree \in [Tabs -> SUBSET Panes] /\ \A u \in Tabs : tree[u] = IF u = t THEN {} ELSE m.tree[u]
  <2>1. m.tree \in [Tabs -> SUBSET Panes]
    BY <1>2 DEF MuxType
  <2> QED BY <2>1
<1>4. strays \subseteq Panes /\ m.tree[t] \subseteq strays
  BY <1>2 DEF MuxType
<1>5. n = [m EXCEPT !.tree = tree, !.strays = strays]
  BY <1>2 DEF MuxType
<1>6. m.strays \subseteq strays /\ p \in strays
  OBVIOUS
<1> HIDE DEF n, tree, strays
<1>7. /\ n \in MuxType /\ n.windows = m.windows /\ n.tabsOf = m.tabsOf /\ n.tabs = m.tabs
      /\ n.tree = tree /\ n.panes = m.panes /\ n.proc = m.proc
      /\ n.removals = m.removals /\ n.strays = strays
  BY <1>2, <1>3, <1>4, <1>5 DEF MuxType
<1>8. \A u \in Tabs : n.tree[u] \subseteq m.tree[u] /\ m.tree[u] \subseteq n.tree[u] \cup n.strays
  BY <1>3, <1>4, <1>7
<1>9. Sound(n, {}, "idle")
  BY <1>6, <1>7, <1>8, DroppedIsSound
<1>10. Sound(mux', {}, "idle")
  BY <1>1, <1>9, BecomesIsSound
<1>11. Sound(mux', Hand(moving'), main')
  BY <1>10, SoundElsewhere DEF Hand
<1> QED BY <1>1, <1>11 DEF IInv, Control, Nothing

LEMMA InsertBreaksIsGood ==
  ASSUME IInv, InsertBreaks
  PROVE  IInv'
<1>1. Sound(mux, {moving.pane}, "idle") /\ doomed = {} /\ op \in [Ops -> OpType]
  BY SoundElsewhere DEF IInv, Control, InsertBreaks, Hand
<1> QED BY <1>1, LosesTreeIsGood DEF InsertBreaks
-----------------------------------------------------------------------------
LEMMA ClosePaneIsGood ==
  ASSUME IInv, NEW p \in Panes, ClosePane(p)
  PROVE  IInv'
<1> DEFINE src == HomeOf(mux, p)
           m == [mux EXCEPT !.tree[src] = @ \ {p}]
           n == [mux EXCEPT !.tree[src] = @ \ {p}, !.removals = @ \cup {p}]
<1>1. Sound(mux, {}, "idle") /\ mux \in MuxType
  BY WhenIdle DEF ClosePane
<1>2. /\ Becomes(n) /\ main = "idle" /\ main' \in {"idle", "prune"} /\ Resolves(mux, p)
      /\ UNCHANGED <<behaviour, op, doomed, moving>>
  BY DEF ClosePane
<1>3. Sound(m, {p}, "idle")
  BY <1>1, <1>2, TakeOutIsSound
<1> HIDE DEF src
<1>4. n = [m EXCEPT !.removals = @ \cup {p}]
  BY <1>1 DEF MuxType
<1> HIDE DEF m, n
<1>5. /\ n \in MuxType /\ n.tree = m.tree /\ n.tabs = m.tabs /\ n.tabsOf = m.tabsOf
      /\ n.windows = m.windows /\ n.panes = m.panes /\ n.removals = m.removals \cup {p}
      /\ n.strays = m.strays /\ n.proc = m.proc
  BY <1>3, <1>4 DEF Sound, Proper, MuxType
<1>6. Sound(n, {p}, "idle")
  <2>1. /\ Later(m.proc, n.proc) /\ m.windows \subseteq n.windows /\ n.panes \subseteq m.panes
        /\ m.removals \cap n.panes \subseteq n.removals /\ m.strays \cap n.panes \subseteq n.strays
    BY <1>5 DEF Later
  <2> QED BY <1>3, <1>5, <2>1, KeepIsSound
<1>7. Sound(n, {}, "idle")
  BY <1>5, <1>6 DEF Sound, InHand, Housed
<1> QED BY <1>2, <1>7, TaskIsGood DEF IInv, Control

LEMMA CloseTabIsGood ==
  ASSUME IInv, NEW t \in Tabs, CloseTab(t)
  PROVE  IInv'
<1>1. Sound(RemoveTabs(mux, {t}), {}, "idle")
  BY WhenIdle, RemoveTabsIsSound DEF CloseTab
<1> QED BY <1>1, TaskIsGood DEF IInv, Control, CloseTab

LEMMA CloseWindowIsGood ==
  ASSUME IInv, NEW w \in Windows, CloseWindow(w)
  PROVE  IInv'
<1> DEFINE gone == mux.tabsOf[w]
           m == WithoutWindow(mux, w)
           n == RemoveTabs(m, gone)
<1>1. Sound(mux, {}, "idle") /\ mux \in MuxType
  BY WhenIdle DEF CloseWindow
<1>2. /\ Becomes(n) /\ main = "idle" /\ main' \in {"idle", "prune"}
      /\ UNCHANGED <<behaviour, op, doomed, moving>>
  BY DEF CloseWindow
<1>3. /\ gone \subseteq mux.tabs
      /\ \A v \in Windows \ mux.windows : mux.tabsOf[v] = {}
      /\ \A v \in Windows : v # w => mux.tabsOf[v] \cap gone = {}
  BY <1>1 DEF Sound, Proper
<1>4. /\ m \in MuxType /\ m.windows = mux.windows \ {w}
      /\ \A v \in Windows : m.tabsOf[v] = IF v = w THEN {} ELSE mux.tabsOf[v]
      /\ m.tabs = mux.tabs /\ m.tree = mux.tree /\ m.panes = mux.panes /\ m.proc = mux.proc
      /\ m.removals = mux.removals /\ m.strays = mux.strays
  BY <1>1 DEF WithoutWindow, MuxType
<1> HIDE DEF m, gone
<1>5. /\ n \in MuxType /\ n.windows = m.windows
      /\ \A v \in Windows : n.tabsOf[v] = m.tabsOf[v] \ (gone \cap m.tabs)
      /\ n.tabs = m.tabs \ gone /\ n.tree = m.tree
      /\ n.panes \subseteq m.panes
      /\ \A t \in gone \cap m.tabs : m.tree[t] \cap n.panes = {}
      /\ n.removals = m.removals /\ n.strays = m.strays
      /\ Later(m.proc, n.proc)
  BY <1>4, RemoveTabsFields
<1> HIDE DEF n
<1>6. /\ n \in MuxType /\ n.tree = mux.tree /\ Later(mux.proc, n.proc)
      /\ n.tabs = mux.tabs \ gone /\ n.panes \subseteq mux.panes
      /\ \A t \in mux.tabs \cap gone : mux.tree[t] \cap n.panes = {}
      /\ mux.removals \cap n.panes \subseteq n.removals
      /\ mux.strays \cap n.panes \subseteq n.strays
  BY <1>4, <1>5
<1>7. \A v \in Windows : n.tabsOf[v] = mux.tabsOf[v] \ gone
  BY <1>3, <1>4, <1>5 DEF gone
<1>8. \A v \in Windows \ n.windows : n.tabsOf[v] = {}
  BY <1>3, <1>4, <1>5
<1>9. Sound(n, {}, "idle")
  BY ONLY <1>1, <1>6, <1>7, <1>8, ShrinkIsSound
<1> QED BY <1>2, <1>9, TaskIsGood DEF IInv, Control

LEMMA SpawnTabIsGood ==
  ASSUME IInv, NEW o \in Ops, NEW w \in Windows, NEW act \in BOOLEAN, SpawnTab(o, w, act)
  PROVE  IInv'
<1>1. op' \in [Ops -> OpType]
  BY DEF IInv, Control, SpawnTab, OpType, Idle
<1> QED BY <1>1 DEF IInv, Control, SpawnTab

LEMMA SplitPaneIsGood ==
  ASSUME IInv, NEW o \in Ops, NEW p \in Panes, SplitPane(o, p)
  PROVE  IInv'
<1>1. HomeOf(mux, p) \in Tabs
  BY WhenIdle, HomeIsHome DEF SplitPane, Sound
<1>2. op' \in [Ops -> OpType]
  BY <1>1 DEF IInv, Control, SplitPane, OpType, Idle
<1> QED BY <1>2 DEF IInv, Control, SplitPane

LEMMA SpawnWindowIsGood ==
  ASSUME IInv, NEW o \in Ops, NEW w \in Windows, NEW act \in BOOLEAN, SpawnWindow(o, w, act)
  PROVE  IInv'
<1> DEFINE n == [mux EXCEPT !.windows = @ \cup {w}, !.queued = TRUE]
<1>1. Sound(mux, {}, "idle") /\ mux \in MuxType
  BY WhenIdle DEF SpawnWindow
<1>2. /\ Becomes(n) /\ main = "idle" /\ main' \in {"idle", "prune"}
      /\ UNCHANGED <<behaviour, doomed, moving>>
  BY DEF SpawnWindow
<1>3. op' \in [Ops -> OpType]
  BY DEF IInv, Control, SpawnWindow, OpType, Idle
<1>4. /\ n \in MuxType /\ n.tree = mux.tree /\ n.tabs = mux.tabs /\ n.tabsOf = mux.tabsOf
      /\ n.windows = mux.windows \cup {w} /\ n.panes = mux.panes /\ n.removals = mux.removals
      /\ n.strays = mux.strays /\ n.proc = mux.proc
  BY <1>1 DEF MuxType
<1> HIDE DEF n
<1>5. /\ Later(mux.proc, n.proc) /\ mux.windows \subseteq n.windows /\ n.panes \subseteq mux.panes
      /\ mux.removals \cap n.panes \subseteq n.removals /\ mux.strays \cap n.panes \subseteq n.strays
  BY <1>4 DEF Later
<1>6. Sound(n, {}, "idle")
  BY <1>1, <1>4, <1>5, KeepIsSound
<1> QED BY <1>2, <1>3, <1>6, TaskIsGood

(* An operation that returns queues a prune at most. *)
LEMMA ReturnsIsGood ==
  ASSUME IInv, main = "idle", NEW o \in Ops, NEW m, Sound(m, {}, "idle"), Returns(o, m)
  PROVE  IInv'
<1> DEFINE n == [m EXCEPT !.queued = @ \/ op[o].act]
<1>1. Becomes(n) /\ UNCHANGED <<behaviour, main, doomed, moving>>
  BY DEF Returns
<1>2. op' \in [Ops -> OpType]
  BY DEF IInv, Control, Returns, OpType, Idle
<1>3. m \in MuxType
  BY DEF Sound, Proper
<1>4. n = [m EXCEPT !.queued = m.queued \/ op[o].act]
  OBVIOUS
<1> DEFINE q == m.queued \/ op[o].act
<1>5. q \in BOOLEAN /\ n = [m EXCEPT !.queued = q]
  BY <1>4
<1> HIDE DEF n, q
<1>6. /\ n \in MuxType /\ n.tree = m.tree /\ n.tabs = m.tabs /\ n.tabsOf = m.tabsOf
      /\ n.windows = m.windows /\ n.panes = m.panes /\ n.removals = m.removals
      /\ n.strays = m.strays /\ n.proc = m.proc
  BY <1>3, <1>5 DEF MuxType
<1>7. /\ Later(m.proc, n.proc) /\ m.windows \subseteq n.windows /\ n.panes \subseteq m.panes
      /\ m.removals \cap n.panes \subseteq n.removals /\ m.strays \cap n.panes \subseteq n.strays
  BY <1>6 DEF Later
<1>8. Sound(n, {}, "idle")
  BY <1>6, <1>7, KeepIsSound
<1> QED BY <1>1, <1>2, <1>8, TaskIsGood

LEMMA DomainFailsIsGood ==
  ASSUME IInv, NEW o \in Ops, DomainFails(o)
  PROVE  IInv'
BY WhenIdle, ReturnsIsGood DEF DomainFails

LEMMA SplitArrivesIsGood ==
  ASSUME IInv, NEW o \in Ops, NEW p \in Panes, SplitArrives(o, p)
  PROVE  IInv'
<1>1. Sound(mux, {}, "idle") /\ main = "idle" /\ mux.proc[p] = "none"
  BY WhenIdle DEF SplitArrives, FreshPane
<1>2. /\ Sound(WithPane(mux, p), {p}, "idle")
      /\ WithPane(mux, p).windows = mux.windows /\ WithPane(mux, p).tabsOf = mux.tabsOf
      /\ WithPane(mux, p).tabs = mux.tabs /\ WithPane(mux, p).tree = mux.tree
  BY <1>1, NewPaneIsSound
<1>3. PICK fits \in BOOLEAN : Returns(o, PutInto(WithPane(mux, p), op[o].tab, op[o].pane, p, fits))
  BY DEF SplitArrives
<1>4. Sound(PutInto(WithPane(mux, p), op[o].tab, op[o].pane, p, fits), {}, "idle")
  BY <1>2, PutIntoIsSound
<1> QED BY <1>1, <1>3, <1>4, ReturnsIsGood

LEMMA SplitBreaksIsGood ==
  ASSUME IInv, NEW o \in Ops, NEW p \in Panes, SplitBreaks(o, p)
  PROVE  IInv'
<1>1. /\ Sound(mux, {}, "idle") /\ mux.proc[p] = "none" /\ doomed = {}
      /\ moving' = Nothing
  BY WhenIdle DEF SplitBreaks, FreshPane
<1>2. Sound(WithPane(mux, p), {p}, "idle")
  BY <1>1, NewPaneIsSound
<1>3. op' \in [Ops -> OpType]
  BY DEF IInv, Control, SplitBreaks, OpType, Idle
<1> QED BY <1>1, <1>2, <1>3, LosesTreeIsGood DEF SplitBreaks

(* The pane without a reader is a stray. *)
LEMMA ReaderFailsIsGood ==
  ASSUME IInv, NEW o \in Ops, NEW p \in Panes, ReaderFails(o, p)
  PROVE  IInv'
<1> DEFINE m == WithPane(mux, p)
           n == [m EXCEPT !.reading = @ \ {p}, !.strays = @ \cup {p}]
<1>1. /\ Sound(mux, {}, "idle") /\ main = "idle" /\ mux.proc[p] = "none" /\ Returns(o, n)
  BY WhenIdle DEF ReaderFails, FreshPane
<1>2. Sound(m, {p}, "idle") /\ m \in MuxType
  BY <1>1, NewPaneIsSound
<1> HIDE DEF m
<1>3. /\ n \in MuxType /\ n.windows = m.windows /\ n.tabsOf = m.tabsOf /\ n.tabs = m.tabs
      /\ n.tree = m.tree /\ n.panes = m.panes /\ n.proc = m.proc
      /\ n.removals = m.removals /\ n.strays = m.strays \cup {p}
  BY <1>2 DEF MuxType
<1> HIDE DEF n
<1>4. Sound(n, {}, "idle")
  BY <1>2, <1>3, DroppedIsSound
<1> QED BY <1>1, <1>4, ReturnsIsGood

LEMMA SpawnArrivesIsGood ==
  ASSUME IInv, NEW o \in Ops, NEW t \in Tabs, NEW p \in Panes, SpawnArrives(o, t, p)
  PROVE  IInv'
<1> DEFINE w == op[o].win
           m1 == WithPane(mux, p)
           m == WithTab(m1, t, p)
           n1 == [m EXCEPT !.tabsOf[w] = @ \cup {t}]
           n2 == [m EXCEPT !.strays = @ \cup {p}]
<1>1. /\ Sound(mux, {}, "idle") /\ main = "idle" /\ mux.proc[p] = "none" /\ t \notin mux.tabs
      /\ mux.windows \subseteq Windows
  BY WhenIdle DEF SpawnArrives, FreshPane, FreshTab
<1>2. /\ Sound(m1, {p}, "idle") /\ m1 \in MuxType /\ m1.windows = mux.windows /\ m1.tabs = mux.tabs
  BY <1>1, NewPaneIsSound
<1>3. Returns(o, IF w \in mux.windows THEN n1 ELSE n2)
  BY DEF SpawnArrives
<1> HIDE DEF w, m1
<1>4. /\ m \in MuxType /\ m.windows = m1.windows /\ m.tabsOf = m1.tabsOf /\ m.tabs = m1.tabs \cup {t}
      /\ m.tree = [m1.tree EXCEPT ![t] = {p}] /\ m.panes = m1.panes /\ m.proc = m1.proc
      /\ m.removals = m1.removals /\ m.strays = m1.strays
  BY <1>2 DEF WithTab, MuxType
<1> HIDE DEF m
<1>5. ASSUME w \in mux.windows
      PROVE  Sound(n1, {}, "idle")
  <2>1. w \in Windows /\ m1.windows \cup {w} = m1.windows
    BY <1>1, <1>2, <1>5
  <2>2. /\ n1 \in MuxType /\ n1.windows = m.windows /\ n1.tabsOf = [m.tabsOf EXCEPT ![w] = @ \cup {t}]
        /\ n1.tabs = m.tabs /\ n1.tree = m.tree /\ n1.panes = m.panes /\ n1.proc = m.proc
        /\ n1.removals = m.removals /\ n1.strays = m.strays
    BY <1>4, <2>1 DEF MuxType
  <2> HIDE DEF n1
  <2> QED BY <1>1, <1>2, <1>4, <2>1, <2>2, NewTabIsSound
<1>6. Sound(n2, {}, "idle")
  <2>1. /\ n2 \in MuxType /\ n2.windows = m.windows /\ n2.tabsOf = m.tabsOf
        /\ n2.tabs = m.tabs /\ n2.tree = m.tree /\ n2.panes = m.panes /\ n2.proc = m.proc
        /\ n2.removals = m.removals /\ n2.strays = m.strays \cup {p}
    BY <1>4 DEF MuxType
  <2> HIDE DEF n2
  <2> QED BY <1>1, <1>2, <1>4, <2>1, StrayTabIsSound
<1> HIDE DEF n1, n2
<1>7. Sound(IF w \in mux.windows THEN n1 ELSE n2, {}, "idle")
  BY <1>5, <1>6
<1> QED BY <1>1, <1>3, <1>7, ReturnsIsGood

(* The pane goes from its tab into the task's hand. *)
LEMMA MoveToSplitIsGood ==
  ASSUME IInv, NEW p \in Panes, NEW at \in Panes, MoveToSplit(p, at)
  PROVE  IInv'
<1> DEFINE src == HomeOf(mux, p)
           m1 == [mux EXCEPT !.tree[src] = @ \ {p}]
           m == Ask(m1, mux.tree[src] \ {p})
           n == IF IsDead(m, src) THEN RemoveTabs(m, {src}) ELSE m
<1>1. Sound(mux, {}, "idle") /\ doomed = {}
  BY WhenIdle DEF MoveToSplit
<1>2. /\ Becomes(n) /\ main' \in {"prune", "insert"} /\ Resolves(mux, p) /\ Resolves(mux, at)
      /\ UNCHANGED <<behaviour, op, doomed>>
      /\ moving' = [tab |-> HomeOf(mux, at), at |-> at, pane |-> p]
  BY DEF MoveToSplit
<1>3. HomeOf(mux, at) \in Tabs
  BY <1>1, <1>2, HomeIsHome DEF Sound, Proper, MuxType
<1>4. Sound(m1, {p}, "idle")
  BY <1>1, <1>2, TakeOutIsSound
<1> HIDE DEF m1, src
<1>5. Sound(m, {p}, "idle")
  BY <1>4, AskIsSound
<1> HIDE DEF m
<1>6. Sound(n, {p}, "idle")
  BY <1>5, RemoveTabsIsSound
<1> HIDE DEF n
<1>7. Sound(mux', {p}, "idle")
  BY <1>2, <1>6, BecomesIsSound
<1>8. /\ moving' \in [tab : Tabs \cup {None}, at : Panes \cup {None}, pane : Panes \cup {None}]
      /\ moving'.pane = p
  BY <1>2, <1>3
<1>9. moving' # Nothing
  BY <1>2, MuxAssumption DEF Nothing
<1>10. Sound(mux', Hand(moving'), main')
  BY <1>7, <1>8, <1>9, SoundElsewhere DEF Hand
<1> QED BY <1>1, <1>2, <1>8, <1>9, <1>10 DEF IInv, Control

(* The pane goes from its tab into a new one. *)
LEMMA MoveToTabIsGood ==
  ASSUME IInv, NEW p \in Panes, NEW w \in Windows, NEW t \in Tabs, MoveToTab(p, w, t)
  PROVE  IInv'
<1> DEFINE src == HomeOf(mux, p)
           new == w \notin mux.windows
           m0 == [mux EXCEPT !.tree[src] = @ \ {p}]
           m1 == WithTab(m0, t, p)
           q  == m1.queued \/ new
           m2 == [m1 EXCEPT !.windows = @ \cup {w}, !.tabsOf[w] = @ \cup {t}, !.queued = q]
           m3 == Ask(m2, m2.tree[src])
           n == IF IsDead(m3, src) THEN RemoveTabs(m3, {src}) ELSE m3
<1>1. /\ Sound(mux, {}, "idle") /\ main = "idle" /\ mux \in MuxType /\ t \notin mux.tabs
      /\ Resolves(mux, p)
  BY WhenIdle DEF MoveToTab, FreshTab
<1>2. /\ Becomes(n) /\ main' \in {"idle", "prune"}
      /\ UNCHANGED <<behaviour, op, doomed, moving>>
  <2>1. m2 = [m1 EXCEPT !.windows = @ \cup {w}, !.tabsOf[w] = @ \cup {t}, !.queued = @ \/ new]
    OBVIOUS
  <2> QED BY <2>1 DEF MoveToTab
<1>3. Sound(m0, {p}, "idle")
  BY <1>1, TakeOutIsSound
<1>4. m0 \in MuxType /\ m0.tabs = mux.tabs
  BY <1>1, <1>3 DEF Sound, Proper, MuxType
<1> HIDE DEF m0, src
<1>5. /\ m1 \in MuxType /\ m1.windows = m0.windows /\ m1.tabsOf = m0.tabsOf /\ m1.tabs = m0.tabs \cup {t}
      /\ m1.tree = [m0.tree EXCEPT ![t] = {p}] /\ m1.panes = m0.panes /\ m1.proc = m0.proc
      /\ m1.removals = m0.removals /\ m1.strays = m0.strays
  BY <1>1, <1>4 DEF WithTab, MuxType
<1> HIDE DEF m1
<1>6. q \in BOOLEAN
  OBVIOUS
<1> HIDE DEF q
<1>7. /\ m2 \in MuxType /\ m2.windows = m0.windows \cup {w}
      /\ m2.tabsOf = [m0.tabsOf EXCEPT ![w] = @ \cup {t}] /\ m2.tabs = m0.tabs \cup {t}
      /\ m2.tree = [m0.tree EXCEPT ![t] = {p}] /\ m2.panes = m0.panes /\ m2.proc = m0.proc
      /\ m2.removals = m0.removals /\ m2.strays = m0.strays
  BY <1>5, <1>6 DEF MuxType
<1> HIDE DEF m2
<1>8. Sound(m2, {}, "idle")
  BY <1>1, <1>3, <1>4, <1>7, NewTabIsSound
<1>9. Sound(m3, {}, "idle")
  BY <1>8, AskIsSound
<1> HIDE DEF m3
<1>10. Sound(n, {}, "idle")
  BY <1>9, RemoveTabsIsSound
<1> QED BY <1>1, <1>2, <1>10, TaskIsGood DEF IInv, Control

(* The pane leaves its tab and has no new one. *)
LEMMA MoveToTabFailsIsGood ==
  ASSUME IInv, NEW p \in Panes, NEW w \in Windows, MoveToTabFails(p, w)
  PROVE  IInv'
<1> DEFINE src == HomeOf(mux, p)
           m == [mux EXCEPT !.tree[src] = @ \ {p}]
           torn == IF mux.tree[src] = {p} THEN mux.torn \cup {src} ELSE mux.torn
           q == mux.queued \/ w \notin mux.windows
           n == [m EXCEPT !.strays = @ \cup {p}, !.torn = torn, !.windows = @ \cup {w}, !.queued = q]
<1>1. Sound(mux, {}, "idle") /\ mux \in MuxType /\ Resolves(mux, p) /\ main = "idle"
  BY WhenIdle DEF MoveToTabFails
<1>2. Becomes(n) /\ UNCHANGED <<behaviour, op, main, doomed, moving>>
  <2>1. n = [mux EXCEPT !.tree[src] = @ \ {p}, !.strays = @ \cup {p},
                        !.torn = IF mux.tree[src] = {p} THEN @ \cup {src} ELSE @,
                        !.windows = @ \cup {w}, !.queued = @ \/ w \notin mux.windows]
    BY <1>1 DEF MuxType
  <2> QED BY <2>1 DEF MoveToTabFails
<1>3. Sound(m, {p}, "idle") /\ m \in MuxType
  BY <1>1, TakeOutIsSound DEF Sound, Proper
<1>4. src \in Tabs
  BY <1>1, HomeIsHome DEF Sound, Proper, MuxType
<1>5. torn \subseteq Tabs /\ q \in BOOLEAN
  BY <1>1, <1>4 DEF MuxType
<1> HIDE DEF m, src, torn, q
<1>6. /\ n \in MuxType /\ n.windows = m.windows \cup {w} /\ n.tabsOf = m.tabsOf /\ n.tabs = m.tabs
      /\ n.tree = m.tree /\ n.panes = m.panes /\ n.proc = m.proc
      /\ n.removals = m.removals /\ n.strays = m.strays \cup {p}
  BY <1>3, <1>5 DEF MuxType
<1> HIDE DEF n
<1>7. Sound(n, {}, "idle")
  BY <1>3, <1>6, DroppedIsSound
<1> QED BY <1>1, <1>2, <1>7, TaskIsGood DEF IInv, Control

-----------------------------------------------------------------------------
LEMMA InitIsGood ==
  ASSUME Init
  PROVE  IInv
<1>1. PICK w \in Windows, t \in Tabs, p \in Panes :
        mux = [windows  |-> {w},
               tabsOf   |-> [v \in Windows |-> IF v = w THEN {t} ELSE {}],
               tabs     |-> {t},
               tree     |-> [u \in Tabs |-> IF u = t THEN {p} ELSE {}],
               panes    |-> {p},
               proc     |-> [q \in Panes |-> IF q = p THEN "running" ELSE "none"],
               reading  |-> {p},
               queued   |-> FALSE,
               removals |-> {},
               strays   |-> {},
               torn     |-> {}]
  BY DEF Init
<1>2. behaviour \in Behaviours /\ op = [o \in Ops |-> Idle] /\ main = "idle" /\ doomed = {} /\ moving = Nothing
  BY DEF Init
<1>3. /\ mux \in MuxType /\ mux.windows = {w} /\ mux.tabs = {t} /\ mux.panes = {p} /\ mux.strays = {}
      /\ \A v \in Windows : mux.tabsOf[v] = IF v = w THEN {t} ELSE {}
      /\ \A u \in Tabs : mux.tree[u] = IF u = t THEN {p} ELSE {}
      /\ \A q \in Panes : mux.proc[q] = IF q = p THEN "running" ELSE "none"
  BY <1>1 DEF MuxType, ProcState
<1>4. Proper(mux)
  BY <1>3 DEF Proper
<1>5. Housed(mux, {}, "idle")
  <2>1. Resolves(mux, p)
    BY <1>3, ResolvesDef
  <2> QED BY <1>3, <2>1 DEF Housed
<1>6. Sound(mux, Hand(moving), main)
  BY <1>2, <1>4, <1>5 DEF Sound, InHand, Hand
<1>7. Control
  BY <1>2 DEF Control, OpType, Idle, Nothing
<1> QED BY <1>6, <1>7 DEF IInv

(* The inductive invariant: the maps agree, and every pane is housed but   *)
(* those that an operation reporting an error left out.                    *)
THEOREM MuxInvariant == Spec => []IInv
<1>1. Init => IInv
  BY InitIsGood
<1>2. IInv /\ [Next]_vars => IInv'
  <2> SUFFICES ASSUME IInv, [Next]_vars
               PROVE  IInv'
    OBVIOUS
  <2>1. CASE MainStep
    BY <2>1, RunPruneIsGood, PruneSkippedIsGood, PruneWindowsIsGood, PruneTabsIsGood, InsertIsGood,
       InsertBreaksIsGood, RunRemovePaneIsGood DEF MainStep
  <2>2. CASE \E p \in Panes : \E b \in BOOLEAN : ProcessEnds(p, b) \/ ReaderEnds(p, b)
    BY <2>2, ThreadsAreGood
  <2>3. CASE \E p \in Panes : ClosePane(p) \/ \E q \in Panes : MoveToSplit(p, q)
    BY <2>3, ClosePaneIsGood, MoveToSplitIsGood
  <2>4. CASE \E p \in Panes, w \in Windows : MoveToTabFails(p, w) \/ \E t \in Tabs : MoveToTab(p, w, t)
    BY <2>4, MoveToTabIsGood, MoveToTabFailsIsGood
  <2>5. CASE \E t \in Tabs : CloseTab(t)
    BY <2>5, CloseTabIsGood
  <2>6. CASE \E w \in Windows : CloseWindow(w)
    BY <2>6, CloseWindowIsGood
  <2>7. ASSUME NEW o \in Ops,
               \/ DomainAnswers(o)
               \/ \E w \in Windows, b \in BOOLEAN : SpawnTab(o, w, b) \/ SpawnWindow(o, w, b)
               \/ \E p \in Panes : SplitPane(o, p)
        PROVE  IInv'
    <3>1. CASE DomainAnswers(o)
      BY <3>1, DomainFailsIsGood, SplitArrivesIsGood, SplitBreaksIsGood, ReaderFailsIsGood,
         SpawnArrivesIsGood DEF DomainAnswers
    <3>2. CASE \E w \in Windows, b \in BOOLEAN : SpawnTab(o, w, b) \/ SpawnWindow(o, w, b)
      BY <3>2, SpawnTabIsGood, SpawnWindowIsGood
    <3>3. CASE \E p \in Panes : SplitPane(o, p)
      BY <3>3, SplitPaneIsGood
    <3> QED BY <2>7, <3>1, <3>2, <3>3
  <2>8. CASE UNCHANGED vars
    BY <2>8 DEF vars, IInv, Control, Sound, Proper, InHand, Housed, Resolves, Shown, IsDead, Hand
  <2> QED BY <2>1, <2>2, <2>3, <2>4, <2>5, <2>6, <2>7, <2>8 DEF Next
<1> QED BY <1>1, <1>2, PTL DEF Spec

(* Type correctness, and what the main thread has in hand. *)
THEOREM MuxTypeCorrect == Spec => []TypeOK
<1>1. IInv => TypeOK
  BY DEF IInv, Control, Sound, Proper, TypeOK
<1> QED BY <1>1, MuxInvariant, PTL

(* A pane is in one tab, a tab in one window, and no pane is lost but by   *)
(* an operation that reports an error: every step that succeeds leaves the *)
(* panes of the mux in a tab of a window, or queues their removal.         *)
THEOREM MuxHousesPanes == Spec => []PanesHaveOneHome
<1>1. IInv => PanesHaveOneHome
  <2> SUFFICES ASSUME IInv
               PROVE  PanesHaveOneHome
    OBVIOUS
  <2>1. Proper(mux) /\ Housed(mux, Hand(moving), main) /\ mux.windows \subseteq Windows
    BY DEF IInv, Sound, Proper, MuxType
  <2>2. ASSUME main = "idle", NEW p \in mux.panes \ mux.strays
        PROVE  Resolves(mux, p) \/ p \in mux.removals
    <3>1. Hand(moving) = {}
      BY <2>2, WhenIdle
    <3> QED BY <2>1, <2>2, <3>1 DEF Housed
  <2> QED BY <2>1, <2>2 DEF PanesHaveOneHome, Proper
<1> QED BY <1>1, MuxInvariant, PTL

-----------------------------------------------------------------------------
(* A prune or a removal is queued, or an Activity that will queue one. *)
Pending(m, act) == m.queued \/ m.removals # {} \/ act

GoodPane(m, p) == p \in m.panes /\ m.proc[p] \in {"running", "held"}

GoodTab(m, t) ==
  t \in m.tabs /\ (m.tree[t] # {} \/ t \in m.torn) /\ \A p \in m.tree[t] : GoodPane(m, p)

GoodWindow(m, w) == m.tabsOf[w] # {} /\ \A t \in m.tabsOf[w] : GoodTab(m, t)

(* Nothing is left behind but tabs that failed moves emptied, or something *)
(* is queued that will see to it, or the prune at work is about to look at *)
(* every window.                                                           *)
Watched(m, act, hand, step, empty) ==
  /\ \A p \in m.panes : m.proc[p] # "dying"
  /\ \/ Pending(m, act)
     \/ /\ \A p \in hand : GoodPane(m, p)
        /\ step \in {"prune", "broken"} \/ \A w \in m.windows \ empty : GoodWindow(m, w)

WInv == Watched(mux, Activity, Hand(moving), main, doomed)

LEMMA SettledKeepsWatch ==
  ASSUME NEW m \in MuxType, NEW act, NEW hand, NEW step, NEW empty,
         Watched(m, act, hand, step, empty), NEW T, NEW P
  PROVE  Watched(Settled(m, T, P), act, hand, step, empty)
<1> DEFINE s == Settled(m, T, P)
           tree == [t \in Tabs |-> IF t \in m.tabs \cup Shown(m) \cup T THEN m.tree[t] ELSE {}]
           used == m.panes \cup P \cup UNION {tree[t] : t \in Tabs}
           proc == [p \in Panes |-> IF p \in used \/ m.proc[p] \in {"none", "running", "dying"}
                                      THEN m.proc[p] ELSE "dead"]
           more == m.queued \/ ~(m.removals \subseteq m.panes)
<1>1. s.windows = m.windows /\ s.tabsOf = m.tabsOf /\ s.tabs = m.tabs /\ s.panes = m.panes
      /\ s.removals = m.removals \cap m.panes /\ s.torn = m.torn \cap m.tabs
      /\ \A t \in m.tabs : s.tree[t] = m.tree[t]
  BY SettledFields
<1>2. s.queued = more /\ s.proc = proc
  <2> HIDE DEF proc, tree
  <2>1. s = [m EXCEPT !.tree = tree, !.proc = proc, !.removals = @ \cap m.panes,
                      !.queued = @ \/ ~(m.removals \subseteq m.panes), !.strays = @ \cap m.panes,
                      !.torn = @ \cap m.tabs]
    BY DEF Settled, tree, proc
  <2>2. m = [windows |-> m.windows, tabsOf |-> m.tabsOf, tabs |-> m.tabs, tree |-> m.tree,
             panes |-> m.panes, proc |-> m.proc, reading |-> m.reading, queued |-> m.queued,
             removals |-> m.removals, strays |-> m.strays, torn |-> m.torn]
    BY DEF MuxType
  <2> HIDE DEF s
  <2> QED BY <2>1, <2>2
<1>3. m.panes \subseteq Panes /\ m.queued \in BOOLEAN
  BY DEF MuxType
<1>4. \A p \in m.panes : s.proc[p] = m.proc[p]
  <2> SUFFICES ASSUME NEW p \in m.panes PROVE proc[p] = m.proc[p]
    BY <1>2
  <2>1. p \in used /\ p \in Panes
    BY <1>3
  <2> HIDE DEF used
  <2> QED BY <2>1
<1> HIDE DEF s, proc, more
<1>5. Pending(m, act) => Pending(s, act)
  BY <1>1, <1>2, <1>3 DEF Pending, more
<1>6. \A p : GoodPane(m, p) => GoodPane(s, p)
  BY <1>1, <1>4 DEF GoodPane
<1>7. \A t : GoodTab(m, t) => GoodTab(s, t)
  BY <1>1, <1>6 DEF GoodTab
<1>8. \A w : GoodWindow(m, w) => GoodWindow(s, w)
  BY <1>1, <1>7 DEF GoodWindow
<1> HIDE DEF Pending
<1>9. Watched(s, act, hand, step, empty)
  BY <1>1, <1>4, <1>5, <1>6, <1>8 DEF Watched
<1> QED BY <1>9 DEF s

LEMMA BecomesIsWatched ==
  ASSUME NEW m \in MuxType, Becomes(m), NEW act, NEW hand, NEW step, NEW empty,
         Watched(m, act, hand, step, empty)
  PROVE  Watched(mux', act, hand, step, empty)
<1> DEFINE T == {op'[o].tab : o \in Ops} \cup {moving'.tab}
           P == {moving'.pane}
<1>1. mux' = Settled(m, T, P)
  BY DEF Becomes
<1> HIDE DEF T, P
<1> QED BY <1>1, SettledKeepsWatch

(* A step that queues what will look after its traces. *)
LEMMA PendingIsWatched ==
  ASSUME NEW m \in MuxType, Becomes(m), \A p \in m.panes : m.proc[p] # "dying", Pending(m, Activity')
  PROVE  WInv'
<1>1. Watched(m, Activity', Hand(moving'), main', doomed')
  BY DEF Watched
<1>2. Watched(mux', Activity', Hand(moving'), main', doomed')
  BY <1>1, BecomesIsWatched
<1> QED BY <1>2 DEF WInv

LEMMA AskKeepsGood ==
  ASSUME NEW m \in MuxType, NEW S
  PROVE  /\ Ask(m, S).queued = m.queued
         /\ \A p \in Panes : Ask(m, S).proc[p] = IF p \in S THEN Asked(m.proc[p]) ELSE m.proc[p]
         /\ \A p \in Panes : m.proc[p] # "dying" => Ask(m, S).proc[p] # "dying"
         /\ \A p : GoodPane(m, p) => GoodPane(Ask(m, S), p)
         /\ \A t : GoodTab(m, t) => GoodTab(Ask(m, S), t)
         /\ \A w : GoodWindow(m, w) => GoodWindow(Ask(m, S), w)
<1> DEFINE proc == [p \in Panes |-> IF p \in S THEN Asked(m.proc[p]) ELSE m.proc[p]]
           n == Ask(m, S)
<1>1. n = [m EXCEPT !.proc = proc]
  BY DEF Ask, MuxType
<1>2. m.panes \subseteq Panes /\ m.proc \in [Panes -> ProcState]
  BY DEF MuxType
<1>3. \A p \in Panes : proc[p] = IF p \in S THEN Asked(m.proc[p]) ELSE m.proc[p]
  OBVIOUS
<1> HIDE DEF proc
<1>4. n.queued = m.queued /\ n.proc = proc
  BY <1>1 DEF MuxType
<1>5. n.tabsOf = m.tabsOf /\ n.tabs = m.tabs /\ n.tree = m.tree /\ n.panes = m.panes /\ n.torn = m.torn
  BY AskFields
<1> HIDE DEF n
<1>6. \A x \in ProcState : /\ x # "dying" => Asked(x) # "dying"
                           /\ x \in {"running", "held"} => Asked(x) = x
  BY DEF Asked, ProcState
<1>7. \A p \in Panes : m.proc[p] # "dying" => n.proc[p] # "dying"
  BY <1>2, <1>3, <1>4, <1>6
<1>8. \A p : GoodPane(m, p) => GoodPane(n, p)
  BY <1>2, <1>3, <1>4, <1>5, <1>6 DEF GoodPane
<1>9. \A t : GoodTab(m, t) => GoodTab(n, t)
  BY <1>5, <1>8 DEF GoodTab
<1>10. \A w : GoodWindow(m, w) => GoodWindow(n, w)
  BY <1>5, <1>9 DEF GoodWindow
<1> QED BY <1>3, <1>4, <1>7, <1>8, <1>9, <1>10 DEF n

LEMMA RemovePanesKeepsGood ==
  ASSUME NEW m \in MuxType, NEW S
  PROVE  /\ RemovePanes(m, S).queued = m.queued
         /\ \A p \in m.panes \ S : RemovePanes(m, S).proc[p] = m.proc[p]
         /\ \A p : GoodPane(m, p) /\ p \notin S => GoodPane(RemovePanes(m, S), p)
<1> DEFINE gone == S \cap m.panes
           proc == [p \in Panes |-> IF p \in gone THEN Killed(m.proc[p]) ELSE m.proc[p]]
           n == RemovePanes(m, S)
<1>1. n = [m EXCEPT !.panes = @ \ gone, !.reading = @ \ gone, !.proc = proc]
  BY DEF RemovePanes, MuxType
<1>2. m.panes \subseteq Panes /\ \A p \in Panes : proc[p] = IF p \in gone THEN Killed(m.proc[p]) ELSE m.proc[p]
  BY DEF MuxType
<1> HIDE DEF proc
<1>3. n.queued = m.queued /\ n.proc = proc
  BY <1>1 DEF MuxType
<1>4. n.panes = m.panes \ S
  BY RemovePanesFields
<1> HIDE DEF n
<1>5. \A p \in m.panes \ S : n.proc[p] = m.proc[p]
  BY <1>2, <1>3
<1> QED BY <1>3, <1>4, <1>5 DEF GoodPane, n

(* Closing tabs leaves the others as they are. *)
LEMMA RemoveTabsKeepsGood ==
  ASSUME NEW m, Proper(m), NEW S
  PROVE  /\ RemoveTabs(m, S).queued = m.queued
         /\ \A p \in RemoveTabs(m, S).panes : RemoveTabs(m, S).proc[p] = m.proc[p]
         /\ \A p : GoodPane(m, p) /\ (\A t \in m.tabs \cap S : p \notin m.tree[t]) => GoodPane(RemoveTabs(m, S), p)
         /\ \A t : GoodTab(m, t) /\ t \notin S => GoodTab(RemoveTabs(m, S), t)
         /\ \A w \in Windows : GoodWindow(m, w) /\ m.tabsOf[w] \cap S = {} => GoodWindow(RemoveTabs(m, S), w)
<1> DEFINE gone == S \cap m.tabs
           tabsOf == [w \in Windows |-> m.tabsOf[w] \ gone]
           m1 == [m EXCEPT !.tabs = @ \ gone, !.tabsOf = tabsOf]
           all == UNION {m.tree[t] : t \in gone}
           n == RemoveTabs(m, S)
<1>1. m \in MuxType
  BY DEF Proper
<1>2. n = RemovePanes(m1, all)
  BY <1>1 DEF RemoveTabs, MuxType
<1>3. tabsOf \in [Windows -> SUBSET Tabs]
  BY <1>1 DEF MuxType
<1> HIDE DEF tabsOf
<1>4. m1 \in MuxType /\ m1.panes = m.panes /\ m1.proc = m.proc /\ m1.queued = m.queued
  BY <1>1, <1>3 DEF MuxType
<1> HIDE DEF m1
<1>5. \A p : p \in all <=> \E t \in gone : p \in m.tree[t]
  OBVIOUS
<1> HIDE DEF all
<1>6. /\ n.queued = m.queued /\ n.panes = m.panes \ all
      /\ \A p \in m.panes \ all : n.proc[p] = m.proc[p]
  BY <1>2, <1>4, RemovePanesFields, RemovePanesKeepsGood
<1>7. /\ n.tabs = m.tabs \ S /\ n.tree = m.tree /\ n.torn = m.torn
      /\ \A w \in Windows : n.tabsOf[w] = m.tabsOf[w] \ gone
  BY <1>1, RemoveTabsFields
<1> HIDE DEF n
<1>8. \A p : GoodPane(m, p) /\ (\A t \in m.tabs \cap S : p \notin m.tree[t]) => GoodPane(n, p)
  BY <1>5, <1>6 DEF GoodPane
<1>9. \A t : GoodTab(m, t) /\ t \notin S => GoodTab(n, t)
  <2> SUFFICES ASSUME NEW t, GoodTab(m, t), t \notin S PROVE GoodTab(n, t)
    OBVIOUS
  <2>1. t \in m.tabs /\ (m.tree[t] # {} \/ t \in m.torn) /\ \A p \in m.tree[t] : GoodPane(m, p)
    BY DEF GoodTab
  <2>2. \A p \in m.tree[t] : \A u \in m.tabs \cap S : p \notin m.tree[u]
    BY <2>1 DEF Proper
  <2> QED BY <1>7, <1>8, <2>1, <2>2 DEF GoodTab
<1>10. \A w \in Windows : GoodWindow(m, w) /\ m.tabsOf[w] \cap S = {} => GoodWindow(n, w)
  BY <1>7, <1>9 DEF GoodWindow
<1> QED BY <1>6, <1>8, <1>9, <1>10 DEF n

-----------------------------------------------------------------------------
LEMMA MuxIsProper ==
  ASSUME IInv
  PROVE  /\ mux \in MuxType /\ Proper(mux) /\ mux.tabs \subseteq Tabs /\ mux.windows \subseteq Windows
         /\ mux.panes \subseteq Panes
BY DEF IInv, Sound, Proper, MuxType

LEMMA ThreadsAreWatched ==
  ASSUME IInv, WInv, NEW p \in Panes, NEW b \in BOOLEAN, ProcessEnds(p, b) \/ ReaderEnds(p, b)
  PROVE  WInv'
<1>1. mux \in MuxType /\ \A q \in mux.panes : mux.proc[q] # "dying"
  BY MuxIsProper DEF WInv, Watched
<1>2. CASE ProcessEnds(p, b)
  <2> DEFINE e == End(mux.proc[p], b)
             proc == [mux.proc EXCEPT ![p] = e]
             n == [mux EXCEPT !.proc = proc, !.queued = TRUE]
  <2>1. Becomes(n)
    <3>1. n = [mux EXCEPT !.proc[p] = End(@, b), !.queued = TRUE]
      BY <1>1 DEF MuxType
    <3> QED BY <1>2, <3>1 DEF ProcessEnds
  <2>2. e \in {"closes", "fails", "stays"}
    BY EndState
  <2> HIDE DEF e
  <2>3. proc \in [Panes -> ProcState] /\ \A q \in Panes : proc[q] = IF q = p THEN e ELSE mux.proc[q]
    BY <1>1, <2>2 DEF MuxType, ProcState
  <2> HIDE DEF proc
  <2>4. n \in MuxType /\ n.queued = TRUE /\ n.panes = mux.panes /\ n.proc = proc
    BY <1>1, <2>3 DEF MuxType
  <2> HIDE DEF n
  <2>5. \A q \in n.panes : n.proc[q] # "dying"
    BY <1>1, <2>2, <2>3, <2>4, MuxIsProper
  <2> QED BY <2>1, <2>4, <2>5, PendingIsWatched DEF Pending
<1>3. CASE ReaderEnds(p, b)
  <2> DEFINE n1 == [mux EXCEPT !.reading = @ \ {p}, !.removals = @ \cup {p}]
             n2 == [mux EXCEPT !.reading = @ \ {p}, !.queued = TRUE]
  <2>1. Becomes(n1) \/ Becomes(n2)
    <3>1. \/ Becomes([[mux EXCEPT !.reading = @ \ {p}] EXCEPT !.removals = @ \cup {p}])
          \/ Becomes([[mux EXCEPT !.reading = @ \ {p}] EXCEPT !.queued = TRUE])
      BY <1>3 DEF ReaderEnds
    <3>2. /\ [[mux EXCEPT !.reading = @ \ {p}] EXCEPT !.removals = @ \cup {p}] = n1
          /\ [[mux EXCEPT !.reading = @ \ {p}] EXCEPT !.queued = TRUE] = n2
      BY <1>1 DEF MuxType
    <3> QED BY <3>1, <3>2
  <2>2. n1 \in MuxType /\ p \in n1.removals /\ n1.panes = mux.panes /\ n1.proc = mux.proc
    BY <1>1 DEF MuxType
  <2>3. n2 \in MuxType /\ n2.queued = TRUE /\ n2.panes = mux.panes /\ n2.proc = mux.proc
    BY <1>1 DEF MuxType
  <2> HIDE DEF n1, n2
  <2>4. Pending(n1, Activity') /\ Pending(n2, Activity')
    BY <2>2, <2>3 DEF Pending
  <2> QED BY <1>1, <2>1, <2>2, <2>3, <2>4, PendingIsWatched
<1> QED BY <1>2, <1>3

LEMMA PruneStartsWatched ==
  ASSUME IInv, WInv, RunPrune \/ PruneSkipped
  PROVE  WInv'
<1>1. CASE RunPrune
  <2>1. PICK more \in BOOLEAN : mux' = [mux EXCEPT !.queued = more]
    BY <1>1 DEF RunPrune
  <2>2. mux'.panes = mux.panes /\ mux'.proc = mux.proc
    BY <2>1, MuxIsProper DEF MuxType
  <2>3. Hand(moving') = {} /\ main' = "prune"
    BY <1>1, WhenIdle DEF RunPrune
  <2> QED BY <2>2, <2>3 DEF WInv, Watched
<1>2. CASE PruneSkipped
  <2>1. Activity' /\ mux' = mux
    BY <1>2 DEF PruneSkipped, Activity
  <2> QED BY <2>1 DEF WInv, Watched, Pending
<1> QED BY <1>1, <1>2

(* A step that leaves the mux to a prune. *)
LEMMA PrunedIsWatched ==
  ASSUME IInv, main = "idle", NEW m \in MuxType, Becomes(m), \A p \in m.panes : m.proc[p] # "dying",
         main' = "prune", UNCHANGED moving
  PROVE  WInv'
<1>1. Hand(moving') = {}
  BY WhenIdle
<1>2. Watched(m, Activity', Hand(moving'), main', doomed')
  BY <1>1 DEF Watched
<1>3. Watched(mux', Activity', Hand(moving'), main', doomed')
  BY <1>2, BecomesIsWatched
<1> QED BY <1>3 DEF WInv

LEMMA RunRemovePaneIsWatched ==
  ASSUME IInv, WInv, NEW p \in Panes, RunRemovePane(p)
  PROVE  WInv'
<1> DEFINE m == [mux EXCEPT !.removals = @ \ {p}]
           n == RemovePanes(m, {p})
<1>1. mux \in MuxType /\ \A q \in mux.panes : mux.proc[q] # "dying"
  BY MuxIsProper DEF WInv, Watched
<1>2. m \in MuxType /\ m.panes = mux.panes /\ m.proc = mux.proc
  BY <1>1 DEF MuxType
<1>3. Becomes(n) /\ main' = "prune" /\ main = "idle" /\ UNCHANGED moving
  BY DEF RunRemovePane
<1> HIDE DEF m
<1>4. n \in MuxType /\ n.panes = m.panes \ {p} /\ \A q \in m.panes \ {p} : n.proc[q] = m.proc[q]
  BY <1>2, RemovePanesFields, RemovePanesKeepsGood
<1> HIDE DEF n
<1>5. \A q \in n.panes : n.proc[q] # "dying"
  BY <1>1, <1>2, <1>4
<1> QED BY <1>3, <1>4, <1>5, PrunedIsWatched

LEMMA ClosePaneIsWatched ==
  ASSUME IInv, WInv, NEW p \in Panes, ClosePane(p)
  PROVE  WInv'
<1> DEFINE src == HomeOf(mux, p)
           n == [mux EXCEPT !.tree[src] = @ \ {p}, !.removals = @ \cup {p}]
<1>1. mux \in MuxType /\ \A q \in mux.panes : mux.proc[q] # "dying"
  BY MuxIsProper DEF WInv, Watched
<1>2. Becomes(n)
  BY DEF ClosePane
<1> HIDE DEF src
<1>3. n \in MuxType /\ p \in n.removals /\ n.panes = mux.panes /\ n.proc = mux.proc
  BY <1>1 DEF MuxType
<1> HIDE DEF n
<1> QED BY <1>1, <1>2, <1>3, PendingIsWatched DEF Pending

LEMMA CloseTabIsWatched ==
  ASSUME IInv, WInv, NEW t \in Tabs, CloseTab(t)
  PROVE  WInv'
<1> DEFINE n == RemoveTabs(mux, {t})
<1>1. Proper(mux) /\ mux \in MuxType /\ \A q \in mux.panes : mux.proc[q] # "dying"
  BY MuxIsProper DEF WInv, Watched
<1>2. n \in MuxType /\ n.panes \subseteq mux.panes /\ \A q \in n.panes : n.proc[q] = mux.proc[q]
  BY <1>1, RemoveTabsFields, RemoveTabsKeepsGood
<1>3. Becomes(n) /\ main' = "prune" /\ main = "idle" /\ UNCHANGED moving
  BY DEF CloseTab
<1> HIDE DEF n
<1> QED BY <1>1, <1>2, <1>3, PrunedIsWatched

LEMMA CloseWindowIsWatched ==
  ASSUME IInv, WInv, NEW w \in Windows, CloseWindow(w)
  PROVE  WInv'
<1> DEFINE gone == mux.tabsOf[w]
           m == WithoutWindow(mux, w)
           n == RemoveTabs(m, gone)
<1>1. Proper(mux) /\ mux \in MuxType /\ \A q \in mux.panes : mux.proc[q] # "dying"
  BY MuxIsProper DEF WInv, Watched
<1>2. /\ m \in MuxType /\ m.windows = mux.windows \ {w}
      /\ \A v \in Windows : m.tabsOf[v] = IF v = w THEN {} ELSE mux.tabsOf[v]
      /\ m.tabs = mux.tabs /\ m.tree = mux.tree /\ m.panes = mux.panes /\ m.proc = mux.proc
  BY <1>1 DEF WithoutWindow, MuxType
<1>3. Becomes(n) /\ main' = "prune" /\ main = "idle" /\ UNCHANGED moving
  BY DEF CloseWindow
<1> HIDE DEF m, gone
<1>4. Proper(m)
  BY <1>1, <1>2 DEF Proper
<1>5. n \in MuxType /\ n.panes \subseteq m.panes /\ \A q \in n.panes : n.proc[q] = m.proc[q]
  BY <1>2, <1>4, RemoveTabsFields, RemoveTabsKeepsGood
<1> HIDE DEF n
<1>6. \A q \in n.panes : n.proc[q] # "dying"
  BY <1>1, <1>2, <1>5
<1> QED BY <1>3, <1>5, <1>6, PrunedIsWatched

LEMMA SpawnWindowIsWatched ==
  ASSUME IInv, WInv, NEW o \in Ops, NEW w \in Windows, NEW act \in BOOLEAN, SpawnWindow(o, w, act)
  PROVE  WInv'
<1> DEFINE n == [mux EXCEPT !.windows = @ \cup {w}, !.queued = TRUE]
<1>1. mux \in MuxType /\ \A q \in mux.panes : mux.proc[q] # "dying"
  BY MuxIsProper DEF WInv, Watched
<1>2. Becomes(n)
  BY DEF SpawnWindow
<1>3. n \in MuxType /\ n.queued = TRUE /\ n.panes = mux.panes /\ n.proc = mux.proc
  BY <1>1 DEF MuxType
<1> HIDE DEF n
<1> QED BY <1>1, <1>2, <1>3, PendingIsWatched DEF Pending

(* An operation that begins holds no less than before. *)
LEMMA OperationBeginsWatched ==
  ASSUME IInv, WInv, NEW o \in Ops,
         \/ \E w \in Windows, b \in BOOLEAN : SpawnTab(o, w, b)
         \/ \E p \in Panes : SplitPane(o, p)
  PROVE  WInv'
<1>1. PICK x : op' = [op EXCEPT ![o] = x] /\ op[o] = Idle /\ UNCHANGED <<mux, main, doomed, moving>>
  BY DEF SpawnTab, SplitPane
<1>2. Activity => Activity'
  <2> SUFFICES ASSUME NEW i \in Ops, op[i].act PROVE op'[i].act
    BY DEF Activity
  <2>1. i # o
    BY <1>1 DEF Idle
  <2> QED BY <1>1, <2>1 DEF IInv, Control
<1>3. Pending(mux, Activity) => Pending(mux', Activity')
  BY <1>1, <1>2 DEF Pending
<1> HIDE DEF Pending
<1> QED BY <1>1, <1>3 DEF WInv, Watched, GoodWindow, GoodTab, GoodPane

LEMMA PruneWindowsIsWatched ==
  ASSUME IInv, WInv, NEW skip \in SUBSET Panes, PruneWindows(skip)
  PROVE  WInv'
<1> DEFINE S   == UNION {mux.tree[t] : t \in Shown(mux)}
           m1  == Ask(mux, S)
           cut == Cut(m1, skip)
           tree == [t \in Tabs |-> IF t \in Shown(mux) THEN m1.tree[t] \ cut ELSE m1.tree[t]]
           m2  == [m1 EXCEPT !.tree = tree, !.removals = @ \cup cut]
           m3  == [m2 EXCEPT !.tabsOf = [w \in Windows |-> {t \in m2.tabsOf[w] : t \in m2.tabs /\ ~IsDead(m2, t)}]]
<1>1. /\ Proper(mux) /\ mux \in MuxType /\ mux.tabs \subseteq Tabs /\ mux.windows \subseteq Windows
      /\ mux.panes \subseteq Panes /\ \A q \in mux.panes : mux.proc[q] # "dying"
  BY MuxIsProper DEF WInv, Watched
<1>2. /\ m1 \in MuxType /\ m1.windows = mux.windows /\ m1.tabsOf = mux.tabsOf /\ m1.tabs = mux.tabs
      /\ m1.tree = mux.tree /\ m1.panes = mux.panes /\ m1.removals = mux.removals
      /\ m1.queued = mux.queued
      /\ \A p \in Panes : m1.proc[p] = IF p \in S THEN Asked(mux.proc[p]) ELSE mux.proc[p]
      /\ \A p \in Panes : mux.proc[p] # "dying" => m1.proc[p] # "dying"
      /\ \A p : GoodPane(mux, p) => GoodPane(m1, p)
  <2> HIDE DEF S
  <2>1. m1 \in MuxType /\ m1.windows = mux.windows /\ m1.tabsOf = mux.tabsOf /\ m1.tabs = mux.tabs
        /\ m1.tree = mux.tree /\ m1.panes = mux.panes /\ m1.removals = mux.removals
    BY <1>1, AskFields
  <2>2. /\ m1.queued = mux.queued
        /\ \A p \in Panes : m1.proc[p] = IF p \in S THEN Asked(mux.proc[p]) ELSE mux.proc[p]
        /\ \A p \in Panes : mux.proc[p] # "dying" => m1.proc[p] # "dying"
        /\ \A p : GoodPane(mux, p) => GoodPane(m1, p)
    BY <1>1, AskKeepsGood
  <2> HIDE DEF m1
  <2> QED BY <2>1, <2>2
<1>3. Becomes(m3) /\ doomed' = {w \in m3.windows : m3.tabsOf[w] = {}} /\ main' = "pruneTabs"
      /\ UNCHANGED <<op, moving>>
  <2>1. m2 = [m1 EXCEPT !.tree = [t \in Tabs |-> IF t \in Shown(mux) THEN @[t] \ cut ELSE @[t]],
                        !.removals = @ \cup cut]
    <3> HIDE DEF cut, m1
    <3> QED BY <1>2 DEF MuxType
  <2> QED BY <2>1 DEF PruneWindows
<1>4. \A t \in Shown(mux) : t \in mux.tabs /\ \A p \in mux.tree[t] : p \in S /\ p \in Panes /\ mux.proc[p] # "none"
  BY <1>1 DEF Proper, Shown, MuxType
<1> HIDE DEF m1, S
<1>5. Shown(m1) = Shown(mux)
  BY <1>2 DEF Shown
<1>6. cut \subseteq Panes
  BY <1>1, <1>2 DEF Cut, MuxType, Shown
<1>7. cut = {} => \A t \in Shown(mux) : \A p \in m1.tree[t] : m1.proc[p] # "dead" /\ p \in m1.panes
  <2> SUFFICES ASSUME NEW t \in Shown(mux), NEW p \in m1.tree[t], ~(m1.proc[p] # "dead" /\ p \in m1.panes)
               PROVE  cut # {}
    OBVIOUS
  <2> DEFINE dead(u) == {r \in m1.tree[u] : m1.proc[r] = "dead" \/ r \notin m1.panes}
             part(u) == IF dead(u) \subseteq skip THEN dead(u) ELSE dead(u) \ skip
  <2>1. cut = UNION {part(u) : u \in Shown(m1)}
    BY DEF Cut
  <2>2. p \in dead(t)
    OBVIOUS
  <2> HIDE DEF dead
  <2>3. part(t) # {}
    BY <2>2
  <2> HIDE DEF part, cut
  <2> QED BY <1>5, <2>1, <2>3
<1> HIDE DEF cut
<1>8. /\ tree \in [Tabs -> SUBSET Panes]
      /\ \A t \in Tabs : tree[t] \subseteq m1.tree[t]
  BY <1>2 DEF MuxType
<1> HIDE DEF tree
<1>9. /\ m2 \in MuxType /\ m2.windows = m1.windows /\ m2.tabsOf = m1.tabsOf /\ m2.tabs = m1.tabs
      /\ m2.tree = tree /\ m2.panes = m1.panes /\ m2.proc = m1.proc
      /\ m2.removals = m1.removals \cup cut /\ m2.queued = m1.queued
  BY <1>2, <1>6, <1>8 DEF MuxType
<1> HIDE DEF m2
<1>10. /\ m3 \in MuxType /\ m3.windows = m1.windows /\ m3.tabs = m1.tabs
       /\ \A w \in Windows : m3.tabsOf[w] = {t \in m1.tabsOf[w] : t \in m1.tabs /\ ~IsDead(m2, t)}
       /\ m3.tree = tree /\ m3.panes = m1.panes /\ m3.proc = m1.proc
       /\ m3.removals = m1.removals \cup cut /\ m3.queued = m1.queued
  BY <1>2, <1>9 DEF MuxType
<1> HIDE DEF m3
<1>11. ASSUME NEW q \in m3.panes PROVE m3.proc[q] # "dying"
  <2>1. q \in mux.panes /\ q \in Panes /\ m3.proc = m1.proc
    BY <1>1, <1>2, <1>10
  <2>2. mux.proc[q] # "dying"
    BY <1>1, <2>1
  <2>3. m1.proc[q] # "dying"
    BY ONLY <1>2, <2>1, <2>2
  <2> QED BY <2>1, <2>3
<1>12. CASE Pending(m3, Activity')
  BY <1>3, <1>10, <1>11, <1>12, PendingIsWatched
<1>13. CASE ~Pending(m3, Activity')
  <2>1. cut = {} /\ ~Pending(mux, Activity)
    BY <1>2, <1>3, <1>10, <1>13 DEF Pending, Activity
  <2>2. ASSUME NEW p \in Hand(moving')
        PROVE  GoodPane(m3, p)
    <3>1. p \in Hand(moving)
      BY <1>3
    <3>2. GoodPane(mux, p)
      BY <2>1, <3>1 DEF WInv, Watched
    <3>3. GoodPane(m1, p)
      BY <1>2, <3>2
    <3> QED BY <1>10, <3>3 DEF GoodPane
  <2>3. ASSUME NEW w \in m3.windows \ doomed'
        PROVE  GoodWindow(m3, w)
    <3>1. m3.tabsOf[w] # {} /\ w \in mux.windows /\ w \in Windows
      BY <1>1, <1>2, <1>3, <1>10
    <3>2. ASSUME NEW t \in m3.tabsOf[w]
          PROVE  GoodTab(m3, t)
      <4>1. t \in Shown(mux) /\ t \in m3.tabs /\ t \in Tabs /\ ~IsDead(m2, t)
        BY <1>1, <1>2, <1>10, <3>1 DEF Shown
      <4>2. m3.tree[t] # {}
        BY <1>9, <1>10, <4>1 DEF IsDead
      <4>3. ASSUME NEW p \in m3.tree[t]
            PROVE  GoodPane(m3, p)
        <5>1. p \in m1.tree[t] /\ m1.proc[p] # "dead" /\ p \in m1.panes
          BY <1>7, <1>8, <1>10, <2>1, <4>1
        <5>2. p \in S /\ p \in Panes /\ mux.proc[p] # "none" /\ mux.proc[p] # "dying"
          BY <1>1, <1>2, <1>4, <4>1, <5>1
        <5>3. mux.proc[p] \in ProcState /\ m1.proc[p] = Asked(mux.proc[p])
          BY <1>1, <1>2, <5>2 DEF MuxType
        <5>4. m1.proc[p] \in {"running", "held"}
          BY <5>1, <5>2, <5>3 DEF Asked, ProcState
        <5> QED BY <1>10, <5>1, <5>4 DEF GoodPane
      <4> QED BY <4>1, <4>2, <4>3 DEF GoodTab
    <3> QED BY <3>1, <3>2 DEF GoodWindow
  <2>4. Watched(m3, Activity', Hand(moving'), main', doomed')
    BY <1>11, <2>2, <2>3 DEF Watched
  <2>5. Watched(mux', Activity', Hand(moving'), main', doomed')
    BY <1>3, <1>10, <2>4, BecomesIsWatched
  <2> QED BY <2>5 DEF WInv
<1> QED BY <1>12, <1>13

LEMMA PruneTabsIsWatched ==
  ASSUME IInv, WInv, PruneTabs
  PROVE  WInv'
<1> DEFINE m1 == Ask(mux, Listed(mux))
           dead == {t \in m1.tabs : IsDead(m1, t)}
           m2 == RemoveTabs(m1, dead)
           m3 == [m2 EXCEPT !.windows = @ \ doomed]
           hand == Hand(moving)
<1>1. /\ Sound(mux, hand, "pruneTabs") /\ mux \in MuxType /\ mux.windows \subseteq Windows
      /\ mux.panes \subseteq Panes /\ \A q \in mux.panes : mux.proc[q] # "dying"
  BY MuxIsProper DEF IInv, WInv, Watched, PruneTabs
<1>2. Becomes(m3) /\ doomed' = {} /\ main = "pruneTabs" /\ UNCHANGED <<op, moving>>
  BY DEF PruneTabs
<1>3. Sound(m1, hand, "pruneTabs")
  <2> HIDE DEF hand
  <2> QED BY <1>1, AskIsSound
<1>4. /\ m1 \in MuxType /\ m1.windows = mux.windows /\ m1.panes = mux.panes
      /\ m1.removals = mux.removals /\ m1.queued = mux.queued
      /\ m1.tabsOf = mux.tabsOf /\ m1.tree = mux.tree
      /\ \A p \in Panes : mux.proc[p] # "dying" => m1.proc[p] # "dying"
      /\ \A p : GoodPane(mux, p) => GoodPane(m1, p)
      /\ \A w : GoodWindow(mux, w) => GoodWindow(m1, w)
  BY <1>1, AskFields, AskKeepsGood
<1> HIDE DEF m1, hand
<1>5. Proper(m1) /\ \A p \in hand : \A t \in m1.tabs : p \notin m1.tree[t]
  BY <1>3 DEF Sound, InHand
<1>6. /\ m2 \in MuxType /\ m2.windows = m1.windows /\ m2.panes \subseteq m1.panes
      /\ m2.removals = m1.removals /\ m2.queued = m1.queued
      /\ \A p \in m2.panes : m2.proc[p] = m1.proc[p]
      /\ \A p : GoodPane(m1, p) /\ (\A t \in m1.tabs \cap dead : p \notin m1.tree[t]) => GoodPane(m2, p)
      /\ \A w \in Windows : GoodWindow(m1, w) /\ m1.tabsOf[w] \cap dead = {} => GoodWindow(m2, w)
  <2> HIDE DEF dead
  <2> QED BY <1>4, <1>5, RemoveTabsFields, RemoveTabsKeepsGood
<1>7. \A w \in Windows : GoodWindow(m1, w) => m1.tabsOf[w] \cap dead = {}
  <2>1. \A w \in Windows : \A t \in m1.tabsOf[w] : m1.tree[t] # {}
    BY <1>2, <1>4 DEF IInv, Control
  <2> QED BY <2>1 DEF GoodWindow, GoodTab, GoodPane, IsDead
<1> HIDE DEF m2, dead
<1>8. /\ m3 \in MuxType /\ m3.windows = m2.windows \ doomed /\ m3.tabsOf = m2.tabsOf
      /\ m3.tabs = m2.tabs /\ m3.tree = m2.tree /\ m3.panes = m2.panes /\ m3.proc = m2.proc
      /\ m3.removals = m2.removals /\ m3.queued = m2.queued /\ m3.torn = m2.torn
  BY <1>6 DEF MuxType
<1> HIDE DEF m3
<1>9. \A q \in m3.panes : m3.proc[q] # "dying"
  BY <1>1, <1>4, <1>6, <1>8
<1>10. CASE Pending(mux, Activity)
  <2>1. Pending(m3, Activity')
    BY <1>2, <1>4, <1>6, <1>8, <1>10 DEF Pending, Activity
  <2> QED BY <1>2, <1>8, <1>9, <2>1, PendingIsWatched
<1>11. CASE ~Pending(mux, Activity)
  <2>1. /\ \A p \in hand : GoodPane(mux, p)
        /\ \A w \in mux.windows \ doomed : GoodWindow(mux, w)
    BY <1>2, <1>11 DEF WInv, Watched, hand
  <2>2. \A p \in hand : GoodPane(m3, p)
    BY <1>4, <1>5, <1>6, <1>8, <2>1 DEF GoodPane
  <2>3. \A w \in m3.windows : GoodWindow(m3, w)
    <3>1. \A w \in m3.windows : GoodWindow(m2, w)
      BY <1>1, <1>4, <1>6, <1>7, <1>8, <2>1
    <3> QED BY <1>8, <3>1 DEF GoodWindow, GoodTab, GoodPane
  <2>4. Watched(m3, Activity', hand, main', doomed')
    BY <1>9, <2>2, <2>3 DEF Watched
  <2>5. Watched(mux', Activity', hand, main', doomed')
    BY <1>2, <1>8, <2>4, BecomesIsWatched
  <2> QED BY <1>2, <2>5 DEF WInv, hand
<1> QED BY <1>10, <1>11

(* A pane put into a tab spoils nothing if it is good itself.              *)
LEMMA PutIntoKeepsGood ==
  ASSUME NEW m, Proper(m), NEW t, NEW at, NEW p \in Panes, NEW fits \in BOOLEAN
  PROVE  /\ PutInto(m, t, at, p, fits) \in MuxType
         /\ PutInto(m, t, at, p, fits).windows = m.windows /\ PutInto(m, t, at, p, fits).panes = m.panes
         /\ PutInto(m, t, at, p, fits).proc = m.proc /\ PutInto(m, t, at, p, fits).queued = m.queued
         /\ PutInto(m, t, at, p, fits).removals = m.removals
         /\ GoodPane(m, p) =>
              \A w \in Windows : GoodWindow(m, w) => GoodWindow(PutInto(m, t, at, p, fits), w)
<1> DEFINE n == PutInto(m, t, at, p, fits)
           strays == IF fits /\ Placed(at, t) THEN m.strays ELSE m.strays \cup {p}
           tree == [m.tree EXCEPT ![t] = IF fits /\ at \in m.tree[t] THEN @ \cup {p} ELSE @]
<1>1. m \in MuxType /\ m.tabs \subseteq Tabs
  BY DEF Proper, MuxType
<1>2. /\ tree \in [Tabs -> SUBSET Panes]
      /\ \A u \in Tabs : tree[u] = IF u = t /\ fits /\ at \in m.tree[t]
                                   THEN m.tree[u] \cup {p} ELSE m.tree[u]
  <2>1. m.tree \in [Tabs -> SUBSET Panes]
    BY <1>1 DEF MuxType
  <2> QED BY <2>1
<1>3. /\ n \in MuxType /\ n.windows = m.windows /\ n.tabsOf = m.tabsOf /\ n.tabs = m.tabs
      /\ n.panes = m.panes /\ n.proc = m.proc /\ n.removals = m.removals
      /\ n.queued = m.queued /\ n.tree = tree /\ n.torn = m.torn
  <2>1. strays \subseteq Panes
    BY <1>1 DEF MuxType
  <2>2. n = [m EXCEPT !.tree = tree, !.strays = strays]
    BY <1>1 DEF PutInto, MuxType
  <2> HIDE DEF n, tree, strays
  <2> QED BY <1>1, <1>2, <2>1, <2>2 DEF MuxType
<1> HIDE DEF n, tree
<1>4. ASSUME GoodPane(m, p), NEW u, GoodTab(m, u)
      PROVE  GoodTab(n, u)
  <2>1. u \in Tabs /\ u \in m.tabs /\ (m.tree[u] # {} \/ u \in m.torn) /\ \A q \in m.tree[u] : GoodPane(m, q)
    BY <1>1, <1>4 DEF GoodTab
  <2>2. (n.tree[u] # {} \/ u \in n.torn) /\ \A q \in n.tree[u] : GoodPane(m, q)
    BY <1>2, <1>3, <1>4, <2>1
  <2> QED BY <1>3, <2>1, <2>2 DEF GoodTab, GoodPane
<1>5. GoodPane(m, p) => \A w \in Windows : GoodWindow(m, w) => GoodWindow(n, w)
  BY <1>3, <1>4 DEF GoodWindow
<1> QED BY <1>3, <1>5 DEF n

LEMMA InsertIsWatched ==
  ASSUME IInv, WInv, Insert
  PROVE  WInv'
<1>0. PICK fits \in BOOLEAN : Becomes(PutInto(mux, moving.tab, moving.at, moving.pane, fits))
  BY DEF Insert
<1> DEFINE n == PutInto(mux, moving.tab, moving.at, moving.pane, fits)
<1>1. /\ Becomes(n) /\ main = "insert" /\ main' = "idle" /\ moving' = Nothing
      /\ UNCHANGED <<op, doomed>>
  BY <1>0 DEF Insert
<1>2. doomed = {} /\ Hand(moving) = {moving.pane} /\ moving.pane \in Panes
  BY <1>1 DEF IInv, Control, Sound, InHand, Hand
<1>3. /\ Proper(mux) /\ mux.windows \subseteq Windows /\ \A q \in mux.panes : mux.proc[q] # "dying"
  BY MuxIsProper DEF WInv, Watched
<1>4. /\ n \in MuxType /\ n.windows = mux.windows /\ n.panes = mux.panes /\ n.proc = mux.proc
      /\ n.queued = mux.queued /\ n.removals = mux.removals
      /\ GoodPane(mux, moving.pane) => \A w \in Windows : GoodWindow(mux, w) => GoodWindow(n, w)
  BY <1>2, <1>3, PutIntoKeepsGood
<1> HIDE DEF n
<1>5. Pending(mux, Activity) => Pending(n, Activity')
  BY <1>1, <1>4 DEF Pending, Activity
<1>6. \/ Pending(mux, Activity)
      \/ GoodPane(mux, moving.pane) /\ \A w \in mux.windows : GoodWindow(mux, w)
  BY <1>1, <1>2 DEF WInv, Watched
<1>7. Hand(moving') = {}
  BY <1>1 DEF Hand
<1>8. Watched(n, Activity', Hand(moving'), main', doomed')
  BY <1>3, <1>4, <1>5, <1>6, <1>7 DEF Watched
<1>9. Watched(mux', Activity', Hand(moving'), main', doomed')
  BY <1>1, <1>4, <1>8, BecomesIsWatched
<1> QED BY <1>9 DEF WInv

(* Nothing is promised once the main thread is broken. *)
LEMMA LosesTreeIsWatched ==
  ASSUME NEW m \in MuxType, NEW t, NEW at, NEW p \in Panes, LosesTree(m, t, at, p),
         moving' = Nothing, \A q \in m.panes : m.proc[q] # "dying"
  PROVE  WInv'
<1> DEFINE n == [m EXCEPT !.tree[t] = {}, !.strays = @ \cup m.tree[t] \cup {p}]
           tree == [m.tree EXCEPT ![t] = {}]
           strays == m.strays \cup m.tree[t] \cup {p}
<1>1. Becomes(n) /\ main' = "broken" /\ t \in m.tabs
  BY DEF LosesTree
<1>2. tree \in [Tabs -> SUBSET Panes] /\ strays \subseteq Panes
  BY <1>1 DEF MuxType
<1>3. n = [m EXCEPT !.tree = tree, !.strays = strays]
  BY DEF MuxType
<1> HIDE DEF n, tree, strays
<1>4. n \in MuxType /\ n.panes = m.panes /\ n.proc = m.proc
  BY <1>2, <1>3 DEF MuxType
<1>5. Watched(n, Activity', Hand(moving'), main', doomed')
  BY <1>1, <1>4 DEF Watched, Hand
<1>6. Watched(mux', Activity', Hand(moving'), main', doomed')
  BY <1>1, <1>4, <1>5, BecomesIsWatched
<1> QED BY <1>6 DEF WInv

LEMMA InsertBreaksIsWatched ==
  ASSUME IInv, WInv, InsertBreaks
  PROVE  WInv'
<1>1. Hand(moving) = {moving.pane} /\ moving.pane \in Panes
  BY DEF IInv, Control, Sound, InHand, Hand, InsertBreaks
<1>2. mux \in MuxType /\ \A q \in mux.panes : mux.proc[q] # "dying"
  BY MuxIsProper DEF WInv, Watched
<1> QED BY <1>1, <1>2, LosesTreeIsWatched DEF InsertBreaks

LEMMA WatchedWhenIdle ==
  ASSUME IInv, WInv, main = "idle"
  PROVE  /\ Watched(mux, Activity, {}, "idle", {}) /\ Hand(moving) = {} /\ doomed = {}
         /\ \A q \in mux.panes : mux.proc[q] # "dying"
         /\ Pending(mux, Activity) \/ \A w \in mux.windows : GoodWindow(mux, w)
BY WhenIdle DEF WInv, Watched

(* An operation that returns queues a prune if it held an Activity. *)
LEMMA ReturnsIsWatched ==
  ASSUME IInv, main = "idle", NEW o \in Ops, NEW m \in MuxType, Returns(o, m),
         Watched(m, Activity, {}, "idle", {})
  PROVE  WInv'
<1> DEFINE q == m.queued \/ op[o].act
           n == [m EXCEPT !.queued = q]
<1>1. Becomes(n) /\ UNCHANGED <<main, doomed, moving>> /\ op' = [op EXCEPT ![o] = Idle]
  <2>1. n = [m EXCEPT !.queued = @ \/ op[o].act]
    OBVIOUS
  <2> QED BY <2>1 DEF Returns
<1>2. q \in BOOLEAN
  OBVIOUS
<1>3. q <=> m.queued \/ op[o].act
  OBVIOUS
<1> HIDE DEF q
<1>4. /\ n \in MuxType /\ n.tree = m.tree /\ n.tabs = m.tabs /\ n.tabsOf = m.tabsOf
      /\ n.windows = m.windows /\ n.panes = m.panes /\ n.removals = m.removals
      /\ n.proc = m.proc /\ n.queued = q /\ n.torn = m.torn
  BY <1>2 DEF MuxType
<1> HIDE DEF n
<1>5. Pending(m, Activity) => Pending(n, Activity')
  <2>1. ASSUME NEW i \in Ops, op[i].act, i # o PROVE Activity'
    <3>1. op'[i] = op[i]
      BY <1>1, <2>1 DEF IInv, Control
    <3> QED BY <2>1, <3>1 DEF Activity
  <2>2. Activity => op[o].act \/ Activity'
    BY <2>1 DEF Activity
  <2> QED BY <1>3, <1>4, <2>2 DEF Pending
<1>6. \A w : GoodWindow(m, w) => GoodWindow(n, w)
  BY <1>4 DEF GoodWindow, GoodTab, GoodPane
<1>7. Watched(n, Activity', {}, "idle", {})
  <2> HIDE DEF Pending
  <2> QED BY <1>4, <1>5, <1>6 DEF Watched
<1>8. Hand(moving') = {} /\ main' = "idle" /\ doomed' = {}
  BY <1>1, WhenIdle
<1>9. Watched(mux', Activity', {}, "idle", {})
  BY <1>1, <1>4, <1>7, BecomesIsWatched
<1> QED BY <1>8, <1>9 DEF WInv

LEMMA DomainFailsIsWatched ==
  ASSUME IInv, WInv, NEW o \in Ops, DomainFails(o)
  PROVE  WInv'
BY WatchedWhenIdle, MuxIsProper, ReturnsIsWatched DEF DomainFails

(* A new pane is good and spoils nothing.                                  *)
LEMMA NewPaneKeepsWatch ==
  ASSUME IInv, WInv, main = "idle", NEW p \in Panes, FreshPane(p)
  PROVE  /\ Proper(WithPane(mux, p)) /\ Watched(WithPane(mux, p), Activity, {}, "idle", {})
         /\ WithPane(mux, p).windows = mux.windows /\ WithPane(mux, p).tabsOf = mux.tabsOf
         /\ WithPane(mux, p).tabs = mux.tabs
         /\ GoodPane(WithPane(mux, p), p)
<1> DEFINE n == WithPane(mux, p)
<1>1. mux \in MuxType /\ Proper(mux) /\ mux.panes \subseteq Panes /\ mux.proc[p] = "none"
  BY MuxIsProper DEF FreshPane
<1>2. Sound(n, {p}, "idle")
  BY <1>1, WhenIdle, NewPaneIsSound
<1>3. /\ n.windows = mux.windows /\ n.tabsOf = mux.tabsOf /\ n.tabs = mux.tabs /\ n.tree = mux.tree
      /\ n.panes = mux.panes \cup {p} /\ n.proc = [mux.proc EXCEPT ![p] = "running"]
      /\ n.removals = mux.removals /\ n.queued = mux.queued /\ n.torn = mux.torn
  BY <1>1 DEF MuxType, WithPane
<1> HIDE DEF n
<1>4. \A q \in Panes : n.proc[q] = IF q = p THEN "running" ELSE mux.proc[q]
  <2>1. mux.proc \in [Panes -> ProcState]
    BY <1>1 DEF MuxType
  <2> QED BY <1>3, <2>1
<1>5. GoodPane(n, p)
  BY <1>3, <1>4 DEF GoodPane
<1>6. \A q : GoodPane(mux, q) => GoodPane(n, q)
  BY <1>1, <1>3, <1>4 DEF GoodPane
<1>7. \A w : GoodWindow(mux, w) => GoodWindow(n, w)
  BY <1>3, <1>6 DEF GoodWindow, GoodTab
<1>8. \A q \in n.panes : n.proc[q] # "dying"
  BY <1>1, <1>3, <1>4, WatchedWhenIdle
<1>9. Pending(mux, Activity) => Pending(n, Activity)
  BY <1>3 DEF Pending
<1>10. Watched(n, Activity, {}, "idle", {})
  <2> HIDE DEF Pending
  <2> QED BY <1>3, <1>7, <1>8, <1>9, WatchedWhenIdle DEF Watched
<1> QED BY <1>2, <1>3, <1>5, <1>10 DEF n, Sound

LEMMA SplitArrivesIsWatched ==
  ASSUME IInv, WInv, NEW o \in Ops, NEW p \in Panes, SplitArrives(o, p)
  PROVE  WInv'
<1>0. PICK fits \in BOOLEAN : Returns(o, PutInto(WithPane(mux, p), op[o].tab, op[o].pane, p, fits))
  BY DEF SplitArrives
<1> DEFINE m == WithPane(mux, p)
           n == PutInto(m, op[o].tab, op[o].pane, p, fits)
<1>1. main = "idle" /\ FreshPane(p) /\ Returns(o, n)
  BY <1>0 DEF SplitArrives
<1>2. /\ Proper(m) /\ Watched(m, Activity, {}, "idle", {}) /\ GoodPane(m, p) /\ m.windows = mux.windows
  BY <1>1, NewPaneKeepsWatch
<1> HIDE DEF m
<1>3. /\ n \in MuxType /\ n.windows = m.windows /\ n.panes = m.panes
      /\ n.proc = m.proc /\ n.queued = m.queued /\ n.removals = m.removals
      /\ GoodPane(m, p) => \A w \in Windows : GoodWindow(m, w) => GoodWindow(n, w)
  BY <1>2, PutIntoKeepsGood
<1> HIDE DEF n
<1>4. Pending(m, Activity) => Pending(n, Activity)
  BY <1>3 DEF Pending
<1>5. m.windows \subseteq Windows
  BY <1>2, MuxIsProper
<1>6. Watched(n, Activity, {}, "idle", {})
  <2> HIDE DEF Pending
  <2> QED BY <1>2, <1>3, <1>4, <1>5 DEF Watched
<1> QED BY <1>1, <1>3, <1>6, ReturnsIsWatched

LEMMA SplitBreaksIsWatched ==
  ASSUME IInv, WInv, NEW o \in Ops, NEW p \in Panes, SplitBreaks(o, p)
  PROVE  WInv'
<1> DEFINE m == WithPane(mux, p)
<1>1. /\ main = "idle" /\ FreshPane(p) /\ moving' = Nothing
      /\ LosesTree(m, op[o].tab, op[o].pane, p)
  BY WhenIdle DEF SplitBreaks
<1>2. Proper(m) /\ Watched(m, Activity, {}, "idle", {})
  BY <1>1, NewPaneKeepsWatch
<1> HIDE DEF m
<1>3. m \in MuxType /\ \A q \in m.panes : m.proc[q] # "dying"
  BY <1>2 DEF Proper, Watched
<1> QED BY <1>1, <1>3, LosesTreeIsWatched

LEMMA ReaderFailsIsWatched ==
  ASSUME IInv, WInv, NEW o \in Ops, NEW p \in Panes, ReaderFails(o, p)
  PROVE  WInv'
<1> DEFINE m == WithPane(mux, p)
           n == [m EXCEPT !.reading = @ \ {p}, !.strays = @ \cup {p}]
<1>1. main = "idle" /\ FreshPane(p) /\ Returns(o, n)
  BY DEF ReaderFails
<1>2. Proper(m) /\ Watched(m, Activity, {}, "idle", {})
  BY <1>1, NewPaneKeepsWatch
<1> HIDE DEF m
<1>3. /\ n \in MuxType /\ n.windows = m.windows /\ n.tabsOf = m.tabsOf /\ n.tabs = m.tabs
      /\ n.tree = m.tree /\ n.panes = m.panes /\ n.proc = m.proc /\ n.torn = m.torn
      /\ n.removals = m.removals /\ n.queued = m.queued
  BY <1>2 DEF Proper, MuxType
<1> HIDE DEF n
<1>4. Pending(m, Activity) => Pending(n, Activity)
  BY <1>3 DEF Pending
<1>5. \A w : GoodWindow(m, w) => GoodWindow(n, w)
  BY <1>3 DEF GoodWindow, GoodTab, GoodPane
<1>6. Watched(n, Activity, {}, "idle", {})
  <2> HIDE DEF Pending
  <2> QED BY <1>2, <1>3, <1>4, <1>5 DEF Watched
<1> QED BY <1>1, <1>3, <1>6, ReturnsIsWatched

(* A new tab with a good pane is good and spoils nothing. *)
LEMMA NewTabKeepsGood ==
  ASSUME NEW m \in MuxType, NEW n \in MuxType, NEW t \in Tabs, t \notin m.tabs, NEW p \in Panes,
         GoodPane(m, p), n.tabs = m.tabs \cup {t}, n.tree = [m.tree EXCEPT ![t] = {p}],
         n.panes = m.panes, n.proc = m.proc, n.torn = m.torn,
         \A v \in Windows : n.tabsOf[v] = m.tabsOf[v] \/ n.tabsOf[v] = m.tabsOf[v] \cup {t}
  PROVE  \A v \in Windows : GoodWindow(m, v) => GoodWindow(n, v)
<1>1. m.tabs \subseteq Tabs /\ m.tree \in [Tabs -> SUBSET Panes]
  BY DEF MuxType
<1>2. n.tree[t] = {p} /\ \A u \in m.tabs : n.tree[u] = m.tree[u]
  BY <1>1
<1>3. \A q : GoodPane(m, q) => GoodPane(n, q)
  BY DEF GoodPane
<1>4. GoodTab(n, t) /\ \A u : GoodTab(m, u) => GoodTab(n, u)
  BY <1>2, <1>3 DEF GoodTab
<1> QED BY <1>4 DEF GoodWindow

LEMMA SpawnArrivesIsWatched ==
  ASSUME IInv, WInv, NEW o \in Ops, NEW t \in Tabs, NEW p \in Panes, SpawnArrives(o, t, p)
  PROVE  WInv'
<1> DEFINE w == op[o].win
           m1 == WithPane(mux, p)
           m == WithTab(m1, t, p)
           n1 == [m EXCEPT !.tabsOf[w] = @ \cup {t}]
           n2 == [m EXCEPT !.strays = @ \cup {p}]
           n == IF w \in mux.windows THEN n1 ELSE n2
<1>1. main = "idle" /\ FreshPane(p) /\ t \notin mux.tabs /\ mux.windows \subseteq Windows
  BY MuxIsProper DEF SpawnArrives, FreshTab
<1>2. /\ Proper(m1) /\ Watched(m1, Activity, {}, "idle", {}) /\ GoodPane(m1, p)
      /\ m1.windows = mux.windows /\ m1.tabs = mux.tabs
  BY <1>1, NewPaneKeepsWatch
<1>3. Returns(o, n)
  BY DEF SpawnArrives
<1> HIDE DEF w, m1
<1>4. m1 \in MuxType
  BY <1>2 DEF Proper
<1>5. /\ m \in MuxType /\ m.windows = m1.windows /\ m.tabsOf = m1.tabsOf /\ m.tabs = m1.tabs \cup {t}
      /\ m.tree = [m1.tree EXCEPT ![t] = {p}] /\ m.panes = m1.panes /\ m.proc = m1.proc
      /\ m.removals = m1.removals /\ m.queued = m1.queued /\ m.torn = m1.torn
  BY <1>4 DEF WithTab, MuxType
<1> HIDE DEF m
<1>6. /\ n \in MuxType /\ n.windows = m.windows /\ n.tabs = m.tabs /\ n.tree = m.tree
      /\ n.panes = m.panes /\ n.proc = m.proc /\ n.removals = m.removals /\ n.queued = m.queued
      /\ n.torn = m.torn
      /\ \A v \in Windows : n.tabsOf[v] = m.tabsOf[v] \/ n.tabsOf[v] = m.tabsOf[v] \cup {t}
  <2>1. CASE w \in mux.windows
    <3>1. n = n1
      BY <2>1
    <3>2. m.tabsOf \in [Windows -> SUBSET Tabs]
      BY <1>5 DEF MuxType
    <3>3. [m.tabsOf EXCEPT ![w] = @ \cup {t}] \in [Windows -> SUBSET Tabs]
      BY <3>2
    <3> HIDE DEF n
    <3> QED BY <1>5, <3>1, <3>2, <3>3 DEF MuxType
  <2>2. CASE w \notin mux.windows
    <3>1. n = n2
      BY <2>2
    <3> HIDE DEF n
    <3> QED BY <1>5, <3>1 DEF MuxType
  <2> QED BY <2>1, <2>2
<1> HIDE DEF n
<1>7. \A v \in Windows : GoodWindow(m1, v) => GoodWindow(n, v)
  BY <1>1, <1>2, <1>4, <1>5, <1>6, NewTabKeepsGood
<1>8. Pending(m1, Activity) => Pending(n, Activity)
  BY <1>5, <1>6 DEF Pending
<1>9. Watched(n, Activity, {}, "idle", {})
  <2> HIDE DEF Pending
  <2> QED BY <1>1, <1>2, <1>5, <1>6, <1>7, <1>8 DEF Watched
<1> QED BY <1>1, <1>3, <1>6, <1>9, ReturnsIsWatched

(* A pane taken out of a tab spoils nothing but a tab it leaves empty.     *)
LEMMA TakeOutKeepsGood ==
  ASSUME IInv, main = "idle", NEW p \in Panes, Resolves(mux, p), NEW n,
         n = [mux EXCEPT !.tree[HomeOf(mux, p)] = @ \ {p}]
  PROVE  /\ Proper(n) /\ \A t \in n.tabs : p \notin n.tree[t]
         /\ HomeOf(mux, p) \in Tabs /\ n.tree[HomeOf(mux, p)] = mux.tree[HomeOf(mux, p)] \ {p}
         /\ n.windows = mux.windows /\ n.tabsOf = mux.tabsOf /\ n.tabs = mux.tabs
         /\ n.panes = mux.panes /\ n.proc = mux.proc /\ n.removals = mux.removals
         /\ n.queued = mux.queued /\ n.torn = mux.torn
         /\ (\A w \in mux.windows : GoodWindow(mux, w)) => GoodPane(n, p)
         /\ n.tree[HomeOf(mux, p)] # {} => \A w : GoodWindow(mux, w) => GoodWindow(n, w)
<1> DEFINE src == HomeOf(mux, p)
<1>1. Sound(mux, {}, "idle") /\ mux \in MuxType /\ mux.tabs \subseteq Tabs
  BY WhenIdle
<1>2. /\ src \in mux.tabs /\ \A t \in mux.tabs : p \in mux.tree[t] => t = src
  BY <1>1, HomeIsHome DEF Sound
<1>3. Sound(n, {p}, "idle")
  BY <1>1, TakeOutIsSound
<1>4. PICK w \in mux.windows, t \in mux.tabs : t \in mux.tabsOf[w] /\ p \in mux.tree[t]
  BY <1>1, ResolvesDef
<1> HIDE DEF src
<1>5. n = [mux EXCEPT !.tree[src] = @ \ {p}]
  BY DEF src
<1>6. /\ n.windows = mux.windows /\ n.tabsOf = mux.tabsOf /\ n.tabs = mux.tabs
      /\ n.panes = mux.panes /\ n.proc = mux.proc /\ n.removals = mux.removals
      /\ n.queued = mux.queued /\ n.tree = [mux.tree EXCEPT ![src] = @ \ {p}] /\ n.torn = mux.torn
  BY <1>1, <1>5 DEF MuxType
<1>7. \A u \in Tabs : n.tree[u] = mux.tree[u] \ (IF u = src THEN {p} ELSE {})
  <2>1. mux.tree \in [Tabs -> SUBSET Panes]
    BY <1>1 DEF MuxType
  <2> QED BY <1>6, <2>1
<1>8. ASSUME \A v \in mux.windows : GoodWindow(mux, v)
      PROVE  GoodPane(n, p)
  BY <1>4, <1>6, <1>8 DEF GoodWindow, GoodTab, GoodPane
<1>9. ASSUME n.tree[src] # {}, NEW v, GoodWindow(mux, v)
      PROVE  GoodWindow(n, v)
  <2>1. \A u : GoodTab(mux, u) => GoodTab(n, u)
    BY <1>1, <1>6, <1>7, <1>9 DEF GoodTab, GoodPane
  <2> QED BY <1>6, <1>9, <2>1 DEF GoodWindow
<1>10. n.tree[src] = mux.tree[src] \ {p} /\ src \in Tabs
  BY <1>1, <1>2, <1>7
<1> QED BY <1>3, <1>6, <1>8, <1>9, <1>10 DEF Sound, InHand, src

LEMMA MoveToSplitIsWatched ==
  ASSUME IInv, WInv, NEW p \in Panes, NEW at \in Panes, MoveToSplit(p, at)
  PROVE  WInv'
<1> DEFINE src == HomeOf(mux, p)
           m1 == [mux EXCEPT !.tree[src] = @ \ {p}]
           m == Ask(m1, mux.tree[src] \ {p})
           n == IF IsDead(m, src) THEN RemoveTabs(m, {src}) ELSE m
<1>1. /\ main = "idle" /\ Resolves(mux, p) /\ Becomes(n) /\ UNCHANGED <<op, doomed>>
      /\ main' = IF IsDead(m, src) THEN "prune" ELSE "insert"
      /\ moving'.pane = p /\ Hand(moving') \subseteq {p}
  BY DEF MoveToSplit, Hand
<1>2. /\ doomed = {} /\ mux.panes \subseteq Panes /\ \A q \in mux.panes : mux.proc[q] # "dying"
      /\ Pending(mux, Activity) \/ \A w \in mux.windows : GoodWindow(mux, w)
      /\ mux.windows \subseteq Windows
  BY <1>1, MuxIsProper, WatchedWhenIdle
<1>3. /\ Proper(m1) /\ \A t \in m1.tabs : p \notin m1.tree[t]
      /\ src \in Tabs /\ m1.tree[src] = mux.tree[src] \ {p}
      /\ m1.windows = mux.windows /\ m1.tabsOf = mux.tabsOf /\ m1.tabs = mux.tabs
      /\ m1.panes = mux.panes /\ m1.proc = mux.proc /\ m1.removals = mux.removals
      /\ m1.queued = mux.queued
      /\ (\A w \in mux.windows : GoodWindow(mux, w)) => GoodPane(m1, p)
      /\ m1.tree[src] # {} => \A w : GoodWindow(mux, w) => GoodWindow(m1, w)
  <2> HIDE DEF m
  <2> QED BY <1>1, TakeOutKeepsGood
<1>4. m1 \in MuxType /\ Sound(m1, {p}, "idle")
  BY <1>1, <1>3, WhenIdle, TakeOutIsSound DEF Proper
<1> HIDE DEF m1, src
<1>5. Sound(m, {p}, "idle")
  BY <1>4, AskIsSound
<1>6. /\ m \in MuxType /\ m.windows = m1.windows /\ m.tabs = m1.tabs /\ m.tree = m1.tree
      /\ m.panes = m1.panes /\ m.removals = m1.removals /\ m.queued = m1.queued
      /\ \A q \in Panes : m1.proc[q] # "dying" => m.proc[q] # "dying"
      /\ \A q : GoodPane(m1, q) => GoodPane(m, q)
      /\ \A w : GoodWindow(m1, w) => GoodWindow(m, w)
  BY <1>4, AskFields, AskKeepsGood
<1> HIDE DEF m
<1>7. Proper(m)
  BY <1>5 DEF Sound
<1>8. /\ n \in MuxType /\ n.panes \subseteq m.panes /\ n.removals = m.removals /\ n.queued = m.queued
      /\ \A q \in n.panes : n.proc[q] = m.proc[q]
      /\ GoodPane(m, p) => GoodPane(n, p)
  <2>1. CASE IsDead(m, src)
    BY <1>3, <1>6, <1>7, <2>1, RemoveTabsFields, RemoveTabsKeepsGood
  <2>2. CASE ~IsDead(m, src)
    BY <1>6, <2>2
  <2> QED BY <2>1, <2>2
<1>9. ~IsDead(m, src) => n = m /\ m1.tree[src] # {} /\ main' = "insert"
  BY <1>1, <1>6 DEF IsDead
<1>10. IsDead(m, src) => main' = "prune"
  BY <1>1
<1> HIDE DEF n
<1>11. \A q \in n.panes : n.proc[q] # "dying"
  BY <1>2, <1>3, <1>6, <1>8
<1>12. CASE Pending(mux, Activity)
  <2>1. Pending(n, Activity')
    BY <1>1, <1>3, <1>6, <1>8, <1>12 DEF Pending, Activity
  <2> QED BY <1>1, <1>8, <1>11, <2>1, PendingIsWatched
<1>13. CASE ~Pending(mux, Activity)
  <2>1. \A w \in mux.windows : GoodWindow(mux, w)
    BY <1>2, <1>13
  <2>2. \A q \in Hand(moving') : GoodPane(n, q)
    BY <1>1, <1>3, <1>6, <1>8, <2>1
  <2>3. main' = "prune" \/ \A w \in n.windows \ doomed' : GoodWindow(n, w)
    BY <1>3, <1>6, <1>9, <1>10, <2>1
  <2>4. Watched(n, Activity', Hand(moving'), main', doomed')
    BY <1>11, <2>2, <2>3 DEF Watched
  <2>5. Watched(mux', Activity', Hand(moving'), main', doomed')
    BY <1>1, <1>8, <2>4, BecomesIsWatched
  <2> QED BY <2>5 DEF WInv
<1> QED BY <1>12, <1>13

LEMMA MoveToTabIsWatched ==
  ASSUME IInv, WInv, NEW p \in Panes, NEW w \in Windows, NEW t \in Tabs, MoveToTab(p, w, t)
  PROVE  WInv'
<1> DEFINE src == HomeOf(mux, p)
           new == w \notin mux.windows
           m0 == [mux EXCEPT !.tree[src] = @ \ {p}]
           m1 == WithTab(m0, t, p)
           q  == m1.queued \/ new
           m2 == [m1 EXCEPT !.windows = @ \cup {w}, !.tabsOf[w] = @ \cup {t}, !.queued = q]
           m3 == Ask(m2, m2.tree[src])
           n == IF IsDead(m3, src) THEN RemoveTabs(m3, {src}) ELSE m3
<1>1. main = "idle" /\ Resolves(mux, p) /\ t \notin mux.tabs
  BY DEF MoveToTab, FreshTab
<1>2. /\ Becomes(n) /\ main' = (IF IsDead(m3, src) /\ ~new THEN "prune" ELSE "idle")
      /\ UNCHANGED <<op, doomed, moving>>
  <2>1. m2 = [m1 EXCEPT !.windows = @ \cup {w}, !.tabsOf[w] = @ \cup {t}, !.queued = @ \/ new]
    OBVIOUS
  <2> QED BY <2>1 DEF MoveToTab
<1>3. /\ doomed = {} /\ mux.panes \subseteq Panes /\ \A r \in mux.panes : mux.proc[r] # "dying"
      /\ Pending(mux, Activity) \/ \A v \in mux.windows : GoodWindow(mux, v)
      /\ mux.windows \subseteq Windows /\ Hand(moving) = {}
  BY <1>1, MuxIsProper, WatchedWhenIdle
<1>4. /\ Proper(m0) /\ src \in Tabs
      /\ m0.windows = mux.windows /\ m0.tabsOf = mux.tabsOf /\ m0.tabs = mux.tabs
      /\ m0.panes = mux.panes /\ m0.proc = mux.proc /\ m0.removals = mux.removals
      /\ m0.queued = mux.queued /\ m0.torn = mux.torn
      /\ (\A v \in mux.windows : GoodWindow(mux, v)) => GoodPane(m0, p)
      /\ m0.tree[src] # {} => \A v : GoodWindow(mux, v) => GoodWindow(m0, v)
  <2> HIDE DEF m3
  <2> QED BY <1>1, TakeOutKeepsGood
<1>5. m0 \in MuxType /\ Sound(m0, {p}, "idle") /\ src \in mux.tabs
  BY <1>1, <1>4, WhenIdle, TakeOutIsSound, HomeIsHome DEF Proper, Sound
<1> HIDE DEF m0, src
<1>6. /\ m1 \in MuxType /\ m1.windows = m0.windows /\ m1.tabsOf = m0.tabsOf /\ m1.tabs = m0.tabs \cup {t}
      /\ m1.tree = [m0.tree EXCEPT ![t] = {p}] /\ m1.panes = m0.panes /\ m1.proc = m0.proc
      /\ m1.removals = m0.removals /\ m1.strays = m0.strays /\ m1.queued = m0.queued
      /\ m1.torn = m0.torn
  BY <1>5 DEF WithTab, MuxType
<1> HIDE DEF m1
<1>7. q \in BOOLEAN /\ (m0.queued => q) /\ (new => q)
  BY <1>6
<1> HIDE DEF q
<1>8. /\ m2 \in MuxType /\ m2.windows = m0.windows \cup {w} /\ m2.queued = q
      /\ m2.tabsOf = [m0.tabsOf EXCEPT ![w] = @ \cup {t}] /\ m2.tabs = m0.tabs \cup {t}
      /\ m2.tree = [m0.tree EXCEPT ![t] = {p}] /\ m2.panes = m0.panes /\ m2.proc = m0.proc
      /\ m2.removals = m0.removals /\ m2.strays = m0.strays /\ m2.torn = m0.torn
  BY <1>6, <1>7 DEF MuxType
<1> HIDE DEF m2
<1>9. Sound(m2, {}, "idle")
  BY <1>1, <1>4, <1>5, <1>8, NewTabIsSound
<1>10. Sound(m3, {}, "idle")
  BY <1>9, AskIsSound
<1>11. /\ m3 \in MuxType /\ m3.windows = m2.windows /\ m3.tabs = m2.tabs /\ m3.tree = m2.tree
       /\ m3.panes = m2.panes /\ m3.removals = m2.removals /\ m3.queued = m2.queued
       /\ \A r \in Panes : m2.proc[r] # "dying" => m3.proc[r] # "dying"
       /\ \A v : GoodWindow(m2, v) => GoodWindow(m3, v)
  BY <1>8, AskFields, AskKeepsGood
<1> HIDE DEF m3
<1>12. /\ n \in MuxType /\ n.panes \subseteq m3.panes /\ n.removals = m3.removals /\ n.queued = m3.queued
       /\ \A r \in n.panes : n.proc[r] = m3.proc[r]
  <2>1. Proper(m3)
    BY <1>10 DEF Sound
  <2>2. CASE IsDead(m3, src)
    BY <2>1, <2>2, <1>11, RemoveTabsFields, RemoveTabsKeepsGood
  <2>3. CASE ~IsDead(m3, src)
    BY <1>11, <2>3
  <2> QED BY <2>2, <2>3
<1>13. ~IsDead(m3, src) => n = m3 /\ m0.tree[src] # {}
  <2>1. m0.tree \in [Tabs -> SUBSET Panes] /\ src # t
    BY <1>1, <1>5 DEF MuxType
  <2>2. m3.tree[src] = m0.tree[src]
    BY <1>4, <1>8, <1>11, <2>1
  <2> QED BY <2>2 DEF IsDead
<1> HIDE DEF n
<1>14. \A r \in n.panes : n.proc[r] # "dying"
  BY <1>3, <1>4, <1>8, <1>11, <1>12
<1>15. CASE new \/ Pending(mux, Activity)
  <2>1. Pending(n, Activity')
    BY <1>2, <1>4, <1>7, <1>8, <1>11, <1>12, <1>15 DEF Pending, Activity
  <2> QED BY <1>2, <1>12, <1>14, <2>1, PendingIsWatched
<1>16. CASE ~new /\ ~Pending(mux, Activity) /\ IsDead(m3, src)
  BY <1>1, <1>2, <1>12, <1>14, <1>16, PrunedIsWatched
<1>17. CASE ~new /\ ~Pending(mux, Activity) /\ ~IsDead(m3, src)
  <2>1. GoodPane(m0, p) /\ \A v \in mux.windows : GoodWindow(m0, v)
    BY <1>3, <1>4, <1>13, <1>17
  <2>2. \A v \in Windows : m2.tabsOf[v] = m0.tabsOf[v] \/ m2.tabsOf[v] = m0.tabsOf[v] \cup {t}
    <3>1. m0.tabsOf \in [Windows -> SUBSET Tabs]
      BY <1>5 DEF MuxType
    <3> QED BY <1>8, <3>1
  <2>3. \A v \in Windows : GoodWindow(m0, v) => GoodWindow(m2, v)
    BY <1>1, <1>4, <1>5, <1>8, <2>1, <2>2, NewTabKeepsGood
  <2>4. \A v \in n.windows : GoodWindow(n, v)
    BY <1>3, <1>4, <1>8, <1>11, <1>13, <1>17, <2>1, <2>3
  <2>5. Hand(moving') = {}
    BY <1>2, <1>3
  <2>6. Watched(n, Activity', Hand(moving'), main', doomed')
    BY <1>14, <2>4, <2>5 DEF Watched
  <2>7. Watched(mux', Activity', Hand(moving'), main', doomed')
    BY <1>2, <1>12, <2>6, BecomesIsWatched
  <2> QED BY <2>7 DEF WInv
<1> QED BY <1>15, <1>16, <1>17

(* A move that fails spoils nothing but the tab it leaves empty, which is  *)
(* known to be torn; with a new window a prune is queued.                  *)
LEMMA MoveToTabFailsIsWatched ==
  ASSUME IInv, WInv, NEW p \in Panes, NEW w \in Windows, MoveToTabFails(p, w)
  PROVE  WInv'
<1> DEFINE src == HomeOf(mux, p)
           tree == [mux.tree EXCEPT ![src] = @ \ {p}]
           torn == IF mux.tree[src] = {p} THEN mux.torn \cup {src} ELSE mux.torn
           q == mux.queued \/ w \notin mux.windows
           n == [mux EXCEPT !.tree = tree, !.strays = @ \cup {p}, !.torn = torn,
                            !.windows = @ \cup {w}, !.queued = q]
<1>1. main = "idle" /\ Resolves(mux, p) /\ mux \in MuxType /\ mux.tabs \subseteq Tabs
  BY MuxIsProper DEF MoveToTabFails
<1>2. Becomes(n) /\ UNCHANGED <<op, main, doomed, moving>>
  <2>1. n = [mux EXCEPT !.tree[src] = @ \ {p}, !.strays = @ \cup {p},
                        !.torn = IF mux.tree[src] = {p} THEN @ \cup {src} ELSE @,
                        !.windows = @ \cup {w}, !.queued = @ \/ w \notin mux.windows]
    BY <1>1 DEF MuxType
  <2> QED BY <2>1 DEF MoveToTabFails
<1>3. src \in Tabs
  BY <1>1, MuxIsProper, HomeIsHome
<1> HIDE DEF src
<1>4. torn \subseteq Tabs /\ mux.torn \subseteq torn /\ (mux.tree[src] = {p} => src \in torn)
  BY <1>1, <1>3 DEF MuxType
<1>5. tree \in [Tabs -> SUBSET Panes] /\ \A u \in Tabs : tree[u] = mux.tree[u] \ (IF u = src THEN {p} ELSE {})
  <2>1. mux.tree \in [Tabs -> SUBSET Panes]
    BY <1>1 DEF MuxType
  <2> QED BY <2>1
<1>6. q \in BOOLEAN /\ (mux.queued => q) /\ (w \notin mux.windows => q)
  BY <1>1 DEF MuxType
<1> HIDE DEF tree, torn, q
<1>7. /\ n \in MuxType /\ n.windows = mux.windows \cup {w} /\ n.tabsOf = mux.tabsOf
      /\ n.tabs = mux.tabs /\ n.tree = tree /\ n.panes = mux.panes /\ n.proc = mux.proc
      /\ n.removals = mux.removals /\ n.queued = q /\ n.torn = torn
  BY <1>1, <1>4, <1>5, <1>6 DEF MuxType
<1> HIDE DEF n
<1>8. /\ doomed = {} /\ Hand(moving) = {} /\ \A r \in mux.panes : mux.proc[r] # "dying"
      /\ Pending(mux, Activity) \/ \A v \in mux.windows : GoodWindow(mux, v)
  BY <1>1, WatchedWhenIdle
<1>9. CASE Pending(mux, Activity) \/ w \notin mux.windows
  <2>1. Pending(n, Activity')
    BY <1>2, <1>6, <1>7, <1>9 DEF Pending, Activity
  <2> QED BY <1>2, <1>7, <1>8, <2>1, PendingIsWatched
<1>10. CASE ~Pending(mux, Activity) /\ w \in mux.windows
  <2>1. ASSUME NEW u, GoodTab(mux, u)
        PROVE  GoodTab(n, u)
    <3>1. /\ u \in mux.tabs /\ u \in Tabs /\ (mux.tree[u] # {} \/ u \in mux.torn)
          /\ \A r \in mux.tree[u] : GoodPane(mux, r)
      BY <1>1, <2>1 DEF GoodTab
    <3>2. n.tree[u] # {} \/ u \in n.torn
      BY <1>4, <1>5, <1>7, <3>1
    <3>3. \A r \in n.tree[u] : GoodPane(n, r)
      BY <1>5, <1>7, <3>1 DEF GoodPane
    <3> QED BY <1>7, <3>1, <3>2, <3>3 DEF GoodTab
  <2>2. \A v \in n.windows : GoodWindow(n, v)
    BY <1>7, <1>8, <1>10, <2>1 DEF GoodWindow
  <2>3. Watched(n, Activity', Hand(moving'), main', doomed')
    BY <1>2, <1>7, <1>8, <2>2 DEF Watched
  <2>4. Watched(mux', Activity', Hand(moving'), main', doomed')
    BY <1>2, <1>7, <2>3, BecomesIsWatched
  <2> QED BY <2>4 DEF WInv
<1> QED BY <1>9, <1>10

LEMMA InitIsWatched ==
  ASSUME Init
  PROVE  WInv
<1>1. PICK w \in Windows, t \in Tabs, p \in Panes :
        mux = [windows  |-> {w},
               tabsOf   |-> [v \in Windows |-> IF v = w THEN {t} ELSE {}],
               tabs     |-> {t},
               tree     |-> [u \in Tabs |-> IF u = t THEN {p} ELSE {}],
               panes    |-> {p},
               proc     |-> [q \in Panes |-> IF q = p THEN "running" ELSE "none"],
               reading  |-> {p},
               queued   |-> FALSE,
               removals |-> {},
               strays   |-> {},
               torn     |-> {}]
  BY DEF Init
<1>2. moving = Nothing /\ doomed = {}
  BY DEF Init
<1>3. /\ mux.windows = {w} /\ mux.tabs = {t} /\ mux.panes = {p} /\ mux.tabsOf[w] = {t}
      /\ mux.tree[t] = {p} /\ mux.proc[p] = "running"
  BY <1>1
<1>4. GoodWindow(mux, w)
  BY <1>3 DEF GoodWindow, GoodTab, GoodPane
<1>5. Hand(moving) = {}
  BY <1>2 DEF Hand
<1> QED BY <1>2, <1>3, <1>4, <1>5 DEF WInv, Watched

(* The watch is kept by every step from a sound state.                     *)
THEOREM MuxStaysWatched == Spec => []WInv
<1>1. Init => WInv
  BY InitIsWatched
<1>2. IInv /\ WInv /\ [Next]_vars => WInv'
  <2> SUFFICES ASSUME IInv, WInv, [Next]_vars
               PROVE  WInv'
    OBVIOUS
  <2>1. CASE MainStep
    BY <2>1, PruneStartsWatched, PruneWindowsIsWatched, PruneTabsIsWatched, InsertIsWatched,
       InsertBreaksIsWatched, RunRemovePaneIsWatched DEF MainStep
  <2>2. CASE \E p \in Panes : \E b \in BOOLEAN : ProcessEnds(p, b) \/ ReaderEnds(p, b)
    BY <2>2, ThreadsAreWatched
  <2>3. CASE \E p \in Panes : ClosePane(p) \/ \E q \in Panes : MoveToSplit(p, q)
    BY <2>3, ClosePaneIsWatched, MoveToSplitIsWatched
  <2>4. CASE \E p \in Panes, w \in Windows : MoveToTabFails(p, w) \/ \E t \in Tabs : MoveToTab(p, w, t)
    BY <2>4, MoveToTabIsWatched, MoveToTabFailsIsWatched
  <2>5. CASE \E t \in Tabs : CloseTab(t)
    BY <2>5, CloseTabIsWatched
  <2>6. CASE \E w \in Windows : CloseWindow(w)
    BY <2>6, CloseWindowIsWatched
  <2>7. ASSUME NEW o \in Ops,
               \/ DomainAnswers(o)
               \/ \E w \in Windows, b \in BOOLEAN : SpawnTab(o, w, b) \/ SpawnWindow(o, w, b)
               \/ \E p \in Panes : SplitPane(o, p)
        PROVE  WInv'
    <3>1. CASE DomainAnswers(o)
      BY <3>1, DomainFailsIsWatched, SplitArrivesIsWatched, SplitBreaksIsWatched, ReaderFailsIsWatched,
         SpawnArrivesIsWatched DEF DomainAnswers
    <3>2. CASE \E w \in Windows, b \in BOOLEAN : SpawnTab(o, w, b) \/ SpawnWindow(o, w, b)
      BY <3>2, OperationBeginsWatched, SpawnWindowIsWatched
    <3>3. CASE \E p \in Panes : SplitPane(o, p)
      BY <3>3, OperationBeginsWatched
    <3> QED BY <2>7, <3>1, <3>2, <3>3
  <2>8. CASE UNCHANGED vars
    BY <2>8 DEF vars, WInv, Watched, Pending, Activity, GoodWindow, GoodTab, GoodPane, Hand
  <2> QED BY <2>1, <2>2, <2>3, <2>4, <2>5, <2>6, <2>7, <2>8 DEF Next
<1> QED BY <1>1, <1>2, MuxInvariant, PTL DEF Spec

(* A quiet mux is clean: nothing that a prune should have taken is left    *)
(* but a tab that a failed move emptied.                                   *)
THEOREM MuxStrandsNothing == Spec => []NothingStranded
<1>1. IInv /\ WInv => NothingStranded
  <2> SUFFICES ASSUME IInv, WInv, Quiet, NEW w \in mux.windows
               PROVE  GoodWindow(mux, w)
    BY DEF NothingStranded, GoodWindow, GoodTab, GoodPane
  <2>1. ~Pending(mux, Activity)
    BY DEF Quiet, Pending, Activity, Idle
  <2> QED BY <2>1, WatchedWhenIdle DEF Quiet
<1> QED BY <1>1, MuxInvariant, MuxStaysWatched, PTL
===========================================================================
