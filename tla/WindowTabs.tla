----------------------------- MODULE WindowTabs -----------------------------
(***************************************************************************)
(* Window of mux/src/window.rs: the tabs of one window, which of them is   *)
(* selected, and which was selected before.  The selection is a position,  *)
(* the memory of the earlier one is a tab id; every removal has to carry   *)
(* the first over to the shorter list.  Positions count from 1 here.       *)
(*                                                                         *)
(* Operations hold the window lock.  The loops of prune_dead_tabs remove   *)
(* one tab per step; nothing else happens until they are through.  The     *)
(* option switch_to_last_active_tab_when_closing_tab is read anew by each  *)
(* removal, since the configuration may be reloaded at any time.           *)
(***************************************************************************)
EXTENDS Naturals, SequencesExt

CONSTANTS Tabs, None

ASSUME TabsAssumption == None \notin Tabs

VARIABLES
  win,      \* Window: tabs, active and last_active
  dead,     \* tabs that prune_dead_tabs found dead and has yet to remove
  unlisted  \* tabs it found missing from the mux and has yet to remove

vars == <<win, dead, unlisted>>

(* The selection stays on a tab as long as there is one. *)
TypeOK ==
  /\ win \in [tabs : Seq(Tabs), active : Nat, last : Tabs \cup {None}]
  /\ win.active \in 1..(IF win.tabs = <<>> THEN 1 ELSE Len(win.tabs))
  /\ dead \subseteq Tabs /\ unlisted \subseteq Tabs

Init ==
  /\ win = [tabs |-> <<>>, active |-> 1, last |-> None]
  /\ dead = {} /\ unlisted = {}

-----------------------------------------------------------------------------
(* idx_by_id, for a tab of w *)
PosOf(tabs, t) == CHOOSE i \in DOMAIN tabs : tabs[i] = t

(* get_active *)
Active(w) == IF w.active \in DOMAIN w.tabs THEN w.tabs[w.active] ELSE None

SetActive(w, i) == [w EXCEPT !.active = i]

(* Mutant: the position is kept, whatever moved up. *)
FixupByPosition(w, active) ==
  IF Len(w.tabs) > 0 /\ w.active > Len(w.tabs) THEN SetActive(w, Len(w.tabs)) ELSE w

(* Mutant: no clamp when the rightmost tab goes. *)
FixupNoClamp(w, active) ==
  IF active \in ToSet(w.tabs) THEN SetActive(w, PosOf(w.tabs, active)) ELSE w

(* fixup_active_tab_after_removal *)
Fixup(w, active) ==
  IF active \in ToSet(w.tabs) THEN SetActive(w, PosOf(w.tabs, active))
  ELSE IF Len(w.tabs) > 0 /\ w.active > Len(w.tabs) THEN SetActive(w, Len(w.tabs))
  ELSE w

(* do_remove_idx: with the option on, closing the selected tab selects the *)
(* remembered one before the tab is taken out of the list.                 *)
Removed(w, t, switch) ==
  LET back == switch /\ Active(w) = t /\ w.last \in ToSet(w.tabs)
      w1   == IF back THEN SetActive(w, PosOf(w.tabs, w.last)) ELSE w
  IN Fixup([w1 EXCEPT !.tabs = RemoveAt(@, PosOf(@, t))], Active(w))

Unlocked == dead = {} /\ unlisted = {}

Push(t) ==
  /\ Unlocked
  /\ t \notin ToSet(win.tabs)
  /\ win' = [win EXCEPT !.tabs = Append(@, t)]
  /\ UNCHANGED <<dead, unlisted>>

(* save_and_then_set_active *)
Activate(i) ==
  /\ Unlocked
  /\ i \in DOMAIN win.tabs /\ i # win.active
  /\ win' = [win EXCEPT !.active = i, !.last = Active(win)]
  /\ UNCHANGED <<dead, unlisted>>

ActivateWithoutSaving(i) ==
  /\ Unlocked
  /\ i \in DOMAIN win.tabs
  /\ win' = SetActive(win, i)
  /\ UNCHANGED <<dead, unlisted>>

(* Mutant: the two tabs change places. *)
MoveTabSwaps(i, switch) ==
  /\ Unlocked
  /\ i \in DOMAIN win.tabs
  /\ win' = [win EXCEPT !.tabs[i] = Active(win), !.tabs[win.active] = win.tabs[i], !.active = i]
  /\ UNCHANGED <<dead, unlisted>>

(* TermWindow::move_tab: the selected tab goes to position i. *)
MoveTab(i, switch) ==
  LET t == Active(win)
      w == Removed(win, t, switch)
  IN
  /\ Unlocked
  /\ i \in DOMAIN win.tabs
  /\ win' = [w EXCEPT !.tabs = InsertAt(@, i, t), !.active = i]
  /\ UNCHANGED <<dead, unlisted>>

(* remove_by_id *)
RemoveTab(t, switch) ==
  /\ Unlocked
  /\ t \in ToSet(win.tabs)
  /\ win' = Removed(win, t, switch)
  /\ UNCHANGED <<dead, unlisted>>

(* prune_dead_tabs: some tabs are dead, others are not in the mux any more. *)
Prune(ds, us) ==
  /\ Unlocked
  /\ dead' = ds \cap ToSet(win.tabs)
  /\ unlisted' = (us \ ds) \cap ToSet(win.tabs)
  /\ UNCHANGED win

FirstOf(t, S) == t \in S /\ \A u \in S : PosOf(win.tabs, t) <= PosOf(win.tabs, u)

PruneDead(t, switch) ==
  /\ FirstOf(t, dead)
  /\ win' = Removed(win, t, switch)
  /\ dead' = dead \ {t}
  /\ UNCHANGED unlisted

PruneUnlisted(t, switch) ==
  /\ dead = {} /\ FirstOf(t, unlisted)
  /\ win' = Removed(win, t, switch)
  /\ unlisted' = unlisted \ {t}
  /\ UNCHANGED dead

Closing ==
  \E t \in Tabs, switch \in BOOLEAN :
    RemoveTab(t, switch) \/ PruneDead(t, switch) \/ PruneUnlisted(t, switch)

Moving == \E i \in DOMAIN win.tabs, switch \in BOOLEAN : MoveTab(i, switch)

Next ==
  \/ \E t \in Tabs : Push(t)
  \/ \E i \in DOMAIN win.tabs : Activate(i) \/ ActivateWithoutSaving(i)
  \/ Moving
  \/ Closing
  \/ \E ds, us \in SUBSET Tabs : Prune(ds, us)

Spec == Init /\ [][Next]_vars

-----------------------------------------------------------------------------
(* Opening, moving and closing tabs never takes the user off the selected  *)
(* tab while that tab is there: whatever is closed around it, one tab at a *)
(* time or many by pruning, with any setting of the option (window.rs      *)
(* do_remove_idx, fixup_active_tab_after_removal).                         *)
SelectionStays ==
  Active(win) \in ToSet(win'.tabs) => Active(win') = Active(win)

SelectionSurvives ==
  [][(\E t \in Tabs : Push(t)) \/ Moving \/ Closing => SelectionStays]_vars

(* The tabs that stay keep their order at every step, but for the active   *)
(* one, which is the tab that a move drags and is left out of every step   *)
(* here (window.rs prune_dead_tabs, insert and remove_by_idx under         *)
(* move_tab).                                                              *)
OrderIsKept ==
  [][\A t, u \in (ToSet(win.tabs) \cap ToSet(win'.tabs)) \ {Active(win)} :
       PosOf(win.tabs, t) < PosOf(win.tabs, u) =>
         PosOf(win'.tabs, t) < PosOf(win'.tabs, u)]_vars
=============================================================================
