# A verification development for Hiterm

Hiterm (also named Kaku in its sources) is a terminal emulator for macOS built on WezTerm's crates, with an
AI assistant, remote control of its panes from a phone, and a relay server through which phone and desktop
meet. This directory holds TLA+ modules of the parts whose correctness depends on order: tasks, threads,
channels, files that several processes write, and lists that are changed while something points into them.
`PROJECT.json` ties every definition to the lines of the source it stands for.

## 1. Inventory

What each part keeps, what it does, with whom it interacts, what makes it hard, and what makes it correct.

| part | state | operations and interactions | hard because | correct when |
|---|---|---|---|---|
| relay server, `crates/kaku-relay` | map token → waiting host's oneshot sender | `host_ws` waits ten minutes, `client_ws` polls for thirty seconds and hands its socket over, `relay_pair` runs two forwarding tasks | every connection is a task of its own; timeouts race hand-overs; dropped handles detach tasks | a host serves one client, no dead entry stays, clients get an answer, a pair ends |
| AI agent, `hiterm-gui/src/ai_chat_engine` | one thread per question, its channel, its cancel flag | rounds of model and tools; asks for approval through a rendezvous channel | a cancelled thread lives on; the wait for the user times out; the reader may be gone | no mutating tool without approval, none after a cancel was seen, the thread ends |
| AI overlay, `overlay/ai_chat` | message rows, text buffer, stream flags, prompt | drains the channel, releases text at typewriter pace, finalises, handles keys, saves | text is shown later than the events around it; one set of flags serves one stream after another | text goes to its own answer, flags belong to the current stream, ends are noticed |
| conversation store, `ai_conversations.rs` | `index.json`, one file per conversation | open, save a turn, start new, switch, update a summary, evict; used by overlays, by the command line chat and by background threads | several read-modify-writes, no lock, failures in between | turns stay in their conversation, nothing is evicted under the cap, nothing saved is lost |
| remote session, `crates/hiterm-remote` with `ai_remote.rs` | in-flight counter, cancel handles, event queue | reader accepts, refuses, cancels; one thread per chat; a send task; also the tunnel to the relay and HTTP routes | counter shared by tasks and threads, handles stored under a name the client chooses | slots are counted, the limit holds, chats are answered and can be cancelled |
| window, `mux/src/window.rs` | list of tabs, active index, last active tab | insert, push, remove by index or id, prune, activate, move | an index into a list that others shorten | the index is valid and keeps naming the same tab |
| mux core, `mux/src/lib.rs`, `activity.rs` | maps of panes, tabs, windows, clients; subscribers | spawn, split, remove, prune, notify; called by GUI, server and reader threads | awaits between look-ups, prunes put off by an `Activity`, processes that end between the halves of a prune | no window keeps a dead tab for ever, a pane has one owner |
| split tree, `mux/src/tab.rs`, `bintree` | tree of panes, sizes, active and zoomed pane | split, close, resize, swap, zoom | sizes must add up at every node after any sequence | cells add up, the active pane is in the tree |
| domains and panes, `domain.rs`, `localpane.rs`, `ssh.rs` | process and PTY per pane | spawn, kill, wait | process exit races close | a killed pane is dead in the end |
| tmux control mode, `tmux*.rs` | command queue, pane maps | sends a command, reads its reply, follows notifications | replies are matched by order | every reply meets its command |
| mux server and client, `wezterm-mux-server-impl`, `wezterm-client`, `codec` | serials of requests, remote pane state | RPC, pushes, reconnect | late and lost replies | a reply reaches its own request |
| promises, `crates/promise` | result channel, waker | threads hand results to main-thread futures | waker is stored after the result was looked for | a finished thread wakes its future |
| blob leases, `wezterm-blob-leases` | reference counts, content files | store, lease, read, drop | lock taken twice, counts and files changed apart | a leased blob has a file |
| session restore, `session_restore.rs` | envelopes, content directories, dirty flag | save, restore, collect | nested restores, collection between two writes | a saved session has its content |
| self update, `update.rs` | staging lock, staged version | download, stage, apply, clean up | several processes | only a complete version is applied |
| AI tools, client, compaction, soul | request state | I/O and text | bounds, time limits | requests end |
| terminal model, termwiz, parsers, cells, fonts, window bindings, rendering, config, Lua, PTY, SSH, small crates | data structures, library handles | mostly sequential | size | their unit tests cover most of it |
| `deps`, `assets`, tables | third-party and generated | | | not modelled |

Interactions: the desktop's tunnel (remote session) registers as a host at the relay, the phone as a client.
The remote session and the overlay each start agents; the overlay and the command-line chat share the
conversation store. The GUI calls the mux, which owns the windows of tabs.

`PROJECT.json` lists the same parts with their status and every hazard at its line, with the properties
that cover it, or the reason none does yet.

## 2. Modules

| module | component | proofs | instance |
|---|---|---|---|
| `Rendezvous`, `Relay` | relay server, and what it promises | `RelayProof` | `MCRelay` |
| `ChatAgent`, `AiChat` | agent threads, and the overlay composed with them | `AiChatProof` | `MCAiChat` |
| `RemoteSession` | remote AI session | `RemoteSessionProof` | `MCRemoteSession` |
| `WindowTabs` | one window's tabs | `WindowTabsProof` | `MCWindowTabs` |
| `MuxWindows` | windows, tabs, panes, processes, prunes | `MuxWindowsProof` | `MCMuxWindows` |
| `SplitTree` | the panes inside one tab | `SplitTreeProof` | `MCSplitTree` |
| `Conversations` | conversation store | `ConversationsProof` | `MCConversations` |
| `SessionRestore` | session restore | `SessionRestoreProof` | `MCSessionRestore` |

Operators whose comment starts with "Mutant" are wrong on purpose: each is a plausible bug, and the
property it is listed with fails when it takes the place of the right one.

### Rendezvous and Relay
One member of `Hosts` or `Clients` is one WebSocket; a reconnect is another member. `host_ws` is the actions
`HostConnect` (or `HostRejected` when the map is full), `HostPaired` / `HostTimesOut`, `HostDropsReceiver` and
`HostCleanup`. `client_ws` is `ClientConnect`, `ClientTakes` / `ClientMisses`, `ClientTick`, `ClientDeadline`.
`relay_pair` is `LegSourceClosed`, `LegSendFails` per direction and `RelayReturns`. What is done under one
`pending.lock()` is one step, and only that. A oneshot is `chan`: empty, closed, or the client sent. The network
is `HostPeerGone` and `ClientPeerGone`. `latest` is a history variable used by one property.

`Rendezvous` is what the relay promises, without its tasks: a token has at most one host on offer, and a client
that asks for the token gets that host for itself or is told no. `Relay` implements it (`Promise == INSTANCE
Rendezvous WITH ...`): on offer is a host whose entry is in the map, its oneshot still empty.

### ChatAgent and AiChat
`ChatAgent` is `run_agent`: a stream has a thread, an mpsc channel and a cancel flag. `AiChat` EXTENDS it with
the overlay's single thread, whose loop goes drain → release → finalise → key. A chunk of text is a pair
⟨stream, round⟩, so a row tells where its text came from. Rows that only inform and are never saved are left
out, since no decision reads them. `disk` is what the overlay saved last. `hist` holds what properties compare:
asked, approved, run. `ModelCallsTools` asks that the stream was offered tools: `run_agent` does not check this and
runs whatever calls an answer has, so it is an assumption on the model's answer.

### RemoteSession
A session's reader (`ReceiveChat`, `Refuse`, `Accept`, `AcceptFails`, `CancelChat`), its chat threads
(`ChatEnds`, `ReleaseSlot`, `ChatPanics`) and its send task (`Forward`, `ForwardFails`, `ScreenFails`,
`SenderStops`). `fetch_add` and the comparison that follows it are two steps, because threads can lower the
counter in between. A panic releases the slot through the guard but sends nothing.
A member of `Chats` is one request, used once; `Spare` asks for an unused one, so that the finite set bounds the
history and never blocks the reader half way through a request.

### WindowTabs
The record `win` is `Window`'s `tabs`, `active` (from 1 here) and `last_active`. `Fixup` and `Removed` are the
functions of that name, with the option `switch_to_last_active_tab_when_closing_tab` either way at each call.
A prune is a loop over dead and then over unlisted tabs; its steps are kept apart so that the state after each
removal is checked.

### MuxWindows
`mux` is the state of `Mux`: the maps of windows, tabs and panes, the process behind each pane, the panes whose
reader is at work, and what is queued for the main thread (`queued` prunes, `removals` of panes). The maps change
on the main thread only. Its tasks run from one await to the next, so an operation that awaits its domain is two
steps (`SpawnTab` or `SpawnWindow` and `SpawnArrives`, `SplitPane` and `SplitArrives`, `DomainFails`) with
anything in between, while `MoveToTab`, `ClosePane`, `CloseTab` and `CloseWindow` are one. Other threads step in at
any time, also between the two halves of a prune (`PruneWindows`, `PruneTabs`), which each ask every process
again: `ProcessEnds` queues a prune, `ReaderEnds` a prune or a removal. `Killed`, `Asked` and `End` are
`LocalPane`'s transitions under the three values of `exit_behavior`. An `Activity` held by a caller makes a prune
pass (`PruneSkipped`) and queues one when it goes. A pass over the trees may step over a dead pane's sibling: that
is `Cut` with its `skip`, and `SplitTree`'s `PassTakesSome` is why it takes one dead pane at least. `Settled`
drops what can no longer be seen from a state. The order of tabs is `WindowTabs`', the shape of a tab `SplitTree`'s.

An operation of the mux can fail after it has changed something, and each such place is in the model.
`split_and_insert` refuses a tab that is zoomed or has no room (`fits` in `SplitArrives` and `Insert`), or returns
with the tree in hand when a pane refuses its new size (`SplitBreaks`, `InsertBreaks`: `main` becomes "broken", because
the next look at that tab panics); `add_pane` finds no reader (`ReaderFails`); `move_pane_to_new_tab` cannot resize the
pane it has taken out (`MoveToTabFails`). What these leave behind is remembered in two history fields: `strays`, the
panes outside every shown tab with nobody to see to them, and `torn`, the tabs emptied by a failed move. Behind a lost
tree the other threads still step, and nothing is said of what the main thread does once it has panicked.

### SplitTree
A tab's binary tree is a pair of functions over positions (sequences of turns from the root): `split` gives the
axis and sizes of a split, `leaf` the pane. `Before` is the order of the code's cursor, and `Index` and `LeafAt` number
the leaves by it. Recursive functions over the positions give the least size of a subtree (`MinSize`),
`adjust_x_size` and `adjust_y_size` (`Adjust`, whose loop takes or gives one `Cell` at a time `Along` the axis),
`apply_pane_size` (`ApplySize`) and `cascade_size_from_cursor` (`Cascade`); a pass of `remove_pane_if` is a `Visit` per
step of the cursor (`Removal`). Each operation a user has is an action. `broken` says that a loop of the code has gone
on for ever, a size has wrapped around, or a split lost the tree because a pane refused its size (`SplitBreaks`);
nothing follows it. `gutter` is the gap between panes, which the
configuration sets. Pixels and the sizes the panes are told are left out.

### Conversations
Each file is replaced atomically, so each file read or write is a step; an operation is the sequence of
steps its function makes, held in `user[u]` (op, at). `job[u]` is a background `update_summary`. A turn is a
number, `owner` records where it was taken. `Fail` stops an operation where a read or write can fail; a conversation
file that is there and cannot be read is left for a new one by `ensure_active` (`OpenFresh`) and refused by
`switch_active` (`Fail` at "load"). A command line chat opens any id, in the index or not (`OpenCli`): it comes from the
command line, the cwd index or a new conversation. A save that cannot read the old file also loses its summary, and a
summary thread may find its file unreadable; both only lose the summary and are left out.

### SessionRestore
On disk: two envelopes (the session, and the window closed last) and directories of sidecars. A save is
`WriteContent`, `WriteEnvelope` (or `WriteFails`) and `Gc`, on the main thread without an await: between its steps
only `Crash` can come. A restore is a chain of awaits (`RestoreNext`, `RestoreBuilt` or `RestoreFails` per window),
so windows are opened, changed, closed, saved and collected while it runs. `closed` is `LOGICALLY_CLOSED`, `dirty` is
`MUX_DIRTY`, the restores under way are `RESTORING_DEPTH`. Ids of windows and names of directories that nothing
refers to are used again. An envelope that cannot be read when content is collected is remembered in `unread`:
its content goes, as the code stands, and the properties exempt it until the envelope is written again.

## 3. Runs

| run | configuration | instance | shows |
|---|---|---|---|
| `relay` | `MCRelay` | 2 tokens, 2 hosts, 2 clients, limit 1 | `TypeOK` (with the limit), `EntryIsOpen`, `PairedOnce`, `KeepsPromise` (the refinement), `EntriesDrain`, `ClientsAreServed`, `LegsEnd` |
| `relay_slot` | `MCRelaySlot` | 1 token, 3 hosts, 2 clients, limit 2 | violated: `NewestHostKeepsItsSlot` |
| `chat_streams` | `MCAiChat` | 2 streams, 1 round, 1 chunk, 1 tool | `TypeOK`, `ApprovedOnly`, `StreamingIsLive`, `TextStaysInStream`, `AsideTextIsNotSaved`, `CancelledIsNeverApproved` |
| `chat_live` | `MCAiChatLive` | 1 stream, 2 rounds, 1 tool, `/resume` | `AnswerIsComplete`, `StreamsSettle`, `AgentsFinish`, `CancelStopsTools` |
| `remote` | `MCRemoteSession` | 3 chats, 2 conversation ids, 2 slots, 1 queued event | `TypeOK`, `SlotsAreCounted`, `LimitHolds`, `HandlesAreDropped`, `SlotsComeBack`, `ChatsAreAnswered` |
| `tabs` | `MCWindowTabs` | 4 tabs | `TypeOK`, `SelectionSurvives`, `OrderIsKept` |
| `mux` | `MCMuxWindows` | 2 windows, 2 tabs, 2 panes, 1 operation, three behaviours | `TypeOK`, `PanesHaveOneHome`, `NothingStranded` |
| `mux_live` | `MCMuxWindowsLive` | 1 window, 1 tab, 2 panes, 1 operation, `Close` | `DeadWindowsGo` |
| `splits` | `MCSplitTree` | 4 panes, tabs of 8×3 and 6×3 cells | `TypeOK`, `PassTakesSome`, `TilingStays`, `FocusStays` |
| `store` | `MCConversations` | an overlay and a command line, 2 ids, cap 1, 1 turn, failures | `TypeOK`, `TurnsStayInConversation`, `EvictsOnlyOverCap` |
| `store_saved` | `MCConversationsSaved` | a command line and its summary thread, 2 ids, 2 turns | violated: `SavedTurnsStay` |
| `session` | `MCSessionRestore` | 2 windows, 3 directories, 1 restore | `TypeOK`, `ContentIsThere`, `RestoreFindsContent` |

What the properties say is in the comment before each definition. In short:

* Relay: an entry of the map is always the open channel of a host that still waits; two clients never get one
  host; the whole relay is the abstract rendezvous; every entry leaves the map, every client is paired or told,
  every pair whose peers are gone ends.
* Chat: a mutating tool runs only after the user accepted the prompt shown for it; a cancel that came first is
  never followed by an approval, and ends the calls that are left; the overlay counts as streaming only while a
  live channel feeds it; a row holds the text of one stream; the text of an aside is not on disk; an answer is
  finalised after all its text is shown.
* Remote session: the counter equals the number of held slots at every step, also between `fetch_add` and the
  refusal; it returns to zero; an accepted chat is answered; an ended chat leaves no cancel handle.
* Tabs: the tab the user looks at stays selected whatever happens to the others; every step keeps the order of
  the tabs other than the active one, which is the one a move drags.
* Mux: a pane is in one tab and a tab in one window, and a pane of the mux has a home unless its removal is
  queued or an operation that reports an error left it without; once nothing is queued and nothing awaited, every
  window shows only panes that live or are held (a tab emptied by a failed move stays); a window without a live pane
  goes, unless failed moves emptied all its tabs or the main thread broke on a lost tree.
* Splits: every operation but the four listed in `Rough` leaves the splits' sizes adding up, while no pane is zoomed;
  a pass takes only panes that are to go and one at least; closing a pane leaves the focus on another one that has it.
* Store: a conversation's file never holds another one's turn, whatever step fails; a conversation goes only
  when more than the cap are on disk.
* Session: what an envelope names is on disk, at whatever step the process dies; a session under restore finds
  the content of the windows it has still to show.

Bounds, and why they suffice. A hand-over race needs two hosts on one token and a client; a limit of one with two
tokens makes the limit bite. A leak between streams needs two streams; order inside an answer needs
two rounds. `MaxRows` 4 (300 in the code) makes trimming happen with few rows; 9 keeps it out of the run that
is not about it. `MaxRounds` (`MAX_AGENT_ROUNDS` in the code) is 1 or 2, so the round limit is hit. Two slots
and three chats fill a session, and two conversation ids give chats with one handle name and with two.
`MaxQueued` bounds the event queue at the moment a request is read; the code's queue is unbounded, and a longer
queue delays the same events. Four tabs give an active tab neighbours on both sides while another one goes.
In the mux two windows, tabs and panes let a pane or a tab move, and a tab hold a dead and a live pane; an id of a
window or tab is used again once nothing refers to it, a pane's process runs once. `mux_live` has one window, since
its claim is about each window by itself. Four panes are the least with a split on both sides of a split, and nested
ones; 8 and 6 columns are wide and narrow enough that a share has and has no room. The constraint `Sound` of
`MCSplitTree` stops behind a tab that is no longer tiled or has no active pane, both of which the code does reach
(section 5): what follows is arbitrary. A cap of one makes every new conversation evict; two users plus their summary
threads are four writers, and two ids are what a turn needs to land in the wrong place. Two windows and three
directories are one envelope each and a third content under way; one restore at a time is what TLC looks at, the
proof covers any number. `MaxTokens` (chunks of text in a round), `MaxTurns`, `MaxStreams`, `MaxTools` and the sizes of
sets bound histories only.

Deadlock is checked for `WindowTabs`. Elsewhere the system may rightly stop: all connections
closed, the overlay closed, all questions asked, every pane's process used, a tab without panes or broken, no
restart.

Symmetry is used in `mux`, `splits`, `store` and `session`, over sets of ids whose members no definition
distinguishes (every CHOOSE there has one possible value), and never with liveness.

### Fairness
* Relay: weak fairness of each task's own steps, because the runtime schedules ready tasks and timers fire.
  Taking an entry out and polling for it belong to one loop. The client's deadline gets strong fairness:
  `tokio::select!` polls its ready branches in random order, so a deadline that is ready again and again
  is taken in the end. No peer owes a message; `LegsEnd` speaks of closed peers.
* AiChat: the overlay's loop and every agent thread. An agent's wait for the model ends because the HTTP
  client has an overall time limit of 600 seconds (`ai_client.rs`), its wait for the user because of
  `APPROVAL_TIMEOUT`. That a tool ends is assumed of the tools. No key is ever fair.
* RemoteSession: the dispatch of a received request, the send task, and the chat threads (the same HTTP limit).
  A failing screen send is no part of what is fair.
* MuxWindows: what the main thread has begun it finishes (weak). Its queue is in order and finite, so removals and
  the last prune in it have their turn (strong: other tasks come in between), also a prune that no `Activity` makes
  pass, since operations end; each domain answers or fails (its process is local). A killed process ends, and a
  reader sees the end of its file. No process that runs on its own has to end, and no user acts.

## 4. Theorems

Proved by TLAPS for every value of the constants, from the ASSUMEs in the modules (finite sets where
cardinalities are taken, `None` outside the sets, natural bounds).

* `RelayProof`: `RelayTypeCorrect`, `RelayPairsOnce`, `RelayEntriesOpen`, from `RelayInvariant`: `IInv == TypeOK
  /\ EntryIsOpen /\ PairedOnce /\ TokensAreKnown`. `PairedOnce` is not inductive: a client taking an entry must know
  that the entry's oneshot is still empty (`EntryIsOpen`), and that holds because an unregistered host owns no filled
  channel and a waiting one has a token (`TokensAreKnown`). The limit in `TypeOK` rests on two lemmas about the
  cardinality of `Pending` when one token is added or taken away. `RelayKeepsPromise` is the refinement: each step of
  the relay maps to a step of `Rendezvous` or to a stutter.
* `RemoteSessionProof`: `SessionTypeCorrect`, `SessionCountsSlots`, `SessionKeepsLimit`, from
  `SessionInvariant`: besides the three, `NoSlotTakenSince` says that between `fetch_add` and the comparison the
  counter is at most one above the value read, since only the reader raises it. Without it the limit is not
  inductive: the value compared is old. `SessionDropsHandles` adds `HandlesAreNamed`: a handle stands under the
  name its chat came with.
* `WindowTabsProof`: `WindowTypeCorrect` and the action properties `WindowKeepsSelection` and `WindowKeepsOrder`. The
  lemmas say what `RemoveAt`, `InsertAt` and `Fixup` do to a list without repetitions and to the order in it; the
  theorems then go action by action.
* `MuxWindowsProof`: `MuxTypeCorrect` and `MuxHousesPanes` from `MuxInvariant`. Its `Sound` has `Proper` (the maps
  agree: trees are disjoint, lists are disjoint and known), `InHand` (a pane a move has in hand is in no tab) and
  `Housed`: a pane outside every shown tab is in hand, about to be removed, left out by a failed operation (`strays`),
  or, between the halves of a prune, in a tab that is dead and will be taken. The last case is what makes it inductive:
  the first half takes a tab out of its window before the second takes it out of the mux. So `MuxHousesPanes` says that
  no pane is lost but by an operation that reports an error. `MuxStrandsNothing` comes from a second invariant,
  `MuxStaysWatched`: either a prune, a removal or an `Activity` is pending, or every window (but those the prune at
  work has found empty) is good but for `torn` tabs, or a prune is about to look, or the main thread is broken; and no
  pane of the mux was killed, since what is killed leaves the mux.
* `ConversationsProof`: `StoreKeepsTurnsApart` from `StoreInvariant`: whatever a user or a summary thread has in hand,
  at every step of every operation, was taken in the conversation it is held for, and nothing is in hand while the
  conversation is still being chosen.
  Its second half has `StoreTypeCorrect`, `StoreEvictsOverCap` from `StoreListsAreTight`. A list that is on disk or
  in hand is `Tight`: without repetitions, no longer than the cap, and no longer than the stored files that are not in
  flight (`Room`). A user who has added an id and has yet to evict is over by one (`Loose`); the id it added is in no
  other list, so that what is evicted is counted by the files on disk although every list may be stale.
* `AiChatProof`: `ChatRunsApprovedOnly`, `ChatStreamingIsLive`, `ChatCancelsForGood`, `ChatStopsTools` from
  `ChatInvariant`: a thread in a call has it still to count off, and when approved has the user's yes to its last
  request; an end is noticed only when the receiver goes; neither the receiver held nor the prompt shown is a cancelled
  stream's.
  What it says of its rows needs a second invariant, `ChatRowsInvariant`, in three parts. `ScreenIsGood`: rows and
  buffered text stand in the order of their streams, only the last open rows belong to the current one, an aside's
  rows are marked and nothing of theirs is on disk. `ChannelsAreGood`: in a channel, text and tool calls come after
  a start (unless the row is there already), nothing comes after the end, and a pending start of an aside finds
  `next_assistant_is_context` set. `NothingIsLost`: every chunk said in the stream is in the channel, in the buffer or on the
  screen. `ChatTextStaysInStream`, `ChatAsideTextIsNotSaved` and `ChatAnswerIsComplete` follow. That a row opened for the
  stream is there when its text is released is why none of them is inductive by itself: it follows from what is still
  in the channel.
  `ChatRowsAreBounded` counts the rows there are, those that the messages on their way will make, those that the
  thread may still send, a closing error and the questions left, against `MAX_DISPLAY_MESSAGES` and a stream's most;
  `ChatTypeOK` has the bound in it. The count is false for `MaxRows = 1`, where the trimmed display has no room for
  the question: hence `MaxRows >= 2` in `AiChatAssumption` (300 in `types.rs:303`). The induction over data in
  it, along the sequence of rows for `Kept` and over the finite sets of chunks, is done by hand: a smallest
  counterexample exists because strict subset is well-founded on finite sets.
* `SessionRestoreProof`: `RestoreTypeCorrect`, `RestoreKeepsContent`, `RestoreFinds` from `RestoreInvariant`, for any
  number of restores at once: a directory under way is named by no envelope yet (`NewIsUnnamed`), the session is written
  only when the process ends (`SessionSavedLast`), so a restore of it holds what its envelope says (`RestoreHoldsSession`).
* `SplitTreeProof`: `SplitTypeCorrect`, whose invariant is `TypeOK` itself. A tree cut from another (`Relocated`) is
  again a tree when the new positions `Fits` the old ones; that is shown once and used for splitting, closing and
  rotating.
  `PassAlwaysTakesSome` follows the cursor with `Passed`: as long as nothing is gone the tree is unchanged and the first
  k visits were its first k nodes, so a pane that is to go is met; afterwards the rest keep their order (`SameOrder`).
  `FocusAlwaysStays` rests on it for one pane: the index of the focus falls by one exactly when the closed pane is
  before it.
  `TilingAlwaysStays` takes the operations outside `Rough` one by one. What `compute_split_size` returns fills its place
  and leaves a cell on both sides (`Solid`). During a pass the splits behind the cursor add up and those ahead of it fit
  (`Nearly`, `Tiling`), and a measure bounds the visits, so the pass ends with all of them behind. Growth goes cell by
  cell along the axis and, across it, works because a tiled tree has at least its `MinSize` (`LeastFits`); `Firm`,
  `Filled` and `Grown` say by induction on the tree that what comes out is tiled and no smaller.
  The library's induction theorems cannot be used, so `TreeInduction`, `TreeRecursion` and `LoopRecursion` get a
  smallest counterexample from the well-foundedness of strict subset on finite sets.

With these, every invariant and action property of every passing run is a theorem. Liveness is out of the prover's
reach and only model-checked: `EntriesDrain`, `ClientsAreServed`, `LegsEnd`, `StreamsSettle`, `AgentsFinish`,
`SlotsComeBack`, `ChatsAreAnswered`, `DeadWindowsGo`. So is what the two violated runs show.

## 5. Where the code and its comments part

Two runs each show a statement of a comment violated; `PROJECT.json` quotes it. A shortest story for each:

* `NewestHostKeepsItsSlot`: host A waits on a token, host B takes the token over, A's cleanup removes B's entry.
* `SavedTurnsStay`: `update_summary` writes back the messages it read before, without the turn saved in between.

The models show more of the kind, which the code does and which no run is kept for.

Relay, chat, remote session, tabs and store:

* `relay_pair` selects over two `JoinHandle`s and drops one; dropping detaches the task, so the other direction
  goes on.
* `cancel_stream` leaves `stream_is_transient` as it is, and the next stream is taken for an aside;
  `next_assistant_is_context` survives a cancel likewise.
* A failed aside's error row is an ordinary row, and the next save writes it.
* Memories are extracted after an error too: the error is taken out before it is tested.
* Text still buffered when the next round's row opens is added to that row. So `TextStaysInStream` speaks of
  streams, not of rounds.
* `/new` or `/resume` during a stream cancels it, and does not save its rows.
* Rows trimmed from the display leave the file with the next save.
* An ended remote chat drops the cancel handle of a newer chat with the same conversation id.
* Tabs a, b, c; a active, b the last one; a is closed: the index of b is taken before a leaves the list, so
  that c is shown.
* Two writers of `index.json` lose each other's entries and summaries; a save reads the summary and writes the file in
  two steps, so that a summary written in between is lost.
* When `/new` fails to create, the id stays and the rows go, and the next save overwrites the old conversation.

Mux and splits:

* A window made for a spawn is announced at once, which drops its builder's `Activity`; a prune takes the empty window
  while the domain is awaited. The comment there (`lib.rs:1794`) wants the GUI to have the window "while the
  shell/domain spawn work is still in progress".
* A tab that arrives for a window that is gone stays in the mux outside every window, and its pane with it, until the
  process ends.
* `split_and_insert` refuses a tab that is zoomed (`tab.rs:2423`) or has no room (`tab.rs:2435-2452`) after the new pane
  was spawned, or the moved one taken out of its tab (`domain.rs:203`). The error is reported, and the pane stays in the
  mux in no tab, with its process; when that ends, its reader removes the pane under `exit_behavior` `Close`, or after
  a read error, only. A pane whose reader cannot be had (`lib.rs:1201`) stays likewise, and has no reader to remove it.
* If a pane refuses its new size in a split (`tab.rs:2517-2518`), the tree taken at `tab.rs:2471` is not put back, and the
  next look at the tab panics.
* If the pane taken out by `move_pane_to_new_tab` cannot be resized (`lib.rs:1740`), it is in no tab; a tab that it was the
  last pane of stays, empty, until some other event queues a prune.
* `remove_pane_if` renumbers while it goes and counts the panes of a removed pane's sibling again: with several panes
  gone at once the active index can drift past the end, and `get_active_pane` finds none.
* Shrinking a split whose two sides have one cell each finds nothing to take from, and the loop goes on for ever
  (`broken`): a narrow enough window over nested splits makes it happen.
* A split at the top of the tab resizes the splits inside to their share first (`tab.rs:2460-2469`), and with them
  `TabInner::size`, which stays at the share although the tab is as large as before: later sizes are reckoned from it
  until the next resize.
* Moving a split keeps a cell on each side of that split only, and with a gutter wider than one not even that (it is
  clamped at the width less two): the splits inside can be left without cells, as by turning a split.
* While a pane is zoomed, resizes leave the other panes' sizes as they were, and a removal of the zoomed pane restores
  them stale.
* The Lua method `rotate_clockwise` calls `rotate_counter_clockwise`.

Session restore:

* The menu's restore clears the dirty flag when it ends, together with changes the user made before or during it, so
  that quitting then saves nothing.
* The menu's restore deletes the closed window's file at its end, even when a window closed meanwhile has
  written a newer one; and the newer close's collection removes the content the older restore still reads.
* Two pristine windows at quit overwrite a useful session: the test under the comment "Don't overwrite a useful saved
  session with a session that is entirely trivial" (`session_restore.rs:879`) looks at a single window only.
* Quitting while a restore runs, with the dirty flag set, saves what is restored so far.
* A window that was hidden by closing it and is shown again from the Dock stays logically closed, and is not saved.
* Output alone does not mark a window dirty.
* When an envelope cannot be read at collection time, its content is collected.

## 6. Not modelled, and the plan

Order: first what carries user data and sessions, then the mux, then the rest. The project keeps to a dozen runs, one
per question: a new module brings a safety run and, where it has something that must happen, a liveness run.
Room for `mux`, `mux_live`, `splits` and `session` came from one run for the relay's safety, refinement and
liveness, and from dropping three runs whose violated statement section 5 now tells in words (the flag of a cancelled
aside, the cancel handle of a newer chat, the tab shown after a close).

1. Done: `Relay`, `ChatAgent`, `AiChat` (composes `ChatAgent`), `RemoteSession`, `WindowTabs`, `Conversations`.
2. Done: `Rendezvous` and the refinement, `MuxWindows`, `SplitTree`. Left: `BlobLeases` (reference counts and content
   files), `PromiseSpawn` (a thread's result against its future's waker), the tunnel and the pane throttle composed with
   `RemoteSession`, an abstract store that `Conversations` implements where only one process runs, focus of clients in the
   mux.
3. Done: `SessionRestore`. Left: `ClientRpc` (serials and replies), `TmuxQueue`, `StagedUpdate`, `rangeset` and
   compaction as pure operators against reference definitions.
4. Proofs. Done: every invariant and action property, and the refinement of `Rendezvous`. Left: that the trees of
   `MuxWindows` and its `Cut` are what `SplitTree` does, that its lists of tabs are what `WindowTabs` does, and the
   modules still to be written.

Left out for good: rendering, window bindings, fonts, parsers and Unicode tables, the PTY and SSH libraries,
vendored code: sequential data processing or I/O, where a model would only repeat the code. These are by far the most
lines of the repository (the Unicode and icon tables alone are half of it).
