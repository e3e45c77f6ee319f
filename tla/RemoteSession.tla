--------------------------- MODULE RemoteSession ---------------------------
(***************************************************************************)
(* One WebSocket session of crates/hiterm-remote: its AI chats, their      *)
(* cancel handles and the session's limit on chats in flight.  The reader  *)
(* of the session accepts, refuses and cancels chats, each chat is a       *)
(* thread of its own (hiterm-gui/src/ai_remote.rs), and the send task      *)
(* forwards the events of the chats.  The relay tunnel runs the same code  *)
(* with a broadcast channel that never closes.                             *)
(*                                                                         *)
(* Chats are numbered by the caller; a conversation id is chosen by the    *)
(* client, who may use it again.  Tokens, screens and input change none of *)
(* this state and are left out.                                            *)
(***************************************************************************)
EXTENDS Naturals, Sequences, FiniteSets

CONSTANTS
  Chats,        \* chat threads
  Convs,        \* conversation ids
  None,         \* no chat
  MaxInFlight,  \* MAX_INFLIGHT_AI
  MaxQueued     \* bound: events that wait when a request is read

ASSUME SessionAssumption ==
  /\ MaxInFlight \in Nat /\ MaxQueued \in Nat
  /\ None \notin Chats
  /\ IsFiniteSet(Chats)

VARIABLES
  open,      \* the reader loop runs
  sender,    \* the send task runs
  pane,      \* the pane's broadcast sender is still registered
  reader,    \* the chat request being dispatched: in_flight before it, its conversation
  inFlight,  \* in_flight
  handles,   \* cancel_handles: conversation -> the chat whose flag it holds
  chat,      \* where each chat thread is
  conv,      \* the conversation of each chat
  flagged,   \* chats whose cancel flag is set
  events,    \* the AI event channel: the chat an end event is about, or a refusal
  answered   \* history: chats whose end event the client was sent

vars == <<open, sender, pane, reader, inFlight, handles, chat, conv, flagged, events, answered>>

ChatState == {"idle", "running", "ended", "gone", "failed", "panicked"}

Live == {c \in Chats : chat[c] \in {"running", "ended"}}

(* An event that ends a conversation: AiDone, or an AiError, for a refused *)
(* request of chat None.                                                   *)
End(c, v) == [chat |-> c, conv |-> v]

Idle == [at |-> "idle"]
Reserved(n, v) == [at |-> "reserved", was |-> n, conv |-> v]

TypeOK ==
  /\ open \in BOOLEAN /\ sender \in BOOLEAN /\ pane \in BOOLEAN
  /\ reader = Idle \/ reader \in [at : {"reserved"}, was : Nat, conv : Convs]
  /\ inFlight \in Nat
  /\ handles \in [Convs -> Chats \cup {None}]
  /\ chat \in [Chats -> ChatState]
  /\ conv \in [Chats -> Convs]
  /\ flagged \subseteq Chats
  /\ events \in Seq([chat : Chats \cup {None}, conv : Convs])
  /\ answered \subseteq Chats

Init ==
  /\ open = TRUE /\ sender = TRUE /\ pane = TRUE
  /\ reader = Idle
  /\ inFlight = 0
  /\ handles = [v \in Convs |-> None]
  /\ chat = [c \in Chats |-> "idle"]
  /\ conv \in [Chats -> Convs]
  /\ flagged = {} /\ events = <<>>
  /\ answered = {}

-----------------------------------------------------------------------------
(* The reader of the session: dispatch_ai_chat and cancel_ai_conversation. *)

(* The receiver of the events lives in the send task. *)
Emit(e) == events' = IF sender THEN Append(events, e) ELSE events

(* Bounds: a request needs a chat that was not used yet, and few events    *)
(* that wait.                                                              *)
Spare(v) == Len(events) < MaxQueued /\ \E c \in Chats : chat[c] = "idle" /\ conv[c] = v

ReceiveChat(v) ==
  /\ open /\ reader = Idle
  /\ Spare(v)
  /\ reader' = Reserved(inFlight, v)
  /\ inFlight' = inFlight + 1
  /\ UNCHANGED <<open, sender, pane, handles, chat, conv, flagged, events, answered>>

(* Mutant: the refused request keeps its slot. *)
RefuseKeepsSlot ==
  /\ reader # Idle /\ reader.was >= MaxInFlight
  /\ Emit(End(None, reader.conv))
  /\ reader' = Idle
  /\ UNCHANGED <<open, sender, pane, inFlight, handles, chat, conv, flagged, answered>>

Refuse ==
  /\ reader # Idle /\ reader.was >= MaxInFlight
  /\ inFlight' = inFlight - 1
  /\ Emit(End(None, reader.conv))
  /\ reader' = Idle
  /\ UNCHANGED <<open, sender, pane, handles, chat, conv, flagged, answered>>

(* Mutant: > instead of >= against the limit. *)
AcceptOneMore(c) ==
  /\ reader # Idle /\ reader.was <= MaxInFlight
  /\ chat[c] = "idle" /\ conv[c] = reader.conv
  /\ handles' = [handles EXCEPT ![reader.conv] = c]
  /\ chat' = [chat EXCEPT ![c] = "running"]
  /\ reader' = Idle
  /\ UNCHANGED <<open, sender, pane, inFlight, conv, flagged, events, answered>>

(* The flag is registered under the conversation, in place of any older    *)
(* one, and the handler spawns the chat's thread.                          *)
Accept(c) ==
  /\ reader # Idle /\ reader.was < MaxInFlight
  /\ chat[c] = "idle" /\ conv[c] = reader.conv
  /\ handles' = [handles EXCEPT ![reader.conv] = c]
  /\ chat' = [chat EXCEPT ![c] = "running"]
  /\ reader' = Idle
  /\ UNCHANGED <<open, sender, pane, inFlight, conv, flagged, events, answered>>

(* Mutant: the slot of a thread that did not start is lost. *)
AcceptFailsKeepsSlot(c) ==
  /\ reader # Idle /\ reader.was < MaxInFlight
  /\ chat[c] = "idle" /\ conv[c] = reader.conv
  /\ handles' = [handles EXCEPT ![reader.conv] = c]
  /\ chat' = [chat EXCEPT ![c] = "failed"]
  /\ Emit(End(c, reader.conv))
  /\ reader' = Idle
  /\ UNCHANGED <<open, sender, pane, inFlight, conv, flagged, answered>>

(* The thread does not start, or no handler is registered. *)
AcceptFails(c) ==
  /\ reader # Idle /\ reader.was < MaxInFlight
  /\ chat[c] = "idle" /\ conv[c] = reader.conv
  /\ handles' = [handles EXCEPT ![reader.conv] = c]
  /\ chat' = [chat EXCEPT ![c] = "failed"]
  /\ inFlight' = inFlight - 1
  /\ Emit(End(c, reader.conv))
  /\ reader' = Idle
  /\ UNCHANGED <<open, sender, pane, conv, flagged, answered>>

CancelChat(v) ==
  /\ open /\ reader = Idle
  /\ handles[v] # None
  /\ flagged' = flagged \cup {handles[v]}
  /\ handles' = [handles EXCEPT ![v] = None]
  /\ UNCHANGED <<open, sender, pane, reader, inFlight, chat, conv, events, answered>>

(* The client leaves: the send task is aborted, no flag is set. *)
CloseSession ==
  /\ open /\ reader = Idle
  /\ open' = FALSE /\ sender' = FALSE
  /\ events' = <<>>
  /\ UNCHANGED <<pane, reader, inFlight, handles, chat, conv, flagged, answered>>

-----------------------------------------------------------------------------
(* A chat's thread: run_chat.  The guard that gives the slot back is       *)
(* dropped after the last event was sent.                                  *)

(* Mutant: a failed chat reports nothing. *)
ChatEndsSilently(c) ==
  /\ chat[c] = "running"
  /\ chat' = [chat EXCEPT ![c] = "ended"]
  /\ UNCHANGED <<open, sender, pane, reader, inFlight, handles, conv, flagged, events, answered>>

ChatEnds(c) ==
  /\ chat[c] = "running"
  /\ chat' = [chat EXCEPT ![c] = "ended"]
  /\ Emit(End(c, conv[c]))
  /\ UNCHANGED <<open, sender, pane, reader, inFlight, handles, conv, flagged, answered>>

(* Mutant: run_chat gives the slot back itself, and the guard does again. *)
ReleaseSlotTwice(c) ==
  /\ chat[c] = "ended"
  /\ chat' = [chat EXCEPT ![c] = "gone"]
  /\ inFlight' = inFlight - 2
  /\ UNCHANGED <<open, sender, pane, reader, handles, conv, flagged, events, answered>>

ReleaseSlot(c) ==
  /\ chat[c] = "ended"
  /\ chat' = [chat EXCEPT ![c] = "gone"]
  /\ inFlight' = inFlight - 1
  /\ UNCHANGED <<open, sender, pane, reader, handles, conv, flagged, events, answered>>

(* A panic drops the guard and sends nothing. *)
ChatPanics(c) ==
  /\ chat[c] = "running"
  /\ chat' = [chat EXCEPT ![c] = "panicked"]
  /\ inFlight' = inFlight - 1
  /\ UNCHANGED <<open, sender, pane, reader, handles, conv, flagged, events, answered>>

-----------------------------------------------------------------------------
(* The send task of handle_ws.                                             *)

(* Mutant: ended conversations keep their handle. *)
ForwardKeepsHandle ==
  /\ sender /\ events # <<>>
  /\ events' = Tail(events)
  /\ answered' = answered \cup ({Head(events).chat} \ {None})
  /\ UNCHANGED <<open, sender, pane, reader, inFlight, handles, chat, conv, flagged>>

(* An end event drops the handle of its conversation, then it is sent. *)
Forward ==
  /\ sender /\ events # <<>>
  /\ events' = Tail(events)
  /\ handles' = [handles EXCEPT ![Head(events).conv] = None]
  /\ answered' = answered \cup ({Head(events).chat} \ {None})
  /\ UNCHANGED <<open, sender, pane, reader, inFlight, chat, conv, flagged>>

(* The socket is broken; the reader has not noticed yet. *)
ForwardFails ==
  /\ sender /\ events # <<>>
  /\ handles' = [handles EXCEPT ![Head(events).conv] = None]
  /\ sender' = FALSE
  /\ events' = <<>>
  /\ UNCHANGED <<open, pane, reader, inFlight, chat, conv, flagged, answered>>

(* A screen cannot be sent: the same, and whatever events waited are lost. *)
ScreenFails ==
  /\ sender
  /\ sender' = FALSE
  /\ events' = <<>>
  /\ UNCHANGED <<open, pane, reader, inFlight, handles, chat, conv, flagged, answered>>

(* MuxNotification::PaneRemoved drops the broadcast sender of the pane. *)
PaneRemoved ==
  /\ pane
  /\ pane' = FALSE
  /\ UNCHANGED <<open, sender, reader, inFlight, handles, chat, conv, flagged, events, answered>>

(* The send task stops when the broadcast is closed and no AI event waits; *)
(* the reader of the session goes on.                                      *)
SenderStops ==
  /\ sender /\ ~pane /\ events = <<>>
  /\ sender' = FALSE
  /\ UNCHANGED <<open, pane, reader, inFlight, handles, chat, conv, flagged, events, answered>>

-----------------------------------------------------------------------------
Dispatch == Refuse \/ \E c \in Chats : Accept(c) \/ AcceptFails(c)

Thread(c) == ChatEnds(c) \/ ReleaseSlot(c) \/ ChatPanics(c)

SendTask == Forward \/ ForwardFails \/ SenderStops

Next ==
  \/ \E v \in Convs : ReceiveChat(v) \/ CancelChat(v)
  \/ Dispatch \/ CloseSession
  \/ \E c \in Chats : Thread(c)
  \/ SendTask \/ ScreenFails \/ PaneRemoved

Spec == Init /\ [][Next]_vars

FairSpec ==
  Spec /\ WF_vars(Dispatch) /\ WF_vars(SendTask) /\ \A c \in Chats : WF_vars(Thread(c))

-----------------------------------------------------------------------------
(* in_flight is what it claims to be: every slot taken belongs to a thread *)
(* that still runs or to the request being dispatched.  Refusals, failed   *)
(* spawns and panics give theirs back exactly once.                        *)
SlotsAreCounted ==
  inFlight = Cardinality(Live) + (IF reader = Idle THEN 0 ELSE 1)

(* A session never runs more chats than the limit, although the counter is *)
(* raised before it is compared and threads lower it in between.           *)
LimitHolds == Cardinality(Live) <= MaxInFlight

(* A registered handle can still be used or will be dropped: its chat      *)
(* runs, or an end event that drops the handle waits.                      *)
HandlesAreDropped ==
  sender => \A v \in Convs : handles[v] # None =>
    \/ chat[handles[v]] \in {"running", "panicked"}
    \/ \E i \in DOMAIN events : events[i].conv = v

(* A full session gets room again, whatever its chats do. *)
SlotsComeBack == inFlight >= MaxInFlight ~> inFlight < MaxInFlight

(* An accepted chat is answered, unless its thread panics or the client    *)
(* cannot be reached any more.                                             *)
ChatsAreAnswered ==
  \A c \in Chats : chat[c] = "running" ~> c \in answered \/ chat[c] = "panicked" \/ ~sender
=============================================================================
