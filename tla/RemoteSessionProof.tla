------------------------ MODULE RemoteSessionProof ------------------------
(***************************************************************************)
(* A remote session counts its slots right and never runs more chats than  *)
(* its limit, for any set of chats and conversations and any limit.        *)
(***************************************************************************)
EXTENDS RemoteSession, FiniteSetTheorems, TLAPS

(* Between raising in_flight and comparing the old value nothing else can  *)
(* raise it: chats only give slots back.                                   *)
NoSlotTakenSince == reader # Idle => inFlight <= reader.was + 1

IInv == TypeOK /\ SlotsAreCounted /\ LimitHolds /\ NoSlotTakenSince

LEMMA LiveFinite == IsFiniteSet(Live) /\ Cardinality(Live) \in Nat
BY FS_Subset, FS_CardinalityType, SessionAssumption DEF Live

(* One more live chat, one fewer, and the same ones. *)
LEMMA LiveGrows ==
  ASSUME TypeOK, NEW c \in Chats, chat[c] = "idle", chat' = [chat EXCEPT ![c] = "running"]
  PROVE  Cardinality(Live') = Cardinality(Live) + 1
<1>1. Live' = Live \cup {c} /\ c \notin Live
  BY DEF Live, TypeOK
<1> QED BY <1>1, LiveFinite, FS_AddElement

LEMMA LiveShrinks ==
  ASSUME TypeOK, NEW c \in Chats, c \in Live, NEW s \in ChatState, s \notin {"running", "ended"},
         chat' = [chat EXCEPT ![c] = s]
  PROVE  Cardinality(Live') = Cardinality(Live) - 1
<1>1. Live' = Live \ {c}
  BY DEF Live, TypeOK
<1> QED BY <1>1, LiveFinite, FS_RemoveElement

LEMMA LiveStays ==
  ASSUME TypeOK, NEW c \in Chats, NEW s \in ChatState,
         c \in Live <=> s \in {"running", "ended"}, chat' = [chat EXCEPT ![c] = s]
  PROVE  Live' = Live
BY DEF Live, TypeOK

LEMMA InitIInv == Init => IInv
<1> SUFFICES ASSUME Init PROVE IInv
  OBVIOUS
<1>1. TypeOK
  BY SessionAssumption DEF Init, TypeOK, ChatState
<1>2. Live = {}
  BY DEF Init, Live
<1>3. Cardinality(Live) = 0
  BY <1>2, FS_EmptySet
<1> QED BY <1>1, <1>3, SessionAssumption
        DEF Init, IInv, SlotsAreCounted, LimitHolds, NoSlotTakenSince

-----------------------------------------------------------------------------
LEMMA QueueTypes ==
  ASSUME NEW S, NEW q \in Seq(S)
  PROVE  /\ \A e \in S : Append(q, e) \in Seq(S)
         /\ q # <<>> => Head(q) \in S /\ Tail(q) \in Seq(S)
         /\ <<>> \in Seq(S)
OBVIOUS

LEMMA EmitTypeOK ==
  ASSUME TypeOK, NEW c \in Chats \cup {None}, NEW v \in Convs, Emit(End(c, v))
  PROVE  events' \in Seq([chat : Chats \cup {None}, conv : Convs])
<1>1. End(c, v) \in [chat : Chats \cup {None}, conv : Convs]
  BY DEF End
<1>2. events \in Seq([chat : Chats \cup {None}, conv : Convs])
  BY DEF TypeOK
<1>3. Append(events, End(c, v)) \in Seq([chat : Chats \cup {None}, conv : Convs])
  BY <1>1, <1>2, QueueTypes
<1> QED BY <1>2, <1>3 DEF Emit

(* The steps of the reader. *)
LEMMA ReceiveIInv ==
  ASSUME IInv, NEW v \in Convs, ReceiveChat(v)
  PROVE  IInv'
<1> USE DEF IInv
<1>1. reader' \in [at : {"reserved"}, was : Nat, conv : Convs] /\ reader' # Idle
      /\ reader'.was = inFlight
  BY DEF ReceiveChat, Reserved, Idle, TypeOK
<1>2. TypeOK'
  BY <1>1 DEF ReceiveChat, TypeOK
<1>3. Live' = Live
  BY DEF ReceiveChat, Live
<1>4. SlotsAreCounted' /\ LimitHolds'
  BY <1>1, <1>3, LiveFinite DEF ReceiveChat, SlotsAreCounted, LimitHolds, TypeOK
<1>5. NoSlotTakenSince'
  BY <1>1 DEF ReceiveChat, NoSlotTakenSince, TypeOK
<1> QED BY <1>2, <1>4, <1>5

LEMMA RefuseIInv ==
  ASSUME IInv, Refuse
  PROVE  IInv'
<1> USE DEF IInv
<1>1. reader # Idle /\ reader.conv \in Convs
  BY DEF Refuse, TypeOK
<1>2. events' \in Seq([chat : Chats \cup {None}, conv : Convs])
  BY <1>1, EmitTypeOK DEF Refuse
<1>3. Live' = Live
  BY DEF Refuse, Live
<1>4. inFlight' = Cardinality(Live) /\ inFlight' \in Nat
  BY <1>1, LiveFinite DEF Refuse, SlotsAreCounted, TypeOK
<1>5. TypeOK'
  BY <1>2, <1>4 DEF Refuse, TypeOK
<1> QED BY <1>3, <1>4, <1>5 DEF Refuse, SlotsAreCounted, LimitHolds, NoSlotTakenSince

(* An accepted chat becomes live within the limit: the old value was below *)
(* it, and at most the reader's own slot was added since.                  *)
LEMMA AcceptIInv ==
  ASSUME IInv, NEW c \in Chats, Accept(c)
  PROVE  IInv'
<1> USE DEF IInv
<1>1. reader # Idle /\ reader.conv \in Convs /\ reader.was \in Nat
  BY DEF Accept, TypeOK
<1>2. Cardinality(Live') = Cardinality(Live) + 1
  BY LiveGrows DEF Accept
<1>3. Cardinality(Live) + 1 <= reader.was + 1 /\ inFlight = Cardinality(Live) + 1
  BY <1>1, LiveFinite DEF SlotsAreCounted, NoSlotTakenSince
<1>4. LimitHolds'
  BY <1>1, <1>2, <1>3, LiveFinite, SessionAssumption DEF Accept, LimitHolds
<1>5. SlotsAreCounted' /\ NoSlotTakenSince'
  BY <1>2, <1>3, LiveFinite DEF Accept, SlotsAreCounted, NoSlotTakenSince
<1>6. TypeOK'
  BY <1>1 DEF Accept, TypeOK, ChatState
<1> QED BY <1>4, <1>5, <1>6

LEMMA AcceptFailsIInv ==
  ASSUME IInv, NEW c \in Chats, AcceptFails(c)
  PROVE  IInv'
<1> USE DEF IInv
<1>1. reader # Idle /\ reader.conv \in Convs
  BY DEF AcceptFails, TypeOK
<1>2. Live' = Live
  <2>1. chat' = [chat EXCEPT ![c] = "failed"] /\ c \notin Live /\ "failed" \in ChatState
    BY DEF AcceptFails, Live, ChatState
  <2> QED BY <2>1, LiveStays
<1>3. events' \in Seq([chat : Chats \cup {None}, conv : Convs])
  BY <1>1, EmitTypeOK DEF AcceptFails
<1>4. inFlight' = Cardinality(Live) /\ inFlight' \in Nat
  BY <1>1, LiveFinite DEF AcceptFails, SlotsAreCounted, TypeOK
<1>5. TypeOK'
  BY <1>1, <1>3, <1>4 DEF AcceptFails, TypeOK, ChatState
<1> QED BY <1>2, <1>4, <1>5 DEF AcceptFails, SlotsAreCounted, LimitHolds, NoSlotTakenSince

(* The steps of a chat. *)
LEMMA ChatEndsIInv ==
  ASSUME IInv, NEW c \in Chats, ChatEnds(c)
  PROVE  IInv'
<1> USE DEF IInv
<1>1. Live' = Live
  <2>1. chat' = [chat EXCEPT ![c] = "ended"] /\ c \in Live /\ "ended" \in ChatState
    BY DEF ChatEnds, Live, ChatState
  <2> QED BY <2>1, LiveStays
<1>2. conv[c] \in Convs
  BY DEF TypeOK
<1>3. events' \in Seq([chat : Chats \cup {None}, conv : Convs])
  BY <1>2, EmitTypeOK DEF ChatEnds
<1>4. TypeOK'
  BY <1>3 DEF ChatEnds, TypeOK, ChatState
<1> QED BY <1>1, <1>4 DEF ChatEnds, SlotsAreCounted, LimitHolds, NoSlotTakenSince

LEMMA ChatGoesIInv ==
  ASSUME IInv, NEW c \in Chats, ReleaseSlot(c) \/ ChatPanics(c)
  PROVE  IInv'
<1> USE DEF IInv
<1>1. PICK s \in {"gone", "panicked"} : chat' = [chat EXCEPT ![c] = s]
  BY DEF ReleaseSlot, ChatPanics
<1>2. c \in Live /\ s \in ChatState
  BY DEF ReleaseSlot, ChatPanics, Live, ChatState
<1>3. Cardinality(Live') = Cardinality(Live) - 1
  BY <1>1, <1>2, LiveShrinks
<1>4. Cardinality(Live) >= 1
  <2>1. Cardinality(Live) # 0
    BY <1>2, LiveFinite, FS_EmptySet
  <2> QED BY <2>1, LiveFinite
<1>5. /\ inFlight' = inFlight - 1
      /\ UNCHANGED <<open, sender, pane, reader, handles, conv, flagged, events, answered>>
  BY DEF ReleaseSlot, ChatPanics
<1>6. SlotsAreCounted' /\ inFlight' \in Nat
  BY <1>3, <1>4, <1>5, LiveFinite DEF SlotsAreCounted, TypeOK
<1>7. TypeOK'
  BY <1>1, <1>2, <1>5, <1>6 DEF TypeOK
<1>8. LimitHolds'
  BY <1>3, LiveFinite, SessionAssumption DEF LimitHolds
<1>9. NoSlotTakenSince'
  BY <1>5 DEF NoSlotTakenSince, TypeOK
<1> QED BY <1>6, <1>7, <1>8, <1>9

(* The other steps touch neither the counter nor a chat. *)
LEMMA OthersIInv ==
  ASSUME IInv,
         SendTask \/ ScreenFails \/ PaneRemoved \/ CloseSession \/ \E v \in Convs : CancelChat(v)
  PROVE  IInv'
<1> USE DEF IInv
<1>1. inFlight' = inFlight /\ chat' = chat /\ reader' = reader /\ conv' = conv
  BY DEF SendTask, Forward, ForwardFails, SenderStops, ScreenFails, PaneRemoved, CloseSession,
     CancelChat
<1>2. TypeOK'
  <2>1. CASE Forward
    <3>0. events \in Seq([chat : Chats \cup {None}, conv : Convs])
      BY DEF TypeOK
    <3>1. Head(events) \in [chat : Chats \cup {None}, conv : Convs]
          /\ events' \in Seq([chat : Chats \cup {None}, conv : Convs])
      BY <2>1, <3>0, QueueTypes DEF Forward
    <3>2. Head(events).conv \in Convs /\ Head(events).chat \in Chats \cup {None}
      BY <3>1
    <3>3. handles' \in [Convs -> Chats \cup {None}] /\ answered' \subseteq Chats
      BY <2>1, <3>2 DEF Forward, TypeOK
    <3> QED BY <2>1, <3>1, <3>3 DEF Forward, TypeOK
  <2>2. CASE ForwardFails
    <3>0. events \in Seq([chat : Chats \cup {None}, conv : Convs])
      BY DEF TypeOK
    <3>1. Head(events) \in [chat : Chats \cup {None}, conv : Convs]
      BY <2>2, <3>0, QueueTypes DEF ForwardFails
    <3>2. handles' \in [Convs -> Chats \cup {None}]
      BY <2>2, <3>1 DEF ForwardFails, TypeOK
    <3>3. events' \in Seq([chat : Chats \cup {None}, conv : Convs])
      BY <2>2, QueueTypes DEF ForwardFails
    <3> QED BY <2>2, <3>2, <3>3 DEF ForwardFails, TypeOK
  <2>3. CASE SenderStops
    BY <2>3 DEF SenderStops, TypeOK
  <2>4. CASE PaneRemoved
    BY <2>4 DEF PaneRemoved, TypeOK
  <2>5. CASE CloseSession
    <3>1. events' \in Seq([chat : Chats \cup {None}, conv : Convs])
      BY <2>5, QueueTypes DEF CloseSession
    <3> QED BY <2>5, <3>1 DEF CloseSession, TypeOK
  <2>6. CASE \E v \in Convs : CancelChat(v)
    <3>1. PICK v \in Convs : CancelChat(v)
      BY <2>6
    <3>2. handles[v] \in Chats
      BY <3>1 DEF CancelChat, TypeOK
    <3> QED BY <3>1, <3>2 DEF CancelChat, TypeOK
  <2>7. CASE ScreenFails
    <3>1. events' \in Seq([chat : Chats \cup {None}, conv : Convs])
      BY <2>7, QueueTypes DEF ScreenFails
    <3> QED BY <2>7, <3>1 DEF ScreenFails, TypeOK
  <2> QED BY <2>1, <2>2, <2>3, <2>4, <2>5, <2>6, <2>7 DEF SendTask
<1>3. Live' = Live
  BY <1>1 DEF Live
<1> QED BY <1>1, <1>2, <1>3 DEF SlotsAreCounted, LimitHolds, NoSlotTakenSince

-----------------------------------------------------------------------------
(* The inductive invariant of a session, for every value of the constants. *)
THEOREM SessionInvariant == Spec => []IInv
<1>1. ASSUME IInv, [Next]_vars
      PROVE  IInv'
  <2>1. CASE \E v \in Convs : ReceiveChat(v)
    BY <1>1, <2>1, ReceiveIInv
  <2>2. CASE Dispatch
    BY <1>1, <2>2, RefuseIInv, AcceptIInv, AcceptFailsIInv DEF Dispatch
  <2>3. CASE \E c \in Chats : Thread(c)
    BY <1>1, <2>3, ChatEndsIInv, ChatGoesIInv DEF Thread
  <2>4. CASE \/ SendTask \/ ScreenFails \/ PaneRemoved \/ CloseSession
             \/ \E v \in Convs : CancelChat(v)
    BY <1>1, <2>4, OthersIInv
  <2>5. CASE UNCHANGED vars
    BY <1>1, <2>5 DEF IInv, vars, TypeOK, SlotsAreCounted, LimitHolds,
       NoSlotTakenSince, Live
  <2> QED BY <1>1, <2>1, <2>2, <2>3, <2>4, <2>5 DEF Next
<1> QED BY InitIInv, <1>1, PTL DEF Spec

(* Every value of the session's state stays in its type; in particular     *)
(* in_flight never drops below zero, whatever is refused or panics.        *)
THEOREM SessionTypeCorrect == Spec => []TypeOK
<1>1. IInv => TypeOK
  BY DEF IInv
<1> QED BY <1>1, SessionInvariant, PTL

(* in_flight equals the number of live chats, plus the request that is     *)
(* being dispatched: no slot is lost or given back twice.                  *)
THEOREM SessionCountsSlots == Spec => []SlotsAreCounted
<1>1. IInv => SlotsAreCounted
  BY DEF IInv
<1> QED BY <1>1, SessionInvariant, PTL

(* At most MAX_INFLIGHT_AI chats run in a session at any time.             *)
THEOREM SessionKeepsLimit == Spec => []LimitHolds
<1>1. IInv => LimitHolds
  BY DEF IInv
<1> QED BY <1>1, SessionInvariant, PTL

-----------------------------------------------------------------------------
(* A handle is stored under the conversation of its chat, which started. *)
HandlesAreNamed ==
  \A v \in Convs : handles[v] # None => conv[handles[v]] = v /\ chat[handles[v]] # "idle"

Awaited(v) == \E i \in DOMAIN events : events[i].conv = v

HInv == HandlesAreNamed /\ HandlesAreDropped

LEMMA QueueMembers ==
  ASSUME NEW S, NEW q \in Seq(S), NEW e \in S
  PROVE  /\ \A i \in DOMAIN q : i \in DOMAIN Append(q, e) /\ Append(q, e)[i] = q[i]
         /\ Len(q) + 1 \in DOMAIN Append(q, e) /\ Append(q, e)[Len(q) + 1] = e
         /\ \A i \in DOMAIN q : i # 1 => i - 1 \in DOMAIN Tail(q) /\ Tail(q)[i - 1] = q[i]
         /\ q # <<>> => Head(q) = q[1]
OBVIOUS

(* What waits goes on waiting when an event is emitted, which waits too. *)
LEMMA EmitAwaits ==
  ASSUME TypeOK, sender, NEW c \in Chats \cup {None}, NEW w \in Convs, Emit(End(c, w))
  PROVE  Awaited(w)' /\ \A v \in Convs : Awaited(v) => Awaited(v)'
<1>1. End(c, w) \in [chat : Chats \cup {None}, conv : Convs] /\ End(c, w).conv = w
  BY DEF End
<1>2. events \in Seq([chat : Chats \cup {None}, conv : Convs])
  BY DEF TypeOK
<1>3. events' = Append(events, End(c, w))
  BY DEF Emit
<1> QED BY <1>1, <1>2, <1>3, QueueMembers DEF Awaited

(* The first event that is taken out can be missed by its conversation only. *)
LEMMA TailAwaits ==
  ASSUME TypeOK, NEW v \in Convs, Awaited(v), v # Head(events).conv, events' = Tail(events)
  PROVE  Awaited(v)'
<1>1. events \in Seq([chat : Chats \cup {None}, conv : Convs])
  BY DEF TypeOK
<1>2. PICK i \in DOMAIN events : events[i].conv = v
  BY DEF Awaited
<1>3. events # <<>>
  BY <1>1, <1>2
<1>4. i # 1
  BY <1>1, <1>2, <1>3, QueueMembers
<1>5. i - 1 \in DOMAIN Tail(events) /\ Tail(events)[i - 1] = events[i]
  BY <1>1, <1>2, <1>4, QueueMembers
<1> QED BY <1>2, <1>5 DEF Awaited

LEMMA InitHInv == Init => HInv
BY DEF Init, HInv, HandlesAreNamed, HandlesAreDropped

LEMMA ReaderHInv ==
  ASSUME TypeOK, HInv, (\E v \in Convs : ReceiveChat(v) \/ CancelChat(v)) \/ Dispatch
  PROVE  HInv'
<1> USE DEF HInv
<1>1. CASE \E v \in Convs : ReceiveChat(v)
  BY <1>1 DEF ReceiveChat, HandlesAreNamed, HandlesAreDropped
<1>2. CASE \E v \in Convs : CancelChat(v)
  BY <1>2 DEF CancelChat, HandlesAreNamed, HandlesAreDropped, TypeOK
<1>3. CASE Refuse
  <2>1. reader.conv \in Convs
    BY <1>3 DEF Refuse, TypeOK
  <2>2. sender => \A v \in Convs : Awaited(v) => Awaited(v)'
    BY <1>3, <2>1, EmitAwaits DEF Refuse
  <2> QED BY <1>3, <2>2 DEF Refuse, HandlesAreNamed, HandlesAreDropped, Awaited
<1>4. ASSUME NEW c \in Chats, Accept(c)
      PROVE  HInv'
  <2>1. reader.conv \in Convs
    BY <1>4 DEF Accept, TypeOK
  <2>2. HandlesAreNamed'
    BY <1>4, <2>1 DEF Accept, TypeOK, HandlesAreNamed
  <2>3. HandlesAreDropped'
    BY <1>4, <2>1 DEF Accept, TypeOK, HandlesAreNamed, HandlesAreDropped
  <2> QED BY <2>2, <2>3
<1>5. ASSUME NEW c \in Chats, AcceptFails(c)
      PROVE  HInv'
  <2>1. PICK w \in Convs : w = reader.conv
    BY <1>5 DEF AcceptFails, TypeOK
  <2>2. HandlesAreNamed'
    BY <1>5, <2>1 DEF AcceptFails, TypeOK, HandlesAreNamed
  <2>3. sender => Awaited(w)' /\ \A v \in Convs : Awaited(v) => Awaited(v)'
    <3>1. Emit(End(c, w)) /\ c \in Chats \cup {None}
      BY <1>5, <2>1 DEF AcceptFails
    <3> QED BY <2>1, <3>1, EmitAwaits
  <2>4. HandlesAreDropped'
    <3>1. ASSUME NEW v \in Convs, sender', handles'[v] # None, v # w
          PROVE  chat'[handles'[v]] \in {"running", "panicked"} \/ Awaited(v)'
      <4>1. handles'[v] = handles[v] /\ handles[v] \in Chats /\ handles[v] # c /\ sender
        BY <1>5, <2>1, <3>1 DEF AcceptFails, TypeOK, HandlesAreNamed
      <4>2. chat'[handles'[v]] = chat[handles[v]]
        BY <1>5, <4>1 DEF AcceptFails, TypeOK
      <4> QED BY <2>3, <3>1, <4>1, <4>2 DEF HandlesAreDropped, Awaited
    <3>2. sender' => Awaited(w)'
      BY <1>5, <2>3 DEF AcceptFails
    <3> QED BY <3>1, <3>2 DEF HandlesAreDropped, Awaited
  <2> QED BY <2>2, <2>4
<1> QED BY <1>1, <1>2, <1>3, <1>4, <1>5 DEF Dispatch

LEMMA ThreadHInv ==
  ASSUME TypeOK, HInv, NEW c \in Chats, Thread(c)
  PROVE  HInv'
<1> USE DEF HInv
<1>1. CASE ChatEnds(c)
  <2>1. conv[c] \in Convs
    BY DEF TypeOK
  <2>2. sender => Awaited(conv[c])' /\ \A v \in Convs : Awaited(v) => Awaited(v)'
    BY <1>1, <2>1, EmitAwaits DEF ChatEnds
  <2>3. HandlesAreNamed'
    BY <1>1 DEF ChatEnds, TypeOK, HandlesAreNamed
  <2>4. HandlesAreDropped'
    BY <1>1, <2>2 DEF ChatEnds, TypeOK, HandlesAreNamed, HandlesAreDropped, Awaited
  <2> QED BY <2>3, <2>4
<1>2. CASE ReleaseSlot(c)
  BY <1>2 DEF ReleaseSlot, TypeOK, HandlesAreNamed, HandlesAreDropped
<1>3. CASE ChatPanics(c)
  BY <1>3 DEF ChatPanics, TypeOK, HandlesAreNamed, HandlesAreDropped
<1> QED BY <1>1, <1>2, <1>3 DEF Thread

LEMMA SenderHInv ==
  ASSUME TypeOK, HInv, SendTask \/ ScreenFails \/ PaneRemoved \/ CloseSession
  PROVE  HInv'
<1> USE DEF HInv
<1>1. CASE Forward
  <2>1. HandlesAreNamed'
    BY <1>1 DEF Forward, TypeOK, HandlesAreNamed
  <2>2. ASSUME NEW v \in Convs, sender, handles'[v] # None
        PROVE  v # Head(events).conv /\ handles'[v] = handles[v]
    BY <1>1, <2>2 DEF Forward, TypeOK
  <2>3. HandlesAreDropped'
    BY <1>1, <2>2, TailAwaits DEF Forward, HandlesAreDropped, Awaited
  <2> QED BY <2>1, <2>3
<1>2. CASE ForwardFails
  BY <1>2 DEF ForwardFails, TypeOK, HandlesAreNamed, HandlesAreDropped
<1>3. CASE SenderStops \/ ScreenFails \/ PaneRemoved \/ CloseSession
  BY <1>3 DEF SenderStops, ScreenFails, PaneRemoved, CloseSession, HandlesAreNamed, HandlesAreDropped
<1> QED BY <1>1, <1>2, <1>3 DEF SendTask

(* A cancel handle belongs to a running chat, or an end event that drops   *)
(* it waits in the queue; this also rests on each handle being stored      *)
(* under its own chat's conversation.                                      *)
THEOREM SessionDropsHandles == Spec => []HandlesAreDropped
<1>1. ASSUME TypeOK, HInv, [Next]_vars
      PROVE  HInv'
  <2>1. CASE Next
    BY <1>1, <2>1, ReaderHInv, ThreadHInv, SenderHInv DEF Next
  <2>2. CASE UNCHANGED vars
    BY <1>1, <2>2 DEF vars, HInv, HandlesAreNamed, HandlesAreDropped
  <2> QED BY <1>1, <2>1, <2>2
<1>2. HInv => HandlesAreDropped
  BY DEF HInv
<1> QED BY <1>1, <1>2, InitHInv, SessionTypeCorrect, PTL DEF Spec
=============================================================================
