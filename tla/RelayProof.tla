----------------------------- MODULE RelayProof -----------------------------
(***************************************************************************)
(* Relay pairs every client socket with exactly one host of its token, for *)
(* any number of tokens, hosts and clients and any MAX_PENDING.            *)
(***************************************************************************)
EXTENDS Relay, FiniteSetTheorems, TLAPS

(* Connections that have not registered own nothing; those that have, have *)
(* a token.                                                                *)
TokensAreKnown ==
  /\ \A h \in Hosts : host[h] = "idle" => chan[h] = "empty"
  /\ \A h \in Hosts : host[h] \in {"waiting", "expired", "cleanup", "relaying"} => hostTok[h] \in Tokens
  /\ \A c \in Clients : client[c] # "idle" => clientTok[c] \in Tokens

IInv == TypeOK /\ EntryIsOpen /\ PairedOnce /\ TokensAreKnown

(* Registering one more token in a map that is not full respects the limit. *)
LEMMA RoomForOne ==
  ASSUME NEW S, IsFiniteSet(S), NEW T, NEW t, T \subseteq S \cup {t},
         NEW m \in Nat, Cardinality(S) < m
  PROVE  Cardinality(T) <= m
<1>1. IsFiniteSet(S \cup {t}) /\ Cardinality(S \cup {t}) \in Nat
  BY FS_AddElement, FS_CardinalityType
<1>2. Cardinality(S \cup {t}) <= Cardinality(S) + 1
  BY FS_AddElement, FS_CardinalityType
<1>3. Cardinality(T) <= Cardinality(S \cup {t}) /\ Cardinality(T) \in Nat
  BY <1>1, FS_Subset, FS_CardinalityType
<1> QED BY <1>1, <1>2, <1>3, FS_CardinalityType

LEMMA SmallerMapFits ==
  ASSUME NEW S, IsFiniteSet(S), NEW T, T \subseteq S,
         NEW m \in Nat, Cardinality(S) <= m
  PROVE  Cardinality(T) <= m
BY FS_Subset, FS_CardinalityType

LEMMA PendingFinite == IsFiniteSet(Pending)
BY FS_Subset, RelayAssumption DEF Pending

-----------------------------------------------------------------------------
LEMMA InitIInv == Init => IInv
<1> SUFFICES ASSUME Init PROVE IInv
  OBVIOUS
<1> USE RelayAssumption
<1>1. Pending = {}
  BY DEF Init, Pending
<1>2. Cardinality(Pending) = 0
  BY <1>1, FS_EmptySet
<1>3. TypeOK
  BY <1>2 DEF Init, TypeOK, HostState, ClientState, Leg, LegState
<1>4. EntryIsOpen
  BY DEF Init, EntryIsOpen
<1>5. PairedOnce
  BY DEF Init, PairedOnce
<1>6. TokensAreKnown
  BY DEF Init, TokensAreKnown
<1> QED BY <1>3, <1>4, <1>5, <1>6 DEF IInv

LEMMA HostConnectIInv ==
  ASSUME IInv, NEW h \in Hosts, NEW t \in Tokens, HostConnect(h, t)
  PROVE  IInv'
<1> USE RelayAssumption DEF IInv
<1>1. Pending' \subseteq Pending \cup {t}
  BY DEF HostConnect, Pending, TypeOK
<1>2. Cardinality(Pending') <= MaxPending
  BY <1>1, PendingFinite, RoomForOne DEF HostConnect
<1>3. chan' = [g \in Hosts |-> IF g = pending[t] THEN "closed" ELSE chan[g]]
  BY DEF HostConnect, DropSender, TypeOK
<1>4. pending[t] # h
  BY DEF HostConnect, EntryIsOpen
<1>5. TypeOK'
  BY <1>2, <1>3 DEF HostConnect, TypeOK, HostState
<1>6. EntryIsOpen'
  <2> SUFFICES ASSUME NEW u \in Tokens, pending'[u] # None
               PROVE  /\ hostTok'[pending'[u]] = u
                      /\ chan'[pending'[u]] = "empty"
                      /\ host'[pending'[u]] \in {"waiting", "expired", "cleanup"}
    BY DEF EntryIsOpen
  <2>1. CASE u = t
    BY <1>3, <1>4, <2>1 DEF HostConnect, TypeOK, TokensAreKnown
  <2>2. CASE u # t
    <3>1. pending'[u] = pending[u] /\ pending[u] \in Hosts
      BY <2>2 DEF HostConnect, TypeOK
    <3>2. pending[u] # h /\ pending[u] # pending[t]
      BY <3>1, <2>2 DEF HostConnect, EntryIsOpen
    <3> QED BY <1>3, <3>1, <3>2 DEF HostConnect, TypeOK, EntryIsOpen
  <2> QED BY <2>1, <2>2
<1>7. \A g \in Hosts : chan'[g] \in Clients => chan'[g] = chan[g]
  BY <1>3
<1>8. \A g \in Hosts : chan[g] \in Clients => chan'[g] = chan[g] /\ g # h
  BY <1>3 DEF HostConnect, EntryIsOpen, TokensAreKnown
<1>9. PairedOnce'
  <2>1. \A c \in Clients : client'[c] = "handed" =>
          \E g \in Hosts : chan'[g] = c
    <3> SUFFICES ASSUME NEW c \in Clients, client[c] = "handed"
                 PROVE  \E g \in Hosts : chan'[g] = c
                          
      BY DEF HostConnect
    <3>1. PICK g \in Hosts : chan[g] = c
      BY DEF PairedOnce
    <3> QED BY <1>8, <3>1 DEF HostConnect, TypeOK
  <2>2. \A g \in Hosts : chan'[g] \in Clients => hostTok'[g] = hostTok[g]
    BY <1>7, <1>8 DEF HostConnect, TypeOK
  <2> QED BY <1>7, <1>8, <2>1, <2>2 DEF PairedOnce, HostConnect
<1>10. TokensAreKnown'
  BY <1>3 DEF HostConnect, TypeOK, TokensAreKnown, EntryIsOpen
<1> QED BY <1>5, <1>6, <1>9, <1>10

LEMMA HostCleanupIInv ==
  ASSUME IInv, NEW h \in Hosts, HostCleanup(h)
  PROVE  IInv'
<1> USE RelayAssumption DEF IInv
<1> DEFINE t == hostTok[h]
<1>0. t \in Tokens
  BY DEF HostCleanup, TokensAreKnown
<1>1. Pending' \subseteq Pending
  BY <1>0 DEF HostCleanup, Pending, TypeOK
<1>2. Cardinality(Pending') <= MaxPending
  BY <1>1, PendingFinite, SmallerMapFits DEF TypeOK
<1>3. chan' = [g \in Hosts |-> IF g = pending[t] THEN "closed" ELSE chan[g]]
  BY <1>0 DEF HostCleanup, DropSender, TypeOK
<1>4. TypeOK'
  BY <1>0, <1>2, <1>3 DEF HostCleanup, TypeOK, HostState
<1>5. EntryIsOpen'
  <2> SUFFICES ASSUME NEW u \in Tokens, pending'[u] # None
               PROVE  /\ hostTok'[pending'[u]] = u
                      /\ chan'[pending'[u]] = "empty"
                      /\ host'[pending'[u]] \in {"waiting", "expired", "cleanup"}
    BY DEF EntryIsOpen
  <2>1. u # t /\ pending'[u] = pending[u] /\ pending[u] \in Hosts
    BY <1>0 DEF HostCleanup, TypeOK
  <2>2. hostTok[pending[u]] = u
    BY <2>1 DEF EntryIsOpen
  <2>3. pending[u] # h /\ pending[u] # pending[t]
    BY <1>0, <2>1, <2>2 DEF EntryIsOpen
  <2> QED BY <1>3, <2>1, <2>3 DEF HostCleanup, TypeOK, EntryIsOpen
<1>6. \A g \in Hosts : (chan[g] \in Clients \/ chan'[g] \in Clients) => chan'[g] = chan[g]
  BY <1>0, <1>3 DEF EntryIsOpen
<1>7. PairedOnce'
  <2>1. \A c \in Clients : client'[c] = "handed" =>
          \E g \in Hosts : chan'[g] = c
    <3> SUFFICES ASSUME NEW c \in Clients, client[c] = "handed"
                 PROVE  \E g \in Hosts : chan'[g] = c
                          
      BY DEF HostCleanup
    <3>1. PICK g \in Hosts : chan[g] = c
      BY DEF PairedOnce
    <3> QED BY <1>6, <3>1 DEF HostCleanup, TypeOK
  <2> QED BY <1>6, <2>1 DEF PairedOnce, HostCleanup
<1>8. TokensAreKnown'
  BY <1>0, <1>3 DEF HostCleanup, TypeOK, TokensAreKnown, EntryIsOpen
<1> QED BY <1>4, <1>5, <1>7, <1>8

LEMMA ClientTakesIInv ==
  ASSUME IInv, NEW c \in Clients, ClientTakes(c)
  PROVE  IInv'
<1> USE RelayAssumption DEF IInv
<1> DEFINE t == clientTok[c]
           h == pending[t]
<1>0. t \in Tokens /\ h \in Hosts
  BY DEF ClientTakes, TokensAreKnown, TypeOK
<1>1. Pending' \subseteq Pending
  BY <1>0 DEF ClientTakes, Pending, TypeOK
<1>2. Cardinality(Pending') <= MaxPending
  BY <1>1, PendingFinite, SmallerMapFits DEF TypeOK
<1>3. TypeOK'
  <2>1. pending' \in [Tokens -> Hosts \cup {None}]
    BY DEF ClientTakes, TypeOK
  <2>2. client' \in [Clients -> ClientState]
    <3>1. client' = [client EXCEPT ![c] = "handed"] \/ client' = [client EXCEPT ![c] = "lost"]
      BY DEF ClientTakes
    <3> QED BY <3>1 DEF TypeOK, ClientState
  <2>3. chan' \in [Hosts -> {"empty", "closed"} \cup Clients]
    <3>1. chan \in [Hosts -> {"empty", "closed"} \cup Clients]
      BY DEF TypeOK
    <3>2. chan' = [chan EXCEPT ![h] = c] \/ chan' = chan
      BY DEF ClientTakes
    <3> QED BY <3>1, <3>2
  <2> QED BY <1>2, <2>1, <2>2, <2>3 DEF ClientTakes, TypeOK
<1>4. hostTok[h] = t /\ chan[h] = "empty"
  BY <1>0 DEF EntryIsOpen
<1>5. EntryIsOpen'
  <2> SUFFICES ASSUME NEW u \in Tokens, pending'[u] # None
               PROVE  /\ hostTok'[pending'[u]] = u
                      /\ chan'[pending'[u]] = "empty"
                      /\ host'[pending'[u]] \in {"waiting", "expired", "cleanup"}
    BY DEF EntryIsOpen
  <2>1. u # t /\ pending'[u] = pending[u] /\ pending[u] \in Hosts
    BY <1>0 DEF ClientTakes, TypeOK
  <2>2. pending[u] # h
    BY <1>0, <1>4, <2>1 DEF EntryIsOpen
  <2> QED BY <1>0, <2>1, <2>2 DEF ClientTakes, TypeOK, EntryIsOpen
<1>6. \A g \in Hosts : chan[g] # c
  BY DEF ClientTakes, PairedOnce
<1>7. PairedOnce'
  <2>1. CASE host[h] \in {"waiting", "expired"}
    BY <1>0, <1>4, <1>6, <2>1 DEF ClientTakes, TypeOK, PairedOnce
  <2>2. CASE host[h] \notin {"waiting", "expired"}
    BY <1>0, <1>6, <2>2 DEF ClientTakes, TypeOK, PairedOnce
  <2> QED BY <2>1, <2>2
<1>8. TokensAreKnown'
  BY <1>0 DEF ClientTakes, TypeOK, TokensAreKnown
<1> QED BY <1>3, <1>5, <1>7, <1>8

(* The remaining host actions move one host along and leave map and        *)
(* channels alone.                                                         *)
LEMMA HostStepIInv ==
  ASSUME IInv, NEW h \in Hosts,
         HostRejected(h) \/ HostPaired(h) \/ HostTimesOut(h) \/ HostDropsReceiver(h)
           \/ RelayReturns(h)
  PROVE  IInv'
<1> USE RelayAssumption DEF IInv
<1>1. UNCHANGED <<pending, chan, hostTok, client, clientTok, up, latest>>
  BY DEF HostRejected, HostPaired, HostTimesOut, HostDropsReceiver, RelayReturns
<1>2. TypeOK'
  <2>1. Pending' = Pending
    BY <1>1 DEF Pending
  <2>2. host' \in [Hosts -> HostState]
    BY DEF HostRejected, HostPaired, HostTimesOut, HostDropsReceiver, RelayReturns, TypeOK,
           HostState
  <2>3. leg' \in [Hosts -> [Leg -> LegState]]
    <3>1. CASE HostPaired(h)
      <4>1. [l \in Leg |-> "running"] \in [Leg -> LegState]
        BY DEF LegState
      <4> QED BY <3>1, <4>1 DEF HostPaired, TypeOK
    <3>2. CASE ~HostPaired(h)
      BY <3>2 DEF HostRejected, HostTimesOut, HostDropsReceiver, RelayReturns, TypeOK
    <3> QED BY <3>1, <3>2
  <2> QED BY <1>1, <2>1, <2>2, <2>3 DEF TypeOK
<1>3. EntryIsOpen'
  BY <1>1 DEF HostRejected, HostPaired, HostTimesOut, HostDropsReceiver, RelayReturns,
              EntryIsOpen, TypeOK
<1>4. PairedOnce'
  BY <1>1 DEF PairedOnce
<1>5. TokensAreKnown'
  BY <1>1 DEF HostRejected, HostPaired, HostTimesOut, HostDropsReceiver, RelayReturns,
              TokensAreKnown, TypeOK
<1> QED BY <1>2, <1>3, <1>4, <1>5

(* The remaining client actions change no pairing. *)
LEMMA ClientStepIInv ==
  ASSUME IInv, NEW c \in Clients,
         ClientMisses(c) \/ ClientTick(c) \/ ClientDeadline(c)
           \/ \E t \in Tokens : ClientConnect(c, t)
  PROVE  IInv'
<1> USE RelayAssumption DEF IInv
<1>1. UNCHANGED <<pending, host, chan, hostTok, leg, up, latest>>
  BY DEF ClientMisses, ClientTick, ClientDeadline, ClientConnect
<1>2. TypeOK'
  BY <1>1 DEF ClientMisses, ClientTick, ClientDeadline, ClientConnect, TypeOK, Pending,
              ClientState
<1>3. EntryIsOpen'
  BY <1>1 DEF EntryIsOpen
<1>4. client[c] # "handed" /\ client'[c] # "handed"
  BY DEF ClientMisses, ClientTick, ClientDeadline, ClientConnect, TypeOK
<1>5. \A d \in Clients \ {c} : client'[d] = client[d] /\ clientTok'[d] = clientTok[d]
  BY DEF ClientMisses, ClientTick, ClientDeadline, ClientConnect, TypeOK
<1>6. PairedOnce'
  BY <1>1, <1>4, <1>5 DEF PairedOnce
<1>7. TokensAreKnown'
  BY <1>1 DEF ClientMisses, ClientTick, ClientDeadline, ClientConnect, TypeOK,
              TokensAreKnown
<1> QED BY <1>2, <1>3, <1>6, <1>7

(* Forwarding and the network touch neither the map nor the tasks. *)
LEMMA LegStepIInv ==
  ASSUME IInv, UNCHANGED <<pending, host, hostTok, chan, client, clientTok, latest>>,
         leg' \in [Hosts -> [Leg -> LegState]], up' \in [Hosts \cup Clients -> BOOLEAN]
  PROVE  IInv'
BY DEF IInv, TypeOK, Pending, EntryIsOpen, PairedOnce, TokensAreKnown

LEMMA NextIInv == IInv /\ [Next]_vars => IInv'
<1> SUFFICES ASSUME IInv, [Next]_vars PROVE IInv'
  OBVIOUS
<1>1. ASSUME NEW h \in Hosts, NEW t \in Tokens, HostConnect(h, t) PROVE IInv'
  BY <1>1, HostConnectIInv
<1>2. ASSUME NEW h \in Hosts, HostCleanup(h) PROVE IInv'
  BY <1>2, HostCleanupIInv
<1>3. ASSUME NEW h \in Hosts,
             HostRejected(h) \/ HostPaired(h) \/ HostTimesOut(h) \/ HostDropsReceiver(h) \/ RelayReturns(h)
      PROVE  IInv'
  BY <1>3, HostStepIInv
<1>4. ASSUME NEW h \in Hosts, NEW l \in Leg, LegSourceClosed(h, l) \/ LegSendFails(h, l)
      PROVE  IInv'
  <2>1. leg' \in [Hosts -> [Leg -> LegState]]
    BY <1>4 DEF LegSourceClosed, LegSendFails, IInv, TypeOK, Leg, LegState
  <2> QED BY <1>4, <2>1, LegStepIInv DEF LegSourceClosed, LegSendFails, IInv, TypeOK
<1>5. ASSUME NEW h \in Hosts, HostPeerGone(h) PROVE IInv'
  BY <1>5, LegStepIInv DEF HostPeerGone, IInv, TypeOK
<1>6. ASSUME NEW c \in Clients, ClientTakes(c) PROVE IInv'
  BY <1>6, ClientTakesIInv
<1>7. ASSUME NEW c \in Clients,
             ClientMisses(c) \/ ClientTick(c) \/ ClientDeadline(c)
               \/ \E t \in Tokens : ClientConnect(c, t)
      PROVE  IInv'
  BY <1>7, ClientStepIInv
<1>8. ASSUME NEW c \in Clients, ClientPeerGone(c) PROVE IInv'
  BY <1>8, LegStepIInv DEF ClientPeerGone, IInv, TypeOK
<1>9. CASE UNCHANGED vars
  BY <1>9, LegStepIInv DEF vars, IInv, TypeOK
<1> QED BY <1>1, <1>2, <1>3, <1>4, <1>5, <1>6, <1>7, <1>8, <1>9 DEF Next

(* The inductive invariant of the relay: types, the map's limit, and both  *)
(* ends of every pairing.                                                  *)
THEOREM RelayInvariant == Spec => []IInv
BY InitIInv, NextIInv, PTL DEF Spec

(* Types hold and the map never exceeds MAX_PENDING (host_ws's check and   *)
(* insert are one critical section).                                       *)
THEOREM RelayTypeCorrect == Spec => []TypeOK
<1>1. IInv => TypeOK
  BY DEF IInv
<1> QED BY <1>1, RelayInvariant, PTL

(* Whatever the interleaving of connections, timeouts and cleanups, a      *)
(* client's socket goes to exactly one host of its token and that host     *)
(* relays it (host_ws, client_ws).                                         *)
THEOREM RelayPairsOnce == Spec => [](EntryIsOpen /\ PairedOnce)
<1>1. IInv => EntryIsOpen /\ PairedOnce
  BY DEF IInv
<1> QED BY <1>1, RelayInvariant, PTL

(* An entry of the map always is the open channel of a host that nobody    *)
(* has taken (host_ws, client_ws).                                         *)
THEOREM RelayEntriesOpen == Spec => []EntryIsOpen
<1>1. IInv => EntryIsOpen
  BY DEF IInv
<1> QED BY <1>1, RelayInvariant, PTL

-----------------------------------------------------------------------------
(* Connections that have not presented a token are new to the rendezvous. *)
NewcomersHaveNoToken ==
  /\ \A h \in Hosts : host[h] = "idle" => hostTok[h] = None
  /\ \A c \in Clients : client[c] = "idle" => clientTok[c] = None

LEMMA InitNewcomers == Init => NewcomersHaveNoToken
BY DEF Init, NewcomersHaveNoToken

LEMMA NextNewcomers == TypeOK /\ NewcomersHaveNoToken /\ [Next]_vars => NewcomersHaveNoToken'
<1> SUFFICES ASSUME TypeOK, NewcomersHaveNoToken, [Next]_vars PROVE NewcomersHaveNoToken'
  OBVIOUS
<1> USE DEF TypeOK, NewcomersHaveNoToken
<1>1. ASSUME NEW h \in Hosts, NEW t \in Tokens, HostConnect(h, t) PROVE NewcomersHaveNoToken'
  BY <1>1 DEF HostConnect
<1>2. ASSUME NEW h \in Hosts,
             HostRejected(h) \/ HostPaired(h) \/ HostTimesOut(h) \/ HostDropsReceiver(h)
               \/ HostCleanup(h) \/ RelayReturns(h)
      PROVE  NewcomersHaveNoToken'
  BY <1>2 DEF HostRejected, HostPaired, HostTimesOut, HostDropsReceiver, HostCleanup, RelayReturns
<1>3. ASSUME NEW h \in Hosts, NEW l \in Leg, LegSourceClosed(h, l) \/ LegSendFails(h, l)
      PROVE  NewcomersHaveNoToken'
  BY <1>3 DEF LegSourceClosed, LegSendFails
<1>4. ASSUME NEW c \in Clients, NEW t \in Tokens, ClientConnect(c, t) PROVE NewcomersHaveNoToken'
  BY <1>4 DEF ClientConnect
<1>5. ASSUME NEW c \in Clients, ClientTakes(c) PROVE NewcomersHaveNoToken'
  <2>1. client' = [client EXCEPT ![c] = "handed"] \/ client' = [client EXCEPT ![c] = "lost"]
    BY <1>5 DEF ClientTakes
  <2> QED BY <1>5, <2>1 DEF ClientTakes
<1>6. ASSUME NEW c \in Clients, ClientMisses(c) \/ ClientTick(c) \/ ClientDeadline(c)
      PROVE  NewcomersHaveNoToken'
  BY <1>6 DEF ClientMisses, ClientTick, ClientDeadline
<1>7. CASE \/ \E h \in Hosts : HostPeerGone(h)
           \/ \E c \in Clients : ClientPeerGone(c)
           \/ UNCHANGED vars
  BY <1>7 DEF HostPeerGone, ClientPeerGone, vars
<1> QED BY <1>1, <1>2, <1>3, <1>4, <1>5, <1>6, <1>7 DEF Next

(* Steps that touch neither the map nor the channels, send no client an    *)
(* answer and drop no receiver are invisible to the rendezvous.            *)
LEMMA InvisibleSteps ==
  ASSUME IInv, UNCHANGED <<pending, chan, hostTok, clientTok>>, Answered' = Answered,
         \A t \in Tokens : pending[t] # None =>
           (host'[pending[t]] = "cleanup" <=> host[pending[t]] = "cleanup")
  PROVE  UNCHANGED Promise!vars
<1>1. Offers' = Offers
  BY DEF Offers, OnOffer
<1>2. Offered' = Offered /\ Met' = Met
  BY DEF Offered, Met
<1> QED BY <1>1, <1>2 DEF Promise!vars

LEMMA HostConnectOffers ==
  ASSUME IInv, NewcomersHaveNoToken, NEW h \in Hosts, NEW t \in Tokens, HostConnect(h, t)
  PROVE  Promise!Offer(h, t)
<1> USE RelayAssumption DEF IInv, TypeOK
<1>1. h \notin Offered /\ Offered' = Offered \cup {h}
  BY DEF NewcomersHaveNoToken, HostConnect, Offered
<1>2. Answered' = Answered /\ clientTok' = clientTok
  BY DEF HostConnect, Answered
<1>3. Met' = Met
  <2>1. chan' = [g \in Hosts |-> IF g = pending[t] THEN "closed" ELSE chan[g]]
    BY DEF HostConnect, DropSender
  <2>2. \A g \in Hosts : chan[g] \in Clients => g # pending[t]
    BY DEF EntryIsOpen
  <2> QED BY <2>1, <2>2 DEF Met
<1>4. Offers' = [Offers EXCEPT ![t] = h]
  <2> SUFFICES ASSUME NEW u \in Tokens
               PROVE  OnOffer(u)' = IF u = t THEN h ELSE OnOffer(u)
    BY DEF Offers
  <2>1. CASE u = t
    BY <2>1 DEF HostConnect, OnOffer
  <2>2. CASE u # t
    BY <2>2 DEF HostConnect, OnOffer, EntryIsOpen
  <2> QED BY <2>1, <2>2
<1> QED BY <1>1, <1>2, <1>3, <1>4 DEF Promise!Offer

(* Cleaning up takes whatever the token has on offer off the map. *)
LEMMA HostCleanupWithdraws ==
  ASSUME IInv, NEW h \in Hosts, HostCleanup(h)
  PROVE  Promise!Withdraw(hostTok[h])
<1> USE RelayAssumption DEF IInv, TypeOK
<1> DEFINE t == hostTok[h]
<1>0. t \in Tokens
  BY DEF HostCleanup, TokensAreKnown
<1>1. Offered' = Offered /\ Answered' = Answered /\ clientTok' = clientTok
  BY DEF HostCleanup, Offered, Answered
<1>2. Met' = Met
  <2>1. chan' = [g \in Hosts |-> IF g = pending[t] THEN "closed" ELSE chan[g]]
    BY <1>0 DEF HostCleanup, DropSender
  <2>2. \A g \in Hosts : chan[g] \in Clients => g # pending[t]
    BY <1>0 DEF EntryIsOpen
  <2> QED BY <2>1, <2>2 DEF Met
<1>3. Offers' = [Offers EXCEPT ![t] = None]
  <2> SUFFICES ASSUME NEW u \in Tokens
               PROVE  OnOffer(u)' = IF u = t THEN None ELSE OnOffer(u)
    BY <1>0 DEF Offers
  <2>1. CASE u = t
    BY <1>0, <2>1 DEF HostCleanup, OnOffer
  <2>2. CASE u # t
    BY <1>0, <2>2 DEF HostCleanup, OnOffer, EntryIsOpen
  <2> QED BY <2>1, <2>2
<1> QED BY <1>1, <1>2, <1>3 DEF Promise!Withdraw

(* Dropping the receiver withdraws a host that is still in the map. *)
LEMMA HostDropsReceiverWithdraws ==
  ASSUME IInv, NEW h \in Hosts, HostDropsReceiver(h)
  PROVE  Promise!Withdraw(hostTok[h]) \/ UNCHANGED Promise!vars
<1> USE RelayAssumption DEF IInv, TypeOK
<1> DEFINE t == hostTok[h]
<1>0. t \in Tokens
  BY DEF HostDropsReceiver, TokensAreKnown
<1>1. Offered' = Offered /\ Answered' = Answered /\ clientTok' = clientTok /\ Met' = Met
  BY DEF HostDropsReceiver, Offered, Answered, Met
<1>2. CASE pending[t] = h
  <2>1. \A u \in Tokens : u # t => pending[u] # h
    BY DEF EntryIsOpen
  <2>2. Offers' = [Offers EXCEPT ![t] = None]
    BY <1>0, <1>2, <2>1 DEF HostDropsReceiver, Offers, OnOffer
  <2> QED BY <1>1, <2>2 DEF Promise!Withdraw
<1>3. CASE pending[t] # h
  <2>1. \A u \in Tokens : pending[u] # h
    BY <1>3 DEF EntryIsOpen
  <2> QED BY <2>1, <1>1, InvisibleSteps DEF HostDropsReceiver
<1> QED BY <1>2, <1>3

(* A client that takes an entry meets its host, or is told no when that    *)
(* host has just dropped its receiver.                                     *)
LEMMA ClientTakesMeets ==
  ASSUME IInv, NEW c \in Clients, ClientTakes(c)
  PROVE  Promise!Meet(c) \/ Promise!TellNo(c)
<1> USE RelayAssumption DEF IInv, TypeOK
<1> DEFINE t == clientTok[c]
           h == pending[t]
<1>0. t \in Tokens /\ h \in Hosts /\ t # None
  BY DEF ClientTakes, TokensAreKnown
<1>1. /\ hostTok[h] = t /\ chan[h] = "empty" /\ host[h] \in {"waiting", "expired", "cleanup"}
      /\ \A u \in Tokens : u # t => pending[u] # h
  BY <1>0 DEF EntryIsOpen
<1>2. Offered' = Offered /\ clientTok' = clientTok
  BY DEF ClientTakes, Offered
<1>3. c \notin Answered /\ Answered' = Answered \cup {c}
  <2>1. client' = [client EXCEPT ![c] = "handed"] \/ client' = [client EXCEPT ![c] = "lost"]
    BY DEF ClientTakes
  <2> QED BY <2>1 DEF ClientTakes, Answered
<1>4. Offers' = [Offers EXCEPT ![t] = None]
  BY <1>0 DEF ClientTakes, Offers, OnOffer
<1>5. CASE host[h] \in {"waiting", "expired"}
  <2>1. Offers[t] = h
    BY <1>0, <1>5 DEF Offers, OnOffer
  <2>2. Met' = [Met EXCEPT ![h] = c]
    BY <1>0, <1>5 DEF ClientTakes, Met
  <2> QED BY <1>0, <1>2, <1>3, <1>4, <2>1, <2>2 DEF Promise!Meet, Promise!Asking
<1>6. CASE host[h] = "cleanup"
  <2>1. Offers[t] = None
    BY <1>0, <1>6 DEF Offers, OnOffer
  <2>2. Offers' = Offers
    BY <1>4, <2>1 DEF Offers
  <2>3. Met' = Met
    BY <1>0, <1>6 DEF ClientTakes, Met
  <2> QED BY <1>0, <1>2, <1>3, <2>2, <2>3 DEF Promise!TellNo, Promise!Asking
<1> QED BY <1>1, <1>5, <1>6

LEMMA NextPromise == IInv /\ NewcomersHaveNoToken /\ [Next]_vars => [Promise!Next]_(Promise!vars)
<1> SUFFICES ASSUME IInv, NewcomersHaveNoToken, [Next]_vars PROVE [Promise!Next]_(Promise!vars)
  OBVIOUS
<1> USE DEF IInv, TypeOK
<1>1. ASSUME NEW h \in Hosts, NEW t \in Tokens, HostConnect(h, t) PROVE Promise!Next
  BY <1>1, HostConnectOffers DEF Promise!Next
<1>2. ASSUME NEW h \in Hosts, HostCleanup(h) PROVE Promise!Next
  <2>1. hostTok[h] \in Tokens
    BY <1>2 DEF HostCleanup, TokensAreKnown
  <2> QED BY <1>2, <2>1, HostCleanupWithdraws DEF Promise!Next
<1>3. ASSUME NEW h \in Hosts, HostDropsReceiver(h) PROVE [Promise!Next]_(Promise!vars)
  <2>1. hostTok[h] \in Tokens
    BY <1>3 DEF HostDropsReceiver, TokensAreKnown
  <2> QED BY <1>3, <2>1, HostDropsReceiverWithdraws DEF Promise!Next
<1>4. ASSUME NEW c \in Clients, ClientTakes(c) PROVE Promise!Next
  BY <1>4, ClientTakesMeets DEF Promise!Next
<1>5. ASSUME NEW c \in Clients, NEW t \in Tokens, ClientConnect(c, t) PROVE Promise!Next
  <2>1. clientTok[c] = None
    BY <1>5 DEF ClientConnect, NewcomersHaveNoToken
  <2>2. Answered' = Answered
    BY <1>5 DEF ClientConnect, Answered
  <2>3. Offers' = Offers /\ Offered' = Offered /\ Met' = Met
    BY <1>5 DEF ClientConnect, Offers, OnOffer, Offered, Met
  <2> QED BY <1>5, <2>1, <2>2, <2>3 DEF ClientConnect, Promise!Next, Promise!Ask
<1>6. ASSUME NEW c \in Clients, ClientDeadline(c) PROVE Promise!Next
  <2>1. c \notin Answered /\ Answered' = Answered \cup {c}
    BY <1>6 DEF ClientDeadline, Answered
  <2>2. Offers' = Offers /\ Offered' = Offered /\ Met' = Met /\ clientTok' = clientTok
    BY <1>6 DEF ClientDeadline, Offers, OnOffer, Offered, Met
  <2>3. clientTok[c] # None
    BY <1>6, RelayAssumption DEF ClientDeadline, TokensAreKnown
  <2> QED BY <2>1, <2>2, <2>3 DEF Promise!Next, Promise!TellNo, Promise!Asking
<1>7. ASSUME NEW h \in Hosts,
             HostRejected(h) \/ HostPaired(h) \/ HostTimesOut(h) \/ RelayReturns(h)
      PROVE  UNCHANGED Promise!vars
  <2>1. Answered' = Answered
    BY <1>7 DEF HostRejected, HostPaired, HostTimesOut, RelayReturns, Answered
  <2>2. host' = [host EXCEPT ![h] = host'[h]] /\ host[h] # "cleanup" /\ host'[h] # "cleanup"
    BY <1>7 DEF HostRejected, HostPaired, HostTimesOut, RelayReturns
  <2> QED BY <1>7, <2>1, <2>2, InvisibleSteps
       DEF HostRejected, HostPaired, HostTimesOut, RelayReturns
<1>8. ASSUME NEW c \in Clients, ClientMisses(c) \/ ClientTick(c) PROVE UNCHANGED Promise!vars
  <2>1. Answered' = Answered
    BY <1>8 DEF ClientMisses, ClientTick, Answered
  <2> QED BY <1>8, <2>1, InvisibleSteps DEF ClientMisses, ClientTick
<1>9. CASE \/ \E h \in Hosts, l \in Leg : LegSourceClosed(h, l) \/ LegSendFails(h, l)
           \/ \E h \in Hosts : HostPeerGone(h)
           \/ \E c \in Clients : ClientPeerGone(c)
           \/ UNCHANGED vars
  <2>1. UNCHANGED <<pending, host, hostTok, chan, client, clientTok>>
    BY <1>9 DEF LegSourceClosed, LegSendFails, HostPeerGone, ClientPeerGone, vars
  <2>2. Answered' = Answered
    BY <2>1 DEF Answered
  <2> QED BY <2>1, <2>2, InvisibleSteps
<1> QED BY <1>1, <1>2, <1>3, <1>4, <1>5, <1>6, <1>7, <1>8, <1>9 DEF Next

LEMMA InitPromise == Init => Promise!Init
BY RelayAssumption DEF Init, Promise!Init, Offers, OnOffer, Offered, Answered, Met

(* The relay implements the rendezvous: whatever the order of connections, *)
(* replacements, timeouts, dropped receivers and cleanups, its steps are   *)
(* those of an exclusive meeting or invisible (kaku-relay).                *)
THEOREM RelayKeepsPromise == Spec => KeepsPromise
<1>1. Spec => []NewcomersHaveNoToken
  <2>1. Init /\ [][Next]_vars /\ []IInv => []NewcomersHaveNoToken
    <3>1. IInv => TypeOK
      BY DEF IInv
    <3> QED BY <3>1, InitNewcomers, NextNewcomers, PTL
  <2> QED BY <2>1, RelayInvariant, PTL DEF Spec
<1> QED BY <1>1, RelayInvariant, InitPromise, NextPromise, PTL
     DEF Spec, KeepsPromise, Promise!Spec
=============================================================================
