------------------------------- MODULE Relay -------------------------------
(***************************************************************************)
(* The rendezvous server of crates/kaku-relay.  A desktop connects to      *)
(* /h/{token} and waits for a mobile client on /c/{token}; the two tasks   *)
(* meet in the map `pending`, which holds the sending half of a oneshot    *)
(* channel for each waiting host.  The client takes that sender out of the *)
(* map and pushes its own WebSocket through it; the host task wakes up and *)
(* forwards messages in both directions with two spawned tasks ("legs").   *)
(*                                                                         *)
(* Every host and client here is one WebSocket connection: a desktop that  *)
(* reconnects is another member of Hosts with the same token.  The tasks   *)
(* run on a multi-threaded runtime, so they interleave between any two     *)
(* critical sections of the `pending` mutex.  Timers are abstracted to     *)
(* "may fire now": ten minutes for a host, thirty seconds for a client.    *)
(***************************************************************************)
EXTENDS Naturals, FiniteSets

CONSTANTS
  Tokens,      \* pairing tokens
  Hosts,       \* host connections
  Clients,     \* client connections
  None,        \* no host, no token
  MaxPending   \* MAX_PENDING

ASSUME RelayAssumption ==
  /\ MaxPending \in Nat
  /\ None \notin Tokens
  /\ None \notin Hosts
  /\ Clients \cap {"empty", "closed"} = {}
  /\ IsFiniteSet(Tokens)

VARIABLES
  pending,   \* token -> the host whose oneshot sender is in the map
  host,      \* where each host task is
  hostTok,   \* the token of each host connection
  chan,      \* each host's oneshot: empty, closed (sender dropped) or the client sent
  client,    \* where each client task is
  clientTok, \* the token of each client connection
  leg,       \* the two forwarding tasks of each relaying host
  up,        \* is the remote peer of this connection still there?
  latest     \* history: the last host connection registered for each token

vars == <<pending, host, hostTok, chan, client, clientTok, leg, up, latest>>

HostState   == {"idle", "waiting", "expired", "cleanup", "relaying", "closed"}
ClientState == {"idle", "try", "sleep", "handed", "lost", "gaveUp"}
Leg         == {"h2c", "c2h"}
LegState    == {"none", "running", "ended"}

Pending == {t \in Tokens : pending[t] # None}

(* Values, and the limit the host handler enforces on the map. *)
TypeOK ==
  /\ pending \in [Tokens -> Hosts \cup {None}]
  /\ Cardinality(Pending) <= MaxPending
  /\ host \in [Hosts -> HostState]
  /\ hostTok \in [Hosts -> Tokens \cup {None}]
  /\ chan \in [Hosts -> {"empty", "closed"} \cup Clients]
  /\ client \in [Clients -> ClientState]
  /\ clientTok \in [Clients -> Tokens \cup {None}]
  /\ leg \in [Hosts -> [Leg -> LegState]]
  /\ up \in [Hosts \cup Clients -> BOOLEAN]
  /\ latest \in [Tokens -> Hosts \cup {None}]

Init ==
  /\ pending = [t \in Tokens |-> None]
  /\ host = [h \in Hosts |-> "idle"]
  /\ hostTok = [h \in Hosts |-> None]
  /\ chan = [h \in Hosts |-> "empty"]
  /\ client = [c \in Clients |-> "idle"]
  /\ clientTok = [c \in Clients |-> None]
  /\ leg = [h \in Hosts |-> [l \in Leg |-> "none"]]
  /\ up = [x \in Hosts \cup Clients |-> TRUE]
  /\ latest = [t \in Tokens |-> None]

-----------------------------------------------------------------------------
(* Dropping a oneshot sender wakes its receiver with an error. *)
DropSender(h) ==
  chan' = IF h = None THEN chan ELSE [chan EXCEPT ![h] = "closed"]

(* Mutant: the limit compared with > instead of >=. *)
HostConnectOffByOne(h, t) ==
  /\ host[h] = "idle"
  /\ Cardinality(Pending) <= MaxPending
  /\ DropSender(pending[t])
  /\ pending' = [pending EXCEPT ![t] = h]
  /\ hostTok' = [hostTok EXCEPT ![h] = t]
  /\ latest' = [latest EXCEPT ![t] = h]
  /\ host' = [host EXCEPT ![h] = "waiting"]
  /\ UNCHANGED <<client, clientTok, leg, up>>

(* host_ws: a full map turns the host away; otherwise its sender replaces  *)
(* whatever sender the map held for the token, and the old one is dropped. *)
HostRejected(h) ==
  /\ host[h] = "idle"
  /\ Cardinality(Pending) >= MaxPending
  /\ host' = [host EXCEPT ![h] = "closed"]
  /\ UNCHANGED <<pending, hostTok, chan, client, clientTok, leg, up, latest>>

HostConnect(h, t) ==
  /\ host[h] = "idle"
  /\ Cardinality(Pending) < MaxPending
  /\ DropSender(pending[t])
  /\ pending' = [pending EXCEPT ![t] = h]
  /\ hostTok' = [hostTok EXCEPT ![h] = t]
  /\ latest' = [latest EXCEPT ![t] = h]
  /\ host' = [host EXCEPT ![h] = "waiting"]
  /\ UNCHANGED <<client, clientTok, leg, up>>

(* timeout(rx) resolves to the client's socket: relay_pair spawns the legs. *)
HostPaired(h) ==
  /\ host[h] = "waiting"
  /\ chan[h] \in Clients
  /\ host' = [host EXCEPT ![h] = "relaying"]
  /\ leg' = [leg EXCEPT ![h] = [l \in Leg |-> "running"]]
  /\ UNCHANGED <<pending, hostTok, chan, client, clientTok, up, latest>>

(* timeout(rx) resolves to an error: the ten minutes are over with nothing *)
(* in the channel, or the sender was dropped.                              *)
HostTimesOut(h) ==
  /\ host[h] = "waiting"
  /\ chan[h] \in {"empty", "closed"}
  /\ host' = [host EXCEPT ![h] = "expired"]
  /\ UNCHANGED <<pending, hostTok, chan, client, clientTok, leg, up, latest>>

(* The receiver is dropped after timeout() has looked into it: a socket    *)
(* sent in between is dropped with it.                                     *)
HostDropsReceiver(h) ==
  /\ host[h] = "expired"
  /\ host' = [host EXCEPT ![h] = "cleanup"]
  /\ UNCHANGED <<pending, hostTok, chan, client, clientTok, leg, up, latest>>

(* Mutant: the timeout arm forgets the map. *)
HostCleanupForgets(h) ==
  /\ host[h] = "cleanup"
  /\ host' = [host EXCEPT ![h] = "closed"]
  /\ UNCHANGED <<pending, hostTok, chan, client, clientTok, leg, up, latest>>

(* The cleanup arm removes the token's entry, whoever it belongs to now. *)
HostCleanup(h) ==
  LET t == hostTok[h] IN
  /\ host[h] = "cleanup"
  /\ DropSender(pending[t])
  /\ pending' = [pending EXCEPT ![t] = None]
  /\ host' = [host EXCEPT ![h] = "closed"]
  /\ UNCHANGED <<hostTok, client, clientTok, leg, up, latest>>

-----------------------------------------------------------------------------
ClientConnect(c, t) ==
  /\ client[c] = "idle"
  /\ client' = [client EXCEPT ![c] = "try"]
  /\ clientTok' = [clientTok EXCEPT ![c] = t]
  /\ UNCHANGED <<pending, host, hostTok, chan, leg, up, latest>>

(* Mutant: the sender is used but stays in the map. *)
ClientTakesLeavesEntry(c) ==
  LET h == pending[clientTok[c]] IN
  /\ client[c] = "try"
  /\ h # None
  /\ IF host[h] \in {"waiting", "expired"}
       THEN /\ chan' = [chan EXCEPT ![h] = c]
            /\ client' = [client EXCEPT ![c] = "handed"]
       ELSE /\ client' = [client EXCEPT ![c] = "lost"]
            /\ UNCHANGED chan
  /\ UNCHANGED <<pending, host, hostTok, clientTok, leg, up, latest>>

(* client_ws, the loop body: the sender is taken out of the map and used   *)
(* under the same lock.  A send whose receiver is gone returns the socket, *)
(* which is dropped.                                                       *)
ClientTakes(c) ==
  LET t == clientTok[c]
      h == pending[t]
  IN
  /\ client[c] = "try"
  /\ h # None
  /\ pending' = [pending EXCEPT ![t] = None]
  /\ IF host[h] \in {"waiting", "expired"}
       THEN /\ chan' = [chan EXCEPT ![h] = c]
            /\ client' = [client EXCEPT ![c] = "handed"]
       ELSE /\ client' = [client EXCEPT ![c] = "lost"]
            /\ UNCHANGED chan
  /\ UNCHANGED <<host, hostTok, clientTok, leg, up, latest>>

(* Mutant: the loop polls again without looking at the deadline. *)
ClientMissesSpins(c) ==
  /\ client[c] = "try"
  /\ pending[clientTok[c]] = None
  /\ UNCHANGED vars

ClientMisses(c) ==
  /\ client[c] = "try"
  /\ pending[clientTok[c]] = None
  /\ client' = [client EXCEPT ![c] = "sleep"]
  /\ UNCHANGED <<pending, host, hostTok, chan, clientTok, leg, up, latest>>

(* select!: the next 500 ms tick, or the 30 s deadline. *)
ClientTick(c) ==
  /\ client[c] = "sleep"
  /\ client' = [client EXCEPT ![c] = "try"]
  /\ UNCHANGED <<pending, host, hostTok, chan, clientTok, leg, up, latest>>

ClientDeadline(c) ==
  /\ client[c] = "sleep"
  /\ client' = [client EXCEPT ![c] = "gaveUp"]
  /\ UNCHANGED <<pending, host, hostTok, chan, clientTok, leg, up, latest>>

-----------------------------------------------------------------------------
(* relay_pair.  Source and destination of a leg. *)
Source(h, l) == IF l = "h2c" THEN h ELSE chan[h]
Dest(h, l)   == IF l = "h2c" THEN chan[h] ELSE h

(* Mutant: only one direction treats the end of the stream as an end. *)
OneLegSourceClosed(h, l) ==
  /\ l = "h2c"
  /\ leg[h][l] = "running"
  /\ ~up[Source(h, l)]
  /\ leg' = [leg EXCEPT ![h][l] = "ended"]
  /\ UNCHANGED <<pending, host, hostTok, chan, client, clientTok, up, latest>>

(* A leg whose source closed sees the end of the stream. *)
LegSourceClosed(h, l) ==
  /\ leg[h][l] = "running"
  /\ ~up[Source(h, l)]
  /\ leg' = [leg EXCEPT ![h][l] = "ended"]
  /\ UNCHANGED <<pending, host, hostTok, chan, client, clientTok, up, latest>>

(* A leg that has a message to forward finds its destination gone. *)
LegSendFails(h, l) ==
  /\ leg[h][l] = "running"
  /\ up[Source(h, l)]
  /\ ~up[Dest(h, l)]
  /\ leg' = [leg EXCEPT ![h][l] = "ended"]
  /\ UNCHANGED <<pending, host, hostTok, chan, client, clientTok, up, latest>>

(* select! over the two join handles: one leg ended, the handle of the     *)
(* other is dropped, which detaches that task and does not stop it.        *)
RelayReturns(h) ==
  /\ host[h] = "relaying"
  /\ \E l \in Leg : leg[h][l] = "ended"
  /\ host' = [host EXCEPT ![h] = "closed"]
  /\ UNCHANGED <<pending, hostTok, chan, client, clientTok, leg, up, latest>>

(* The network: the far end of a connection goes away. *)
HostPeerGone(h) ==
  /\ host[h] # "idle"
  /\ up[h]
  /\ up' = [up EXCEPT ![h] = FALSE]
  /\ UNCHANGED <<pending, host, hostTok, chan, client, clientTok, leg, latest>>

ClientPeerGone(c) ==
  /\ client[c] # "idle"
  /\ up[c]
  /\ up' = [up EXCEPT ![c] = FALSE]
  /\ UNCHANGED <<pending, host, hostTok, chan, client, clientTok, leg, latest>>

-----------------------------------------------------------------------------
Next ==
  \/ \E h \in Hosts :
       \/ HostRejected(h) \/ HostPaired(h) \/ HostTimesOut(h) \/ HostDropsReceiver(h)
       \/ HostCleanup(h) \/ RelayReturns(h) \/ HostPeerGone(h)
       \/ \E t \in Tokens : HostConnect(h, t)
       \/ \E l \in Leg : LegSourceClosed(h, l) \/ LegSendFails(h, l)
  \/ \E c \in Clients :
       \/ ClientTakes(c) \/ ClientMisses(c) \/ ClientTick(c) \/ ClientDeadline(c)
       \/ ClientPeerGone(c)
       \/ \E t \in Tokens : ClientConnect(c, t)

Spec == Init /\ [][Next]_vars

(* Tasks run, timers fire; the far ends owe us nothing.  A client whose 30 *)
(* seconds are over finds the deadline ready at every later select!, which *)
(* picks among the ready branches at random: strong fairness.              *)
Fairness ==
  /\ \A h \in Hosts :
       /\ WF_vars(HostPaired(h)) /\ WF_vars(HostTimesOut(h))
       /\ WF_vars(HostDropsReceiver(h)) /\ WF_vars(HostCleanup(h)) /\ WF_vars(RelayReturns(h))
       /\ \A l \in Leg : WF_vars(LegSourceClosed(h, l))
  /\ \A c \in Clients :
       /\ WF_vars(ClientTakes(c)) /\ WF_vars(ClientMisses(c))
       /\ WF_vars(ClientTick(c)) /\ SF_vars(ClientDeadline(c))

FairSpec == Spec /\ Fairness

-----------------------------------------------------------------------------
(* An entry of the map belongs to a host of that token which nobody has    *)
(* taken yet: its channel is empty, and the host waits or is on its way to *)
(* the cleanup arm (host_ws).                                              *)
EntryIsOpen ==
  \A t \in Tokens : pending[t] # None =>
    LET h == pending[t] IN
    /\ hostTok[h] = t
    /\ chan[h] = "empty"
    /\ host[h] \in {"waiting", "expired", "cleanup"}

(* A socket handed over lies in exactly one host's channel, and that host  *)
(* presented the same token; and what lies in a channel was handed over.   *)
(* (kaku-relay host_ws, client_ws: the map lock and the oneshot together   *)
(* make the pairing exclusive, also against timeouts and reconnections.)   *)
PairedOnce ==
  /\ \A c \in Clients : client[c] = "handed" => \E h \in Hosts : chan[h] = c
  /\ \A h \in Hosts : chan[h] \in Clients =>
       /\ client[chan[h]] = "handed"
       /\ clientTok[chan[h]] = hostTok[h]
       /\ \A g \in Hosts : chan[g] = chan[h] => g = h

(* A host whose sender was dropped was replaced in the map by a newer      *)
(* connection with its token: the map never evicts the newest host of a    *)
(* token while it waits.  The comment above host_ws says a desktop "waits  *)
(* up to 10 minutes"; the cleanup arm of an older connection breaks that.  *)
NewestHostKeepsItsSlot ==
  \A h \in Hosts : (host[h] = "waiting" /\ latest[hostTok[h]] = h) => chan[h] # "closed"

(* Every map entry is eventually removed: by a client, by the host's       *)
(* timeout, or replaced by a newer host.  (No leak towards MAX_PENDING.)   *)
EntriesDrain ==
  \A t \in Tokens, h \in Hosts : pending[t] = h ~> pending[t] # h

(* A client is never left polling: it is handed over, loses its socket to  *)
(* a host that has just given up, or is turned away after its deadline;    *)
(* and a socket handed over reaches the forwarding loops, or is dropped by *)
(* a host that timed out at that very moment (client_ws, host_ws).         *)
ClientsAreServed ==
  \A c \in Clients :
    /\ client[c] \in {"try", "sleep"} ~> client[c] \in {"handed", "lost", "gaveUp"}
    /\ client[c] = "handed" ~>
         \E h \in Hosts : chan[h] = c /\ (leg[h]["h2c"] # "none" \/ host[h] = "closed")

(* Once both far ends are gone, both forwarding tasks of relay_pair end,   *)
(* also the one that the select! detached.                                 *)
LegsEnd ==
  \A h \in Hosts :
    (chan[h] \in Clients /\ host[h] = "relaying" /\ ~up[h] /\ ~up[chan[h]])
      ~> \A l \in Leg : leg[h][l] = "ended"

-----------------------------------------------------------------------------
(* The relay as an implementation of Rendezvous.  A host is on offer while *)
(* its sender is in the map and its receiver has not been dropped.         *)
OnOffer(t) ==
  IF pending[t] # None /\ host[pending[t]] # "cleanup" THEN pending[t] ELSE None

Offers   == [t \in Tokens |-> OnOffer(t)]
Offered  == {h \in Hosts : hostTok[h] # None}
Answered == {c \in Clients : client[c] \in {"handed", "lost", "gaveUp"}}
Met      == [h \in Hosts |-> IF chan[h] \in Clients THEN chan[h] ELSE None]

Promise == INSTANCE Rendezvous WITH
  offer <- Offers, offered <- Offered, asks <- clientTok, answered <- Answered, met <- Met

(* The map, the oneshots and the two handlers together are the rendezvous: *)
(* each of their steps is one of its steps or invisible to it, so that a   *)
(* host replaced, timed out or cleaned up in any order is given to at most *)
(* one client, and only while it can still hear of it (kaku-relay).        *)
KeepsPromise == Promise!Spec
=============================================================================
