----------------------------- MODULE Rendezvous -----------------------------
(***************************************************************************)
(* What the relay promises, without its tasks, channels, timers and locks: *)
(* at any time a token has at most one host on offer; a client that asks   *)
(* for the token gets that host for itself, or is told that there is none. *)
(* A host is offered once and meets at most one client.                    *)
(***************************************************************************)
CONSTANTS Tokens, Hosts, Clients, None

VARIABLES
  offer,    \* token -> the host on offer
  offered,  \* hosts that have been on offer
  asks,     \* client -> the token it asked for
  answered, \* clients that got a host or were told no
  met       \* host -> the client it was given to

vars == <<offer, offered, asks, answered, met>>

Init ==
  /\ offer = [t \in Tokens |-> None]
  /\ offered = {}
  /\ asks = [c \in Clients |-> None]
  /\ answered = {}
  /\ met = [h \in Hosts |-> None]

(* A new host takes the place of the one on offer. *)
Offer(h, t) ==
  /\ h \notin offered
  /\ offer' = [offer EXCEPT ![t] = h]
  /\ offered' = offered \cup {h}
  /\ UNCHANGED <<asks, answered, met>>

Withdraw(t) ==
  /\ offer' = [offer EXCEPT ![t] = None]
  /\ UNCHANGED <<offered, asks, answered, met>>

Ask(c, t) ==
  /\ asks[c] = None
  /\ asks' = [asks EXCEPT ![c] = t]
  /\ UNCHANGED <<offer, offered, answered, met>>

Asking(c) == asks[c] # None /\ c \notin answered

Meet(c) ==
  LET h == offer[asks[c]] IN
  /\ Asking(c)
  /\ h # None
  /\ offer' = [offer EXCEPT ![asks[c]] = None]
  /\ met' = [met EXCEPT ![h] = c]
  /\ answered' = answered \cup {c}
  /\ UNCHANGED <<offered, asks>>

TellNo(c) ==
  /\ Asking(c)
  /\ answered' = answered \cup {c}
  /\ UNCHANGED <<offer, offered, asks, met>>

Next ==
  \/ \E t \in Tokens : Withdraw(t) \/ \E h \in Hosts : Offer(h, t)
  \/ \E c \in Clients : Meet(c) \/ TellNo(c) \/ \E t \in Tokens : Ask(c, t)

Spec == Init /\ [][Next]_vars
=============================================================================
