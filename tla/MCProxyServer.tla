---------------------------- MODULE MCProxyServer ----------------------------
(***************************************************************************)
(* ProxyServer for TLC: players are numbered; every session and every      *)
(* player is about the one hostname; players 1, 3, .. have one address and *)
(* players 2, 4, .. the other, so that an address is used again.           *)
(***************************************************************************)
EXTENDS ProxyServer

MCHostOf == [s \in Session |-> CHOOSE h \in Host : TRUE]
MCWantedHost == [c \in Conn |-> CHOOSE h \in Host : TRUE]
MCAddrOf == [c \in Conn |-> c % 2]

\* For properties of the players that are not about liveness: states are told
\* apart only by what a later step can depend on, so not by `verified`, by the
\* data a player has got, or by the unread packets before the last one.
LastToClient ==
  [s \in Session |-> IF toClient[s] = <<>> THEN <<>> ELSE <<toClient[s][Len(toClient[s])]>>]

ServerView ==
  <<register, phase, rxq, dist, toServer, LastToClient, peerOpen, quota, mc, target, sent, mrx>>
=============================================================================
