------------------------------ MODULE MCTunnel ------------------------------
(***************************************************************************)
(* Tunnel for TLC: players are numbered and all want the one hostname;     *)
(* odd and even players have different addresses.  What player 2 sends     *)
(* after his hello stands for data of any length, what others send for     *)
(* data that is read as the frame it is.                                   *)
(***************************************************************************)
EXTENDS Tunnel

MCHostOf == [s \in Session |-> CHOOSE h \in Host : TRUE]
MCWantedHost == [c \in Conn |-> CHOOSE h \in Host : TRUE]
MCAddrOf == [c \in Conn |-> c % 2]
MCReadAs ==
  [x \in Chunk |->
     IF x.conn = 2 /\ x.n > 0 THEN {"frame", "login", "hello"} ELSE {"frame"}]
MCPayload == {Down(l, n) : l \in Local, n \in 1..MaxLocal}
=============================================================================
