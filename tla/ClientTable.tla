----------------------------- MODULE ClientTable -----------------------------
(***************************************************************************)
(* What the table of players promises its session, without the two maps:   *)
(* a set of players in which no two share an address or an identifier;     *)
(* a new player gets SOME identifier that is not in use, or is refused     *)
(* when all of them are; a player is removed under either of its names.    *)
(***************************************************************************)
EXTENDS Integers

CONSTANTS Addr, Conn, MAXIMUM_CLIENTS

VARIABLE players

Player == [addr: Addr, id: 0..MAXIMUM_CLIENTS, tx: Conn]

Used == {p.id : p \in players}

Init == players = {}

Add(a, c) ==
  /\ \A p \in players : p.addr # a
  /\ \E i \in 0..MAXIMUM_CLIENTS \ Used :
       players' = players \cup {[addr |-> a, id |-> i, tx |-> c]}

Remove(p) == players' = players \ {p}

Next ==
  \/ \E a \in Addr, c \in Conn : Add(a, c)
  \/ \E p \in players : Remove(p)

Spec == Init /\ [][Next]_players
=============================================================================
