--------------------------- MODULE DistributorSpec ---------------------------
(***************************************************************************)
(* One Distribiutor as a state machine: every call the session's loop can  *)
(* make on it.  `insert` is called for an address that is not in the table *)
(* (ProxyServer's TableConsistent shows that the session keeps to that);   *)
(* the other calls come with any address and any identifier, known or not. *)
(***************************************************************************)
EXTENDS Distributor

VARIABLE table

TypeOK == table \in Table

Init == table = EmptyTable

InsertClient(a, c) ==
  /\ ~HasAddr(table, a)
  /\ CanInsert(table)
  /\ table' = Insert(table, a, c)

TooManyClients(a) ==
  /\ ~HasAddr(table, a)
  /\ ~CanInsert(table)
  /\ UNCHANGED table

RemoveAddr(a) == table' = RemoveByAddr(table, a)

\* The identifier is a u16 of the proxy client's packet: it can be one that
\* the server never gave out.
RemoveId(i) == table' = RemoveById(table, i)

Next ==
  \/ \E a \in Addr, c \in Conn : InsertClient(a, c)
  \/ \E a \in Addr : TooManyClients(a) \/ RemoveAddr(a)
  \/ \E i \in 0..MAXIMUM_CLIENTS + 1 : RemoveId(i)

Spec == Init /\ [][Next]_table

-----------------------------------------------------------------------------
\* The two maps mirror each other after any sequence of insert,
\* remove_by_addr and remove_by_id, so that no identifier is lost and
\* get_by_id and get_by_addr agree on who a player is.
MapsMirror == Consistent(table)

\* The players the two maps stand for.
Players == {[addr |-> a, id |-> table.clients_addr[a].id, tx |-> table.clients_addr[a].tx] :
              a \in DOMAIN table.clients_addr}

Abstract == INSTANCE ClientTable WITH players <- Players

\* The two maps implement the plain set of players of ClientTable: an
\* identifier is never given to two players, removing one player under
\* either name removes that player and nobody else.
ImplementsClientTable == Abstract!Spec
=============================================================================
