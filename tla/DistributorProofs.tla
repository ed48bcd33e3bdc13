-------------------------- MODULE DistributorProofs --------------------------
(***************************************************************************)
(* Proofs about one session's table as a state machine, for every value of *)
(* the constants: the two maps always mirror each other, and together they *)
(* implement the plain set of players of ClientTable.                      *)
(***************************************************************************)
EXTENDS DistributorSpec, DistributorLemmas

-----------------------------------------------------------------------------
(* The state machine *)

Inv == TypeOK /\ MapsMirror

LEMMA InitInv == Init => Inv
BY EmptyTableType DEF Init, Inv, TypeOK, MapsMirror

LEMMA NextInv == Inv /\ [Next]_table => Inv'
<1> SUFFICES ASSUME Inv, [Next]_table PROVE Inv'
  OBVIOUS
<1>1. table \in Table /\ Consistent(table)
  BY DEF Inv, TypeOK, MapsMirror
<1>2. ASSUME NEW a \in Addr, NEW c \in Conn, InsertClient(a, c)
      PROVE  table' \in Table /\ Consistent(table')
  BY <1>1, <1>2, InsertType, InsertConsistent DEF InsertClient
<1>3. ASSUME NEW a \in Addr, RemoveAddr(a)
      PROVE  table' \in Table /\ Consistent(table')
  BY <1>1, <1>3, RemoveByAddrPreserves DEF RemoveAddr
<1>4. ASSUME NEW i \in 0..MAXIMUM_CLIENTS + 1, RemoveId(i)
      PROVE  table' \in Table /\ Consistent(table')
  BY <1>1, <1>4, RemoveByIdPreserves DEF RemoveId
<1>5. ASSUME UNCHANGED table
      PROVE  table' \in Table /\ Consistent(table')
  BY <1>1, <1>5
<1>6. table' \in Table /\ Consistent(table')
  BY <1>2, <1>3, <1>4, <1>5 DEF Next, TooManyClients
<1> QED
  BY <1>6 DEF Inv, TypeOK, MapsMirror

\* insert, the two removals and every identifier a client may name leave two
\* maps from addresses to an identifier and a channel and back, and never give
\* out an identifier above MAXIMUM_CLIENTS: the range of
\* 0..=constants::MAXIMUM_CLIENTS is all that insert tries.
THEOREM TableTypeCorrect == Spec => []TypeOK
BY InitInv, NextInv, PTL DEF Spec, Inv

\* Under any sequence of calls the table keeps its type and the two maps stay
\* each other's inverse: no identifier is lost, whatever the number of players
\* that come and go and whatever identifiers the proxy client names.
THEOREM MapsAlwaysMirror == Spec => [](TypeOK /\ MapsMirror)
BY InitInv, NextInv, PTL DEF Spec, Inv

-----------------------------------------------------------------------------
(* The refinement *)

LEMMA InitRefines == Init => Abstract!Init
<1>1. DOMAIN EmptyTable.clients_addr = {}
  BY DEF EmptyTable, EmptyMap
<1> QED
  BY <1>1 DEF Init, Abstract!Init, Players

\* A new player, under an identifier no other player has.
LEMMA InsertRefines ==
  ASSUME Inv, NEW a \in Addr, NEW c \in Conn, InsertClient(a, c)
  PROVE  Abstract!Add(a, c)
<1> DEFINE i == LowestFree(table)
           m == [id |-> i, tx |-> c]
           new == [addr |-> a, id |-> i, tx |-> c]
<1>1. table \in Table /\ Consistent(table) /\ ~HasAddr(table, a)
  BY DEF Inv, TypeOK, MapsMirror, InsertClient
<1>2. i \in Id /\ i \notin DOMAIN table.clients_id
  BY LowestFreeIsFree DEF Free, InsertClient
<1>3. table'.clients_addr = Put(table.clients_addr, a, m)
  BY DEF InsertClient, Insert
<1> HIDE DEF i
<1>4. \A p \in Players : p.addr # a
  BY <1>1 DEF Players, HasAddr
<1>5. i \in 0..MAXIMUM_CLIENTS \ Abstract!Used
  BY <1>1, <1>2 DEF Abstract!Used, Players, Consistent, Id
<1>6. Players' = Players \cup {new}
  <2>1. /\ DOMAIN table'.clients_addr = DOMAIN table.clients_addr \cup {a}
        /\ table'.clients_addr[a] = m
        /\ \A x \in DOMAIN table.clients_addr \ {a} :
              table'.clients_addr[x] = table.clients_addr[x]
    BY <1>3 DEF Put
  <2> QED BY <1>1, <2>1 DEF Players, HasAddr
<1> QED
  BY <1>4, <1>5, <1>6 DEF Abstract!Add

\* When the maps change in nothing but that one known address is gone, the
\* abstract table loses that player and keeps the others.
LEMMA RemoveRefines ==
  ASSUME NEW a \in DOMAIN table.clients_addr,
         DOMAIN table'.clients_addr = DOMAIN table.clients_addr \ {a},
         \A x \in DOMAIN table.clients_addr \ {a} :
            table'.clients_addr[x] = table.clients_addr[x]
  PROVE  \E p \in Players : Abstract!Remove(p)
<1> DEFINE P(x) == [addr |-> x, id |-> table.clients_addr[x].id, tx |-> table.clients_addr[x].tx]
<1>1. P(a) \in Players
  BY DEF Players
<1>2. Players' = Players \ {P(a)}
  BY DEF Players
<1> QED
  BY <1>1, <1>2 DEF Abstract!Remove

LEMMA NextRefines == Inv /\ [Next]_table => [Abstract!Next]_Players
<1> SUFFICES ASSUME Inv, [Next]_table PROVE Abstract!Next \/ UNCHANGED Players
  OBVIOUS
<1>1. table \in Table /\ Consistent(table)
  BY DEF Inv, TypeOK, MapsMirror
<1>2. ASSUME NEW a \in Addr, NEW c \in Conn, InsertClient(a, c)
      PROVE  Abstract!Next
  BY <1>2, InsertRefines DEF Abstract!Next
<1>3. ASSUME NEW a \in Addr, RemoveAddr(a)
      PROVE  Abstract!Next \/ UNCHANGED Players
  <2>1. /\ DOMAIN table'.clients_addr = DOMAIN table.clients_addr \ {a}
        /\ \A x \in DOMAIN table.clients_addr \ {a} :
              table'.clients_addr[x] = table.clients_addr[x]
    BY <1>1, <1>3, RemoveByAddrPreserves DEF RemoveAddr
  <2>2. CASE a \in DOMAIN table.clients_addr
    BY <2>1, <2>2, RemoveRefines DEF Abstract!Next
  <2>3. CASE a \notin DOMAIN table.clients_addr
    BY <2>1, <2>3 DEF Players
  <2> QED BY <2>2, <2>3
<1>4. ASSUME NEW i \in 0..MAXIMUM_CLIENTS + 1, RemoveId(i)
      PROVE  Abstract!Next \/ UNCHANGED Players
  <2> DEFINE a == table.clients_id[i]
  <2>1. /\ DOMAIN table'.clients_addr =
             IF i \in DOMAIN table.clients_id
               THEN DOMAIN table.clients_addr \ {a} ELSE DOMAIN table.clients_addr
        /\ \A x \in DOMAIN table'.clients_addr :
              table'.clients_addr[x] = table.clients_addr[x]
    BY <1>1, <1>4, RemoveByIdPreserves DEF RemoveId
  <2>2. CASE i \in DOMAIN table.clients_id
    <3>1. a \in DOMAIN table.clients_addr
      BY <1>1, <2>2 DEF Consistent
    <3> QED BY <2>1, <2>2, <3>1, RemoveRefines DEF Abstract!Next
  <2>3. CASE i \notin DOMAIN table.clients_id
    BY <2>1, <2>3 DEF Players
  <2> QED BY <2>2, <2>3
<1>5. ASSUME UNCHANGED table PROVE UNCHANGED Players
  BY <1>5 DEF Players
<1> QED
  BY <1>2, <1>3, <1>4, <1>5 DEF Next, TooManyClients

\* The two hash maps implement ClientTable's set of players, for any number
\* of addresses, players and identifiers: insert never gives an identifier
\* that a player still has, each removal takes out one player and no other.
THEOREM TwoMapsImplementOneTable == Spec => ImplementsClientTable
<1>1. Spec => []Inv
  BY InitInv, NextInv, PTL DEF Spec
<1> QED
  BY <1>1, InitRefines, NextRefines, PTL DEF Spec, ImplementsClientTable, Abstract!Spec
=============================================================================
