----------------------------- MODULE Distributor -----------------------------
(***************************************************************************)
(* The table `Distribiutor` (server/src/proxy_handler.rs) in which one     *)
(* proxy session keeps the players it serves: two hash maps that have to   *)
(* mirror each other, from the player's socket address to its identifier   *)
(* and channel (clients_addr), and from the identifier that travels in the *)
(* packets back to the address (clients_id).  Constant-level operators     *)
(* only: ProxyServer keeps one table per session, DistributorSpec makes a  *)
(* state machine of one.                                                   *)
(***************************************************************************)
EXTENDS Integers, FiniteSets, Functions

CONSTANTS
  \* The socket addresses a player can have
  Addr,
  \* The receiving ends of the channels to the players (`tx` in the code)
  Conn,
  MAXIMUM_CLIENTS

ASSUME MaximumClientsAssumption == MAXIMUM_CLIENTS \in Nat

\* The identifiers `for id_found in 0..=MAXIMUM_CLIENTS` tries.
Id == 0..MAXIMUM_CLIENTS

MinecraftClient == [id: Id, tx: Conn]

\* A map is a function on the keys present.
MapTo(K, V) == UNION {[D -> V] : D \in SUBSET K}

Table == [clients_addr: MapTo(Addr, MinecraftClient), clients_id: MapTo(Id, Addr)]

EmptyMap == [x \in {} |-> x]

\* #[derive(Default)]
EmptyTable == [clients_addr |-> EmptyMap, clients_id |-> EmptyMap]

\* HashMap::insert overwrites, HashMap::remove ignores an absent key.
Put(f, k, v) == [x \in DOMAIN f \cup {k} |-> IF x = k THEN v ELSE f[x]]
Without(f, k) == Restrict(f, DOMAIN f \ {k})

\* Mutant: one identifier more.
FreeOneMore(d) == 0..MAXIMUM_CLIENTS + 1 \ DOMAIN d.clients_id

Free(d) == Id \ DOMAIN d.clients_id

\* Mutant: the number of players as the next identifier.
NumberOfPlayers(d) == Cardinality(DOMAIN d.clients_id)

\* The first identifier the loop of insert does not find in clients_id.
LowestFree(d) == CHOOSE i \in Free(d) : \A j \in Free(d) : i <= j

\* insert answers TooManyClients, and changes nothing, when nothing is free.
CanInsert(d) == Free(d) # {}

Insert(d, a, tx) ==
  LET id == LowestFree(d)
  IN  [clients_addr |-> Put(d.clients_addr, a, [id |-> id, tx |-> tx]),
       clients_id   |-> Put(d.clients_id, id, a)]

HasAddr(d, a) == a \in DOMAIN d.clients_addr

RemoveByAddr(d, a) ==
  [clients_addr |-> Without(d.clients_addr, a),
   clients_id   |-> IF HasAddr(d, a)
                      THEN Without(d.clients_id, d.clients_addr[a].id)
                      ELSE d.clients_id]

\* Mutant: clients_addr keeps the player.
RemoveIdOnly(d, i) == [d EXCEPT !.clients_id = Without(@, i)]

RemoveById(d, i) ==
  [clients_addr |-> IF i \in DOMAIN d.clients_id
                      THEN Without(d.clients_addr, d.clients_id[i])
                      ELSE d.clients_addr,
   clients_id   |-> Without(d.clients_id, i)]

\* get_by_addr(a) is d.clients_addr[a] where HasAddr(d, a); get_by_id goes
\* through both maps and finds nobody unless both know the player.
HasId(d, i) == i \in DOMAIN d.clients_id /\ HasAddr(d, d.clients_id[i])
GetById(d, i) == d.clients_addr[d.clients_id[i]]

-----------------------------------------------------------------------------
(***************************************************************************)
(* What makes the two maps one table: each is the inverse of the other.    *)
(* An identifier that clients_id keeps and clients_addr does not know is   *)
(* never given out again; an address without its identifier receives       *)
(* nothing.                                                                *)
(***************************************************************************)
Consistent(d) ==
  /\ \A a \in DOMAIN d.clients_addr :
        /\ d.clients_addr[a].id \in DOMAIN d.clients_id
        /\ d.clients_id[d.clients_addr[a].id] = a
  /\ \A i \in DOMAIN d.clients_id :
        /\ d.clients_id[i] \in DOMAIN d.clients_addr
        /\ d.clients_addr[d.clients_id[i]].id = i
=============================================================================
