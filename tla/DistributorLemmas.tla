-------------------------- MODULE DistributorLemmas --------------------------
(***************************************************************************)
(* What each operator of Distributor returns and preserves, for any set of *)
(* addresses, any set of players and any MAXIMUM_CLIENTS.  Cited by        *)
(* DistributorProofs and by ProxyServerProofs.                             *)
(***************************************************************************)
EXTENDS Distributor, TLAPS, WellFoundedInduction

-----------------------------------------------------------------------------
(* The maps *)

\* HashMap::insert returns a map of the same type.
LEMMA PutType ==
  ASSUME NEW K, NEW V, NEW f \in MapTo(K, V), NEW k \in K, NEW v \in V
  PROVE  Put(f, k, v) \in MapTo(K, V)
<1>1. PICK D \in SUBSET K : f \in [D -> V]
  BY DEF MapTo
<1>2. Put(f, k, v) \in [D \cup {k} -> V] /\ D \cup {k} \in SUBSET K
  BY <1>1 DEF Put
<1> QED
  BY <1>2 DEF MapTo

\* HashMap::remove returns a map of the same type.
LEMMA WithoutType ==
  ASSUME NEW K, NEW V, NEW f \in MapTo(K, V), NEW k
  PROVE  Without(f, k) \in MapTo(K, V)
<1>1. PICK D \in SUBSET K : f \in [D -> V]
  BY DEF MapTo
<1>2. Without(f, k) \in [D \ {k} -> V] /\ D \ {k} \in SUBSET K
  BY <1>1 DEF Without, Restrict
<1> QED
  BY <1>2 DEF MapTo

\* A table that starts empty is a table.
LEMMA EmptyTableType ==
  EmptyTable \in Table /\ Consistent(EmptyTable)
<1>1. ASSUME NEW K, NEW V PROVE EmptyMap \in MapTo(K, V)
  <2>1. EmptyMap \in [{} -> V] /\ {} \in SUBSET K
    BY DEF EmptyMap
  <2> QED BY <2>1 DEF MapTo
<1>2. DOMAIN EmptyMap = {}
  BY DEF EmptyMap
<1> QED
  BY <1>1, <1>2 DEF EmptyTable, Table, Consistent

-----------------------------------------------------------------------------
(* insert *)

\* The loop of insert ends at an identifier that is free whenever one is.
LEMMA LowestFreeIsFree ==
  ASSUME NEW d, CanInsert(d)
  PROVE  LowestFree(d) \in Free(d)
<1> DEFINE R == OpToRel(<, Nat)
<1>1. Free(d) \subseteq Nat /\ Free(d) # {}
  BY MaximumClientsAssumption DEF Free, Id, CanInsert
<1>2. PICK x \in Free(d) : \A y \in Free(d) : ~ (<<y, x>> \in R)
  BY <1>1, NatLessThanWellFounded, WFMin
<1>3. \A u, v \in Nat : u < v => <<u, v>> \in R
  BY DEF OpToRel
<1> HIDE DEF R
<1>4. ASSUME NEW y \in Free(d) PROVE x <= y
  <2>1. x \in Nat /\ y \in Nat /\ ~ (y < x)
    BY <1>1, <1>2, <1>3
  <2> QED BY <2>1
<1> QED
  BY <1>4 DEF LowestFree

\* insert keeps the type of the table, and gives the new player an
\* identifier nobody had.
LEMMA InsertType ==
  ASSUME NEW d \in Table, NEW a \in Addr, NEW c \in Conn, CanInsert(d)
  PROVE  Insert(d, a, c) \in Table
<1>1. LowestFree(d) \in Id
  BY LowestFreeIsFree DEF Free
<1>2. d.clients_addr \in MapTo(Addr, MinecraftClient) /\ d.clients_id \in MapTo(Id, Addr)
  BY DEF Table
<1>3. [id |-> LowestFree(d), tx |-> c] \in MinecraftClient
  BY <1>1 DEF MinecraftClient
<1>4. Put(d.clients_addr, a, [id |-> LowestFree(d), tx |-> c]) \in MapTo(Addr, MinecraftClient)
  BY <1>2, <1>3, PutType
<1>5. Put(d.clients_id, LowestFree(d), a) \in MapTo(Id, Addr)
  BY <1>1, <1>2, PutType
<1> QED
  BY <1>4, <1>5 DEF Insert, Table

\* insert of an address that is not in the table keeps the maps inverse to
\* each other, because the identifier was free.
LEMMA InsertConsistent ==
  ASSUME NEW d \in Table, NEW a \in Addr, NEW c \in Conn, CanInsert(d),
         Consistent(d), ~HasAddr(d, a)
  PROVE  Consistent(Insert(d, a, c))
<1> DEFINE i == LowestFree(d)
           m == [id |-> i, tx |-> c]
           e == Insert(d, a, c)
<1>1. i \in Id /\ i \notin DOMAIN d.clients_id
  BY LowestFreeIsFree DEF Free
<1>2. d.clients_addr \in MapTo(Addr, MinecraftClient) /\ d.clients_id \in MapTo(Id, Addr)
  BY DEF Table
<1>3. m \in MinecraftClient
  BY <1>1 DEF MinecraftClient
<1>4. /\ e.clients_addr = Put(d.clients_addr, a, m)
      /\ e.clients_id = Put(d.clients_id, i, a)
  BY DEF Insert
<1> HIDE DEF e, i
<1>5. /\ DOMAIN e.clients_addr = DOMAIN d.clients_addr \cup {a}
      /\ e.clients_addr[a] = m
      /\ \A x \in DOMAIN d.clients_addr \ {a} : e.clients_addr[x] = d.clients_addr[x]
  BY <1>4 DEF Put
<1>6. /\ DOMAIN e.clients_id = DOMAIN d.clients_id \cup {i}
      /\ e.clients_id[i] = a
      /\ \A x \in DOMAIN d.clients_id \ {i} : e.clients_id[x] = d.clients_id[x]
  BY <1>4 DEF Put
<1>7. Consistent(e)
  <2>1. ASSUME NEW x \in DOMAIN e.clients_addr
        PROVE  /\ e.clients_addr[x].id \in DOMAIN e.clients_id
               /\ e.clients_id[e.clients_addr[x].id] = x
    <3>1. CASE x = a
      BY <1>5, <1>6, <3>1
    <3>2. CASE x # a
      BY <1>1, <1>5, <1>6, <2>1, <3>2 DEF Consistent
    <3> QED BY <3>1, <3>2
  <2>2. ASSUME NEW x \in DOMAIN e.clients_id
        PROVE  /\ e.clients_id[x] \in DOMAIN e.clients_addr
               /\ e.clients_addr[e.clients_id[x]].id = x
    <3>1. CASE x = i
      BY <1>5, <1>6, <3>1
    <3>2. CASE x # i
      BY <1>5, <1>6, <2>2, <3>2 DEF Consistent, HasAddr
    <3> QED BY <3>1, <3>2
  <2> QED BY <2>1, <2>2 DEF Consistent
<1> QED
  BY <1>7 DEF e

-----------------------------------------------------------------------------
(* remove_by_addr and remove_by_id *)

\* remove_by_addr of any address, known or not.
LEMMA RemoveByAddrPreserves ==
  ASSUME NEW d \in Table, NEW a
  PROVE  /\ RemoveByAddr(d, a) \in Table
         /\ Consistent(d) => Consistent(RemoveByAddr(d, a))
         /\ DOMAIN RemoveByAddr(d, a).clients_addr = DOMAIN d.clients_addr \ {a}
         /\ \A x \in DOMAIN d.clients_addr \ {a} :
               RemoveByAddr(d, a).clients_addr[x] = d.clients_addr[x]
<1> DEFINE e == RemoveByAddr(d, a)
<1>1. d.clients_addr \in MapTo(Addr, MinecraftClient) /\ d.clients_id \in MapTo(Id, Addr)
  BY DEF Table
<1>2. /\ e.clients_addr \in MapTo(Addr, MinecraftClient)
      /\ DOMAIN e.clients_addr = DOMAIN d.clients_addr \ {a}
      /\ \A x \in DOMAIN d.clients_addr \ {a} : e.clients_addr[x] = d.clients_addr[x]
  <2>1. e.clients_addr = Without(d.clients_addr, a)
    BY DEF RemoveByAddr
  <2> HIDE DEF e
  <2>2. e.clients_addr \in MapTo(Addr, MinecraftClient)
    BY <1>1, <2>1, WithoutType
  <2> QED BY <2>1, <2>2 DEF Without, Restrict
<1>3. CASE HasAddr(d, a)
  <2> DEFINE i == d.clients_addr[a].id
  <2>1. /\ e.clients_id \in MapTo(Id, Addr)
        /\ DOMAIN e.clients_id = DOMAIN d.clients_id \ {i}
        /\ \A x \in DOMAIN d.clients_id \ {i} : e.clients_id[x] = d.clients_id[x]
    <3>1. e.clients_id = Without(d.clients_id, i)
      BY <1>3 DEF RemoveByAddr
    <3> HIDE DEF e, i
    <3>2. e.clients_id \in MapTo(Id, Addr)
      BY <1>1, <3>1, WithoutType
    <3> QED BY <3>1, <3>2 DEF Without, Restrict
  <2>2. e \in Table
    BY <1>2, <2>1 DEF Table, RemoveByAddr
  <2>3. Consistent(d) => Consistent(e)
    BY <1>2, <1>3, <2>1 DEF Consistent, HasAddr
  <2> QED BY <1>2, <2>2, <2>3
<1>4. CASE ~HasAddr(d, a)
  <2>1. e.clients_id = d.clients_id
    BY <1>4 DEF RemoveByAddr
  <2>2. e \in Table
    BY <1>1, <1>2, <2>1 DEF Table, RemoveByAddr
  <2>3. Consistent(d) => Consistent(e)
    BY <1>2, <1>4, <2>1 DEF Consistent, HasAddr
  <2> QED BY <1>2, <2>2, <2>3
<1> QED BY <1>3, <1>4

\* remove_by_id of any identifier, known or not, removes the player who has
\* it and nobody else.
LEMMA RemoveByIdPreserves ==
  ASSUME NEW d \in Table, NEW i
  PROVE  /\ RemoveById(d, i) \in Table
         /\ Consistent(d) => Consistent(RemoveById(d, i))
         /\ DOMAIN RemoveById(d, i).clients_addr =
               IF i \in DOMAIN d.clients_id
                 THEN DOMAIN d.clients_addr \ {d.clients_id[i]}
                 ELSE DOMAIN d.clients_addr
         /\ \A x \in DOMAIN RemoveById(d, i).clients_addr :
               RemoveById(d, i).clients_addr[x] = d.clients_addr[x]
<1> DEFINE e == RemoveById(d, i)
<1>1. d.clients_addr \in MapTo(Addr, MinecraftClient) /\ d.clients_id \in MapTo(Id, Addr)
  BY DEF Table
<1>2. /\ e.clients_id \in MapTo(Id, Addr)
      /\ DOMAIN e.clients_id = DOMAIN d.clients_id \ {i}
      /\ \A x \in DOMAIN d.clients_id \ {i} : e.clients_id[x] = d.clients_id[x]
  <2>1. e.clients_id = Without(d.clients_id, i)
    BY DEF RemoveById
  <2> HIDE DEF e
  <2>2. e.clients_id \in MapTo(Id, Addr)
    BY <1>1, <2>1, WithoutType
  <2> QED BY <2>1, <2>2 DEF Without, Restrict
<1>3. CASE i \in DOMAIN d.clients_id
  <2> DEFINE a == d.clients_id[i]
  <2>1. /\ e.clients_addr \in MapTo(Addr, MinecraftClient)
        /\ DOMAIN e.clients_addr = DOMAIN d.clients_addr \ {a}
        /\ \A x \in DOMAIN d.clients_addr \ {a} : e.clients_addr[x] = d.clients_addr[x]
    <3>1. e.clients_addr = Without(d.clients_addr, a)
      BY <1>3 DEF RemoveById
    <3> HIDE DEF e, a
    <3>2. e.clients_addr \in MapTo(Addr, MinecraftClient)
      BY <1>1, <3>1, WithoutType
    <3> QED BY <3>1, <3>2 DEF Without, Restrict
  <2>2. e \in Table
    BY <1>2, <2>1 DEF Table, RemoveById
  <2>3. Consistent(d) => Consistent(e)
    BY <1>2, <1>3, <2>1 DEF Consistent
  <2> QED BY <1>3, <2>1, <2>2, <2>3
<1>4. CASE i \notin DOMAIN d.clients_id
  <2>1. e.clients_addr = d.clients_addr
    BY <1>4 DEF RemoveById
  <2>2. e \in Table
    BY <1>1, <1>2, <2>1 DEF Table, RemoveById
  <2>3. Consistent(d) => Consistent(e)
    BY <1>2, <1>4, <2>1 DEF Consistent
  <2> QED BY <1>4, <2>1, <2>2, <2>3
<1> QED BY <1>3, <1>4
=============================================================================
