--------------------------- MODULE DesktopProofs ---------------------------
(***************************************************************************)
(* Theorems about Desktop, for any texts and any number of starts and      *)
(* versions.  The inductive invariant has four parts; the first two are    *)
(* about types, and each of the others gives one of the properties that    *)
(* the run checks.                                                         *)
(***************************************************************************)
EXTENDS Desktop, TLAPS

\* The first start makes a key, and every later one has it or makes another.
RunningHasKey == process = "running" => key \in Key

\* As long as the panel is not Disconnected its Client has what the panel has;
\* the field is not open then, so that the panel's text stays as it is.
ClientFits ==
  state # "Disconnected" =>
    /\ client \in Asked
    /\ client.local = local
    /\ client.server \in {key, None}
    /\ edit = None

\* The server in the memory of a running program is the stored one.
StoredIsLoaded == (stored # None /\ process = "running") => key = stored.key

\* The thread compares with the version of its own process, which is the one
\* on the disk until the thread itself replaces it.
Ascending ==
  /\ version <= exe
  /\ process = "down" => updater = "over"
  /\ updater \in {"check", "update"} => exe = version
  /\ updater = "update" => release > version

-----------------------------------------------------------------------------
(* Types *)

LEMMA InitTypes == Init => TypeOK /\ RunningHasKey /\ ClientFits
BY DesktopAssumption DEF Init, TypeOK, RunningHasKey, ClientFits, Key, Version

\* A start by the user or by exec.
LEMMA BeginTypes ==
  ASSUME TypeOK, Begin
  PROVE  TypeOK' /\ RunningHasKey' /\ ClientFits'
<1>1. starts + 1 \in Key /\ starts' \in 0..MaxStarts
  BY DesktopAssumption DEF TypeOK, Begin, Key
<1>2. key' \in Key /\ local' \in Text
  <2>1. CASE stored = None
    BY <1>1, <2>1, DesktopAssumption DEF Begin, Load
  <2>2. CASE stored # None
    BY <2>2 DEF TypeOK, Begin, Load
  <2> QED BY <2>1, <2>2
<1> QED
  BY <1>1, <1>2 DEF TypeOK, Begin, RunningHasKey, ClientFits

\* The end of the process leaves the panel's state behind, until Begin.
LEMMA EndTypes ==
  ASSUME TypeOK, RunningHasKey, ClientFits, Save \/ Close \/ Crash
  PROVE  TypeOK' /\ RunningHasKey' /\ ClientFits'
<1>1. CASE Save
  BY <1>1 DEF Save, Saved, TypeOK, RunningHasKey, ClientFits, panel, update, Asked
<1>2. CASE Close
  BY <1>2 DEF Close, Saved, Ends, TypeOK, RunningHasKey, ClientFits, panel, Asked
<1>3. CASE Crash
  BY <1>3 DEF Crash, Ends, TypeOK, RunningHasKey, ClientFits, panel, Asked
<1> QED BY <1>1, <1>2, <1>3

LEMMA EditTypes ==
  ASSUME TypeOK, RunningHasKey, ClientFits, EditBegins \/ EditOk \/ EditCancel
  PROVE  TypeOK' /\ RunningHasKey' /\ ClientFits'
<1>1. CASE EditBegins
  BY <1>1 DEF EditBegins, around, update, TypeOK, RunningHasKey, ClientFits
<1>2. CASE EditOk
  BY <1>2 DEF EditOk, around, update, TypeOK, RunningHasKey, ClientFits
<1>3. CASE EditCancel
  BY <1>3 DEF EditCancel, around, update, TypeOK, RunningHasKey, ClientFits, Asked
<1> QED BY <1>1, <1>2, <1>3

LEMMA ConnectTypes ==
  ASSUME TypeOK, RunningHasKey, ClientFits, ClickConnect
  PROVE  TypeOK' /\ RunningHasKey' /\ ClientFits'
<1>1. Server \in Asked /\ Server.local = local /\ Server.server \in {key, None}
  BY DEF Server, ServerOf, NameFor, Asked, TypeOK
<1> QED
  BY <1>1 DEF ClickConnect, around, update, TypeOK, RunningHasKey, ClientFits, Asked

LEMMA ClientTypes ==
  ASSUME TypeOK, RunningHasKey, ClientFits, ClickDisconnect \/ ClientConnects \/ ClientEnds
  PROVE  TypeOK' /\ RunningHasKey' /\ ClientFits'
<1>1. CASE ClickDisconnect
  BY <1>1 DEF ClickDisconnect, around, update, TypeOK, RunningHasKey, ClientFits, Asked
<1>2. CASE ClientConnects
  <2>1. client \in Asked
    BY <1>2 DEF ClientConnects, ClientFits
  <2>2. client' \in Asked /\ client'.local = client.local /\ client'.server = client.server
    BY <1>2, <2>1 DEF ClientConnects, Asked
  <2> QED
    BY <1>2, <2>1, <2>2
    DEF ClientConnects, around, update, TypeOK, RunningHasKey, ClientFits, Asked
<1>3. CASE ClientEnds
  BY <1>3 DEF ClientEnds, around, update, TypeOK, RunningHasKey, ClientFits, Asked
<1> QED BY <1>1, <1>2, <1>3

LEMMA UpdaterTypes ==
  ASSUME TypeOK, RunningHasKey, ClientFits,
         Publish \/ CheckForUpdate \/ Update \/ UpdaterFails
  PROVE  TypeOK' /\ RunningHasKey' /\ ClientFits'
<1>1. CASE Publish
  BY <1>1 DEF Publish, panel, update, TypeOK, RunningHasKey, ClientFits, Asked
<1>2. CASE CheckForUpdate
  BY <1>2 DEF CheckForUpdate, panel, TypeOK, RunningHasKey, ClientFits, Asked
<1>3. CASE Update
  BY <1>3 DEF Update, panel, TypeOK, RunningHasKey, ClientFits, Asked
<1>4. CASE UpdaterFails
  BY <1>4 DEF UpdaterFails, panel, TypeOK, RunningHasKey, ClientFits, Asked
<1> QED BY <1>1, <1>2, <1>3, <1>4

LEMMA NextTypes ==
  ASSUME TypeOK, RunningHasKey, ClientFits, [Next]_vars
  PROVE  TypeOK' /\ RunningHasKey' /\ ClientFits'
<1>1. CASE UNCHANGED vars
  BY <1>1 DEF vars, panel, update, TypeOK, RunningHasKey, ClientFits, Asked
<1>2. CASE Start \/ Restart
  BY <1>2, BeginTypes DEF Start, Restart
<1> QED
  BY <1>1, <1>2, EndTypes, EditTypes, ConnectTypes, ClientTypes, UpdaterTypes DEF Next

\* Every variable keeps its type, whatever is clicked, edited, saved, closed,
\* crashed and updated; with it, that the Client has what the panel has.
LEMMA TypesAlways == Spec => [](TypeOK /\ RunningHasKey /\ ClientFits)
<1>1. (TypeOK /\ RunningHasKey /\ ClientFits) /\ [Next]_vars
        => (TypeOK /\ RunningHasKey /\ ClientFits)'
  BY NextTypes
<1> QED BY <1>1, InitTypes, PTL DEF Spec

\* Type correctness of the desktop application.
THEOREM DesktopTypeCorrect == Spec => []TypeOK
BY TypesAlways, PTL

-----------------------------------------------------------------------------
(* What is shown is what is used *)

\* ClientConnects is the only way to Connected, and takes a Client whose
\* server has a name; by ClientFits that is the panel's.
LEMMA NextShown ==
  ASSUME TypeOK, ClientFits, ShownIsUsed, [Next]_vars
  PROVE  ShownIsUsed'
<1>1. CASE ClientConnects
  BY <1>1 DEF ClientConnects, ClientFits, ShownIsUsed, Asked
<1>2. CASE EditOk
  BY <1>2 DEF EditOk, ClientFits, ShownIsUsed
<1>3. CASE Start \/ Restart
  BY <1>3 DEF Start, Restart, Begin, ShownIsUsed
<1>4. CASE Save \/ Close \/ Crash
  BY <1>4 DEF Save, Close, Crash, Ends, panel, ShownIsUsed
<1>5. CASE EditBegins \/ EditCancel \/ ClickConnect \/ ClickDisconnect \/ ClientEnds
  BY <1>5 DEF EditBegins, EditCancel, ClickConnect, ClickDisconnect, ClientEnds, ShownIsUsed
<1>6. CASE Publish \/ CheckForUpdate \/ Update \/ UpdaterFails
  BY <1>6 DEF Publish, CheckForUpdate, Update, UpdaterFails, panel, ShownIsUsed
<1>7. CASE UNCHANGED vars
  BY <1>7 DEF vars, panel, ShownIsUsed
<1> QED BY <1>1, <1>2, <1>3, <1>4, <1>5, <1>6, <1>7 DEF Next

\* A Connected panel shows the address and the local server its Client has.
THEOREM WhatIsShownIsUsed == Spec => []ShownIsUsed
<1>1. Init => ShownIsUsed
  BY DEF Init, ShownIsUsed
<1>2. (TypeOK /\ ClientFits) /\ ShownIsUsed /\ [Next]_vars => ShownIsUsed'
  BY NextShown
<1> QED BY <1>1, <1>2, TypesAlways, PTL DEF Spec

-----------------------------------------------------------------------------
(* The address *)

\* Only Save and Close write to the storage, and what they write is, from the
\* second time on, what was read from it.
LEMMA NextStored ==
  ASSUME TypeOK, RunningHasKey, StoredIsLoaded, [Next]_vars
  PROVE  /\ StoredIsLoaded'
         /\ stored # None => /\ stored'.key = stored.key
                             /\ process' = "running" => key' = stored.key
<1>1. CASE Save \/ Close
  BY <1>1 DEF Save, Close, Saved, Ends, panel, StoredIsLoaded
<1>2. CASE Start \/ Restart
  BY <1>2 DEF Start, Restart, Begin, Load, StoredIsLoaded
<1>3. CASE Crash
  BY <1>3 DEF Crash, Ends, panel, StoredIsLoaded
<1>4. CASE \/ EditBegins \/ EditOk \/ EditCancel \/ ClickConnect \/ ClickDisconnect
           \/ ClientConnects \/ ClientEnds
  BY <1>4 DEF EditBegins, EditOk, EditCancel, ClickConnect, ClickDisconnect, ClientConnects,
    ClientEnds, around, StoredIsLoaded
<1>5. CASE Publish \/ CheckForUpdate \/ Update \/ UpdaterFails
  BY <1>5 DEF Publish, CheckForUpdate, Update, UpdaterFails, panel, StoredIsLoaded
<1>6. CASE UNCHANGED vars
  BY <1>6 DEF vars, panel, StoredIsLoaded
<1> QED BY <1>1, <1>2, <1>3, <1>4, <1>5, <1>6 DEF Next

\* Once stored, the address is that of every later start.
THEOREM StoredAddressKept == Spec => AddressKept
<1>1. Init => StoredIsLoaded
  BY DEF Init, StoredIsLoaded
<1>2. (TypeOK /\ RunningHasKey) /\ StoredIsLoaded /\ [Next]_vars => StoredIsLoaded'
  BY NextStored
<1>3. (TypeOK /\ RunningHasKey) /\ StoredIsLoaded /\ [Next]_vars
        => [stored # None => /\ stored'.key = stored.key
                             /\ process' = "running" => key' = stored.key]_vars
  BY NextStored
<1> QED BY <1>1, <1>2, <1>3, TypesAlways, PTL DEF Spec, AddressKept

-----------------------------------------------------------------------------
(* Versions *)

LEMMA NextAscending ==
  ASSUME TypeOK, Ascending, [Next]_vars
  PROVE  Ascending' /\ version' >= version /\ exe' >= exe
<1>0. exe \in Nat /\ version \in Nat /\ release \in Nat /\ latest \in Nat
  BY DesktopAssumption DEF TypeOK, Version
<1>1. CASE Start \/ Restart
  BY <1>0, <1>1 DEF Start, Restart, Begin, Ascending
<1>2. CASE CheckForUpdate
  BY <1>0, <1>2 DEF CheckForUpdate, IsGreater, Ascending
<1>3. CASE Update
  BY <1>0, <1>3 DEF Update, Ascending
<1>4. CASE UpdaterFails
  BY <1>0, <1>4 DEF UpdaterFails, Ascending
<1>5. CASE Save \/ Close \/ Crash
  BY <1>0, <1>5 DEF Save, Close, Crash, Ends, update, Ascending
<1>6. CASE \/ EditBegins \/ EditOk \/ EditCancel \/ ClickConnect \/ ClickDisconnect
           \/ ClientConnects \/ ClientEnds
  BY <1>0, <1>6 DEF EditBegins, EditOk, EditCancel, ClickConnect, ClickDisconnect, ClientConnects,
    ClientEnds, around, update, Ascending
<1>7. CASE Publish \/ UNCHANGED vars
  BY <1>0, <1>7 DEF Publish, vars, update, Ascending
<1> QED BY <1>1, <1>2, <1>3, <1>4, <1>5, <1>6, <1>7 DEF Next

\* Neither the executable nor the process goes back to an older version.
THEOREM VersionsAscend == Spec => NeverDowngrades
<1>1. Init => Ascending
  BY DEF Init, Ascending
<1>2. TypeOK /\ Ascending /\ [Next]_vars => Ascending'
  BY NextAscending
<1>3. TypeOK /\ Ascending /\ [Next]_vars => [version' >= version /\ exe' >= exe]_vars
  BY NextAscending
<1> QED BY <1>1, <1>2, <1>3, DesktopTypeCorrect, PTL DEF Spec, NeverDowngrades
=============================================================================
