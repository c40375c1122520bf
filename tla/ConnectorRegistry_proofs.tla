------------------------ MODULE ConnectorRegistry_proofs ------------------------
(***************************************************************************)
(* Proofs about ConnectorRegistry, for any number of requests, providers,   *)
(* configurations and failures: its types, one row per provider, that it    *)
(* implements LiveRegistry, and that what an answer told an administrator is *)
(* wrong only where requests ran at the same time.                          *)
(***************************************************************************)
EXTENDS ConnectorRegistry, TLAPS

LEMMA MergeType ==
  ASSUME NEW x \in Row, NEW body \in Data
  PROVE  /\ Merge(x, body) \in Row
         /\ Merge(x, body).id = x.id
         /\ Merge(x, body).providerId = x.providerId
BY NamesAssumption DEF Merge, Row, Data

LEMMA NewRowType ==
  ASSUME NEW id \in Ids, NEW p \in Providers, NEW config \in Configs
  PROVE  /\ NewRow(id, p, config) \in Row
         /\ NewRow(id, p, config).providerId = p
BY DEF NewRow, Row

LEMMA EmptyType == Empty \in Map
BY DEF Empty, Map

LEMMA InitTypeOK == Init => TypeOK
<1> SUFFICES ASSUME Init PROVE TypeOK
  OBVIOUS
<1>1. EnvConfig \in Configs /\ Providers \subseteq Ids
  BY ConfigsAssumption DEF Ids
<1>2. connectors \subseteq Row
  BY <1>1 DEF Init, NewRow, Row
<1>3. NoRow \in Row
  BY <1>1, NewRowType, NamesAssumption DEF NoRow
<1>4. NoData \in Data
  BY DEF NoData, Data
<1> QED
  BY <1>2, <1>3, <1>4, EmptyType, MaxFailuresAssumption DEF Init, TypeOK, PCs

------------------------------------------------------------------------------
(* Type correctness, one lemma per group of actions.                       *)

LEMMA ArriveTypeOK ==
  ASSUME TypeOK, NEW r \in Requests, Arrive(r)
  PROVE  TypeOK'
<1> USE DEF PCs, Goto
<1>1. ASSUME NEW operation \in {"create", "patch", "delete"}, NEW x \in Row,
             NEW body \in Data, NEW step \in {"validate", "write"},
             Begin(r, operation, x, body, step)
      PROVE  TypeOK'
  <2>1. r \in Loaders
    BY DEF Loaders
  <2>2. /\ pc' \in [Loaders -> PCs]
        /\ op' \in [Requests -> {"none", "create", "patch", "delete"}]
        /\ row' \in [Requests -> Row]
        /\ data' \in [Requests -> Data]
        /\ prior' \in [Requests -> SUBSET Requests]
    BY <1>1, <2>1 DEF Begin, TypeOK
  <2> QED
    BY <1>1, <2>2 DEF Begin, TypeOK
<1>2. CASE \E p \in Providers, config \in Configs : Create(r, p, config)
  <2>1. PICK p \in Providers, config \in Configs : Create(r, p, config)
    BY <1>2
  <2>2. NewRow(r, p, config) \in Row /\ NoData \in Data
    BY NewRowType DEF Ids, NoData, Data
  <2> QED
    BY <1>1, <2>1, <2>2 DEF Create
<1>3. CASE \E body \in Data : Patch(r, body)
  <2>1. PICK body \in Data, x \in connectors :
          Begin(r, "patch", Merge(x, body), body,
                IF Merge(x, body).enabled THEN "validate" ELSE "write")
    BY <1>3 DEF Patch
  <2>2. Merge(x, body) \in Row
    BY MergeType DEF TypeOK
  <2> QED
    BY <1>1, <2>1, <2>2
<1>4. CASE Delete(r)
  <2>1. PICK x \in connectors : Begin(r, "delete", x, NoData, "write")
    BY <1>4 DEF Delete
  <2>2. x \in Row /\ NoData \in Data
    BY DEF TypeOK, NoData, Data
  <2> QED
    BY <1>1, <2>1, <2>2
<1> QED
  BY <1>2, <1>3, <1>4 DEF Arrive

LEMMA StepTypeOK ==
  ASSUME TypeOK, NEW r \in Requests, Step(r)
  PROVE  TypeOK'
<1> USE DEF PCs, Goto, locals
<1>1. r \in Loaders
  BY DEF Loaders
<1>2. CASE Validate(r)
  <2>1. failures' \in 0..MaxFailures
    BY <1>2, MaxFailuresAssumption DEF Validate, BuildSucceeds, BuildFails, TypeOK
  <2> QED
    BY <1>1, <1>2, <2>1 DEF Validate, TypeOK
<1>3. CASE Insert(r)
  BY <1>1, <1>3 DEF Insert, WriteFrame, TypeOK
<1>4. CASE Update(r)
  <2>1. PICK x \in connectors :
          /\ connectors' = (connectors \ {x}) \cup {Merge(x, data[r])}
          /\ Goto(r, "write", "findMany") /\ WriteFrame
    BY <1>4 DEF Update, RowsAt
  <2>2. Merge(x, data[r]) \in Row
    BY MergeType DEF TypeOK
  <2> QED
    BY <1>1, <2>1, <2>2 DEF WriteFrame, TypeOK
<1>5. CASE Remove(r)
  BY <1>1, <1>5 DEF Remove, RowsAt, WriteFrame, TypeOK
<1>6. CASE WriteFails(r)
  BY <1>1, <1>6 DEF WriteFails, WriteFrame, TypeOK
<1> QED
  BY <1>2, <1>3, <1>4, <1>5, <1>6 DEF Step

\* Build, with its alternatives apart from its frame.
LEMMA BuildEffect ==
  ASSUME TypeOK, NEW l \in Loaders, Build(l)
  PROVE  \E x \in todo[l] :
           /\ pc[l] = "build"
           /\ pc' = [pc EXCEPT ![l] = IF todo[l] = {x} THEN "swap" ELSE "build"]
           /\ todo' = [todo EXCEPT ![l] = @ \ {x}]
           /\ \/ /\ x.config \in Buildable
                 /\ next' = [next EXCEPT ![l] = [@ EXCEPT ![x.providerId] = x.config]]
              \/ next' = next
           /\ skipped' = skipped \/ skipped' = [skipped EXCEPT ![l] = @ \cup {x.providerId}]
           /\ failures' \in 0..MaxFailures
           /\ UNCHANGED <<registry, rows, missing, connectors, op, row, data, prior>>
<1>1. PICK x \in todo[l] :
        /\ Goto(l, "build", IF todo[l] = {x} THEN "swap" ELSE "build")
        /\ todo' = [todo EXCEPT ![l] = @ \ {x}]
        /\ \/ /\ BuildSucceeds(x.config)
              /\ next' = [next EXCEPT ![l][x.providerId] = x.config]
              /\ UNCHANGED skipped
           \/ /\ BuildFails(x.config)
              /\ skipped' = [skipped EXCEPT ![l] = @ \cup {x.providerId}]
              /\ UNCHANGED next
        /\ UNCHANGED <<registry, rows, missing>> /\ ReloadFrame
  BY DEF Build
<1>2. failures' \in 0..MaxFailures
  BY <1>1, MaxFailuresAssumption DEF BuildSucceeds, BuildFails, TypeOK
<1> QED
  BY <1>1, <1>2 DEF Goto, BuildSucceeds, ReloadFrame

LEMMA ReloadTypeOK ==
  ASSUME TypeOK, NEW l \in Loaders, Reload(l)
  PROVE  TypeOK'
<1> USE DEF PCs, Goto, ReloadFrame
<1>1. CASE FindMany(l)
  <2>1. EnabledRows \subseteq Row
    BY DEF EnabledRows, TypeOK
  <2> QED
    BY <1>1, <2>1 DEF FindMany, TypeOK
<1>2. CASE FindManyFails(l)
  BY <1>2, MaxFailuresAssumption DEF FindManyFails, TypeOK
<1>3. CASE Build(l)
  <2>1. PICK x \in todo[l] :
          /\ pc' = [pc EXCEPT ![l] = IF todo[l] = {x} THEN "swap" ELSE "build"]
          /\ todo' = [todo EXCEPT ![l] = @ \ {x}]
          /\ \/ next' = [next EXCEPT ![l] = [@ EXCEPT ![x.providerId] = x.config]]
             \/ next' = next
          /\ skipped' = skipped \/ skipped' = [skipped EXCEPT ![l] = @ \cup {x.providerId}]
          /\ failures' \in 0..MaxFailures
          /\ UNCHANGED <<registry, rows, missing, connectors, op, row, data, prior>>
    BY <1>3, BuildEffect
  <2>2. x \in Row
    BY DEF TypeOK
  <2>3. x.providerId \in Providers /\ x.config \in Configs
    BY <2>2 DEF Row
  <2>4. [next[l] EXCEPT ![x.providerId] = x.config] \in Map
    BY <2>3 DEF TypeOK, Map
  <2>5. /\ pc' \in [Loaders -> PCs]
        /\ todo' \in [Loaders -> SUBSET Row]
        /\ next' \in [Loaders -> Map]
        /\ skipped' \in [Loaders -> SUBSET Providers]
    BY <2>1, <2>3, <2>4 DEF TypeOK
  <2> QED
    BY <2>1, <2>5 DEF TypeOK
<1>4. CASE Swap(l)
  BY <1>4, EmptyType DEF Swap, TypeOK
<1> QED
  BY <1>1, <1>2, <1>3, <1>4 DEF Reload

LEMMA ProcessTypeOK ==
  ASSUME TypeOK, Count \/ Migrate \/ Crash
  PROVE  TypeOK'
<1> USE DEF PCs, Goto, BootFrame, locals
<1>1. Boot \in Loaders
  BY DEF Loaders
<1>2. CASE Count
  BY <1>1, <1>2 DEF Count, TypeOK
<1>3. CASE Migrate
  <2>1. PICK p \in EnvProviders :
          /\ connectors' = connectors \cup {NewRow(p, p, EnvConfig)}
          /\ Goto(Boot, "migrate",
                  IF \A q \in EnvProviders \ {p} : RowsOf(q) # {}
                  THEN "findMany" ELSE "migrate")
          /\ BootFrame
    BY <1>3 DEF Migrate
  <2>2. NewRow(p, p, EnvConfig) \in Row
    BY ConfigsAssumption, NewRowType DEF Ids
  <2> QED
    BY <1>1, <2>1, <2>2 DEF TypeOK
<1>4. CASE Crash
  <2>1. pc' \in [Loaders -> PCs]
    BY <1>4 DEF Crash, TypeOK
  <2>2. failures' \in 0..MaxFailures
    BY <1>4, MaxFailuresAssumption DEF Crash, TypeOK
  <2> QED
    BY <1>4, <2>1, <2>2, EmptyType DEF Crash, TypeOK
<1> QED
  BY <1>2, <1>3, <1>4

LEMMA TypeOKStep ==
  ASSUME TypeOK, [Next]_vars
  PROVE  TypeOK'
<1>1. CASE UNCHANGED vars
  BY <1>1 DEF vars, locals, TypeOK
<1> QED
  BY <1>1, ArriveTypeOK, StepTypeOK, ReloadTypeOK, ProcessTypeOK DEF Next, Rest

\* Every table, request and reload stays in its type (connectorsApi.ts,
\* registry.ts).
THEOREM TypeCorrect == Spec => []TypeOK
<1>1. TypeOK /\ [Next]_vars => TypeOK'
  BY TypeOKStep
<1> QED
  BY InitTypeOK, <1>1, PTL DEF Spec

------------------------------------------------------------------------------
(* The inductive invariant.  That a reload publishes what it has read needs  *)
(* to know, for every loader, that the map under construction is part of     *)
(* what was read, and that what was read names each provider once.           *)

Building == {"build", "swap"}

OnePerProvider(X) == \A x, y \in X : x.providerId = y.providerId => x = y

\* What a reload has read is the enabled part of a table.
RowsAreEntries ==
  \A l \in Loaders : OnePerProvider(rows[l]) /\ todo[l] \subseteq rows[l]
                     /\ (\A x \in rows[l] : x.enabled)
                     /\ (pc[l] # "build" => todo[l] = {})

\* next[l] grows from Empty towards the entries of rows[l].
NextIsPart ==
  \A l \in Loaders :
    /\ pc[l] \notin Building => next[l] = Empty
    /\ \A p \in Providers :
         \/ next[l][p] = Off
         \/ next[l][p] = Entries(rows[l])[p] /\ next[l][p] \in Buildable

IInv == TypeOK /\ OneRowPerProvider /\ RowsAreEntries /\ NextIsPart

LEMMA EntriesType ==
  ASSUME NEW X \in SUBSET Row
  PROVE  Entries(X) \in Map
<1>1. ASSUME NEW p \in Providers, \E x \in X : x.providerId = p /\ x.enabled
      PROVE  (CHOOSE x \in X : x.providerId = p /\ x.enabled).config \in Configs
  BY <1>1 DEF Row
<1> QED
  BY <1>1 DEF Entries, Map

\* In a set with one row per provider, the entry of a provider is its row's.
LEMMA EntryOfRow ==
  ASSUME NEW X \in SUBSET Row, OnePerProvider(X), NEW x \in X, x.enabled
  PROVE  Entries(X)[x.providerId] = x.config
<1>1. x.providerId \in Providers
  BY DEF Row
<1>2. (CHOOSE y \in X : y.providerId = x.providerId /\ y.enabled) = x
  BY DEF OnePerProvider
<1> QED
  BY <1>1, <1>2 DEF Entries

LEMMA NoEntry ==
  ASSUME NEW X, NEW p \in Providers, ~\E x \in X : x.providerId = p /\ x.enabled
  PROVE  Entries(X)[p] = Off
BY DEF Entries

\* Two sets that agree about the enabled rows of p have the same entry for p.
LEMMA SameEntry ==
  ASSUME NEW X \in SUBSET Row, NEW Y \in SUBSET Row,
         OnePerProvider(X), OnePerProvider(Y), NEW p \in Providers,
         \A x \in Row : x.providerId = p /\ x.enabled => (x \in X <=> x \in Y)
  PROVE  Entries(X)[p] = Entries(Y)[p]
<1>1. CASE \E x \in X : x.providerId = p /\ x.enabled
  <2>1. PICK x \in X : x.providerId = p /\ x.enabled
    BY <1>1
  <2>2. x \in Y
    BY <2>1
  <2> QED
    BY <2>1, <2>2, EntryOfRow
<1>2. CASE ~\E x \in X : x.providerId = p /\ x.enabled
  <2>1. ~\E x \in Y : x.providerId = p /\ x.enabled
    BY <1>2
  <2> QED
    BY <1>2, <2>1, NoEntry
<1> QED
  BY <1>1, <1>2

LEMMA EnabledEntries ==
  ASSUME NEW X \in SUBSET Row, OnePerProvider(X)
  PROVE  /\ OnePerProvider({x \in X : x.enabled})
         /\ Entries({x \in X : x.enabled}) = Entries(X)
<1> DEFINE Y == {x \in X : x.enabled}
<1>1. OnePerProvider(Y) /\ Y \in SUBSET Row
  BY DEF OnePerProvider
<1>2. \A p \in Providers : Entries(Y)[p] = Entries(X)[p]
  BY <1>1, SameEntry
<1>3. Entries(Y) \in Map /\ Entries(X) \in Map
  BY <1>1, EntriesType
<1> QED
  BY <1>1, <1>2, <1>3 DEF Map

\* A write to the rows of one provider is a write to its entry.
LEMMA OneEntryChanges ==
  ASSUME NEW X \in SUBSET Row, NEW Y \in SUBSET Row,
         OnePerProvider(X), OnePerProvider(Y), NEW p \in Providers,
         \A x \in Row : x.providerId # p => (x \in X <=> x \in Y)
  PROVE  \E config \in Configs \cup {Off} : Entries(Y) = [Entries(X) EXCEPT ![p] = config]
<1>1. Entries(Y) \in Map /\ Entries(X) \in Map
  BY EntriesType
<1>2. \A q \in Providers \ {p} : Entries(Y)[q] = Entries(X)[q]
  BY SameEntry
<1>3. Entries(Y)[p] \in Configs \cup {Off}
  BY <1>1 DEF Map
<1>4. Entries(Y) = [Entries(X) EXCEPT ![p] = Entries(Y)[p]]
  BY <1>1, <1>2 DEF Map
<1> QED
  BY <1>3, <1>4
------------------------------------------------------------------------------
(* The invariant holds.                                                    *)

LEMMA InitIInv == Init => IInv
<1> SUFFICES ASSUME Init PROVE IInv
  OBVIOUS
<1>1. TypeOK
  BY InitTypeOK
<1>2. OneRowPerProvider
  <2>0. PICK P \in SUBSET Providers : \E D \in SUBSET P :
          connectors = {[NewRow(p, p, EnvConfig) EXCEPT !.enabled = p \notin D] : p \in P}
    BY DEF Init
  <2>1. PICK D \in SUBSET P :
          connectors = {[NewRow(p, p, EnvConfig) EXCEPT !.enabled = p \notin D] : p \in P}
    BY <2>0
  <2> DEFINE R(p) == [NewRow(p, p, EnvConfig) EXCEPT !.enabled = p \notin D]
  <2>2. \A p \in P : R(p).providerId = p
    BY DEF NewRow
  <2>3. \A x \in connectors : \E p \in P : x = R(p)
    BY <2>1
  <2> HIDE DEF R
  <2> QED
    BY <2>2, <2>3 DEF OneRowPerProvider
<1>3. RowsAreEntries
  BY DEF Init, RowsAreEntries, OnePerProvider
<1>4. NextIsPart
  BY DEF Init, NextIsPart, Empty
<1> QED
  BY <1>1, <1>2, <1>3, <1>4 DEF IInv

\* A step that leaves every reload where it is.
NoReload ==
  /\ UNCHANGED <<registry, rows, todo, next>>
  /\ \A l \in Loaders : pc'[l] = pc[l] \/ {pc[l], pc'[l]} \cap Building = {}

\* How NextIsPart' is shown of a step: loader by loader.
LEMMA PartOfRows ==
  ASSUME \A l \in Loaders :
           /\ pc'[l] \notin Building => next'[l] = Empty
           /\ \A p \in Providers :
                \/ next'[l][p] = Off
                \/ next'[l][p] = Entries(rows'[l])[p] /\ next'[l][p] \in Buildable
  PROVE  NextIsPart'
BY DEF NextIsPart, Entries

LEMMA NoReloadKeeps ==
  ASSUME RowsAreEntries, NextIsPart, NoReload
  PROVE  RowsAreEntries' /\ NextIsPart'
<1>1. UNCHANGED <<rows, todo, next>>
  BY DEF NoReload
<1>2. \A l \in Loaders : /\ pc'[l] # "build" => pc[l] # "build"
                         /\ pc'[l] \notin Building => pc[l] \notin Building
  BY DEF NoReload, Building
<1>3. RowsAreEntries'
  BY <1>1, <1>2 DEF RowsAreEntries
<1>4. \A l \in Loaders :
        /\ pc'[l] \notin Building => next'[l] = Empty
        /\ \A p \in Providers :
             \/ next'[l][p] = Off
             \/ next'[l][p] = Entries(rows'[l])[p] /\ next'[l][p] \in Buildable
  BY <1>1, <1>2 DEF NextIsPart
<1>5. NextIsPart'
  BY <1>4, PartOfRows
<1> QED
  BY <1>3, <1>5

\* The table changes in the rows of one provider at most, and keeps its index.
WritesOne ==
  /\ OnePerProvider(connectors')
  /\ \E p \in Providers :
       \A x \in Row : x.providerId # p => (x \in connectors <=> x \in connectors')

LEMMA ArriveEffect ==
  ASSUME TypeOK, NEW r \in Requests, Arrive(r)
  PROVE  NoReload /\ UNCHANGED connectors
<1>1. ASSUME NEW operation, NEW x, NEW body, NEW step \in {"validate", "write"},
             Begin(r, operation, x, body, step)
      PROVE  NoReload /\ UNCHANGED connectors
  BY <1>1 DEF Begin, Goto, NoReload, Building, TypeOK
<1> QED
  BY <1>1 DEF Arrive, Create, Patch, Delete

LEMMA StepEffect ==
  ASSUME TypeOK, OneRowPerProvider, NEW r \in Requests, Step(r)
  PROVE  NoReload /\ (UNCHANGED connectors \/ WritesOne)
<1> USE DEF Goto, NoReload, Building, TypeOK, locals, WriteFrame
<1>1. row[r].providerId \in Providers
  BY DEF Row
<1>2. CASE Validate(r)
  BY <1>2 DEF Validate
<1>3. CASE Insert(r)
  <2>1. connectors' = connectors \cup {row[r]} /\ RowsOf(row[r].providerId) = {}
    BY <1>3 DEF Insert
  <2>2. WritesOne
    BY <1>1, <2>1 DEF WritesOne, OnePerProvider, OneRowPerProvider, RowsOf
  <2> QED
    BY <1>3, <2>2 DEF Insert
<1>4. CASE Update(r)
  <2>1. PICK x \in connectors :
          /\ connectors' = (connectors \ {x}) \cup {Merge(x, data[r])}
          /\ Goto(r, "write", "findMany") /\ WriteFrame
    BY <1>4 DEF Update, RowsAt
  <2>2. Merge(x, data[r]).providerId = x.providerId /\ x.providerId \in Providers
    BY MergeType DEF Row
  <2>3. OnePerProvider(connectors')
    BY <2>1, <2>2 DEF OnePerProvider, OneRowPerProvider
  <2>4. \A y \in Row : y.providerId # x.providerId =>
                          (y \in connectors <=> y \in connectors')
    BY <2>1, <2>2
  <2>5. WritesOne
    BY <2>2, <2>3, <2>4 DEF WritesOne
  <2> QED
    BY <2>1, <2>5
<1>5. CASE Remove(r)
  <2>1. PICK x \in connectors : connectors' = connectors \ {x}
    BY <1>5 DEF Remove, RowsAt
  <2>2. x.providerId \in Providers
    BY DEF Row
  <2>3. WritesOne
    BY <2>1, <2>2 DEF WritesOne, OnePerProvider, OneRowPerProvider
  <2> QED
    BY <1>5, <2>3 DEF Remove
<1>6. CASE WriteFails(r)
  BY <1>6 DEF WriteFails
<1> QED
  BY <1>2, <1>3, <1>4, <1>5, <1>6 DEF Step

LEMMA BootEffect ==
  ASSUME TypeOK, OneRowPerProvider, Count \/ Migrate
  PROVE  NoReload /\ (UNCHANGED connectors \/ WritesOne)
<1> USE DEF Goto, NoReload, Building, TypeOK, locals, BootFrame
<1>1. CASE Count
  BY <1>1 DEF Count
<1>2. CASE Migrate
  <2>1. PICK p \in EnvProviders :
          /\ RowsOf(p) = {}
          /\ connectors' = connectors \cup {NewRow(p, p, EnvConfig)}
          /\ Goto(Boot, "migrate",
                  IF \A q \in EnvProviders \ {p} : RowsOf(q) # {}
                  THEN "findMany" ELSE "migrate")
          /\ BootFrame
    BY <1>2 DEF Migrate
  <2>2. NewRow(p, p, EnvConfig).providerId = p /\ p \in Providers
    BY ConfigsAssumption, NewRowType DEF Ids
  <2>3. WritesOne
    BY <2>1, <2>2 DEF WritesOne, OnePerProvider, OneRowPerProvider, RowsOf
  <2> QED
    BY <2>1, <2>3
<1> QED
  BY <1>1, <1>2
LEMMA FindManyEffect ==
  ASSUME TypeOK, OneRowPerProvider, NEW l \in Loaders, FindMany(l)
  PROVE  /\ pc[l] = "findMany" /\ pc'[l] \in Building
         /\ EnabledRows # {} => pc'[l] = "build"
         /\ rows' = [rows EXCEPT ![l] = EnabledRows]
         /\ todo' = [todo EXCEPT ![l] = EnabledRows]
         /\ \A k \in Loaders \ {l} : pc'[k] = pc[k]
         /\ OnePerProvider(EnabledRows)
         /\ Entries(EnabledRows) = Entries(connectors)
         /\ UNCHANGED <<connectors, registry, next>>
<1>1. OnePerProvider(connectors) /\ connectors \in SUBSET Row
  BY DEF OneRowPerProvider, OnePerProvider, TypeOK
<1>2. OnePerProvider(EnabledRows) /\ Entries(EnabledRows) = Entries(connectors)
  BY <1>1, EnabledEntries DEF EnabledRows
<1> QED
  BY <1>2 DEF FindMany, Goto, Building, ReloadFrame, TypeOK

LEMMA FindManyInvariant ==
  ASSUME IInv, NEW l \in Loaders, FindMany(l)
  PROVE  RowsAreEntries' /\ NextIsPart'
<1> USE DEF IInv
<1>1. /\ pc[l] = "findMany" /\ pc'[l] \in Building
      /\ EnabledRows # {} => pc'[l] = "build"
      /\ rows' = [rows EXCEPT ![l] = EnabledRows]
      /\ todo' = [todo EXCEPT ![l] = EnabledRows]
      /\ \A k \in Loaders \ {l} : pc'[k] = pc[k]
      /\ OnePerProvider(EnabledRows)
      /\ next' = next
  BY FindManyEffect
<1>2. rows'[l] = EnabledRows /\ todo'[l] = EnabledRows
  BY <1>1 DEF TypeOK
<1>3. \A k \in Loaders \ {l} : rows'[k] = rows[k] /\ todo'[k] = todo[k]
  BY <1>1 DEF TypeOK
<1>4. \A x \in EnabledRows : x.enabled
  BY DEF EnabledRows
<1>5. RowsAreEntries'
  BY <1>1, <1>2, <1>3, <1>4 DEF RowsAreEntries
<1>6. next[l] = Empty
  BY <1>1 DEF NextIsPart, Building
<1>7. \A k \in Loaders : \A p \in Providers :
         \/ next'[k][p] = Off
         \/ next'[k][p] = Entries(rows'[k])[p] /\ next'[k][p] \in Buildable
  <2>1. \A p \in Providers : next'[l][p] = Off
    BY <1>1, <1>6 DEF Empty
  <2> QED
    BY <1>1, <1>3, <2>1 DEF NextIsPart
<1>8. \A k \in Loaders : pc'[k] \notin Building => next'[k] = Empty
  BY <1>1 DEF NextIsPart
<1>9. NextIsPart'
  BY <1>7, <1>8, PartOfRows
<1> QED
  BY <1>5, <1>9

LEMMA BuildInvariant ==
  ASSUME IInv, NEW l \in Loaders, Build(l)
  PROVE  RowsAreEntries' /\ NextIsPart'
<1> USE DEF IInv
<1>1. PICK x \in todo[l] :
        /\ pc[l] = "build"
        /\ pc' = [pc EXCEPT ![l] = IF todo[l] = {x} THEN "swap" ELSE "build"]
        /\ todo' = [todo EXCEPT ![l] = @ \ {x}]
        /\ \/ /\ x.config \in Buildable
              /\ next' = [next EXCEPT ![l] = [@ EXCEPT ![x.providerId] = x.config]]
           \/ next' = next
        /\ rows' = rows
  BY BuildEffect
<1>2. /\ x \in rows[l] /\ x.enabled /\ OnePerProvider(rows[l])
      /\ rows[l] \in SUBSET Row /\ x.providerId \in Providers
  BY DEF RowsAreEntries, TypeOK, Row
<1>3. Entries(rows[l])[x.providerId] = x.config
  BY <1>2, EntryOfRow
<1>4. \A k \in Loaders : /\ pc'[k] \in Building <=> pc[k] \in Building
                         /\ todo'[k] \subseteq todo[k]
                         /\ pc'[k] # "build" => todo'[k] = {}
  BY <1>1 DEF TypeOK, Building, RowsAreEntries
<1>5. RowsAreEntries'
  BY <1>1, <1>4 DEF RowsAreEntries
<1>6. CASE next' = next
  <2>1. \A k \in Loaders :
          /\ pc'[k] \notin Building => next'[k] = Empty
          /\ \A p \in Providers :
               \/ next'[k][p] = Off
               \/ next'[k][p] = Entries(rows'[k])[p] /\ next'[k][p] \in Buildable
    BY <1>1, <1>4, <1>6 DEF NextIsPart
  <2> QED
    BY <1>5, <2>1, PartOfRows
<1>7. CASE /\ x.config \in Buildable
           /\ next' = [next EXCEPT ![l] = [@ EXCEPT ![x.providerId] = x.config]]
  <2>1. next'[l] = [next[l] EXCEPT ![x.providerId] = x.config]
    BY <1>7 DEF TypeOK
  <2>2. \A k \in Loaders \ {l} : next'[k] = next[k]
    BY <1>7 DEF TypeOK
  <2>3. next[l] \in Map
    BY DEF TypeOK
  <2>4. \A p \in Providers :
          next'[l][p] = IF p = x.providerId THEN x.config ELSE next[l][p]
    BY <2>1, <2>3 DEF Map
  <2>5. \A p \in Providers :
          \/ next'[l][p] = Off
          \/ next'[l][p] = Entries(rows[l])[p] /\ next'[l][p] \in Buildable
    BY <1>3, <1>7, <2>4 DEF NextIsPart
  <2>6. pc[l] \in Building
    BY <1>1 DEF Building
  <2>7. \A k \in Loaders :
          /\ pc'[k] \notin Building => next'[k] = Empty
          /\ \A p \in Providers :
               \/ next'[k][p] = Off
               \/ next'[k][p] = Entries(rows'[k])[p] /\ next'[k][p] \in Buildable
    BY <1>1, <1>4, <2>2, <2>5, <2>6 DEF NextIsPart
  <2> QED
    BY <1>5, <2>7, PartOfRows
<1> QED
  BY <1>1, <1>5, <1>6, <1>7

LEMMA SwapInvariant ==
  ASSUME IInv, NEW l \in Loaders, Swap(l)
  PROVE  RowsAreEntries' /\ NextIsPart'
<1> USE DEF IInv
<1>1. /\ pc[l] = "swap" /\ pc' = [pc EXCEPT ![l] = "done"]
      /\ rows' = [rows EXCEPT ![l] = {}]
      /\ next' = [next EXCEPT ![l] = Empty]
      /\ todo' = todo
  BY DEF Swap, Goto
<1>2. rows'[l] = {} /\ next'[l] = Empty /\ pc'[l] \notin Building
  BY <1>1 DEF TypeOK, Building
<1>3. \A k \in Loaders \ {l} : rows'[k] = rows[k] /\ next'[k] = next[k] /\ pc'[k] = pc[k]
  BY <1>1 DEF TypeOK
<1>4. todo[l] = {}
  BY <1>1 DEF RowsAreEntries
<1>5. RowsAreEntries'
  BY <1>1, <1>2, <1>3, <1>4 DEF RowsAreEntries, OnePerProvider
<1>6. \A p \in Providers : Empty[p] = Off
  BY DEF Empty
<1>7. \A k \in Loaders :
        /\ pc'[k] \notin Building => next'[k] = Empty
        /\ \A p \in Providers :
             \/ next'[k][p] = Off
             \/ next'[k][p] = Entries(rows'[k])[p] /\ next'[k][p] \in Buildable
  BY <1>2, <1>3, <1>6 DEF NextIsPart
<1>8. NextIsPart'
  BY <1>7, PartOfRows
<1> QED
  BY <1>5, <1>8
LEMMA CrashEffect ==
  ASSUME TypeOK, Crash
  PROVE  /\ registry' = Empty /\ UNCHANGED connectors
         /\ \A l \in Loaders : /\ rows'[l] = {} /\ todo'[l] = {} /\ next'[l] = Empty
                               /\ pc'[l] \notin Building
BY DEF Crash, Building, Ended, TypeOK

LEMMA InductiveStep ==
  ASSUME IInv, [Next]_vars
  PROVE  IInv'
<1> USE DEF IInv
<1>1. TypeOK'
  BY TypeOKStep
<1>2. ASSUME NoReload, UNCHANGED connectors \/ WritesOne
      PROVE  IInv'
  <2>1. OneRowPerProvider'
    BY <1>2 DEF WritesOne, OneRowPerProvider, OnePerProvider
  <2> QED
    BY <1>1, <1>2, <2>1, NoReloadKeeps
<1>3. CASE UNCHANGED vars \/ Rest
  <2>1. NoReload /\ UNCHANGED connectors
    BY <1>3 DEF Rest, vars, locals, NoReload
  <2> QED
    BY <1>2, <2>1
<1>4. CASE \E r \in Requests : Arrive(r) \/ Step(r)
  BY <1>2, <1>4, ArriveEffect, StepEffect
<1>5. CASE Count \/ Migrate
  BY <1>2, <1>5, BootEffect
<1>6. CASE Crash
  <2>1. OneRowPerProvider'
    BY <1>6, CrashEffect DEF OneRowPerProvider
  <2>2. RowsAreEntries'
    BY <1>6, CrashEffect DEF RowsAreEntries, OnePerProvider
  <2>3. \A p \in Providers : Empty[p] = Off
    BY DEF Empty
  <2>4. NextIsPart'
    BY <1>6, <2>3, CrashEffect, PartOfRows
  <2> QED
    BY <1>1, <2>1, <2>2, <2>4
<1>7. CASE \E l \in Loaders : Reload(l)
  <2>1. PICK l \in Loaders : Reload(l)
    BY <1>7
  <2>2. UNCHANGED connectors
    BY <2>1 DEF Reload, FindMany, FindManyFails, Build, Swap, ReloadFrame
  <2>3. OneRowPerProvider'
    BY <2>2 DEF OneRowPerProvider
  <2>4. CASE FindManyFails(l)
    <3>1. NoReload
      BY <2>4 DEF FindManyFails, Goto, NoReload, Building, TypeOK
    <3> QED
      BY <1>2, <2>2, <3>1
  <2>5. CASE FindMany(l) \/ Build(l) \/ Swap(l)
    BY <1>1, <2>3, <2>5, FindManyInvariant, BuildInvariant, SwapInvariant
  <2> QED
    BY <2>1, <2>4, <2>5 DEF Reload
<1> QED
  BY <1>3, <1>4, <1>5, <1>6, <1>7 DEF Next

\* The inductive invariant of the registry.
THEOREM Inductive == Spec => []IInv
<1>1. IInv /\ [Next]_vars => IInv'
  BY InductiveStep
<1> QED
  BY InitIInv, <1>1, PTL DEF Spec

\* Two administrators who add one provider at once get one row, however many
\* requests interleave (connectorsApi.ts:115, 152).
THEOREM ProviderHasOneRow == Spec => []OneRowPerProvider
<1>1. IInv => OneRowPerProvider
  BY DEF IInv
<1> QED
  BY Inductive, <1>1, PTL

------------------------------------------------------------------------------
(* ConnectorRegistry implements LiveRegistry, step by step.                *)

\* What LiveRegistry calls snapshot.
Snapshots == [l \in Loaders |-> IF pc[l] \in {"build", "swap"}
                                THEN Entries(rows[l]) ELSE Absent]

LEMMA RefinesInit ==
  ASSUME Init
  PROVE  Abstract!Init
<1>1. TypeOK
  BY InitTypeOK
<1>2. Entries(connectors) \in Map
  BY <1>1, EntriesType DEF TypeOK
<1>3. Snapshots = [l \in Loaders |-> Absent]
  BY DEF Init, Snapshots
<1> QED
  BY <1>2, <1>3 DEF Init, Abstract!Init, Abstract!Map, Abstract!Empty, Map, Empty, Snapshots

\* Steps outside the reloads are writes of one entry, or stutter.
LEMMA NoReloadRefines ==
  ASSUME IInv, IInv', NoReload, UNCHANGED connectors \/ WritesOne
  PROVE  Abstract!Write \/ UNCHANGED Abstract!vars
<1> USE DEF IInv
<1>1. UNCHANGED Snapshots
  BY DEF NoReload, Snapshots, Building
<1>2. CASE UNCHANGED connectors
  <2>1. UNCHANGED Entries(connectors)
    BY <1>2
  <2> QED
    BY <1>1, <2>1 DEF NoReload, Abstract!vars, Snapshots
<1>3. CASE WritesOne
  <2>1. OnePerProvider(connectors)
    BY DEF OneRowPerProvider, OnePerProvider
  <2>2. connectors \in SUBSET Row /\ connectors' \in SUBSET Row
    BY DEF TypeOK
  <2>3. PICK p \in Providers, config \in Configs \cup {Off} :
          Entries(connectors') = [Entries(connectors) EXCEPT ![p] = config]
    BY <1>3, <2>1, <2>2, OneEntryChanges DEF WritesOne
  <2> QED
    BY <1>1, <2>3 DEF NoReload, Abstract!Write, Snapshots
<1> QED
  BY <1>2, <1>3
\* findMany takes the snapshot.
LEMMA FindManyRefines ==
  ASSUME IInv, NEW l \in Loaders, FindMany(l)
  PROVE  Abstract!Take(l)
<1> USE DEF IInv
<1>1. /\ pc[l] = "findMany" /\ pc'[l] \in Building
      /\ rows' = [rows EXCEPT ![l] = EnabledRows]
      /\ \A k \in Loaders \ {l} : pc'[k] = pc[k]
      /\ Entries(EnabledRows) = Entries(connectors)
      /\ UNCHANGED <<connectors, registry>>
  BY FindManyEffect
<1>2. rows'[l] = EnabledRows /\ \A k \in Loaders \ {l} : rows'[k] = rows[k]
  BY <1>1 DEF TypeOK
<1>3. Snapshots[l] = Absent
  BY <1>1 DEF Snapshots
<1>4. Entries(rows'[l]) = Entries(connectors)
  BY <1>1, <1>2
<1>5. /\ pc'[l] \in {"build", "swap"}
      /\ \A k \in Loaders \ {l} : pc'[k] = pc[k] /\ Entries(rows'[k]) = Entries(rows[k])
  BY <1>1, <1>2 DEF Building
<1>6. [k \in Loaders |-> IF pc'[k] \in {"build", "swap"} THEN Entries(rows'[k]) ELSE Absent]
        = [Snapshots EXCEPT ![l] = Entries(connectors)]
  BY <1>4, <1>5 DEF Snapshots
<1>7. UNCHANGED Entries(connectors)
  BY <1>1
<1> QED
  BY <1>1, <1>3, <1>6, <1>7 DEF Abstract!Take, Snapshots

\* Building a connector changes nothing a reader sees.
LEMMA BuildRefines ==
  ASSUME IInv, NEW l \in Loaders, Build(l)
  PROVE  UNCHANGED Abstract!vars
<1> USE DEF IInv
<1>1. PICK x \in todo[l] :
        /\ pc[l] = "build"
        /\ pc' = [pc EXCEPT ![l] = IF todo[l] = {x} THEN "swap" ELSE "build"]
        /\ UNCHANGED <<registry, rows, connectors>>
  BY BuildEffect
<1>2. \A k \in Loaders : pc'[k] \in Building <=> pc[k] \in Building
  BY <1>1 DEF TypeOK, Building
<1>3. UNCHANGED Snapshots
  BY <1>1, <1>2 DEF Snapshots, Building
<1>4. UNCHANGED Entries(connectors)
  BY <1>1
<1> QED
  BY <1>1, <1>3, <1>4 DEF Abstract!vars, Snapshots

\* Swap publishes what was read, less what could not be built.
LEMMA SwapRefines ==
  ASSUME IInv, NEW l \in Loaders, Swap(l)
  PROVE  Abstract!Publish(l)
<1> USE DEF IInv
<1>1. /\ pc[l] = "swap" /\ pc' = [pc EXCEPT ![l] = "done"]
      /\ rows' = [rows EXCEPT ![l] = {}]
      /\ registry' = next[l] /\ UNCHANGED connectors
  BY DEF Swap, Goto, ReloadFrame
<1>2. Snapshots[l] = Entries(rows[l])
  BY <1>1 DEF Snapshots
<1>3. Entries(rows[l]) \in Map
  BY EntriesType DEF TypeOK
<1>4. Snapshots[l] # Absent
  BY <1>2, <1>3, NamesAssumption DEF Map
<1>5. registry' \in Map
  BY <1>1 DEF TypeOK
<1>6. \A p \in Providers :
        \/ registry'[p] = Off
        \/ registry'[p] = Snapshots[l][p] /\ registry'[p] \in Buildable
  BY <1>1, <1>2 DEF NextIsPart
<1>7. \A k \in Loaders \ {l} : pc'[k] = pc[k] /\ rows'[k] = rows[k]
  BY <1>1 DEF TypeOK
<1>8. pc'[l] = "done"
  BY <1>1 DEF TypeOK
<1>9. [k \in Loaders |-> IF pc'[k] \in {"build", "swap"} THEN Entries(rows'[k]) ELSE Absent]
        = [Snapshots EXCEPT ![l] = Absent]
  BY <1>7, <1>8 DEF Snapshots
<1>10. UNCHANGED Entries(connectors)
  BY <1>1
<1> QED
  BY <1>4, <1>5, <1>6, <1>9, <1>10 DEF Abstract!Publish, Abstract!Map, Map, Snapshots

\* A restart loses the live map and every snapshot.
LEMMA CrashRefines ==
  ASSUME IInv, Crash
  PROVE  Abstract!Lose
<1>1. /\ registry' = Empty /\ UNCHANGED connectors
      /\ \A l \in Loaders : pc'[l] \notin {"build", "swap"}
  BY CrashEffect DEF IInv, Building
<1>2. UNCHANGED Entries(connectors)
  BY <1>1
<1>3. [l \in Loaders |-> IF pc'[l] \in {"build", "swap"} THEN Entries(rows'[l]) ELSE Absent]
        = [l \in Loaders |-> Absent]
  BY <1>1
<1> QED
  BY <1>1, <1>2, <1>3 DEF Abstract!Lose, Abstract!Empty, Empty

LEMMA StepRefines ==
  ASSUME IInv, IInv', [Next]_vars
  PROVE  [Abstract!Next]_Abstract!vars
<1> USE DEF IInv
<1>1. ASSUME NoReload, UNCHANGED connectors \/ WritesOne
      PROVE  [Abstract!Next]_Abstract!vars
  BY <1>1, NoReloadRefines DEF Abstract!Next
<1>2. CASE UNCHANGED vars \/ Rest
  <2>1. NoReload /\ UNCHANGED connectors
    BY <1>2 DEF Rest, vars, locals, NoReload
  <2> QED
    BY <1>1, <2>1
<1>3. CASE \E r \in Requests : Arrive(r) \/ Step(r)
  BY <1>1, <1>3, ArriveEffect, StepEffect
<1>4. CASE Count \/ Migrate
  BY <1>1, <1>4, BootEffect
<1>5. CASE Crash
  BY <1>5, CrashRefines DEF Abstract!Next
<1>6. ASSUME NEW l \in Loaders, Reload(l)
      PROVE  [Abstract!Next]_Abstract!vars
  <2>1. CASE FindMany(l)
    BY <2>1, FindManyRefines DEF Abstract!Next
  <2>2. CASE FindManyFails(l)
    <3>1. NoReload /\ UNCHANGED connectors
      BY <2>2 DEF FindManyFails, Goto, NoReload, Building, TypeOK, ReloadFrame
    <3> QED
      BY <1>1, <3>1
  <2>3. CASE Build(l)
    BY <2>3, BuildRefines
  <2>4. CASE Swap(l)
    BY <2>4, SwapRefines DEF Abstract!Next
  <2> QED
    BY <1>6, <2>1, <2>2, <2>3, <2>4 DEF Reload
<1> QED
  BY <1>2, <1>3, <1>4, <1>5, <1>6 DEF Next

\* The registry implements LiveRegistry: a sign-in sees the connectors of one
\* moment, never a reload half done (registry.ts:107-121).
THEOREM RegistryIsASnapshot == Spec => LiveIsASnapshot
<1>1. Init => Abstract!Init
  BY RefinesInit
<1>2. IInv /\ IInv' /\ [Next]_vars => [Abstract!Next]_Abstract!vars
  BY StepRefines
<1> QED
  BY <1>1, <1>2, Inductive, PTL DEF Spec, LiveIsASnapshot, Abstract!Spec

------------------------------------------------------------------------------
(* What overlapping requests alone can do.  A request that runs alone      *)
(* publishes the table as it is; a row that cannot be built comes from two  *)
(* PATCHes, one of which wrote while the other was at work.                 *)

AtWork(r) == pc[r] \notin Ended \cup {"idle"}

\* What a request saw end before it began has ended, requests run only while the
\* server is up, and one that has not arrived has no operation.
RequestsRun ==
  \A r \in Requests :
    /\ \A s \in prior[r] : pc[s] \in Ended
    /\ AtWork(r) => pc[Boot] = "done"
    /\ pc[r] = "idle" => op[r] = "none"
    /\ pc[r] = "validate" => op[r] \in {"create", "patch"}
    /\ op[r] = "create" => row[r].id = r

\* What a reload that runs alone has read is what the table says.
FreshRows ==
  \A l \in Loaders :
    pc[l] \in Building /\ (l \in Requests => RanAlone(l)) => rows[l] = EnabledRows

Pending(l, p) == p \in skipped[l] \/ \E x \in todo[l] : x.providerId = p

\* next[l] lacks the rows that failed to build and those not built yet.
NextIsBuilt ==
  \A l \in Loaders :
    IF pc[l] \in Building
    THEN \A p \in Providers :
           /\ next[l][p] = IF Pending(l, p) THEN Off ELSE Entries(rows[l])[p]
           /\ p \in skipped[l] => \A x \in todo[l] : x.providerId # p
    ELSE skipped[l] = {}

\* A row that a request added is there after its INSERT, one that the start of the
\* process added has the identifier of its provider.
Known(x) ==
  IF x.id \in Requests THEN op[x.id] = "create" /\ pc[x.id] \notin {"validate", "write"}
                       ELSE x.providerId = x.id

KnownRows ==
  /\ \A x \in connectors : Known(x)
  /\ \A x, y \in connectors : x.id = y.id => x = y
  /\ \A r \in Requests : op[r] \in {"patch", "delete"} => Known(row[r])

\* A request about to write has validated what it enables; of the fields in its
\* body it holds those values.
Validated ==
  \A r \in Requests :
    /\ pc[r] = "write" /\ op[r] \in {"create", "patch"} /\ row[r].enabled =>
         row[r].config \in Buildable
    /\ op[r] = "create" => row[r].enabled
    /\ op[r] = "patch" =>
         /\ data[r].config # Absent => row[r].config = data[r].config
         /\ data[r].enabled # Absent => row[r].enabled = data[r].enabled

\* A field that a PATCH at work leaves out, and that is no longer what it read, was
\* written by a PATCH that had not ended when this one began.
StaleOnlyByOverlap ==
  \A r \in Requests : op[r] = "patch" /\ pc[r] \in {"validate", "write"} =>
    \A y \in connectors : y.id = row[r].id =>
      /\ data[r].config = Absent /\ y.config # row[r].config =>
           \E s \in Requests : op[s] = "patch" /\ row[s].id = y.id /\ s \notin prior[r]
                               /\ data[s].config = y.config
      /\ data[r].enabled = Absent /\ y.enabled # row[r].enabled =>
           \E s \in Requests : op[s] = "patch" /\ row[s].id = y.id /\ s \notin prior[r]
                               /\ data[s].enabled = y.enabled

OverlapInv ==
  /\ RequestsRun /\ FreshRows /\ NextIsBuilt
  /\ KnownRows /\ Validated /\ StaleOnlyByOverlap
  /\ WrongOnlyByOverlap

LEMMA InitOverlapInv == Init => OverlapInv
<1> SUFFICES ASSUME Init PROVE OverlapInv
  OBVIOUS
<1> USE DEF Ended
<1>0. TypeOK
  BY InitTypeOK
<1>1. /\ \A r \in Requests : pc[r] = "idle" /\ op[r] = "none" /\ prior[r] = {}
      /\ pc[Boot] = "count" /\ \A l \in Loaders : pc[l] \notin Building /\ skipped[l] = {}
  BY NamesAssumption DEF Init, Loaders, Building
<1>2. RequestsRun /\ FreshRows /\ NextIsBuilt /\ Validated /\ StaleOnlyByOverlap
  BY <1>1 DEF RequestsRun, AtWork, FreshRows, NextIsBuilt, Validated, StaleOnlyByOverlap
<1>3. PICK P \in SUBSET Providers : \E D \in SUBSET P :
        connectors = {[NewRow(p, p, EnvConfig) EXCEPT !.enabled = p \notin D] : p \in P}
  BY DEF Init
<1>4. PICK D \in SUBSET P :
        connectors = {[NewRow(p, p, EnvConfig) EXCEPT !.enabled = p \notin D] : p \in P}
  BY <1>3
<1>5. \A x \in connectors : \E p \in P :
        x.id = p /\ x.providerId = p /\ x.config = EnvConfig
  BY <1>4 DEF NewRow
<1>6. \A x \in connectors :
        x.id \notin Requests /\ x.providerId = x.id /\ x.config \in Buildable
  BY <1>5, NamesAssumption, ConfigsAssumption
<1>7. OneRowPerProvider
  BY InitIInv DEF IInv
<1>8. KnownRows
  BY <1>1, <1>6, <1>7 DEF KnownRows, Known, OneRowPerProvider
<1>9. WrongOnlyByOverlap
  BY <1>1, <1>6 DEF WrongOnlyByOverlap, MutationTakesEffect, BrokenOnlyByOverlap
<1> QED
  BY <1>2, <1>8, <1>9 DEF OverlapInv

\* How a request begins.
LEMMA NewRequest ==
  ASSUME TypeOK, NEW r \in Requests, Arrive(r)
  PROVE  \E operation \in {"create", "patch", "delete"}, x \in Row, body \in Data,
            step \in {"validate", "write"} :
           /\ Begin(r, operation, x, body, step)
           /\ operation = "create" => x.id = r /\ x.enabled /\ step = "validate"
           /\ operation = "delete" => x \in connectors /\ step = "write"
           /\ operation = "patch" =>
                \E y \in connectors :
                  x = Merge(y, body) /\ step = IF x.enabled THEN "validate" ELSE "write"
<1>1. CASE \E p \in Providers, config \in Configs : Create(r, p, config)
  <2>1. PICK p \in Providers, config \in Configs : Create(r, p, config)
    BY <1>1
  <2>2. NewRow(r, p, config) \in Row /\ NoData \in Data
    BY NewRowType DEF Ids, NoData, Data
  <2>3. NewRow(r, p, config).id = r /\ NewRow(r, p, config).enabled
    BY DEF NewRow
  <2> QED
    BY <2>1, <2>2, <2>3 DEF Create
<1>2. CASE \E body \in Data : Patch(r, body)
  <2>1. PICK body \in Data, y \in connectors :
          Begin(r, "patch", Merge(y, body), body,
                IF Merge(y, body).enabled THEN "validate" ELSE "write")
    BY <1>2 DEF Patch
  <2>2. Merge(y, body) \in Row
    BY MergeType DEF TypeOK
  <2> QED
    BY <2>1, <2>2
<1>3. CASE Delete(r)
  <2>1. PICK x \in connectors : Begin(r, "delete", x, NoData, "write")
    BY <1>3 DEF Delete
  <2>2. x \in Row /\ NoData \in Data
    BY DEF TypeOK, NoData, Data
  <2> QED
    BY <2>1, <2>2
<1> QED
  BY <1>1, <1>2, <1>3 DEF Arrive

\* What a request is at changes only by a step of its own or a crash.
LEMMA Moves ==
  ASSUME TypeOK, [Next]_vars, NEW l \in Loaders
  PROVE  \/ l \in Requests /\ (Arrive(l) \/ Step(l))
         \/ l = Boot /\ (Count \/ Migrate)
         \/ Reload(l) \/ Crash
         \/ /\ pc'[l] = pc[l] /\ rows'[l] = rows[l] /\ todo'[l] = todo[l]
            /\ next'[l] = next[l] /\ skipped'[l] = skipped[l]
<1> USE DEF TypeOK, Goto
<1>1. ASSUME NEW r \in Requests, Arrive(r), r # l
      PROVE  /\ pc'[l] = pc[l] /\ rows'[l] = rows[l] /\ todo'[l] = todo[l]
             /\ next'[l] = next[l] /\ skipped'[l] = skipped[l]
  BY <1>1 DEF Arrive, Create, Patch, Delete, Begin
<1>2. ASSUME NEW r \in Requests, Step(r), r # l
      PROVE  /\ pc'[l] = pc[l] /\ rows'[l] = rows[l] /\ todo'[l] = todo[l]
             /\ next'[l] = next[l] /\ skipped'[l] = skipped[l]
  BY <1>2 DEF Step, Validate, Insert, Update, Remove, WriteFails, WriteFrame, locals
<1>3. ASSUME NEW k \in Loaders, Reload(k), k # l
      PROVE  /\ pc'[l] = pc[l] /\ rows'[l] = rows[l] /\ todo'[l] = todo[l]
             /\ next'[l] = next[l] /\ skipped'[l] = skipped[l]
  <2>1. CASE Build(k)
    BY <1>3, <2>1, BuildEffect
  <2> QED
    BY <1>3, <2>1 DEF Reload, FindMany, FindManyFails, Swap
<1>4. ASSUME Count \/ Migrate, l # Boot
      PROVE  /\ pc'[l] = pc[l] /\ rows'[l] = rows[l] /\ todo'[l] = todo[l]
             /\ next'[l] = next[l] /\ skipped'[l] = skipped[l]
  BY <1>4 DEF Count, Migrate, BootFrame, locals
<1>5. ASSUME UNCHANGED vars \/ Rest
      PROVE  /\ pc'[l] = pc[l] /\ rows'[l] = rows[l] /\ todo'[l] = todo[l]
             /\ next'[l] = next[l] /\ skipped'[l] = skipped[l]
  BY <1>5 DEF Rest, vars, locals
<1> QED
  BY <1>1, <1>2, <1>3, <1>4, <1>5 DEF Next

\* Once it has begun, a request keeps its operation, row, body and history.
LEMMA CallsAreFixed ==
  ASSUME TypeOK, [Next]_vars, NEW r \in Requests
  PROVE  /\ ~Arrive(r) => /\ op'[r] = op[r] /\ row'[r] = row[r] /\ data'[r] = data[r]
                          /\ prior'[r] = prior[r]
                          /\ pc'[r] = "validate" => pc[r] = "validate"
                          /\ pc'[r] = "write" => pc[r] \in {"validate", "write"}
         /\ Arrive(r) => pc[r] = "idle"
         /\ pc'[r] = "idle" => pc[r] = "idle" /\ ~Arrive(r)
         /\ pc[r] \in Ended => pc'[r] = pc[r]
<1> USE DEF TypeOK, Goto, Ended
<1>0. r \in Loaders
  BY DEF Loaders
<1>1. ASSUME NEW x \in Requests, Arrive(x)
      PROVE  /\ pc[x] = "idle"
             /\ pc' = [pc EXCEPT ![x] = "validate"] \/ pc' = [pc EXCEPT ![x] = "write"]
             /\ \A y \in Requests \ {x} :
                  /\ op'[y] = op[y] /\ row'[y] = row[y] /\ data'[y] = data[y]
                  /\ prior'[y] = prior[y]
  BY <1>1 DEF Arrive, Create, Patch, Delete, Begin
<1>2. ASSUME NEW x \in Requests, Step(x)
      PROVE  /\ UNCHANGED <<op, row, data, prior>>
             /\ \/ pc[x] = "validate" /\ pc' = [pc EXCEPT ![x] = "write"]
                \/ pc[x] \in {"validate", "write"} /\ pc' = [pc EXCEPT ![x] = "failed"]
                \/ pc[x] = "write" /\ pc' = [pc EXCEPT ![x] = "findMany"]
  BY <1>2 DEF Step, Validate, Insert, Update, Remove, WriteFails, WriteFrame, locals
<1>3. ASSUME NEW k \in Loaders, Reload(k)
      PROVE  /\ UNCHANGED <<op, row, data, prior>>
             /\ pc[k] \in {"findMany", "build", "swap"}
             /\ \E step \in {"build", "swap", "done", "failed"} :
                  pc' = [pc EXCEPT ![k] = step]
  BY <1>3 DEF Reload, FindMany, FindManyFails, Build, Swap, ReloadFrame
<1>4. ASSUME Count \/ Migrate
      PROVE  UNCHANGED <<op, row, data, prior>> /\ pc'[r] = pc[r]
  BY <1>0, <1>4, NamesAssumption DEF Count, Migrate, BootFrame, locals
<1>5. ASSUME Crash
      PROVE  /\ UNCHANGED <<op, row, data, prior>>
             /\ pc'[r] = IF pc[r] \in Ended \cup {"idle"} THEN pc[r] ELSE "crashed"
  BY <1>0, <1>5, NamesAssumption DEF Crash
<1>6. ASSUME UNCHANGED vars \/ Rest
      PROVE  UNCHANGED <<op, row, data, prior, pc>>
  BY <1>6 DEF Rest, vars, locals
<1>7. CASE \E x \in Requests : Arrive(x)
  BY <1>0, <1>1, <1>7
<1>8. CASE ~\E x \in Requests : Arrive(x)
  BY <1>0, <1>2, <1>3, <1>4, <1>5, <1>6, <1>8 DEF Next
<1> QED
  BY <1>7, <1>8

\* Who moves is at a step of its own; nobody but the process moves while the server
\* is down.
LEMMA Movers ==
  ASSUME TypeOK, RequestsRun, [Next]_vars, NEW r \in Requests
  PROVE  /\ Step(r) => pc[r] \in {"validate", "write"} /\ pc[Boot] = "done"
         /\ Reload(r) => pc[Boot] = "done"
         /\ Arrive(r) => pc[Boot] = "done"
         /\ AtWork(r) => pc[Boot] = "done"
         /\ AtWork(r)' => ~Crash /\ (AtWork(r) \/ Arrive(r))
<1> USE DEF Goto, Ended, TypeOK, AtWork
<1>0. r \in Loaders
  BY DEF Loaders
<1>1. AtWork(r) => pc[Boot] = "done"
  BY DEF RequestsRun
<1>2. Step(r) => pc[r] \in {"validate", "write"}
  BY DEF Step, Validate, Insert, Update, Remove, WriteFails
<1>3. Reload(r) => pc[r] \in {"findMany", "build", "swap"}
  BY DEF Reload, FindMany, FindManyFails, Build, Swap
<1>4. Arrive(r) => pc[Boot] = "done"
  BY DEF Arrive, Create, Patch, Delete, Begin
<1>5. Crash => ~AtWork(r)'
  BY <1>0, NamesAssumption DEF Crash
<1>6. AtWork(r)' => AtWork(r) \/ Arrive(r)
  BY <1>0, <1>1, <1>2, <1>3, <1>5, Moves, NamesAssumption
<1> QED
  BY <1>1, <1>2, <1>3, <1>4, <1>5, <1>6

LEMMA RequestsRunStep ==
  ASSUME TypeOK, RequestsRun, [Next]_vars
  PROVE  RequestsRun'
<1> USE DEF Ended
<1> SUFFICES ASSUME NEW r \in Requests
             PROVE  /\ \A s \in prior'[r] : pc'[s] \in Ended
                    /\ AtWork(r)' => pc'[Boot] = "done"
                    /\ pc'[r] = "idle" => op'[r] = "none"
                    /\ pc'[r] = "validate" => op'[r] \in {"create", "patch"}
                    /\ op'[r] = "create" => row'[r].id = r
  BY DEF RequestsRun, AtWork
<1>0. r \in Loaders /\ Boot \in Loaders
  BY DEF Loaders
<1>1. \A s \in prior'[r] : pc'[s] \in Ended
  <2>1. ASSUME NEW s \in Requests, pc[s] \in Ended PROVE pc'[s] \in Ended
    BY <2>1, CallsAreFixed
  <2>2. CASE Arrive(r)
    <3>1. prior'[r] = {s \in Requests : pc[s] \in Ended}
      BY <2>2, NewRequest DEF Begin, TypeOK
    <3> QED
      BY <2>1, <3>1
  <2>3. CASE ~Arrive(r)
    <3>1. prior'[r] = prior[r] /\ prior[r] \subseteq Requests
      BY <2>3, CallsAreFixed DEF TypeOK
    <3> QED
      BY <2>1, <3>1 DEF RequestsRun
  <2> QED
    BY <2>2, <2>3
<1>2. ASSUME AtWork(r)' PROVE pc'[Boot] = "done"
  <2>1. pc[Boot] = "done"
    BY <1>2, Movers
  <2>2. ~Reload(Boot) /\ ~Count /\ ~Migrate
    BY <2>1 DEF Reload, FindMany, FindManyFails, Build, Swap, Count, Migrate, Goto
  <2> QED
    BY <1>0, <1>2, <2>1, <2>2, Movers, Moves, NamesAssumption
<1>3. CASE Arrive(r)
  <2>1. PICK operation \in {"create", "patch", "delete"}, x \in Row, body \in Data,
             step \in {"validate", "write"} :
          /\ Begin(r, operation, x, body, step)
          /\ operation = "create" => x.id = r
          /\ operation = "delete" => step = "write"
    BY <1>3, NewRequest
  <2>2. pc'[r] = step /\ op'[r] = operation /\ row'[r] = x
    BY <1>0, <2>1 DEF Begin, Goto, TypeOK
  <2> QED
    BY <1>1, <1>2, <2>1, <2>2
<1>4. CASE ~Arrive(r)
  BY <1>1, <1>2, <1>4, CallsAreFixed DEF RequestsRun
<1> QED
  BY <1>3, <1>4

\* A request that runs alone has run alone so far.
LEMMA RanAloneSoFar ==
  ASSUME TypeOK, [Next]_vars, NEW r \in Requests, pc[r] # "idle", RanAlone(r)'
  PROVE  RanAlone(r)
<1>1. prior'[r] = prior[r]
  BY CallsAreFixed
<1>2. \A s \in Requests : pc'[s] = "idle" => pc[s] = "idle"
  BY CallsAreFixed
<1> QED
  BY <1>1, <1>2 DEF RanAlone

\* Nobody writes the table under a loader that runs alone.
LEMMA NobodyWrites ==
  ASSUME TypeOK, RequestsRun, [Next]_vars, NEW l \in Loaders,
         pc[l] \notin {"idle", "validate", "write", "migrate"},
         l = Boot => pc[l] # "done",
         l \in Requests => RanAlone(l) /\ pc[Boot] = "done"
  PROVE  connectors' = connectors
<1>1. ASSUME NEW s \in Requests PROVE ~Step(s)
  <2>1. Step(s) => pc[s] \in {"validate", "write"} /\ pc[Boot] = "done"
    BY Movers
  <2>2. pc[s] \in {"validate", "write"} => s \notin prior[l] \/ l \notin Requests
    BY DEF RequestsRun, Ended
  <2> QED
    BY <2>1, <2>2 DEF RanAlone, Loaders
<1>2. ~Migrate
  BY DEF Migrate, Goto, Loaders
<1> QED
  BY <1>1, <1>2 DEF Next, Arrive, Create, Patch, Delete, Begin, Reload, FindMany,
     FindManyFails, Build, Swap, ReloadFrame, Count, Crash, Rest, vars

LEMMA FreshRowsStep ==
  ASSUME IInv, RequestsRun, FreshRows, [Next]_vars
  PROVE  FreshRows'
<1> USE DEF IInv, TypeOK
<1> SUFFICES ASSUME NEW l \in Loaders, pc'[l] \in Building, l \in Requests => RanAlone(l)'
             PROVE  rows'[l] = EnabledRows'
  BY DEF FreshRows, Building
<1>1. CASE FindMany(l)
  <2>1. rows' = [rows EXCEPT ![l] = EnabledRows] /\ connectors' = connectors
    BY <1>1, FindManyEffect
  <2>2. EnabledRows' = EnabledRows
    BY <2>1 DEF EnabledRows
  <2> QED
    BY <2>1, <2>2
<1>2. CASE ~FindMany(l)
  <2>1. pc[l] \in Building /\ rows'[l] = rows[l]
    <3>1. Build(l) => pc[l] \in Building /\ rows'[l] = rows[l]
      BY BuildEffect DEF Building
    <3>2. ~Swap(l) /\ ~FindManyFails(l) /\ ~Crash
      BY CrashEffect DEF Swap, FindManyFails, Goto, Building
    <3>3. l \in Requests => ~Arrive(l) /\ ~Step(l)
      BY DEF Arrive, Create, Patch, Delete, Begin, Step, Validate, Insert, Update, Remove,
         WriteFails, Goto, Building
    <3>4. (~Count /\ ~Migrate) \/ l # Boot
      BY DEF Count, Migrate, Goto, Building
    <3> QED
      BY <1>2, <3>1, <3>2, <3>3, <3>4, Moves DEF Reload
  <2>2. l \in Requests => RanAlone(l) /\ pc[Boot] = "done"
    BY <2>1, RanAloneSoFar DEF RequestsRun, AtWork, Building, Ended
  <2>3. connectors' = connectors
    BY <2>1, <2>2, NobodyWrites DEF Building
  <2>4. EnabledRows' = EnabledRows
    BY <2>3 DEF EnabledRows
  <2> QED
    BY <2>1, <2>2, <2>4 DEF FreshRows
<1> QED
  BY <1>1, <1>2

\* Build, each outcome with all it changes.
LEMMA BuildOutcome ==
  ASSUME TypeOK, NEW l \in Loaders, Build(l)
  PROVE  \E x \in todo[l] :
           /\ todo'[l] = todo[l] \ {x} /\ rows'[l] = rows[l]
           /\ \/ next'[l] = [next[l] EXCEPT ![x.providerId] = x.config]
                 /\ skipped'[l] = skipped[l]
              \/ next'[l] = next[l]
                 /\ skipped'[l] = skipped[l] \cup {x.providerId}
<1>1. PICK x \in todo[l] :
        /\ todo' = [todo EXCEPT ![l] = @ \ {x}]
        /\ \/ /\ next' = [next EXCEPT ![l][x.providerId] = x.config]
              /\ UNCHANGED skipped
           \/ /\ skipped' = [skipped EXCEPT ![l] = @ \cup {x.providerId}]
              /\ UNCHANGED next
        /\ UNCHANGED <<registry, rows, missing>>
  BY DEF Build
<1> QED
  BY <1>1 DEF TypeOK

LEMMA NextIsBuiltStep ==
  ASSUME IInv, NextIsBuilt, [Next]_vars
  PROVE  NextIsBuilt'
<1> USE DEF IInv
<1> SUFFICES ASSUME NEW l \in Loaders
             PROVE  IF pc'[l] \in Building
                    THEN \A p \in Providers :
                           /\ next'[l][p] = IF Pending(l, p)' THEN Off ELSE Entries(rows'[l])[p]
                           /\ p \in skipped'[l] => \A x \in todo'[l] : x.providerId # p
                    ELSE skipped'[l] = {}
  BY DEF NextIsBuilt, Building, Pending, Entries
<1>1. CASE FindMany(l)
  <2>1. /\ pc[l] \notin Building /\ pc'[l] \in Building
        /\ rows'[l] = EnabledRows /\ todo'[l] = EnabledRows /\ next'[l] = next[l]
    BY <1>1, FindManyEffect DEF TypeOK, Building
  <2>2. skipped'[l] = {}
    BY <1>1, <2>1 DEF FindMany, NextIsBuilt
  <2>3. \A p \in Providers : next'[l][p] = Off
    BY <2>1 DEF NextIsPart, Empty
  <2>4. ASSUME NEW p \in Providers, ~Pending(l, p)' PROVE Entries(rows'[l])[p] = Off
    BY <2>1, <2>4, NoEntry DEF Pending
  <2> QED
    BY <2>1, <2>2, <2>3, <2>4
<1>2. CASE Build(l)
  <2>1. PICK x \in todo[l] :
          /\ todo'[l] = todo[l] \ {x} /\ rows'[l] = rows[l]
          /\ \/ next'[l] = [next[l] EXCEPT ![x.providerId] = x.config]
                /\ skipped'[l] = skipped[l]
             \/ next'[l] = next[l]
                /\ skipped'[l] = skipped[l] \cup {x.providerId}
    BY <1>2, BuildOutcome
  <2>2. pc[l] \in Building /\ pc'[l] \in Building
    BY <1>2, BuildEffect DEF TypeOK, Building
  <2>3. /\ x \in rows[l] /\ x.enabled /\ OnePerProvider(rows[l])
        /\ rows[l] \in SUBSET Row /\ x.providerId \in Providers
        /\ todo[l] \subseteq rows[l] /\ next[l] \in Map
    BY DEF RowsAreEntries, TypeOK, Row
  <2>4. Entries(rows[l])[x.providerId] = x.config
    BY <2>3, EntryOfRow
  <2>5. \A y \in todo[l] : y.providerId = x.providerId => y = x
    BY <2>3 DEF OnePerProvider
  <2>6. x.providerId \notin skipped[l]
    BY <2>2, <2>3 DEF NextIsBuilt
  <2>7. next[l][x.providerId] = Off
    BY <2>2, <2>3 DEF NextIsBuilt, Pending
  <2>8. ASSUME NEW p \in Providers, p # x.providerId
        PROVE  /\ next'[l][p] = IF Pending(l, p)' THEN Off ELSE Entries(rows'[l])[p]
               /\ p \in skipped'[l] => \A y \in todo'[l] : y.providerId # p
    <3>1. Pending(l, p)' <=> Pending(l, p)
      BY <2>1, <2>8 DEF Pending
    <3>2. next'[l][p] = next[l][p]
      BY <2>1, <2>3, <2>8 DEF Map
    <3>3. Entries(rows'[l])[p] = Entries(rows[l])[p]
      BY <2>1
    <3>4. p \in skipped'[l] => p \in skipped[l]
      BY <2>1, <2>8
    <3> QED
      BY <2>1, <2>2, <3>1, <3>2, <3>3, <3>4 DEF NextIsBuilt
  <2>9. ASSUME NEW p \in Providers, p = x.providerId
        PROVE  /\ next'[l][p] = IF Pending(l, p)' THEN Off ELSE Entries(rows'[l])[p]
               /\ p \in skipped'[l] => \A y \in todo'[l] : y.providerId # p
    <3>1. \A y \in todo'[l] : y.providerId # p
      BY <2>1, <2>5, <2>9
    <3>2. CASE /\ next'[l] = [next[l] EXCEPT ![x.providerId] = x.config]
               /\ skipped'[l] = skipped[l]
      <4>1. ~Pending(l, p)'
        BY <2>6, <2>9, <3>1, <3>2 DEF Pending
      <4>2. next'[l][p] = x.config
        BY <2>3, <2>9, <3>2 DEF Map
      <4>3. Entries(rows'[l])[p] = x.config
        BY <2>1, <2>4, <2>9
      <4> QED
        BY <3>1, <4>1, <4>2, <4>3
    <3>3. CASE /\ next'[l] = next[l]
               /\ skipped'[l] = skipped[l] \cup {x.providerId}
      BY <2>7, <2>9, <3>1, <3>3 DEF Pending
    <3> QED
      BY <2>1, <3>2, <3>3
  <2> QED
    BY <2>2, <2>8, <2>9
<1>3. CASE Swap(l) \/ FindManyFails(l)
  BY <1>3 DEF Swap, FindManyFails, Goto, Building, TypeOK, NextIsBuilt
<1>4. CASE Crash
  BY <1>4, CrashEffect DEF Crash
<1>5. CASE l \in Requests /\ (Arrive(l) \/ Step(l))
  BY <1>5 DEF Arrive, Create, Patch, Delete, Begin, Step, Validate, Insert, Update,
     Remove, WriteFails, WriteFrame, locals, Goto, Building, TypeOK, NextIsBuilt
<1>6. CASE l = Boot /\ (Count \/ Migrate)
  BY <1>6 DEF Count, Migrate, BootFrame, locals, Goto, Building, TypeOK, NextIsBuilt
<1>7. CASE /\ pc'[l] = pc[l] /\ rows'[l] = rows[l] /\ todo'[l] = todo[l]
           /\ next'[l] = next[l] /\ skipped'[l] = skipped[l]
  <2>1. \A p \in Providers : Pending(l, p)' <=> Pending(l, p)
    BY <1>7 DEF Pending
  <2>2. Entries(rows'[l]) = Entries(rows[l])
    BY <1>7
  <2> QED
    BY <1>7, <2>1, <2>2 DEF NextIsBuilt
<1> QED
  BY <1>1, <1>2, <1>3, <1>4, <1>5, <1>6, <1>7, Moves DEF Reload

\* A loader that runs alone publishes the table as it is.
LEMMA AlonePublishes ==
  ASSUME IInv, RequestsRun, FreshRows, NextIsBuilt, [Next]_vars,
         NEW l \in Loaders, Swap(l), l \in Requests => RanAlone(l)
  PROVE  \A p \in Providers :
           registry'[p] = IF p \in missing' THEN Off ELSE Entries(connectors')[p]
<1> USE DEF IInv
<1>1. /\ pc[l] = "swap" /\ registry' = next[l] /\ missing' = skipped[l]
      /\ connectors' = connectors
  BY DEF Swap, Goto, ReloadFrame
<1>2. rows[l] = EnabledRows /\ todo[l] = {}
  BY <1>1 DEF FreshRows, RowsAreEntries, Building
<1>3. OnePerProvider(connectors) /\ connectors \in SUBSET Row
  BY DEF OneRowPerProvider, OnePerProvider, TypeOK
<1>4. Entries(EnabledRows) = Entries(connectors)
  BY <1>3, EnabledEntries DEF EnabledRows
<1>5. Entries(rows[l]) = Entries(connectors')
  BY <1>1, <1>2, <1>4
<1>6. \A p \in Providers : Pending(l, p) <=> p \in skipped[l]
  BY <1>2 DEF Pending
<1>7. \A p \in Providers :
        next[l][p] = IF Pending(l, p) THEN Off ELSE Entries(rows[l])[p]
  BY <1>1 DEF NextIsBuilt, Building
<1> QED
  BY <1>1, <1>5, <1>6, <1>7

LEMMA MutationStep ==
  ASSUME IInv, RequestsRun, FreshRows, NextIsBuilt, MutationTakesEffect, [Next]_vars
  PROVE  MutationTakesEffect'
<1> USE DEF IInv, TypeOK
<1> SUFFICES ASSUME NEW r \in Requests, pc'[r] = "done", pc'[Boot] = "done", RanAlone(r)'
             PROVE  \A p \in Providers :
                      registry'[p] = IF p \in missing' THEN Off ELSE Entries(connectors')[p]
  BY DEF MutationTakesEffect, Entries
<1>0. r \in Loaders /\ Boot \in Loaders
  BY DEF Loaders
<1>1. pc[r] # "idle" /\ ~Arrive(r) /\ ~Crash
  <2>1. Arrive(r) => pc'[r] \in {"validate", "write"}
    BY <1>0, NewRequest DEF Begin, Goto
  <2>2. Step(r) \/ Reload(r) => pc[r] # "idle"
    BY DEF Step, Validate, Insert, Update, Remove, WriteFails, Reload, FindMany,
       FindManyFails, Build, Swap, Goto
  <2>3. ~Crash
    BY <1>0 DEF Crash
  <2> QED
    BY <1>0, <2>1, <2>2, <2>3, Moves, NamesAssumption
<1>2. RanAlone(r)
  BY <1>1, RanAloneSoFar
<1>3. CASE Swap(r)
  BY <1>0, <1>2, <1>3, AlonePublishes
<1>4. CASE Swap(Boot)
  BY <1>0, <1>4, AlonePublishes, NamesAssumption
<1>5. CASE ~Swap(r) /\ ~Swap(Boot)
  <2>1. pc[r] = "done"
    <3>1. Step(r) => pc'[r] \in {"write", "findMany", "failed"}
      BY <1>0 DEF Step, Validate, Insert, Update, Remove, WriteFails, Goto
    <3>2. ~Swap(r) /\ Reload(r) => pc'[r] \in {"build", "swap", "failed"}
      BY <1>0 DEF Reload, FindMany, FindManyFails, Build, Goto
    <3> QED
      BY <1>0, <1>1, <1>5, <3>1, <3>2, Moves, NamesAssumption
  <2>2. pc[Boot] = "done"
    <3>1. Count \/ Migrate => pc'[Boot] \in {"migrate", "findMany"}
      BY <1>0 DEF Count, Migrate, Goto
    <3>2. ~Swap(Boot) /\ Reload(Boot) => pc'[Boot] \in {"build", "swap", "failed"}
      BY <1>0 DEF Reload, FindMany, FindManyFails, Build, Goto
    <3> QED
      BY <1>0, <1>1, <1>5, <3>1, <3>2, Moves, NamesAssumption
  <2>3. UNCHANGED <<connectors, registry, missing>>
    <3>1. ASSUME NEW s \in Requests PROVE ~Step(s) /\ ~Reload(s)
      <4>1. pc[s] = "idle" \/ pc[s] \in Ended
        BY <1>2, <2>1 DEF RanAlone, RequestsRun, Ended
      <4> QED
        BY <4>1 DEF Step, Validate, Insert, Update, Remove, WriteFails, Reload, FindMany,
           FindManyFails, Build, Swap, Goto, Ended
    <3>2. ~Reload(Boot) /\ ~Count /\ ~Migrate
      BY <2>2 DEF Reload, FindMany, FindManyFails, Build, Swap, Count, Migrate, Goto
    <3> QED
      BY <1>1, <3>1, <3>2 DEF Loaders, Next, Arrive, Create, Patch, Delete, Begin, Rest, vars
  <2>4. Entries(connectors') = Entries(connectors)
    BY <2>3
  <2>5. \A p \in Providers :
          registry[p] = IF p \in missing THEN Off ELSE Entries(connectors)[p]
    BY <1>2, <2>1, <2>2 DEF MutationTakesEffect
  <2> QED
    BY <2>3, <2>4, <2>5
<1> QED
  BY <1>3, <1>4, <1>5

\* What a step may do to the table.
LEMMA TableSteps ==
  ASSUME TypeOK, [Next]_vars
  PROVE  \/ connectors' \subseteq connectors
         \/ \E r \in Requests :
              /\ pc[r] = "write" /\ pc'[r] = "findMany" /\ op[r] = "create"
              /\ connectors' = connectors \cup {row[r]}
         \/ \E r \in Requests, x \in connectors :
              /\ pc[r] = "write" /\ pc'[r] = "findMany" /\ op[r] = "patch"
              /\ x.id = row[r].id
              /\ connectors' = (connectors \ {x}) \cup {Merge(x, data[r])}
         \/ \E p \in EnvProviders :
              /\ pc[Boot] = "migrate" /\ RowsOf(p) = {}
              /\ connectors' = connectors \cup {NewRow(p, p, EnvConfig)}
<1> USE DEF Goto, TypeOK
<1>1. ASSUME NEW r \in Requests, Insert(r) \/ Update(r)
      PROVE  \/ /\ pc[r] = "write" /\ pc'[r] = "findMany" /\ op[r] = "create"
                /\ connectors' = connectors \cup {row[r]}
             \/ \E x \in connectors :
                  /\ pc[r] = "write" /\ pc'[r] = "findMany" /\ op[r] = "patch"
                  /\ x.id = row[r].id
                  /\ connectors' = (connectors \ {x}) \cup {Merge(x, data[r])}
  BY <1>1 DEF Insert, Update, RowsAt, Loaders
<1>2. ASSUME NEW r \in Requests, Validate(r) \/ Remove(r) \/ WriteFails(r) \/ Arrive(r)
      PROVE  connectors' \subseteq connectors
  BY <1>2 DEF Validate, Remove, WriteFails, Arrive, Create, Patch, Delete, Begin
<1>3. ASSUME NEW l \in Loaders, Reload(l)
      PROVE  connectors' \subseteq connectors
  BY <1>3 DEF Reload, FindMany, FindManyFails, Build, Swap, ReloadFrame
<1>4. Migrate => \E p \in EnvProviders :
                   /\ pc[Boot] = "migrate" /\ RowsOf(p) = {}
                   /\ connectors' = connectors \cup {NewRow(p, p, EnvConfig)}
  BY DEF Migrate
<1>5. Count \/ Crash \/ Rest \/ UNCHANGED vars => connectors' \subseteq connectors
  BY DEF Count, Crash, Rest, vars
<1> QED
  BY <1>1, <1>2, <1>3, <1>4, <1>5 DEF Next, Step

LEMMA KnownStays ==
  ASSUME TypeOK, RequestsRun, [Next]_vars, NEW x, Known(x)
  PROVE  Known(x)'
<1>1. CASE x.id \in Requests
  <2>1. PICK q \in Requests : q = x.id
    BY <1>1
  <2>2. op[q] = "create" /\ pc[q] \notin {"validate", "write", "idle"}
    BY <2>1 DEF Known, RequestsRun
  <2>3. op'[q] = "create" /\ pc'[q] \notin {"validate", "write"}
    BY <2>2, CallsAreFixed
  <2> QED
    BY <2>1, <2>3 DEF Known
<1>2. CASE x.id \notin Requests
  BY <1>2 DEF Known
<1> QED
  BY <1>1, <1>2

LEMMA KnownRowsStep ==
  ASSUME IInv, RequestsRun, KnownRows, [Next]_vars
  PROVE  KnownRows'
<1> USE DEF IInv
<1>0. connectors \subseteq Row /\ \A r \in Requests : data[r] \in Data
  BY DEF TypeOK
<1>1. (\A x \in connectors : Known(x)') /\ \A x, y \in connectors : x.id = y.id => x = y
  BY KnownStays DEF KnownRows
<1>2. /\ \A x \in connectors' : Known(x)'
      /\ \A x, y \in connectors' : x.id = y.id => x = y
  <2>1. CASE connectors' \subseteq connectors
    BY <1>1, <2>1
  <2>2. ASSUME NEW r \in Requests, pc[r] = "write", pc'[r] = "findMany", op[r] = "create",
               connectors' = connectors \cup {row[r]}
        PROVE  /\ \A x \in connectors' : Known(x)'
               /\ \A x, y \in connectors' : x.id = y.id => x = y
    <3>1. row[r].id = r
      BY <2>2 DEF RequestsRun
    <3>2. op'[r] = "create"
      BY <2>2, CallsAreFixed
    <3>3. ASSUME NEW x, x = row[r] PROVE Known(x)'
      BY <2>2, <3>1, <3>2, <3>3 DEF Known
    <3>4. \A y \in connectors : y.id # r
      BY <2>2 DEF KnownRows, Known
    <3> QED
      BY <1>1, <2>2, <3>1, <3>3, <3>4
  <2>3. ASSUME NEW r \in Requests, NEW x \in connectors,
               connectors' = (connectors \ {x}) \cup {Merge(x, data[r])}
        PROVE  /\ \A y \in connectors' : Known(y)'
               /\ \A y, z \in connectors' : y.id = z.id => y = z
    <3>1. Merge(x, data[r]).id = x.id /\ Merge(x, data[r]).providerId = x.providerId
      BY <1>0, MergeType
    <3>2. ASSUME NEW y, y = Merge(x, data[r]) PROVE Known(y)'
      BY <1>1, <3>1, <3>2 DEF Known
    <3> QED
      BY <1>1, <2>3, <3>1, <3>2
  <2>4. ASSUME NEW p \in EnvProviders, RowsOf(p) = {},
               connectors' = connectors \cup {NewRow(p, p, EnvConfig)}
        PROVE  /\ \A x \in connectors' : Known(x)'
               /\ \A x, y \in connectors' : x.id = y.id => x = y
    <3>1. NewRow(p, p, EnvConfig).id = p /\ NewRow(p, p, EnvConfig).providerId = p
      BY DEF NewRow
    <3>2. p \notin Requests
      BY NamesAssumption, ConfigsAssumption
    <3>3. ASSUME NEW y, y = NewRow(p, p, EnvConfig) PROVE Known(y)'
      BY <3>1, <3>2, <3>3 DEF Known
    <3>4. \A y \in connectors : y.id # p
      BY <2>4, <3>2 DEF KnownRows, Known, RowsOf
    <3> QED
      BY <1>1, <2>4, <3>1, <3>3, <3>4
  <2> QED
    BY <2>1, <2>2, <2>3, <2>4, TableSteps
<1>3. ASSUME NEW r \in Requests, op'[r] \in {"patch", "delete"}, NEW z, z = row'[r]
      PROVE  Known(z)'
  <2>1. CASE Arrive(r)
    <3>1. PICK operation \in {"create", "patch", "delete"}, x \in Row, body \in Data,
               step \in {"validate", "write"} :
           /\ Begin(r, operation, x, body, step)
           /\ operation = "delete" => x \in connectors /\ step = "write"
           /\ operation = "patch" => \E y \in connectors : x = Merge(y, body)
      BY <2>1, NewRequest
    <3>2. op'[r] = operation /\ row'[r] = x
      BY <3>1 DEF Begin, TypeOK
    <3>3. Known(x)
      BY <1>0, <1>3, <3>1, <3>2, MergeType DEF KnownRows, Known
    <3> QED
      BY <1>3, <3>2, <3>3, KnownStays
  <2>2. CASE ~Arrive(r)
    <3>1. op'[r] = op[r] /\ z = row[r]
      BY <1>3, <2>2, CallsAreFixed
    <3>2. Known(z)
      BY <1>3, <3>1 DEF KnownRows
    <3> QED
      BY <3>2, KnownStays
  <2> QED
    BY <2>1, <2>2
<1>4. ASSUME NEW r \in Requests, op'[r] \in {"patch", "delete"} PROVE Known(row[r])'
  BY <1>3, <1>4 DEF Known
<1> QED
  BY <1>2, <1>4 DEF KnownRows

LEMMA ValidatedStep ==
  ASSUME TypeOK, RequestsRun, Validated, [Next]_vars
  PROVE  Validated'
<1> SUFFICES ASSUME NEW r \in Requests
             PROVE  /\ pc'[r] = "write" /\ op'[r] \in {"create", "patch"} /\ row'[r].enabled =>
                         row'[r].config \in Buildable
                    /\ op'[r] = "create" => row'[r].enabled
                    /\ op'[r] = "patch" =>
                         /\ data'[r].config # Absent => row'[r].config = data'[r].config
                         /\ data'[r].enabled # Absent => row'[r].enabled = data'[r].enabled
  BY DEF Validated
<1>0. r \in Loaders
  BY DEF Loaders
<1>1. CASE Arrive(r)
  <2>1. PICK operation \in {"create", "patch", "delete"}, x \in Row, body \in Data,
             step \in {"validate", "write"} :
          /\ Begin(r, operation, x, body, step)
          /\ operation = "create" => x.enabled /\ step = "validate"
          /\ operation = "patch" =>
               \E y \in connectors :
                 x = Merge(y, body) /\ step = IF x.enabled THEN "validate" ELSE "write"
    BY <1>1, NewRequest
  <2>2. pc'[r] = step /\ op'[r] = operation /\ row'[r] = x /\ data'[r] = body
    BY <1>0, <2>1 DEF Begin, Goto, TypeOK
  <2>3. CASE operation = "patch"
    <3>1. PICK y \in connectors :
            x = Merge(y, body) /\ step = IF x.enabled THEN "validate" ELSE "write"
      BY <2>1, <2>3
    <3>2. /\ body.config # Absent => x.config = body.config
          /\ body.enabled # Absent => x.enabled = body.enabled
      BY <3>1 DEF Merge, TypeOK, Row
    <3> QED
      BY <2>2, <2>3, <3>1, <3>2
  <2> QED
    BY <2>1, <2>2, <2>3
<1>2. CASE ~Arrive(r)
  <2>1. /\ op'[r] = op[r] /\ row'[r] = row[r] /\ data'[r] = data[r]
        /\ pc'[r] = "write" => pc[r] \in {"validate", "write"}
    BY <1>2, CallsAreFixed
  <2>2. pc[r] = "validate" /\ pc'[r] = "write" => row[r].config \in Buildable
    BY <1>0, <1>2, Moves, NamesAssumption
       DEF Step, Validate, Insert, Update, Remove, WriteFails, Goto, BuildSucceeds, Reload,
       FindMany, FindManyFails, Build, Swap, Crash, TypeOK
  <2> QED
    BY <2>1, <2>2 DEF Validated
<1> QED
  BY <1>1, <1>2

\* A PATCH with this field that had not ended when request r began.
Patched(id, r, s) == op[s] = "patch" /\ row[s].id = id /\ s \notin prior[r]

LEMMA PatchedStays ==
  ASSUME TypeOK, RequestsRun, [Next]_vars, NEW r \in Requests, NEW s \in Requests,
         pc[r] # "idle", NEW id, Patched(id, r, s)
  PROVE  Patched(id, r, s)' /\ data'[s] = data[s]
<1>1. pc[s] # "idle"
  BY DEF Patched, RequestsRun
<1> QED
  BY <1>1, CallsAreFixed DEF Patched

\* StaleOnlyByOverlap, in terms of Patched.
LEMMA StalePatched ==
  StaleOnlyByOverlap <=>
    \A r \in Requests : op[r] = "patch" /\ pc[r] \in {"validate", "write"} =>
      \A y \in connectors : y.id = row[r].id =>
        /\ data[r].config = Absent /\ y.config # row[r].config =>
             \E s \in Requests : Patched(y.id, r, s) /\ data[s].config = y.config
        /\ data[r].enabled = Absent /\ y.enabled # row[r].enabled =>
             \E s \in Requests : Patched(y.id, r, s) /\ data[s].enabled = y.enabled
BY DEF StaleOnlyByOverlap, Patched

LEMMA StaleStep ==
  ASSUME IInv, RequestsRun, KnownRows, StaleOnlyByOverlap, [Next]_vars
  PROVE  StaleOnlyByOverlap'
<1> USE DEF IInv
<1> DEFINE Config(r, y) ==
      \E s \in Requests : Patched(y.id, r, s)' /\ data'[s].config = y.config
    Enabled(r, y) ==
      \E s \in Requests : Patched(y.id, r, s)' /\ data'[s].enabled = y.enabled
<1> SUFFICES ASSUME NEW r \in Requests, op'[r] = "patch", pc'[r] \in {"validate", "write"},
                    NEW y \in connectors', y.id = row'[r].id
             PROVE  /\ data'[r].config = Absent /\ y.config # row'[r].config => Config(r, y)
                    /\ data'[r].enabled = Absent /\ y.enabled # row'[r].enabled => Enabled(r, y)
  BY DEF StaleOnlyByOverlap, Patched
<1>0. r \in Loaders
  BY DEF Loaders
<1>1. CASE Arrive(r)
  <2>1. PICK operation \in {"create", "patch", "delete"}, x \in Row, body \in Data,
             step \in {"validate", "write"} :
          /\ Begin(r, operation, x, body, step)
          /\ operation = "patch" => \E z \in connectors : x = Merge(z, body)
    BY <1>1, NewRequest
  <2>2. op'[r] = operation /\ row'[r] = x /\ data'[r] = body /\ connectors' = connectors
    BY <2>1 DEF Begin, TypeOK
  <2>3. PICK z \in connectors : x = Merge(z, body)
    BY <2>1, <2>2
  <2>4. /\ x.id = z.id
        /\ body.config = Absent => x.config = z.config
        /\ body.enabled = Absent => x.enabled = z.enabled
    BY <2>3 DEF Merge, TypeOK, Row
  <2>5. y = z
    BY <2>2, <2>4 DEF KnownRows
  <2> QED
    BY <2>2, <2>4, <2>5
<1>2. CASE ~Arrive(r)
  <2>1. /\ op[r] = "patch" /\ row'[r] = row[r] /\ data'[r] = data[r]
        /\ pc[r] \in {"validate", "write"}
    BY <1>2, CallsAreFixed
  <2>2. ASSUME NEW z \in connectors, z.id = y.id
        PROVE  /\ data[r].config = Absent /\ z.config # row[r].config /\ z.config = y.config
                    => Config(r, y)
               /\ data[r].enabled = Absent /\ z.enabled # row[r].enabled
                    /\ z.enabled = y.enabled => Enabled(r, y)
    <3>1. /\ data[r].config = Absent /\ z.config # row[r].config =>
               \E s \in Requests : Patched(z.id, r, s) /\ data[s].config = z.config
          /\ data[r].enabled = Absent /\ z.enabled # row[r].enabled =>
               \E s \in Requests : Patched(z.id, r, s) /\ data[s].enabled = z.enabled
      BY <2>1, <2>2, StalePatched
    <3>2. ASSUME NEW s \in Requests, Patched(z.id, r, s)
          PROVE  Patched(y.id, r, s)' /\ data'[s] = data[s]
      BY <2>1, <2>2, <3>2, PatchedStays
    <3> QED
      BY <3>1, <3>2
  <2>3. CASE y \in connectors
    BY <2>1, <2>2, <2>3
  <2>4. ASSUME NEW q \in Requests, pc[q] = "write", op[q] = "create",
               connectors' = connectors \cup {row[q]}, y \notin connectors
        PROVE  FALSE
    <3>1. y.id = q
      BY <2>4 DEF RequestsRun
    <3>2. Known(row[r])
      BY <2>1 DEF KnownRows
    <3> QED
      BY <2>1, <2>4, <3>1, <3>2 DEF Known
  <2>5. ASSUME NEW q \in Requests, NEW x \in connectors, pc[q] = "write",
               pc'[q] = "findMany", op[q] = "patch", x.id = row[q].id,
               connectors' = (connectors \ {x}) \cup {Merge(x, data[q])}, y \notin connectors
        PROVE  /\ data[r].config = Absent /\ y.config # row[r].config => Config(r, y)
               /\ data[r].enabled = Absent /\ y.enabled # row[r].enabled => Enabled(r, y)
    <3>1. y = Merge(x, data[q]) /\ x \in Row
      BY <2>5 DEF TypeOK
    <3>2. /\ y.id = x.id
          /\ y.config = IF data[q].config = Absent THEN x.config ELSE data[q].config
          /\ y.enabled = IF data[q].enabled = Absent THEN x.enabled ELSE data[q].enabled
      BY <3>1 DEF Merge, Row
    <3>3. q \notin prior[r]
      BY <2>5 DEF RequestsRun, Ended
    <3>4. Patched(y.id, r, q)
      BY <2>5, <3>2, <3>3 DEF Patched
    <3>5. Patched(y.id, r, q)' /\ data'[q] = data[q]
      BY <2>1, <3>4, PatchedStays
    <3> QED
      BY <2>2, <3>2, <3>5
  <2>6. pc[Boot] # "migrate"
    BY <2>1 DEF RequestsRun, AtWork, Ended
  <2> QED
    BY <2>1, <2>3, <2>4, <2>5, <2>6, TableSteps
<1> QED
  BY <1>1, <1>2

LEMMA BrokenStep ==
  ASSUME IInv, RequestsRun, KnownRows, Validated, StaleOnlyByOverlap, BrokenOnlyByOverlap,
         [Next]_vars
  PROVE  BrokenOnlyByOverlap'
<1> USE DEF IInv
<1> DEFINE Pair(r, s, x) ==
      /\ op[r] = "patch" /\ data[r].enabled = TRUE /\ row[r].id = x.id
      /\ op[s] = "patch" /\ data[s].config = x.config /\ row[s].id = x.id
      /\ r # s /\ r \notin prior[s] /\ s \notin prior[r]
<1> SUFFICES ASSUME NEW x \in connectors', x.enabled, x.config \notin Buildable
             PROVE  \E r, s \in Requests : Pair(r, s, x)'
  BY DEF BrokenOnlyByOverlap
<1>1. ASSUME NEW r \in Requests, NEW s \in Requests, Pair(r, s, x)
      PROVE  Pair(r, s, x)'
  <2>1. pc[r] # "idle" /\ pc[s] # "idle"
    BY <1>1 DEF RequestsRun
  <2> QED
    BY <1>1, <2>1, CallsAreFixed
<1>2. ASSUME NEW y \in connectors, y.enabled, y.id = x.id, y.config = x.config
      PROVE  \E r, s \in Requests : Pair(r, s, x)'
  <2>1. PICK r \in Requests, s \in Requests : Pair(r, s, x)
    BY <1>2 DEF BrokenOnlyByOverlap
  <2> QED
    BY <1>1, <2>1
<1>3. ASSUME NEW r \in Requests, pc[r] = "write", op[r] = "create"
      PROVE  x # row[r]
  BY <1>3 DEF Validated
<1>4. ASSUME NEW r \in Requests, NEW y \in connectors, pc[r] = "write", op[r] = "patch",
             y.id = row[r].id, x = Merge(y, data[r])
      PROVE  \E q, s \in Requests : Pair(q, s, x)'
  <2>1. y \in Row /\ y.enabled \in BOOLEAN /\ row[r].enabled \in BOOLEAN
    BY DEF TypeOK, Row
  <2>2. /\ x.id = y.id
        /\ x.config = IF data[r].config = Absent THEN y.config ELSE data[r].config
        /\ x.enabled = IF data[r].enabled = Absent THEN y.enabled ELSE data[r].enabled
    BY <1>4, <2>1 DEF Merge, Row
  <2>3. /\ row[r].enabled => row[r].config \in Buildable
        /\ data[r].config # Absent => row[r].config = data[r].config
        /\ data[r].enabled # Absent => row[r].enabled = data[r].enabled
    BY <1>4 DEF Validated
  <2>4. \A s \in Requests : r \notin prior[s]
    BY <1>4 DEF RequestsRun, Ended
  <2>5. /\ data[r].config = Absent /\ y.config # row[r].config =>
             \E s \in Requests : Patched(y.id, r, s) /\ data[s].config = y.config
        /\ data[r].enabled = Absent /\ y.enabled # row[r].enabled =>
             \E s \in Requests : Patched(y.id, r, s) /\ data[s].enabled = y.enabled
    BY <1>4, StalePatched
  <2>6. CASE data[r].config = Absent /\ data[r].enabled # Absent
    <3>1. data[r].enabled = TRUE
      BY <2>2, <2>6 DEF TypeOK, Data
    <3>2. row[r].enabled /\ row[r].config # y.config
      BY <2>2, <2>3, <2>6, <3>1
    <3>3. PICK s \in Requests : Patched(y.id, r, s) /\ data[s].config = y.config
      BY <2>5, <2>6, <3>2
    <3>4. Pair(r, s, x)
      BY <1>4, <2>1, <2>2, <2>4, <2>6, <3>1, <3>3, NamesAssumption DEF Patched, Row
    <3> QED
      BY <1>1, <3>4
  <2>7. CASE data[r].config = Absent /\ data[r].enabled = Absent
    BY <1>2, <2>2, <2>7
  <2>8. CASE data[r].config # Absent
    <3>1. ~row[r].enabled
      BY <2>2, <2>3, <2>8
    <3>2. data[r].enabled = Absent /\ y.enabled # row[r].enabled /\ y.enabled = TRUE
      BY <2>1, <2>2, <2>3, <3>1
    <3>3. PICK s \in Requests : Patched(y.id, r, s) /\ data[s].enabled = y.enabled
      BY <2>5, <3>2
    <3>4. Pair(s, r, x)
      BY <1>4, <2>2, <2>4, <2>8, <3>2, <3>3, NamesAssumption DEF Patched
    <3> QED
      BY <1>1, <3>4
  <2> QED
    BY <2>6, <2>7, <2>8
<1>5. ASSUME NEW p \in EnvProviders PROVE x # NewRow(p, p, EnvConfig)
  BY ConfigsAssumption DEF NewRow
<1> QED
  BY <1>2, <1>3, <1>4, <1>5, TableSteps

\* The invariant of overlapping requests.
LEMMA OverlapsOnly == Spec => [](IInv /\ OverlapInv)
<1>1. IInv /\ OverlapInv /\ [Next]_vars => OverlapInv'
  <2> SUFFICES ASSUME IInv, OverlapInv, [Next]_vars PROVE OverlapInv'
    OBVIOUS
  <2>1. /\ TypeOK /\ RequestsRun /\ FreshRows /\ NextIsBuilt /\ KnownRows /\ Validated
        /\ StaleOnlyByOverlap /\ MutationTakesEffect /\ BrokenOnlyByOverlap
    BY DEF IInv, OverlapInv, WrongOnlyByOverlap
  <2>2. MutationTakesEffect' /\ BrokenOnlyByOverlap'
    BY <2>1, MutationStep, BrokenStep
  <2>3. RequestsRun' /\ FreshRows' /\ NextIsBuilt'
    BY <2>1, RequestsRunStep, FreshRowsStep, NextIsBuiltStep
  <2>4. KnownRows' /\ Validated' /\ StaleOnlyByOverlap'
    BY <2>1, KnownRowsStep, ValidatedStep, StaleStep
  <2> QED
    BY <2>2, <2>3, <2>4 DEF OverlapInv, WrongOnlyByOverlap
<1> QED
  BY <1>1, Inductive, InitOverlapInv, PTL DEF Spec

\* Only mutations that overlap leave the registry behind its table, or an enabled row
\* that cannot be built (connectorsApi.ts:138-150, 198-211, registry.ts:104-105).
THEOREM WrongOnlyWhereRequestsOverlap == Spec => []WrongOnlyByOverlap
<1>1. OverlapInv => WrongOnlyByOverlap
  BY DEF OverlapInv
<1> QED
  BY OverlapsOnly, <1>1, PTL
==============================================================================
