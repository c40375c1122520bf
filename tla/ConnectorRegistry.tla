--------------------------- MODULE ConnectorRegistry ---------------------------
(***************************************************************************)
(* Upstream connectors: the admin API (admin/connectorsApi.ts) writes the   *)
(* Connector table and reloads the in-memory registry                       *)
(* (connectors/registry.ts) after every write; the server migrates          *)
(* connectors from environment variables and loads the registry when it     *)
(* starts.                                                                  *)
(*                                                                          *)
(* A configuration stands for every column buildConnectorFromRow reads.     *)
(* Building one outside Buildable always throws (a missing issuer or        *)
(* endpoint); building another throws when OIDC discovery fails.            *)
(* A loader is an admin request or the start of the process.                *)
(***************************************************************************)
EXTENDS Integers

CONSTANTS
  Requests,          \* POST, PATCH and DELETE calls of a behaviour (bound)
  Boot,              \* the start of the process
  Providers,         \* values of providerId
  EnvProviders,      \* legacy presets whose environment variables are set
  Configs,           \* configurations of a connector
  Buildable,         \* those that buildConnectorFromRow accepts
  EnvConfig,         \* the configuration the environment variables give
  Off,               \* no entry in the registry
  Absent,            \* a field that a PATCH body leaves out
  MaxFailures        \* failing discovery fetches, failing reads of the table
                     \* and crashes of the process, together (bound)

Loaders == Requests \cup {Boot}

Ids == Requests \cup Providers

ASSUME NamesAssumption ==
  /\ Boot \notin Requests
  /\ Requests \cap Providers = {}
  /\ Providers # {}
  /\ Off \notin Configs /\ Absent \notin Configs \cup BOOLEAN
  /\ Absent \notin [Providers -> Configs \cup {Off}]

ASSUME ConfigsAssumption ==
  /\ Buildable \subseteq Configs
  /\ EnvConfig \in Buildable
  /\ EnvProviders \subseteq Providers

ASSUME MaxFailuresAssumption == MaxFailures \in Nat

VARIABLES
  connectors,  \* the Connector table: a set of rows
  registry,    \* connectorRegistry: what is live for each provider
  pc,          \* pc[l]: the next statement of loader l
  op,          \* op[r]: which operation request r is
  row,         \* row[r]: the row r read, merged with its body
  data,        \* data[r]: the fields of its body
  rows,        \* rows[l]: what findMany of its reload returned
  todo,        \* todo[l]: the rows its loop has not built
  next,        \* next[l]: the map it builds
  skipped,     \* skipped[l]: providers that failed to build in its reload
  missing,     \* those of the reload that was published last (history)
  prior,       \* prior[r]: requests that had ended when r began (history)
  failures

locals == <<op, row, data, rows, todo, next, skipped, prior>>
vars == <<connectors, registry, pc, locals, missing, failures>>

Row == [id : Ids, providerId : Providers, config : Configs, enabled : BOOLEAN]

Data == [config : Configs \cup {Absent}, enabled : BOOLEAN \cup {Absent}]

Map == [Providers -> Configs \cup {Off}]

PCs == {"idle", "validate", "write", "findMany", "build", "swap",
        "count", "migrate", "done", "failed", "crashed"}

Ended == {"done", "failed", "crashed"}

Empty == [p \in Providers |-> Off]

NewRow(id, p, config) ==
  [id |-> id, providerId |-> p, config |-> config, enabled |-> TRUE]

RowsAt(id) == {x \in connectors : x.id = id}

RowsOf(p) == {x \in connectors : x.providerId = p}

TypeOK ==
  /\ connectors \subseteq Row
  /\ registry \in Map
  /\ pc \in [Loaders -> PCs]
  /\ op \in [Requests -> {"none", "create", "patch", "delete"}]
  /\ row \in [Requests -> Row]
  /\ data \in [Requests -> Data]
  /\ rows \in [Loaders -> SUBSET Row]
  /\ todo \in [Loaders -> SUBSET Row]
  /\ next \in [Loaders -> Map]
  /\ skipped \in [Loaders -> SUBSET Providers]
  /\ prior \in [Requests -> SUBSET Requests]
  /\ missing \subseteq Providers
  /\ failures \in 0..MaxFailures

NoData == [config |-> Absent, enabled |-> Absent]

NoRow == LET p == CHOOSE q \in Providers : TRUE IN NewRow(p, p, EnvConfig)

\* The server starts over a table that has rows for some providers P, those of
\* some of them, D, disabled.
Init ==
  /\ \E P \in SUBSET Providers : \E D \in SUBSET P :
       connectors = {[NewRow(p, p, EnvConfig) EXCEPT !.enabled = p \notin D] : p \in P}
  /\ registry = Empty
  /\ pc = [l \in Loaders |-> IF l = Boot THEN "count" ELSE "idle"]
  /\ op = [r \in Requests |-> "none"]
  /\ row = [r \in Requests |-> NoRow]
  /\ data = [r \in Requests |-> NoData]
  /\ rows = [l \in Loaders |-> {}]
  /\ todo = [l \in Loaders |-> {}]
  /\ next = [l \in Loaders |-> Empty]
  /\ skipped = [l \in Loaders |-> {}]
  /\ prior = [r \in Requests |-> {}]
  /\ missing = {}
  /\ failures = 0

------------------------------------------------------------------------------

Goto(l, from, to) ==
  /\ pc[l] = from
  /\ pc' = [pc EXCEPT ![l] = to]

\* Request r arrives while the server is up; x is the row it works on.
Begin(r, operation, x, body, step) ==
  /\ pc[Boot] = "done"
  /\ Goto(r, "idle", step)
  /\ op' = [op EXCEPT ![r] = operation]
  /\ row' = [row EXCEPT ![r] = x]
  /\ data' = [data EXCEPT ![r] = body]
  /\ prior' = [prior EXCEPT ![r] = {s \in Requests : pc[s] \in Ended}]
  /\ UNCHANGED <<connectors, registry, rows, todo, next, skipped, missing, failures>>

\* POST: no row has that providerId yet (otherwise 409).
Create(r, p, config) ==
  /\ RowsOf(p) = {}
  /\ Begin(r, "create", NewRow(r, p, config), NoData, "validate")

\* Mutant: a field the body leaves out is not filtered.
MergeAll(x, body) ==
  [x EXCEPT !.config = body.config,
            !.enabled = IF body.enabled = Absent THEN @ ELSE body.enabled]

\* { ...existing, ...data }
Merge(x, body) ==
  [x EXCEPT !.config = IF body.config = Absent THEN @ ELSE body.config,
            !.enabled = IF body.enabled = Absent THEN @ ELSE body.enabled]

\* Mutant: nothing is validated before the update.
PatchUnchecked(r, body) ==
  \E x \in connectors : Begin(r, "patch", Merge(x, body), body, "write")

\* PATCH: the row is there, and a row that ends up disabled is not validated.
Patch(r, body) ==
  \E x \in connectors :
    Begin(r, "patch", Merge(x, body), body,
          IF Merge(x, body).enabled THEN "validate" ELSE "write")

\* DELETE: the row is there.
Delete(r) == \E x \in connectors : Begin(r, "delete", x, NoData, "write")

\* buildConnectorFromRow throws.
BuildFails(config) ==
  \/ config \notin Buildable /\ UNCHANGED failures
  \/ failures < MaxFailures /\ failures' = failures + 1

BuildSucceeds(config) == config \in Buildable /\ UNCHANGED failures

\* The row is built before it is stored: 400 when that throws.
Validate(r) ==
  /\ \/ Goto(r, "validate", "write") /\ BuildSucceeds(row[r].config)
     \/ Goto(r, "validate", "failed") /\ BuildFails(row[r].config)
  /\ UNCHANGED <<connectors, registry, locals, missing>>

WriteFrame == UNCHANGED <<registry, locals, missing, failures>>

\* Mutant: the table has no unique index on providerId.
InsertTwice(r) ==
  /\ op[r] = "create" /\ Goto(r, "write", "findMany")
  /\ connectors' = connectors \cup {row[r]}
  /\ WriteFrame

\* connector.create: the unique index refuses a second row of the provider.
Insert(r) ==
  /\ op[r] = "create" /\ RowsOf(row[r].providerId) = {}
  /\ Goto(r, "write", "findMany")
  /\ connectors' = connectors \cup {row[r]}
  /\ WriteFrame

\* connector.update: only the fields of the body are written.
Update(r) ==
  \E x \in RowsAt(row[r].id) :
    /\ op[r] = "patch" /\ Goto(r, "write", "findMany")
    /\ connectors' = (connectors \ {x}) \cup {Merge(x, data[r])}
    /\ WriteFrame

\* connector.delete
Remove(r) ==
  \E x \in RowsAt(row[r].id) :
    /\ op[r] = "delete" /\ Goto(r, "write", "findMany")
    /\ connectors' = connectors \ {x}
    /\ WriteFrame

\* The statement throws: the index refuses it, or the row has gone.
WriteFails(r) ==
  /\ IF op[r] = "create" THEN RowsOf(row[r].providerId) # {}
                         ELSE RowsAt(row[r].id) = {}
  /\ Goto(r, "write", "failed")
  /\ UNCHANGED connectors /\ WriteFrame

------------------------------------------------------------------------------
(* loadConnectorRegistryFromDb.                                            *)

EnabledRows == {x \in connectors : x.enabled}

ReloadFrame == UNCHANGED <<connectors, op, row, data, prior>>

FindMany(l) ==
  /\ Goto(l, "findMany", IF EnabledRows = {} THEN "swap" ELSE "build")
  /\ rows' = [rows EXCEPT ![l] = EnabledRows]
  /\ todo' = [todo EXCEPT ![l] = EnabledRows]
  /\ UNCHANGED <<registry, next, skipped, missing, failures>> /\ ReloadFrame

\* findMany throws: the request fails and the process that starts exits.
FindManyFails(l) ==
  /\ failures < MaxFailures
  /\ failures' = failures + 1
  /\ Goto(l, "findMany", "failed")
  /\ UNCHANGED <<registry, rows, todo, next, skipped, missing>> /\ ReloadFrame

\* Mutant: each connector goes live as soon as it is built.
BuildInPlace(l) ==
  \E x \in todo[l] :
    /\ Goto(l, "build", IF todo[l] = {x} THEN "swap" ELSE "build")
    /\ todo' = [todo EXCEPT ![l] = @ \ {x}]
    /\ \/ /\ BuildSucceeds(x.config)
          /\ next' = [next EXCEPT ![l][x.providerId] = x.config]
          /\ registry' = [registry EXCEPT ![x.providerId] = x.config]
          /\ UNCHANGED skipped
       \/ /\ BuildFails(x.config)
          /\ skipped' = [skipped EXCEPT ![l] = @ \cup {x.providerId}]
          /\ UNCHANGED <<next, registry>>
    /\ UNCHANGED <<rows, missing>> /\ ReloadFrame

\* One iteration of the loop; a row that fails to build is skipped.
Build(l) ==
  \E x \in todo[l] :
    /\ Goto(l, "build", IF todo[l] = {x} THEN "swap" ELSE "build")
    /\ todo' = [todo EXCEPT ![l] = @ \ {x}]
    /\ \/ /\ BuildSucceeds(x.config)
          /\ next' = [next EXCEPT ![l][x.providerId] = x.config]
          /\ UNCHANGED skipped
       \/ /\ BuildFails(x.config)
          /\ skipped' = [skipped EXCEPT ![l] = @ \cup {x.providerId}]
          /\ UNCHANGED next
    /\ UNCHANGED <<registry, rows, missing>> /\ ReloadFrame

\* Mutant: the registry is not cleared first.
SwapWithoutClear(l) ==
  /\ Goto(l, "swap", "done")
  /\ registry' = [p \in Providers |-> IF next[l][p] = Off THEN registry[p]
                                                          ELSE next[l][p]]
  /\ rows' = [rows EXCEPT ![l] = {}]
  /\ next' = [next EXCEPT ![l] = Empty]
  /\ skipped' = [skipped EXCEPT ![l] = {}]
  /\ missing' = skipped[l]
  /\ UNCHANGED <<todo, failures>> /\ ReloadFrame

\* clear() and the set() calls run in one turn.
Swap(l) ==
  /\ Goto(l, "swap", "done")
  /\ registry' = next[l]
  /\ rows' = [rows EXCEPT ![l] = {}]
  /\ next' = [next EXCEPT ![l] = Empty]
  /\ skipped' = [skipped EXCEPT ![l] = {}]
  /\ missing' = skipped[l]
  /\ UNCHANGED <<todo, failures>> /\ ReloadFrame

------------------------------------------------------------------------------
(* The start and the end of the process.                                   *)

BootFrame == UNCHANGED <<registry, locals, missing, failures>>

\* migrateEnvConnectorsIfEmpty, first statement.
Count ==
  /\ Goto(Boot, "count", IF connectors = {} /\ EnvProviders # {}
                         THEN "migrate" ELSE "findMany")
  /\ UNCHANGED connectors /\ BootFrame

\* One iteration of its loop: the next preset gets its row.
Migrate ==
  \E p \in EnvProviders :
    /\ RowsOf(p) = {}
    /\ connectors' = connectors \cup {NewRow(p, p, EnvConfig)}
    /\ Goto(Boot, "migrate",
            IF \A q \in EnvProviders \ {p} : RowsOf(q) # {}
            THEN "findMany" ELSE "migrate")
    /\ BootFrame

\* The process dies and is started again: memory is lost, the table is not.
Crash ==
  /\ \/ pc[Boot] = "failed" /\ UNCHANGED failures
     \/ failures < MaxFailures /\ failures' = failures + 1
  /\ registry' = Empty
  /\ pc' = [l \in Loaders |-> IF l = Boot THEN "count"
              ELSE IF pc[l] \in Ended \cup {"idle"} THEN pc[l] ELSE "crashed"]
  /\ rows' = [l \in Loaders |-> {}]
  /\ todo' = [l \in Loaders |-> {}]
  /\ next' = [l \in Loaders |-> Empty]
  /\ skipped' = [l \in Loaders |-> {}]
  /\ UNCHANGED <<connectors, op, row, data, prior, missing>>

\* Every request has ended: the behaviour may stop.
Rest ==
  /\ \A r \in Requests : pc[r] \in Ended
  /\ UNCHANGED vars

Arrive(r) ==
  \/ \E p \in Providers, config \in Configs : Create(r, p, config)
  \/ \E body \in Data : Patch(r, body)
  \/ Delete(r)

Step(r) == Validate(r) \/ Insert(r) \/ Update(r) \/ Remove(r) \/ WriteFails(r)

Reload(l) == FindMany(l) \/ FindManyFails(l) \/ Build(l) \/ Swap(l)

Next ==
  \/ \E r \in Requests : Arrive(r) \/ Step(r)
  \/ \E l \in Loaders : Reload(l)
  \/ Count \/ Migrate \/ Crash
  \/ Rest

Spec == Init /\ [][Next]_vars

------------------------------------------------------------------------------
(* Properties.                                                             *)

\* What the enabled rows x of X say about each provider.
Entries(X) ==
  [p \in Providers |->
     IF \E x \in X : x.providerId = p /\ x.enabled
     THEN (CHOOSE x \in X : x.providerId = p /\ x.enabled).config ELSE Off]

\* Requests other than r have ended before it began or have not arrived.
RanAlone(r) == \A s \in Requests \ {r} : pc[s] = "idle" \/ s \in prior[r]

\* A mutation that overlaps no other takes effect at once: each provider is
\* live exactly with its stored configuration, or was skipped because it failed
\* to build (connectorsApi.ts:9-16, registry.ts:104-105).
MutationTakesEffect ==
  \A r \in Requests :
    pc[r] = "done" /\ pc[Boot] = "done" /\ RanAlone(r) =>
      \A p \in Providers :
        registry[p] = IF p \in missing THEN Off ELSE Entries(connectors)[p]

\* A row that cannot be built is enabled only by two PATCHes of it that overlap,
\* one enabling it, one breaking it while it is disabled
\* (connectorsApi.ts:138-150, 198-211).
BrokenOnlyByOverlap ==
  \A x \in connectors :
    x.enabled /\ x.config \notin Buildable =>
      \E r, s \in Requests :
        /\ op[r] = "patch" /\ data[r].enabled = TRUE /\ row[r].id = x.id
        /\ op[s] = "patch" /\ data[s].config = x.config /\ row[s].id = x.id
        /\ r # s /\ r \notin prior[s] /\ s \notin prior[r]

\* Requests that run one after the other leave neither a registry behind its table
\* nor an enabled row that cannot be built.
WrongOnlyByOverlap == MutationTakesEffect /\ BrokenOnlyByOverlap

\* Two administrators who add one provider at once get one row: the reads before
\* the INSERT do not exclude it, the index does (connectorsApi.ts:115, 152).
OneRowPerProvider ==
  \A x, y \in connectors : x.providerId = y.providerId => x = y

Abstract == INSTANCE LiveRegistry WITH
  table <- Entries(connectors),
  live <- registry,
  snapshot <- [l \in Loaders |-> IF pc[l] \in {"build", "swap"}
                                  THEN Entries(rows[l]) ELSE Absent],
  NoSnapshot <- Absent

\* The registry implements LiveRegistry: whatever requests, failures and crashes
\* interleave, a sign-in sees the connectors of one moment, never a reload half
\* done (registry.ts:107-121).
LiveIsASnapshot == Abstract!Spec
==============================================================================
