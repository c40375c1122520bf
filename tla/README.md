# NekoOAuth2Server in TLA+

NekoOAuth2Server is an OAuth 2.0 / OpenID Connect server in TypeScript: Express 5
around `oidc-provider`, with PostgreSQL through Prisma, a self-service account
portal, an admin API with a Next.js console, and an Express SDK for the
applications that sign users in through it. This directory holds TLA+ models of
its own logic, TLC runs that check them on small instances, and TLAPS proofs of
the results that matter most. File names below are relative to
`apps/server/src/` unless they start with `packages/` or `apps/`.

## How the program runs, and how a step is chosen

The server is one Node process. JavaScript runs one turn at a time, so what a
handler does between two `await`s is atomic. A database statement, a fetch or a
timer is an `await`, and every other request may run there. No handler takes a
lock, and only two places open a transaction (`account/deleteAccount.ts:19-24`,
`admin/rolesApi.ts:149-152`). In the models:

- a request is a process with a program counter `pc[r]`; the values of `pc` are
  named after the statement that comes next;
- one database statement, together with the synchronous code around it, is one
  action; statements of different requests interleave freely;
- a unique index and a foreign key are guards of the statement they make throw,
  and throwing is an action of its own when the code reacts to it;
- a statement or a fetch that fails for a reason of its own is an action, or an
  alternative of one, where what the handler has written before it matters;
- the process may crash between any two steps where the code has to survive it:
  memory is lost, tables are not.

History variables (marked "history" where they are declared) record the past for
the properties; no guard of the code reads them.

## Inventory

| Part | Code | State | Operations |
| --- | --- | --- | --- |
| OIDC state store | `oidc/oidcModelAdapter.ts`, `oidc/adapter.ts` | table `OidcModel`, rows keyed by (type, id) with payload, grantId, expiry | upsert, find, findByUid, findByUserCode, consume, destroy, revokeByGrantId |
| Client store | `oidc/clientAdapter.ts`, `admin/clientsApi.ts` | table `Client` | find (for oidc-provider); create, patch, rotate secret (admin) |
| Sign-in and consent | `oidc/interactions.ts` | interaction and session of oidc-provider, Grant rows | password login, confirm, abort, upstream start and callback |
| Provider set-up | `oidc/provider.ts` | none | findAccount, claims with roles and permissions, audit events |
| Session revocation | `oidc/sessions.ts` | table `OidcModel` | list grants, revoke one grant, revoke everything |
| Account portal | `account/router.ts`, `account/session.ts` | signed cookie, no server state | login, logout, link, unlink, revoke, delete |
| Profile API | `account/profileApi.ts` | table `User` | patch by access token and scope |
| Account deletion | `account/deleteAccount.ts` | several tables | notify, revoke, delete, log |
| Webhooks | `webhooks/deliver.ts`, `admin/webhooksApi.ts` | tables `WebhookEndpoint`, `WebhookDelivery` | deliver with retries; create, patch, rotate, delete, resend |
| Upstream connectors | `connectors/registry.ts`, `admin/connectorsApi.ts`, `index.ts` | table `Connector`, in-memory registry | create, patch, delete, reload, migrate from the environment |
| Upstream protocols | `connectors/oauth2Connector.ts`, `connectors/oidcConnector.ts`, `connectors/state.ts`, `connectors/pkce.ts`, `connectors/presets.ts` | none | authorization URI, code exchange, user info, signed state |
| VRChat linking | `connectors/vrchat/*`, `account/router.ts:243-314` | background poll, friend list of the bot | verify by bio, verify by friend request |
| Roles and permissions | `rbac/requirePermission.ts`, `admin/rolesApi.ts`, `admin/usersApi.ts` | tables `Role`, `UserRole` | check a permission; create, patch, delete a role; grant, revoke |
| User administration | `admin/usersApi.ts` | table `User` | list, patch, delete, revoke sessions |
| Email | `email/*` | tables `EmailLog`, `EmailTemplate`, `SmtpConfig` | send with a rate limit, edit templates and settings |
| Secrets | `security/encryption.ts` | none | encrypt, decrypt, recognise |
| Rate limits, SSRF guard | `security/rateLimit.ts`, `security/ssrfGuard.ts` | counters per address | admit or refuse a request, an address |
| Audit log | `audit/log.ts`, `admin/auditLogApi.ts` | table `AuditLog` | append (never throws), list |
| Express SDK | `packages/sdk/src/*` | the host application's session | login, callback, logout, webhook receiver |
| Admin console | `apps/console/src/*` | Auth.js session | pages that call the admin API |

### How the components interact

- **One table carries every login.** `oidc-provider` keeps sessions, grants, codes
  and tokens as rows of `OidcModel` through `OidcModelAdapter`. `oidc/sessions.ts`
  deletes from the same table with Prisma directly, without going through
  `oidc-provider`. The link between a token and its grant is the column `grantId`;
  the link between a grant and its account is inside the payload.
- **Deletion goes through everything.** The portal and the admin API both call
  `deleteUserAccount`, which calls `deliverUserDeletedWebhook` (HTTP to the
  downstream apps, with retries that sleep in the request), then
  `revokeAllOidcStateForUser`, then a transaction over three tables, then the audit
  log.
- **The registry is a copy.** Sign-in and linking read `connectorRegistry`, a map in
  memory; the admin API writes the `Connector` table and reloads the map.
- **Two ways to an account.** `interactions.ts` (sign-in) and `account/router.ts`
  (linking, VRChat) both read and write `LinkedIdentity`. What either needs after the
  redirect to the provider travels in the signed state, so a callback may arrive at
  another process.
- **Fire and forget.** A VRChat verification goes on after its request has been
  answered; its promise has no handler. The webhook receiver and the host session of
  the SDK live in other processes altogether.
- **Authorisation is a read.** `requirePermission` looks the caller's roles up on
  every request; the handlers look at nothing of it again.

### What is hard, and what makes each part correct

| Part | Hard because | Correct when |
| --- | --- | --- |
| Store, sign-in, revocation | a token request in flight writes rows after a revocation has deleted them; `consume` is a read and a write; `grant.save` is an upsert | nothing issued before a revocation survives it or comes back; a revoked grant issues nothing more unless requests overlap; a code is exchanged once by requests that do not overlap; no account's rows are removed by another's request |
| Deletion and webhooks | HTTP, retries, sleeping requests, a failing INSERT, a crash, rows that appear between two statements of a transaction | the account goes only after every delivery is over; it goes at once with all it owns, or not at all; once; and it does go |
| Registry | a reload awaits once per connector, so reloads overlap; discovery fails; the process dies | what is live is the table of one moment; a mutation that is alone takes effect; one row per provider |
| Identities | several first sign-ins at a time; two INSERTs without a transaction; users unlink, delete, change address meanwhile | one identity leads to one account, one address to one account; a link moves to nobody |
| VRChat | one bot for all; the user acts when they like; calls fail | nobody is verified without acting; the bot is left untied; a verification ends |
| Consent, tokens, claims | the handler reads a grant, adds to it and stores all of it; tabs and double clicks run several of them; tokens outlive the page | an app holds, reads and writes only what was allowed to it; a grant is what was allowed unless consents overlap, and a client has a second one only from another session, from tabs open together, or after the first has ended |
| Portal | the cookie is the whole session; answers arrive in any order and cookies expire; a linking is away at a provider that may fail, while accounts and connectors change | a link is made and removed by its own account; a linking fails for a reason; the cookie follows the user unless requests overlap or it expires |
| Console | pages and the session keep copies of what the server said; answers get lost; a form sends every field | a form undoes only what its page could not know; one registration per page; the session is wrong only after a change |
| Roles, clients | look-ups are stale when the write runs; a transaction that must fail half-way | a revoked permission is refused; grants and revocations hold; the secret shown is the secret that counts |
| SDK | whole sessions are loaded and stored; tabs and reloads | logout and login hold unless requests overlap; a refusal has a cause |

Every hazard, at its line, with the properties that would catch it, is in
`PROJECT.json` under `hazards`.

## Plan

In this order, the most important behaviour first:

1. `OidcModel`, `OidcSessions` and its proofs - the store and what revocation is
   worth. *Done.*
2. `AccountDeletion` and its proofs - deletion, webhooks, liveness. *Done.*
3. `LiveRegistry` (abstract) and `ConnectorRegistry`, which implements it; the
   refinement is proved. *Done.*
4. `AdminApi`, `IdentityLinking` and their proofs; `VRChatVerification` and
   `SdkSession` as models. *Done.*
5. `ConsentScopes` - what an app may see and change; `AccountPortal` - cookies, pages
   and the detour of a linking; `AdminConsole` - pages and sessions that are copies.
   *Done, with proofs.*
6. Proofs of the properties that compare overlapping requests, in `OidcSessions`,
   `ConnectorRegistry`, `ConsentScopes` and `AccountPortal`; of who is told of a
   deletion; and about `VRChatVerification` and `SdkSession`. *Done.*
7. Left: the hourly limit of `email/sendEmail.ts`, once a route of the server sends
   email.

Composition: `OidcSessions` instantiates `OidcModel`; `ConnectorRegistry`
instantiates `LiveRegistry` under a refinement mapping; an `MC` module extends its
component with values for TLC; a `_proofs` module extends its component. Those of
`AccountPortal` and `AdminConsole` extend a second one, which runs on its own and shares
nothing with the first: `VRChatVerification`, whose verifications the portal starts, and
`SdkSession`, the session of the other kind of client. That is why these two call their
specifications `VRChatSpec` and `SdkSpec`, and so on. Components that meet in the code are modelled together where one step of one decides what the
other may do, and where only the result counts the other module has it as one step:

- the whole of `deleteUserAccount` is in `AccountDeletion`; its effect on the token
  store is in `OidcSessions` (`RevokeAll` with operation `deleteAccount`), its effect
  on links is `DeleteUser` of `IdentityLinking` and `Delete` of `AccountPortal`;
- the verifications of `VRChatVerification` appear in `IdentityLinking` as `Verify`,
  which may end in any way they can;
- `OidcSessions` knows grants and not their scopes, `ConsentScopes` the scopes and one
  account: `RevokeGrant` there is the several statements of the former in one step. It
  leaves the interactions of open tabs alone, which the code deletes when they carry the
  grant's id: the model allows those tabs more than the program does;
- `AdminApi` takes the calls of the admin API apart, statement by statement;
  `AdminConsole` has the pages and sessions from which they come;
- `AccountPortal` follows a linking through browser, provider and registry;
  `IdentityLinking` has sign-ins and linkings of all accounts against each other.

## Modules

### OidcModel and OidcSessions

`OidcModel` is the table: a set of rows, and one operator per database statement of
`oidcModelAdapter.ts` and `sessions.ts`. A payload keeps what handlers branch on:
the account, `consumed`. A row is `expired` once its `expiresAt` has passed; `find`
hides it, `findMany` and `deleteMany` do not. `OidcSessions` is the concurrent
requests over it. `pc[r]` names the next statement, `call[r]` the arguments,
`grants[r]` and `todo[r]` the list and the loop of `revokeAllOidcStateForUser`.

| Action | Code |
| --- | --- |
| `Login`, `SaveSession` | `POST /interaction/:uid/login`, then the session row |
| `Confirm...`, `SaveGrant` | `POST /interaction/:uid/confirm`; `grant.save` is an upsert |
| `Authorize`, `IssueCode`, `Redeem`, `IssueAccess`, `IssueRefresh` | `oidc-provider` (external), seen through its adapter calls |
| `ConsumeRead`, `ConsumeWrite` | `OidcModelAdapter.consume`, two statements; the second throws when the row is gone |
| `FindAccount` | `findAccount` of `provider.ts` |
| `RevokeGrant`, `DeleteTokens`, `DeleteGrant` | `revokeGrantForUser` and its two callers; a replayed code takes the same two deletions |
| `RevokeAll`, `FindGrants`, `DeleteTokensOf`, `DeleteGrants`, `DeleteSessions` | `revokeAllOidcStateForUser` |
| `DeleteUser` | the transaction at the end of `deleteUserAccount`, here one step |
| `Expire` | time passes |

Rows that a request mints carry its name, so "issued by a request that was over
before r began" can be said with the history variable `prior`.

### AccountDeletion

A request is a deletion or a resend; `task[r][e]` is the run of `deliverToEndpoint`
for endpoint `e`, several at a time inside one request (`Promise.all`). `Attempt` is
the fetch: the endpoint gets it or not, and an answer may be lost. `LogSuccess` and
`LogFailure` store the delivery row; `StoreDeliveryThrows` is the database refusing
it - because the endpoint's row is gone, or for a reason of its own. Inside the `try`
that counts as a failed attempt, in the `catch` it ends the whole deletion (`Throw`).
`DeleteRows` and `DeleteUser` are the statements of the transaction; what the first
deleted is private to the request until the second commits, and a row added
meanwhile makes the foreign key refuse it (`RollBack`; the history `late` keeps which
deletions met one). Any other statement of the deletion may fail (`StatementFails`).
`account.deleted` is not awaited: `RecordAudit` appends it at some time after the
commit, or its INSERT fails and nobody hears of it. Administrators switch and
remove endpoints (`ClearDeliveries`, `RemoveEndpoint`: two statements, no
transaction), users approve clients, roles are granted. `Crash` ends every request.
`ClientConsent` rows are chosen at the start: no statement of the server inserts one.

### LiveRegistry and ConnectorRegistry

`LiveRegistry` says what a reader of the registry is owed: a loader takes the table
as it is, and later makes the whole of it live, less connectors that cannot be built.
`ConnectorRegistry` is the code: `Create`, `Patch`, `Delete` look up; `Validate`
builds the connector (discovery may fail); `Insert`, `Update`, `Remove` write;
`FindMany`, one `Build` per row, `Swap` reload. `Count` and `Migrate` are the start of
the process and the migration from the environment, one INSERT per step; `Crash`
ends the process, and it starts again. The mapping: `table` is the enabled rows,
`live` the registry, the `snapshot` of a loader is `rows[l]` while it builds.

### IdentityLinking

Sign-in through a connector, linking from the portal, and the continuation of a
VRChat verification, each statement of the look-up-then-insert a step of its own:
`FindLink`, `FindUser`, `CreateUser`, `CreateLink`. The unique indexes on
(provider, providerUserId) and on `primaryEmail` and the foreign key are guards;
`CreateLinkFails` is the INSERT they refuse, `StatementFails` any statement that fails for
a reason of its own: the handler passes the error on, and what it has written stays.
`Unlink`, `DeleteUser`, `ChangeEmail`
happen at any time; `Crash` loses what is in memory but not a request that is away
at the provider. A verification whose promise rejects ends the process (`Verify`).

### VRChatVerification

`relation[t]` is what the bot and user `t` are to each other, `bio[t]` whose code the
bio shows. A verification sends, polls, sleeps and cleans up; time is counted in poll
intervals per verification, and a poll may take up to one. `Accept`, `Decline` and
`Paste` are the user. `Throw` is a failing call: the promise rejects, nothing handles
it, and the process ends with every verification in it.

### AdminApi

A call arrives, passes `requirePermission` (`Gate`, which reads roles and grants of
that moment), looks up (`Lookup`: 404, 409, 400 end it) and writes. `Sweep` and
`RemoveRole` are the two statements of the transaction that deletes a role.
`RotateSecret` and `PatchClient` write different columns of one row.

### SdkSession

One browser session of a host application. `Arrive` loads the session into the
request's copy; `End` stores the whole copy if the handler changed it, as
`express-session` does. In between, the routes of `createExpressAuth`: `Login`,
`Callback...`, `Exchange` (a code works once), `UserInfo`, `Hook`, `LogOut`, and
`requireAuth` (`RequireAuth`).

### ConsentScopes

One account, its browser sessions and the clients it uses. A tab is one visit to the
authorization endpoint in one session; the endpoint belongs to `oidc-provider` and is
modelled by what `interactions.ts` sees of it: `Authorize` and `Resume` compare the scopes
of the request with the grant that the session keeps for the client (`sessionGrant`, by
session and client; none in a session that is new) and make an interaction of those that
are missing, `IssueToken` gives a token what the grant holds of the request. A post is
one submission of "Allow": `Confirm` reads the grant and adds to the copy, `SaveGrant`
stores the copy, `FinishConfirm` answers; the same page may be submitted again in
between. `RevokeGrant` is the portal. `Expire` lets a Grant row expire: `find` hides it
from then on, the row stays in the table and in the portal's list, and saving a copy
taken before makes it live again or not, as the copy's own expiry says. `UserInfo`
answers the claims that a token's scopes open, with roles of the token's client only;
`PatchProfile` and `UpdateProfile` are the two statements of the profile API, the token
being looked at in the first.

### AccountPortal

A request arrives with the cookie of its browser (`Arrive`, `Signed`), runs its
statements, and is answered by `Answer`, which sets, keeps or clears the cookie: two
requests of one browser may be answered in the other order. `listed[b]` is what pages
that are open in `b` have shown, so an unlinking can name a row that the present
account never had. `CookieExpires` is the `maxAge` of the cookie; the history `lapsed`
keeps which requests were answered before one of their browser expired. `flow[f]` is
the signed state of link request `f` with the code that comes with it: `Link` signs it,
`AtProvider` is the user at the provider, `Callback` exchanges the code with the
connector of *that* moment, whose PKCE mode `Reload` may have changed; then
`VerifyIdToken`, `UserInfo`, `FindLink`, `CreateLink`. The provider may fail each of its
calls - the exchange too, with the code spent or not - and the database each statement
(`StatementFails`); the user sees an error in any case, and the status `fault`
remembers whose it was. `Login`, `Logout`, `RevokeAll`, `View`, `Unlink` and `Delete`
are the other routes.

### AdminConsole

`session[a]` is the cookie of Auth.js with the permission that the server reported at
sign-in; `managers` is who holds it now. `Visit` loads a page: `Outcome` is what layout
and page make of session and answer, `Rendered` what the tab then shows. `Submit` is a
form, refused before any call when a field is blank; `Gate` and `Serve` are the server,
`Answer` brings the page anew (`revalidatePath`), `Lose` loses the answer. The
histories `seen` and `sent` of a page say which updates it was read after and which
forms it has sent.

## Runs

TLC finishes every run without error, except the one marked *violation*, in which it
finds the counterexample that belongs to the finding. Sizes are distinct states.

| Run | Instance | Size | What it shows |
| --- | --- | --- | --- |
| `oidc_sessions` | 3 requests, 2 accounts, 1 old grant that may expire | 160,000 | revocation reaches everything earlier and is final (`NothingEarlierSurvives`, `DeletedTokensStayDeleted`); a later request issues something under a revoked grant, or a session outlives a log-out, only by overlap (`RevocationMissesOnlyOverlap`); a code is exchanged twice only by overlap; no request removes rows of another account (`OnlyOwnRowsRevoked`) |
| `deletion` | 2 requests, 1 user, 1 endpoint, 2 attempts, 1 edit, 1 failing statement, 1 reference, 1 crash | 730,000 | one deletion per account, an audit row only of a deletion that happened, one row per attempt (`LoggedOnce`), the transaction is atomic (`RemovalIsAtomic`), whoever interleaves |
| `deletion_liveness` | 1 request, 2 endpoints of 2 clients, 3 attempts, 1 edit, 1 failing statement, 1 crash, fairness | 780,000 | the account goes only after every delivery (`RemovedAfterDelivery`), consenting clients are told, and the deletion completes except for named reasons |
| `deletion_approved` *(violation)* | 1 request, 1 client, nothing fails | | `ApprovedClientsAreTold` fails |
| `registry` | 2 requests, 2 providers, 3 configurations, 1 failure or crash | 460,000 | a mutation that runs alone takes effect, and a row that cannot be built is enabled only by overlap (`WrongOnlyByOverlap`); the registry implements `LiveRegistry` (`LiveIsASnapshot`) |
| `identity` | 3 requests, 1 old account, 3 identities, 1 address, 1 event | 2,190,000 | the same identity or address leads to the same account (`SignInsAgree`); a link never moves; an account without a link has a cause (`EmptyAccountHasAReason`) |
| `vrchat` | 2 verifications of 1 user, 4 intervals, 1 failing call, fairness | 59,000 | only who acted is verified; the bot stays tied only by a late acceptance; every verification ends |
| `admin` | 3 calls, 2 users, 2 clients with a role each, 11 bodies | 1,510,000 | a call acts only if its caller was entitled after it arrived (`AdmittedWhileEntitled`); grants, revocations and rotated secrets hold (`AnswersHold`) |
| `sdk` | 4 requests, 2 accounts | 39,000 | logout and sign-in hold unless requests overlap (`SessionFollowsTheBrowser`); a refused callback has a cause |
| `consent` | 2 sessions, 2 tabs, 2 submissions, 1 profile request, 2 clients, 2 scopes, 1 role | 4,090,000 | an app holds, reads and writes only what was allowed to it (`OnlyWhatWasApproved`); an approval is lost only by overlap, and a client gets a second grant only from another session, from tabs open together or after a grant ended (`GrantsDivergeForAReason`) |
| `portal` | 3 requests, 1 browser, 2 accounts, 1 provider, 2 people there, 1 old link, 1 change of the connector | 2,840,000 | links come and go in requests of their own account (`LinksFollowTheirAccount`); an approved linking fails for a reason (`CallbackFailsForAReason`); the cookie contradicts the user only by overlap, or because it has expired (`CookieFollowsTheUser`) |
| `console` | 2 tabs, 2 forms, 1 administrator, 1 client with one field of two values, 1 change of permission | 1,590,000 | a form undoes only what its page could not know; a page registers one client and rotates once; the session is wrong only after a change |

Why the bounds are enough to matter:

- Two requests are an overlap; the third is the witness that comes after (or the one
  that was over before). In `sdk`, a login with its callback is two requests, so four
  are two logins, or a login that is reloaded and logged out. In `portal`, a linking
  and its callback are two, and the third is a sign-in as somebody else, a deletion, or
  the callback once more. One browser is enough there: a request takes its account from
  the cookie when it arrives, tabs of one browser overlap as two browsers do, and no
  request touches the cookie of another browser. The cookie may expire between any two
  answers, as often as somebody signs in again. The theorems are about any number of
  browsers.
- In `consent` the two submissions may come from one tab ("Allow" pressed twice) or from
  two; each tab may belong to either session and to either client. One client (the
  constant `Holders`) has the role, which must not reach the other, and may hold a grant
  of the first session at the start.
- In `console` the second tab stands for another administrator with the same rights:
  what separates pages is when they were read, not who reads them. The client has one
  field, so a form that undoes one sends an old value of it; that a form may bring back a
  field its author never touched, beside one that was changed, is in the theorem.
- Two accounts tell "own" from "other"; one old grant and those the requests mint
  are two grants of one account.
- Retries: two attempts have a first and a last; the liveness run has three, as the
  code has, so there is one in the middle.
- One failure at a time: each guard on a counter (`MaxDbFailures`, `MaxCrashes`,
  `MaxFailures`, `MaxEvents`, `MaxEdits`, `MaxReloads`, `MaxChanges`) stops at one, which
  may strike anywhere. Combinations of two failures are not explored by TLC; the
  theorems have no bound.
- `Deadline` is 10 intervals in the code, 4 in the run: the first poll, one in the
  middle, the last, and the cleanup after it.

Symmetry is used only where no liveness property is checked. What is permuted is
interchangeable: requests, and in some runs tabs, submissions or accounts,
never one that an old row names. A `CHOOSE` over a permuted set only fills a field that
nothing reads before it is set. Deadlock is checked in the components whose requests
must be able to go on (`Rest` is the step of a system that has nothing left to do), and
not in `consent`, `portal` and `console`, where users may close every page.

Every property of a passing run has a mutant in `PROJECT.json`: a plausible bug in one
mapped definition, which makes TLC report that property. Mutants are defined next to
what they replace and marked *Mutant*.

## Fairness

Only two runs assume any. `AccountDeletion!Fairness` is weak fairness of each
request's next step and of each delivery's next step: Node resumes a handler when its
statement, fetch or timer returns, and each returns (`fetch` has time limits of its
own, the sleeps are constants). It is not assumed that a fetch succeeds, that an
administrator, a user or a crash does anything, or that a request is resumed after a
crash. `VRChatFairness` is weak fairness of each verification's next
step, with the same justification; users owe nothing, so a verification that nobody
answers must end by its clock alone. The other components owe no answer: what they
promise is safety, and a user who never comes back is a legal end of their stories.

## Proofs

TLAPS checks the theorems of the eight `_proofs` modules for all values of the
constants that satisfy the named assumptions: any number of requests, accounts,
grants, endpoints, attempts, failures, providers, roles, clients, tabs and forms.

**OidcSessions_proofs**, from `OwnerAssumption` (each old grant has an owner),
`AccountsAssumption` (there is an account) and `NamesAssumption` (names of requests,
old grants and accounts differ).

- `TypeCorrect`: `TypeOK`, one lemma per group of actions.
- `RevocationReachesThePast`: `NothingEarlierSurvives`. It is not inductive alone:
  to know that a token written now is not under a revoked grant *and* earlier, one has
  to know that its writer is not among the answered requests. `IInv` adds:
  `PriorAnswered` (the past stays past), `FreshRequests` (a request that has not
  arrived has revoked nothing), `RevocationSteps` (which steps a revocation can be at,
  so that what counts as revoked only grows), and `Ownership` (each token is under a
  grant that its own account gave).
- `RevocationIsConfined`: `OnlyOwnRowsRevoked`, from `Ownership`: a deletion by
  `grantId` meets rows of one account only, because grants are owned by one account.
- `DeletionIsFinal`: `DeletedTokensStayDeleted`, from type correctness: a row is
  added under the name of the request that mints it, and `consume` rewrites only a row
  that is there.
- `RevocationMissesOnlyWhatOverlaps` and `ExchangedOnce`: `RevocationMissesOnlyOverlap`
  and `ExchangedTwiceOnlyByOverlap`, from `IInv` and `OverlapInv`. What is left under a
  revoked grant, or exchanged again, is known at the end; why it is there was decided
  when some handler last looked at the table. `OverlapInv` carries that along: `OpAt`
  (which operation a step belongs to), `Issued` (a minted row names the grant of its
  minter, which is past the statement that stores it), `Redeemed` (what a request has
  exchanged is consumed in the table), `GrantsGone` (a Grant row that is there after its
  revocation was saved by a consent beside it) and the same of every later request that
  found such a row.

**AccountDeletion_proofs**, from the assumptions of its module (attempts are at
least one, endpoints have a client, bounds are natural numbers).

- `TypeCorrect`: in particular the attempt counter never passes `MaxAttempts`.
- `Inductive`: `IInv`, the conjunction of `AnswersRecorded` (what the state of a
  delivery says it has achieved, it has), `NothingBeforeStart` (no delivery and no row
  precedes the look-up of endpoints), `AllSettled` (from revocation on, every
  delivery is over), `DeletedIsGone` and `GoneWasDeleted` (an account is gone exactly when
  a request has committed its deletion), `LogTellsOfDeletions` (an audit row is of such a
  request, and each has one, written or on its way, unless the database or the process
  failed), and two of the invariants of the runs. They are needed because
  the properties speak of the moment the account goes, and what makes them true happens
  before.
- `NoRemovalBeforeDelivery`, `DeletedOnce` and `AttemptsAreStored` follow from `IInv`;
  `LogIsExact` puts the last two and `LogTellsOfDeletions` together as `LoggedOnce`, the invariant of the run.
  `RemovalIsOneStep`, the atomicity of the transaction, is an action property proved
  from the shape of each step.
- `NobodyIsSkipped`: `ConsentingClientsAreTold`, an action property. It speaks of the
  step that removes the user, and of consents and endpoints as they are then, while the
  deletion chose its deliveries several statements earlier. `ToldInv` bridges that:
  `ConsentsAreRead` (what was read of the consents is still so while the user exists),
  `EndpointsAreTried` (each enabled endpoint of a consenting client that nobody has
  edited has a delivery, from the look-up on) and `ClearingIsEdited` (no endpoint is deleted without an edit).

**ConnectorRegistry_proofs**, from `NamesAssumption` (`Boot`, requests and
providers have different names; `Off` and `Absent` are no configurations),
`ConfigsAssumption` and `MaxFailuresAssumption`.

- `TypeCorrect`: `TypeOK`, one lemma per group of actions.
- `ProviderHasOneRow`: `OneRowPerProvider`, whatever creations, changes, removals and
  the migration from the environment interleave.
- `Inductive`: `IInv`, which adds to the above `RowsAreEntries` (what a reload has
  read names each provider once and holds enabled rows only) and `NextIsPart` (the
  map it builds has, for each provider, nothing or the entry that it read).
- `RegistryIsASnapshot`: the refinement `LiveIsASnapshot`. `findMany` is the abstract
  snapshot, the swap of the map the publication, a write of a row a write; building
  the map, one row at a time, is a stutter. This is where `NextIsPart` is needed: the
  map that the swap publishes must be the one that was read, although rows change
  while it is built.
- `WrongOnlyWhereRequestsOverlap`: `WrongOnlyByOverlap`, with `OverlapInv`. For its first
  half, that a mutation that runs alone takes effect: `RequestsRun`, `FreshRows` (what a
  lone reload has read is what the table says) and `NextIsBuilt` (the map under
  construction lacks what failed and what is to come, and nothing else). For its second
  half, that an unbuildable row takes two PATCHes: `KnownRows` (an identifier is one row,
  from its INSERT on), `Validated` (who is about to write has validated what it enables)
  and `StaleOnlyByOverlap` (a field that a PATCH leaves out has changed since it was read
  only by a PATCH that had not ended when this one began).

**AdminApi_proofs**, from the assumptions of its module on the rows at the start
(`FirstRolesAssumption`, `FirstGrantsAssumption`) and on tokens and forms.

- `TypeCorrect`: with `MintedOnce` (a request is the id of a row only once it has
  created it), because `TypeOK` says that ids are keys and that every assignment names
  an existing role.
- `Inductive`: `IInv`, the properties together with `Underway`: `PriorEnded` (who was
  over when a request arrived is over), `HeldIsCurrent` (whoever is entitled while it
  waits at the middleware is recorded), `SweptOwn` (a transaction sweeps assignments of
  its own role only), `ConfidentialRecorded` (a rotation writes only after it has seen
  a client with a secret) and `WrittenDone`.
- `NamesAreUnique` (two roles of a client have different names),
  `AdmissionIsEntitled`, `AnswersStand`, `SecretsStand` and `RotationsWereConfidential`
  follow from `IInv`; `AnswersAreKept` puts the middle ones together as `AnswersHold`,
  the invariant of the run.

**IdentityLinking_proofs**, from the assumptions of its module (names differ, the
bound is a natural number).

- `TypeCorrect`, with `Proved`: what a request links or answers, it has proved.
- `Inductive`: `IInv`, which adds `Keys` (the unique indexes) and, for each request,
  what its past look-ups are still worth: `Met` (a sign-in that has found no link meets
  later only links that a request beside it has made), `Addressed` (the account it goes
  on with has the reported address, or somebody has given that up), `SignedIn` (the link
  it was answered by is there, or was unlinked), `Made` and `Left` (whose an account
  made by a sign-in is, and why it may be without a link).
- `SignInsMeet`: `SignInsAgree`, from `SignedIn`, `Addressed` and `Keys`.
- `EmptyAccountsHaveAReason`: `EmptyAccountHasAReason`, from `Left`: a statement of the
  sign-in failed or the process died, or the INSERT that leaves the account empty was
  refused by the link of a request beside it.
- `LinksStay`: `LinkNeverMoves`, an action property, from the guards of each INSERT.

**ConsentScopes_proofs**, from `NamesAssumption` (names of grants differ, a role belongs
to a client, and is no field of a profile).

- `TypeCorrect`, with `Posted` (a submission is of a tab, and of a grant).
- `NothingUnapproved`: `OnlyWhatWasApproved`. A token is issued long after the page, from
  a row that other submissions have overwritten; so the invariant adds `Grounded` (what
  a row, a copy about to be saved, or a profile request under way contains was allowed to
  its client) and, because that speaks of *the* client of a grant, `Owned` (a session,
  an interaction and a submission keep grants of their own client only).
- `ConsentsStay`: `GrantsDivergeForAReason`, with `OverlapInv`. An approval is lost by
  the save of a copy taken before it, so `Kept` says that what a submission has saved is
  in the grant and in every copy taken later, unless submissions overlap. A client gets
  a second grant in a session when a page finds none although there was one:
  `SessionKeeps` (a session names grants that were saved, one for every client with a
  settled tab in it), `NewAfterEnd` (a later page of the session finds none only after a
  grant of the client was revoked or expired) and `GrantsAreMade` (a new grant is its
  submission's own).

**AccountPortal_proofs**, from the assumptions of its module on names and bounds.
Among the names: the words for what an answer does to the cookie, `keep` and `clear`,
are no accounts: the code names accounts by cuid (`prisma/schema.prisma:126`).

- `TypeCorrect`, with `Handlers` (a callback has redeemed the code of its state) and
  `Flows` (a state was signed for the account of a request that arrived with it).
- `LinksFollow`: `LinksFollowTheirAccount`, an action property. `Flows` is what it needs:
  the account that a callback writes under is the one of the request that began the
  linking, whatever the cookie says by then.
- `CookieIsTheUsers`: `CookieFollowsTheUser`, with `PriorDone` (who was answered before a
  request arrived stays answered) and `AnswersFit` (what an answer does to the cookie is
  what its request was for): the cookie changes in the step in which an answer arrives,
  and that answer is then later than all that arrived before, or in which it expires,
  and then whoever had been answered is in `lapsed`.
- `CallbackFails`: `CallbackFailsForAReason`, with `ErrorInv`. Each way to fail has a
  conjunct that says what a request relied on: `VerifierFits` (the verifier in a state
  fits the connector unless that was changed), `CodesFit` (a code is spent only by a
  callback), `LinksProved` and `TakenByOverlap` (a link is an old one or one that its
  callback has proved, and an identity found free is taken only by callbacks beside
  this one), and what none of them covers is a fault of the provider or the database;
  `CallbacksFit` and `NotYetFailed` say where they start.
- About **VRChatVerification**, here because the portal's handlers start the
  verifications and leave them running (`account/router.ts:265, 299`), for any number of
  verifications and VRChat users and any deadline. `VerificationTypeCorrect` needs `OnTheClock` (how far the clock
  and the polls are at each step), because the bound on polls is in `VRChatTypeOK`;
  `UsersVerifyThemselves` needs `SeenIsDone` (a friend that a verification can see
  accepted while it ran; a code in a bio was pasted); `TiesAreUndone` needs
  `TiedIsUntied`: a tie to a user who did not accept too late has, at every moment, a
  verification that will still undo it, or one that threw.

**AdminConsole_proofs**, from the assumptions of its module (names differ, there are a
tab and an administrator).

- `TypeCorrect`, with `Filled`, which says what a call under way carries.
- `SessionsTellThePast`: `LockedOutOnlyByAChange`, inductive by itself.
- `OneClientPerPage`: `OncePerPage`, with `OnceInv`: `SentOnce` (a form that a page has sent
  has ended or is the one it waits for), `AnsweredOnce` (an answered registration has
  taken the form away, an answered rotation its button) and `Knows` (a call acts on
  the client of its page).
- `OlderPagesUndo`: `UndoneOnlyFromAnOlderPage`, with `SavedInv`: `Reads` says that a page
  shows the fields of its client unless an update it does not know of is written,
  and `Brings` says the same of a form on its way; the action property is `Brings` at
  the moment of the write.
- About **SdkSession**, the other client of the server that keeps a session, for any
  number of requests and accounts. A session is loaded when a request arrives, and what
  a logout or sign-in made of it is known when a later one ends; `SdkInv` follows it
  from one to the other: `LoadedIsStored` (what a request loaded is stored unless
  another one has stored since), `LogOutIsLoaded` and `SignInIsLoaded` (what was made of
  the session is in it and in what later requests loaded), `PendingIsStored`,
  `PendingIsLoaded` (the same of a pending login) and `RefusedIsMeddled`.
  `SdkTypeCorrect`, `SessionFollows` and `RefusalsHaveAReason` follow.

**Only model-checked**: the liveness properties, `DeletionCompletes` and
`VerificationsEnd`. Liveness under fairness is out of the prover's reach; so are
`ENABLED`, and induction over data, which no model here needs: loops of the code are
actions, and no operator is recursive. All other properties of the passing runs are
theorems. The finding is a counterexample, and has nothing to prove.

## Findings

**Approved apps are not told of a deletion** (`webhooks/deliver.ts:96`, run
`deletion_approved`). The comment above the function promises a notification to every
app the user has a relationship with. Who is told is read from `ClientConsent`, and
nothing in the server writes that table; consent is stored as a grant.

## Observations

Seen in the models or while writing them. No passing property excludes them: the
"only by overlap" properties say exactly when the first three happen.

- *Log out everywhere finds tokens through grants* (`oidc/sessions.ts:55`). A token
  request that overlaps the revocation of its grant stores its tokens after the
  deletion. Their grant row is gone, so a later "log out everywhere" leaves them
  until they expire.
- *Overlapping reloads* (`connectors/registry.ts:119`). The reload that read the table
  first may publish last; the newer change is then live only after the next mutation
  or start.
- *Two consents of one grant* (`oidc/interactions.ts:134-142`). The copy saved last wins;
  scopes allowed at the same time in another tab are asked for again.
- *A failing poll leaves the friend request behind*
  (`connectors/vrchat/verification.ts:87`): there is no `finally` around the loop.
- *A deletion may leave no trace in the audit log* (`account/deleteAccount.ts:29`): the row
  is written after the commit, nobody waits for it, and its failure is swallowed.
- *A second grant of a client* (`oidc/interactions.ts:127-130`): another browser session
  makes one of its own, and so does the session of an expired grant, whose row stays in
  the portal's list (`oidc/sessions.ts:18-20`). The user revokes them one by one.
- *The webhook receiver may be told of a deletion that is rolled back*
  (`account/deleteAccount.ts:16`), and nothing tells it otherwise.
- *A crash between two INSERTs of the environment migration*
  (`connectors/registry.ts:144`) leaves the table non-empty, and the rest is skipped at
  the next start.
- *A sign-in may leave an account without a link* (`oidc/interactions.ts:233`) when its
  INSERT loses a race or fails; nobody can sign in to it until the address is reported again.
- *The VRChat page of the portal is shadowed*: `GET /account/link/vrchat`
  (`account/router.ts:226`) is registered after `/link/:providerId` (`account/router.ts:148`),
  which answers 404, although the portal links to it (`account/router.ts:115`).
- *The console keeps a newly appointed manager out*: "Access denied" has no sign-out, and
  the login page sends a signed-in browser back, so the session has to expire first.
- *A suspended user signs in as before*: `status` is written by `PATCH /api/admin/users/:id`
  (`admin/usersApi.ts:103`), and no sign-in, token or account look-up reads it.
- *Two tabs of an SDK application share one pending login*, and a request in flight
  during a logout may store the session it loaded before; `onLoginSuccess` may throw after
  the user was set (`packages/sdk/src/express.ts:117`), and the browser is signed in with
  an error on the screen.

## Not modelled

- **The library `oidc-provider`** beyond what its adapter calls and interactions show:
  token formats, client authentication, its validation of the columns of `Client`. Its
  steps are marked external in `PROJECT.json`. Device codes (`findByUserCode`) belong to a flow that this server does not enable.
  Look-ups by uid (`findByUid`) are how the library finds the session that an interaction
  or a token is bound to: they change no row, and all that they decide is whether the
  library goes on, which the models leave open.
- **Presets and discovery documents** of the connectors: data. PKCE modes, the signed
  state and the exchange are in `AccountPortal`; the signature is taken as given.
- **Ciphers, hashes, rate limiters, the SSRF guard**: pure data, or counters of a
  library.
- **Email**: `sendTemplatedEmail` has no caller in the server yet; templates and settings
  are single rows, written by one statement.
- **The audit log**, except `account.deleted`: it is appended and never read back by
  anything but its list.
- **Registration and secret rotation of webhook endpoints, status of a user**: written by
  one statement; what the properties say of deliveries and sign-ins does not depend on
  them.
- **SDK helpers, HTML pages, the seed and one-shot scripts**: stateless, or run once.
