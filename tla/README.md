# Verification of the Proctor server

TLA+ specifications of the server in `src/` (a NestJS application: GraphQL
API, Socket.IO collaboration gateway, Yjs documents persisted in PostgreSQL
through drizzle), TLC configurations that check them on small instances, and
TLAPS proofs of the invariants they check, for every value of the constants.
Paths below are relative to `src/src/` unless they say otherwise; `file:n` is a
line. `PROJECT.json` has the machine-readable version: `map` gives the lines
behind every definition, `mutants` the change to the code that each property
catches.

Contents: [1 Inventory](#1-inventory) - [2 Modules](#2-modules-and-the-code-they-model) -
[3 Runs](#3-runs) - [4 Proofs](#4-proofs) - [5 Findings](#5-findings) -
[6 What is not modelled](#6-what-is-not-modelled) - [7 Plan](#7-plan) -
[8 Running it](#8-running-it)

## 1 Inventory

The server is one Node.js process. Nothing in it blocks and nothing is locked:
code runs to its next `await`, then anything else that is ready runs. Almost
every hazard below is of the form "read, await, act on what was read". Four
things live in memory and are gone after a crash: resident documents and their
write queues, the room and awareness bookkeeping of the gateway. Everything
else is a row, and only two places use a transaction (the initial snapshot and
compaction).

| Component | Source | State it keeps | Operations | Talks to |
|---|---|---|---|---|
| Document persistence | `toolpersistence/toolpersistence.service.ts` | rows of `documents`, `document_snapshots`, `document_updates` | `loadDocument`, `persistInitialSnapshot`, `appendUpdate`, `createSnapshot`, `compactAfterSnapshot` | PostgreSQL; called by the registry only |
| Update chain of a document | `document-registry/document-registry.service.ts:81-200` | per document: Y.Doc, `seq`, `lastSnapshotSeq`, `pendingUpdates`, promise chain | `update` listener, task of the chain, snapshot policy | persistence |
| Document registry | same file, `:1-80`, `:160-200` | `docs`, `loadingDocs`, `refCount`, interval timer | `acquire`, `release`, `forget`, `evictIdleDocs` | persistence; called by gateway, resolvers, tool instances |
| Invites | `invites/invites.service.ts` | rows of `tool_instance_invites` and members | create, accept (by token, by id), decline, revoke, list | users, instances, notifications, e-mail |
| Collaboration gateway | `collaboration/yjs-socketio-gateway.ts` | rooms, `attachedByDoc`, `awarenessByDoc`, `socketIdToClientId`, timers, payloads | connect, sync, awareness, disconnect, broadcast of viewers | registry, tool instances, users |
| Tool instances | `toolinstance/toolinstance.service.ts` and resolver | rows of `tool_instances`, members, accesses | access checks, transfer, members, leave, archive, delete, `recordAccess`, lists | registry (`forget`), documents, notifications |
| Schema design tool | `tools/implementations/schema-design/tool.ts` | none (reads the Y.Doc) | `initDocument`, `validate`, `compile` | called by registry and resolvers |
| Authentication | `auth/`, `auth.resolver.ts` | rows of `auth_tokens`, `users.lastLogoutAt`; the signed tokens are with the clients | request and verify a login, issue and refresh tokens, logout, check of a token | users; called for every GraphQL request and socket |
| Users and avatars | `users/` | rows of `users` | find or create, verify, last logout, avatar SVG | called by authentication, chat, gateway |
| Notifications, e-mail | `notifications/` | rows of `notifications` | create, list, mark read, emit | |
| Chat | `chat/`, `chat.resolver.ts` | rows of `chat_messages`, rooms | connect, send (socket or API), list by pages | users, tool instances (`canAccess`) |
| Tool registry | `tools/registry.ts` | a table filled at start-up | get, list | |
| GraphQL API, guards | `api/`, `common/guards` | none | resolvers, one access check each | services |
| Legacy Yjs gateway | `tools/yjs-gateway.ts` | rooms | superseded | |
| Application shell, drivers | `main.ts`, `db/`, `common/` | connections | start, stop, error mapping | |

**How they interact.** A client connects to the gateway, which looks the
instance up, joins the room and calls `DocumentRegistry.acquire`; the registry
loads the document through persistence or shares a load in flight. Each update
a client sends changes the resident Y.Doc, whose listener chains one task; the
task appends a row, and sometimes snapshots and compacts. Disconnecting calls
`release`; an interval evicts documents with no reference, after a final
snapshot. Resolvers acquire and release too (validate, compile). Deleting an
instance deletes its row, then the document row (PostgreSQL cascades), then
calls `forget`. Invites and tool instances share the members table.

**What makes each component correct, and what is hard about it.**

- *Persistence and chain.* No update that users see is lost except those whose
  append failed and those made upon one of them, which Yjs does not show without
  it; compaction deletes nothing that is not in a snapshot; the
  sequence numbers never meet a primary key in use; storage stays bounded.
  Hard because an append, a snapshot and a compaction are three calls, each of
  which may fail before or after it commits, and a crash may fall between any
  two of them.
- *Registry.* Everybody works on one live copy; `refCount` counts users; an
  idle document is unloaded, a used one is not; a load always answers. Hard
  because loads are shared, eviction awaits twice between looking at
  `refCount` and destroying the entry, and eviction passes may overlap.
- *Invites.* Only an invitee who accepted becomes a member, or whom the owner
  adds directly; a settled invite
  stays settled; the owner is told. Hard because status is read at the start
  and written unconditionally at the end, with other calls in between.
- *Gateway.* References, presence, listeners and viewer lists follow the
  sockets, also those that go away in the middle of connecting.
- *Tool instances.* Only owners and members get in, only owners change things;
  members are told; the document row stays while its instance does and goes with
  it, unless a load writes it again afterwards; accesses are counted.
- *Schema design.* What `validate` accepts `compile` compiles; nothing dangles;
  replicas agree although maps iterate in different orders.
- *Authentication and users.* A link makes the user it was asked for, and logs
  in as often as verifications of it overlap; a logout ends what was held before
  it, but for remembered sessions that are refreshed later, and nothing else.
  Hard because the token is selected and marked by two statements, users are looked
  up and inserted by two more against two unique indexes, and the moments of
  logouts are compared with seconds.
- *Chat.* A client who listens and pages back has everything that was said,
  in an order that makes sense. Hard because a message is stored and sent on
  at two moments with a query in between, pages shift while messages come in,
  and a socket is in the room later than it thinks.

The hazards, each at its line with the properties that watch it, are in
`PROJECT.json` under `hazards`.

## 2 Modules and the code they model

    ToolPersistence          rows of one document, statements as operators
      ActiveDocument         one entry: live document + promise chain, as operators
        UpdateChain          one entry, failing calls, crashes        -- refines DurableDoc
        DocumentRegistry     several entries, loads, eviction, deletion
                                                 -- refines DurableDoc, unless raced
        ActiveDocument_proofs  lemmas on statements and chain, used by
          UpdateChain_proofs, DocumentRegistry_proofs
    Collaboration            sockets, room, awareness             -- refines SharedRoom, while calm
    Invites   ToolInstances   Login   Chat
    SchemaDesign             one document, what validate and compile make of it

`MC<Module>` instantiates a module for TLC; `<Module>_proofs` has its inductive
invariant and its theorems. The theorems of `SchemaDesign` are the last part of
`ToolInstances_proofs`: it is the tool that the instances are instances of, and
the names of its specification (`DesignInit`, `DesignNext`, `DesignSpec`) are its
own, so that one module can extend both. No module uses a `RECURSIVE` operator, so that any
of them can be proved about.

**ToolPersistence** has no state of its own. A Yjs document is the *set of
updates* it holds: applying an update is idempotent and commutative. What it
*shows* is less: an update is kept aside while one it was made upon (`Needs`: the
earlier ones of its client, and what that client had seen) is missing. So a load
holds the snapshot and every row of the log (`LoadedContent`), and shows
`Shown` of it; an update needs its whole `History` to be seen. A snapshot is the
whole document, what waits included (`encodeStateAsUpdate` writes that too). The document id is fixed. Keys and foreign keys of the tables are the
guards `CanInsert...`; the two SELECTs of `loadDocument` are separate
operators, because nothing makes them one moment.

**ActiveDocument** is the `ActiveDocument` record of the registry plus what the
chain's closure keeps on its stack (`phase`, `writing`, `encoded`). An update
that has to wait raises no event; the one it waited for raises one for both, so
a task appends a *set* of updates (`News`). Its
operators are the code between two awaits. `encode` is a phase of its own: the
`await` in front of encoding lets further updates into the document, so a
snapshot at seq *n* may contain updates not yet appended. `seq` is advanced
when a task starts and never taken back. The clock (`maxIntervalMs`) is a
nondeterministic choice at the moment the policy asks.

**UpdateChain** pairs each of those with its statement. Each call has a
normal end, a failure without effect and, where that differs, a failure after
the commit (the answer is lost). `Crash` may come between any two steps and
keeps only `db`; there is no shutdown hook in `main.ts` that would flush, so a
SIGTERM is a crash as well. `unsaved` is a history variable: updates whose
append has failed since the last snapshot.

**DurableDoc** is what users may understand of all this, without seq, log or
snapshot: a document is open or not, users see `live`, a restart brings back
`durable`, which only grows and never holds what users did not see.
`UpdateChain` implements it under `open <- up`, `live <- Shown(entry.doc)`,
`durable <- Shown(Recoverable(db))` (one update can make several visible, so
`Edit` grows by any number); `DocumentRegistry` does, as long as nothing has
raced an eviction pass, under `open <- docs # None` and what the entry in `docs` shows: an eviction that removes it is to its users what a crash is.

**DocumentRegistry** has the two maps for one document, every entry still
referred to (`EntryId`), callers, eviction passes and the deletion. Every await
is a step boundary: in a load after each SELECT; in an eviction pass after the
flush, before encoding, after the insert and after the compaction. An eviction
pass awaits the tasks chained *when it starts to wait* (`behind`), as
`await entry.chain` does. `release` counts down whatever entry the map
has by then; the `finally` block destroys *its* entry and deletes the *key*.
Lost answers are left to `UpdateChain`; a failed call here has not committed.

**Invites**: one step per database call; a request is a record with its phase
and what it has read. `acceptInvite` and `acceptInviteById` differ only in the
lookup. Members are also made without an invite, by `addMember` (`AddMember`,
`InsertAdded`: the resolver `addToolInstanceMember`, or a transfer to somebody who
cannot access the instance), and removed; `added` and `removed` remember whom.
Requests whose first check fails change nothing and are not steps.

**Collaboration**: sockets with the phase of `handleConnection` they are in. A
socket may leave in any phase, and the connection goes on regardless
(`MaxLeaks` bounds how often). Of the registry it keeps only what the gateway
can see. Viewer lists are read at once and sent later, one query per user in
between.

**SharedRoom** is what the clients of one document may understand of the
gateway, without room, count, listener or lookup: they all work on the one
document that is resident, which is given up only when nobody works on it, and
each is shown to the others from when they say so until they leave.
`Collaboration` implements it, as long as no call fails and no entry is
destroyed in use (`Calm`), under `document <- docs`, `works <- holds` of the
ready sockets, `present <-` the states of the stored awareness. Sockets that go
away while they connect (finding 3) do not disturb it: what they cost is that
the document is never given up.

**ToolInstances**: a request is a record that goes from one database call to
the next; ownership, archive state, members and accesses are the tables. The
resolvers' checks (`isOwner`, `canAccess`) are steps of the request, since an
owner may change between them and the write. `create` is in `Init`: it runs
before anybody else knows of the instance. The document row is inserted by the
first load (`LoadCreates`), and again by any load after it was deleted, since
`acquire` is called for sockets that were let in before and does not look whether
the instance is still there; `placed` remembers whether the instance was there when
the row was last inserted.

**SchemaDesign**: the shared document is the state, clients write it freely
(missing, malformed, dangling entries included). `validate` and `compile` are
operators of the document and of the iteration order of each map; properties
quantify over all orders. The three sorts of `compile` are sets of pairs
(`TableFirst`, `KeyFirst`, `ReferenceFirst`), and `Sorted` puts at each place the
element with as many before it: what `Array.prototype.sort` returns, whatever its
algorithm, for the strict total orders that they are proved to be.

**Login**: `verifyLogin` goes step by step from one database call to the next
(select while pending, expiry, mark used, look the user up, insert, verify,
issue); a logout takes its moment first and writes it later. Time is counted
in ticks, `PerSecond` of which make a second, since the code compares seconds
(`iat`) with milliseconds (`lastLogoutAt`). What a user holds is a *session*,
the access and the refresh token of one moment (`at`), and since when they have
been signed in (`since`): `refreshToken` issues a session of now for one that is
remembered, without a look at the last logout, and `since` stays. `verifyToken`
takes either of the two tokens, so a session is accepted for as long as either
lives. Clients keep every one they ever got. `left` and `last` are history: the
moment from which the last logout of a user stays, whatever logouts are still on
their way, and the latest one written. Users are never deleted: `vacuumUnverified` has no caller.

**Chat**: `createMessage` is three moments (timestamp, insert, sender looked up
and sent on), of any number of overlapping calls. A client is a socket with its
user, followed from connecting over listing to leaving. `Pages` is *every*
answer `ORDER BY created_at DESC LIMIT OFFSET` may give: rows with one
timestamp are in no order.

## 3 Runs

"Violation" runs show that the code does not do what a comment or a test says
of it; see section 5.

| Run | Instance | Shows |
|---|---|---|
| `UpdateChain` | 4 updates, `KeepSnapshots` 2, `MaxUpdates` 2, 2 failed calls, 2 crashes, three updates of one client and one of another; 162 623 states | `PrimaryKeysFree`, `CompactionIsCovered`, `OnlyFailedAppendsAtRisk`, `StorageBounded`, `PendingIsExact`, the refinement `DurableSpec`, and the liveness `UpdatesSettle` |
| `DocumentRegistry_safety` | 3 updates, 2 entries, 2 callers, 1 pass, `KeepSnapshots` 2, 2 failed calls, two updates of one client; 181 306 states | `OneLiveDocument`, `RefCountIsExact`, `NothingLost` as long as no eviction was raced |
| `DocumentRegistry_liveness` | 1 update, 2 entries, 2 callers, 2 overlapping passes, a failed call, a deletion; races included; 441 278 states | `LoadSettles`, `IdleIsUnloaded` |
| `DocumentRegistry_covered` | 3 updates, no failures | violation of `CompactionIsCovered` |
| `Invites` | 2 users, 2 invites, 2 requests, a failed call; 1 989 877 states | `PendingBounded`, `AcceptanceIsWhole`, `MembershipIsBacked`, `SettledStays` |
| `Invites_declined` | 1 user, 2 invites, 2 requests, no failures | violation of `DeclinedIsUnusable` |
| `Collaboration` | 2 sockets, 3 entries, a failed call, a socket that leaves too early; 3 062 358 states | `RefCountIsAccounted`, `PresenceIsLive`, `BroadcasterAttached`, `RoomCleanedUp`, `ViewersSettle`, and the refinement `RoomUnlessDisturbed` |
| `Collaboration_idle` | same, no failures, with fairness | violation of `IdleUnloads` |
| `ToolInstances` | the creator and one more user, 2 requests, a failed call, accesses counted to 2; 5 365 044 states | `GrantIsHonest`, `RequestsAreWhole`, `AccessesCounted`, `ChangesAreEntitled` |
| `SchemaDesign` | 2 tables, 2 keys, 2 references, 1 composition, every written value, every iteration order; 345 600 states | `ValidMeansCompiled`, `ReplicasAgree` |
| `Login` | 2 e-mails, 1 username, 2 login tokens, 2 requests, 3 sessions, a failed call, two seconds of two ticks; 4 691 147 states | `UsedTokenHasUser`, `LoginsBounded`, `LogoutEndsSessions` |
| `Chat` | 3 messages, 1 client, pages of 1, a failed call, 3 moments; 1 372 448 states | `NothingMissed`, `AnsweredFirst` |

**Bounds and why they are enough.**

- *UpdateChain.* With `MaxUpdates = 2` two snapshots can happen in a row, with
  `KeepSnapshots = 2` the third snapshot (initial, and two made) is the first
  that makes the cutoff delete one; failures and restarts in between need four
  updates. Two failures allow a failed append *and* a failed or unanswered
  snapshot or compaction; two crashes allow a load of what an earlier load
  left half-compacted. Three updates of one client are the least with one whose
  predecessor was lost and one that comes after both; the fourth depends on none.
  The safety properties do not depend on these numbers:
  they are proved (section 4).
- *DocumentRegistry.* Two entries: the one in `docs` and one that something
  still refers to. Two callers share a load or race one another. Symmetry is
  used only in the runs without liveness. Clients may send again what they have
  sent before (`Resent`). The liveness run has two
  eviction passes, which the interval can start on top of one another; in the
  safety run a second pass on one entry would already be a race. `Undisturbed`
  is a state constraint of the safety run, since each of its properties has it as a
  premise and it never becomes true again once false; nothing a property
  speaks of is cut off. `MaxDeletes = 1` in the liveness run, since an id is
  deleted once.
- *Invites, ToolInstances.* Every hazard is a pair of overlapping requests, so
  two requests at once; they are reused, so that any sequence of requests is
  covered. Two users distinguish "one's own" from "another's".
- *Collaboration.* Two sockets for everything that passes from one to
  another; three entries since the stored awareness, the entry being evicted
  and the resident one can be different ones. One early leaver is enough to
  show what one costs.
- *SchemaDesign.* Duplicates, differences in case and dangling links need two
  of a kind; the values (`MCKeyValue`, `MCReferenceValue`) hold a well-formed
  one, each kind of broken one, and two that collide.
- *Login.* Two tokens may be for one e-mail, or for two that ask for one
  username; all that users share is the uniqueness of usernames, so one name is
  enough, and the second e-mail is the one that finds it taken. Two requests are
  two verifications of a token, two logouts, or one of each; `refreshToken` is
  not a request and can come between. `MaxSessions` bounds refreshing only: an
  issued session, and two renewals of it. The clock runs over two seconds, so that
  what is issued may be in the second of a logout (before or after it), in an
  earlier or in a later one; login and access tokens live for one second and
  expire within it, refresh tokens for two and do not.
- *Chat.* With pages of one row and three messages, a message that comes in
  between two pages shifts all that follow. One client is enough, since the
  properties speak of what each client gets and messages come from others too.

**State constraint, symmetry, deadlock.** Only interchangeable model values
are permuted (never `a`, the creator), and never with a liveness property.
`CHECK_DEADLOCK FALSE` is said for `UpdateChain` (when every update has been
made and no crash is left, the server has nothing to do), for `Invites` (when
the instance is deleted no request changes anything) and for `Login` (when the
clock has come to its bound and all tokens are expired, nobody can sign in).

**Fairness.** `WF` on the steps that the runtime takes by itself and nothing
else: the driver settles every call it is given (with an answer or an error);
the event loop runs a task that is ready; the interval (`:23`) keeps starting
eviction passes, each of which finds the idle time passed in the end. No client
is assumed to connect, write, release or leave, no crash or failure is assumed
to happen, and no strong fairness is used. Safety runs without a liveness
property use `Spec`.

## 4 Proofs

Every invariant and every action property that a passing run checks is a
theorem: it holds for any number of users, sockets, requests, messages, entries
and failures, where the run shows it for two or three. Each `<Module>_proofs` has the same shape. `IInv` is an inductive
invariant; one lemma per action, or per conjunct, shows that a step keeps it;
`Spec => []IInv` follows, and each property from that.

| Module | Theorem | Property | Says |
|---|---|---|---|
| `UpdateChain_proofs` | `Invariant` | | `Spec => []IInv` |
| | `TypeCorrectness` | `TypeOK` | types; `pendingUpdates` never goes below zero |
| | `PrimaryKeysStayFree` | `PrimaryKeysFree` | no insert of the chain meets a row with its key |
| | `CompactionCovered` | `CompactionIsCovered` | a snapshot holds every row that its seq covers |
| | `AtRisk` | `OnlyFailedAppendsAtRisk` | what users see a restart shows, unless it or what it was made upon is in the chain or had its append fail |
| | `PendingExact` | `PendingIsExact` | `pendingUpdates` counts the tasks chained or running |
| | `StorageStaysBounded` | `StorageBounded` | how many snapshots and rows there can be |
| | `ImplementsDurableDoc` | `DurableSpec` | the refinement |
| `DocumentRegistry_proofs` | `RegistryInvariant` | | `Spec => []IInv` |
| | `RegistryTypeCorrect` | `TypeOK` | types, in raced and deleted states too |
| | `OneLiveDocumentAlways` | `OneLiveDocument` | everybody who has the document has the one in `docs`, alive |
| | `RefCountExact` | `RefCountIsExact` | `refCount` counts its holders |
| | `NothingIsLost` | `NothingLost` | what users have seen the next load shows, with the same exception |
| | `CoveredUnlessRaced` | | without a raced eviction snapshots cover the log: the race of finding 1 is the only way to break it |
| | `DurableStepByStep` | | every step that leaves the registry undisturbed is one of `DurableDoc` or not seen |
| | `RegistryImplementsDurableDoc` | | a registry that nothing ever races implements `DurableDoc` |
| `Login_proofs` | `LoginInvariant` | | `Spec => []IInv` |
| | `LoginTypeCorrect` | `TypeOK` | types, unique usernames, no session of the future |
| | `LoginsAreBounded` | `LoginsBounded` | at most as many logins as verifications overlapped |
| | `UsedTokensHaveUsers` | `UsedTokenHasUser` | what a used token has brought about |
| | `LogoutsEndSessions` | `LogoutEndsSessions` | what a logout ends and what gets past it |
| `Invites_proofs` | `InvitesInvariant` | | `Spec => []IInv` |
| | `InvitesTypeCorrect` | `TypeOK` | types |
| | `PendingIsBounded` | `PendingBounded` | duplicates only as many as requests |
| | `AcceptancesAreWhole` | `AcceptanceIsWhole` | accepted means member and owner told |
| | `MembershipsAreBacked` | `MembershipIsBacked` | no member but by `addMember` or an accepted invite of their own |
| | `SettledInvitesStay` | `SettledStays` | an action property: settled is final unless overlapped |
| `ToolInstances_proofs` | `InstancesInvariant` | | `Spec => []IInv` |
| | `InstancesTypeCorrect` | `TypeOK` | types |
| | `GrantsAreHonest` | `GrantIsHonest` | who is let in was entitled during the request |
| | `NobodyIsLeftUntold` | `RequestsAreWhole` | all are told; the document row stays with its instance, and outlives it only by a later load |
| | `AccessesAreCounted` | `AccessesCounted` | access counts |
| | `ChangesStayEntitled` | `ChangesAreEntitled` | an action property: who may change what |
| | `DesignTypeCorrect` | | `SchemaDesign`: the type of the document |
| | `DesignReplicasAgree` | `ReplicasAgree` | iteration orders do not matter, ties of keys aside |
| | `DesignValidMeansCompiled` | `ValidMeansCompiled` | what `validate` accepts `compile` finds |
| `Chat_proofs` | `ChatInvariant` | | `Spec => []IInv` |
| | `ChatTypeCorrect` | `TypeOK` | types |
| | `AnsweredComesFirst` | `AnsweredFirst` | answered first, received first |
| | `PagingMissesNothing` | `NothingMissed` | room and pages together bring everything |
| `Collaboration_proofs` | `CollaborationInvariant` | | `Spec => []IInv` |
| | `CollaborationTypeCorrect` | `TypeOK` | types |
| | `RefCountsAccounted` | `RefCountIsAccounted` | acquire and release balance, but for early leavers |
| | `OnlyTheLiveAreShown` | `PresenceIsLive` | presence of nobody who has left |
| | `AwarenessIsBroadcast` | `BroadcasterAttached` | a listener while somebody works |
| | `EmptyRoomIsClean` | `RoomCleanedUp` | what the last one to leave leaves |
| | `ViewersAreRight` | `ViewersSettle` | the list shown is the room |
| | `RoomStepByStep` | `RoomUnlessDisturbed` | every step that leaves things calm is one of `SharedRoom` or not seen |
| | `GatewayImplementsSharedRoom` | | a gateway that stays calm implements `SharedRoom` |

**Assumptions.** Only the named ones of the modules, which TLC evaluates in
each run: bounds are naturals (`KeepSnapshots`, `MaxUpdates`, `Limit`,
`PerSecond` and the lives of tokens positive), `None` is no member of a set it is
added to, and what is counted is finite: the requests in flight (`Invites`,
`Login`), callers, sockets, and the tables, keys and references of a document
(a Y.Map is finite). Ids and names of a document are naturals because
`localeCompare` orders them; what a table is called has a lower-case form.
`PerSecond <= MaxClock` says that the clock of `Login` starts below its bound.
Sets of updates, messages, users, tokens, invites and entries may be infinite.

**Why an inductive invariant.** None of the properties is inductive by itself:
each speaks of what is stored or counted *after* a step, which depends on what
the code between two awaits remembers of the state *before* it. What the
invariants add is mostly that memory:

- *UpdateChain* and *DocumentRegistry* share `Chained` (`ActiveDocument_proofs`):
  how rows and the entry that writes them belong together. `StoreInv` (a snapshot
  is determined by its seq, there is a latest one, snapshots cover the log),
  `SeqInv` (no row is past `entry.seq`, and the seq a running task has taken
  is free until it uses it), `ContentInv` (what a task has encoded holds
  everything stored, and everything users see but what is chained behind it),
  `TaskInv`, `Counted`. Three lemmas carry it: an append adds one update to
  `Recoverable`, the document a load would return (`AppendRecoverable`); a
  snapshot past every other makes it the snapshot with the log after it
  (`InsertRecoverable`); a compaction changes nothing (`CompactRecoverable`,
  since the latest snapshot is among those kept). What is *shown* follows from
  what is held: more held is more shown (`ShownGrows`), an update is shown with
  its whole history (`ShownClosed`), and if all of the history is held or at risk,
  the update is shown or something of it is at risk (`ShownUnless`).
- `StorageBounded` needs `StorageInv`: rows have different seqs, the rows up to
  `lastSnapshotSeq` are left over from crashes and failures, and a task that
  ends without a snapshot leaves fewer than `maxUpdates` others. How many
  snapshots a compaction keeps, and that deleting up to a seq leaves no more rows
  than there are seqs after it, are `KeptSnapshots`, `RowsBetween`,
  `RowsCounted`.
- *DocumentRegistry*: `TypeInv` holds always, `Quiet` while nothing has raced an
  eviction: `Shared` (callers, `docs`, `refCount`), `OneWriter` (only the entry in
  `docs` has tasks), `Pass` (an eviction pass has that entry alone, and awaits all of
  its tasks), `LoadInv` (what a load has read is what the rows still say), `Kept`
  (what users have seen is held, in the chain, or its append failed), `Seen` (they
  have seen it with its history).
  The refinement follows from `Quiet` alone, one lemma for each kind of step: a
  load that is through opens the document, an update edits it, the chain and a
  pass's final snapshot save it, and whatever removes the entry leaves
  `Recoverable` as it was. `DurableUnlessRaced` is no property of a run; it
  is only proved.
- *Login*: `Requests` (what a verification has in hand), `Hands` (logins plus
  verifications in hand never exceed the most there were at once), `Verifying`,
  `Creating` (an unverified or missing user has a request that is about to see to
  it), `Leaving` (what is written as the last logout, or on its way, lies between
  `left` and `last`), `Renewed` (only what is remembered is renewed). `LaterSecond` relates ticks to seconds.
- *Invites*: `Held` (an invite in hand has its row and, unless overlapped, its
  status), `Alone`, `Joined` (the membership comes before the acceptance),
  `Whole`, `Backed` (an invite behind each member but those added), `Bounded`.
- *ToolInstances*: `Shapes` (which steps a request goes through), `Entitled`
  (what has been passed has been seen), `Listed`, `Told`, `Documented` (who is to
  be told has a request that will; a row inserted with its instance stays with it,
  or has a delete about to take it), `Recordings`.
- *Chat*: `Ahead` (what a client misses lies in the pages it has not read: at
  least `skip` rows are newer). `PageBrings` is the counting argument, for any
  order the database gives to rows of one timestamp.
- *SchemaDesign* needs no more than the type of the document; the work is in the
  operators. `EveryRank`: in a strict total order of a finite set the number of
  elements before one is one to one, so it takes each value below the
  cardinality. `SortedSorts` follows (every element once, in order), and that
  every statement is of some object (`CompiledFrom`). `IterationOrders` shows that
  an iteration order is total, `TablesOrdered`, `KeysOrdered` and
  `ReferencesOrdered` that the sorts are. `DuplicatesByName`: which of two tables
  is the duplicate depends on the order, whether one is does not
  (`ValidInAnyOrder`); then no two tables tie (`TablesDoNotTie`).
- *Collaboration*: `Phases` (phase, room and connection agree), `Presence`,
  `Counted` (also while no entry is there: then nothing was leaked), `Attached`
  (the remembered listener is of the resident entry, and stays as long as
  somebody works on it or was leaked), `Cleaned`, `Viewed` (the one list on its
  way, or else the one shown last, is the room). `ListsSent` shows that two
  lists on their way are always noted as crossed. The refinement adds `Unstored`
  (with the document gone, while calm, no awareness of it is stored), and has one
  lemma for each kind of step: a lookup enters, a load opens, a disconnect
  leaves, an awareness state announces, the end of an eviction closes. The last
  one needs the exact count: an eviction pass that found `refCount` at zero
  when it started, and that nobody has touched, takes the entry from nobody.

TLC evaluated the `IInv` of `ToolInstances`, `Chat` and `Collaboration` on
their runs before they were proved.

**Only model-checked.**

- Liveness: `UpdatesSettle`, `LoadSettles`, `IdleIsUnloaded`. The prover does
  not reason about fairness or `ENABLED`.
- The properties of the violation runs, which are false.

## 5 Findings

Each is a run with a counterexample.

1. *Eviction and the old entry against the new one* (`DocumentRegistry_covered`).
   `evictIdleDocs` reads `refCount` once (`document-registry.service.ts:166`),
   awaits the chain and then the final snapshot, and removes the entry in
   `finally` without looking again. A user who acquires it in between has their
   updates queued in an entry that is destroyed; those made after `destroy()`
   are not persisted at all. What the old entry's chain still writes meets the
   load of a new one: the two SELECTs of `loadDocument` can enclose a
   compaction (old snapshot, compacted log, missing updates), and later
   snapshots then cover rows they do not contain, against the comment at
   `toolpersistence/toolpersistence.service.ts:110`.
2. *A declined invite accepted* (`Invites_declined`). The acceptance that read
   the invite as pending sets `accepted` unconditionally
   (`invites/invites.service.ts:234`).
3. *A document acquired for nobody* (`Collaboration_idle`). If the socket goes
   away while `handleConnection` awaits, `handleDisconnect` runs first and has
   nothing to release (`collaboration/yjs-socketio-gateway.ts:164`); the acquire
   that follows is never released and the document stays resident.

**Behaviours the models contain** that no run reports, because the
properties state exactly when they apply:

- `lastSnapshotSeq` of a loaded entry is the seq of the last *row*, so the
  snapshot policy counts anew after each restart and the log may stay longer
  than `maxUpdates`: by as much again for each restart, and by one for each
  failed call, which is exactly what `StorageBounded` allows.
- The check for a pending invite and the insert overlap: as many duplicates as
  requests in flight (`PendingBounded`).
- Any error of the member insert is taken for "already a member", so a failed
  call leaves an accepted invite without a member (`AcceptanceIsWhole`).
- A failed append costs more than its own update: the rows of the same client's
  later ones are there, but after a reload Yjs keeps them aside, until a snapshot
  of the resident document is written (`OnlyFailedAppendsAtRisk`, `NothingLost`).
- A load of a document that was deleted with its instance inserts the row
  again: `acquire` is called for sockets and requests let in earlier and does not
  look at the instance (`RequestsAreWhole`). No later request reaches that row to
  delete it. What an entry or an eviction pass still writes the foreign key stops.
- The owner adds members without an invite, by `addToolInstanceMember` or by
  handing the instance over (`MembershipIsBacked`).
- `handleDisconnect` releases although the connection's acquire may have
  failed: the count is one too low after a failure (`RefCountIsAccounted`).
- Viewer lists that are on their way at once may arrive in either order
  (`ViewersSettle`).
- If deleting the instance succeeds and deleting the document fails, no later
  request reaches the document row (`RequestsAreWhole`).
- Overlapping `recordAccess` calls of one user lose an increment
  (`AccessesCounted`).
- Two keys of one table with one name keep the iteration order of the map,
  although the comment at `tools/implementations/schema-design/tool.ts:173`
  promises a deterministic order; `ReplicasAgree` excepts them.
- A session issued in the second of a logout, but after it, is refused. A
  remembered session gets past a logout: `refreshToken` does not look at
  `lastLogoutAt` and issues a new one (the browser that asked loses its cookies,
  others do not). `verifyToken` does not look at `isRefresh`, so a refresh token
  passes as an access token for its seven days. Overlapping logouts may write the
  earlier moment last; what was issued between the two holds again
  (`LogoutEndsSessions`).
- Overlapping verifications of one link each log in (`LoginsBounded`); a
  username that was taken since, or a failed call, uses the link up for nothing
  (`UsedTokenHasUser`). `../test/integrations/auth-flow.spec.ts:44` asks for a
  link for an unknown e-mail without a username, which the code refuses.
- A message whose sender cannot be looked up is stored and answered with an
  error, and nobody is sent it; messages of one millisecond may be passed over
  by two pages; overlapping messages are sent on in either order
  (`NothingMissed`, `AnsweredFirst`). Access is checked when a socket connects
  and not again: a member who is removed goes on sending and receiving until
  the socket closes.
- The flush of awareness excludes the sender that started the timer, not the
  last one (gateway `:97`); a member row of an owner by transfer is counted
  twice by `getMemberCount` (`toolinstance/toolinstance.service.ts:59`). No property
  speaks of these two.

## 6 What is not modelled

- *Authentication, users*: clean-up of unverified users (nothing calls it), the
  queries of one's own profile, avatars. The text of mails and of tokens.
- *Chat*: content and type of a message; the `sender` sent along has its id from
  `user.userId` (`chat/chat.service.ts:54`), a field that rows of `users` do
  not have, which no property here is about.
- *Notifications and e-mail*: single inserts and sends; what others rely on is
  part of `Invites` and `ToolInstances`.
- *GraphQL resolvers, guards*: those whose checks precede a change are part of
  `ToolInstances`, `Login` or `Chat`; the others shape answers.
- *Tool registry, shell, avatars, legacy gateway*: constant, wiring,
  formatting, superseded.
- *Database*: keys, foreign keys with cascade and the atomicity of a statement
  or transaction are assumed of PostgreSQL. Entries marked `external` in the
  map are the parts of Yjs and Socket.IO that the code relies on.
- *Inside the modelled parts*: the Yjs sync protocol and the content of
  documents, awareness time-outs, the text of SQL statements and of messages,
  pagination, renaming, wall-clock time (always a choice).

## 7 Plan

Done, in this order: ToolPersistence, ActiveDocument, UpdateChain with its
refinement, DocumentRegistry, Invites, Collaboration, ToolInstances,
SchemaDesign, Login, Chat; proofs for UpdateChain, DocumentRegistry, Login,
Invites, ToolInstances, Chat, Collaboration, SchemaDesign; SharedRoom and its
refinement.

What could come next: *the room with failures* (which of `SharedRoom` survives a
load that fails or a deletion under its users), and *invites with ToolInstances*,
which share the members table and are checked one at a time here.

## 8 Running it

In this directory: `tlasany M.tla` parses a module,
`tlc -workers 2 -config X.cfg MCM.tla` checks a run of the table (each takes
a few minutes at most), `tlapm M_proofs.tla` checks the proofs of a module
(`ActiveDocument_proofs`, `UpdateChain_proofs`, `DocumentRegistry_proofs`,
`Login_proofs`, `Invites_proofs`, `ToolInstances_proofs`, `Chat_proofs`,
`Collaboration_proofs`; up to a few minutes each).
