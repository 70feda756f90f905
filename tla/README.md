# Verification of nest-realtime-example

TLA+ specifications of the API in `apps/api`: how it starts, what it keeps in
memory and in Redis, how its instances talk to each other, and what a user sees
across reconnects, crashes and revocations; and of the dashboard in `apps/web`:
what a tab shows while its fetches overlap, fail and overtake each other. TLC
checks each specification on small instances; TLAPS proves every invariant, the
action property and the refinement for every size.
`PROJECT.json` maps every definition to the lines it translates and lists the
runs, the mutants that show each property can fail, the hazards and the
findings.

Run anything from this directory: `tlc -config MCPresence.cfg MCPresence.tla`,
`tlapm PresenceProofs.tla`.

## 1. The system

A NestJS API offers Server-Sent Events and WebSockets through a packed
dependency, `@bymax-one/nest-realtime` (`vendor/`), which owns the connection
registry, the eviction of a user's oldest connections, rooms, a replay ring and a
reauthentication cycle. The repository's own code supplies everything that
library asks for, and everything built on top. Several instances run behind
nginx, which pins a browser to one of them; they share one Redis.

| Component | State | Operations | Interacts with |
|---|---|---|---|
| Presence storage, tracker (`realtime/redis-presence-storage.ts`, `presence/`) | Redis sets `presence:user:{u}`, `presence:online`, `presence:tenant:{t}`, `presence:instance:{i}`, the key `presence:user:{u}:tenant` | add, remove, clear indexes, reclaim at boot; announce arrival and departure | called by the lifecycle hooks; read by the kill switch and the roster |
| Pub/sub driver, counters, health (`realtime/redis-realtime-pubsub.ts`, `counting-pubsub.ts`, `connections/cluster-stats*`, `health/`) | subscriber connection, handlers, `busAvailable`, two counters | publish, subscribe, message, close | Redis channel between the instances |
| Emit, domain flows, kill switch (`emit/`, `domain/`, `connections/`) | requests in flight | emit to a user, a tenant, a room, everyone; disconnect a stream anywhere | the driver, the registry, the presence index |
| Replay and offline labs (`replay/`, `realtime/redis-offline-queue.ts`) | the record of a burst, a sorted set per user in Redis, the library's ring | burst, drop, timeline; append, retrieve, acknowledge, trim, expire | the handshake of every stream |
| Sessions and authenticators (`auth/`) | signed cookie and bearer (nothing on the server), ticket key and revocation marker in Redis | login, logout, issue and consume a ticket, mint a bearer, revoke, restore, authenticate, revalidate | every handshake and every reauthentication cycle |
| Rooms, chat (`rooms/`, `chat/`, `lifecycle/room-membership.tracker.ts`) | a mirror of room membership, a sliding window per socket | join, leave, post | the library's rooms |
| Lifecycle hooks, audit, timeline, decorators (`lifecycle/`, `audit/`) | an audit ring, an eviction timeline, two counters | written by each hook, before and after it awaits presence | registry events |
| Wiring (`config/`, `realtime/*factory.ts`, `main.ts`) | the frozen configuration, the drivers, the options the library resolved | hint, parse, group, build drivers and options, listen; introspect | gives all of the above their limits; the operator |
| Web client, state (`apps/web/src/lib`, `app/*`) | the cookie, the session context, the state of the mounted page, fetches in flight | mount, effects on inputs and events, clicks, answers | the endpoints above, in the order the network likes |
| Web client, streams (`app/providers.tsx`, `components/realtime`) | the tab's `EventSource`, a lab's own stream or socket | connect, retry, reconnect by hand, mount and unmount | the handshakes above |

What makes it hard:

- **Concurrency without locks.** Every handler is a chain of awaits. Between two
  of them any other handler of the instance, and anything on the other
  instances, may run. Redis commands of one client run in order; those of two do
  not.
- **Failure.** A killed process leaves its Redis keys behind; a `MULTI` may be
  discarded and is reissued command by command; a command may reject and is
  swallowed; the subscriber connection drops and what was on it is gone.
- **Ordering.** Local delivery precedes the bus; a departure is announced after
  the write that decided it; a drain meets live events; cycles overlap.
- **The browser.** An answer arrives after the user has gone elsewhere, changed
  the filter or become someone else; most reads are not numbered.
- **Time.** Tickets, markers, cookies, cached answers and rate windows expire
  independently.

Properties that make each component correct are listed with its module below;
the hazards behind them, each at its line, are in `PROJECT.json`.

## 2. The modules

| Module | Models | Uses |
|---|---|---|
| `Presence` | the Redis sets and the hooks' tasks, crash, boot, reclaim | |
| `PresenceLedger` | what presence promises: an arrival is owed by exactly the connection that filled an empty set, and told once | |
| `PresenceProofs` | theorems about `Presence` | `Presence`, TLAPS |
| `Fanout` | requests, the channel, counters, health, kill switch | |
| `FanoutProofs` | theorems about `Fanout`: types, tenants and owners; order, delivery and kills | `Fanout`, TLAPS |
| `Recovery` | ring, offline queue, handshake with a cursor, lab requests | `Subsequences` |
| `RecoveryProofs` | theorems about `Recovery` | `Recovery`, `SequenceFacts` |
| `Sessions` | credentials, tickets, revocation, reauthentication cycles | |
| `SessionsProofs` | theorems about `Sessions` | `Sessions`, `SequenceFacts` |
| `Rooms` | handshakes, evictions, hooks, membership, rate limit, trails | `Subsequences` |
| `RoomsProofs` | theorems about `Rooms` | `Rooms`, `SequenceFacts`, TLAPS |
| `Subsequences` | `Array.prototype.filter` as a recursive function | |
| `SequenceFacts` | theorems about filters, prefixes and removals of any sequence | `Subsequences`, TLAPS |
| `Boot` | environment, schema, drivers, options, start, introspection | |
| `BootProofs` | theorems about `Boot` | `Boot`, TLAPS |
| `Web` | the API's answers, fetches, the session, the streams of a tab | |
| `WebPages` | the pages over them, the system of one tab | `Web` |
| `WebPagesProofs` | theorems about `WebPages` | `WebPages`, TLAPS |
| `MC*` | the constants of the TLC runs of each | the module |

They compose through the interface each shows the others: `Fanout` follows the
presence sets with a lag (`present`), `Presence` and `Rooms` have the registry's
register, evict and close, and `Recovery` starts where an instance's emit hands
an event to the ring and the queue. `Boot` decides the limits and drivers that
the others take as constants. `Web` puts the guards, schemas and refusals of the
controllers in front of `WebPages`: what an endpoint may answer depends only on
who asks for what, and which of its answers it is depends on the state the other
modules have, so the page must cope with any.

### Presence

One task per hook and connection: `cpc[c]` for `onConnect`, `rpc[p]` for a
removal, run either by a connection's `onDisconnect` (`p` a connection) or by an
instance's reclaim (`p` an instance). A program counter names the next Redis
command, so an action is one round-trip: `AddConnection` is the `MULTI` of
`addConnection`; `DiscardAdd` and `RecordConnection` are its discarded form,
reissued one by one; `RemoveConnection`, `ReadTenant`, `ClearIndexes` are
`removeConnection` and `clearUserIndexes`; `Boot`, `ReclaimNext`, `ReclaimDone`
are the bootstrap. `Register`, `RegisterEvicting`, `FireConnect` and `Close` are
the library's registry, whose SSE evictions await the victim's hooks and whose
WebSocket ones do not. `AbortConnect` and `AbortRemoval` are `tolerate()`: a
rejected command ends the hook.

Properties: the user sets and the ownership keys mirror each other
(`OwnershipMirror`); a stream stays in its set while open (`LiveIsPresent`); an
entry without a stream has its removal ahead of it (`NoPhantom`); the indexes
agree with the sets for users nobody raced (`IndexesExact`, whose exceptions the
variable `disturbed` records exactly); arrivals are announced by who filled the
set (`ArrivalAnnounced`); the whole implements `PresenceLedger`; and closed
streams leave for good (`ClosedLeaves`, liveness).

### Fanout

A request delivers to its own instance's streams, then publishes; a kill reads
the presence index first when the stream is not here. `wire` is the client's
pipeline, `channel` what Redis copied to each subscriber connection. `Ready`,
`Subscribed`, `SubscribeFails`, `LinkDrops`, `PublishFails` are the driver's
event handlers and error paths, `Close` and `Quit` the shutdown.

Properties: no event twice and a sequence in order (`OnceInOrder`); the same
order of one origin everywhere (`SameOrderEverywhere`); nobody missed while
nothing fails (`EveryoneHears`); exact counters, the derived `deliveredLocal`
included (`CountersExact`); tenants kept
apart (`TenantWall`); a stream closed only for its owner (`OwnKillsOnly`), and
really closed (`KillTakes`); every request answered (`Answered`, liveness).

### Recovery

Everything is per user, so the module is about one user and one instance. An
event is its id; `data` is what it carries, the burst's type and number. `EmitToUser` writes the ring, the live streams and, for an
absent user, the queue. A handshake reads the ring, waits for the queue, and only
then registers, so `stage` has `reading` and `fetched`. `Redis` runs the oldest
command of the pipeline; `acknowledge` has two commands, and `Purge` is the second.
`readQueue` and `Acknowledge` are the offline lab's peek, oldest `PEEK_LIMIT`
members first, and its acknowledgement of any watermark. `receivedSeqsFrom`,
`tagReplayRanges` and `tagRows` are the replay page's comparison of the timeline
with what the tab received. `forgone` records each event the code gives up for a tab, at the place where
it does, which lets `NothingElseLost` say that there is no other place.

Properties: ring, drain and live events join into one ordered stream
(`OneStream`); nothing else is lost (`NothingElseLost`); the record of an
undisturbed burst is 1..n and its retained part is what the ring holds
(`TimelineHonest`); what was drained is being purged (`DrainedIsPurged`).

### Sessions

A signed token is its owner and its expiry. `ByBearer`, `ByTicket`, `ByCookie`
are `CompositeAuthenticator.authenticate`, where one credential decides;
`consume` is `GETDEL`. `CycleStart`, `Ask`, `AskFails`, `Passed`, `Failed` are
one reauthentication cycle, which does not wait for the one before it, with its
cache of positive answers.

Properties: a ticket admits one connection (`TicketOnce`); the marker outlives
everything issued before it (`MarkerOutlives`); a cycle that starts while a user
is revoked, and after any cached answer has aged, leaves none of the user's SSE
streams behind (`CaughtNextCycle`); a restored user's new streams are safe from
old cycles (`RestoredStays`).

### Rooms

Connections of either transport on one instance. `GoOn` is a registration from
one awaited eviction to the next. Only presence awaits Redis: the library's
room registry and Socket.IO's in-memory adapter resolve within the turn, so
joining, leaving and posting are one step each, while `hooks` holds the calls
that wait for presence before the decorators run (`Dispatch`), which are those
`collectHandlers` found in the providers. A connection ends with a reason
(`HangUp`): the client's, or the buffer's for a message that is too large. The library
registers a WebSocket that closed during its handshake; the model keeps that
(`Register`), and `TrackerMirrors` and `TimelineTrue` exempt such sockets
explicitly.

Properties: the mirror agrees with the library's rooms (`TrackerMirrors`); the
rate is exact, from above and from below (`RateExact`); the timeline has one
entry per connection, and an entry is open exactly while its connection is
registered (`TimelineTrue`; which of the ended ones the page calls evicted is in
section 5); the decorator counters balance (`CountersBalance`); a message reaches a
room only from a member (`OnlyMembers`).

### Boot

One process at a time, from `Define` (the module definition, with the synchronous
read of `REALTIME_TRANSPORT`) over `loadEnv`, `useFactory` and `bootstrap` to
`Handshake`, the first stream. A setting is the set of its value, empty when
unset. `Deploy` changes one variable; `Repair` unsets what a failed start named.

Properties: a start that failed named everything there is to repair: with those
variables unset the next one comes up (`FailsSpeaking`); whoever listens has both
transports in the cluster or none, and the health probe, the introspection
snapshot and the page that renders it agree on which (`OneCluster`).

### Web and WebPages

`calls` is the bag of fetches in flight, each with the cookie of its moment. An
answer is any status the API may give, or none (0), at any time. `page` is the
mounted page: `shown`, `side` and `wiring` are the last bodies its reads wrote, as
whose they were read, for which input and under which number. `Render` is React's
commit: it runs exactly the effects whose dependencies changed (`Times`), so that
a new session, a new filter and a stream's event each cause the reads they cause
in the code. `Mount` forgets the page before; a login or a read of the session
outlives it (`Survivors`). A login joins `router.push('/')` and the end of the
navigation it starts in one step (`MeAnswered`, `login/page.tsx:38-41`): that the page
left may stay on the screen for a moment under the new session is not seen, and
`NobodyElsesData` rests on it. `Opens`, `Breaks`, `Retries` are the provider's stream
and the stream of a lab's panel. `RoomsServes` lets a join or a leave take effect
at the API at any time before its answer. `Statuses` is what the API may answer a
call: each controller's guard, then its pipe, then success, so that a control is
refused in the model for the reasons it is refused in the code.

Properties: a superseded roster never stays (`RosterNewest`); the session context
is the cookie's unless two session calls overlapped (`TraitsTrue`); nothing on
the screen was read as another user (`NobodyElsesData`); a filtered list is of its
filter unless two reads overlapped (`ListMatches`); a joined room is a room the
socket is in (`ChatHonest`).

`OnlyUncheckedRefused`, an action property, is about every call a page sends, by an
effect or a control. While the session context is right, a 400 can only be the
answer to a field sent as it was typed (`Unchecked`): the replay lab's count
(`replay/page.tsx:89-93`), the offline lab's target when it is empty, the chat's
incident when it is no token. A 403 can only be the answer to what the pages send
whoever asks (`LeftToGuard`): the reads of the connections, reauth and replay pages,
the kick of a row, an emit to another tenant or to a "scoped" room. So the forms that
do check, of the emit console, the offline lab's burst and the reauth lab, are no
weaker than the schemas, and whatever is reserved to admins by the page is sent by
nobody else, even for a queue read or a click made before. TLC finds the property
violated when any one of the exceptions is left out. Whether the connection of a join
is the caller's own is judged when the API serves it, so that refusal is not one of
these.

`unsure` and `doubt` record where the unnumbered reads give a guarantee up;
section 5 tells what is seen then.

## 3. The runs

| Run | Size | Question | Bounds |
|---|---|---|---|
| `presence_cluster` | 568k states | do the sets, keys and indexes agree, and refine the ledger | 3 SSE streams of a user on 2 instances, limit 1, one kill |
| `presence_faults` | 283k | what survives a kill, a discarded `MULTI` and a rejected command; do closed streams leave | 2 WebSockets on 1 instance, one of each fault, fairness |
| `presence_live_user_listed` | violated | is a user with an open stream on the roster | 2 streams, no fault |
| `fanout_cluster` | 401k | who hears what, in which order; are requests answered | 2 instances, 2 streams, a user-scoped emit and a broadcast, one outage, fairness |
| `fanout_wall` | 2.1M | sequences, refused emits, racing kills | 2 instances, a 2-event sequence, a foreign emit, 3 kills |
| `fanout_healthy_hears` | violated | does "healthy" mean the bus is heard | as `fanout_cluster` |
| `recovery_lab` | 2.6M | does a reconnecting tab get all it can | 1 tab, 2 connects, ring 2, queue 2, drain 1, peek 2, 5 requests, one restart or expiry |
| `recovery_gap_is_lost` | violated | is an event the page tags "gap" lost | a burst of 2 beside a timeline request |
| `sessions_revocation` | 6.0M | who gets in, who is closed, by when | 1 user, 2 connections, 1 ticket, 3 ticks, cache 2 intervals, 2 orders, 1 error, symmetry |
| `rooms_chat` | 1.2M | mirrors, limiter, trails | 3 connections, limit 1, ring 1, log 2, symmetry |
| `web_pages` | 900k | does the tab show what was asked last, as who is signed in | a member and an admin of two tenants, 14 pages, 3 kinds of emit card, 2 controls in flight, 1 login, 1 broken stream |
| `boot` | 109k | does a failed start say what to repair; is the wiring all of one kind | 22 variables with values in, at and past their limits, 3 deploys |

Why these bounds are enough to be interesting: the races of presence need a
second connection of the same user, the eviction race a third; reclaim needs a
second instance to be a different one from the writer's. The trims, drains and
rings are smaller than what is emitted, so each overflows. A cache of two
intervals makes an old answer survive a cycle, so overlapping cycles matter. The
log of two and ring of one are below the number of connections. A tab needs two
reads of one page in flight for one to overtake the other, two users for one to
see what the other read, and one login to change between them; links go by way of
the home page, which reads nothing, because what mounting a page does owes nothing
to the page left (`Navigate`), and a page is followed while the feed says what it
listens to and four fetches at most are in flight (`Followed`). Three deploys reach
every start whose transport, driver and one more variable differ from the
defaults. Every property of
every passing run has a mutant of the code, listed in `PROJECT.json`, which TLC
finds violating it under that run's own bounds.

`CHECK_DEADLOCK FALSE` stands in every configuration but `MCBoot.cfg`: ids,
requests, logins and clock are bounded, so each system runs out of things to do.
A start always ends and can always be restarted, so there deadlock is checked. Waiting on each other is
covered by `Answered` and `ClosedLeaves`.

Symmetry is used only where the properties are invariants (`rooms_chat`,
`sessions_revocation`) and, in `presence_cluster`, for the two connections pinned
to the same instance, with a refinement that is a safety property.

**Fairness.** `presence_faults` assumes that the event loop runs each task whose
reply arrived (weak fairness of the tasks) and that a killed container is
restarted (`Boot`; compose restarts it). Clients owe nothing: nobody has to
connect or to leave. `fanout_cluster` assumes only that a request that has
started is run on, and that Redis answers or rejects a command on the
connection of the request.

## 4. What is proved

Each theorem holds for every value of the constants that satisfies the
`ConstantsAssumption` of its module, and for any number of faults, requests and
instances; no theorem but one assumes more. Each invariant below was first checked
by TLC as an invariant of the module's runs.

| Theorem | Property | Module |
|---|---|---|
| `TypeCorrect` | `TypeOK` | `PresenceProofs` |
| `OwnershipMirrored` | `OwnershipMirror` | |
| `LiveStaysPresent` | `LiveIsPresent` | |
| `PhantomFree` | `NoPhantom` | |
| `ArrivalsAnnounced` | `ArrivalAnnounced` | |
| `IndexesStayExact` | `IndexesExact` | |
| `LedgerImplemented` | `ImplementsLedger`, if no `MULTI` is discarded | |
| `TypeCorrect` | `TypeOK` | `FanoutProofs` |
| `TenantsApart` | `TenantWall` | |
| `KillsOwnOnly` | `OwnKillsOnly` | |
| `SequencesInOrder` | `OnceInOrder` | |
| `StreamsAgree` | `SameOrderEverywhere` | |
| `EventsReachAll` | `EveryoneHears` | |
| `KillsTakeEffect` | `KillTakes` | |
| `CountersAgree` | `CountersExact` | |
| `TypeCorrect` | `TypeOK` | `RecoveryProofs` |
| `TheRecordIsHonest` | `TimelineHonest` | |
| `ReconnectsJoin` | `OneStream` | |
| `DrainsArePurged` | `DrainedIsPurged` | |
| `OnlyTheForgoneIsLost` | `NothingElseLost` | |
| `TypeCorrect` | `TypeOK` | `SessionsProofs` |
| `TicketAdmitsOne` | `TicketOnce` | |
| `MarkerOutlivesAll` | `MarkerOutlives` | |
| `NextCycleCatches` | `CaughtNextCycle` | |
| `OnlyTaintedEvicted` | `RestoredStays` | |
| `TypeCorrect` | `TypeOK` | `RoomsProofs` |
| `TrackerAgrees` | `TrackerMirrors` | |
| `PostsAreMembers` | `OnlyMembers` | |
| `RateKept` | `RateExact` | |
| `TimelineShows` | `TimelineTrue` | |
| `CountersAgree` | `CountersBalance` | |
| `TypeCorrect` | `TypeOK` | `WebPagesProofs` |
| `NewestRosterShown` | `RosterNewest` | |
| `ContextIsCookies` | `TraitsTrue` | |
| `ScreenIsOnesOwn` | `NobodyElsesData` | |
| `ListingMatchesFilter` | `ListMatches` | |
| `JoinedIsMember` | `ChatHonest` | |
| `CheckedIsAccepted` | `OnlyUncheckedRefused` | |
| `StartsSpeaking` | `FailsSpeaking` | `BootProofs` |
| `WiredOnce` | `OneCluster` | |

Every proof has one step per action of `Next`, step lemmas per conjunct of the
invariant, and ends with one temporal step. A step that several parts of an invariant
look at, a removal's `MULTI` or an eviction, has a lemma that says what it does
(`RemoveEffect`, `EvictingEffect`), and the parts cite that. The leaves are small: all
of them still prove with about a seventh of the provers' default time (`tlapm --stretch
0.14`), so the result does not hang on the speed of a machine.

**Presence.** None of the properties is inductive. The invariant `IInv` adds what
the code relies on without saying it:

- `TargetInv`: a reclaim's removal works on a connection of its own instance,
  which is booting. Otherwise a reclaim could remove a live stream of a peer.
- `StageInv`: a live connection's instance is up, a removal belongs to a closed
  connection, and a connect hook that has not written belongs to a live
  connection or has its removal behind it in the pipeline.
- `PresentInv` and `OwnUserInv`: sets hold only their own users' connections and
  all the written live ones. `LiveIsPresent` is a case of the former.
- `MirrorInv`: without a discarded `MULTI` no task is inside a reissue, both
  records list the same connections, and a reclaim still holds all that its key
  lists. This is what makes the final `DEL` of `ReclaimDone` lose nothing.

`IndexInv` is about users who were not disturbed. An occupied user is listed in all
three indexes (`Listed`), a running cleanup works on an empty set (`ClearsEmpty`), an
empty set without a cleanup has left the indexes (`Gone`). The last part is where
two cleanups of one user meet: the second may read no tenant, since the first has
deleted the key, and then skips the roster. That loses nothing because the first is
by then before its own removal from that roster (`RosterOwed`). It is proved user by
user: `UserIndexConnect`, `UserIndexRemoval`, `UserIndexHookEnd` and `UserIndexInstance`
take the actions of a hook, of a removal, of its end and of an instance in turn, and
`SameCleanups` and `SameIndexes` serve the many that change no cleanup or no index.
The refinement maps the ledger's members to those
the index answers for and its debts to the connections at `announce`; a reissued
`MULTI` writes the set in another turn than it counts it, which is why the theorem,
like the run, excludes it.

**Fanout.** `TypeOK` is inductive by itself; it is there that a sequence never runs
past its last event. The tenants and owners speak of what a stream received or who
closed it, which is decided long after the request was checked, perhaps on another
instance. The invariant follows the check along the way: every request past its
first step, every command in a pipeline and every message on a connection is
approved (`BusApproved`), so what was heard and closed is too (`HeardApproved`,
`KilledApproved`).

Order is one relation, `Ahead`: wherever two events of one instance can be seen
together (on a stream, on a connection, one on each, one beyond the pipeline and one
in it, both in it), the one in front. `Orderly` says that it has no cycle of two and
agrees with a sequence's script. Only `Emit` and `OwnerConfirmed` add to it, and
what they add is behind everything; every other step moves an event along without
overtaking. `PipelineOK` and `SentOK` say why what is added is new: a request waits at most
once in its pipeline, and nothing past its current step has been seen.

Delivery is a debt: for a stream in the audience of an event, the event was heard, or is
on the connection of the stream's instance, or has yet to be published (`Promised`);
and likewise what a kill owes (`Condemned`). Both hold while nothing is lost, together
with `Hears`, that an instance with streams is subscribed, which rests on a
connection being subscribed before the instance serves.

The counters are compared with sets (`CInv`). Each counter and the set of what has yet
to reach it add up to another counter: what an instance published and the
requests that wait for a reply make what Redis accepted (`PublishedOK`); what it
received and the peers' messages on its connection make, at most, what was accepted
from the peers, and exactly that while every message was copied to every instance
(`RemoteOK`, where `Orderly` says that no message is twice on a connection);
and without kills what it published is the number of its answered events
(`EmittedOK`). A sum is the number of ticks its counters have made (`Tally`), so
that it is a cardinality and needs no induction. All these sets are finite because they
begin empty, which is why no instance or request has to be bounded.

**Recovery.** The invariant has two layers. The first is about where things are:

- `RecordOK`: the ring is the last ids without a gap, and so is the record of the
  timeline; the ring is full or at least as long as the record. That makes "retained"
  exact (`TimelineHonest`).
- `WireOK`: a handshake that waits has one drain in the pipeline, and nobody else has.
- `StreamOK`: what a tab has heard increases; a handshake's replay goes on from its
  cursor without a gap, its drain is newer than the cursor. Registering leaves out
  of the drain what the replay holds, and a full replay reaches the newest event,
  so the joined stream increases (`OneStream`).
- `FreshOK`: an append in the pipeline is of an event that no queue, drain or other
  append has had. Hence what is drained can only leave the queue (`DrainedIsPurged`).

The second accounts for every event and every tab. `Settled` is what the tab has heard or
the code has given up for it; it never shrinks, and what leaves the queue or the pipeline
is settled (`SettledStep`, `AppendingStep`). What is not settled is queued, about to
be, or was never queued (`QueuedOK`); never older than the cursor (`PastOK`); none for
an open stream (`OpenOK`). For a handshake that waits, the replay, the queue and the
appends in front of its own drain hold the rest (`ReadingOK`), and once the reply is
here, the reply does (`FetchedOK`). `AckOK` closes the circle: an acknowledgement of a
stream covers only what its tab has, which is true because it is sent at the
moment of registration, when `OpenOK` holds. `NothingElseLost` is a case of these for each
stage. The drain's filter, sort and cut is `Oldest`, whose meaning rests on `Kept` of
`SequenceFacts` and on the rank of an element in an increasing sequence (`Rank`).

**Sessions.** `TicketOnce` needs `TicketSpent`, that the key of a ticket that admitted
somebody is gone for good; `MarkerOutlives` needs `WithinSession`, that nothing good
now outlives a session begun now, and `MarkerCovers`, which compares the expiries.
That a ticket and a bearer do not outlive a session is assumed of the constants; the
code fixes all three, at 60 seconds, ten minutes and eight hours
(`ticket.service.ts:25`, `auth.constants.ts:13,23`).

The cycles need more (`SInv`), because they overlap and cache. A cached yes
is not younger than the last moment its user was in good standing (`VouchedBefore`),
so once it has aged a cycle must ask; a cycle that began after that and has a revoked
user's stream still before it will ask about it, or knows already (`DueAsked`); what a cycle has
decided to close was open when its user was revoked (`TaintedOpen`). The first two
give `CaughtNextCycle`, the last `RestoredStays`.

**Rooms.** `RInv` has the properties themselves and five parts they rest on:

- `StagesAgree`: socket, handshake, transport and registration tell one story.
- `NoRoomsOutside`: neither side keeps rooms of a connection that is not registered,
  so the mirror agrees after a removal as well as before.
- `LogTrue`: the timeline has announced connections, each once, and an entry is open
  exactly while its connection is registered, the late ones aside.
- `WindowTrue`: what the limiter remembers is, within the window, what was let
  through. The code filters the memory at every message and drops what has aged, so
  this says that filtering twice is filtering once, now or later (`KeptTwice`,
  `KeptAppend` of `SequenceFacts`). `RateExact` then bounds the history, not the memory.
- `CountsTrue`: a counter and the hooks that have yet to reach it add up to the
  connections announced, and to those gone.

**WebPages.** What is true once everything is answered has to be promised while
it is not. `WInv` says it of the fetches in flight:

- `SessionOK`: until session calls overlap there is one at most (a bag, so also one
  copy); a read of the session was sent with the cookie of now, and with none in
  flight the context is the cookie's. `TraitsTrue` follows.
- `DataOK`: unless the read after a login has yet to come back, every read in flight
  and every body on the screen is of who is signed in. The exception is what
  `NobodyElsesData` lives on: the login that changed the cookie goes home, which
  shows nothing.
- `RosterOK`: the newest roster read is in flight, has failed, or is shown.
- `ListOK`: without doubt the reads in flight ask for what the filter says, and the
  listing is its own when there are none (`Fed`).
- `ChatOK`: without doubt at most one room call is in flight, and a join that the API
  has served on the live socket, like what is joined unless a leave was served, is a
  room the socket is in.

`CallsOK` keeps a page's fetches to the kinds the page sends, so that no answer reaches
a page that does not expect it. Every step is one `Flow`: which fetches it answers and
which it sends; each part of the invariant has one lemma about flows (`SessionKept`,
`DataKept`, ...), and a page's effects one about what they send (`LoadsCalls`).

`CheckedIsAccepted` compares, for each kind of call, the checks of the client with the
guard and schema of its endpoint (`Fine`, and a lemma per group of kinds), and then
each step with what it sends (`StepFine`), the context being the cookie's. The offline
page needs more, since what it sends depends on what it shows: `QueueOK`, the invariant of
`QueueOfAdmins`, says that a queue on the screen was read by an admin who is still
signed in, and that the clicks in flight are theirs, as long as no login is about to
leave the page. Without it the read that follows an acknowledgement could be a member's.
`WebAssumption` has it that no value of a roster body is `None`.

**SequenceFacts.** The library's induction takes an operator as a parameter, which no
installed prover can instantiate. `Induction` states it for a set of numbers
instead, and `Kept` is a recursive function where `SelectSeq` would be the idiom, so
that `KeptSteps` unrolls it and the rest follows: what a filter keeps of a sequence, of
an appended, filtered or shortened one, and the ranges of tails, prefixes and removals.

**Boot.** The invariant says of each stage what is settled by then: `Loaded` that
the configuration is the accepted environment's, `Resolved` that the options and
the hint agree with it, `Listening` what the process has, `Failed` what it named;
that `hint` is what the environment gives; and that a repaired environment has no
issue left, which is what makes the next start come up.

**Model-checked only.** Liveness (`ClosedLeaves`, `Answered`), which is outside the
prover's reach; every other property of a passing run is a theorem. Texts are drawn
from named sets (`Reasons`), because the provers do not decide whether a literal is
in `STRING`, and no definition a theorem reaches is a fold of the community modules or
recursive, `Kept` aside: what those compute needs an induction over an operator.

## 5. Findings

- **A live user missing from the roster** (`presence_live_user_listed`).
  `clearUserIndexes` does not look at the connection set again; a connection that
  is added between the removal that saw zero and the cleanup is open and unlisted.
- **Healthy but deaf** (`fanout_healthy_hears`). A successful publish raises the
  flag although the subscriber is down, or was never created.
- **A gap that was not lost** (`recovery_gap_is_lost`). The timeline answers with
  the live array of emissions and with lists cut before an await, so an event
  emitted meanwhile is in neither list and the page tags it "gap", whether or not
  the ring still has it.

Also seen while modelling, where the properties above stop and no run insists:

- A departure is announced two round-trips after it was decided. An arrival in
  between is announced before it, so the last word about a user who is back may be
  that they left (`presence.tracker.ts:94`).
- `authenticate` does not ask the revocation store. A revoked user is let in and
  closed by the next cycle; a WebSocket admitted so stays, since only SSE streams
  are revalidated.
- Counters: a kill sent over the bus counts in `deliveredLocal` although nothing
  was applied here, and an emit whose publish failed is not counted although it
  was (`cluster-stats.service.ts:8-12`).
- Recovery page: what the tab drained of the offline lab is tagged "gap", because
  only `lab.replay` events are collected, and a number received in an older burst
  may tag a lost one "live". Eviction page: a live WebSocket ended for the limit
  shows "closed", because its hook is told `CLIENT_DISCONNECT`.
- Start: a heartbeat of 1 s or 10 min passes the schema (`env.schema.ts:6-7`,
  "bounded to a sane range") and the library then refuses every SSE stream;
  `REALTIME_SSE_ENDPOINT` is said to prove that the endpoint is configurable
  (`docs/TECHNICAL_SPECIFICATION.md:359`), but the route is fixed under the prefix;
  presence storage is built in memory mode too (`realtime-infra.module.ts:13-14`
  says every provider is then undefined); `REAUTH_CACHE_TTL_MS` is not held below
  the interval; an empty text is the number 0; a websocket-only process still has
  an SSE block, and an offline queue that nothing feeds.
- Web: the tab's stream is not reopened by a login or a logout, so the next user
  sees the feed of the one before (`providers.tsx:28`). A late `/auth/me` overwrites
  the session. Feed and peek reads are unnumbered, and the read after an enqueue is
  of the target at the click. A leave is of the incident in the field, and
  `joinedRoomId` outlives the socket. The connections page never clears its error.
- Web, fields no page checks: the replay lab sends its count unclamped, so 0, 101 and
  an empty field are answered with 400 (`replay/page.tsx:89-93,133`,
  `burst.dto.ts:15-17`), where the offline lab clamps its own; the offline lab sends
  an empty target for a 400, which the reauth lab refuses; the chat sends any incident
  text for a 400 unless it is a token (`room-membership.dto.ts:18-22`).

## 6. What is not modelled

- Reauthentication statistics (a count per user that only a lab's table shows) and
  `REAUTH_ON_FAILURE=event`; the reauthentication block of the options.
- An emission to a room over the bus; reads of the API that change nothing are
  modelled by what they answer, not by what they list.
- Of the web client: layout, wording, the event inspector, the connection badge and
  its own stream, the text typed into a field until it is submitted, the tuning
  sliders, the expiry of a bearer while it is held, and the messages of the chat.
- The library, except as far as the code runs through it: its wire protocol, and of
  its client hooks the orphaned timers and the socket that a slow import opens
  twice. Definitions that model it are marked external in the map.
- CORS, body parsing, logging, deployment files, scripts.

In `Recovery` the run has one tab: two tabs that drain one queue exceed what a
run can finish, so what an acknowledgement of one takes from the other is in the
model and not in the run. The theorems of `RecoveryProofs` are about any number of
tabs.

## 7. Plan

Written in the order of what matters most to a user: presence, fan-out, recovery,
sessions, rooms, the tab, the start. Next:

1. **Composition**: an offline emit on one instance against a handshake on
   another, where `Live` of `Recovery` becomes the presence answer of `Presence`.
2. **Rooms over the bus**: a third scope for `Fanout` whose addressees are the
   members of `Rooms`, with the messages the chat page keeps.

New questions share runs with old ones where the state space allows, so that a
run stays one question about one system.
