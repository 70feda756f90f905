------------------------------ MODULE Sessions ------------------------------
(***************************************************************************)
(* Who may open a stream, and how a revocation ends one: the session       *)
(* cookie, the one-shot ticket and the WebSocket bearer, the marker in     *)
(* Redis, and the cycle in which the library revalidates the SSE streams   *)
(* of an instance.                                                         *)
(*                                                                         *)
(* Time passes in ticks.  A signed token is its subject and its expiry; a  *)
(* signature that does not verify is a token nobody holds.  A command to   *)
(* Redis takes effect at a step between its call and its reply.            *)
(***************************************************************************)
EXTENDS Naturals, Sequences, FiniteSets, SequencesExt

CONSTANTS
  User, Admin,     \* demo users, and those with ADMIN_ROLE
  Conn,            \* connection attempts
  Ticket,          \* the ids randomUUID will draw
  None,
  SESSION_TTL_SECONDS, TICKET_TTL_SECONDS, WS_TOKEN_TTL_SECONDS,   \* in ticks
  IntervalSeconds, \* REAUTH_INTERVAL_SECONDS
  CacheTtl,        \* REAUTH_CACHE_TTL_MS
  MaxTime,         \* bound: the clock stops here
  MaxLogins,       \* bound: logins
  MaxOrders,       \* bound: revocations and restorations
  MaxErrors,       \* bound: commands Redis rejects
  MaxRunning       \* bound: cycles under way when the clock moves on

ASSUME ConstantsAssumption ==
  /\ Admin \subseteq User /\ None \notin Nat \cup User \cup Ticket /\ IsFiniteSet(Conn)
  /\ {SESSION_TTL_SECONDS, TICKET_TTL_SECONDS, WS_TOKEN_TTL_SECONDS, IntervalSeconds}
       \subseteq Nat \ {0}
  /\ TICKET_TTL_SECONDS <= SESSION_TTL_SECONDS /\ WS_TOKEN_TTL_SECONDS <= SESSION_TTL_SECONDS
  /\ {CacheTtl, MaxTime, MaxLogins, MaxOrders, MaxErrors, MaxRunning} \subseteq Nat

VARIABLES
  now,         \* the clock of the instances and of Redis
  cookie,      \* the exp of each browser's session cookie, or None
  bearer,      \* the exp of the WebSocket token it holds (0 once past), or None
  holder,      \* for whom each ticket was issued, or None
  ticketKey,   \* realtime:ticket:{id}: when the key expires, or None
  marker,      \* realtime:revoked:{user}: when the key expires, or None
  stage,       \* "none", "admitted", "open" or "closed"
  traits,      \* the user and the transport a connection was admitted with
  registry,    \* the open SSE streams, oldest first
  timer,       \* when the reauthentication timer fires next
  cycles,      \* cycles under way, one per firing
  cache,       \* positiveCache: the start of the last cycle that passed it
  logins, orders, errors,
  \* history
  admittedBy,  \* the ticket a connection was admitted with, or None
  revokedTill, \* until when an operator means the user to be revoked
  killing,     \* until when what it held when that began is still good
  tainted,     \* connections whose user was revoked at any time of theirs
  evicted      \* streams the reauthentication policy closed

tokenVars == <<cookie, bearer, holder>>
redisVars == <<ticketKey, marker>>
streamVars == <<stage, traits, registry, admittedBy>>
cycleVars == <<timer, cycles, cache>>
orderVars == <<orders, revokedTill, killing>>
vars == <<now, tokenVars, redisVars, streamVars, cycleVars, orderVars, errors, logins,
          tainted, evicted>>

NoTraits == [userId |-> None, transport |-> None]
Alive(exp) == exp # None /\ exp > now

Init ==
  /\ now = 0
  /\ cookie = [u \in User |-> None] /\ bearer = [u \in User |-> None]
  /\ holder = [t \in Ticket |-> None] /\ ticketKey = [t \in Ticket |-> None]
  /\ marker = [u \in User |-> None]
  /\ stage = [c \in Conn |-> "none"] /\ traits = [c \in Conn |-> NoTraits]
  /\ registry = <<>> /\ admittedBy = [c \in Conn |-> None]
  /\ timer = IntervalSeconds /\ cycles = {} /\ cache = [c \in Conn |-> None]
  /\ orders = 0 /\ revokedTill = [u \in User |-> 0] /\ killing = [u \in User |-> {}]
  /\ errors = 0 /\ logins = 0
  /\ tainted = {} /\ evicted = {}

-----------------------------------------------------------------------------
(* What the browser is given.                                              *)

\* SessionGuard: the signature verifies and exp is still ahead.
SessionGuard(u) == Alive(cookie[u])

issueRest == <<now, marker, streamVars, cycleVars, orderVars, errors, tainted, evicted>>

\* SessionService.issue: the expiry is what there is to a token.
issue == now + SESSION_TTL_SECONDS

Login(u) ==
  /\ logins < MaxLogins /\ logins' = logins + 1
  /\ cookie' = [cookie EXCEPT ![u] = issue]
  /\ UNCHANGED <<issueRest, bearer, holder, ticketKey>>

\* The cookie is cleared; nothing else changes.
Logout(u) ==
  /\ cookie[u] # None /\ cookie' = [cookie EXCEPT ![u] = None]
  /\ UNCHANGED <<issueRest, bearer, holder, ticketKey, logins>>

\* The id is answered once Redis has stored it.
IssueTicket(u, t) ==
  /\ SessionGuard(u) /\ holder[t] = None
  /\ holder' = [holder EXCEPT ![t] = u]
  /\ ticketKey' = [ticketKey EXCEPT ![t] = now + TICKET_TTL_SECONDS]
  /\ UNCHANGED <<issueRest, cookie, bearer, logins>>

\* A page mints one bearer when it mounts.
mint(u) ==
  /\ SessionGuard(u) /\ bearer[u] = None
  /\ bearer' = [bearer EXCEPT ![u] = now + WS_TOKEN_TTL_SECONDS]
  /\ UNCHANGED <<issueRest, cookie, holder, ticketKey, logins>>

-----------------------------------------------------------------------------
(* CompositeAuthenticator.authenticate: one credential decides.            *)

authRest == <<now, tokenVars, marker, registry, cycleVars, orderVars, logins, tainted, evicted>>

\* Mutated: what the credential said is lost on the way.
DecideBlind(c, ok, u, transport) ==
  /\ stage[c] = "none"
  /\ stage' = [stage EXCEPT ![c] = IF ok THEN "admitted" ELSE "closed"]
  /\ traits' = [traits EXCEPT ![c] = IF ok /\ transport = "sse"
                                      THEN [userId |-> u, transport |-> transport] ELSE @]
Decide(c, ok, u, transport) ==
  /\ stage[c] = "none"
  /\ stage' = [stage EXCEPT ![c] = IF ok THEN "admitted" ELSE "closed"]
  /\ traits' = [traits EXCEPT ![c] = IF ok THEN [userId |-> u, transport |-> transport] ELSE @]

\* A WebSocket with a bearer header: the header alone counts.
ByBearer(c, u) ==
  /\ bearer[u] # None
  /\ Decide(c, Alive(bearer[u]), u, "websocket")
  /\ UNCHANGED <<authRest, ticketKey, admittedBy, errors>>

\* GETDEL.
\* Mutated: the ticket is read and deleted only once the stream is open.
consumeKept(t) == UNCHANGED ticketKey
consume(t) == ticketKey' = [ticketKey EXCEPT ![t] = None]

\* A ticket in the query, on either transport.
ByTicket(c, t, transport) ==
  /\ holder[t] # None
  /\ Decide(c, Alive(ticketKey[t]), holder[t], transport)
  /\ consume(t)
  /\ admittedBy' = IF Alive(ticketKey[t]) THEN [admittedBy EXCEPT ![c] = t] ELSE admittedBy
  /\ UNCHANGED <<authRest, errors>>

\* The call is rejected, with the ticket gone or not.
TicketRejected(c, t) ==
  /\ holder[t] # None /\ errors < MaxErrors /\ errors' = errors + 1
  /\ Decide(c, FALSE, holder[t], "sse")
  /\ ticketKey' \in {ticketKey, [ticketKey EXCEPT ![t] = None]}
  /\ UNCHANGED <<authRest, admittedBy>>

\* Neither: the cookie, and no look at the marker.
ByCookie(c, u, transport) ==
  /\ Decide(c, Alive(cookie[u]), u, transport)
  /\ UNCHANGED <<authRest, ticketKey, admittedBy, errors>>

-----------------------------------------------------------------------------
(* Streams, and the clock.                                                 *)

streamRest == <<now, tokenVars, redisVars, traits, admittedBy, cycleVars, orderVars, errors,
                logins>>

Meant(u) == now < revokedTill[u]

Open(c) ==
  /\ stage[c] = "admitted" /\ stage' = [stage EXCEPT ![c] = "open"]
  /\ registry' = IF traits[c].transport = "sse" THEN Append(registry, c) ELSE registry
  /\ tainted' = IF Meant(traits[c].userId) THEN tainted \cup {c} ELSE tainted
  /\ UNCHANGED <<streamRest, evicted>>

Leave(c) ==
  /\ stage[c] = "open" /\ stage' = [stage EXCEPT ![c] = "closed"]
  /\ registry' = RemoveFirst(registry, c)
  /\ UNCHANGED <<streamRest, tainted, evicted>>

\* Streams a cycle has to close, as long as the revocation stands.
Keep(y, S) == [y EXCEPT !.due = @ \cap S]

\* A key, or a browser's cookie, whose time is up is gone.
Expired(keys) == [k \in DOMAIN keys |-> IF keys[k] = now + 1 THEN None ELSE keys[k]]
Lapsed(times) == [u \in User |-> IF times[u] = now + 1 THEN 0 ELSE times[u]]

\* The clock waits for a due timer.  A cycle that is through is forgotten.
Tick ==
  /\ now < MaxTime /\ now < timer /\ now' = now + 1
  /\ Cardinality({y \in cycles : y.todo # <<>>}) <= MaxRunning
  /\ cookie' = Expired(cookie) /\ ticketKey' = Expired(ticketKey) /\ marker' = Expired(marker)
  /\ bearer' = Lapsed(bearer)
  /\ revokedTill' = Lapsed(revokedTill) /\ killing' = [u \in User |-> killing[u] \ {now + 1}]
  /\ LET standing == {c \in Conn : traits[c].userId \in User /\ revokedTill'[traits[c].userId] > 0}
     IN cycles' = {Keep(y, standing) : y \in {x \in cycles : x.todo # <<>>}}
  /\ UNCHANGED <<holder, streamVars, timer, cache, orders, errors, logins, tainted,
                 evicted>>

-----------------------------------------------------------------------------
(* RedisRevocationStore and its admin endpoints.                           *)

AdminGuard == \E a \in Admin : SessionGuard(a)
Order == AdminGuard /\ orders < MaxOrders /\ orders' = orders + 1

\* The expiries of all that admits u.
Held(u) == {e \in {cookie[u], bearer[u]} \cup {ticketKey[t] : t \in {x \in Ticket : holder[x] = u}} :
              Alive(e)}

Mine(u) == {c \in Conn : stage[c] \in {"admitted", "open"} /\ traits[c].userId = u}

\* SET EX and DEL.
\* Mutated: the marker lives as long as a bearer.
revokeShort(u) == marker' = [marker EXCEPT ![u] = now + WS_TOKEN_TTL_SECONDS]
revoke(u) == marker' = [marker EXCEPT ![u] = now + SESSION_TTL_SECONDS]
\* Mutated: another key is deleted.
unrevokeForgotten(u) == UNCHANGED marker
unrevoke(u) == marker' = [marker EXCEPT ![u] = None]

orderRest == <<now, tokenVars, ticketKey, streamVars, timer, cache, errors, logins,
               evicted>>

Revoke(u) ==
  /\ Order /\ revoke(u)
  /\ revokedTill' = [revokedTill EXCEPT ![u] = now + SESSION_TTL_SECONDS]
  /\ killing' = [killing EXCEPT ![u] = Held(u)]
  /\ tainted' = tainted \cup Mine(u)
  /\ UNCHANGED <<orderRest, cycles>>

Unrevoke(u) ==
  /\ Order /\ unrevoke(u)
  /\ revokedTill' = [revokedTill EXCEPT ![u] = 0]
  /\ killing' = [killing EXCEPT ![u] = {}]
  /\ cycles' = {Keep(y, {c \in Conn : traits[c].userId # u}) : y \in cycles}
  /\ UNCHANGED <<orderRest, tainted>>

-----------------------------------------------------------------------------
(* ReauthenticationService.runCycle, and what it asks.  A cycle does not   *)
(* wait for the one before it.                                             *)

cycleRest == <<now, tokenVars, redisVars, traits, admittedBy, orderVars, logins, tainted>>

\* Revoked for as long as a cached answer lasts, or since the last cycle.
Due(u) == /\ Meant(u)
          /\ CacheTtl <= IntervalSeconds \/ now + SESSION_TTL_SECONDS >= revokedTill[u] + CacheTtl

Become(y, z) == cycles' = (cycles \ {y}) \cup {z}
Cached(c, start, passed) == passed[c] # None /\ start - passed[c] < CacheTtl

\* Connections with a fresh answer are skipped, without a pause, up to the
\* next one that has to be asked about.
Uncached(s, start, passed) ==
  LET k == SelectInSeq(s, LAMBDA c : ~ Cached(c, start, passed))
  IN IF k = 0 THEN <<>> ELSE SubSeq(s, k, Len(s))
GoOn(y, passed) ==
  Become(y, [y EXCEPT !.todo = Uncached(Tail(@), y.start, passed), !.phase = "asking"])

CycleStart ==
  /\ now = timer /\ timer' = timer + IntervalSeconds
  /\ cycles' = IF registry = <<>> THEN cycles
               ELSE cycles \cup {[start |-> now, todo |-> Uncached(registry, now, cache),
                                  phase |-> "asking",
                                  due |-> {c \in Range(registry) : Due(traits[c].userId)}]}
  /\ UNCHANGED <<cycleRest, stage, registry, cache, errors, evicted>>

\* EXISTS.
\* Mutated: the count is compared with one.
isRevokedNever(u) == FALSE
isRevoked(u) == Alive(marker[u])

Ask(y) ==
  /\ y.phase = "asking" /\ y.todo # <<>>
  /\ Become(y, [y EXCEPT !.phase = IF isRevoked(traits[Head(y.todo)].userId) THEN "failed"
                                                                            ELSE "valid"])
  /\ UNCHANGED <<cycleRest, stage, registry, timer, cache, errors, evicted>>

\* A rejection counts as a failure.
AskFails(y) ==
  /\ y.phase = "asking" /\ y.todo # <<>> /\ errors < MaxErrors /\ errors' = errors + 1
  /\ Become(y, [y EXCEPT !.phase = "failed"])
  /\ UNCHANGED <<cycleRest, stage, registry, timer, cache, evicted>>

Passed(y) ==
  /\ y.phase = "valid"
  /\ cache' = [cache EXCEPT ![Head(y.todo)] = y.start]
  /\ GoOn(y, cache')
  /\ UNCHANGED <<cycleRest, stage, registry, timer, errors, evicted>>

\* handleFailure, with onFailure "disconnect": a stream gone is left alone.
Failed(y) ==
  LET c == Head(y.todo) IN
  /\ y.phase = "failed"
  /\ cache' = [cache EXCEPT ![c] = None]
  /\ registry' = RemoveFirst(registry, c)
  /\ stage' = [stage EXCEPT ![c] = "closed"]
  /\ evicted' = IF stage[c] = "open" THEN evicted \cup {c} ELSE evicted
  /\ GoOn(y, cache')
  /\ UNCHANGED <<cycleRest, timer, errors>>

-----------------------------------------------------------------------------
Next ==
  \/ \E u \in User : Login(u) \/ Logout(u) \/ mint(u) \/ Revoke(u) \/ Unrevoke(u)
  \/ \E u \in User, t \in Ticket : IssueTicket(u, t)
  \/ \E c \in Conn :
       \/ Open(c) \/ Leave(c)
       \/ \E u \in User : ByBearer(c, u)
       \/ \E transport \in {"sse", "websocket"} :
            \/ \E u \in User : ByCookie(c, u, transport)
            \/ \E t \in Ticket : ByTicket(c, t, transport)
       \/ \E t \in Ticket : TicketRejected(c, t)
  \/ Tick \/ CycleStart
  \/ \E y \in cycles : Ask(y) \/ AskFails(y) \/ Passed(y) \/ Failed(y)

Spec == Init /\ [][Next]_vars

-----------------------------------------------------------------------------
Time == Nat \cup {None}
Cycle == [start : Nat, todo : Seq(Conn), phase : {"asking", "valid", "failed"},
          due : SUBSET Conn]

TypeOK ==
  /\ now \in 0..MaxTime
  /\ cookie \in [User -> Time] /\ bearer \in [User -> Time]
  /\ holder \in [Ticket -> User \cup {None}] /\ ticketKey \in [Ticket -> Time]
  /\ marker \in [User -> Time]
  /\ stage \in [Conn -> {"none", "admitted", "open", "closed"}]
  /\ traits \in [Conn -> [userId : User, transport : {"sse", "websocket"}] \cup {NoTraits}]
  /\ \A c \in Conn : stage[c] \in {"admitted", "open"} => traits[c] # NoTraits
  /\ registry \in Seq(Conn)
  /\ Range(registry) = {c \in Conn : stage[c] = "open" /\ traits[c].transport = "sse"}
  /\ timer \in now..(now + IntervalSeconds)
  /\ cycles \subseteq Cycle /\ cache \in [Conn -> Time]
  /\ logins \in 0..MaxLogins /\ orders \in 0..MaxOrders /\ errors \in 0..MaxErrors
  /\ admittedBy \in [Conn -> Ticket \cup {None}]
  /\ revokedTill \in [User -> Nat] /\ killing \in [User -> SUBSET Nat]
  /\ tainted \subseteq Conn /\ evicted \subseteq Conn

\* TicketService: a ticket admits one connection, however many present it at
\* once, and on either instance.
TicketOnce ==
  \A c, d \in Conn : admittedBy[c] = admittedBy[d] /\ admittedBy[c] # None => c = d

\* RedisRevocationStore.revoke: unless an operator restores the user, the
\* marker outlasts every session, ticket and bearer issued before it.
MarkerOutlives == \A u \in User : \A e \in killing[u] : now < e => Alive(marker[u])

\* A cycle that starts while a user is revoked leaves none of the user's
\* SSE streams behind it open, whatever earlier cycles, still running, write
\* into the cache: the next cycle when the cache lasts no longer than the
\* interval, else the first that starts REAUTH_CACHE_TTL_MS after.
CaughtNextCycle ==
  \A y \in cycles : \A c \in y.due : stage[c] = "open" => c \in Range(y.todo)

\* Without a Redis error, the policy closes only streams whose user was
\* revoked while they were open or when they opened; a restored user's new
\* streams are safe from cycles that began before.
RestoredStays == errors = 0 => evicted \subseteq tainted
=============================================================================
