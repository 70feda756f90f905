--------------------------------- MODULE Web ---------------------------------
(***************************************************************************)
(* One browser tab of the dashboard: the cookie, the session context, the  *)
(* fetches in flight, the event streams the tab holds, and what the API    *)
(* answers.  WebPages adds the pages.                                      *)
(*                                                                         *)
(* A fetch is sent with the cookie of its moment and answered whenever     *)
(* the network likes, in any order.  What it answers depends only on who   *)
(* asks for what, so its handler picks one of the statuses the API may     *)
(* give.  A fetch whose answer could only change a component that is gone  *)
(* is forgotten with that component.                                       *)
(***************************************************************************)
EXTENDS Integers, Sequences, FiniteSets, Bags, SequencesExt

CONSTANTS
  User, Admin,
  TenantOf,       \* the tenant of each user
  None,
  Page,           \* the routes visited; "home" and "login" are among them
  Card,           \* the emit cards filled in, by scope
  Target,         \* whose queue the offline lab opens on
  MaxInFlight,    \* bound: a control is used with fewer fetches in flight
  MaxReads,       \* bound: numbered reads, sockets or nonces of one mount
  MaxLogins,      \* bound: logins of the tab
  MaxDrops        \* bound: streams and sockets that break

ASSUME WebAssumption ==
  /\ Admin \subseteq User /\ None \notin User /\ Target \in User
  /\ {"home", "login"} \subseteq Page
  /\ Card \subseteq {"user", "tenant", "room", "broadcast"}
  /\ {MaxInFlight, MaxReads} \subseteq Nat \ {0}
  /\ {MaxLogins, MaxDrops} \subseteq Nat
  /\ DOMAIN TenantOf = User
  /\ None \notin [as : User \cup {None}, arg : Range(TenantOf), n : 1..MaxReads]  \* nor a roster

VARIABLES
  cookie,    \* whose session cookie the browser holds, or None
  session,   \* SessionProvider: [status, traits]
  page,      \* the mounted page and its state
  calls,     \* the bag of fetches in flight
  stream,    \* the provider's EventSource, and the panel's of a lab page
  lastEvent, \* what the newest event of the provider's stream is, if any
  member,    \* the rooms the page's live socket is in, at the API
  logins, drops,
  \* history
  unsure     \* session calls have overlapped, or a read of the session failed

vars == <<cookie, session, page, calls, stream, lastEvent, member, logins, drops, unsure>>

isAdmin(traits) == traits \in Admin

\* a text with nothing in it
Blank == ""

-----------------------------------------------------------------------------
(* What the API answers: guards first, then the pipe, then the handler.    *)
(* An operator per controller: the statuses its answer to c may have.      *)

SessionGuard(c, then) == IF c.as = None THEN {401} ELSE then

AdminGuard(c, then) == SessionGuard(c, IF c.as \in Admin THEN then ELSE {403})

ZodValidationPipe(valid, then) == IF valid THEN then ELSE {400}

RESERVED_EVENT_NAMES == {"reserved"}

emitSchema(event) == event # Blank /\ event \notin RESERVED_EVENT_NAMES

MAX_BURST         == 100
MAX_OFFLINE_BURST == 100

burstSchema(count)               == count \in 1..MAX_BURST
offlineEmitSchema(userId, count) == userId # Blank /\ count \in 1..MAX_OFFLINE_BURST

\* Blank stands for every text that is no token
roomMembershipSchema(resourceId) == resourceId # Blank

AuthController(c) == IF c.kind = "me" THEN SessionGuard(c, {200}) ELSE {200}

TicketController(c)       == SessionGuard(c, {200})
WsTokenController(c)      == SessionGuard(c, {200})
RevocationController(c)   == AdminGuard(c, {200})
ReauthLabController(c)    == AdminGuard(c, {200})
EvictionLabController(c)  == AdminGuard(c, {200})
AuditController(c)        == SessionGuard(c, {200})
ClusterStatsController(c) == SessionGuard(c, {200})
DomainController(c)       == SessionGuard(c, {200})

PresenceController(c) == SessionGuard(c, IF c.arg = TenantOf[c.as] THEN {200} ELSE {403})

\* no scope room through the room console
emitToRoom(roomId) == IF roomId = "scoped" THEN {403} ELSE {200}

EmitController(c) ==
  LET emitted == CASE c.kind = "emitTenant" /\ c.arg # TenantOf[c.as] -> {403}
                   [] c.kind = "emitRoom" -> emitToRoom(c.arg)
                   [] OTHER               -> {200}
      piped   == ZodValidationPipe(emitSchema(c.event), emitted)
  IN IF c.kind = "broadcast" THEN AdminGuard(c, piped) ELSE SessionGuard(c, piped)

ConnectionsController(c) ==
  IF c.kind = "disconnect" THEN SessionGuard(c, {200, 403, 404}) ELSE AdminGuard(c, {200})

ReplayLabController(c) ==
  CASE c.kind = "burst" -> SessionGuard(c, ZodValidationPipe(burstSchema(c.n), {200}))
    [] c.kind = "drop"  -> SessionGuard(c, {200})
    [] OTHER            -> AdminGuard(c, {200})

OfflineLabController(c) ==
  CASE c.kind = "ack"  -> SessionGuard(c, {200, 503})
    [] c.kind = "peek" -> AdminGuard(c, IF c.arg = Blank THEN {400} ELSE {200, 503})
    [] OTHER -> AdminGuard(c, ZodValidationPipe(offlineEmitSchema(c.arg, c.n), {200, 409, 503}))

RoomsController(c) ==
  SessionGuard(c, ZodValidationPipe(roomMembershipSchema(c.arg), {c.served} \ {0}))

\* the client's tables of endpoints
authApi        == {"login", "logout", "me", "ticket", "wsToken"}
domainApi      == {"simulate"}
emitApi        == {"emitUser", "emitTenant", "emitRoom", "broadcast"}
auditApi       == {"feed"}
connectionsApi == {"list", "introspection", "disconnect"}
evictionLabApi == {"timeline"}
replayLabApi   == {"burst", "drop", "replayTimeline"}
presenceApi    == {"roster"}
offlineLabApi  == {"offlineEmit", "peek", "ack"}
reauthLabApi   == {"stats", "revoke", "restore"}
roomsApi       == {"join", "leave"}

Statuses(c) ==
  CASE c.kind = "ticket"         -> TicketController(c)
    [] c.kind = "wsToken"        -> WsTokenController(c)
    [] c.kind = "stats"          -> ReauthLabController(c)
    [] c.kind \in authApi \ {"ticket", "wsToken"} -> AuthController(c)
    [] c.kind \in domainApi      -> DomainController(c)
    [] c.kind \in emitApi        -> EmitController(c)
    [] c.kind \in auditApi       -> AuditController(c)
    [] c.kind \in connectionsApi -> ConnectionsController(c)
    [] c.kind \in evictionLabApi -> EvictionLabController(c)
    [] c.kind \in replayLabApi   -> ReplayLabController(c)
    [] c.kind \in presenceApi    -> PresenceController(c)
    [] c.kind \in offlineLabApi  -> OfflineLabController(c)
    [] c.kind \in reauthLabApi \ {"stats"} -> RevocationController(c)
    [] c.kind \in roomsApi       -> RoomsController(c)
    [] c.kind = "cards"          -> ClusterStatsController(c)

-----------------------------------------------------------------------------
(* Fetching *)

\* `served` is the status of a join or a leave the API has run, 0 before
Call(as, kind, arg, n) ==
  [kind |-> kind, arg |-> arg, n |-> n, as |-> as, event |-> Blank, served |-> 0]

\* 0 is a dead network; a page treats it as it treats any status but 200
request(c) == Statuses(c) \cup {0}

InFlight(kinds) == \E c \in BagToSet(calls) : c.kind \in kinds

SeqBag(s) == [c \in Range(s) |-> Cardinality({i \in DOMAIN s : s[i] = c})]

\* s joins what is left in flight
Ask(left, s) == calls' = IF s = <<>> THEN left ELSE left (+) SeqBag(s)

Idle == BagCardinality(calls) < MaxInFlight

One(c) == SetToBag({c})
Without(c) == calls (-) One(c)

\* a body, as far as anything tells two of them apart
Body(c) == [as |-> c.as, arg |-> c.arg, n |-> c.n]

-----------------------------------------------------------------------------
(* The session context *)

SessionKind == {"me", "login", "logout"}
AtRest == ~InFlight(SessionKind)

\* a session call sent now may overlap another
Overlap == unsure' = (unsure \/ ~AtRest)

\* Mutated: a failure leaves the skeleton on the screen, without a status.
loadSessionThrow(c, status) ==
  IF status = 200 THEN [status |-> "authenticated", traits |-> c.as]
                  ELSE [status |-> None, traits |-> None]

\* what refresh() makes of the answer to /auth/me
loadSession(c, status) ==
  IF status = 200 THEN [status |-> "authenticated", traits |-> c.as]
                  ELSE [status |-> "anonymous", traits |-> None]

-----------------------------------------------------------------------------
(* What a stream carries, beside its established event *)

SSE_APPLICATION_EVENT_NAMES == {"other"}
PRESENCE_EVENT_NAME_SET     == {"presence"}

-----------------------------------------------------------------------------
(* useRealtime over SSE: one EventSource, replaced by a timer or by the    *)
(* browser after an error; each attempt sends the credential of its        *)
(* moment.                                                                 *)

Hook == {"provider", "panel"}

Closed == [source |-> "none", as |-> None, retry |-> FALSE]

connect(as) == [source |-> "opening", as |-> as, retry |-> FALSE]

onopen(h) == [h EXCEPT !.source = "open"]

\* a hook that has used up maxAttempts sets no timer
onerror(h, retry) == [h EXCEPT !.source = "down", !.retry = retry]
=============================================================================
