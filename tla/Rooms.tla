-------------------------------- MODULE Rooms --------------------------------
(***************************************************************************)
(* The connections of one instance, and what the application keeps about   *)
(* them through the library's lifecycle hooks: the rooms it believes they  *)
(* are in, the audit ring, the eviction timeline, the decorator counters,  *)
(* and the rate of the chat messages they send.                            *)
(*                                                                         *)
(* Only presence awaits Redis.  What runs between two such waits, joining  *)
(* a room included, runs in one turn of the event loop and is one step.    *)
(***************************************************************************)
EXTENDS Integers, Sequences, FiniteSets, SequencesExt, Subsequences

CONSTANTS
  Conn, Room,
  UserOf,                   \* the user each connection authenticates as
  None,
  maxConnectionsPerUser,    \* per user and transport
  MAX_MESSAGES_PER_WINDOW, WINDOW_MS,
  AUDIT_CAPACITY, LOG_CAPACITY,
  MaxTime,                  \* bound: the clock stops here
  MaxSends                  \* bound: chat messages sent

\* What a closed connection's hooks are given as the reason.
Reasons == {"CLIENT_DISCONNECT", "REALTIME_TOO_MANY_CONNECTIONS",
            "REALTIME_REAUTHENTICATION_FAILED", "none given"}

ASSUME ConstantsAssumption ==
  /\ None \notin Conn \cup Reasons \cup {"sse", "websocket"} /\ IsFiniteSet(Conn)
  /\ {maxConnectionsPerUser, MAX_MESSAGES_PER_WINDOW, WINDOW_MS, AUDIT_CAPACITY, LOG_CAPACITY}
       \subseteq Nat \ {0}
  /\ {MaxTime, MaxSends} \subseteq Nat

VARIABLES
  now,
  transport,   \* "sse" or "websocket"; None before it connects
  socket,      \* the client's end: "none", "up" or "down"
  handshake,   \* the server's: "none", "auth", "evicting" or "done"
  waitsFor,    \* the eviction a registration awaits, or None
  registry,    \* ConnectionRegistry, in order of connectedAt
  rooms,       \* RoomRegistry: the resource rooms of each connection
  byConnection,           \* RoomMembershipTracker
  timestampsByConnection, \* ChatRateLimiter
  entries,     \* ConnectionEventLog, in order of insertion
  audit,       \* AuditService.entries
  hooks,       \* calls awaiting presence, the decorators still to come
  connects, disconnects,  \* DecoratorHandlers
  sends,
  \* history
  admitted,    \* when each connection's messages were let through
  starved,     \* whether one was dropped with the window not full
  intruded,    \* whether one was fanned out to a room its sender was not in
  announced,   \* connections onConnect was called for
  late         \* those of them already unregistered by then

connVars  == <<transport, socket, handshake, waitsFor, registry>>
roomVars  == <<rooms, byConnection>>
trailVars == <<entries, audit, hooks, announced, late>>
countVars == <<connects, disconnects>>
chatVars  == <<timestampsByConnection, sends, admitted, starved, intruded>>
vars == <<now, connVars, roomVars, trailVars, countVars, chatVars>>

Init ==
  /\ now = 0
  /\ transport = [c \in Conn |-> None] /\ socket = [c \in Conn |-> "none"]
  /\ handshake = [c \in Conn |-> "none"]
  /\ waitsFor = [c \in Conn |-> None] /\ registry = <<>>
  /\ rooms = [c \in Conn |-> {}] /\ byConnection = [c \in Conn |-> {}]
  /\ timestampsByConnection = [c \in Conn |-> <<>>]
  /\ entries = <<>> /\ audit = <<>> /\ hooks = {} /\ connects = 0 /\ disconnects = 0
  /\ sends = 0 /\ admitted = [c \in Conn |-> <<>>] /\ starved = FALSE
  /\ intruded = FALSE /\ announced = {} /\ late = {}

Registered(c) == c \in Range(registry)
Sse(c)        == transport[c] = "sse"
WebSocket(c)  == transport[c] = "websocket"

-----------------------------------------------------------------------------
(* CompositeLifecycleHooks, up to the call that awaits presence.           *)

\* AuditService.record, for each of these.
record(ring, new) ==
  LET all == ring \o new
  IN IF Len(all) <= AUDIT_CAPACITY THEN all
     ELSE SubSeq(all, Len(all) - AUDIT_CAPACITY + 1, Len(all))

\* ConnectionEventLog.onConnect and onDisconnect.  end stands for evictedAt
\* and the reason; ends has that of each connection gone.
logConnect(log, c) ==
  LET grown == Append(log, [conn |-> c, end |-> None])
  IN IF Len(grown) > LOG_CAPACITY THEN Tail(grown) ELSE grown
\* Mutated: a close adds the entry it does not find.
logDisconnectAnyway(log, ends) ==
  LET missing == DOMAIN ends \ {log[i].conn : i \in DOMAIN log}
  IN [i \in DOMAIN log |-> IF log[i].conn \in DOMAIN ends
                            THEN [log[i] EXCEPT !.end = ends[log[i].conn]] ELSE log[i]]
     \o SetToSeq({[conn |-> c, end |-> ends[c]] : c \in missing})
logDisconnect(log, ends) ==
  [i \in DOMAIN log |-> IF log[i].conn \in DOMAIN ends
                        THEN [log[i] EXCEPT !.end = ends[log[i].conn]] ELSE log[i]]

\* ConnectionEventLog.timeline, and the page's chip for a row of it; how the
\* rows are ordered is left out.
timeline(u) == {entry \in Range(entries) : UserOf[entry.conn] = u}
EvictionTimeline(entry) ==
  IF entry.end = None THEN "open"
  ELSE IF entry.end = "REALTIME_TOO_MANY_CONNECTIONS" THEN "evicted (FIFO)" ELSE "closed"

\* RoomMembershipTracker.onDisconnect.
\* Mutated: what a closed connection had joined is kept.
forgetNone(tracked, gone) == tracked
forget(tracked, gone) == [c \in Conn |-> IF c \in gone THEN {} ELSE tracked[c]]

\* What the hooks have written, and the calls still awaiting presence.
Trail == [log |-> entries, ring |-> audit, calls |-> hooks]

onConnect(t, c) ==
  [log |-> logConnect(t.log, c), ring |-> record(t.ring, <<[kind |-> "connect", conn |-> c]>>),
   calls |-> t.calls \cup {[phase |-> "connect", conn |-> c]}]
\* Of these connections, in this order.
onDisconnect(t, gone, ends) ==
  [log |-> logDisconnect(t.log, ends),
   ring |-> record(t.ring, [i \in DOMAIN gone |-> [kind |-> "disconnect", conn |-> gone[i]]]),
   calls |-> t.calls \cup [phase : {"disconnect"}, conn : Range(gone)]]
\* Only the audit has these two.
onError(t, c) == [t EXCEPT !.ring = record(@, <<[kind |-> "error", conn |-> c]>>)]
onReauthenticationFailed(t, c) ==
  [t EXCEPT !.ring = record(@, <<[kind |-> "reauth-failed", conn |-> c]>>)]

Written(t) == entries' = t.log /\ audit' = t.ring /\ hooks' = t.calls

\* Presence has answered, or failed and been tolerated: the dispatcher runs.
\* @OnConnect and @OnDisconnect fill the registry as the class is evaluated.
REGISTRY == {[phase |-> "connect", fn |-> "whenConnected"],
             [phase |-> "disconnect", fn |-> "whenDisconnected"]}

\* Mutated: the phase is not looked at.
collectHandlersAll(phase) == {handler.fn : handler \in REGISTRY}
collectHandlers(phase) == {handler.fn : handler \in {h \in REGISTRY : h.phase = phase}}

count(call) ==
  LET called == collectHandlers(call.phase)
  IN /\ connects' = IF "whenConnected" \in called THEN connects + 1 ELSE connects
     /\ disconnects' = IF "whenDisconnected" \in called THEN disconnects + 1 ELSE disconnects
Dispatch(call) ==
  /\ hooks' = hooks \ {call} /\ count(call)
  /\ UNCHANGED <<now, connVars, roomVars, entries, audit, announced, late, chatVars>>

-----------------------------------------------------------------------------
(* The handshake, and the eviction of a user's oldest connections.         *)

\* ChatRateLimiter.release, on the socket's disconnect event.
\* Mutated: nothing is released.
releaseNone(gone) == UNCHANGED timestampsByConnection
release(gone) ==
  timestampsByConnection' =
    [c \in Conn |-> IF c \in gone /\ WebSocket(c) THEN <<>> ELSE timestampsByConnection[c]]

\* unregister and leaveAll, with the hooks' cleanup.
Unregister(reg, gone) ==
  /\ registry' = Kept(reg, Conn \ gone)
  /\ rooms' = [c \in Conn |-> IF c \in gone THEN {} ELSE rooms[c]]
  /\ byConnection' = forget(byConnection, gone)
  /\ socket' = [c \in Conn |-> IF c \in gone THEN "down" ELSE socket[c]]

Knock(c, kind) ==
  /\ socket[c] = "none" /\ socket' = [socket EXCEPT ![c] = "up"]
  /\ transport' = [transport EXCEPT ![c] = kind]
  /\ handshake' = [handshake EXCEPT ![c] = "auth"]
  /\ UNCHANGED <<now, waitsFor, registry, roomVars, trailVars, countVars, chatVars>>

Refuse(c) ==
  /\ handshake[c] = "auth" /\ handshake' = [handshake EXCEPT ![c] = "refused"]
  /\ socket' = [socket EXCEPT ![c] = "down"] /\ release({c})
  /\ UNCHANGED <<now, transport, waitsFor, registry, roomVars, trailVars, countVars, sends,
                 admitted, starved, intruded>>

Peers(reg, c) == Kept(reg, {d \in Conn : UserOf[d] = UserOf[c] /\ transport[d] = transport[c]})

\* A socket that is up is unregistered by its own disconnect event, which
\* nobody awaits; for an SSE stream, and a socket gone before it was
\* registered, the eviction awaits the hooks.
Awaited(d) == Sse(d) \/ socket[d] = "down"
Reason(d) == IF Awaited(d) THEN "REALTIME_TOO_MANY_CONNECTIONS" ELSE "CLIENT_DISCONNECT"

\* Evict up to the first eviction that is awaited; with none, call onConnect,
\* for an SSE stream if it is still there.
GoOn(c, reg) ==
  LET over  == SubSeq(Peers(reg, c), 1, Len(Peers(reg, c)) - maxConnectionsPerUser)
      k     == SelectInSeq(over, Awaited)
      gone  == IF k = 0 THEN over ELSE SubSeq(over, 1, k)
      left  == Range(reg) \ Range(gone)
      ended == onDisconnect(Trail, gone, [d \in Range(gone) |-> Reason(d)])
      heeds == k = 0 /\ (WebSocket(c) \/ c \in left)
  IN /\ Unregister(reg, Range(gone)) /\ release(Range(gone))
     /\ handshake' = [handshake EXCEPT ![c] = IF k = 0 THEN "done" ELSE "evicting"]
     /\ waitsFor' = [waitsFor EXCEPT ![c] = IF k = 0 THEN None ELSE gone[k]]
     /\ Written(IF heeds THEN onConnect(ended, c) ELSE ended)
     /\ announced' = IF heeds THEN announced \cup {c} ELSE announced
     /\ late' = IF heeds /\ c \notin left THEN late \cup {c} ELSE late
     /\ UNCHANGED <<now, transport, countVars, sends, admitted, starved, intruded>>

\* Nothing looks whether a WebSocket closed while it was authenticated.
Register(c) ==
  /\ handshake[c] = "auth" /\ (WebSocket(c) \/ socket[c] = "up")
  /\ GoOn(c, Append(registry, c))

Evicted(c) ==
  /\ handshake[c] = "evicting" /\ [phase |-> "disconnect", conn |-> waitsFor[c]] \notin hooks
  /\ GoOn(c, registry)

-----------------------------------------------------------------------------
(* The end of a connection.                                                *)

endRest == <<now, transport, handshake, waitsFor, countVars, announced, late, sends, admitted,
             starved, intruded>>

Ending(c, t) == /\ Unregister(registry, {c}) /\ release({c}) /\ Written(t)
                /\ UNCHANGED endRest
Closed(t, c) ==
  IF ~ Registered(c) THEN t
  ELSE onDisconnect(t, <<c>>, [d \in {c} |-> IF Sse(c) THEN "none given" ELSE "CLIENT_DISCONNECT"])

\* What the disconnect event of a socket gives as its reason and description.
Why == {"transport close", "transport error", "max payload size exceeded"}
isPayloadOverflow(why) == why = "max payload size exceeded"

\* ChatGateway's listener on that event.
onSocketDisconnect(t, c, why) == IF isPayloadOverflow(why) THEN onError(t, c) ELSE t

\* The client goes, or its frame is too large; the gateway's listener and the
\* library's come in either order.
HangUp(c, why) ==
  /\ socket[c] = "up" /\ (Sse(c) => why = "transport close")
  /\ \/ Ending(c, Closed(onSocketDisconnect(Trail, c, why), c))
     \/ Ending(c, onSocketDisconnect(Closed(Trail, c), c, why))

ReauthFails(c) ==
  /\ Sse(c) /\ Registered(c)
  /\ Ending(c, onDisconnect(onReauthenticationFailed(Trail, c), <<c>>,
                            [d \in {c} |-> "REALTIME_REAUTHENTICATION_FAILED"]))

-----------------------------------------------------------------------------
(* RoomsService, for the caller's own connection.                          *)

roomRest == <<now, connVars, trailVars, countVars, chatVars>>

\* joinRoom does nothing to a socket that is gone.
Joinable(c) == Sse(c) \/ socket[c] = "up"

join(c, r) ==
  /\ Registered(c)
  /\ rooms' = IF Joinable(c) THEN [rooms EXCEPT ![c] = @ \cup {r}] ELSE rooms
  /\ byConnection' = [byConnection EXCEPT ![c] = @ \cup {r}]
  /\ UNCHANGED roomRest

leave(c, r) ==
  /\ Registered(c)
  /\ rooms' = IF Joinable(c) THEN [rooms EXCEPT ![c] = @ \ {r}] ELSE rooms
  /\ byConnection' = [byConnection EXCEPT ![c] = @ \ {r}]
  /\ UNCHANGED roomRest

-----------------------------------------------------------------------------
(* ChatGateway and ChatRateLimiter.                                        *)

Recent(times) == Kept(times, {at \in Nat : now - at < WINDOW_MS})

\* Mutated: a dropped message counts against the window too.
tryConsumeAll(times) ==
  [ok |-> Len(Recent(times)) < MAX_MESSAGES_PER_WINDOW, times |-> Append(Recent(times), now)]
tryConsume(times) ==
  LET ok == Len(Recent(times)) < MAX_MESSAGES_PER_WINDOW
  IN [ok |-> ok, times |-> IF ok THEN Append(Recent(times), now) ELSE Recent(times)]

\* Mutated: the membership is not looked at.
MayPostAnywhere(c, r) == Registered(c)
MayPost(c, r) == Registered(c) /\ r \in byConnection[c]

\* A well-formed message for r.  It counts against the window first.
onChatMessage(c, r) ==
  LET taken == tryConsume(timestampsByConnection[c])
      sent  == taken.ok /\ MayPost(c, r)
  IN /\ WebSocket(c) /\ socket[c] = "up" /\ sends < MaxSends /\ sends' = sends + 1
     /\ timestampsByConnection' = [timestampsByConnection EXCEPT ![c] = taken.times]
     /\ admitted' = IF taken.ok THEN [admitted EXCEPT ![c] = Append(@, now)] ELSE admitted
     /\ starved' = (starved \/ (~ taken.ok /\ Len(Recent(admitted[c])) < MAX_MESSAGES_PER_WINDOW))
     /\ intruded' = (intruded \/ (sent /\ r \notin rooms[c]))
     /\ UNCHANGED <<now, connVars, roomVars, trailVars, countVars>>

Tick ==
  /\ now < MaxTime /\ now' = now + 1
  /\ UNCHANGED <<connVars, roomVars, trailVars, countVars, chatVars>>

-----------------------------------------------------------------------------
Next ==
  \/ \E c \in Conn :
       \/ Knock(c, "sse") \/ Knock(c, "websocket") \/ Refuse(c) \/ Register(c) \/ Evicted(c)
       \/ ReauthFails(c) \/ \E why \in Why : HangUp(c, why)
       \/ \E r \in Room : join(c, r) \/ leave(c, r) \/ onChatMessage(c, r)
  \/ \E call \in hooks : Dispatch(call)
  \/ Tick

Spec == Init /\ [][Next]_vars

-----------------------------------------------------------------------------
Call == [phase : {"connect", "disconnect"}, conn : Conn]

TypeOK ==
  /\ now \in 0..MaxTime
  /\ transport \in [Conn -> {None, "sse", "websocket"}]
  /\ socket \in [Conn -> {"none", "up", "down"}]
  /\ handshake \in [Conn -> {"none", "auth", "refused", "evicting", "done"}]
  /\ waitsFor \in [Conn -> Conn \cup {None}]
  /\ \A c \in Conn : waitsFor[c] # None <=> handshake[c] = "evicting"
  /\ registry \in Seq(Conn) /\ IsInjective(registry)
  /\ rooms \in [Conn -> SUBSET Room] /\ byConnection \in [Conn -> SUBSET Room]
  /\ timestampsByConnection \in [Conn -> Seq(0..MaxTime)]
  /\ \A c \in Conn : Len(timestampsByConnection[c]) <= MAX_MESSAGES_PER_WINDOW
                      /\ (socket[c] # "up" => timestampsByConnection[c] = <<>>)
  /\ entries \in Seq([conn : Conn, end : Reasons \cup {None}])
  /\ audit \in Seq([kind : {"connect", "disconnect", "error", "reauth-failed"}, conn : Conn])
  /\ Len(audit) <= AUDIT_CAPACITY
  /\ hooks \subseteq Call /\ connects \in Nat /\ disconnects \in Nat
  /\ sends \in 0..MaxSends /\ admitted \in [Conn -> Seq(0..MaxTime)]
  /\ starved \in BOOLEAN /\ intruded \in BOOLEAN
  /\ announced \subseteq Conn /\ late \subseteq announced

\* RoomMembershipTracker against the library's rooms: nothing is remembered
\* of a closed connection, and while a connection is up the two agree.
TrackerMirrors ==
  \A c \in Conn :
    /\ ~ Registered(c) => byConnection[c] = {}
    /\ Registered(c) /\ Joinable(c) => byConnection[c] = rooms[c]

\* ChatGateway: what it fans out to a room comes from a connection that the
\* library, and not the application's mirror alone, has in that room.
OnlyMembers == ~ intruded

\* ChatRateLimiter: no window of WINDOW_MS, wherever it begins, holds more
\* than the maximum from one connection, and a sender who does not stop is
\* still let through at that rate.
RateExact ==
  /\ ~ starved
  /\ \A c \in Conn : \A i \in DOMAIN admitted[c] :
       i > MAX_MESSAGES_PER_WINDOW =>
         admitted[c][i] - admitted[c][i - MAX_MESSAGES_PER_WINDOW] >= WINDOW_MS

\* ConnectionEventLog: bounded, one entry a connection, and the page shows an
\* entry open exactly while its connection is registered; except for a socket whose
\* onConnect was called after it had closed.
TimelineTrue ==
  /\ Len(entries) <= LOG_CAPACITY
  /\ \A i, j \in DOMAIN entries : entries[i].conn = entries[j].conn => i = j
  /\ \A u \in Range(UserOf) : \A entry \in timeline(u) : entry.conn \notin late =>
       (EvictionTimeline(entry) = "open" <=> Registered(entry.conn))

\* DecoratorHandlers: with no hook under way, connects and disconnects
\* differ by the connections that are registered; a stream that was closed
\* while its registration evicted another counts as a disconnect alone.
CountersBalance ==
  LET unsung == {c \in Conn : handshake[c] = "done" /\ c \notin announced}
  IN hooks = {} /\ (\A c \in Conn : handshake[c] # "evicting")
       => connects + Cardinality(unsung) = disconnects + Len(registry)
=============================================================================
