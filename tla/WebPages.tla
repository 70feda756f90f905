------------------------------ MODULE WebPages ------------------------------
(***************************************************************************)
(* The pages of the dashboard over the session, the fetches and the        *)
(* streams of Web: what each reads when it mounts, when its inputs change  *)
(* and when the feed says something, what its controls send, and what the  *)
(* answers do to it.  A text field is state only where an effect depends   *)
(* on it; elsewhere the text is chosen when it is submitted.               *)
(***************************************************************************)
EXTENDS Web

AuditKind == {"connect"}                 \* one of the four
Incident  == {"r1", "r2"}
Typed     == {0, 15, 101}                \* what a number field may hold
Notes     == {Blank, "ok", "failed"}

-----------------------------------------------------------------------------
(* A page and what it fetches *)

Fresh(p) ==
  [at    |-> p,
   input |-> CASE p = "audit" -> "all" [] p = "offline" -> Target [] OTHER -> None,
   shown |-> None, side |-> None, wiring |-> None,  \* what its reads have brought
   note  |-> Blank,        \* its error or status line
   reads |-> 0,         \* numbers its roster reads, tickets, nonces or sockets
   login |-> 0,         \* pendingUsername: the login it waits for
   card  |-> [c \in Card |-> "idle"],
   token |-> None,      \* whose bearer or ticket it holds
   live  |-> 0, owner |-> None,   \* the chat's socket, as the API has it
   joined |-> None,     \* joinedRoomId
   confirming |-> FALSE, \* isConfirming, of a row of the connections page
   sse   |-> 0, ws |-> 0,         \* the nonce each panel heard last
   via   |-> 0,         \* history: the socket the join was for
   doubt |-> FALSE]     \* history: calls overlapped, one was lost, or one was for an old input

\* how often an effect with these dependencies runs, and another that also waits
\* for an event of these
Times(why, deps, last, on) ==
  (IF why \cap deps # {} THEN 1 ELSE 0)
  + (IF why \cap (deps \cup {"event"}) # {} /\ last \in on THEN 1 ELSE 0)

Copies(c, k) == [i \in 1..k |-> c]

usePresenceLoads(p, why, tr, last, as) ==
  IF tr = None THEN <<>>
  ELSE [i \in 1..Times(why, {"mount", "traits"}, last, PRESENCE_EVENT_NAME_SET)
          |-> Call(as, "roster", TenantOf[tr], p.reads + i)]

\* Mutated: the filter is missing from the effect's dependencies.
useAuditFeedOnce(p, why, last, as) ==
  Copies(Call(as, "feed", p.input, 0), Times(why, {"mount"}, last, {"established"}))

useAuditFeed(p, why, last, as) ==
  Copies(Call(as, "feed", p.input, 0), Times(why, {"mount", "input"}, last, {"established"}))

useConnectionsRegistry(why, tr, last, as) ==
  LET k == Times(why, {"mount", "user"}, last, {"established"})
  IN Copies(Call(as, "list", None, 0), k)
     \o (IF tr = None THEN <<>> ELSE Copies(Call(as, "timeline", tr, 0), k))
     \o (IF tr # None /\ why \cap {"mount", "traits"} # {}
         THEN <<Call(as, "introspection", None, 0)>> ELSE <<>>)

useReplayLab(why, tr, as) ==
  IF tr # None /\ why \cap {"mount", "traits"} # {}
  THEN <<Call(as, "replayTimeline", tr, 0)>> ELSE <<>>

\* peek() runs, in an effect
Peeks(p, why) == p.at = "offline" /\ why \cap {"mount", "input", "admin"} # {}

peek(p, why, tr, as) ==
  IF isAdmin(tr) /\ Peeks(p, why) THEN <<Call(as, "peek", p.input, 0)>> ELSE <<>>

OnMount == [reauth |-> "stats", cluster |-> "cards", chat |-> "wsToken",
            both |-> "wsToken", ticket |-> "ticket"]

Loads(p, why, tr, last, as) ==
  CASE p.at = "presence"    -> usePresenceLoads(p, why, tr, last, as)
    [] p.at = "audit"       -> useAuditFeed(p, why, last, as)
    [] p.at = "connections" -> useConnectionsRegistry(why, tr, last, as)
    [] p.at = "replay"      -> useReplayLab(why, tr, as)
    [] p.at = "offline"     -> peek(p, why, tr, as)
    [] p.at \in DOMAIN OnMount /\ "mount" \in why
                            -> <<Call(as, OnMount[p.at], None, 0)>>
    [] OTHER                -> <<>>

\* a call was sent while one it may overtake was in flight
Overlapped(p, left, new) ==
  p.doubt \/ \E g \in {{"feed"}, {"peek"}, {"join", "leave"}} :
               /\ \E c \in Range(new) : c.kind \in g
               /\ \E c \in BagToSet(left) : c.kind \in g

\* effects run for these reasons; a member's offline page just empties its list
Render(p, why, tr, last, left) ==
  LET new == Loads(p, why, tr, last, cookie')
      reads == p.reads + IF p.at = "presence" THEN Len(new) ELSE 0
  IN /\ reads <= MaxReads
     /\ page' = [p EXCEPT !.reads = reads, !.doubt = Overlapped(p, left, new),
                          !.shown = IF Peeks(p, why) /\ ~isAdmin(tr) THEN None ELSE @]
     /\ Ask(left, new)

Mount(p, tr, left) ==
  /\ Render(Fresh(p), {"mount"}, tr, lastEvent, left)
  /\ stream' = [stream EXCEPT !["panel"] = IF p = "both" THEN connect(cookie') ELSE Closed]
  /\ member' = {}

\* the fetches an unmounted page leaves behind that can still matter
Survivors(left) ==
  [c \in {x \in BagToSet(left) : x.kind \in SessionKind} |-> left[c]]

-----------------------------------------------------------------------------
(* Session and navigation *)

Init ==
  /\ cookie \in User \cup {None}
  /\ session = [status |-> "loading", traits |-> None]
  /\ \E p \in Page :
       /\ page = Fresh(p)
       /\ calls = SeqBag(<<Call(cookie, "me", "mount", 0)>>
                         \o Loads(Fresh(p), {"mount"}, None, None, cookie))
       /\ stream = [provider |-> connect(cookie),
                    panel    |-> IF p = "both" THEN connect(cookie) ELSE Closed]
  /\ lastEvent = None /\ member = {} /\ unsure = FALSE
  /\ logins = 0 /\ drops = 0

Changed(old, new) ==
  (IF old = None /\ new = None THEN {} ELSE {"traits"})
  \cup (IF old = new THEN {} ELSE {"user"})
  \cup (IF isAdmin(old) = isAdmin(new) THEN {} ELSE {"admin"})

\* what the top bar offers
SessionControl == IF session.status = "authenticated" THEN "logout" ELSE "login"

\* the sidebar's links
NAV_GROUPS == Page \ {"login"}

\* bound: a link between two routes is followed by way of home, which reads
\* nothing: what mounting does owes nothing to the page left
Navigate(p) ==
  /\ p # page.at /\ "home" \in {p, page.at}
  /\ p \in NAV_GROUPS \/ SessionControl = "login"
  /\ UNCHANGED <<cookie, session, lastEvent, logins, drops, unsure>>
  /\ Mount(p, session.traits, Survivors(calls))

\* one button each
DEMO_USERS == User

loginAs(u) ==
  /\ logins < MaxLogins /\ Idle
  /\ logins' = logins + 1
  /\ page' = [page EXCEPT !.login = logins', !.note = Blank]
  /\ Ask(calls, <<Call(cookie, "login", u, logins')>>)
  /\ Overlap
  /\ UNCHANGED <<cookie, session, stream, lastEvent, member, drops>>

\* disabled while a login is pending
LoginPage == page.at = "login" /\ page.login = 0 /\ \E u \in DEMO_USERS : loginAs(u)

LoginAnswered(c, status) ==
  /\ c.kind = "login"
  /\ IF status = 200
     THEN /\ cookie' = c.arg
          /\ Ask(Without(c), <<Call(c.arg, "me", "login", c.n)>>)
          /\ UNCHANGED page
     ELSE /\ page' = IF page.login = c.n THEN [page EXCEPT !.login = 0, !.note = "failed"]
                                         ELSE page
          /\ Ask(Without(c), <<>>)
          /\ UNCHANGED cookie
  /\ UNCHANGED <<session, stream, lastEvent, member, logins, drops, unsure>>

\* the login that called refresh() goes home, wherever the user is by then
\* Mutated: it stays.
PushesNever(c) == FALSE
Pushes(c) == c.arg = "login" /\ page.at # "home"

\* refresh() has its answer
MeAnswered(c, status) ==
  /\ c.kind = "me"
  /\ session' = loadSession(c, status)
  /\ unsure' = (unsure \/ status = 0)
  /\ UNCHANGED <<cookie, lastEvent, logins, drops>>
  /\ IF Pushes(c)
     THEN Mount("home", session'.traits, Survivors(Without(c)))
     ELSE /\ Render(page, Changed(session.traits, session'.traits), session'.traits,
                    lastEvent, Without(c))
          /\ UNCHANGED <<stream, member>>

\* Mutated: the session is cleared before the API has answered.
logoutEager ==
  /\ SessionControl = "logout" /\ Idle
  /\ session' = [status |-> "anonymous", traits |-> None]
  /\ Ask(calls, <<Call(cookie, "logout", None, 0)>>)
  /\ Overlap
  /\ UNCHANGED <<cookie, page, stream, lastEvent, member, logins, drops>>

logout ==
  /\ SessionControl = "logout" /\ Idle
  /\ Ask(calls, <<Call(cookie, "logout", None, 0)>>)
  /\ Overlap
  /\ UNCHANGED <<cookie, session, page, stream, lastEvent, member, logins, drops>>

LogoutAnswered(c, status) ==
  /\ c.kind = "logout"
  /\ IF status = 200
     THEN /\ cookie' = None
          /\ session' = [status |-> "anonymous", traits |-> None]
          /\ Render(page, Changed(session.traits, None), None, lastEvent, Without(c))
     ELSE /\ Ask(Without(c), <<>>)
          /\ UNCHANGED <<cookie, session, page>>
  /\ UNCHANGED <<stream, lastEvent, member, logins, drops, unsure>>

-----------------------------------------------------------------------------
(* The streams *)

Still == UNCHANGED <<cookie, session, member, logins, unsure>>

\* the established event is the first thing a stream says
Opens(h) ==
  /\ stream[h].source = "opening" /\ stream[h].as # None
  /\ stream' = [stream EXCEPT ![h] = onopen(@)]
  /\ Still /\ UNCHANGED drops
  /\ IF h = "provider"
     THEN /\ lastEvent' = "established"
          /\ Render(page, {"event"}, session.traits, "established", calls)
     ELSE /\ page' = IF page.at = "ticket" THEN [page EXCEPT !.token = None] ELSE page
          /\ UNCHANGED <<lastEvent, calls>>

\* refused for want of a credential, or broken
Breaks(h) ==
  /\ stream[h].source \in {"opening", "open"}
  /\ IF stream[h].as = None THEN UNCHANGED drops
                            ELSE drops < MaxDrops /\ drops' = drops + 1
  /\ \E retry \in (IF h = "panel" /\ page.at = "connection" THEN BOOLEAN ELSE {TRUE}) :
       stream' = [stream EXCEPT ![h] = onerror(@, retry)]
  /\ Still /\ UNCHANGED <<page, calls, lastEvent>>

\* a ticket may have been spent by the attempt that failed
Credentials(h) ==
  IF h = "panel" /\ page.at = "ticket" THEN {None, page.token} ELSE {cookie}

Retries(h) ==
  /\ stream[h].source = "down" /\ stream[h].retry
  /\ \E as \in Credentials(h) : stream' = [stream EXCEPT ![h] = connect(as)]
  /\ Still /\ UNCHANGED <<page, calls, lastEvent, drops>>

\* an event other than "established" on the provider's stream
FeedEvent(e) ==
  /\ stream["provider"].source = "open" /\ Idle
  /\ lastEvent' = e
  /\ Still /\ UNCHANGED <<stream, drops>>
  /\ Render(page, {"event"}, session.traits, e, calls)

\* the lab's buttons: connect, or disconnect and kill
ConnectionControls == IF stream["panel"] = Closed THEN {"connect"} ELSE {"disconnect", "kill"}

SetPanel(h) ==
  /\ stream' = [stream EXCEPT !["panel"] = h]
  /\ Still /\ UNCHANGED <<page, calls, lastEvent, drops>>

\* mounting it connects, unmounting it disconnects
ConnectionLabPage ==
  /\ page.at = "connection"
  /\ \/ "connect" \in ConnectionControls /\ SetPanel(connect(cookie))
     \/ "disconnect" \in ConnectionControls /\ SetPanel(Closed)

\* "force reconnect" is offered while it is mounted
ManagedConnection ==
  /\ page.at = "connection" /\ stream["panel"] # Closed
  /\ SetPanel(connect(cookie))

-----------------------------------------------------------------------------
(* Controls.  Send: one more fetch, and the page as the click leaves it.   *)

Send(p, c) ==
  /\ Idle
  /\ page' = [p EXCEPT !.doubt = Overlapped(p, calls, <<c>>)]
  /\ Ask(calls, <<c>>)
  /\ Still /\ UNCHANGED <<stream, lastEvent, drops>>

\* an input an effect depends on
Enter(value) ==
  /\ page.input # value /\ Idle
  /\ Still /\ UNCHANGED <<stream, lastEvent, drops>>
  /\ Render([page EXCEPT !.input = value], {"input"}, session.traits, lastEvent, calls)

setKind(kind) == page.at = "audit" /\ Enter(kind)

setTargetUserId(u) == page.at = "offline" /\ Enter(u)

reload == page.at = "audit" /\ Send(page, Call(cookie, "feed", page.input, 0))

Polled == [connections |-> "list", reauth |-> "stats", cluster |-> "cards"]

poll == page.at \in DOMAIN Polled /\ Send(page, Call(cookie, Polled[page.at], None, 0))

simulate ==
  /\ page.at = "home"
  /\ Send([page EXCEPT !.note = Blank], Call(cookie, "simulate", None, 0))

triggerFanOut == page.at = "cluster" /\ Send(page, Call(cookie, "simulate", None, 0))

\* the rows there are to confirm on
ConnectionsList == page.at = "connections" /\ page.shown # None

\* what a page sets without fetching
Set(p) == page' = p /\ Still /\ UNCHANGED <<calls, stream, lastEvent, drops>>

\* the fetch of "confirm"; the row goes when the list read after it says so
disconnect == Send(page, Call(cookie, "disconnect", None, 0))

ConnectionRow ==
  /\ ConnectionsList
  /\ \/ ~page.confirming /\ Set([page EXCEPT !.confirming = TRUE])
     \/ page.confirming /\ Set([page EXCEPT !.confirming = FALSE])
     \/ page.confirming /\ disconnect

\* the follow-up read closes over the traits of the click
emitBurst(count) == Send(page, Call(cookie, "burst", session.traits, count))

drop == Send(page, Call(cookie, "drop", None, 0))

BurstControls == page.at = "replay" /\ (drop \/ \E n \in Typed : emitBurst(n))

dropStream == page.at = "connection" /\ "kill" \in ConnectionControls /\ drop

MIN_BURST == 1

\* the lab's own MAX_BURST is 50; `parsed` is empty for text that is no number
readBurstSize(parsed) ==
  IF parsed = {} THEN MIN_BURST ELSE Min({50, Max({MIN_BURST} \cup parsed)})

QueueControls == page.at = "offline" /\ isAdmin(session.traits)

enqueue(parsed) ==
  /\ QueueControls
  /\ Send(page, Call(cookie, "offlineEmit", page.input, readBurstSize(parsed)))

refreshQueue ==
  /\ QueueControls
  /\ Send(page, Call(cookie, "peek", page.input, 0))

\* the acknowledge button: one's own queue, and a watermark on the screen
OfflineLabPage == page.at = "offline" /\ page.shown # None /\ page.input = session.traits

drain ==
  /\ OfflineLabPage
  /\ Send(page, Call(cookie, "ack", page.input, 0))

RevocationControls == page.at = "reauth" /\ isAdmin(session.traits)

\* an empty id would be another route, so it is refused here
act(action, u) ==
  /\ RevocationControls
  /\ IF u = Blank THEN Set([page EXCEPT !.note = "failed"])
               ELSE Send(page, Call(cookie, action, u, 0))

\* Mutated: reserved names are not refused.
emitFormSchemaAny(event) == event # Blank
emitFormSchema(event) == event \notin {Blank, "reserved"}

Scope == [user |-> "emitUser", tenant |-> "emitTenant", room |-> "emitRoom",
          broadcast |-> "broadcast"]

BroadcastPage(card) == card = "broadcast" => isAdmin(session.traits)

TargetField(card) == IF card = "broadcast" THEN {None} ELSE Range(TenantOf) \cup {"scoped"}

\* every way to fill a card in
EmitCardFields(card) == [target : TargetField(card), event : {Blank, "reserved", "custom"}]

SubmitRow(card) == page.card[card] # "pending"

handleSubmit(card, form) ==
  /\ page.at = "broadcast" /\ BroadcastPage(card) /\ SubmitRow(card)
  /\ IF emitFormSchema(form.event)
     THEN Send([page EXCEPT !.card[card] = "pending"],
               [Call(cookie, Scope[card], form.target, 0) EXCEPT !.event = form.event])
     ELSE Set([page EXCEPT !.card[card] = "failed"])

emitBoth ==
  /\ page.at = "both" /\ session.traits # None /\ page.reads < MaxReads
  /\ Send([page EXCEPT !.reads = @ + 1],
          [Call(cookie, "emitUser", session.traits, page.reads + 1) EXCEPT !.event = "custom"])

\* the WebSocket panel waits for its bearer
TransportPanels(panel) ==
  IF panel = "sse" THEN stream["panel"].source = "open" ELSE page.token # None

onNonce(panel, n) ==
  Set(IF panel = "sse" THEN [page EXCEPT !.sse = n] ELSE [page EXCEPT !.ws = n])

\* a panel of the both lab hears an event: nonces pass to the page
SplitPanel(panel) ==
  /\ page.at = "both" /\ TransportPanels(panel)
  /\ \E n \in 1..page.reads : onNonce(panel, n)

fetchTicket == page.at = "ticket" /\ Send(page, Call(cookie, "ticket", None, 0))

-----------------------------------------------------------------------------
(* The chat's socket and its rooms.  The API serves a join or a leave at   *)
(* some time between its sending and its answer.                           *)

\* by its bearer once it has one, by the cookie before
Holder == IF page.token # None THEN page.token ELSE cookie

SocketOpens ==
  /\ page.at = "chat" /\ page.live = 0 /\ Holder # None /\ page.reads < MaxReads
  /\ Set([page EXCEPT !.reads = @ + 1, !.live = page.reads + 1, !.owner = Holder])

SocketGone(p) == [p EXCEPT !.live = 0, !.owner = None]

SocketBreaks ==
  /\ page.live # 0 /\ drops < MaxDrops /\ drops' = drops + 1
  /\ page' = SocketGone(page) /\ member' = {}
  /\ UNCHANGED <<cookie, session, logins, unsure, calls, stream, lastEvent>>

\* the newest established event's socket, live or not: 0 before the first
findConnectionId == page.reads

JoinLeaveControl ==
  IF findConnectionId = 0 THEN "disabled" ELSE IF page.joined # None THEN "leave" ELSE "join"

joinRoom(incident) == Send(page, Call(cookie, "join", incident, findConnectionId))

leaveRoom(incident) == Send(page, Call(cookie, "leave", incident, findConnectionId))

\* the incident field stays open and unchecked: a leave is of what it says, whichever
\* was joined
RoomControls ==
  /\ page.at = "chat"
  /\ \E incident \in Incident \cup {Blank} :
       \/ JoinLeaveControl = "join"  /\ joinRoom(incident)
       \/ JoinLeaveControl = "leave" /\ leaveRoom(incident)

assertOwned(c) ==
  IF c.n # page.live THEN 404 ELSE IF c.as # page.owner THEN 403 ELSE 200

RoomsServes(c) ==
  /\ c.kind \in roomsApi /\ c.served = 0 /\ c.as # None /\ roomMembershipSchema(c.arg)
  /\ calls' = Without(c) (+) One([c EXCEPT !.served = assertOwned(c)])
  /\ member' = IF assertOwned(c) # 200 THEN member
               ELSE IF c.kind = "join" THEN member \cup {c.arg} ELSE member \ {c.arg}
  /\ UNCHANGED <<cookie, session, page, stream, lastEvent, logins, drops, unsure>>

joined(p, c, ok) ==
  IF ok THEN [p EXCEPT !.joined = c.arg, !.via = c.n, !.note = Blank]
        ELSE [p EXCEPT !.note = "failed"]

\* Mutated: a leave does not clear joinedRoomId.
leftStay(p, ok) == p
left(p, ok) == IF ok THEN [p EXCEPT !.joined = None] ELSE p

RoomAnswered(c, status) ==
  /\ c.kind \in {"join", "leave"}
  /\ LET p == [page EXCEPT !.doubt = @ \/ status = 0]
     IN page' = IF c.kind = "join" THEN joined(p, c, status = 200) ELSE left(p, status = 200)
  /\ Ask(Without(c), <<>>)
  /\ Still /\ UNCHANGED <<stream, lastEvent, drops>>

-----------------------------------------------------------------------------
(* What the other answers do to the page *)

Told(p, ok) == [p EXCEPT !.note = IF ok THEN "ok" ELSE "failed"]

Failed(p) == [p EXCEPT !.note = "failed"]

\* Mutated: any roster read writes.
setRosterAny(p, c, ok) == IF ok THEN [p EXCEPT !.shown = Body(c), !.note = Blank] ELSE Failed(p)

\* only the newest roster read may write
setRoster(p, c, ok) ==
  IF c.n # p.reads THEN p
  ELSE IF ok THEN [p EXCEPT !.shown = Body(c), !.note = Blank] ELSE Failed(p)

setEntries(p, c, ok) ==
  IF ok THEN [p EXCEPT !.shown = Body(c), !.note = Blank] ELSE Failed(p)

\* nothing clears the error of the connections page
setConnections(p, c, ok) == IF ok THEN [p EXCEPT !.shown = Body(c)] ELSE Failed(p)

\* a timeline or a wiring that may not be read is an empty one
OrNone(c, ok) == IF ok THEN Body(c) ELSE None

\* a card of the cluster lab is blank for an instance that did not answer
fetchInstanceStats(c, ok) == OrNone(c, ok)

setQueued(p, c, ok) == IF ok THEN [p EXCEPT !.shown = Body(c)] ELSE Failed(p)

Read(p, c, ok) ==
  CASE c.kind = "roster"        -> setRoster(p, c, ok)
    [] c.kind = "feed"          -> setEntries(p, c, ok)
    [] c.kind = "list"          -> setConnections(p, c, ok)
    [] c.kind = "timeline"      -> [p EXCEPT !.side = OrNone(c, ok)]
    [] c.kind = "introspection" -> [p EXCEPT !.wiring = OrNone(c, ok)]
    [] c.kind = "peek"          -> setQueued(p, c, ok)
    [] c.kind = "cards"         -> [p EXCEPT !.shown = fetchInstanceStats(c, ok)]
    [] c.kind \in {"replayTimeline", "stats"} -> [p EXCEPT !.shown = OrNone(c, ok)]

Reads == {"roster", "feed", "list", "timeline", "introspection", "peek", "replayTimeline",
          "stats", "cards"}

ReadAnswered(c, status) ==
  /\ c.kind \in Reads
  /\ page' = Read(page, c, status = 200)
  /\ Ask(Without(c), <<>>)
  /\ Still /\ UNCHANGED <<stream, lastEvent, drops>>

\* the card an emit was submitted from
setFeedback(p, c, ok) ==
  LET card == CHOOSE s \in DOMAIN Scope : Scope[s] = c.kind
  IN IF p.at = "both" THEN Told(p, ok)
     ELSE [p EXCEPT !.card[card] = IF ok THEN "ok" ELSE "failed"]

\* what the handler of a click that worked reads again; who acknowledges has a
\* list on the screen, and so is an admin
Again(c) ==
  CASE c.kind = "disconnect"                          -> <<Call(cookie, "list", None, 0)>>
    [] c.kind = "burst" /\ c.arg # None               -> <<Call(cookie, "replayTimeline", c.arg, 0)>>
    [] c.kind \in {"offlineEmit", "ack"}               -> <<Call(cookie, "peek", c.arg, 0)>>
    [] OTHER                                          -> <<>>

Clicks == emitApi \cup {"simulate", "disconnect", "burst", "drop", "offlineEmit", "ack",
                      "revoke", "restore"}

ClickAnswered(c, status) ==
  LET ok  == status = 200
      new == IF ok THEN Again(c) ELSE <<>>
      p   == CASE c.kind \in emitApi            -> setFeedback(page, c, ok)
               [] c.kind = "disconnect" /\ ok   -> page
               [] OTHER                         -> Told(page, ok)
  IN /\ c.kind \in Clicks
     /\ page' = [p EXCEPT !.doubt = \/ Overlapped(p, Without(c), new)
                                   \/ \E d \in Range(new) : d.kind = "peek" /\ d.arg # p.input]
     /\ Ask(Without(c), new)
     /\ Still /\ UNCHANGED <<stream, lastEvent, drops>>

\* a fresh ticket mounts a fresh stream
setTicket(c, ok) ==
  IF ok THEN /\ page.reads < MaxReads
             /\ page' = [page EXCEPT !.token = c.as, !.reads = @ + 1, !.note = Blank]
             /\ stream' = [stream EXCEPT !["panel"] = connect(c.as)]
             /\ UNCHANGED member
        ELSE page' = Failed(page) /\ UNCHANGED <<stream, member>>

\* the chat's hook has a new credential, and replaces its socket
setWsToken(c, ok) ==
  /\ page' = [IF ok THEN SocketGone(page) ELSE page EXCEPT !.token = IF ok THEN c.as ELSE None]
  /\ member' = IF ok THEN {} ELSE member
  /\ UNCHANGED stream

TokenAnswered(c, status) ==
  /\ c.kind \in {"ticket", "wsToken"}
  /\ IF c.kind = "ticket" THEN setTicket(c, status = 200) ELSE setWsToken(c, status = 200)
  /\ Ask(Without(c), <<>>)
  /\ UNCHANGED <<cookie, session, lastEvent, logins, drops, unsure>>

-----------------------------------------------------------------------------
Answered(c, status) ==
  \/ LoginAnswered(c, status) \/ MeAnswered(c, status) \/ LogoutAnswered(c, status)
  \/ ReadAnswered(c, status)  \/ ClickAnswered(c, status)
  \/ TokenAnswered(c, status) \/ RoomAnswered(c, status)

Control ==
  \/ \E k \in AuditKind \cup {"all"} : setKind(k)
  \/ \E u \in User \cup {Blank} : setTargetUserId(u) \/ act("revoke", u) \/ act("restore", u)
  \/ reload \/ poll \/ simulate \/ triggerFanOut \/ ConnectionRow \/ BurstControls \/ dropStream
  \/ refreshQueue \/ drain \/ emitBoth \/ fetchTicket \/ RoomControls
  \/ \E parsed \in {{}} \cup {{n} : n \in Typed} : enqueue(parsed)
  \/ \E card \in Card : \E form \in EmitCardFields(card) : handleSubmit(card, form)

Next ==
  \/ LoginPage \/ logout
  \/ \E p \in Page : Navigate(p)
  \/ \E c \in BagToSet(calls) : RoomsServes(c) \/ \E status \in request(c) : Answered(c, status)
  \/ \E h \in Hook : Opens(h) \/ Breaks(h) \/ Retries(h)
  \/ \E e \in SSE_APPLICATION_EVENT_NAMES \cup PRESENCE_EVENT_NAME_SET : FeedEvent(e)
  \/ ConnectionLabPage \/ ManagedConnection
  \/ \E panel \in {"sse", "ws"} : SplitPanel(panel)
  \/ SocketOpens \/ SocketBreaks
  \/ Control

Spec == Init /\ [][Next]_vars

-----------------------------------------------------------------------------
(* Properties *)

\* Every variable keeps to its values, and the bounds of the model hold.
TypeOK ==
  /\ cookie \in User \cup {None}
  /\ session \in [status : {"loading", "anonymous", "authenticated"}, traits : User \cup {None}]
  /\ page.at \in Page /\ page.note \in Notes /\ page.token \in User \cup {None}
  /\ page.card \in [Card -> {"idle", "pending", "ok", "failed"}]
  /\ {page.reads, page.live, page.via, page.sse, page.ws} \subseteq 0..MaxReads
  /\ page.login \in 0..MaxLogins /\ page.confirming \in BOOLEAN
  /\ IsABag(calls)
  /\ stream \in [Hook -> [source : {"none", "opening", "open", "down"},
                          as : User \cup {None}, retry : BOOLEAN]]
  /\ lastEvent \in {None, "established", "presence", "other"}
  /\ member \subseteq Incident
  /\ logins \in 0..MaxLogins /\ drops \in 0..MaxDrops /\ unsure \in BOOLEAN

\* Once no roster read is in flight, the roster on the screen is the newest
\* read's, or the newest read failed and the page says so: however the answers
\* were ordered, a superseded roster never stays (presence/page.tsx:30-51).
RosterNewest ==
  page.at = "presence" /\ page.reads > 0 /\ ~InFlight({"roster"}) /\ page.note # "failed"
    => page.shown # None /\ page.shown.n = page.reads

\* With no session call in flight, the session context says what the cookie
\* says, unless two session calls overlapped or a read of the session was lost:
\* no other order of logins, logouts and navigation tears them apart
\* (session-context.tsx:51-68, login/page.tsx:34-46).
TraitsTrue == AtRest /\ ~unsure => session.traits = cookie

\* With no session call in flight, nothing on the screen was read as a user
\* other than the one signed in: a login leaves the page it finds, whatever was
\* mounted while it was in flight (login/page.tsx:38-39).
NobodyElsesData ==
  AtRest /\ cookie # None =>
    \A body \in {page.shown, page.side, page.wiring} \ {None} : body.as = cookie

\* A joined room is a room the socket is in, as long as it is the socket that
\* joined, and no two room calls overlapped or lost their answer: joins, leaves
\* of another incident and replaced sockets in any order (chat/page.tsx:83-127).
ChatHonest ==
  /\ page.at = "chat" /\ page.joined # None /\ ~page.doubt
  /\ page.live = page.via /\ ~InFlight({"join", "leave"})
  => page.joined \in member

\* A filtered listing shows what its filter says, unless two of its reads
\* overlapped, the newest failed, or a click made before the filter changed read
\* again with the filter it had closed over: neither the feed of another kind nor the
\* queue of another user stays (audit/page.tsx:62-82, offline/page.tsx:85-97).
ListMatches ==
  /\ page.at = "audit" \/ (page.at = "offline" /\ isAdmin(session.traits))
  /\ page.shown # None /\ ~InFlight({"feed", "peek"}) /\ ~page.doubt /\ page.note # "failed"
  => page.shown.arg = page.input

\* What a page sends as it was typed, whatever the API's schema says of it: a count
\* of the replay lab, a target of the offline lab, an incident of the chat.
Unchecked(c) ==
  \/ c.kind = "burst" /\ ~burstSchema(c.n)
  \/ c.kind \in {"offlineEmit", "peek"} /\ c.arg = Blank
  \/ c.kind \in roomsApi /\ ~roomMembershipSchema(c.arg)

\* What a page sends whoever asks: the reads of the connections, reauth and replay
\* pages, the kick of a row, and emits whose target is for the API to judge.
LeftToGuard(c) ==
  \/ c.kind \in {"list", "introspection", "timeline", "disconnect", "stats", "replayTimeline"}
  \/ c.kind = "emitTenant" /\ c.arg # TenantOf[c.as]
  \/ c.kind = "emitRoom" /\ c.arg = "scoped"

\* As long as the session context is right, nothing the pages send is refused for its
\* shape but an unchecked field, and nothing for who asks but what is left to the
\* guard, whatever was in flight when it was sent: the forms are no weaker than the
\* schemas and no admin's call is made for a member (emit-schema.ts:18-24,
\* offline/page.tsx:40-53,76-97, reauth/page.tsx:72-81).  Whose connection a join is
\* of is judged later, when it is served.
OnlyUncheckedRefused ==
  [][(AtRest /\ ~unsure)' =>
       \A c \in BagToSet(calls') \ BagToSet(calls) : c.served = 0 =>
         /\ 400 \in Statuses(c) => Unchecked(c)
         /\ 403 \in Statuses(c) => LeftToGuard(c)]_vars
=============================================================================
