---------------------------- MODULE SessionsProofs ----------------------------
(***************************************************************************)
(* Proofs about Sessions for every set of users, connections and tickets,  *)
(* every lifetime and every bound.                                         *)
(***************************************************************************)
EXTENDS Sessions, SequenceFacts

\* Every action of Next under its own name, for the case splits below.
LEMMA NextActions ==
  ASSUME Next
  PROVE  \/ \E u \in User : Login(u) \/ Logout(u) \/ mint(u) \/ Revoke(u) \/ Unrevoke(u)
         \/ \E u \in User, t \in Ticket : IssueTicket(u, t)
         \/ \E c \in Conn : Open(c) \/ Leave(c)
         \/ \E c \in Conn, u \in User : ByBearer(c, u)
         \/ \E c \in Conn, u \in User, k \in {"sse", "websocket"} : ByCookie(c, u, k)
         \/ \E c \in Conn, t \in Ticket, k \in {"sse", "websocket"} : ByTicket(c, t, k)
         \/ \E c \in Conn, t \in Ticket : TicketRejected(c, t)
         \/ Tick \/ CycleStart
         \/ \E y \in cycles : Ask(y) \/ AskFails(y) \/ Passed(y) \/ Failed(y)
BY DEF Next

-----------------------------------------------------------------------------
\* The tokens and the keys have their types.
TokenTypes ==
  /\ now \in Nat
  /\ cookie \in [User -> Time] /\ bearer \in [User -> Time] /\ marker \in [User -> Time]
  /\ holder \in [Ticket -> User \cup {None}] /\ ticketKey \in [Ticket -> Time]
  /\ admittedBy \in [Conn -> Ticket \cup {None}]
  /\ killing \in [User -> SUBSET Nat]

\* A ticket that admitted somebody was issued, and its key is gone for good.
TicketSpent ==
  \A c \in Conn : admittedBy[c] # None =>
    holder[admittedBy[c]] # None /\ ticketKey[admittedBy[c]] = None

\* Nothing that admits a user outlives a session begun now.
WithinSession ==
  /\ \A u \in User : /\ cookie[u] # None => cookie[u] <= now + SESSION_TTL_SECONDS
                     /\ bearer[u] # None => bearer[u] <= now + SESSION_TTL_SECONDS
  /\ \A t \in Ticket : ticketKey[t] # None => ticketKey[t] <= now + SESSION_TTL_SECONDS

\* The marker stands at least as long as what it was set against.
MarkerCovers ==
  \A u \in User : \A e \in killing[u] : marker[u] # None /\ now < e /\ e <= marker[u]

IInv == TokenTypes /\ TicketSpent /\ TicketOnce /\ WithinSession /\ MarkerCovers

LEMMA InitIInv == Init => IInv
BY ConstantsAssumption, SMT
   DEF Init, IInv, TokenTypes, TicketSpent, TicketOnce, WithinSession, MarkerCovers, Time

\* Everything the actions about streams, cycles and the credentials other
\* than a ticket leave alone.
credentialVars == <<now, cookie, bearer, holder, ticketKey, marker, admittedBy, killing>>

LEMMA Untouched == IInv /\ UNCHANGED credentialVars => IInv'
BY DEF IInv, TokenTypes, TicketSpent, TicketOnce, WithinSession, MarkerCovers, credentialVars

LEMMA LeavesCredentials ==
  ASSUME \/ \E c \in Conn : Open(c) \/ Leave(c)
         \/ \E c \in Conn, u \in User : ByBearer(c, u)
         \/ \E c \in Conn, u \in User, k \in {"sse", "websocket"} : ByCookie(c, u, k)
         \/ CycleStart
         \/ \E y \in cycles : Ask(y) \/ AskFails(y) \/ Passed(y) \/ Failed(y)
  PROVE  UNCHANGED credentialVars
BY DEF Open, Leave, ByBearer, ByCookie, CycleStart, Ask, AskFails, Passed, Failed, streamRest,
       authRest, cycleRest, tokenVars, redisVars, orderVars, credentialVars

-----------------------------------------------------------------------------
\* A credential is issued within the lifetime of a session.
LEMMA IssueStep ==
  ASSUME IInv, NEW u \in User,
         Login(u) \/ Logout(u) \/ mint(u) \/ \E t \in Ticket : IssueTicket(u, t)
  PROVE  IInv'
<1> USE ConstantsAssumption DEF IInv, issueRest, streamVars, orderVars
<1>1. UNCHANGED <<now, marker, admittedBy, killing>>
  BY DEF Login, issue, Logout, mint, IssueTicket
<1>2. TokenTypes'
  BY <1>1 DEF TokenTypes, Time, Login, issue, Logout, mint, IssueTicket
<1>3. \A t \in Ticket : holder[t] # None => holder'[t] # None /\ ticketKey'[t] = ticketKey[t]
  BY DEF TokenTypes, Login, issue, Logout, mint, IssueTicket
<1>4. TicketSpent'
  BY <1>1, <1>3 DEF TicketSpent, TokenTypes
<1>5. TicketOnce'
  BY <1>1 DEF TicketOnce
<1>6. WithinSession'
  BY <1>1 DEF WithinSession, TokenTypes, Time, Login, issue, Logout, mint, IssueTicket
<1>7. MarkerCovers'
  BY <1>1 DEF MarkerCovers
<1> QED
  BY <1>2, <1>4, <1>5, <1>6, <1>7

\* GETDEL: who finds the key is the only one ever to find it.
LEMMA TicketStep ==
  ASSUME IInv, NEW c \in Conn, NEW t \in Ticket, NEW k, ByTicket(c, t, k)
  PROVE  IInv'
<1> USE ConstantsAssumption DEF IInv, ByTicket, consume, authRest, tokenVars, orderVars
<1>1. UNCHANGED <<now, cookie, bearer, holder, marker, killing>>
  OBVIOUS
<1>2. /\ ticketKey' = [ticketKey EXCEPT ![t] = None]
      /\ admittedBy' = IF Alive(ticketKey[t]) THEN [admittedBy EXCEPT ![c] = t] ELSE admittedBy
  OBVIOUS
<1>3. TokenTypes'
  BY <1>1, <1>2 DEF TokenTypes, Time
<1>4. Alive(ticketKey[t]) => \A d \in Conn : admittedBy[d] # t
  BY DEF TicketSpent, Alive
<1>5. TicketSpent'
  BY <1>1, <1>2 DEF TicketSpent, TokenTypes
<1>6. TicketOnce'
  BY <1>2, <1>4 DEF TicketOnce, TokenTypes
<1>7. WithinSession'
  BY <1>1, <1>2 DEF WithinSession, TokenTypes
<1>8. MarkerCovers'
  BY <1>1 DEF MarkerCovers
<1> QED
  BY <1>3, <1>5, <1>6, <1>7, <1>8

\* A rejected GETDEL admits nobody, whether or not it deleted the key.
LEMMA RejectedStep ==
  ASSUME IInv, NEW c \in Conn, NEW t \in Ticket, TicketRejected(c, t)
  PROVE  IInv'
<1>1. /\ UNCHANGED <<now, cookie, bearer, holder, marker, killing, admittedBy>>
      /\ ticketKey' \in {ticketKey, [ticketKey EXCEPT ![t] = None]}
  BY DEF TicketRejected, authRest, tokenVars, orderVars
<1>2. TokenTypes' /\ TicketSpent' /\ WithinSession'
  BY <1>1 DEF IInv, TokenTypes, Time, TicketSpent, WithinSession
<1>3. TicketOnce' /\ MarkerCovers'
  BY <1>1 DEF IInv, TicketOnce, MarkerCovers
<1> QED
  BY <1>2, <1>3 DEF IInv

\* A revocation is set against what is good at that moment, none of which
\* outlives a session.
LEMMA OrderStep ==
  ASSUME IInv, NEW u \in User, Revoke(u) \/ Unrevoke(u)
  PROVE  IInv'
<1> USE ConstantsAssumption DEF orderRest, tokenVars, streamVars
<1>1. UNCHANGED <<now, cookie, bearer, holder, ticketKey, admittedBy>>
  BY DEF Revoke, Unrevoke
<1>2. \A e \in Held(u) : e \in Nat /\ now < e /\ e <= now + SESSION_TTL_SECONDS
  BY DEF IInv, TokenTypes, Time, WithinSession, Held, Alive
<1>3. CASE Revoke(u)
  <2>1. /\ marker' = [marker EXCEPT ![u] = now + SESSION_TTL_SECONDS]
        /\ killing' = [killing EXCEPT ![u] = Held(u)]
    BY <1>3 DEF Revoke, revoke
  <2>2. TokenTypes'
    BY <1>1, <1>2, <2>1 DEF IInv, TokenTypes, Time
  <2>3. MarkerCovers'
    BY <1>1, <1>2, <2>1 DEF IInv, TokenTypes, MarkerCovers
  <2> QED
    BY <1>1, <2>2, <2>3 DEF IInv, TicketSpent, TicketOnce, WithinSession
<1>4. CASE Unrevoke(u)
  <2>1. /\ marker' = [marker EXCEPT ![u] = None]
        /\ killing' = [killing EXCEPT ![u] = {}]
    BY <1>4 DEF Unrevoke, unrevoke
  <2>2. TokenTypes'
    BY <1>1, <2>1 DEF IInv, TokenTypes, Time
  <2>3. MarkerCovers'
    BY <1>1, <2>1 DEF IInv, TokenTypes, MarkerCovers
  <2> QED
    BY <1>1, <2>2, <2>3 DEF IInv, TicketSpent, TicketOnce, WithinSession
<1> QED
  BY <1>3, <1>4

\* A key or a cookie that expires takes with it no other, and the marker
\* is never the first of those it covers.
LEMMA TickStep == IInv /\ Tick => IInv'
<1> SUFFICES ASSUME IInv, Tick PROVE IInv'
  OBVIOUS
<1> USE ConstantsAssumption
<1>1. /\ now' = now + 1
      /\ cookie' = [u \in User |-> IF cookie[u] = now + 1 THEN None ELSE cookie[u]]
      /\ ticketKey' = [t \in Ticket |-> IF ticketKey[t] = now + 1 THEN None ELSE ticketKey[t]]
      /\ marker' = [u \in User |-> IF marker[u] = now + 1 THEN None ELSE marker[u]]
      /\ bearer' = [u \in User |-> IF bearer[u] = now + 1 THEN 0 ELSE bearer[u]]
      /\ killing' = [u \in User |-> killing[u] \ {now + 1}]
      /\ UNCHANGED <<holder, admittedBy>>
  BY DEF IInv, TokenTypes, Tick, Expired, Lapsed, streamVars
<1>2. TokenTypes'
  BY <1>1 DEF IInv, TokenTypes, Time
<1>3. TicketSpent'
  BY <1>1 DEF IInv, TokenTypes, TicketSpent
<1>4. TicketOnce'
  BY <1>1 DEF IInv, TicketOnce
<1>5. WithinSession'
  BY <1>1 DEF IInv, TokenTypes, Time, WithinSession
<1>6. MarkerCovers'
  BY <1>1 DEF IInv, TokenTypes, Time, MarkerCovers
<1> QED
  BY <1>2, <1>3, <1>4, <1>5, <1>6 DEF IInv

-----------------------------------------------------------------------------
LEMMA StepIInv == IInv /\ [Next]_vars => IInv'
<1> SUFFICES ASSUME IInv, [Next]_vars PROVE IInv'
  OBVIOUS
<1>1. CASE UNCHANGED vars
  BY <1>1, Untouched
     DEF vars, tokenVars, redisVars, streamVars, orderVars, credentialVars
<1>2. CASE Next
  BY <1>2, NextActions, Untouched, LeavesCredentials, IssueStep, TicketStep, RejectedStep,
     OrderStep, TickStep
<1> QED
  BY <1>1, <1>2

\* A ticket that admitted is gone, and nothing good outlives the marker.
THEOREM Invariance == Spec => []IInv
BY InitIInv, StepIInv, PTL DEF Spec

\* TicketService.consume: whatever number of connections present a ticket at
\* once, with errors, at most one is ever admitted with it.
THEOREM TicketAdmitsOne == Spec => []TicketOnce
BY Invariance, PTL DEF IInv

\* RedisRevocationStore.revoke: the marker's lifetime, that of a session, is
\* enough for every cookie, ticket and bearer, whatever their lifetimes, as
\* long as those of a ticket and a bearer do not exceed a session's.
THEOREM MarkerOutlivesAll == Spec => []MarkerOutlives
<1>1. IInv => MarkerOutlives
  <2> SUFFICES ASSUME IInv, NEW u \in User, NEW e \in killing[u], now < e
               PROVE Alive(marker[u])
    BY DEF MarkerOutlives
  <2>1. marker[u] \in Nat /\ e \in Nat /\ now \in Nat /\ e <= marker[u]
    BY ConstantsAssumption DEF IInv, TokenTypes, Time, MarkerCovers
  <2> QED
    BY <2>1, ConstantsAssumption DEF Alive
<1> QED
  BY <1>1, Invariance, PTL
-----------------------------------------------------------------------------
(* The streams, and the cycles that watch them.                            *)

\* The marker in Redis is what the operators mean, to the tick.
MarkerAgrees ==
  \A u \in User :
    \/ revokedTill[u] = 0 /\ marker[u] = None
    \/ /\ now < revokedTill[u] /\ revokedTill[u] <= now + SESSION_TTL_SECONDS
       /\ marker[u] = revokedTill[u]

\* A connection somebody was admitted with.
Known(c) == stage[c] # "none" /\ traits[c] # NoTraits
Was(c) == stage[c] \in {"open", "closed"} /\ traits[c] # NoTraits

\* A cycle and the cache only know streams that were opened.
StreamsKnown ==
  /\ \A c \in Conn : /\ traits[c] # NoTraits => Known(c)
                     /\ cache[c] # None => Was(c)
  /\ \A y \in cycles : \A c \in Range(y.todo) \cup y.due : Was(c)

\* A cycle belongs to one firing of the timer, and so does what it caches.
CyclesTimed ==
  /\ \A y \in cycles : /\ y.start <= now /\ y.start + IntervalSeconds <= timer
                       /\ y.phase # "asking" => y.todo # <<>>
  /\ \A c \in Conn : cache[c] # None => cache[c] <= now /\ cache[c] + IntervalSeconds <= timer

\* Cycle y was told that c is still valid, and has not written it down.
Vouches(y, c) == y.phase = "valid" /\ Head(y.todo) = c

\* A revoked user was last vouched for by a cycle from before the revocation.
VouchedBefore ==
  \A c \in Conn : traits[c] # NoTraits /\ Meant(traits[c].userId) =>
    LET till == revokedTill[traits[c].userId] IN
    /\ cache[c] # None => cache[c] + SESSION_TTL_SECONDS <= till
    /\ \A y \in cycles : Vouches(y, c) => y.start + SESSION_TTL_SECONDS <= till

\* What a cycle owes, it neither finds in the cache nor will be told is valid.
DueAsked ==
  \A y \in cycles : \A c \in y.due :
    /\ Meant(traits[c].userId)
    /\ cache[c] # None => cache[c] + CacheTtl <= y.start
    /\ ~ Vouches(y, c)
    /\ \A x \in cycles : Vouches(x, c) => x.start + CacheTtl <= y.start

\* Who is open while the user is revoked, or was found to be, is tainted.
TaintedOpen ==
  /\ \A c \in Conn : stage[c] = "open" /\ Meant(traits[c].userId) => c \in tainted
  /\ errors = 0 => \A y \in cycles :
       y.phase = "failed" /\ stage[Head(y.todo)] = "open" => Head(y.todo) \in tainted

\* The types, in two halves.
TokensOK ==
  /\ now \in 0..MaxTime
  /\ cookie \in [User -> Time] /\ bearer \in [User -> Time] /\ marker \in [User -> Time]
  /\ holder \in [Ticket -> User \cup {None}] /\ ticketKey \in [Ticket -> Time]
  /\ logins \in 0..MaxLogins /\ orders \in 0..MaxOrders /\ errors \in 0..MaxErrors
  /\ admittedBy \in [Conn -> Ticket \cup {None}]
  /\ revokedTill \in [User -> Nat] /\ killing \in [User -> SUBSET Nat]

StreamsOK ==
  /\ stage \in [Conn -> {"none", "admitted", "open", "closed"}]
  /\ traits \in [Conn -> [userId : User, transport : {"sse", "websocket"}] \cup {NoTraits}]
  /\ \A c \in Conn : stage[c] \in {"admitted", "open"} => traits[c] # NoTraits
  /\ registry \in Seq(Conn)
  /\ Range(registry) = {c \in Conn : stage[c] = "open" /\ traits[c].transport = "sse"}
  /\ timer \in now..(now + IntervalSeconds)
  /\ cycles \subseteq Cycle /\ cache \in [Conn -> Time]
  /\ tainted \subseteq Conn /\ evicted \subseteq Conn

LEMMA TwoHalves == TypeOK <=> TokensOK /\ StreamsOK
BY DEF TypeOK, TokensOK, StreamsOK

\* What the streams, the cycles and the marker have to do with each other.
WatchInv ==
  /\ StreamsOK /\ IsInjective(registry) /\ MarkerAgrees /\ StreamsKnown /\ CyclesTimed
  /\ VouchedBefore /\ DueAsked /\ CaughtNextCycle /\ TaintedOpen /\ RestoredStays

SInv == TokensOK /\ WatchInv

LEMMA InitSInv == Init => SInv
<1> SUFFICES ASSUME Init PROVE SInv
  OBVIOUS
<1> USE ConstantsAssumption DEF Init, NoTraits
<1>1. TokensOK
  BY DEF TokensOK, Time
<1>2. StreamsOK
  <2>1. registry = <<>> /\ Range(registry) = {}
    BY DEF Range
  <2> QED BY <2>1 DEF StreamsOK, Time
<1>3. IsInjective(registry)
  BY DEF IsInjective
<1>4. MarkerAgrees /\ StreamsKnown /\ CyclesTimed /\ VouchedBefore
  BY DEF MarkerAgrees, StreamsKnown, CyclesTimed, VouchedBefore
<1>5. DueAsked /\ CaughtNextCycle /\ TaintedOpen /\ RestoredStays
  BY DEF DueAsked, CaughtNextCycle, TaintedOpen, RestoredStays
<1> QED BY <1>1, <1>2, <1>3, <1>4, <1>5 DEF SInv, WatchInv

\* What the watch depends on.
watchVars == <<now, marker, stage, traits, registry, timer, cycles, cache, errors, revokedTill,
               tainted, evicted>>

LEMMA WatchUntouched == WatchInv /\ UNCHANGED watchVars => WatchInv'
BY DEF WatchInv, StreamsOK, MarkerAgrees, StreamsKnown, CyclesTimed, VouchedBefore, DueAsked,
       CaughtNextCycle, TaintedOpen, RestoredStays, watchVars, Known, Was, Meant, Vouches

-----------------------------------------------------------------------------
LEMMA TokensStep ==
  ASSUME SInv, [Next]_vars
  PROVE  TokensOK'
<1> USE ConstantsAssumption DEF SInv, TokensOK, Time, tokenVars, redisVars, streamVars, cycleVars,
        orderVars, issueRest, authRest, streamRest, orderRest, cycleRest
<1>1. ASSUME NEW u \in User, Login(u) \/ Logout(u) \/ mint(u) PROVE TokensOK'
  BY <1>1 DEF Login, issue, Logout, mint
<1>2. ASSUME NEW u \in User, Revoke(u) PROVE TokensOK'
  <2>1. Held(u) \subseteq Nat
    BY DEF Held, Alive
  <2> QED BY <1>2, <2>1 DEF Revoke, revoke, Order
<1>3. ASSUME NEW u \in User, Unrevoke(u) PROVE TokensOK'
  BY <1>3 DEF Unrevoke, unrevoke, Order
<1>4. ASSUME NEW u \in User, NEW t \in Ticket, IssueTicket(u, t) PROVE TokensOK'
  BY <1>4 DEF IssueTicket
<1>5. ASSUME NEW c \in Conn, Open(c) \/ Leave(c) PROVE TokensOK'
  BY <1>5 DEF Open, Leave
<1>6. ASSUME NEW c \in Conn, NEW u \in User, ByBearer(c, u) PROVE TokensOK'
  BY <1>6 DEF ByBearer
<1>7. ASSUME NEW c \in Conn, NEW u \in User, NEW k, ByCookie(c, u, k) PROVE TokensOK'
  BY <1>7 DEF ByCookie
<1>8. ASSUME NEW c \in Conn, NEW t \in Ticket, NEW k, ByTicket(c, t, k) PROVE TokensOK'
  BY <1>8 DEF ByTicket, consume
<1>9. ASSUME NEW c \in Conn, NEW t \in Ticket, TicketRejected(c, t) PROVE TokensOK'
  BY <1>9 DEF TicketRejected
<1>10. CASE Tick
  <2>1. /\ now' = now + 1 /\ now < MaxTime
        /\ cookie' = Expired(cookie) /\ ticketKey' = Expired(ticketKey)
        /\ marker' = Expired(marker) /\ bearer' = Lapsed(bearer)
        /\ revokedTill' = Lapsed(revokedTill) /\ killing' = [u \in User |-> killing[u] \ {now + 1}]
        /\ UNCHANGED <<holder, logins, orders, errors, admittedBy>>
    BY <1>10 DEF Tick
  <2>2. now' \in 0..MaxTime
    BY <2>1
  <2>3. cookie' \in [User -> Time] /\ marker' \in [User -> Time]
    BY <2>1 DEF Expired
  <2>4. ticketKey' \in [Ticket -> Time]
    BY <2>1 DEF Expired
  <2>5. bearer' \in [User -> Time] /\ revokedTill' \in [User -> Nat]
    BY <2>1 DEF Lapsed
  <2>6. killing' \in [User -> SUBSET Nat]
    BY <2>1
  <2> QED BY <2>1, <2>2, <2>3, <2>4, <2>5, <2>6
<1>11. CASE CycleStart
  BY <1>11 DEF CycleStart
<1>12. ASSUME NEW y \in cycles, Ask(y) \/ AskFails(y) \/ Passed(y) \/ Failed(y)
       PROVE  TokensOK'
  <2>1. CASE Ask(y)
    BY <2>1 DEF Ask
  <2>2. CASE AskFails(y)
    <3>1. UNCHANGED cycleRest /\ errors < MaxErrors /\ errors' = errors + 1
      BY <2>2 DEF AskFails
    <3>2. errors' \in 0..MaxErrors
      BY <3>1
    <3> QED BY <3>1, <3>2
  <2>3. CASE Passed(y)
    BY <2>3 DEF Passed
  <2>4. CASE Failed(y)
    BY <2>4 DEF Failed
  <2> QED BY <1>12, <2>1, <2>2, <2>3, <2>4
<1>13. CASE UNCHANGED vars
  BY <1>13 DEF vars
<1> QED BY <1>1, <1>2, <1>3, <1>4, <1>5, <1>6, <1>7, <1>8, <1>9, <1>10, <1>11, <1>12, <1>13,
      NextActions

-----------------------------------------------------------------------------
\* A connection that is decided on is new to every cycle and to the cache.
LEMMA DecideStep ==
  ASSUME WatchInv, errors \in Nat, NEW c \in Conn, NEW u \in User,
         NEW k \in {"sse", "websocket"}, NEW ok, Decide(c, ok, u, k),
         UNCHANGED <<now, marker, registry, timer, cycles, cache, revokedTill, tainted, evicted>>,
         errors' = errors \/ errors' = errors + 1
  PROVE  WatchInv'
<1> USE ConstantsAssumption DEF WatchInv, StreamsOK
<1>1. /\ stage[c] = "none" /\ traits[c] = NoTraits
      /\ \/ /\ stage' = [stage EXCEPT ![c] = "admitted"]
            /\ traits' = [traits EXCEPT ![c] = [userId |-> u, transport |-> k]]
         \/ /\ stage' = [stage EXCEPT ![c] = "closed"]
            /\ UNCHANGED traits
  BY DEF Decide, StreamsKnown, Known
<1>2. [userId |-> u, transport |-> k] # NoTraits
  BY DEF NoTraits
<1>3. \A d \in Conn : d # c => stage'[d] = stage[d] /\ traits'[d] = traits[d]
  BY <1>1
<1>4. stage'[c] \in {"admitted", "closed"} /\ (stage'[c] = "admitted" => traits'[c] # NoTraits)
  BY <1>1, <1>2
<1>5. c \notin Range(registry) /\ \A d \in Range(registry) : traits'[d] = traits[d]
  BY <1>1, <1>3
<1>6. StreamsOK'
  <2>1. stage' \in [Conn -> {"none", "admitted", "open", "closed"}]
    BY <1>1
  <2>2. traits' \in [Conn -> [userId : User, transport : {"sse", "websocket"}] \cup {NoTraits}]
    BY <1>1
  <2>3. Range(registry) = {d \in Conn : stage'[d] = "open" /\ traits'[d].transport = "sse"}
    BY <1>1, <1>3, <1>4
  <2>4. \A d \in Conn : stage'[d] \in {"admitted", "open"} => traits'[d] # NoTraits
    BY <1>3, <1>4
  <2> QED BY <2>1, <2>2, <2>3, <2>4
<1>7. MarkerAgrees' /\ CyclesTimed' /\ IsInjective(registry)'
  BY DEF MarkerAgrees, CyclesTimed
<1>8. /\ \A y \in cycles : c \notin Range(y.todo) /\ c \notin y.due
      /\ cache[c] = None
  BY <1>1 DEF StreamsKnown, Was
<1>9. StreamsKnown'
  <2>1. \A d \in Conn : Was(d) => Was(d)'
    BY <1>1, <1>3 DEF Was
  <2>2. \A d \in Conn : traits'[d] # NoTraits => stage'[d] # "none"
    BY <1>1, <1>3 DEF StreamsKnown, Known
  <2>3. \A y \in cycles : Range(y.todo) \subseteq Conn /\ y.due \subseteq Conn
    BY RangeIs DEF Cycle
  <2> QED BY <2>1, <2>2, <2>3 DEF StreamsKnown, Known
<1>10. \A y \in cycles : y.phase # "asking" => Head(y.todo) \in Conn \ {c}
  <2> SUFFICES ASSUME NEW y \in cycles, y.phase # "asking" PROVE Head(y.todo) \in Conn \ {c}
    OBVIOUS
  <2>1. y.todo # <<>> /\ y.todo \in Seq(Conn)
    BY DEF CyclesTimed, Cycle
  <2> QED BY <1>8, <2>1, TailRange
<1>11. VouchedBefore'
  BY <1>3, <1>8, <1>10 DEF VouchedBefore, Vouches, Meant
<1>12. DueAsked'
  <2>1. \A y \in cycles : \A d \in y.due : traits'[d] = traits[d]
    BY <1>3, <1>8 DEF Cycle
  <2> QED BY <2>1 DEF DueAsked, Vouches, Meant
<1>13. CaughtNextCycle'
  BY <1>3, <1>8 DEF CaughtNextCycle, Cycle
<1>14. TaintedOpen'
  <2>1. \A w : Meant(w)' <=> Meant(w)
    BY DEF Meant
  <2>2. \A d \in Conn : stage'[d] = "open" => stage[d] = "open" /\ traits'[d] = traits[d]
    BY <1>3, <1>4
  <2>3. \A d \in Conn : stage'[d] = "open" /\ Meant(traits[d].userId)' => d \in tainted'
    BY <2>1, <2>2 DEF TaintedOpen
  <2>4. errors' = 0 => errors = 0
    OBVIOUS
  <2>5. ASSUME errors' = 0, NEW y \in cycles, y.phase = "failed", stage'[Head(y.todo)] = "open"
        PROVE  Head(y.todo) \in tainted'
    <3>1. PICK h \in Conn : h = Head(y.todo)
      BY <1>10, <2>5
    <3> QED BY <2>2, <2>4, <2>5, <3>1 DEF TaintedOpen
  <2>6. cycles' = cycles
    OBVIOUS
  <2>7. errors' = 0 => \A y \in cycles' : y.phase = "failed" /\ stage'[Head(y.todo)] = "open"
                                          => Head(y.todo) \in tainted'
    BY <2>5, <2>6
  <2> QED BY <2>3, <2>7 DEF TaintedOpen
<1>15. RestoredStays'
  BY DEF RestoredStays
<1> QED BY <1>6, <1>7, <1>9, <1>11, <1>12, <1>13, <1>14, <1>15

\* The connection a cycle is at.
LEMMA CycleHead ==
  ASSUME WatchInv, NEW y \in cycles, y.todo # <<>>
  PROVE  /\ y.todo \in Seq(Conn) /\ Tail(y.todo) \in Seq(Conn)
         /\ Head(y.todo) \in Conn /\ Was(Head(y.todo))
         /\ Range(y.todo) = {Head(y.todo)} \cup Range(Tail(y.todo))
<1>1. y.todo \in Seq(Conn)
  BY DEF WatchInv, StreamsOK, Cycle
<1>2. Range(y.todo) = {Head(y.todo)} \cup Range(Tail(y.todo))
  BY <1>1, TailRange
<1>3. Was(Head(y.todo))
  BY <1>2 DEF WatchInv, StreamsKnown
<1> QED BY <1>1, <1>2, <1>3, TailRange

\* A stream that opens while its user is revoked is tainted at once.
LEMMA OpenStep ==
  ASSUME WatchInv, NEW c \in Conn, Open(c)
  PROVE  WatchInv'
<1> USE ConstantsAssumption DEF WatchInv, StreamsOK
<1>1. /\ stage[c] = "admitted" /\ stage' = [stage EXCEPT ![c] = "open"]
      /\ registry' = IF traits[c].transport = "sse" THEN Append(registry, c) ELSE registry
      /\ tainted' = IF Meant(traits[c].userId) THEN tainted \cup {c} ELSE tainted
      /\ UNCHANGED <<now, marker, traits, timer, cycles, cache, errors, revokedTill, evicted>>
  BY DEF Open, streamRest, redisVars, cycleVars, orderVars
<1>2. traits[c] # NoTraits /\ c \notin Range(registry)
  BY <1>1
<1>3. /\ registry' \in Seq(Conn) /\ IsInjective(registry')
      /\ Range(registry') = {d \in Conn : stage'[d] = "open" /\ traits[d].transport = "sse"}
  <2>1. CASE traits[c].transport = "sse"
    <3>1. /\ Append(registry, c) \in Seq(Conn) /\ IsInjective(Append(registry, c))
          /\ Range(Append(registry, c)) = Range(registry) \cup {c}
      BY <1>2, AppendRange
    <3> QED BY <1>1, <2>1, <3>1
  <2>2. CASE traits[c].transport # "sse"
    BY <1>1, <2>2
  <2> QED BY <2>1, <2>2
<1>4. StreamsOK'
  BY <1>1, <1>2, <1>3
<1>5. MarkerAgrees' /\ CyclesTimed' /\ VouchedBefore' /\ DueAsked'
  BY <1>1 DEF MarkerAgrees, CyclesTimed, VouchedBefore, DueAsked, Vouches, Meant
<1>6. StreamsKnown'
  <2>1. \A y \in cycles : Range(y.todo) \subseteq Conn /\ y.due \subseteq Conn
    BY RangeIs DEF Cycle
  <2> QED BY <1>1, <1>2, <2>1 DEF StreamsKnown, Known, Was
<1>7. CaughtNextCycle'
  BY <1>1 DEF CaughtNextCycle, StreamsKnown, Was, Cycle
<1>8. TaintedOpen'
  <2>1. \A d \in Conn : stage'[d] = "open" /\ Meant(traits[d].userId) => d \in tainted'
    BY <1>1 DEF TaintedOpen
  <2>2. ASSUME NEW y \in cycles, y.phase = "failed" PROVE Head(y.todo) \in Conn \ {c}
    <3>1. y.todo # <<>>
      BY <2>2 DEF CyclesTimed
    <3> QED BY <1>1, <3>1, CycleHead DEF Was
  <2> QED BY <1>1, <2>1, <2>2 DEF TaintedOpen, Meant
<1>9. RestoredStays'
  BY <1>1 DEF RestoredStays
<1> QED BY <1>3, <1>4, <1>5, <1>6, <1>7, <1>8, <1>9

\* A stream that is gone is owed nothing.
LEMMA ClosedStream ==
  ASSUME WatchInv, NEW c \in Conn, stage[c] = "open",
         stage' = [stage EXCEPT ![c] = "closed"], registry' = RemoveFirst(registry, c),
         UNCHANGED <<now, marker, traits, timer, cycles, cache, errors, revokedTill, tainted,
                     evicted>>
  PROVE  WatchInv'
<1> USE ConstantsAssumption DEF WatchInv, StreamsOK
<1>1. /\ registry' \in Seq(Conn) /\ IsInjective(registry')
      /\ Range(registry') = Range(registry) \ {c}
  BY RemoveFirstRange
<1>2. StreamsOK'
  BY <1>1
<1>3. MarkerAgrees' /\ CyclesTimed' /\ VouchedBefore' /\ DueAsked'
  BY DEF MarkerAgrees, CyclesTimed, VouchedBefore, DueAsked, Vouches, Meant
<1>4. StreamsKnown'
  <2>1. \A d \in Conn : (Was(d) => Was(d)') /\ (Known(d) => Known(d)')
    BY DEF Was, Known
  <2>2. \A y \in cycles : Range(y.todo) \subseteq Conn /\ y.due \subseteq Conn
    BY RangeIs DEF Cycle
  <2> QED BY <2>1, <2>2 DEF StreamsKnown
<1>5. CaughtNextCycle'
  BY DEF CaughtNextCycle, Cycle
<1>6. TaintedOpen'
  <2>1. ASSUME NEW y \in cycles, y.phase = "failed" PROVE Head(y.todo) \in Conn
    <3>1. y.todo # <<>> /\ y.todo \in Seq(Conn)
      BY <2>1 DEF CyclesTimed, Cycle
    <3> QED BY <3>1, TailRange
  <2> QED BY <2>1 DEF TaintedOpen, Meant
<1>7. RestoredStays'
  BY DEF RestoredStays
<1> QED BY <1>1, <1>2, <1>3, <1>4, <1>5, <1>6, <1>7

LEMMA LeaveStep ==
  ASSUME WatchInv, NEW c \in Conn, Leave(c)
  PROVE  WatchInv'
BY ClosedStream DEF Leave, streamRest, redisVars, cycleVars, orderVars

LEMMA ConstantTypes ==
  /\ SESSION_TTL_SECONDS \in Nat \ {0} /\ IntervalSeconds \in Nat \ {0} /\ CacheTtl \in Nat
  /\ None \notin Nat /\ None \notin User
BY ConstantsAssumption

\* The types of what the proofs below compute with.
LEMMA WatchTypes ==
  ASSUME SInv
  PROVE  /\ now \in Nat /\ timer \in Nat /\ now <= timer /\ timer <= now + IntervalSeconds
         /\ \A u \in User : revokedTill[u] \in Nat
         /\ \A c \in Conn : /\ cache[c] # None => cache[c] \in Nat
                            /\ traits[c] # NoTraits => traits[c].userId \in User
         /\ \A y \in cycles : /\ y \in Cycle /\ y.start \in Nat
                              /\ y.due \subseteq Conn /\ Range(y.todo) \subseteq Conn
<1>1. \A y \in cycles : Range(y.todo) \subseteq Conn
  BY RangeIs DEF SInv, WatchInv, StreamsOK, Cycle
<1>2. now \in Nat /\ timer \in Nat /\ now <= timer /\ timer <= now + IntervalSeconds
  BY ConstantTypes DEF SInv, WatchInv, StreamsOK, TokensOK
<1>3. \A u \in User : revokedTill[u] \in Nat
  BY DEF SInv, TokensOK
<1>4. \A c \in Conn : /\ cache[c] # None => cache[c] \in Nat
                      /\ traits[c] # NoTraits => traits[c].userId \in User
  BY DEF SInv, WatchInv, StreamsOK, Time
<1>5. \A y \in cycles : y \in Cycle /\ y.start \in Nat /\ y.due \subseteq Conn
  BY DEF SInv, WatchInv, StreamsOK, Cycle
<1> QED BY <1>1, <1>2, <1>3, <1>4, <1>5

\* Time ends revocations, together with what cycles owe for them.
LEMMA ClockStep ==
  ASSUME SInv, Tick
  PROVE  WatchInv'
<1> DEFINE standing == {c \in Conn : /\ traits[c].userId \in User
                                     /\ revokedTill'[traits[c].userId] > 0}
<1>1. /\ now' = now + 1 /\ now < timer
      /\ cycles' = {Keep(y, standing) : y \in {x \in cycles : x.todo # <<>>}}
      /\ UNCHANGED <<stage, traits, registry, timer, cache, errors, tainted, evicted>>
  BY DEF Tick, streamVars
<1>2. \A u \in User :
        /\ marker'[u] = IF marker[u] = now + 1 THEN None ELSE marker[u]
        /\ revokedTill'[u] = IF revokedTill[u] = now + 1 THEN 0 ELSE revokedTill[u]
  BY DEF Tick, Expired, Lapsed, SInv, TokensOK
<1>3. \A z \in cycles' : \E y \in cycles :
        /\ z \in Cycle /\ z.start = y.start /\ z.todo = y.todo /\ z.phase = y.phase
        /\ z.due = y.due \cap standing
  <2> SUFFICES ASSUME NEW z \in cycles'
               PROVE  \E y \in cycles :
                        /\ z \in Cycle /\ z.start = y.start /\ z.todo = y.todo /\ z.phase = y.phase
                        /\ z.due = y.due \cap standing
    OBVIOUS
  <2>1. PICK y \in cycles : z = [y EXCEPT !.due = y.due \cap standing]
    BY <1>1 DEF Keep
  <2>2. y \in Cycle
    BY WatchTypes
  <2> HIDE DEF standing
  <2>3. z \in Cycle /\ z.start = y.start /\ z.todo = y.todo /\ z.phase = y.phase
        /\ z.due = y.due \cap standing
    BY <2>1, <2>2 DEF Cycle
  <2> QED BY <2>3
<1> HIDE DEF standing
<1>4. \A u \in User : now' < revokedTill'[u] => now < revokedTill[u] /\ revokedTill'[u] = revokedTill[u]
  BY <1>1, <1>2, WatchTypes
<1>5. MarkerAgrees'
  <2> SUFFICES ASSUME NEW u \in User
               PROVE  \/ revokedTill'[u] = 0 /\ marker'[u] = None
                      \/ /\ now' < revokedTill'[u]
                         /\ revokedTill'[u] <= now' + SESSION_TTL_SECONDS
                         /\ marker'[u] = revokedTill'[u]
    BY DEF MarkerAgrees
  <2>1. \/ revokedTill[u] = 0 /\ marker[u] = None
        \/ /\ now < revokedTill[u] /\ revokedTill[u] <= now + SESSION_TTL_SECONDS
           /\ marker[u] = revokedTill[u]
    BY DEF SInv, WatchInv, MarkerAgrees
  <2> QED BY <1>1, <1>2, <2>1, WatchTypes, ConstantTypes
<1>6. StreamsOK'
  <2>1. cycles' \subseteq Cycle
    BY <1>3
  <2>2. timer \in now'..(now' + IntervalSeconds)
    BY <1>1, WatchTypes, ConstantTypes
  <2> QED BY <1>1, <2>1, <2>2 DEF SInv, WatchInv, StreamsOK
<1>7. StreamsKnown'
  <2>1. \A z \in cycles' : \A c \in Range(z.todo) \cup z.due : Was(c)
    BY <1>3 DEF SInv, WatchInv, StreamsKnown
  <2>2. \A c \in Conn : /\ traits[c] # NoTraits => Known(c)
                        /\ cache[c] # None => Was(c)
    BY DEF SInv, WatchInv, StreamsKnown
  <2> QED BY <1>1, <2>1, <2>2 DEF StreamsKnown, Was, Known, NoTraits
<1>8. CyclesTimed'
  <2>1. \A z \in cycles' : /\ z.start <= now' /\ z.start + IntervalSeconds <= timer
                           /\ z.phase # "asking" => z.todo # <<>>
    <3> SUFFICES ASSUME NEW z \in cycles'
                 PROVE  /\ z.start <= now' /\ z.start + IntervalSeconds <= timer
                        /\ z.phase # "asking" => z.todo # <<>>
      OBVIOUS
    <3>1. PICK y \in cycles : z.start = y.start /\ z.todo = y.todo /\ z.phase = y.phase
      BY <1>3
    <3>2. /\ y.start <= now /\ y.start + IntervalSeconds <= timer
          /\ y.phase # "asking" => y.todo # <<>>
      BY DEF SInv, WatchInv, CyclesTimed
    <3> QED BY <1>1, <3>1, <3>2, WatchTypes
  <2>2. \A c \in Conn : cache[c] # None => cache[c] <= now' /\ cache[c] + IntervalSeconds <= timer
    BY <1>1, WatchTypes DEF SInv, WatchInv, CyclesTimed
  <2> QED BY <1>1, <2>1, <2>2 DEF CyclesTimed
<1>9. VouchedBefore'
  <2> SUFFICES ASSUME NEW c \in Conn, traits[c] # NoTraits, now' < revokedTill'[traits[c].userId]
               PROVE  /\ cache[c] # None
                           => cache[c] + SESSION_TTL_SECONDS <= revokedTill'[traits[c].userId]
                      /\ \A z \in cycles' : Vouches(z, c)
                           => z.start + SESSION_TTL_SECONDS <= revokedTill'[traits[c].userId]
    BY <1>1 DEF VouchedBefore, Meant, Vouches
  <2>1. Meant(traits[c].userId) /\ revokedTill'[traits[c].userId] = revokedTill[traits[c].userId]
    BY <1>4, WatchTypes DEF Meant
  <2>2. /\ cache[c] # None => cache[c] + SESSION_TTL_SECONDS <= revokedTill[traits[c].userId]
        /\ \A y \in cycles : Vouches(y, c)
             => y.start + SESSION_TTL_SECONDS <= revokedTill[traits[c].userId]
    BY <2>1 DEF SInv, WatchInv, VouchedBefore
  <2> QED BY <1>3, <2>1, <2>2 DEF Vouches
<1>10. DueAsked'
  <2> SUFFICES ASSUME NEW z \in cycles', NEW c \in z.due
               PROVE  /\ now' < revokedTill'[traits[c].userId]
                      /\ cache[c] # None => cache[c] + CacheTtl <= z.start
                      /\ ~ Vouches(z, c)
                      /\ \A x \in cycles' : Vouches(x, c) => x.start + CacheTtl <= z.start
    BY <1>1 DEF DueAsked, Meant, Vouches
  <2>1. PICK y \in cycles : /\ z.start = y.start /\ z.todo = y.todo /\ z.phase = y.phase
                            /\ z.due = y.due \cap standing
    BY <1>3
  <2>2. c \in y.due /\ c \in standing
    BY <2>1
  <2>3. now' < revokedTill'[traits[c].userId]
    <3>1. now < revokedTill[traits[c].userId] /\ traits[c].userId \in User
      BY <2>2 DEF SInv, WatchInv, DueAsked, standing, Meant
    <3> QED BY <1>1, <1>2, <2>2, <3>1, WatchTypes DEF standing
  <2>4. /\ cache[c] # None => cache[c] + CacheTtl <= y.start
        /\ ~ Vouches(y, c)
        /\ \A x \in cycles : Vouches(x, c) => x.start + CacheTtl <= y.start
    BY <2>2 DEF SInv, WatchInv, DueAsked
  <2>5. ASSUME NEW x \in cycles', Vouches(x, c) PROVE x.start + CacheTtl <= z.start
    BY <1>3, <2>1, <2>4, <2>5 DEF Vouches
  <2> QED BY <2>1, <2>3, <2>4, <2>5 DEF Vouches
<1>11. CaughtNextCycle'
  BY <1>1, <1>3 DEF SInv, WatchInv, CaughtNextCycle
<1>12. TaintedOpen'
  <2>1. \A c \in Conn : stage[c] = "open" /\ now' < revokedTill'[traits[c].userId] => c \in tainted
    BY <1>4, WatchTypes DEF SInv, WatchInv, StreamsOK, TaintedOpen, Meant
  <2>2. errors = 0 => \A z \in cycles' :
          z.phase = "failed" /\ stage[Head(z.todo)] = "open" => Head(z.todo) \in tainted
    BY <1>3 DEF SInv, WatchInv, TaintedOpen
  <2> QED BY <1>1, <2>1, <2>2 DEF TaintedOpen, Meant
<1>13. RestoredStays' /\ IsInjective(registry)'
  BY <1>1 DEF SInv, WatchInv, RestoredStays
<1> QED BY <1>5, <1>6, <1>7, <1>8, <1>9, <1>10, <1>11, <1>12, <1>13 DEF WatchInv

-----------------------------------------------------------------------------
\* A revocation finds every answer given so far to be older than it.
LEMMA RevokeStep ==
  ASSUME SInv, NEW u \in User, Revoke(u)
  PROVE  WatchInv'
<1>1. /\ UNCHANGED <<now, stage, traits, registry, timer, cycles, cache, errors, evicted>>
      /\ marker' = [marker EXCEPT ![u] = now + SESSION_TTL_SECONDS]
      /\ revokedTill' = [revokedTill EXCEPT ![u] = now + SESSION_TTL_SECONDS]
      /\ tainted' = tainted \cup Mine(u)
  BY DEF Revoke, revoke, orderRest, streamVars
<1>2. /\ marker'[u] = now + SESSION_TTL_SECONDS /\ revokedTill'[u] = now + SESSION_TTL_SECONDS
      /\ \A v \in User : v # u => marker'[v] = marker[v] /\ revokedTill'[v] = revokedTill[v]
  BY <1>1 DEF SInv, TokensOK
<1>3. \A v \in User : now < revokedTill[v] => now < revokedTill'[v]
  BY <1>2, WatchTypes, ConstantTypes
<1>4. MarkerAgrees'
  <2>1. now < now + SESSION_TTL_SECONDS
    BY WatchTypes, ConstantTypes
  <2>2. \A v \in User :
          \/ revokedTill'[v] = 0 /\ marker'[v] = None
          \/ /\ now < revokedTill'[v] /\ revokedTill'[v] <= now + SESSION_TTL_SECONDS
             /\ marker'[v] = revokedTill'[v]
    BY <1>2, <2>1, WatchTypes, ConstantTypes DEF SInv, WatchInv, MarkerAgrees
  <2> QED BY <1>1, <2>2 DEF MarkerAgrees
<1>5. StreamsOK'
  BY <1>1 DEF SInv, WatchInv, StreamsOK, Mine
<1>6. StreamsKnown' /\ CyclesTimed' /\ CaughtNextCycle' /\ IsInjective(registry)'
  BY <1>1 DEF SInv, WatchInv, StreamsKnown, Known, Was, CyclesTimed, CaughtNextCycle
<1>7. VouchedBefore'
  <2> SUFFICES ASSUME NEW c \in Conn, traits[c] # NoTraits, now < revokedTill'[traits[c].userId]
               PROVE  /\ cache[c] # None
                           => cache[c] + SESSION_TTL_SECONDS <= revokedTill'[traits[c].userId]
                      /\ \A y \in cycles : Vouches(y, c)
                           => y.start + SESSION_TTL_SECONDS <= revokedTill'[traits[c].userId]
    BY <1>1 DEF VouchedBefore, Meant, Vouches, NoTraits
  <2>1. traits[c].userId \in User
    BY WatchTypes
  <2>2. CASE traits[c].userId = u
    BY <1>2, <2>2, WatchTypes, ConstantTypes DEF SInv, WatchInv, CyclesTimed
  <2>3. CASE traits[c].userId # u
    BY <1>2, <2>1, <2>3 DEF SInv, WatchInv, VouchedBefore, Meant
  <2> QED BY <2>2, <2>3
<1>8. DueAsked'
  <2>1. \A y \in cycles : \A c \in y.due : now < revokedTill'[traits[c].userId]
    <3> SUFFICES ASSUME NEW y \in cycles, NEW c \in y.due
                 PROVE  now < revokedTill'[traits[c].userId]
      OBVIOUS
    <3>1. Meant(traits[c].userId) /\ Was(c) /\ c \in Conn
      BY WatchTypes DEF SInv, WatchInv, DueAsked, StreamsKnown
    <3>2. traits[c].userId \in User
      BY <3>1, WatchTypes DEF Was
    <3> QED BY <1>3, <3>1, <3>2 DEF Meant
  <2> QED BY <1>1, <2>1 DEF SInv, WatchInv, DueAsked, Meant, Vouches
<1>9. TaintedOpen'
  <2>1. \A c \in Conn : stage[c] = "open" /\ now < revokedTill'[traits[c].userId] => c \in tainted'
    <3> SUFFICES ASSUME NEW c \in Conn, stage[c] = "open", now < revokedTill'[traits[c].userId]
                 PROVE  c \in tainted'
      OBVIOUS
    <3>1. CASE traits[c].userId = u
      BY <1>1, <3>1 DEF Mine
    <3>2. CASE traits[c].userId # u
      BY <1>1, <1>2, <3>2, WatchTypes DEF SInv, WatchInv, StreamsOK, TaintedOpen, Meant
    <3> QED BY <3>1, <3>2
  <2>2. errors = 0 => \A y \in cycles :
          y.phase = "failed" /\ stage[Head(y.todo)] = "open" => Head(y.todo) \in tainted'
    BY <1>1 DEF SInv, WatchInv, TaintedOpen
  <2> QED BY <1>1, <2>1, <2>2 DEF TaintedOpen, Meant
<1>10. RestoredStays'
  BY <1>1 DEF SInv, WatchInv, RestoredStays
<1> QED BY <1>4, <1>5, <1>6, <1>7, <1>8, <1>9, <1>10 DEF WatchInv

\* A restoration writes off what cycles owe for the user, and nothing else.
LEMMA UnrevokeStep ==
  ASSUME SInv, NEW u \in User, Unrevoke(u)
  PROVE  WatchInv'
<1> DEFINE others == {c \in Conn : traits[c].userId # u}
<1>1. /\ UNCHANGED <<now, stage, traits, registry, timer, cache, errors, tainted, evicted>>
      /\ marker' = [marker EXCEPT ![u] = None] /\ revokedTill' = [revokedTill EXCEPT ![u] = 0]
      /\ cycles' = {Keep(y, others) : y \in cycles}
  BY DEF Unrevoke, unrevoke, orderRest, streamVars
<1>2. /\ marker'[u] = None /\ revokedTill'[u] = 0
      /\ \A v \in User : v # u => marker'[v] = marker[v] /\ revokedTill'[v] = revokedTill[v]
  BY <1>1 DEF SInv, TokensOK
<1>3. \A z \in cycles' : \E y \in cycles :
        /\ z \in Cycle /\ z.start = y.start /\ z.todo = y.todo /\ z.phase = y.phase
        /\ z.due = y.due \cap others
  <2> SUFFICES ASSUME NEW z \in cycles'
               PROVE  \E y \in cycles :
                        /\ z \in Cycle /\ z.start = y.start /\ z.todo = y.todo /\ z.phase = y.phase
                        /\ z.due = y.due \cap others
    OBVIOUS
  <2>1. PICK y \in cycles : z = [y EXCEPT !.due = y.due \cap others]
    BY <1>1 DEF Keep
  <2>2. y \in Cycle
    BY WatchTypes
  <2> HIDE DEF others
  <2>3. /\ z \in Cycle /\ z.start = y.start /\ z.todo = y.todo /\ z.phase = y.phase
        /\ z.due = y.due \cap others
    BY <2>1, <2>2 DEF Cycle
  <2> QED BY <2>3
<1> HIDE DEF others
<1>4. \A v \in User : now < revokedTill'[v] => v # u /\ revokedTill'[v] = revokedTill[v]
  BY <1>2, WatchTypes
<1>5. MarkerAgrees'
  <2>1. \A v \in User :
          \/ revokedTill'[v] = 0 /\ marker'[v] = None
          \/ /\ now < revokedTill'[v] /\ revokedTill'[v] <= now + SESSION_TTL_SECONDS
             /\ marker'[v] = revokedTill'[v]
    BY <1>2 DEF SInv, WatchInv, MarkerAgrees
  <2> QED BY <1>1, <2>1 DEF MarkerAgrees
<1>6. StreamsOK'
  <2>1. cycles' \subseteq Cycle
    BY <1>3
  <2> QED BY <1>1, <2>1 DEF SInv, WatchInv, StreamsOK
<1>7. StreamsKnown'
  <2>1. \A z \in cycles' : \A c \in Range(z.todo) \cup z.due : Was(c)
    BY <1>3 DEF SInv, WatchInv, StreamsKnown
  <2>2. \A c \in Conn : /\ traits[c] # NoTraits => Known(c)
                        /\ cache[c] # None => Was(c)
    BY DEF SInv, WatchInv, StreamsKnown
  <2> QED BY <1>1, <2>1, <2>2 DEF StreamsKnown, Was, Known, NoTraits
<1>8. CyclesTimed'
  <2>1. \A z \in cycles' : /\ z.start <= now /\ z.start + IntervalSeconds <= timer
                           /\ z.phase # "asking" => z.todo # <<>>
    BY <1>3 DEF SInv, WatchInv, CyclesTimed
  <2> QED BY <1>1, <2>1 DEF SInv, WatchInv, CyclesTimed
<1>9. VouchedBefore'
  <2> SUFFICES ASSUME NEW c \in Conn, traits[c] # NoTraits, now < revokedTill'[traits[c].userId]
               PROVE  /\ cache[c] # None
                           => cache[c] + SESSION_TTL_SECONDS <= revokedTill'[traits[c].userId]
                      /\ \A z \in cycles' : Vouches(z, c)
                           => z.start + SESSION_TTL_SECONDS <= revokedTill'[traits[c].userId]
    BY <1>1 DEF VouchedBefore, Meant, Vouches, NoTraits
  <2>1. Meant(traits[c].userId) /\ revokedTill'[traits[c].userId] = revokedTill[traits[c].userId]
    BY <1>4, WatchTypes DEF Meant
  <2>2. /\ cache[c] # None => cache[c] + SESSION_TTL_SECONDS <= revokedTill[traits[c].userId]
        /\ \A y \in cycles : Vouches(y, c)
             => y.start + SESSION_TTL_SECONDS <= revokedTill[traits[c].userId]
    BY <2>1 DEF SInv, WatchInv, VouchedBefore
  <2> QED BY <1>3, <2>1, <2>2 DEF Vouches
<1>10. DueAsked'
  <2> SUFFICES ASSUME NEW z \in cycles', NEW c \in z.due
               PROVE  /\ now < revokedTill'[traits[c].userId]
                      /\ cache[c] # None => cache[c] + CacheTtl <= z.start
                      /\ ~ Vouches(z, c)
                      /\ \A x \in cycles' : Vouches(x, c) => x.start + CacheTtl <= z.start
    BY <1>1 DEF DueAsked, Meant, Vouches
  <2>1. PICK y \in cycles : /\ z.start = y.start /\ z.todo = y.todo /\ z.phase = y.phase
                            /\ z.due = y.due \cap others
    BY <1>3
  <2>2. c \in y.due /\ c \in others
    BY <2>1
  <2>3. now < revokedTill'[traits[c].userId]
    <3>1. now < revokedTill[traits[c].userId] /\ Was(c) /\ c \in Conn /\ traits[c].userId # u
      BY <2>2, WatchTypes DEF SInv, WatchInv, DueAsked, StreamsKnown, others, Meant
    <3>2. traits[c].userId \in User
      BY <3>1, WatchTypes DEF Was
    <3> QED BY <1>2, <3>1, <3>2
  <2>4. /\ cache[c] # None => cache[c] + CacheTtl <= y.start
        /\ ~ Vouches(y, c)
        /\ \A x \in cycles : Vouches(x, c) => x.start + CacheTtl <= y.start
    BY <2>2 DEF SInv, WatchInv, DueAsked
  <2>5. ASSUME NEW x \in cycles', Vouches(x, c) PROVE x.start + CacheTtl <= z.start
    BY <1>3, <2>1, <2>4, <2>5 DEF Vouches
  <2> QED BY <2>1, <2>3, <2>4, <2>5 DEF Vouches
<1>11. CaughtNextCycle'
  BY <1>1, <1>3 DEF SInv, WatchInv, CaughtNextCycle
<1>12. TaintedOpen'
  <2>1. \A c \in Conn : stage[c] = "open" /\ now < revokedTill'[traits[c].userId] => c \in tainted
    BY <1>4, WatchTypes DEF SInv, WatchInv, StreamsOK, TaintedOpen, Meant
  <2>2. errors = 0 => \A z \in cycles' :
          z.phase = "failed" /\ stage[Head(z.todo)] = "open" => Head(z.todo) \in tainted
    BY <1>3 DEF SInv, WatchInv, TaintedOpen
  <2> QED BY <1>1, <2>1, <2>2 DEF TaintedOpen, Meant
<1>13. RestoredStays' /\ IsInjective(registry)'
  BY <1>1 DEF SInv, WatchInv, RestoredStays
<1> QED BY <1>5, <1>6, <1>7, <1>8, <1>9, <1>10, <1>11, <1>12, <1>13 DEF WatchInv

-----------------------------------------------------------------------------
\* The connections a cycle has left to ask about include every one that has
\* no fresh answer.
LEMMA UncachedRange ==
  ASSUME NEW s \in Seq(Conn), NEW start, NEW passed
  PROVE  /\ Uncached(s, start, passed) \in Seq(Conn)
         /\ Range(Uncached(s, start, passed)) \subseteq Range(s)
         /\ \A c \in Range(s) :
              ~ Cached(c, start, passed) => c \in Range(Uncached(s, start, passed))
<1> DEFINE I == {i \in 1..Len(s) : ~ Cached(s[i], start, passed)}
<1> DEFINE r == Uncached(s, start, passed)
<1>1. I \in SUBSET Nat /\ \A i \in I : i \in 1..Len(s)
  OBVIOUS
<1>2. I # {} => Min(I) \in I /\ \A i \in I : Min(I) <= i
  <2> HIDE DEF I
  <2> QED BY <1>1, MinIndex
<1>3. r = IF I = {} THEN <<>> ELSE SubSeq(s, Min(I), Len(s))
  <2>1. I # {} => Min(I) # 0
    BY <1>2
  <2> QED BY <2>1 DEF Uncached, SelectInSeq
<1>4. \A i \in 1..Len(s) : ~ Cached(s[i], start, passed) => i \in I
  OBVIOUS
<1>5. \A x : x \in Range(s) <=> \E i \in 1..Len(s) : x = s[i]
  BY RangeIs
<1> HIDE DEF I, r
<1>6. /\ r \in Seq(Conn) /\ Range(r) \subseteq Range(s)
      /\ \A i \in I : s[i] \in Range(r)
  <2>1. CASE I = {}
    <3>1. r = <<>> /\ Range(<<>>) = {}
      BY <1>3, <2>1 DEF Range
    <3> QED BY <2>1, <3>1
  <2>2. CASE I # {}
    <3>1. PICK m \in 1..Len(s) : m = Min(I)
      BY <1>1, <1>2, <2>2
    <3>2. r \in Seq(Conn) /\ Range(r) = {s[i] : i \in m..Len(s)}
      BY <1>3, <2>2, <3>1, SuffixRange
    <3>3. \A i \in m..Len(s) : i \in 1..Len(s)
      OBVIOUS
    <3>4. \A i \in I : i \in m..Len(s)
      BY <1>1, <1>2, <2>2, <3>1
    <3> QED BY <1>5, <3>2, <3>3, <3>4
  <2> QED BY <2>1, <2>2
<1>7. \A c \in Range(s) : ~ Cached(c, start, passed) => c \in Range(r)
  BY <1>4, <1>5, <1>6
<1> QED BY <1>6, <1>7 DEF r

\* A cycle that starts owes the streams it finds of users due, and has to
\* ask about each: what vouches for them is too old for the cache to count.
LEMMA CycleStartStep ==
  ASSUME SInv, CycleStart
  PROVE  WatchInv'
<1>1. /\ now = timer /\ timer' = timer + IntervalSeconds
      /\ UNCHANGED <<now, marker, stage, traits, registry, cache, errors, revokedTill, tainted,
                     evicted>>
  BY DEF CycleStart, cycleRest, redisVars, orderVars
<1> DEFINE w == [start |-> now, todo |-> Uncached(registry, now, cache), phase |-> "asking",
                 due |-> {c \in Range(registry) : Due(traits[c].userId)}]
<1>2. cycles' = cycles \/ cycles' = cycles \cup {w}
  BY DEF CycleStart
<1>3. /\ registry \in Seq(Conn) /\ Range(registry) \subseteq Conn
      /\ \A c \in Range(registry) : Was(c) /\ stage[c] = "open"
  BY DEF SInv, WatchInv, StreamsOK, Was
<1>4. /\ Uncached(registry, now, cache) \in Seq(Conn)
      /\ Range(Uncached(registry, now, cache)) \subseteq Range(registry)
      /\ \A c \in Range(registry) :
           ~ Cached(c, now, cache) => c \in Range(Uncached(registry, now, cache))
  BY <1>3, UncachedRange
<1>5. /\ w \in Cycle /\ w.start = now /\ w.phase = "asking"
      /\ w.todo = Uncached(registry, now, cache)
      /\ w.due = {c \in Range(registry) : Due(traits[c].userId)}
  BY <1>3, <1>4, WatchTypes DEF Cycle
<1> HIDE DEF w
<1>6. StreamsOK'
  <2>1. timer' \in now..(now + IntervalSeconds)
    BY <1>1, WatchTypes, ConstantTypes
  <2>2. cycles' \subseteq Cycle
    BY <1>2, <1>5, WatchTypes
  <2> QED BY <1>1, <2>1, <2>2 DEF SInv, WatchInv, StreamsOK
<1>7. MarkerAgrees' /\ RestoredStays' /\ IsInjective(registry)'
  BY <1>1 DEF SInv, WatchInv, MarkerAgrees, RestoredStays
<1>8. StreamsKnown'
  <2>1. \A z \in cycles' : \A c \in Range(z.todo) \cup z.due : Was(c)
    BY <1>2, <1>3, <1>4, <1>5 DEF SInv, WatchInv, StreamsKnown
  <2>2. \A c \in Conn : /\ traits[c] # NoTraits => Known(c)
                        /\ cache[c] # None => Was(c)
    BY DEF SInv, WatchInv, StreamsKnown
  <2> QED BY <1>1, <2>1, <2>2 DEF StreamsKnown, Was, Known, NoTraits
<1>9. CyclesTimed'
  <2>1. \A z \in cycles : /\ z.start <= now /\ z.start + IntervalSeconds <= timer'
                          /\ z.phase # "asking" => z.todo # <<>>
    BY <1>1, WatchTypes, ConstantTypes DEF SInv, WatchInv, CyclesTimed
  <2>2. w.start <= now /\ w.start + IntervalSeconds <= timer'
    BY <1>1, <1>5, WatchTypes, ConstantTypes
  <2>3. \A c \in Conn : cache[c] # None => cache[c] <= now /\ cache[c] + IntervalSeconds <= timer'
    BY <1>1, WatchTypes, ConstantTypes DEF SInv, WatchInv, CyclesTimed
  <2>4. \A z \in cycles' : /\ z.start <= now /\ z.start + IntervalSeconds <= timer'
                           /\ z.phase # "asking" => z.todo # <<>>
    BY <1>2, <1>5, <2>1, <2>2
  <2> QED BY <1>1, <2>3, <2>4 DEF CyclesTimed
<1>10. ~ \E c \in Conn : Vouches(w, c)
  BY <1>5 DEF Vouches
<1>11. VouchedBefore'
  <2>1. \A c \in Conn : traits[c] # NoTraits /\ Meant(traits[c].userId) =>
          /\ cache[c] # None => cache[c] + SESSION_TTL_SECONDS <= revokedTill[traits[c].userId]
          /\ \A z \in cycles' : Vouches(z, c)
               => z.start + SESSION_TTL_SECONDS <= revokedTill[traits[c].userId]
    BY <1>2, <1>10 DEF SInv, WatchInv, VouchedBefore
  <2> QED BY <1>1, <2>1 DEF VouchedBefore, Meant, Vouches, NoTraits
<1>12. \A c \in w.due :
         /\ c \in Range(registry) /\ c \in Conn /\ traits[c].userId \in User
         /\ Meant(traits[c].userId)
         /\ cache[c] # None => cache[c] + CacheTtl <= now
         /\ \A x \in cycles : Vouches(x, c) => x.start + CacheTtl <= now
  <2> SUFFICES ASSUME NEW c \in w.due
               PROVE  /\ c \in Range(registry) /\ c \in Conn /\ traits[c].userId \in User
                      /\ Meant(traits[c].userId)
                      /\ cache[c] # None => cache[c] + CacheTtl <= now
                      /\ \A x \in cycles : Vouches(x, c) => x.start + CacheTtl <= now
    OBVIOUS
  <2>1. /\ c \in Range(registry) /\ c \in Conn /\ Due(traits[c].userId) /\ traits[c] # NoTraits
        /\ traits[c].userId \in User
    BY <1>3, <1>5, WatchTypes DEF Was
  <2>2. PICK till \in Nat : till = revokedTill[traits[c].userId]
    BY <2>1, WatchTypes
  <2>3. /\ cache[c] # None => /\ cache[c] + SESSION_TTL_SECONDS <= till
                              /\ cache[c] + IntervalSeconds <= now
        /\ \A x \in cycles : Vouches(x, c) => /\ x.start + SESSION_TTL_SECONDS <= till
                                              /\ x.start + IntervalSeconds <= now
    BY <1>1, <2>1, <2>2 DEF SInv, WatchInv, VouchedBefore, CyclesTimed, Due
  <2>4. CacheTtl <= IntervalSeconds \/ now + SESSION_TTL_SECONDS >= till + CacheTtl
    BY <2>1, <2>2 DEF Due
  <2>5. cache[c] # None => cache[c] + CacheTtl <= now
    BY <2>1, <2>3, <2>4, WatchTypes, ConstantTypes
  <2>6. \A x \in cycles : Vouches(x, c) => x.start + CacheTtl <= now
    BY <2>3, <2>4, WatchTypes, ConstantTypes
  <2> QED BY <2>1, <2>5, <2>6 DEF Due
<1>13. DueAsked'
  <2>1. \A z \in cycles' : \A c \in z.due :
          /\ Meant(traits[c].userId)
          /\ cache[c] # None => cache[c] + CacheTtl <= z.start
          /\ ~ Vouches(z, c)
          /\ \A x \in cycles : Vouches(x, c) => x.start + CacheTtl <= z.start
    BY <1>2, <1>5, <1>10, <1>12 DEF SInv, WatchInv, DueAsked
  <2>2. \A x \in cycles' : \A z \in cycles' : \A c \in z.due : Vouches(x, c) => x \in cycles
    BY <1>2, <1>5 DEF Vouches
  <2> QED BY <1>1, <2>1, <2>2 DEF DueAsked, Meant, Vouches
<1>14. CaughtNextCycle'
  <2>1. \A c \in w.due : c \in Range(w.todo)
    <3> SUFFICES ASSUME NEW c \in w.due PROVE ~ Cached(c, now, cache)
      BY <1>4, <1>5, <1>12
    <3>1. cache[c] # None => cache[c] \in Nat /\ cache[c] + CacheTtl <= now
      BY <1>12, WatchTypes
    <3> QED BY <3>1, WatchTypes, ConstantTypes DEF Cached
  <2> QED BY <1>1, <1>2, <2>1 DEF SInv, WatchInv, CaughtNextCycle
<1>15. TaintedOpen'
  BY <1>1, <1>2, <1>5 DEF SInv, WatchInv, TaintedOpen, Meant
<1> QED BY <1>6, <1>7, <1>8, <1>9, <1>11, <1>13, <1>14, <1>15 DEF WatchInv

-----------------------------------------------------------------------------
\* What an answer says is true of the marker, and so of what the operators
\* mean: a user told to be valid is owed no disconnection by any cycle.
LEMMA AskStep ==
  ASSUME SInv, NEW y \in cycles, Ask(y) \/ AskFails(y)
  PROVE  WatchInv'
<1> DEFINE h == Head(y.todo)
<1>1. /\ UNCHANGED <<now, marker, stage, traits, registry, timer, cache, revokedTill, tainted,
                     evicted>>
      /\ y.todo # <<>>
  BY DEF Ask, AskFails, cycleRest, redisVars, orderVars
<1>2. PICK p \in {"valid", "failed"} :
        /\ cycles' = (cycles \ {y}) \cup {[y EXCEPT !.phase = p]}
        /\ p = "valid" => ~ Alive(marker[traits[h].userId])
        /\ p = "failed" => Alive(marker[traits[h].userId]) \/ errors' = errors + 1
        /\ errors' = errors \/ errors' = errors + 1
  BY DEF Ask, AskFails, Become, isRevoked
<1> DEFINE w == [y EXCEPT !.phase = p]
<1>3. w \in Cycle /\ w.start = y.start /\ w.todo = y.todo /\ w.due = y.due /\ w.phase = p
  BY WatchTypes DEF Cycle
<1>4. /\ h \in Conn /\ Was(h) /\ traits[h].userId \in User
  BY <1>1, CycleHead, WatchTypes DEF SInv, Was
<1> HIDE DEF w, h
<1>5. \A z \in cycles' : z \in cycles \/ z = w
  BY <1>2 DEF w
<1>6. \A z \in cycles' : \E x \in cycles :
        /\ z.start = x.start /\ z.todo = x.todo /\ z.due = x.due
        /\ z = x \/ (z = w /\ x = y)
  BY <1>3, <1>5
<1>7. p = "valid" => ~ Meant(traits[h].userId)
  BY <1>2, <1>4, ConstantTypes, WatchTypes DEF SInv, WatchInv, MarkerAgrees, Alive, Meant
<1>8. p = "failed" /\ errors' = errors => Meant(traits[h].userId)
  <2> SUFFICES ASSUME p = "failed", errors' = errors PROVE Meant(traits[h].userId)
    OBVIOUS
  <2>1. errors' # errors + 1
    BY DEF SInv, TokensOK
  <2> QED BY <1>2, <1>4, <2>1 DEF SInv, WatchInv, MarkerAgrees, Alive, Meant
<1>9. \A z \in cycles', c \in Conn : Vouches(z, c) =>
        \/ z \in cycles
        \/ z = w /\ c = h /\ ~ Meant(traits[c].userId)
  BY <1>3, <1>5, <1>7 DEF Vouches, h
<1>10. StreamsOK'
  <2>1. cycles' \subseteq Cycle
    BY <1>3, <1>5, WatchTypes
  <2> QED BY <1>1, <2>1 DEF SInv, WatchInv, StreamsOK
<1>11. MarkerAgrees' /\ IsInjective(registry)'
  BY <1>1 DEF SInv, WatchInv, MarkerAgrees
<1>12. StreamsKnown'
  <2>1. \A z \in cycles' : \A c \in Range(z.todo) \cup z.due : Was(c)
    BY <1>6 DEF SInv, WatchInv, StreamsKnown
  <2>2. \A c \in Conn : /\ traits[c] # NoTraits => Known(c)
                        /\ cache[c] # None => Was(c)
    BY DEF SInv, WatchInv, StreamsKnown
  <2> QED BY <1>1, <2>1, <2>2 DEF StreamsKnown, Was, Known, NoTraits
<1>13. CyclesTimed'
  <2>1. \A z \in cycles' : /\ z.start <= now /\ z.start + IntervalSeconds <= timer
                           /\ z.phase # "asking" => z.todo # <<>>
    BY <1>1, <1>3, <1>5 DEF SInv, WatchInv, CyclesTimed
  <2> QED BY <1>1, <2>1 DEF SInv, WatchInv, CyclesTimed
<1>14. VouchedBefore'
  <2>1. \A c \in Conn : traits[c] # NoTraits /\ Meant(traits[c].userId) =>
          /\ cache[c] # None => cache[c] + SESSION_TTL_SECONDS <= revokedTill[traits[c].userId]
          /\ \A z \in cycles' : Vouches(z, c)
               => z.start + SESSION_TTL_SECONDS <= revokedTill[traits[c].userId]
    BY <1>9 DEF SInv, WatchInv, VouchedBefore
  <2> QED BY <1>1, <2>1 DEF VouchedBefore, Meant, Vouches, NoTraits
<1>15. DueAsked'
  <2>1. \A z \in cycles' : \A c \in z.due :
          /\ c \in Conn /\ Meant(traits[c].userId)
          /\ cache[c] # None => cache[c] + CacheTtl <= z.start
          /\ \A x \in cycles : Vouches(x, c) => x.start + CacheTtl <= z.start
    BY <1>6, WatchTypes DEF SInv, WatchInv, DueAsked
  <2>2. \A z \in cycles' : \A c \in z.due : ~ Vouches(z, c)
    <3> SUFFICES ASSUME NEW z \in cycles', NEW c \in z.due, Vouches(z, c) PROVE FALSE
      OBVIOUS
    <3>1. z \in cycles
      BY <1>9, <2>1
    <3> QED BY <3>1 DEF SInv, WatchInv, DueAsked
  <2>3. \A z \in cycles' : \A c \in z.due : \A x \in cycles' : Vouches(x, c) => x \in cycles
    BY <1>9, <2>1
  <2> QED BY <1>1, <2>1, <2>2, <2>3 DEF DueAsked, Meant, Vouches
<1>16. CaughtNextCycle'
  BY <1>1, <1>6 DEF SInv, WatchInv, CaughtNextCycle
<1>17. TaintedOpen'
  <2>1. ASSUME errors' = 0, NEW z \in cycles', z.phase = "failed", stage[Head(z.todo)] = "open"
        PROVE  Head(z.todo) \in tainted
    <3>1. errors = 0 /\ errors' = errors
      BY <1>2, <2>1 DEF SInv, TokensOK
    <3>2. CASE z \in cycles
      BY <2>1, <3>1, <3>2 DEF SInv, WatchInv, TaintedOpen
    <3>3. CASE z = w
      <4>1. Head(z.todo) = h /\ p = "failed"
        BY <1>3, <2>1, <3>3 DEF h
      <4> QED BY <1>4, <1>8, <2>1, <3>1, <4>1 DEF SInv, WatchInv, TaintedOpen
    <3> QED BY <1>5, <3>2, <3>3
  <2>2. \A c \in Conn : stage[c] = "open" /\ Meant(traits[c].userId) => c \in tainted
    BY DEF SInv, WatchInv, TaintedOpen
  <2> QED BY <1>1, <2>1, <2>2 DEF TaintedOpen, Meant
<1>18. RestoredStays'
  <2>1. errors' = 0 => errors = 0
    BY <1>2 DEF SInv, TokensOK
  <2> QED BY <1>1, <2>1 DEF SInv, WatchInv, RestoredStays
<1> QED BY <1>10, <1>11, <1>12, <1>13, <1>14, <1>15, <1>16, <1>17, <1>18 DEF WatchInv

\* A cycle goes on behind the connection it was at; whatever it skips has a
\* fresh answer.
LEMMA GoOnStep ==
  ASSUME SInv, NEW y \in cycles, y.todo # <<>>, NEW k, GoOn(y, k)
  PROVE  \E w \in Cycle :
           /\ cycles' = (cycles \ {y}) \cup {w}
           /\ w.start = y.start /\ w.due = y.due /\ w.phase = "asking"
           /\ Range(w.todo) \subseteq Range(y.todo)
           /\ \A c \in Range(y.todo) :
                c # Head(y.todo) /\ ~ Cached(c, y.start, k) => c \in Range(w.todo)
<1> DEFINE t == Tail(y.todo)
           n == Uncached(t, y.start, k)
           w == [y EXCEPT !.todo = n, !.phase = "asking"]
<1>1. cycles' = (cycles \ {y}) \cup {w}
  BY DEF GoOn, Become
<1>2. t \in Seq(Conn) /\ Range(y.todo) = {Head(y.todo)} \cup Range(t)
  BY CycleHead DEF SInv
<1>3. /\ n \in Seq(Conn) /\ Range(n) \subseteq Range(t)
      /\ \A c \in Range(t) : ~ Cached(c, y.start, k) => c \in Range(n)
  <2> HIDE DEF t
  <2> QED BY <1>2, UncachedRange
<1> HIDE DEF n, t
<1>4. w \in Cycle /\ w.start = y.start /\ w.due = y.due /\ w.phase = "asking" /\ w.todo = n
  BY <1>3, WatchTypes DEF Cycle
<1> HIDE DEF w
<1> QED BY <1>1, <1>2, <1>3, <1>4

\* An answer is cached as of the start of its cycle: no later than any
\* revocation that stands, and too early to count for who is owed.
LEMMA PassedStep ==
  ASSUME SInv, NEW y \in cycles, Passed(y)
  PROVE  WatchInv'
<1> DEFINE h == Head(y.todo)
<1>1. /\ UNCHANGED <<now, marker, stage, traits, registry, timer, errors, revokedTill, tainted,
                     evicted>>
      /\ y.phase = "valid" /\ cache' = [cache EXCEPT ![h] = y.start] /\ GoOn(y, cache')
  BY DEF Passed, cycleRest, redisVars, orderVars
<1>2. y.todo # <<>>
  BY <1>1 DEF SInv, WatchInv, CyclesTimed
<1>3. h \in Conn /\ Was(h) /\ Vouches(y, h)
  BY <1>1, <1>2, CycleHead DEF SInv, Vouches
<1>4. PICK w \in Cycle :
        /\ cycles' = (cycles \ {y}) \cup {w}
        /\ w.start = y.start /\ w.due = y.due /\ w.phase = "asking"
        /\ Range(w.todo) \subseteq Range(y.todo)
        /\ \A c \in Range(y.todo) :
             c # h /\ ~ Cached(c, y.start, cache') => c \in Range(w.todo)
  <2>1. PICK k : k = cache'
    OBVIOUS
  <2>2. GoOn(y, k)
    BY <1>1, <2>1
  <2>3. \E w \in Cycle :
          /\ cycles' = (cycles \ {y}) \cup {w}
          /\ w.start = y.start /\ w.due = y.due /\ w.phase = "asking"
          /\ Range(w.todo) \subseteq Range(y.todo)
          /\ \A c \in Range(y.todo) :
               c # Head(y.todo) /\ ~ Cached(c, y.start, k) => c \in Range(w.todo)
    BY <1>2, <2>2, GoOnStep
  <2> QED BY <2>1, <2>3
<1>5. \A c \in Conn : cache'[c] = IF c = h THEN y.start ELSE cache[c]
  BY <1>1 DEF SInv, WatchInv, StreamsOK
<1> HIDE DEF h
<1>6. \A z \in cycles' : \E x \in cycles :
        /\ z.start = x.start /\ z.due = x.due /\ Range(z.todo) \subseteq Range(x.todo)
        /\ z = x \/ (z = w /\ x = y)
  BY <1>4
<1>7. \A z \in cycles', c \in Conn : Vouches(z, c) => z \in cycles
  BY <1>4 DEF Vouches
<1>8. StreamsOK'
  <2>1. cycles' \subseteq Cycle
    BY <1>4, WatchTypes
  <2>2. cache' \in [Conn -> Time]
    BY <1>1, WatchTypes DEF SInv, WatchInv, StreamsOK, Time
  <2> QED BY <1>1, <2>1, <2>2 DEF SInv, WatchInv, StreamsOK
<1>9. MarkerAgrees' /\ IsInjective(registry)' /\ RestoredStays'
  BY <1>1 DEF SInv, WatchInv, MarkerAgrees, RestoredStays
<1>10. StreamsKnown'
  <2>1. \A z \in cycles' : \A c \in Range(z.todo) \cup z.due : Was(c)
    BY <1>6 DEF SInv, WatchInv, StreamsKnown
  <2>2. \A c \in Conn : /\ traits[c] # NoTraits => Known(c)
                        /\ cache'[c] # None => Was(c)
    BY <1>3, <1>5 DEF SInv, WatchInv, StreamsKnown
  <2> QED BY <1>1, <2>1, <2>2 DEF StreamsKnown, Was, Known, NoTraits
<1>11. CyclesTimed'
  <2>1. \A z \in cycles' : /\ z.start <= now /\ z.start + IntervalSeconds <= timer
                           /\ z.phase # "asking" => z.todo # <<>>
    BY <1>4 DEF SInv, WatchInv, CyclesTimed
  <2>2. \A c \in Conn : cache'[c] # None => cache'[c] <= now /\ cache'[c] + IntervalSeconds <= timer
    BY <1>5 DEF SInv, WatchInv, CyclesTimed
  <2> QED BY <1>1, <2>1, <2>2 DEF CyclesTimed
<1>12. VouchedBefore'
  <2> SUFFICES ASSUME NEW c \in Conn, traits[c] # NoTraits, Meant(traits[c].userId)
               PROVE  /\ cache'[c] # None
                           => cache'[c] + SESSION_TTL_SECONDS <= revokedTill[traits[c].userId]
                      /\ \A z \in cycles' : Vouches(z, c)
                           => z.start + SESSION_TTL_SECONDS <= revokedTill[traits[c].userId]
    BY <1>1 DEF VouchedBefore, Meant, Vouches, NoTraits
  <2>1. /\ cache[c] # None => cache[c] + SESSION_TTL_SECONDS <= revokedTill[traits[c].userId]
        /\ \A z \in cycles : Vouches(z, c)
             => z.start + SESSION_TTL_SECONDS <= revokedTill[traits[c].userId]
    BY DEF SInv, WatchInv, VouchedBefore
  <2> QED BY <1>3, <1>5, <1>7, <2>1
<1>13. \A z \in cycles' : \A c \in z.due :
         /\ c \in Conn /\ Meant(traits[c].userId)
         /\ cache[c] # None => cache[c] + CacheTtl <= z.start
         /\ \A x \in cycles : Vouches(x, c) => x.start + CacheTtl <= z.start
  BY <1>6, WatchTypes DEF SInv, WatchInv, DueAsked
<1>14. \A z \in cycles' : \A c \in z.due : cache'[c] # None => cache'[c] + CacheTtl <= z.start
  BY <1>3, <1>5, <1>13
<1>15. DueAsked'
  <2>1. \A z \in cycles' : \A c \in z.due : ~ Vouches(z, c)
    <3> SUFFICES ASSUME NEW z \in cycles', NEW c \in z.due, Vouches(z, c) PROVE FALSE
      OBVIOUS
    <3>1. z \in cycles
      BY <1>7, <1>13
    <3> QED BY <3>1 DEF SInv, WatchInv, DueAsked
  <2>2. \A z \in cycles' : \A c \in z.due : \A x \in cycles' : Vouches(x, c) => x \in cycles
    BY <1>7, <1>13
  <2> QED BY <1>1, <1>13, <1>14, <2>1, <2>2 DEF DueAsked, Meant, Vouches
<1>16. CaughtNextCycle'
  <2>1. ASSUME NEW c \in w.due, stage[c] = "open" PROVE c \in Range(w.todo)
    <3>1. c \in y.due /\ c \in Range(y.todo)
      BY <1>4, <2>1 DEF SInv, WatchInv, CaughtNextCycle
    <3>2. c # h /\ c \in Conn
      BY <1>3, <3>1, WatchTypes DEF SInv, WatchInv, DueAsked
    <3>3. cache'[c] # None => cache'[c] \in Nat /\ cache'[c] + CacheTtl <= y.start
      BY <1>4, <1>5, <1>14, <2>1, <3>2, WatchTypes
    <3>4. ~ Cached(c, y.start, cache')
      BY <3>3, WatchTypes, ConstantTypes DEF Cached
    <3> QED BY <1>4, <3>1, <3>2, <3>4
  <2> QED BY <1>1, <1>4, <2>1 DEF SInv, WatchInv, CaughtNextCycle
<1>17. TaintedOpen'
  BY <1>1, <1>4 DEF SInv, WatchInv, TaintedOpen, Meant
<1> QED BY <1>8, <1>9, <1>10, <1>11, <1>12, <1>15, <1>16, <1>17 DEF WatchInv

\* A stream the policy closes had been found, by an answer or by an error,
\* to be a revoked user's.
LEMMA FailedStep ==
  ASSUME SInv, NEW y \in cycles, Failed(y)
  PROVE  WatchInv'
<1> DEFINE h == Head(y.todo)
<1>1. /\ UNCHANGED <<now, marker, traits, timer, errors, revokedTill, tainted>>
      /\ y.phase = "failed" /\ cache' = [cache EXCEPT ![h] = None] /\ GoOn(y, cache')
      /\ registry' = RemoveFirst(registry, h) /\ stage' = [stage EXCEPT ![h] = "closed"]
      /\ evicted' = IF stage[h] = "open" THEN evicted \cup {h} ELSE evicted
  BY DEF Failed, cycleRest, redisVars, orderVars
<1>2. y.todo # <<>>
  BY <1>1 DEF SInv, WatchInv, CyclesTimed
<1>3. h \in Conn /\ Was(h)
  BY <1>2, CycleHead DEF SInv
<1>4. PICK w \in Cycle :
        /\ cycles' = (cycles \ {y}) \cup {w}
        /\ w.start = y.start /\ w.due = y.due /\ w.phase = "asking"
        /\ Range(w.todo) \subseteq Range(y.todo)
        /\ \A c \in Range(y.todo) :
             c # h /\ ~ Cached(c, y.start, cache') => c \in Range(w.todo)
  <2>1. PICK k : k = cache'
    OBVIOUS
  <2>2. GoOn(y, k)
    BY <1>1, <2>1
  <2>3. \E w \in Cycle :
          /\ cycles' = (cycles \ {y}) \cup {w}
          /\ w.start = y.start /\ w.due = y.due /\ w.phase = "asking"
          /\ Range(w.todo) \subseteq Range(y.todo)
          /\ \A c \in Range(y.todo) :
               c # Head(y.todo) /\ ~ Cached(c, y.start, k) => c \in Range(w.todo)
    BY <1>2, <2>2, GoOnStep
  <2> QED BY <2>1, <2>3
<1>5. \A c \in Conn : /\ cache'[c] = IF c = h THEN None ELSE cache[c]
                      /\ stage'[c] = IF c = h THEN "closed" ELSE stage[c]
  BY <1>1 DEF SInv, WatchInv, StreamsOK
<1>6. errors = 0 /\ stage[h] = "open" => h \in tainted
  BY <1>1 DEF SInv, WatchInv, TaintedOpen
<1> HIDE DEF h
<1>7. \A z \in cycles' : \E x \in cycles :
        /\ z.start = x.start /\ z.due = x.due /\ Range(z.todo) \subseteq Range(x.todo)
        /\ z = x \/ (z = w /\ x = y)
  BY <1>4
<1>8. \A z \in cycles', c \in Conn : Vouches(z, c) => z \in cycles
  BY <1>4 DEF Vouches
<1>9. /\ registry' \in Seq(Conn) /\ IsInjective(registry')
      /\ Range(registry') = Range(registry) \ {h}
  BY <1>1, RemoveFirstRange DEF SInv, WatchInv, StreamsOK
<1>10. StreamsOK'
  <2>1. cycles' \subseteq Cycle
    BY <1>4, WatchTypes
  <2>2. cache' \in [Conn -> Time] /\ stage' \in [Conn -> {"none", "admitted", "open", "closed"}]
    BY <1>1 DEF SInv, WatchInv, StreamsOK, Time
  <2>3. Range(registry') = {c \in Conn : stage'[c] = "open" /\ traits[c].transport = "sse"}
    BY <1>5, <1>9 DEF SInv, WatchInv, StreamsOK
  <2>4. \A c \in Conn : stage'[c] \in {"admitted", "open"} => traits[c] # NoTraits
    BY <1>5 DEF SInv, WatchInv, StreamsOK
  <2>5. evicted' \subseteq Conn
    BY <1>1, <1>3 DEF SInv, WatchInv, StreamsOK
  <2> QED BY <1>1, <1>9, <2>1, <2>2, <2>3, <2>4, <2>5 DEF SInv, WatchInv, StreamsOK, NoTraits
<1>11. MarkerAgrees' /\ IsInjective(registry)'
  BY <1>1, <1>9 DEF SInv, WatchInv, MarkerAgrees, IsInjective
<1>12. StreamsKnown'
  <2>1. \A z \in cycles' : \A c \in Range(z.todo) \cup z.due : c \in Conn /\ Was(c)
    BY <1>7, WatchTypes DEF SInv, WatchInv, StreamsKnown
  <2>2. \A c \in Conn : /\ traits[c] # NoTraits => Known(c)
                        /\ cache'[c] # None => Was(c)
    BY <1>5 DEF SInv, WatchInv, StreamsKnown
  <2> QED BY <1>1, <1>5, <2>1, <2>2 DEF StreamsKnown, Was, Known, NoTraits
<1>13. CyclesTimed'
  <2>1. \A z \in cycles' : /\ z.start <= now /\ z.start + IntervalSeconds <= timer
                           /\ z.phase # "asking" => z.todo # <<>>
    BY <1>4 DEF SInv, WatchInv, CyclesTimed
  <2>2. \A c \in Conn : cache'[c] # None => cache'[c] <= now /\ cache'[c] + IntervalSeconds <= timer
    BY <1>5 DEF SInv, WatchInv, CyclesTimed
  <2> QED BY <1>1, <2>1, <2>2 DEF CyclesTimed
<1>14. VouchedBefore'
  <2> SUFFICES ASSUME NEW c \in Conn, traits[c] # NoTraits, Meant(traits[c].userId)
               PROVE  /\ cache'[c] # None
                           => cache'[c] + SESSION_TTL_SECONDS <= revokedTill[traits[c].userId]
                      /\ \A z \in cycles' : Vouches(z, c)
                           => z.start + SESSION_TTL_SECONDS <= revokedTill[traits[c].userId]
    BY <1>1 DEF VouchedBefore, Meant, Vouches, NoTraits
  <2>1. /\ cache[c] # None => cache[c] + SESSION_TTL_SECONDS <= revokedTill[traits[c].userId]
        /\ \A z \in cycles : Vouches(z, c)
             => z.start + SESSION_TTL_SECONDS <= revokedTill[traits[c].userId]
    BY DEF SInv, WatchInv, VouchedBefore
  <2> QED BY <1>5, <1>8, <2>1
<1>15. \A z \in cycles' : \A c \in z.due :
         /\ c \in Conn /\ Meant(traits[c].userId)
         /\ cache'[c] # None => cache'[c] + CacheTtl <= z.start
         /\ \A x \in cycles : Vouches(x, c) => x.start + CacheTtl <= z.start
  BY <1>5, <1>7, WatchTypes DEF SInv, WatchInv, DueAsked
<1>16. DueAsked'
  <2>1. \A z \in cycles' : \A c \in z.due : ~ Vouches(z, c)
    <3> SUFFICES ASSUME NEW z \in cycles', NEW c \in z.due, Vouches(z, c) PROVE FALSE
      OBVIOUS
    <3>1. z \in cycles
      BY <1>8, <1>15
    <3> QED BY <3>1 DEF SInv, WatchInv, DueAsked
  <2>2. \A z \in cycles' : \A c \in z.due : \A x \in cycles' : Vouches(x, c) => x \in cycles
    BY <1>8, <1>15
  <2> QED BY <1>1, <1>15, <2>1, <2>2 DEF DueAsked, Meant, Vouches
<1>17. CaughtNextCycle'
  <2>1. ASSUME NEW c \in w.due, stage'[c] = "open" PROVE c \in Range(w.todo)
    <3>1. c \in Conn /\ c # h /\ c \in y.due /\ stage[c] = "open"
      BY <1>4, <1>5, <2>1, WatchTypes
    <3>2. c \in Range(y.todo)
      BY <3>1 DEF SInv, WatchInv, CaughtNextCycle
    <3>3. cache'[c] # None => cache'[c] \in Nat /\ cache'[c] + CacheTtl <= y.start
      BY <1>4, <1>5, <1>15, <2>1, <3>1, WatchTypes
    <3>4. ~ Cached(c, y.start, cache')
      BY <3>3, WatchTypes, ConstantTypes DEF Cached
    <3> QED BY <1>4, <3>1, <3>2, <3>4
  <2>2. ASSUME NEW x \in cycles, NEW c \in x.due, stage'[c] = "open" PROVE c \in Range(x.todo)
    <3>1. stage[c] = "open"
      BY <1>5, <2>2, WatchTypes
    <3> QED BY <3>1 DEF SInv, WatchInv, CaughtNextCycle
  <2> QED BY <1>4, <2>1, <2>2 DEF CaughtNextCycle
<1>18. TaintedOpen'
  <2>1. \A c \in Conn : stage'[c] = "open" /\ Meant(traits[c].userId) => c \in tainted
    BY <1>5 DEF SInv, WatchInv, TaintedOpen
  <2>2. ASSUME errors = 0, NEW z \in cycles', z.phase = "failed", stage'[Head(z.todo)] = "open"
        PROVE  Head(z.todo) \in tainted
    <3>1. z \in cycles
      BY <1>4, <2>2
    <3>2. z.todo # <<>>
      BY <2>2, <3>1 DEF SInv, WatchInv, CyclesTimed
    <3>3. Head(z.todo) \in Conn
      BY <3>1, <3>2, CycleHead DEF SInv
    <3> QED BY <1>5, <2>2, <3>1, <3>3 DEF SInv, WatchInv, TaintedOpen
  <2> QED BY <1>1, <2>1, <2>2 DEF TaintedOpen, Meant
<1>19. RestoredStays'
  BY <1>1, <1>6 DEF SInv, WatchInv, RestoredStays
<1> QED BY <1>10, <1>11, <1>12, <1>13, <1>14, <1>16, <1>17, <1>18, <1>19 DEF WatchInv

-----------------------------------------------------------------------------
LEMMA SInvStep == SInv /\ [Next]_vars => SInv'
<1> SUFFICES ASSUME SInv, [Next]_vars PROVE WatchInv'
  BY TokensStep DEF SInv
<1>1. errors \in Nat
  BY DEF SInv, TokensOK
<1>2. ASSUME UNCHANGED watchVars PROVE WatchInv'
  BY <1>2, WatchUntouched DEF SInv
<1>3. CASE UNCHANGED vars
  BY <1>2, <1>3 DEF vars, watchVars, redisVars, streamVars, cycleVars, orderVars
<1>4. ASSUME NEW u \in User, Login(u) \/ Logout(u) \/ mint(u) PROVE WatchInv'
  BY <1>2, <1>4 DEF Login, Logout, mint, issueRest, watchVars, streamVars, cycleVars, orderVars
<1>5. ASSUME NEW u \in User, NEW t \in Ticket, IssueTicket(u, t) PROVE WatchInv'
  BY <1>2, <1>5 DEF IssueTicket, issueRest, watchVars, streamVars, cycleVars, orderVars
<1>6. ASSUME NEW c \in Conn, NEW u \in User, ByBearer(c, u) PROVE WatchInv'
  BY <1>1, <1>6, DecideStep DEF SInv, ByBearer, authRest, cycleVars, orderVars
<1>7. ASSUME NEW c \in Conn, NEW u \in User, NEW k \in {"sse", "websocket"}, ByCookie(c, u, k)
      PROVE  WatchInv'
  BY <1>1, <1>7, DecideStep DEF SInv, ByCookie, authRest, cycleVars, orderVars
<1>8. \A t \in Ticket : holder[t] # None => holder[t] \in User
  BY DEF SInv, TokensOK
<1>9. ASSUME NEW c \in Conn, NEW t \in Ticket, NEW k \in {"sse", "websocket"}, ByTicket(c, t, k)
      PROVE  WatchInv'
  BY <1>1, <1>8, <1>9, DecideStep DEF SInv, ByTicket, authRest, cycleVars, orderVars
<1>10. ASSUME NEW c \in Conn, NEW t \in Ticket, TicketRejected(c, t) PROVE WatchInv'
  BY <1>1, <1>8, <1>10, DecideStep DEF SInv, TicketRejected, authRest, cycleVars, orderVars
<1>11. ASSUME NEW c \in Conn, Open(c) \/ Leave(c) PROVE WatchInv'
  BY <1>11, OpenStep, LeaveStep DEF SInv
<1>12. ASSUME NEW u \in User, Revoke(u) \/ Unrevoke(u) PROVE WatchInv'
  BY <1>12, RevokeStep, UnrevokeStep
<1>13. CASE Tick \/ CycleStart
  BY <1>13, ClockStep, CycleStartStep
<1>14. ASSUME NEW y \in cycles, Ask(y) \/ AskFails(y) \/ Passed(y) \/ Failed(y) PROVE WatchInv'
  BY <1>14, AskStep, PassedStep, FailedStep
<1> QED BY <1>3, <1>4, <1>5, <1>6, <1>7, <1>9, <1>10, <1>11, <1>12, <1>13, <1>14, NextActions

\* The store, the cache, the cycles and the streams, through every action.
THEOREM WatchInvariance == Spec => []SInv
BY InitSInv, SInvStep, PTL DEF Spec

\* The types of every variable; among them, that the registry of SSE streams
\* holds exactly those that are open.
THEOREM TypeCorrect == Spec => []TypeOK
<1>1. SInv => TypeOK
  BY TwoHalves DEF SInv, WatchInv
<1> QED BY <1>1, WatchInvariance, PTL

\* ReauthenticationService.runCycle: whatever cycles overlap, and however old
\* the answers they write into the cache, a cycle that is through has closed
\* the streams it found of users revoked long enough.
THEOREM NextCycleCatches == Spec => []CaughtNextCycle
<1>1. SInv => CaughtNextCycle
  BY DEF SInv, WatchInv
<1> QED BY <1>1, WatchInvariance, PTL

\* handleFailure: while Redis answers, only a stream whose user was revoked
\* during it is ever disconnected.
THEOREM OnlyTaintedEvicted == Spec => []RestoredStays
<1>1. SInv => RestoredStays
  BY DEF SInv, WatchInv
<1> QED BY <1>1, WatchInvariance, PTL
=============================================================================
