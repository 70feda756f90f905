--------------------------- MODULE WebPagesProofs ---------------------------
(***************************************************************************)
(* Proofs about WebPages for every set of users and routes and any number  *)
(* of fetches in flight.                                                   *)
(***************************************************************************)
EXTENDS WebPages, FiniteSetTheorems, TLAPS

\* The kinds of fetch a page sends; those of the session are everybody's.
Fits(kind, at) ==
  \/ kind \in SessionKind
  \/ at = "home"        /\ kind = "simulate"
  \/ at = "presence"    /\ kind = "roster"
  \/ at = "audit"       /\ kind = "feed"
  \/ at = "connections" /\ kind \in {"list", "timeline", "introspection", "disconnect"}
  \/ at = "replay"      /\ kind \in {"replayTimeline", "burst", "drop"}
  \/ at = "offline"     /\ kind \in {"peek", "offlineEmit", "ack"}
  \/ at = "reauth"      /\ kind \in {"stats", "revoke", "restore"}
  \/ at = "cluster"     /\ kind \in {"cards", "simulate"}
  \/ at = "broadcast"   /\ kind \in emitApi
  \/ at = "chat"        /\ kind \in {"wsToken", "join", "leave"}
  \/ at = "both"        /\ kind \in {"wsToken", "emitUser"}
  \/ at = "ticket"      /\ kind = "ticket"
  \/ at = "connection"  /\ kind = "drop"

Calls == BagToSet(calls)

\* The page is a record of these fields.
PageField == {"at", "input", "shown", "side", "wiring", "note", "reads", "login", "card", "token",
              "live", "owner", "joined", "confirming", "sse", "ws", "via", "doubt"}
IsPage(p) == p = [f \in PageField |-> p[f]]
CallField == {"kind", "arg", "n", "as", "event", "served"}
IsCall(c) == c = [f \in CallField |-> c[f]]

RoomKind == {"join", "leave"}

CallOf(p, c) ==
  /\ IsCall(c) /\ c.as \in User \cup {None} /\ Fits(c.kind, p.at)
  /\ c.kind = "login" => c.arg \in User
  /\ c.kind = "roster" => c.arg \in Range(TenantOf) /\ c.n \in 1..MaxReads
  /\ c.kind \in RoomKind => /\ c.arg \in Incident \cup {Blank} /\ c.n \in 1..p.reads
                            /\ c.served \in {0, 200, 403, 404}
                            /\ c.as = None \/ c.arg = Blank => c.served = 0

CallsOK == \A c \in Calls : CallOf(page, c)

PageFits(p) ==
  /\ IsPage(p) /\ p.at \in Page /\ p.note \in Notes /\ p.token \in User \cup {None}
  /\ p.card \in [Card -> {"idle", "pending", "ok", "failed"}]
  /\ p.reads \in 0..MaxReads /\ p.live \in 0..p.reads /\ p.via \in 0..p.reads
  /\ p.sse \in 0..MaxReads /\ p.ws \in 0..MaxReads /\ p.login \in 0..MaxLogins
  /\ p.confirming \in BOOLEAN /\ p.doubt \in BOOLEAN
  /\ p.joined # None => p.via >= 1
  /\ p.at = "home" => p.shown = None /\ p.side = None /\ p.wiring = None

PageOK == PageFits(page)

StreamType == [Hook -> [source : {"none", "opening", "open", "down"},
                        as : User \cup {None}, retry : BOOLEAN]]

RestOK ==
  /\ cookie \in User \cup {None}
  /\ session \in [status : {"loading", "anonymous", "authenticated"}, traits : User \cup {None}]
  /\ IsABag(calls) /\ stream \in StreamType
  /\ lastEvent \in {None, "established", "presence", "other"} /\ member \subseteq Incident
  /\ logins \in 0..MaxLogins /\ drops \in 0..MaxDrops /\ unsure \in BOOLEAN

\* There is at most one fetch of these kinds in flight.
Once(K) == \A c, d \in Calls : c.kind \in K /\ d.kind \in K => c = d /\ calls[c] = 1

\* While session calls do not overlap, one that reads the session reads it of
\* the cookie, and without one the context is the cookie's.
SessionOK ==
  ~unsure =>
    /\ Once(SessionKind)
    /\ \A c \in Calls : c.kind = "me" => c.as = cookie
    /\ (\A c \in Calls : c.kind # "me") => session.traits = cookie

\* What is shown or on its way was read as who is signed in, unless a login has
\* yet to go home.
DataOK ==
  cookie # None /\ (\A c \in Calls : ~(c.kind = "me" /\ c.arg = "login")) =>
    /\ \A body \in {page.shown, page.side, page.wiring} \ {None} : body.as = cookie
    /\ \A c \in Calls : c.kind \in Reads => c.as = cookie

RosterOK ==
  page.at = "presence" /\ page.reads > 0 =>
    \/ \E c \in Calls : c.kind = "roster" /\ c.n = page.reads
    \/ page.note = "failed"
    \/ page.shown # None /\ page.shown.n = page.reads

\* A listing that is read with calls of this kind.
Fed(kind) ==
  /\ \A c \in Calls : c.kind = kind => c.arg = page.input
  /\ (\A c \in Calls : c.kind # kind) /\ page.shown # None /\ page.note # "failed"
       => page.shown.arg = page.input

ListOK ==
  /\ page.at = "audit" /\ ~page.doubt => Fed("feed")
  /\ page.at = "offline" /\ isAdmin(session.traits) /\ ~page.doubt => Fed("peek")

\* A join the API has served is of a room the socket is in, and so is what has been
\* joined until a leave is served.
ChatOK ==
  page.at = "chat" /\ ~page.doubt =>
    /\ Once(RoomKind)
    /\ \A c \in Calls : c.kind = "join" =>
         page.joined = None /\ (c.served = 200 /\ c.n = page.live => c.arg \in member)
    /\ /\ page.joined # None /\ page.via = page.live
       /\ \A c \in Calls : ~(c.kind = "leave" /\ c.served = 200)
       => page.joined \in member

WInv ==
  /\ RestOK /\ PageOK /\ CallsOK
  /\ SessionOK /\ DataOK /\ RosterOK /\ ListOK /\ ChatOK

-----------------------------------------------------------------------------
(* The fetches in flight, as a set.                                        *)

LEMMA WithoutSet ==
  ASSUME IsABag(calls), NEW c \in BagToSet(calls)
  PROVE  /\ IsABag(Without(c))
         /\ BagToSet(Without(c)) \subseteq BagToSet(calls)
         /\ \A d \in BagToSet(calls) : d # c => d \in BagToSet(Without(c))
         /\ \A d \in BagToSet(Without(c)) : Without(c)[d] <= calls[d]
         /\ calls[c] = 1 => c \notin BagToSet(Without(c))
BY DEF Without, One, SetToBag, IsABag, BagToSet, (-)

LEMMA SurvivorsSet ==
  ASSUME NEW old, IsABag(old)
  PROVE  /\ IsABag(Survivors(old))
         /\ BagToSet(Survivors(old)) = {c \in BagToSet(old) : c.kind \in SessionKind}
         /\ \A d \in BagToSet(Survivors(old)) : Survivors(old)[d] = old[d]
BY DEF Survivors, IsABag, BagToSet

LEMMA CopiesPositive ==
  ASSUME NEW S, NEW s \in Seq(S)
  PROVE  /\ SeqBag(s) \in [Range(s) -> {n \in Nat : n > 0}]
         /\ Len(s) = 1 => \A c \in Range(s) : SeqBag(s)[c] = 1
<1> DEFINE At(c) == {i \in DOMAIN s : s[i] = c}
<1>1. ASSUME NEW c \in Range(s)
      PROVE  Cardinality(At(c)) \in Nat /\ Cardinality(At(c)) > 0
  <2>1. IsFiniteSet(DOMAIN s)
    BY FS_Interval
  <2>2. IsFiniteSet(At(c))
    BY <2>1, FS_Subset
  <2>3. At(c) # {}
    BY <1>1 DEF Range
  <2>4. Cardinality(At(c)) \in Nat /\ Cardinality(At(c)) # 0
    BY <2>2, <2>3, FS_EmptySet, FS_CardinalityType
  <2> QED
    BY <2>4
<1>2. ASSUME Len(s) = 1, NEW c \in Range(s) PROVE Cardinality(At(c)) = 1
  <2>1. At(c) = {1}
    BY <1>2 DEF Range
  <2> QED
    BY <2>1, FS_Singleton
<1> QED
  BY <1>1, <1>2 DEF SeqBag

LEMMA AskSet ==
  ASSUME NEW old, IsABag(old), NEW S, NEW s \in Seq(S), Ask(old, s)
  PROVE  /\ IsABag(calls')
         /\ BagToSet(calls') = BagToSet(old) \cup Range(s)
         /\ \A c \in BagToSet(old) \ Range(s) : calls'[c] = old[c]
         /\ Len(s) = 1 => \A c \in Range(s) \ BagToSet(old) : calls'[c] = 1
<1>1. CASE s = <<>>
  BY <1>1 DEF Ask, Range
<1>2. CASE s # <<>>
  <2>1. PICK b : b = SeqBag(s)
    OBVIOUS
  <2>2. b \in [Range(s) -> {n \in Nat : n > 0}] /\ (Len(s) = 1 => \A c \in Range(s) : b[c] = 1)
    BY <2>1, CopiesPositive
  <2>3. calls' = old (+) b
    BY <1>2, <2>1 DEF Ask
  <2> QED
    BY <2>2, <2>3 DEF IsABag, BagToSet, (+)
<1> QED BY <1>1, <1>2

-----------------------------------------------------------------------------
(* What a page reads.                                                      *)

LEMMA TimesNat ==
  ASSUME NEW why, NEW deps, NEW last, NEW on
  PROVE  /\ Times(why, deps, last, on) \in Nat
         /\ why \cap deps # {} => Times(why, deps, last, on) > 0
BY DEF Times

LEMMA CopiesSeq ==
  ASSUME NEW c, NEW k \in Nat
  PROVE  /\ Copies(c, k) \in Seq({c}) /\ Len(Copies(c, k)) = k
         /\ k > 0 => c \in Range(Copies(c, k))
<1>1. Copies(c, k) \in [1..k -> {c}]
  BY DEF Copies
<1>2. Copies(c, k) \in Seq({c}) /\ Len(Copies(c, k)) = k
  BY <1>1
<1>3. k > 0 => 1 \in DOMAIN Copies(c, k) /\ Copies(c, k)[1] = c
  BY <1>1
<1> QED
  BY <1>2, <1>3 DEF Range

LEMMA SeqOverRange ==
  ASSUME NEW T, NEW q \in Seq(T), NEW R, R = Range(q)
  PROVE  q \in Seq(R)
BY DEF Range

LEMMA RangeWithin ==
  ASSUME NEW T, NEW q \in Seq(T), NEW R, R = Range(q)
  PROVE  R \subseteq T
BY DEF Range

LEMMA SeqWidens ==
  ASSUME NEW S, NEW T, S \subseteq T, NEW s \in Seq(S)
  PROVE  s \in Seq(T)
OBVIOUS

LEMMA CallFields ==
  ASSUME NEW who, NEW kind, NEW arg, NEW n, NEW c, c = Call(who, kind, arg, n)
  PROVE  /\ IsCall(c) /\ c.as = who /\ c.kind = kind /\ c.arg = arg /\ c.n = n
         /\ c.served = 0 /\ c.event = Blank
BY DEF Call, IsCall, CallField

Loadable == Reads \cup {"wsToken", "ticket"}

\* A fetch that page p sends by itself, with k of them at once.
Loaded(p, who, k, c) ==
  /\ IsCall(c) /\ c.as = who /\ c.served = 0 /\ c.kind \in Loadable /\ Fits(c.kind, p.at)
  /\ c.kind \in {"feed", "peek"} => c.arg = p.input
  /\ c.kind = "roster" => c.arg \in Range(TenantOf) /\ c.n \in (p.reads + 1)..(p.reads + k)

LEMMA RosterLoads ==
  ASSUME NEW p, p.at = "presence", p.reads \in Nat, NEW why, NEW tr \in User \cup {None}, NEW last,
         NEW who, NEW new, new = usePresenceLoads(p, why, tr, last, who)
  PROVE  /\ new \in Seq(Range(new))
         /\ \A c \in Range(new) : Loaded(p, who, Len(new), c)
         /\ Len(new) > 0 => \E c \in Range(new) : c.kind = "roster" /\ c.n = p.reads + Len(new)
<1>1. CASE tr = None
  BY <1>1 DEF usePresenceLoads, Range
<1>2. CASE tr # None
  <2>1. PICK k \in Nat : k = Times(why, {"mount", "traits"}, last, PRESENCE_EVENT_NAME_SET)
    BY TimesNat
  <2>2. PICK t : t = TenantOf[tr]
    OBVIOUS
  <2>3. t \in Range(TenantOf)
    BY <1>2, <2>2, WebAssumption DEF Range
  <2>4. new = [i \in 1..k |-> Call(who, "roster", t, p.reads + i)]
    BY <1>2, <2>1, <2>2 DEF usePresenceLoads
  <2>5. DOMAIN new = 1..k /\ \A i \in 1..k : new[i] = Call(who, "roster", t, p.reads + i)
    BY <2>4
  <2>6. new \in Seq(Range(new)) /\ Len(new) = k
    BY <2>4, <2>5 DEF Range
  <2>7. ASSUME NEW i \in 1..k PROVE Loaded(p, who, k, new[i]) /\ new[i].kind = "roster" /\ new[i].n = p.reads + i
    BY <2>3, <2>5, CallFields DEF Loaded, Loadable, Reads, Fits
  <2>8. \A c \in Range(new) : Loaded(p, who, k, c)
    BY <2>5, <2>7 DEF Range
  <2>9. k > 0 => k \in 1..k /\ new[k] \in Range(new)
    BY <2>5 DEF Range
  <2> QED
    BY <2>6, <2>7, <2>8, <2>9
<1> QED BY <1>1, <1>2

LEMMA FeedLoads ==
  ASSUME NEW p, p.at = "audit", NEW why, NEW last, NEW who, NEW k \in Nat,
         NEW new, new = useAuditFeed(p, why, last, who)
  PROVE  /\ new \in Seq(Range(new))
         /\ \A c \in Range(new) : Loaded(p, who, k, c)
         /\ why \cap {"mount", "input"} # {} => \E c \in Range(new) : c.kind = "feed"
<1>1. PICK n \in Nat : n = Times(why, {"mount", "input"}, last, {"established"})
  BY TimesNat
<1>2. why \cap {"mount", "input"} # {} => n > 0
  BY <1>1, TimesNat
<1>3. PICK d : d = Call(who, "feed", p.input, 0)
  OBVIOUS
<1>4. new = Copies(d, n)
  BY <1>1, <1>3 DEF useAuditFeed
<1>5. new \in Seq({d}) /\ (n > 0 => d \in Range(new))
  BY <1>4, CopiesSeq
<1>6. Loaded(p, who, k, d) /\ d.kind = "feed"
  BY <1>3, CallFields DEF Loaded, Loadable, Reads, Fits
<1>7. new \in Seq(Range(new)) /\ Range(new) \subseteq {d}
  <2>1. PICK R, S : R = Range(new) /\ S = {d}
    OBVIOUS
  <2>2. new \in Seq(S)
    BY <1>5, <2>1
  <2>3. new \in Seq(R)
    BY <2>1, <2>2, SeqOverRange
  <2>4. R \subseteq S
    BY <2>1, <2>2, RangeWithin
  <2> QED
    BY <2>1, <2>3, <2>4
<1> QED
  BY <1>2, <1>5, <1>6, <1>7

LEMMA RegistryLoads ==
  ASSUME NEW p, p.at = "connections", NEW why, NEW tr, NEW last, NEW who, NEW k \in Nat,
         NEW new, new = useConnectionsRegistry(why, tr, last, who)
  PROVE  /\ new \in Seq(Range(new))
         /\ \A c \in Range(new) : Loaded(p, who, k, c)
<1>1. PICK n \in Nat : n = Times(why, {"mount", "user"}, last, {"established"})
  BY TimesNat
<1>2. PICK d : d = Call(who, "list", None, 0)
  OBVIOUS
<1>3. PICK e : e = Call(who, "timeline", tr, 0)
  OBVIOUS
<1>4. PICK f : f = Call(who, "introspection", None, 0)
  OBVIOUS
<1>5. Loaded(p, who, k, d) /\ Loaded(p, who, k, e) /\ Loaded(p, who, k, f)
  BY <1>2, <1>3, <1>4, CallFields DEF Loaded, Loadable, Reads, Fits
<1>6. PICK s : s = IF tr = None THEN <<>> ELSE Copies(e, n)
  OBVIOUS
<1>7. PICK t : t = IF tr # None /\ why \cap {"mount", "traits"} # {} THEN <<f>> ELSE <<>>
  OBVIOUS
<1>8. new = Copies(d, n) \o s \o t
  BY <1>1, <1>2, <1>3, <1>4, <1>6, <1>7 DEF useConnectionsRegistry
<1>9. Copies(d, n) \in Seq({d, e, f})
  <2>1. Copies(d, n) \in Seq({d})
    BY CopiesSeq
  <2>2. {d} \subseteq {d, e, f}
    OBVIOUS
  <2> QED
    BY <2>1, <2>2, SeqWidens, Zenon
<1>10. s \in Seq({d, e, f})
  <2>1. Copies(e, n) \in Seq({d, e, f})
    <3>1. Copies(e, n) \in Seq({e})
      BY CopiesSeq
    <3>2. {e} \subseteq {d, e, f}
      OBVIOUS
    <3> QED
      BY <3>1, <3>2, SeqWidens, Zenon
  <2>2. <<>> \in Seq({d, e, f})
    OBVIOUS
  <2> QED
    BY <1>6, <2>1, <2>2, Zenon
<1>11. t \in Seq({d, e, f})
  <2>1. <<f>> \in Seq({d, e, f}) /\ <<>> \in Seq({d, e, f})
    OBVIOUS
  <2> QED
    BY <1>7, <2>1, Zenon
<1>12. new \in Seq({d, e, f})
  BY <1>8, <1>9, <1>10, <1>11
<1>13. new \in Seq(Range(new)) /\ Range(new) \subseteq {d, e, f}
  <2>1. PICK R, S : R = Range(new) /\ S = {d, e, f}
    OBVIOUS
  <2>2. new \in Seq(S)
    BY <1>12, <2>1
  <2>3. new \in Seq(R)
    BY <2>1, <2>2, SeqOverRange
  <2>4. R \subseteq S
    BY <2>1, <2>2, RangeWithin
  <2> QED
    BY <2>1, <2>3, <2>4
<1> QED
  BY <1>5, <1>13

LEMMA OneCall ==
  ASSUME NEW c
  PROVE  <<c>> \in Seq(Range(<<c>>)) /\ Range(<<c>>) = {c} /\ Len(<<c>>) = 1
BY DEF Range

LEMMA NoCall == <<>> \in Seq(Range(<<>>)) /\ Range(<<>>) = {} /\ Len(<<>>) = 0
BY DEF Range

LEMMA OnMountOf ==
  /\ DOMAIN OnMount = {"reauth", "cluster", "chat", "both", "ticket"}
  /\ OnMount["reauth"] = "stats" /\ OnMount["cluster"] = "cards" /\ OnMount["chat"] = "wsToken"
  /\ OnMount["both"] = "wsToken" /\ OnMount["ticket"] = "ticket"
BY DEF OnMount

\* Everything about the fetches a page sends by itself.
LEMMA LoadsCalls ==
  ASSUME NEW p, p.reads \in Nat, NEW why, NEW tr \in User \cup {None}, NEW last, NEW who,
         NEW new, new = Loads(p, why, tr, last, who)
  PROVE  /\ new \in Seq(Range(new)) /\ Len(new) \in Nat
         /\ \A c \in Range(new) : Loaded(p, who, Len(new), c)
<1>1. CASE p.at = "presence"
  <2>1. new = usePresenceLoads(p, why, tr, last, who)
    BY <1>1, OnMountOf DEF Loads
  <2> QED
    BY <1>1, <2>1, RosterLoads
<1>2. CASE p.at = "audit"
  <2>1. new = useAuditFeed(p, why, last, who)
    BY <1>2, OnMountOf DEF Loads
  <2>2. new \in Seq(Range(new))
    BY <1>2, <2>1, FeedLoads, 0 \in Nat
  <2>3. Len(new) \in Nat
    BY <2>2
  <2> QED
    BY <1>2, <2>1, <2>3, FeedLoads
<1>3. CASE p.at = "connections"
  <2>1. new = useConnectionsRegistry(why, tr, last, who)
    BY <1>3, OnMountOf DEF Loads
  <2>2. new \in Seq(Range(new))
    BY <1>3, <2>1, RegistryLoads, 0 \in Nat
  <2>3. Len(new) \in Nat
    BY <2>2
  <2> QED
    BY <1>3, <2>1, <2>3, RegistryLoads
<1>4. CASE p.at = "replay"
  <2>1. PICK c : c = Call(who, "replayTimeline", tr, 0)
    OBVIOUS
  <2>2. Loaded(p, who, 1, c)
    BY <1>4, <2>1, CallFields DEF Loaded, Loadable, Reads, Fits
  <2>3. new = <<c>> \/ new = <<>>
    BY <1>4, <2>1, OnMountOf DEF Loads, useReplayLab
  <2>4. CASE new = <<c>>
    BY <1>4, <2>2, <2>4, OneCall
  <2>5. CASE new = <<>>
    BY <1>4, <2>5, NoCall
  <2> QED
    BY <2>3, <2>4, <2>5
<1>5. CASE p.at = "offline"
  <2>1. PICK c : c = Call(who, "peek", p.input, 0)
    OBVIOUS
  <2>2. Loaded(p, who, 1, c) /\ c.kind = "peek"
    BY <1>5, <2>1, CallFields DEF Loaded, Loadable, Reads, Fits
  <2>3. new = IF isAdmin(tr) /\ Peeks(p, why) THEN <<c>> ELSE <<>>
    BY <1>5, <2>1, OnMountOf DEF Loads, peek
  <2>4. CASE isAdmin(tr) /\ Peeks(p, why)
    <3>1. new = <<c>>
      BY <2>3, <2>4
    <3> QED
      BY <1>5, <2>2, <3>1, OneCall
  <2>5. CASE ~(isAdmin(tr) /\ Peeks(p, why))
    <3>1. new = <<>>
      BY <2>3, <2>5
    <3> QED
      BY <1>5, <2>5, <3>1, NoCall
  <2> QED
    BY <2>4, <2>5
<1>6. CASE p.at \in DOMAIN OnMount /\ "mount" \in why
  <2>1. PICK c : c = Call(who, OnMount[p.at], None, 0)
    OBVIOUS
  <2>2. PICK kind : kind = OnMount[p.at]
    OBVIOUS
  <2>3. kind \in {"stats", "cards", "wsToken", "ticket"} /\ Fits(kind, p.at)
    BY <1>6, <2>2, OnMountOf DEF Fits
  <2>4. IsCall(c) /\ c.as = who /\ c.served = 0 /\ c.kind = kind
    BY <2>1, <2>2, CallFields
  <2>5. Loaded(p, who, 1, c)
    BY <2>3, <2>4 DEF Loaded, Loadable, Reads
  <2>6. new = <<c>>
    BY <1>6, <2>1, OnMountOf DEF Loads
  <2> QED
    BY <1>6, <2>5, <2>6, OneCall, OnMountOf
<1>7. CASE /\ p.at \notin {"presence", "audit", "connections", "replay", "offline"}
           /\ ~(p.at \in DOMAIN OnMount /\ "mount" \in why)
  <2>1. new = <<>>
    BY <1>7 DEF Loads
  <2> QED
    BY <1>7, <2>1, NoCall
<1> QED BY <1>1, <1>2, <1>3, <1>4, <1>5, <1>6, <1>7

LEMMA LoadsRoster ==
  ASSUME NEW p, p.reads \in Nat, p.at = "presence", NEW why, NEW tr \in User \cup {None},
         NEW last, NEW who, NEW new, new = Loads(p, why, tr, last, who), Len(new) > 0
  PROVE  \E c \in Range(new) : c.kind = "roster" /\ c.n = p.reads + Len(new)
<1>1. new = usePresenceLoads(p, why, tr, last, who)
  BY OnMountOf DEF Loads
<1> QED
  BY <1>1, RosterLoads

LEMMA LoadsFeed ==
  ASSUME NEW p, p.at = "audit", NEW why, why \cap {"mount", "input"} # {}, NEW tr,
         NEW last, NEW who, NEW new, new = Loads(p, why, tr, last, who)
  PROVE  \E c \in Range(new) : c.kind = "feed"
<1>1. new = useAuditFeed(p, why, last, who)
  BY OnMountOf DEF Loads
<1> QED
  BY <1>1, FeedLoads, 0 \in Nat

LEMMA LoadsPeek ==
  ASSUME NEW p, NEW why, Peeks(p, why), NEW tr, isAdmin(tr),
         NEW last, NEW who, NEW new, new = Loads(p, why, tr, last, who)
  PROVE  \E c \in Range(new) : c.kind = "peek"
<1>1. PICK c : c = Call(who, "peek", p.input, 0)
  OBVIOUS
<1>2. p.at = "offline"
  BY DEF Peeks
<1>3. new = <<c>>
  BY <1>1, <1>2, OnMountOf DEF Loads, peek
<1> QED
  BY <1>1, <1>3, OneCall, CallFields

LEMMA LoadsNothing ==
  ASSUME NEW p, NEW why, NEW tr, NEW last, NEW who,
         \/ p.at \in {"home", "login", "broadcast", "connection"}
         \/ p.at \in {"reauth", "cluster", "chat", "both", "ticket"} /\ "mount" \notin why
  PROVE  Loads(p, why, tr, last, who) = <<>>
BY OnMountOf DEF Loads

-----------------------------------------------------------------------------
(* How a step moves the fetches: those of G have an answer, those of s are *)
(* sent, and an unmounted page may forget what is not the session's.       *)

Flow(G, s) ==
  /\ IsABag(calls') /\ Range(s) \subseteq Calls'
  /\ \A c \in Calls' \ Range(s) : c \in Calls /\ calls'[c] <= calls[c]
  /\ \A c \in Calls \ G : c.kind \in SessionKind => c \in Calls'
  /\ \A c \in G \ Range(s) : calls[c] = 1 => c \notin Calls'
  /\ Len(s) = 1 => \A c \in Range(s) \ Calls : calls'[c] = 1

Stays(G) == Calls \ G \subseteq Calls'

LEMMA FlowSent ==
  ASSUME IsABag(calls), NEW S, NEW s \in Seq(S), Ask(calls, s)
  PROVE  Flow({}, s) /\ Stays({})
<1>1. IsABag(calls') /\ BagToSet(calls') = BagToSet(calls) \cup Range(s)
  BY AskSet
<1>2. \A c \in BagToSet(calls) \ Range(s) : calls'[c] = calls[c]
  BY AskSet
<1>3. Len(s) = 1 => \A c \in Range(s) \ BagToSet(calls) : calls'[c] = 1
  BY AskSet
<1>4. \A c \in BagToSet(calls) : calls[c] \in Nat
  BY DEF IsABag, BagToSet
<1>5. Calls' = BagToSet(calls')
  BY DEF Calls
<1> QED
  BY <1>1, <1>2, <1>3, <1>4, <1>5 DEF Flow, Stays, Calls

LEMMA FlowAnswered ==
  ASSUME IsABag(calls), NEW c \in Calls, NEW S, NEW s \in Seq(S), Ask(Without(c), s)
  PROVE  Flow({c}, s) /\ Stays({c})
<1>1. PICK old : old = Without(c)
  OBVIOUS
<1>2. c \in BagToSet(calls)
  BY DEF Calls
<1>3. /\ IsABag(old)
      /\ BagToSet(old) \subseteq BagToSet(calls)
      /\ \A d \in BagToSet(calls) : d # c => d \in BagToSet(old)
      /\ \A d \in BagToSet(old) : old[d] <= calls[d]
      /\ calls[c] = 1 => c \notin BagToSet(old)
  BY <1>1, <1>2, WithoutSet
<1>4. Ask(old, s)
  BY <1>1
<1>5. IsABag(calls') /\ BagToSet(calls') = BagToSet(old) \cup Range(s)
  BY <1>3, <1>4, AskSet
<1>6. \A d \in BagToSet(old) \ Range(s) : calls'[d] = old[d]
  BY <1>3, <1>4, AskSet
<1>7. Len(s) = 1 => \A d \in Range(s) \ BagToSet(old) : calls'[d] = 1
  BY <1>3, <1>4, AskSet
<1>8. Calls' = BagToSet(calls')
  BY DEF Calls
<1> QED
  BY <1>3, <1>5, <1>6, <1>7, <1>8 DEF Flow, Stays, Calls

\* An unmounted page leaves only fetches of the session.
LEMMA FlowForgets ==
  ASSUME NEW old, IsABag(old), NEW G,
         BagToSet(old) \subseteq Calls, Calls \ G \subseteq BagToSet(old),
         \A d \in BagToSet(old) : old[d] <= calls[d],
         \A d \in G : calls[d] = 1 => d \notin BagToSet(old),
         NEW S, NEW s \in Seq(S), Ask(Survivors(old), s)
  PROVE  Flow(G, s) /\ \A c \in Calls' \ Range(s) : c.kind \in SessionKind
<1>1. PICK b : b = Survivors(old)
  OBVIOUS
<1>2. /\ IsABag(b)
      /\ BagToSet(b) = {c \in BagToSet(old) : c.kind \in SessionKind}
      /\ \A d \in BagToSet(b) : b[d] = old[d]
  BY <1>1, SurvivorsSet
<1>3. Ask(b, s)
  BY <1>1
<1>4. IsABag(calls') /\ BagToSet(calls') = BagToSet(b) \cup Range(s)
  BY <1>2, <1>3, AskSet
<1>5. \A d \in BagToSet(b) \ Range(s) : calls'[d] = b[d]
  BY <1>2, <1>3, AskSet
<1>6. Len(s) = 1 => \A d \in Range(s) \ BagToSet(b) : calls'[d] = 1
  BY <1>2, <1>3, AskSet
<1>7. Calls' = BagToSet(calls')
  BY DEF Calls
<1> QED
  BY <1>2, <1>4, <1>5, <1>6, <1>7 DEF Flow

LEMMA FlowNone ==
  ASSUME IsABag(calls), UNCHANGED calls
  PROVE  Flow({}, <<>>) /\ Stays({})
<1>1. Range(<<>>) = {} /\ Len(<<>>) = 0
  BY NoCall
<1>2. Calls' = Calls
  BY DEF Calls
<1>3. \A c \in Calls : calls[c] \in Nat
  BY DEF IsABag, Calls, BagToSet
<1> QED
  BY <1>1, <1>2, <1>3 DEF Flow, Stays

-----------------------------------------------------------------------------
(* What each conjunct of the invariant needs of a step that does not bear  *)
(* on it.                                                                  *)

LEMMA CallsKept ==
  ASSUME CallsOK, page.reads \in Nat, page'.reads \in Nat, page.reads <= page'.reads,
         page'.at = page.at,
         NEW G, NEW s, Flow(G, s), \A c \in Range(s) : CallOf(page', c)
  PROVE  CallsOK'
<1>1. ASSUME NEW c \in Calls' PROVE CallOf(page', c)
  <2>1. CASE c \in Range(s)
    BY <2>1
  <2>2. CASE c \notin Range(s)
    <3>1. CallOf(page, c)
      BY <2>2 DEF Flow, CallsOK
    <3>2. PICK m \in Nat, n \in Nat : m = page.reads /\ n = page'.reads /\ m <= n
      OBVIOUS
    <3>3. 1..m \subseteq 1..n
      BY <3>2
    <3> QED
      BY <3>1, <3>2, <3>3 DEF CallOf
  <2> QED BY <2>1, <2>2
<1> QED
  BY <1>1 DEF CallsOK, CallOf

LEMMA CallsForgotten ==
  ASSUME CallsOK, NEW s, \A c \in Calls' \ Range(s) : c \in Calls /\ c.kind \in SessionKind,
         \A c \in Range(s) : CallOf(page', c)
  PROVE  CallsOK'
<1>1. ASSUME NEW c \in Calls', c \notin Range(s) PROVE CallOf(page', c)
  BY <1>1 DEF CallsOK, CallOf, Fits, SessionKind, RoomKind
<1> QED
  BY <1>1 DEF CallsOK, CallOf

\* Single calls of K stay single when the step sends none of them.
LEMMA OnceKept ==
  ASSUME IsABag(calls), NEW K, Once(K), NEW G, NEW s, Flow(G, s),
         \A c \in Range(s) : c.kind \notin K
  PROVE  Once(K)'
<1>1. ASSUME NEW c \in Calls', c.kind \in K PROVE c \in Calls /\ calls'[c] = 1
  <2>1. c \in Calls /\ calls'[c] <= calls[c]
    BY <1>1 DEF Flow
  <2>2. calls[c] = 1
    BY <1>1, <2>1 DEF Once
  <2>3. calls'[c] \in Nat /\ calls'[c] > 0
    BY <1>1 DEF Flow, IsABag, Calls, BagToSet
  <2> QED
    BY <2>1, <2>2, <2>3
<1> QED
  BY <1>1 DEF Once

\* A single call of K is the only one when none of K was in flight or the one that
\* was has its answer.
LEMMA OnceSent ==
  ASSUME NEW K, NEW G, NEW d, NEW s, s = <<d>>, Flow(G, s), d \notin Calls,
         \A c \in Calls : c.kind \in K => c \in G /\ calls[c] = 1
  PROVE  Once(K)' /\ \A c \in Calls' : c.kind \in K => c = d
<1>1. Range(s) = {d} /\ Len(s) = 1
  BY OneCall
<1>2. ASSUME NEW c \in Calls', c.kind \in K PROVE c = d
  BY <1>1, <1>2 DEF Flow
<1>3. calls'[d] = 1
  BY <1>1 DEF Flow
<1> QED
  BY <1>2, <1>3 DEF Once

\* ... and none of K is in flight when it has its answer and none is sent.
LEMMA NoneLeft ==
  ASSUME NEW K, Once(K), NEW c \in Calls, c.kind \in K, NEW s, Flow({c}, s),
         \A d \in Range(s) : d.kind \notin K
  PROVE  \A d \in Calls' : d.kind \notin K
<1>1. calls[c] = 1 /\ \A d \in Calls : d.kind \in K => d = c
  BY DEF Once
<1>2. ASSUME NEW d \in Calls', d.kind \in K PROVE FALSE
  <2>1. d \notin Range(s) /\ d \in Calls
    BY <1>2 DEF Flow
  <2>2. d = c
    BY <1>1, <1>2, <2>1
  <2> QED
    BY <1>1, <1>2, <2>1, <2>2 DEF Flow
<1> QED BY <1>2

LEMMA SessionKept ==
  ASSUME SessionOK, IsABag(calls), UNCHANGED <<cookie, session, unsure>>,
         NEW G, NEW s, Flow(G, s),
         \A c \in G : c.kind \notin SessionKind, \A c \in Range(s) : c.kind \notin SessionKind
  PROVE  SessionOK'
<1>1. ASSUME ~unsure PROVE Once(SessionKind)'
  BY <1>1, OnceKept DEF SessionOK
<1>2. ASSUME NEW c \in Calls', c.kind = "me" PROVE c \in Calls
  BY <1>2 DEF Flow, SessionKind
<1>3. ASSUME NEW c \in Calls, c.kind = "me" PROVE c \in Calls'
  BY <1>3 DEF Flow, SessionKind
<1> QED
  BY <1>1, <1>2, <1>3 DEF SessionOK

\* What the page shows is what it showed, or the body of a fetch in flight.
Shows(p, q) ==
  \A body \in {q.shown, q.side, q.wiring} \ {None} :
    \/ body \in {p.shown, p.side, p.wiring}
    \/ \E c \in Calls : c.kind \in Reads /\ body.as = c.as

LEMMA DataKept ==
  ASSUME DataOK, cookie' # None => cookie' = cookie,
         NEW G, NEW s, Flow(G, s),
         \A c \in G : ~(c.kind = "me" /\ c.arg = "login"),
         \A c \in Range(s) : c.kind \in Reads => c.as = cookie',
         Shows(page, page')
  PROVE  DataOK'
<1>1. SUFFICES ASSUME cookie' # None, \A c \in Calls' : ~(c.kind = "me" /\ c.arg = "login")
               PROVE  /\ \A body \in {page'.shown, page'.side, page'.wiring} \ {None} :
                           body.as = cookie'
                      /\ \A c \in Calls' : c.kind \in Reads => c.as = cookie'
  BY DEF DataOK
<1>2. cookie' = cookie
  BY <1>1
<1>3. ASSUME NEW c \in Calls PROVE ~(c.kind = "me" /\ c.arg = "login")
  BY <1>1, <1>3 DEF Flow, SessionKind
<1>4. /\ \A body \in {page.shown, page.side, page.wiring} \ {None} : body.as = cookie
      /\ \A c \in Calls : c.kind \in Reads => c.as = cookie
  BY <1>1, <1>2, <1>3 DEF DataOK
<1>5. ASSUME NEW c \in Calls', c.kind \in Reads PROVE c.as = cookie'
  BY <1>2, <1>4, <1>5 DEF Flow
<1>6. ASSUME NEW body \in {page'.shown, page'.side, page'.wiring} \ {None} PROVE body.as = cookie'
  BY <1>2, <1>4, <1>6 DEF Shows
<1> QED
  BY <1>5, <1>6

LEMMA RosterKept ==
  ASSUME RosterOK, page'.at = page.at,
         page.at = "presence" => /\ page'.reads = page.reads /\ page'.shown = page.shown
                                 /\ page'.note \in {page.note, "failed"},
         NEW G, Stays(G), \A c \in G : c.kind # "roster"
  PROVE  RosterOK'
<1>1. ASSUME NEW c \in Calls, c.kind = "roster" PROVE c \in Calls'
  BY <1>1 DEF Stays
<1> QED
  BY <1>1 DEF RosterOK

\* The page's note is no better than it was, or the queue is read again.
NoteSound(s) ==
  \/ page'.note \in {page.note, "failed"}
  \/ page.at \notin {"presence", "audit", "offline"}
  \/ page.at = "offline" /\ \E c \in Range(s) : c.kind = "peek"

LEMMA FedKept ==
  ASSUME NEW kind, kind \in {"feed", "peek"}, Fed(kind),
         page'.input = page.input, page'.shown = page.shown,
         NEW G, NEW s, Flow(G, s), Stays(G), \A c \in G : c.kind # kind,
         \A c \in Range(s) : c.kind = kind => c.arg = page.input,
         page'.note \in {page.note, "failed"} \/ \E c \in Range(s) : c.kind = kind
  PROVE  Fed(kind)'
<1>1. ASSUME NEW c \in Calls', c.kind = kind PROVE c.arg = page'.input
  BY <1>1 DEF Flow, Fed
<1>2. ASSUME NEW c \in Calls, c.kind = kind PROVE c \in Calls'
  BY <1>2 DEF Stays
<1>3. Range(s) \subseteq Calls'
  BY DEF Flow
<1> QED
  BY <1>1, <1>2, <1>3 DEF Fed

LEMMA ListKept ==
  ASSUME ListOK, page'.at = page.at, page'.input = page.input, page'.shown = page.shown,
         session' = session,
         NEW G, NEW s, Flow(G, s), Stays(G), \A c \in G : c.kind \notin {"feed", "peek"},
         ~page'.doubt => ~page.doubt
                         /\ \A c \in Range(s) : c.kind \in {"feed", "peek"} => c.arg = page.input,
         NoteSound(s)
  PROVE  ListOK'
<1>1. ASSUME page.at = "audit", ~page'.doubt PROVE Fed("feed")'
  <2>1. page'.note \in {page.note, "failed"}
    BY <1>1 DEF NoteSound
  <2>2. Fed("feed")
    BY <1>1 DEF ListOK
  <2> QED
    BY <1>1, <2>1, <2>2, FedKept
<1>2. ASSUME page.at = "offline", isAdmin(session.traits), ~page'.doubt PROVE Fed("peek")'
  <2>1. page'.note \in {page.note, "failed"} \/ \E c \in Range(s) : c.kind = "peek"
    BY <1>2 DEF NoteSound
  <2>2. Fed("peek")
    BY <1>2 DEF ListOK
  <2> QED
    BY <1>2, <2>1, <2>2, FedKept
<1>3. isAdmin(session.traits)' = isAdmin(session.traits)
  BY DEF isAdmin
<1> QED
  BY <1>1, <1>2, <1>3 DEF ListOK

LEMMA ChatKept ==
  ASSUME ChatOK, IsABag(calls), member' = member,
         page'.at = page.at, page'.joined = page.joined, page'.via = page.via,
         page'.live = page.live, page'.doubt = FALSE => page.doubt = FALSE,
         page.doubt \in BOOLEAN, page'.doubt \in BOOLEAN,
         NEW G, NEW s, Flow(G, s), Stays(G), \A c \in G : c.kind \notin RoomKind,
         \A c \in Range(s) : c.kind \notin RoomKind
  PROVE  ChatOK'
<1>1. SUFFICES ASSUME page'.at = "chat", ~page'.doubt
               PROVE  /\ Once(RoomKind)'
                      /\ \A c \in Calls' : c.kind = "join" =>
                           page'.joined = None /\ (c.served = 200 /\ c.n = page'.live => c.arg \in member')
                      /\ /\ page'.joined # None /\ page'.via = page'.live
                         /\ \A c \in Calls' : ~(c.kind = "leave" /\ c.served = 200)
                         => page'.joined \in member'
  BY DEF ChatOK
<1>2. /\ Once(RoomKind)
      /\ \A c \in Calls : c.kind = "join" =>
           page.joined = None /\ (c.served = 200 /\ c.n = page.live => c.arg \in member)
      /\ /\ page.joined # None /\ page.via = page.live
         /\ \A c \in Calls : ~(c.kind = "leave" /\ c.served = 200)
         => page.joined \in member
  BY <1>1 DEF ChatOK
<1>3. Once(RoomKind)'
  BY <1>2, OnceKept
<1>4. ASSUME NEW c \in Calls', c.kind \in RoomKind PROVE c \in Calls
  BY <1>4 DEF Flow
<1>5. ASSUME NEW c \in Calls, c.kind \in RoomKind PROVE c \in Calls'
  BY <1>5 DEF Stays
<1>6. {"join", "leave"} = RoomKind
  BY DEF RoomKind
<1> QED
  BY <1>2, <1>3, <1>4, <1>5, <1>6

\* A page that is not the chat makes no claim about rooms, and so on.
LEMMA ChatElsewhere ==
  ASSUME page'.at # "chat" PROVE ChatOK'
BY DEF ChatOK

\* A fetch a small step may take or send.
Small(c) == c.kind \notin SessionKind \cup RoomKind

\* The same page but for its controls, its notes and its nonces.
SameCore(p, q) ==
  /\ q.at = p.at /\ q.input = p.input /\ q.shown = p.shown /\ q.side = p.side
  /\ q.wiring = p.wiring /\ q.reads = p.reads /\ q.live = p.live /\ q.joined = p.joined
  /\ q.via = p.via

LEMMA CoreStep ==
  ASSUME WInv, RestOK', SessionOK', DataOK', PageFits(page'), UNCHANGED <<session, member>>,
         SameCore(page, page'),
         NEW G, NEW s, Flow(G, s), Stays(G),
         \A c \in G : c.kind \notin RoomKind \cup {"roster", "feed", "peek"},
         \A c \in Range(s) : c.kind \notin RoomKind /\ CallOf(page', c),
         ~page'.doubt => ~page.doubt
                         /\ \A c \in Range(s) : c.kind \in {"feed", "peek"} => c.arg = page.input,
         NoteSound(s)
  PROVE  WInv'
<1>1. PageOK'
  BY DEF PageOK, PageFits
<1>2. page.doubt \in BOOLEAN /\ page'.doubt \in BOOLEAN
      /\ page.reads \in Nat /\ page'.reads \in Nat /\ page.reads <= page'.reads
  BY DEF WInv, PageOK, PageFits, SameCore
<1>3. page'.at = page.at
  BY DEF SameCore
<1>4. CallsOK'
  BY <1>2, <1>3, CallsKept DEF WInv
<1>5. RosterOK'
  <2>1. page.at = "presence" => page'.note \in {page.note, "failed"}
    BY DEF NoteSound
  <2> QED
    BY <2>1, RosterKept DEF WInv, SameCore
<1>6. ListOK'
  BY ListKept DEF WInv, SameCore
<1>7. ChatOK'
  BY <1>2, ChatKept DEF WInv, RestOK, SameCore
<1> QED
  BY <1>1, <1>4, <1>5, <1>6, <1>7 DEF WInv

LEMMA SmallStep ==
  ASSUME WInv, RestOK', PageFits(page'), UNCHANGED <<cookie, session, unsure, member>>,
         SameCore(page, page'),
         NEW G, NEW s, Flow(G, s), Stays(G),
         \A c \in G : Small(c) /\ c.kind \notin {"roster", "feed", "peek"},
         \A c \in Range(s) : /\ Small(c) /\ CallOf(page', c)
                             /\ c.kind \in Reads => c.as = cookie,
         ~page'.doubt => ~page.doubt
                         /\ \A c \in Range(s) : c.kind \in {"feed", "peek"} => c.arg = page.input,
         NoteSound(s)
  PROVE  WInv'
<1>1. SessionOK'
  BY SessionKept DEF WInv, RestOK, Small
<1>2. DataOK'
  <2>1. Shows(page, page')
    BY DEF Shows, SameCore
  <2>2. \A c \in G : ~(c.kind = "me" /\ c.arg = "login")
    BY DEF Small, SessionKind
  <2> QED
    BY <2>1, <2>2, DataKept DEF WInv
<1> QED
  BY <1>1, <1>2, CoreStep DEF Small

-----------------------------------------------------------------------------
(* Controls: one fetch more, or none.                                      *)

LEMMA DoubtFits ==
  ASSUME NEW p, PageFits(p), NEW b \in BOOLEAN, NEW q, q = [p EXCEPT !.doubt = b]
  PROVE  PageFits(q) /\ SameCore(p, q) /\ q.note = p.note /\ q.doubt = b
<1>1. IsPage(q) /\ \A f \in PageField \ {"doubt"} : q[f] = p[f]
  BY DEF PageFits, IsPage, PageField
<1>2. q.doubt = b
  BY DEF PageFits, IsPage, PageField
<1> QED
  BY <1>1, <1>2 DEF PageFits, PageField, SameCore

\* A fetch of a control that is no session call, no room call and no roster.
Sendable(c) ==
  IsCall(c) /\ c.as = cookie /\ Small(c) /\ c.kind # "roster" /\ Fits(c.kind, page.at)

LEMMA SendableFits ==
  ASSUME RestOK, NEW c, Sendable(c), NEW p, p.at = page.at
  PROVE  CallOf(p, c)
BY DEF RestOK, Sendable, CallOf, Small, SessionKind, RoomKind

LEMMA RestKept ==
  ASSUME RestOK, Still, UNCHANGED <<stream, lastEvent, drops>>, IsABag(calls')
  PROVE  RestOK'
BY DEF RestOK, Still, StreamType

\* What a control may write on the page as it fetches.
Writes(p) ==
  /\ PageFits(p) /\ SameCore(page, p) /\ p.doubt = page.doubt
  /\ p.note \in {page.note, "failed"} \/ page.at \notin {"presence", "audit", "offline"}

LEMMA SendStep ==
  ASSUME WInv, NEW p, Writes(p), NEW c, Sendable(c), Send(p, c),
         c.kind \in {"feed", "peek"} => c.arg = page.input
  PROVE  WInv'
<1>1. PICK b \in BOOLEAN : b = Overlapped(p, calls, <<c>>)
  BY DEF Overlapped
<1>2. page' = [p EXCEPT !.doubt = b]
  BY <1>1 DEF Send
<1>3. PageFits(page') /\ SameCore(p, page') /\ page'.note = p.note /\ page'.doubt = b
  BY <1>2, DoubtFits DEF Writes
<1>4. SameCore(page, page')
  BY <1>3 DEF SameCore, Writes
<1>5. PICK s : s = <<c>>
  OBVIOUS
<1>6. s \in Seq({c}) /\ Range(s) = {c}
  BY <1>5, OneCall
<1>7. Flow({}, s) /\ Stays({})
  BY <1>5, <1>6, FlowSent DEF WInv, RestOK, Send
<1>8. RestOK'
  BY <1>7, RestKept DEF WInv, Flow, Send
<1>9. ~page'.doubt => ~page.doubt
  BY <1>1, <1>3 DEF Overlapped, Writes
<1>10. CallOf(page', c) /\ Small(c) /\ (c.kind \in Reads => c.as = cookie)
  BY <1>4, SendableFits DEF WInv, SameCore, Sendable
<1>11. NoteSound(s)
  BY <1>3 DEF Writes, NoteSound
<1>12. UNCHANGED <<cookie, session, unsure, member>>
  BY DEF Send, Still
<1> QED
  BY <1>3, <1>4, <1>6, <1>7, <1>8, <1>9, <1>10, <1>11, <1>12, SmallStep

LEMMA QuietStep ==
  ASSUME WInv, RestOK', UNCHANGED <<cookie, session, unsure, member, calls>>, Writes(page')
  PROVE  WInv'
<1>1. PICK s : s = <<>>
  OBVIOUS
<1>2. Flow({}, s) /\ Stays({}) /\ Range(s) = {}
  BY <1>1, FlowNone, NoCall DEF WInv, RestOK
<1>3. NoteSound(s)
  BY DEF Writes, NoteSound
<1> QED
  BY <1>2, <1>3, SmallStep DEF Writes

LEMMA SetStep ==
  ASSUME WInv, NEW p, Writes(p), Set(p)
  PROVE  WInv'
<1>1. IsABag(calls') /\ page' = p
  BY DEF WInv, RestOK, Set
<1>2. RestOK'
  BY <1>1, RestKept DEF WInv, Set
<1>3. UNCHANGED <<cookie, session, unsure, member, calls>>
  BY DEF Set, Still
<1> QED
  BY <1>1, <1>2, <1>3, QuietStep

LEMMA PageWrites ==
  ASSUME WInv PROVE Writes(page)
BY DEF WInv, PageOK, Writes, SameCore

LEMMA CallSends ==
  ASSUME NEW kind, kind \notin SessionKind \cup RoomKind \cup {"roster"}, Fits(kind, page.at),
         NEW arg, NEW n, NEW c, c = Call(cookie, kind, arg, n)
  PROVE  Sendable(c) /\ c.kind = kind /\ c.arg = arg /\ c.n = n
BY CallFields DEF Sendable, Small

LEMMA CallStep ==
  ASSUME WInv, NEW p, Writes(p), NEW kind, NEW arg, NEW n,
         kind \notin SessionKind \cup RoomKind \cup {"roster"}, Fits(kind, page.at),
         kind \in {"feed", "peek"} => arg = page.input,
         Send(p, Call(cookie, kind, arg, n))
  PROVE  WInv'
<1>1. PICK c : c = Call(cookie, kind, arg, n)
  OBVIOUS
<1>2. Sendable(c) /\ c.kind = kind /\ c.arg = arg
  BY <1>1, CallSends
<1>3. Send(p, c)
  BY <1>1
<1> QED
  BY <1>2, <1>3, SendStep

\* A page with a note on a page that reads no listing, or a failure on any.
LEMMA NoteWrites ==
  ASSUME WInv, NEW note \in Notes, note = "failed" \/ page.at \notin {"presence", "audit", "offline"},
         NEW p, p = [page EXCEPT !.note = note]
  PROVE  Writes(p)
<1>1. PageFits(page)
  BY DEF WInv, PageOK
<1>2. IsPage(p) /\ p.note = note /\ \A f \in PageField \ {"note"} : p[f] = page[f]
  BY <1>1 DEF PageFits, IsPage, PageField
<1> QED
  BY <1>1, <1>2 DEF Writes, PageFits, PageField, SameCore

LEMMA ReadControls ==
  ASSUME WInv, reload \/ poll \/ refreshQueue
  PROVE  WInv'
<1>1. Writes(page)
  BY PageWrites
<1>2. CASE reload
  BY <1>1, <1>2, CallStep DEF reload, Fits, SessionKind, RoomKind
<1>3. CASE poll
  <2>1. /\ page.at \in {"connections", "reauth", "cluster"}
        /\ Polled[page.at] \in {"list", "stats", "cards"}
        /\ Fits(Polled[page.at], page.at)
    BY <1>3 DEF poll, Polled, Fits
  <2>2. PICK kind : kind = Polled[page.at]
    OBVIOUS
  <2>3. Send(page, Call(cookie, kind, None, 0))
    BY <1>3, <2>2 DEF poll
  <2> QED
    BY <1>1, <2>1, <2>2, <2>3, CallStep DEF SessionKind, RoomKind
<1>4. CASE refreshQueue
  BY <1>1, <1>4, CallStep DEF refreshQueue, QueueControls, Fits, SessionKind, RoomKind
<1> QED BY <1>2, <1>3, <1>4

LEMMA ClickControls ==
  ASSUME WInv, simulate \/ triggerFanOut \/ BurstControls \/ dropStream \/ drain \/ fetchTicket
  PROVE  WInv'
<1>1. Writes(page)
  BY PageWrites
<1>2. CASE simulate
  <2>1. PICK p : p = [page EXCEPT !.note = Blank]
    OBVIOUS
  <2>2. Writes(p)
    BY <1>2, <2>1, NoteWrites DEF simulate, Notes
  <2>3. Send(p, Call(cookie, "simulate", None, 0))
    BY <1>2, <2>1 DEF simulate
  <2> QED
    BY <1>2, <2>2, <2>3, CallStep DEF simulate, Fits, SessionKind, RoomKind
<1>3. CASE triggerFanOut
  BY <1>1, <1>3, CallStep DEF triggerFanOut, Fits, SessionKind, RoomKind
<1>4. CASE BurstControls
  BY <1>1, <1>4, CallStep DEF BurstControls, drop, emitBurst, Fits, SessionKind, RoomKind
<1>5. CASE dropStream
  BY <1>1, <1>5, CallStep DEF dropStream, drop, Fits, SessionKind, RoomKind
<1>6. CASE drain
  BY <1>1, <1>6, CallStep DEF drain, OfflineLabPage, Fits, SessionKind, RoomKind
<1>7. CASE fetchTicket
  BY <1>1, <1>7, CallStep DEF fetchTicket, Fits, SessionKind, RoomKind
<1> QED BY <1>2, <1>3, <1>4, <1>5, <1>6, <1>7

LEMMA RowControl ==
  ASSUME WInv, ConnectionRow
  PROVE  WInv'
<1>1. page.at = "connections"
  BY DEF ConnectionRow, ConnectionsList
<1>2. ASSUME NEW b \in BOOLEAN, NEW p, p = [page EXCEPT !.confirming = b] PROVE Writes(p)
  <2>1. PageFits(page)
    BY DEF WInv, PageOK
  <2>2. IsPage(p) /\ p.confirming = b /\ \A f \in PageField \ {"confirming"} : p[f] = page[f]
    BY <1>2, <2>1 DEF PageFits, IsPage, PageField
  <2> QED
    BY <2>1, <2>2 DEF Writes, PageFits, PageField, SameCore
<1>3. ASSUME NEW b \in BOOLEAN, Set([page EXCEPT !.confirming = b]) PROVE WInv'
  <2>1. PICK p : p = [page EXCEPT !.confirming = b]
    OBVIOUS
  <2>2. Writes(p) /\ Set(p)
    BY <1>2, <1>3, <2>1
  <2> QED
    BY <2>2, SetStep
<1>4. CASE disconnect
  <2>1. Writes(page)
    BY PageWrites
  <2> QED
    BY <1>1, <1>4, <2>1, CallStep DEF disconnect, Fits, SessionKind, RoomKind
<1> QED
  BY <1>3, <1>4 DEF ConnectionRow

LEMMA QueueControl ==
  ASSUME WInv, NEW parsed, enqueue(parsed)
  PROVE  WInv'
<1>1. Writes(page)
  BY PageWrites
<1> QED
  BY <1>1, CallStep DEF enqueue, QueueControls, Fits, SessionKind, RoomKind

LEMMA RevocationControl ==
  ASSUME WInv, NEW action \in {"revoke", "restore"}, NEW u, act(action, u)
  PROVE  WInv'
<1>1. Writes(page)
  BY PageWrites
<1>2. CASE u = Blank
  <2>1. PICK p : p = [page EXCEPT !.note = "failed"]
    OBVIOUS
  <2>2. Writes(p) /\ Set(p)
    BY <1>2, <2>1, NoteWrites DEF act, Notes
  <2> QED
    BY <2>2, SetStep
<1>3. CASE u # Blank
  <2>1. page.at = "reauth" /\ Send(page, Call(cookie, action, u, 0))
    BY <1>3 DEF act, RevocationControls
  <2> QED
    BY <1>1, <2>1, CallStep DEF Fits, SessionKind, RoomKind
<1> QED BY <1>2, <1>3

LEMMA CardWrites ==
  ASSUME WInv, NEW card \in Card, NEW v \in {"idle", "pending", "ok", "failed"},
         NEW p, p = [page EXCEPT !.card[card] = v]
  PROVE  Writes(p)
<1>1. PageFits(page)
  BY DEF WInv, PageOK
<1>2. PICK cards : cards = [page.card EXCEPT ![card] = v]
  OBVIOUS
<1>3. cards \in [Card -> {"idle", "pending", "ok", "failed"}]
  BY <1>1, <1>2 DEF PageFits
<1>4. p = [page EXCEPT !.card = cards]
  BY <1>2
<1>5. IsPage(p) /\ p.card = cards /\ \A f \in PageField \ {"card"} : p[f] = page[f]
  BY <1>1, <1>4 DEF PageFits, IsPage, PageField
<1> QED
  BY <1>1, <1>3, <1>5 DEF Writes, PageFits, PageField, SameCore

LEMMA SubmitControl ==
  ASSUME WInv, NEW card \in Card, NEW form, handleSubmit(card, form)
  PROVE  WInv'
<1>1. page.at = "broadcast"
  BY DEF handleSubmit
<1>2. CASE emitFormSchema(form.event)
  <2>1. PICK p : p = [page EXCEPT !.card[card] = "pending"]
    OBVIOUS
  <2>2. Writes(p)
    BY <2>1, CardWrites
  <2>3. PICK kind : kind = Scope[card]
    OBVIOUS
  <2>4. kind \in emitApi
    BY <2>3, WebAssumption DEF Scope, emitApi
  <2>5. PICK b : b = Call(cookie, kind, form.target, 0)
    OBVIOUS
  <2>6. PICK c : c = [b EXCEPT !.event = form.event]
    OBVIOUS
  <2>7. Sendable(b) /\ b.kind = kind
    BY <1>1, <2>4, <2>5, CallSends DEF Fits, emitApi, SessionKind, RoomKind
  <2>8. IsCall(c) /\ \A f \in CallField \ {"event"} : c[f] = b[f]
    BY <2>6, <2>7 DEF Sendable, IsCall, CallField
  <2>9. Sendable(c) /\ c.kind = kind
    BY <2>7, <2>8 DEF Sendable, Small, CallField
  <2>10. Send(p, c)
    BY <1>2, <2>1, <2>3, <2>5, <2>6 DEF handleSubmit
  <2> QED
    BY <2>2, <2>4, <2>9, <2>10, SendStep DEF emitApi
<1>3. CASE ~emitFormSchema(form.event)
  <2>1. PICK p : p = [page EXCEPT !.card[card] = "failed"]
    OBVIOUS
  <2>2. Writes(p)
    BY <2>1, CardWrites
  <2>3. Set(p)
    BY <1>3, <2>1 DEF handleSubmit
  <2> QED
    BY <2>2, <2>3, SetStep
<1> QED BY <1>2, <1>3

LEMMA NonceStep ==
  ASSUME WInv, NEW panel \in {"sse", "ws"}, SplitPanel(panel)
  PROVE  WInv'
<1>1. PageFits(page)
  BY DEF WInv, PageOK
<1>2. PICK n \in 1..page.reads : onNonce(panel, n)
  BY DEF SplitPanel
<1>3. PICK p : p = IF panel = "sse" THEN [page EXCEPT !.sse = n] ELSE [page EXCEPT !.ws = n]
  OBVIOUS
<1>4. n \in 0..MaxReads
  BY <1>1, WebAssumption DEF PageFits
<1>5. CASE panel = "sse"
  <2>1. IsPage(p) /\ p.sse = n /\ \A f \in PageField \ {"sse"} : p[f] = page[f]
    BY <1>1, <1>3, <1>5 DEF PageFits, IsPage, PageField
  <2> QED
    <3>1. Writes(p)
      BY <1>1, <1>4, <2>1 DEF Writes, PageFits, PageField, SameCore
    <3>2. Set(p)
      BY <1>2, <1>3 DEF onNonce
    <3> QED
      BY <3>1, <3>2, SetStep
<1>6. CASE panel = "ws"
  <2>1. IsPage(p) /\ p.ws = n /\ \A f \in PageField \ {"ws"} : p[f] = page[f]
    BY <1>1, <1>3, <1>6 DEF PageFits, IsPage, PageField
  <2> QED
    <3>1. Writes(p)
      BY <1>1, <1>4, <2>1 DEF Writes, PageFits, PageField, SameCore
    <3>2. Set(p)
      BY <1>2, <1>3 DEF onNonce
    <3> QED
      BY <3>1, <3>2, SetStep
<1> QED BY <1>5, <1>6

-----------------------------------------------------------------------------
(* The streams.                                                            *)

StreamRec == [source : {"none", "opening", "open", "down"}, as : User \cup {None}, retry : BOOLEAN]

LEMMA StreamRecs ==
  /\ Closed \in StreamRec
  /\ \A who \in User \cup {None} : connect(who) \in StreamRec
  /\ \A h \in StreamRec : onopen(h) \in StreamRec /\ \A b \in BOOLEAN : onerror(h, b) \in StreamRec
BY DEF Closed, connect, onopen, onerror, StreamRec

LEMMA StreamSet ==
  ASSUME stream \in StreamType, NEW h \in Hook, NEW r \in StreamRec,
         NEW t, t = [stream EXCEPT ![h] = r]
  PROVE  t \in StreamType
BY DEF StreamType, StreamRec

LEMMA StreamRest ==
  ASSUME WInv, UNCHANGED <<cookie, session, member, logins, unsure, calls>>,
         lastEvent' \in {None, "established", "presence", "other"},
         drops' \in 0..MaxDrops, stream' \in StreamType
  PROVE  RestOK'
BY DEF WInv, RestOK, StreamType

LEMMA BreaksStep ==
  ASSUME WInv, NEW h \in Hook, Breaks(h)
  PROVE  WInv'
<1>1. stream[h] \in StreamRec /\ stream \in StreamType
  BY DEF WInv, RestOK, StreamType, StreamRec
<1>2. PICK retry \in BOOLEAN : stream' = [stream EXCEPT ![h] = onerror(@, retry)]
  BY DEF Breaks
<1>3. PICK r : r = onerror(stream[h], retry)
  OBVIOUS
<1>4. stream' = [stream EXCEPT ![h] = r]
  BY <1>2, <1>3
<1>5. stream' \in StreamType
  BY <1>1, <1>3, <1>4, StreamRecs, StreamSet
<1>6. drops \in 0..MaxDrops /\ drops' \in {drops, drops + 1} /\ (drops' = drops \/ drops < MaxDrops)
  BY DEF WInv, RestOK, Breaks
<1>7. drops' \in 0..MaxDrops
  BY <1>6, WebAssumption
<1>8. UNCHANGED <<cookie, session, member, logins, unsure, calls, lastEvent, page>>
  BY DEF Breaks, Still
<1>9. RestOK'
  BY <1>5, <1>7, <1>8, StreamRest DEF WInv, RestOK
<1>10. Writes(page')
  BY <1>8, PageWrites DEF Writes, SameCore, PageFits
<1> QED
  BY <1>8, <1>9, <1>10, QuietStep

LEMMA PanelStep ==
  ASSUME WInv, NEW h \in Hook, NEW r \in StreamRec, stream' = [stream EXCEPT ![h] = r],
         UNCHANGED <<cookie, session, member, logins, unsure, calls, lastEvent, drops>>, Writes(page')
  PROVE  WInv'
<1>1. stream' \in StreamType
  BY StreamSet DEF WInv, RestOK
<1>2. RestOK'
  BY <1>1, StreamRest DEF WInv, RestOK
<1> QED
  BY <1>2, QuietStep

LEMMA RetriesStep ==
  ASSUME WInv, NEW h \in Hook, Retries(h)
  PROVE  WInv'
<1>1. PICK who \in Credentials(h) : stream' = [stream EXCEPT ![h] = connect(who)]
  BY DEF Retries
<1>2. who \in User \cup {None}
  BY DEF Credentials, WInv, RestOK, PageOK, PageFits
<1>3. PICK r : r = connect(who)
  OBVIOUS
<1>4. r \in StreamRec /\ stream' = [stream EXCEPT ![h] = r]
  BY <1>1, <1>2, <1>3, StreamRecs
<1>5. UNCHANGED <<cookie, session, member, logins, unsure, calls, lastEvent, drops, page>>
  BY DEF Retries, Still
<1>6. Writes(page')
  BY <1>5, PageWrites DEF Writes, SameCore, PageFits
<1> QED
  BY <1>4, <1>5, <1>6, PanelStep

LEMMA SetPanelStep ==
  ASSUME WInv, ConnectionLabPage \/ ManagedConnection
  PROVE  WInv'
<1>1. PICK r : r \in {Closed, connect(cookie)} /\ SetPanel(r)
  BY DEF ConnectionLabPage, ManagedConnection
<1>2. r \in StreamRec
  BY <1>1, StreamRecs DEF WInv, RestOK
<1>3. UNCHANGED <<cookie, session, member, logins, unsure, calls, lastEvent, drops, page>>
      /\ stream' = [stream EXCEPT !["panel"] = r]
  BY <1>1 DEF SetPanel, Still
<1>4. Writes(page')
  BY <1>3, PageWrites DEF Writes, SameCore, PageFits
<1> QED
  BY <1>2, <1>3, <1>4, PanelStep DEF Hook

LEMMA PanelOpens ==
  ASSUME WInv, Opens("panel")
  PROVE  WInv'
<1>1. PICK r : r = onopen(stream["panel"])
  OBVIOUS
<1>2. r \in StreamRec
  BY <1>1, StreamRecs DEF WInv, RestOK, StreamType, StreamRec, Hook
<1>3. UNCHANGED <<cookie, session, member, logins, unsure, calls, lastEvent, drops>>
      /\ stream' = [stream EXCEPT !["panel"] = r]
      /\ page' \in {page, [page EXCEPT !.token = None]}
  BY <1>1 DEF Opens, Still
<1>4. Writes(page)
  BY PageWrites
<1>5. Writes(page')
  <2>1. CASE page' = page
    BY <1>4, <2>1 DEF Writes, SameCore, PageFits
  <2>2. CASE page' = [page EXCEPT !.token = None]
    <3>1. PICK q : q = page'
      OBVIOUS
    <3>2. IsPage(q) /\ q.token = None /\ \A f \in PageField \ {"token"} : q[f] = page[f]
      BY <1>4, <2>2, <3>1 DEF Writes, PageFits, IsPage, PageField
    <3>3. Writes(q)
      BY <1>4, <3>2 DEF Writes, PageFits, PageField, SameCore
    <3> QED
      BY <3>1, <3>3
  <2> QED BY <1>3, <2>1, <2>2
<1> QED
  BY <1>2, <1>3, <1>5, PanelStep DEF Hook

-----------------------------------------------------------------------------
(* Effects.                                                                *)

\* What page p becomes, and s what it fetches, as its effects run.
Renders(p, why, tr, old, s) ==
  /\ s \in Seq(Range(s)) /\ Len(s) \in Nat /\ Ask(old, s)
  /\ PageFits(page')
  /\ \A f \in PageField \ {"reads", "doubt", "shown"} : page'[f] = p[f]
  /\ page'.reads = p.reads + (IF p.at = "presence" THEN Len(s) ELSE 0)
  /\ page'.shown \in {p.shown, None}
  /\ page'.shown # p.shown => p.at = "offline" /\ ~isAdmin(tr)
  /\ ~page'.doubt => ~p.doubt /\ \A kind \in {"feed", "peek"} :
                                   \A c \in Range(s), d \in BagToSet(old) : ~(c.kind = kind /\ d.kind = kind)
  /\ \A c \in Range(s) : /\ CallOf(page', c) /\ c.as = cookie' /\ c.kind \in Loadable
                         /\ c.kind \in {"feed", "peek"} => c.arg = p.input
  /\ p.at = "presence" /\ Len(s) > 0 => \E c \in Range(s) : c.kind = "roster" /\ c.n = page'.reads
  /\ p.at = "audit" /\ why \cap {"mount", "input"} # {} => \E c \in Range(s) : c.kind = "feed"
  /\ Peeks(p, why) /\ isAdmin(tr) => \E c \in Range(s) : c.kind = "peek"
  /\ p.at = "home" => s = <<>>

LEMMA LoadedFits ==
  ASSUME NEW p, NEW q, q.at = p.at, p.reads \in Nat, NEW k \in Nat,
         NEW m \in Nat, m = p.reads + (IF p.at = "presence" THEN k ELSE 0), m <= MaxReads,
         NEW who \in User \cup {None}, NEW c, Loaded(p, who, k, c)
  PROVE  CallOf(q, c)
<1>1. IsCall(c) /\ c.as \in User \cup {None} /\ Fits(c.kind, q.at)
  BY DEF Loaded
<1>2. c.kind # "login" /\ c.kind \notin RoomKind
  BY DEF Loaded, Loadable, Reads, RoomKind
<1>3. ASSUME c.kind = "roster" PROVE c.arg \in Range(TenantOf) /\ c.n \in 1..MaxReads
  <2>1. p.at = "presence"
    BY <1>3 DEF Loaded, Fits, SessionKind, emitApi
  <2>2. c.arg \in Range(TenantOf) /\ c.n \in (p.reads + 1)..(p.reads + k)
    BY <1>3 DEF Loaded
  <2> QED
    BY <2>1, <2>2, WebAssumption
<1> QED
  BY <1>1, <1>2, <1>3 DEF CallOf

LEMMA RenderFacts ==
  ASSUME NEW p, PageFits(p), NEW why, NEW tr \in User \cup {None}, NEW last, NEW old,
         cookie' \in User \cup {None}, Render(p, why, tr, last, old)
  PROVE  \E s : Renders(p, why, tr, old, s)
<1>1. PICK who \in User \cup {None} : who = cookie'
  OBVIOUS
<1>2. PICK s : s = Loads(p, why, tr, last, who)
  OBVIOUS
<1>3. p.reads \in Nat /\ p.doubt \in BOOLEAN
  BY DEF PageFits
<1>4. /\ s \in Seq(Range(s)) /\ Len(s) \in Nat
      /\ \A c \in Range(s) : Loaded(p, who, Len(s), c)
  BY <1>2, <1>3, LoadsCalls
<1>5. ASSUME p.at = "presence", Len(s) > 0
      PROVE  \E c \in Range(s) : c.kind = "roster" /\ c.n = p.reads + Len(s)
  BY <1>2, <1>3, <1>5, LoadsRoster
<1>6. ASSUME p.at = "audit", why \cap {"mount", "input"} # {}
      PROVE  \E c \in Range(s) : c.kind = "feed"
  BY <1>2, <1>6, LoadsFeed
<1>7. ASSUME Peeks(p, why), isAdmin(tr)
      PROVE  \E c \in Range(s) : c.kind = "peek"
  BY <1>2, <1>7, LoadsPeek
<1>8. PICK m \in Nat : m = p.reads + (IF p.at = "presence" THEN Len(s) ELSE 0)
  BY <1>3, <1>4
<1>9. PICK b \in BOOLEAN : b = Overlapped(p, old, s)
  BY DEF Overlapped
<1>10. PICK shown : shown = IF Peeks(p, why) /\ ~isAdmin(tr) THEN None ELSE p.shown
  OBVIOUS
<1>11. /\ m <= MaxReads
       /\ page' = [p EXCEPT !.reads = m, !.doubt = b, !.shown = shown]
       /\ Ask(old, s)
  BY <1>1, <1>2, <1>8, <1>9, <1>10 DEF Render
<1>12. IsPage(p)
  BY DEF PageFits
<1>13. /\ IsPage(page') /\ page'.reads = m /\ page'.doubt = b /\ page'.shown = shown
       /\ \A f \in PageField \ {"reads", "doubt", "shown"} : page'[f] = p[f]
  BY <1>11, <1>12 DEF IsPage, PageField
<1>14. p.reads <= m
  BY <1>3, <1>4, <1>8
<1>15. shown \in {p.shown, None} /\ (shown # p.shown => p.at = "offline" /\ ~isAdmin(tr))
  BY <1>10 DEF Peeks
<1>16. PageFits(page')
  <2>1. m \in 0..MaxReads
    BY <1>11, WebAssumption
  <2>2. 0..p.reads \subseteq 0..m
    BY <1>3, <1>14
  <2>3. PICK q : q = page'
    OBVIOUS
  <2>4. PageFits(q)
    BY <1>13, <1>15, <2>1, <2>2, <2>3 DEF PageFits, PageField
  <2> QED
    BY <2>3, <2>4
<1>17. page'.at = p.at
  BY <1>13 DEF PageField
<1>18. \A c \in Range(s) : CallOf(page', c) /\ c.as = cookie' /\ c.kind \in Loadable
                           /\ (c.kind \in {"feed", "peek"} => c.arg = p.input)
  <2>1. ASSUME NEW c \in Range(s) PROVE CallOf(page', c)
    BY <1>3, <1>4, <1>8, <1>11, <1>17, LoadedFits
  <2> QED
    BY <1>1, <1>4, <2>1 DEF Loaded
<1>19. ~b => ~p.doubt /\ \A kind \in {"feed", "peek"} :
                           \A c \in Range(s), d \in BagToSet(old) : ~(c.kind = kind /\ d.kind = kind)
  BY <1>9 DEF Overlapped
<1>20. p.at = "home" => s = <<>>
  BY <1>2, LoadsNothing
<1> QED
  <2>1. p.at = "presence" /\ Len(s) > 0 => \E c \in Range(s) : c.kind = "roster" /\ c.n = page'.reads
    BY <1>5, <1>8, <1>13
  <2>2. page'.reads = p.reads + (IF p.at = "presence" THEN Len(s) ELSE 0)
    BY <1>8, <1>13
  <2>3. Renders(p, why, tr, old, s)
    BY <1>4, <1>6, <1>7, <1>11, <1>13, <1>15, <1>16, <1>18, <1>19, <1>20, <2>1, <2>2 DEF Renders
  <2> QED BY <2>3

\* The page that renders: the mounted one, perhaps with another input.
Rendered(p, why) ==
  /\ PageFits(p) /\ \A f \in PageField \ {"input"} : p[f] = page[f]
  /\ p.input # page.input => "input" \in why

\* An effect that peeks runs whenever a listing comes in view.
Noticed(why) == isAdmin(session'.traits) # isAdmin(session.traits) => "admin" \in why

LEMMA RenderList ==
  ASSUME WInv, NEW p, NEW why, Rendered(p, why), Noticed(why),
         NEW old, NEW s, Renders(p, why, session'.traits, old, s),
         NEW G, Flow(G, s), Stays(G), \A c \in G : ~Small(c),
         \A c \in Calls \ G : c \in BagToSet(old), \A c \in G : c.kind \notin RoomKind
  PROVE  ListOK'
<1>1. /\ page'.at = page.at /\ page'.note = page.note /\ page'.input = p.input
      /\ p.at = page.at /\ p.shown = page.shown /\ p.doubt = page.doubt
  BY DEF Rendered, Renders, PageField
<1>2. ASSUME NEW c \in G PROVE c.kind \notin {"feed", "peek"}
  BY DEF Small, SessionKind, RoomKind
<1>3. ASSUME NEW kind \in {"feed", "peek"}, ~page'.doubt, \E c \in Range(s) : c.kind = kind
      PROVE  Fed(kind)'
  <2>1. ASSUME NEW c \in Calls', c.kind = kind PROVE c.arg = p.input
    <3>1. CASE c \in Range(s)
      BY <2>1, <3>1 DEF Renders
    <3>2. CASE c \notin Range(s)
      <4>1. c \in Calls
        BY <3>2 DEF Flow
      <4>2. c \in BagToSet(old)
        BY <1>2, <2>1, <4>1
      <4> QED
        BY <1>3, <2>1, <4>2 DEF Renders
    <3> QED BY <3>1, <3>2
  <2>2. Range(s) \subseteq Calls'
    BY DEF Flow
  <2> QED
    BY <1>1, <1>3, <2>1, <2>2 DEF Fed
<1>4. ASSUME NEW kind \in {"feed", "peek"}, Fed(kind), p.input = page.input, page'.shown = page.shown
      PROVE  Fed(kind)'
  <2>1. \A c \in Range(s) : c.kind = kind => c.arg = page.input
    BY <1>4 DEF Renders
  <2>2. \A c \in G : c.kind # kind
    BY <1>2
  <2>3. page'.input = page.input /\ page'.note \in {page.note, "failed"}
    BY <1>1, <1>4
  <2> QED
    BY <1>4, <2>1, <2>2, <2>3, FedKept
<1>5. ~page'.doubt => ~page.doubt
  BY <1>1 DEF Renders
<1>6. ASSUME page.at = "audit", ~page'.doubt PROVE Fed("feed")'
  <2>1. CASE p.input = page.input
    <3>1. page'.shown = page.shown
      BY <1>1, <1>6 DEF Renders
    <3>2. Fed("feed")
      BY <1>5, <1>6 DEF WInv, ListOK
    <3> QED
      BY <1>4, <2>1, <3>1, <3>2
  <2>2. CASE p.input # page.input
    <3>1. why \cap {"mount", "input"} # {}
      BY <2>2 DEF Rendered
    <3>2. \E c \in Range(s) : c.kind = "feed"
      BY <1>1, <1>6, <3>1 DEF Renders
    <3> QED
      BY <1>3, <1>6, <3>2
  <2> QED BY <2>1, <2>2
<1>7. ASSUME page.at = "offline", isAdmin(session'.traits), ~page'.doubt PROVE Fed("peek")'
  <2>1. CASE Peeks(p, why)
    <3>1. \E c \in Range(s) : c.kind = "peek"
      BY <1>7, <2>1 DEF Renders
    <3> QED
      BY <1>3, <1>7, <3>1
  <2>2. CASE ~Peeks(p, why)
    <3>1. p.input = page.input /\ isAdmin(session.traits)
      BY <1>1, <1>7, <2>2 DEF Peeks, Rendered, Noticed, isAdmin
    <3>2. page'.shown = page.shown
      BY <1>1, <1>7 DEF Renders
    <3>3. Fed("peek")
      BY <1>5, <1>7, <3>1 DEF WInv, ListOK
    <3> QED
      BY <1>4, <3>1, <3>2, <3>3
  <2> QED BY <2>1, <2>2
<1>8. isAdmin(session.traits)' = isAdmin(session'.traits)
  BY DEF isAdmin
<1> QED
  BY <1>1, <1>6, <1>7, <1>8 DEF ListOK

LEMMA RenderStep ==
  ASSUME WInv, RestOK', SessionOK', DataOK', member' = member,
         NEW p, NEW why, Rendered(p, why), Noticed(why),
         NEW old, NEW s, Renders(p, why, session'.traits, old, s),
         NEW G, Flow(G, s), Stays(G), \A c \in G : c.kind \in SessionKind,
         \A c \in Calls \ G : c \in BagToSet(old)
  PROVE  WInv'
<1>1. \A c \in G : ~Small(c) /\ c.kind \notin RoomKind /\ c.kind # "roster"
  BY DEF Small, SessionKind, RoomKind
<1>2. ListOK'
  BY <1>1, RenderList
<1>3. /\ page'.at = page.at /\ page'.note = page.note /\ page'.joined = page.joined
      /\ page'.via = page.via /\ page'.live = page.live
      /\ p.at = page.at /\ p.shown = page.shown /\ p.reads = page.reads /\ p.doubt = page.doubt
  BY DEF Rendered, Renders, PageField
<1>4. PageOK'
  BY DEF Renders, PageOK, PageFits
<1>5. /\ page.reads \in Nat /\ page'.reads \in Nat /\ page.reads <= page'.reads
      /\ page.doubt \in BOOLEAN /\ page'.doubt \in BOOLEAN
  <2>1. PageFits(page) /\ PageFits(page') /\ Len(s) \in Nat
    BY DEF WInv, PageOK, Renders
  <2>2. page'.reads = page.reads + (IF p.at = "presence" THEN Len(s) ELSE 0)
    BY <1>3 DEF Renders
  <2> QED
    BY <2>1, <2>2 DEF PageFits
<1>6. CallsOK'
  <2>1. \A c \in Range(s) : CallOf(page', c)
    BY DEF Renders
  <2> QED
    BY <1>3, <1>5, <2>1, CallsKept DEF WInv
<1>7. RosterOK'
  <2>1. CASE page.at = "presence" /\ Len(s) > 0
    <3>1. PICK c \in Range(s) : c.kind = "roster" /\ c.n = page'.reads
      BY <1>3, <2>1 DEF Renders
    <3>2. c \in Calls'
      BY <3>1 DEF Flow
    <3> QED
      BY <3>1, <3>2 DEF RosterOK
  <2>2. CASE page.at = "presence" /\ Len(s) = 0
    <3>1. page'.reads = page.reads /\ page'.shown = page.shown
      BY <1>3, <1>5, <2>2 DEF Renders
    <3> QED
      BY <1>1, <1>3, <3>1, RosterKept DEF WInv
  <2>3. CASE page.at # "presence"
    BY <1>3, <2>3 DEF RosterOK
  <2>4. Len(s) > 0 \/ Len(s) = 0
    BY DEF Renders
  <2> QED BY <2>1, <2>2, <2>3, <2>4
<1>8. ChatOK'
  <2>1. \A c \in Range(s) : c.kind \notin RoomKind
    BY DEF Renders, Loadable, Reads, RoomKind
  <2>2. page'.doubt = FALSE => page.doubt = FALSE
    BY <1>3, <1>5 DEF Renders
  <2> QED
    BY <1>1, <1>3, <1>5, <2>1, <2>2, ChatKept DEF WInv, RestOK
<1> QED
  BY <1>2, <1>4, <1>6, <1>7, <1>8 DEF WInv

\* What an effect fetches is no session call, and what it shows was shown.
LEMMA RenderShows ==
  ASSUME NEW p, NEW why, Rendered(p, why), NEW tr, NEW old, NEW s, Renders(p, why, tr, old, s)
  PROVE  /\ Shows(page, page')
         /\ \A c \in Range(s) : c.kind \notin SessionKind /\ (c.kind \in Reads => c.as = cookie')
<1>1. /\ page'.side = page.side /\ page'.wiring = page.wiring
      /\ page'.shown \in {page.shown, None}
  BY DEF Rendered, Renders, PageField
<1>2. Shows(page, page')
  BY <1>1 DEF Shows
<1> QED
  BY <1>2 DEF Renders, Loadable, Reads, SessionKind

\* Effects that run while the session stays as it is.
LEMMA EffectStep ==
  ASSUME WInv, UNCHANGED <<cookie, session, member, logins, unsure>>,
         lastEvent' \in {None, "established", "presence", "other"}, drops' = drops,
         stream' \in StreamType,
         NEW p, NEW why, Rendered(p, why), NEW last, Render(p, why, session.traits, last, calls)
  PROVE  WInv'
<1>1. /\ session' = session /\ cookie' = cookie /\ IsABag(calls)
      /\ session.traits \in User \cup {None} /\ cookie \in User \cup {None} /\ PageFits(p)
  BY DEF WInv, RestOK, Rendered
<1>2. PICK s : Renders(p, why, session.traits, calls, s)
  BY <1>1, RenderFacts
<1>3. s \in Seq(Range(s)) /\ Ask(calls, s)
  BY <1>2 DEF Renders
<1>4. Flow({}, s) /\ Stays({})
  BY <1>1, <1>3, FlowSent
<1>5. RestOK'
  BY <1>1, <1>4 DEF WInv, RestOK, StreamType, Flow
<1>6. Shows(page, page') /\ \A c \in Range(s) : c.kind \notin SessionKind /\ (c.kind \in Reads => c.as = cookie')
  BY <1>2, RenderShows
<1>7. SessionOK'
  BY <1>1, <1>4, <1>6, SessionKept DEF WInv
<1>8. DataOK'
  BY <1>1, <1>4, <1>6, DataKept DEF WInv
<1>9. Noticed(why)
  BY <1>1 DEF Noticed
<1>10. Renders(p, why, session'.traits, calls, s)
  BY <1>1, <1>2
<1>11. \A c \in Calls \ {} : c \in BagToSet(calls)
  BY DEF Calls
<1> QED
  BY <1>4, <1>5, <1>7, <1>8, <1>9, <1>10, <1>11, RenderStep

LEMMA PageRendered ==
  ASSUME WInv, NEW why PROVE Rendered(page, why)
BY DEF WInv, PageOK, Rendered

LEMMA EnterStep ==
  ASSUME WInv, NEW value, Enter(value)
  PROVE  WInv'
<1>1. PICK p : p = [page EXCEPT !.input = value]
  OBVIOUS
<1>2. PageFits(page)
  BY DEF WInv, PageOK
<1>3. IsPage(p) /\ p.input = value /\ \A f \in PageField \ {"input"} : p[f] = page[f]
  BY <1>1, <1>2 DEF PageFits, IsPage, PageField
<1>4. PageFits(p)
  BY <1>2, <1>3 DEF PageFits, PageField
<1>5. Rendered(p, {"input"})
  BY <1>3, <1>4 DEF Rendered
<1>6. UNCHANGED <<cookie, session, member, logins, unsure, stream, lastEvent, drops>>
  BY DEF Enter, Still
<1>7. Render(p, {"input"}, session.traits, lastEvent, calls)
  BY <1>1 DEF Enter
<1>8. stream' \in StreamType /\ lastEvent' \in {None, "established", "presence", "other"}
  BY <1>6 DEF WInv, RestOK
<1> QED
  BY <1>5, <1>6, <1>7, <1>8, EffectStep

LEMMA FeedStep ==
  ASSUME WInv, NEW e \in {"presence", "other"}, FeedEvent(e)
  PROVE  WInv'
<1>1. Rendered(page, {"event"})
  BY PageRendered
<1>2. UNCHANGED <<cookie, session, member, logins, unsure, stream, drops>> /\ lastEvent' = e
  BY DEF FeedEvent, Still
<1>3. Render(page, {"event"}, session.traits, e, calls)
  BY DEF FeedEvent
<1>4. stream' \in StreamType /\ lastEvent' \in {None, "established", "presence", "other"}
  BY <1>2 DEF WInv, RestOK
<1> QED
  BY <1>1, <1>2, <1>3, <1>4, EffectStep

LEMMA ProviderOpens ==
  ASSUME WInv, Opens("provider")
  PROVE  WInv'
<1>1. Rendered(page, {"event"})
  BY PageRendered
<1>2. PICK r : r = onopen(stream["provider"])
  OBVIOUS
<1>3. stream \in StreamType /\ r \in StreamRec
  BY <1>2, StreamRecs DEF WInv, RestOK, StreamType, StreamRec, Hook
<1>4. /\ UNCHANGED <<cookie, session, member, logins, unsure, drops>> /\ lastEvent' = "established"
      /\ stream' = [stream EXCEPT !["provider"] = r]
  BY <1>2 DEF Opens, Still
<1>5. Render(page, {"event"}, session.traits, "established", calls)
  BY DEF Opens
<1>6. stream' \in StreamType
  BY <1>3, <1>4, StreamSet DEF Hook
<1> QED
  BY <1>1, <1>4, <1>5, <1>6, EffectStep

-----------------------------------------------------------------------------
(* The session.                                                            *)

LEMMA LoneSession ==
  ASSUME SessionOK, ~unsure, NEW c \in Calls, c.kind \in SessionKind,
         NEW d \in Calls, d.kind \in SessionKind
  PROVE  d = c /\ calls[c] = 1
BY DEF SessionOK, Once

\* A login or a logout leaves: it is the only session call, or one overlaps another.
LEMMA SessionSent ==
  ASSUME WInv, NEW c, c.kind \in {"login", "logout"}, NEW s, s = <<c>>, Flow({}, s), Overlap,
         UNCHANGED <<cookie, session>>
  PROVE  SessionOK'
<1>1. SUFFICES ASSUME ~unsure'
               PROVE  /\ Once(SessionKind)'
                      /\ \A d \in Calls' : d.kind = "me" => d.as = cookie'
                      /\ (\A d \in Calls' : d.kind # "me") => session'.traits = cookie'
  BY DEF SessionOK
<1>2. ~unsure /\ AtRest
  BY <1>1 DEF Overlap
<1>3. \A d \in Calls : d.kind \notin SessionKind
  BY <1>2 DEF AtRest, InFlight, Calls
<1>4. c \notin Calls
  BY <1>3 DEF SessionKind
<1>5. Once(SessionKind)' /\ \A d \in Calls' : d.kind \in SessionKind => d = c
  BY <1>3, <1>4, OnceSent
<1>6. session.traits = cookie
  BY <1>2, <1>3 DEF WInv, SessionOK, SessionKind
<1> QED
  BY <1>5, <1>6 DEF SessionKind

LEMMA LoginSends ==
  ASSUME WInv, LoginPage
  PROVE  WInv'
<1>1. PICK u \in User : loginAs(u)
  BY DEF LoginPage, DEMO_USERS
<1>2. page.at = "login" /\ PageFits(page)
  BY DEF LoginPage, WInv, PageOK
<1>3. logins' \in 0..MaxLogins /\ unsure' \in BOOLEAN
  BY <1>1, WebAssumption DEF loginAs, Overlap, WInv, RestOK, AtRest, InFlight
<1>4. PICK c : c = Call(cookie, "login", u, logins')
  OBVIOUS
<1>5. IsCall(c) /\ c.as = cookie /\ c.kind = "login" /\ c.arg = u
  BY <1>4, CallFields
<1>6. PICK s : s = <<c>>
  OBVIOUS
<1>7. s \in Seq({c}) /\ Range(s) = {c}
  BY <1>6, OneCall
<1>8. Flow({}, s) /\ Stays({})
  BY <1>1, <1>4, <1>6, <1>7, FlowSent DEF loginAs, WInv, RestOK
<1>9. RestOK'
  BY <1>1, <1>3, <1>8 DEF loginAs, WInv, RestOK, StreamType, Flow
<1>10. SessionOK'
  BY <1>1, <1>5, <1>6, <1>8, SessionSent DEF loginAs
<1>11. PageFits(page') /\ SameCore(page, page') /\ page'.doubt = page.doubt
  <2>1. PICK q : q = page'
    OBVIOUS
  <2>2. q = [page EXCEPT !.login = logins', !.note = Blank]
    BY <1>1, <2>1 DEF loginAs
  <2>3. IsPage(q) /\ q.login = logins' /\ q.note = Blank /\ \A f \in PageField \ {"login", "note"} : q[f] = page[f]
    BY <1>2, <2>2 DEF PageFits, IsPage, PageField
  <2>4. PageFits(q) /\ SameCore(page, q) /\ q.doubt = page.doubt
    BY <1>2, <1>3, <2>3 DEF PageFits, PageField, SameCore, Notes
  <2> QED
    BY <2>1, <2>4
<1>12. DataOK'
  <2>1. Shows(page, page')
    BY <1>11 DEF Shows, SameCore
  <2>2. \A d \in Range(s) : d.kind \in Reads => d.as = cookie'
    BY <1>5, <1>7 DEF Reads
  <2> QED
    BY <1>1, <1>8, <2>1, <2>2, DataKept DEF WInv, loginAs
<1>13. CallOf(page', c) /\ c.kind \notin RoomKind \cup {"feed", "peek"}
  BY <1>5 DEF CallOf, Fits, SessionKind, RoomKind, WInv, RestOK
<1>14. NoteSound(s)
  BY <1>2 DEF NoteSound
<1>15. UNCHANGED <<session, member>>
  BY <1>1 DEF loginAs
<1> QED
  BY <1>7, <1>8, <1>9, <1>10, <1>11, <1>12, <1>13, <1>14, <1>15, CoreStep

LEMMA LogoutSends ==
  ASSUME WInv, logout
  PROVE  WInv'
<1>1. UNCHANGED <<cookie, session, page, stream, lastEvent, member, logins, drops>>
  BY DEF logout
<1>2. PageFits(page')
  BY <1>1 DEF WInv, PageOK, PageFits
<1>3. unsure' \in BOOLEAN
  BY DEF logout, Overlap, WInv, RestOK, AtRest, InFlight
<1>4. PICK c : c = Call(cookie, "logout", None, 0)
  OBVIOUS
<1>5. IsCall(c) /\ c.as = cookie /\ c.kind = "logout"
  BY <1>4, CallFields
<1>6. PICK s : s = <<c>>
  OBVIOUS
<1>7. s \in Seq({c}) /\ Range(s) = {c}
  BY <1>6, OneCall
<1>8. Flow({}, s) /\ Stays({})
  BY <1>4, <1>6, <1>7, FlowSent DEF logout, WInv, RestOK
<1>9. RestOK'
  BY <1>1, <1>3, <1>8 DEF WInv, RestOK, StreamType, Flow
<1>10. SessionOK'
  BY <1>1, <1>5, <1>6, <1>8, SessionSent DEF logout
<1>11. SameCore(page, page') /\ page'.doubt = page.doubt /\ page'.note = page.note
  BY <1>1 DEF SameCore
<1>12. DataOK'
  <2>1. Shows(page, page')
    BY <1>11 DEF Shows, SameCore
  <2>2. \A d \in Range(s) : d.kind \in Reads => d.as = cookie'
    BY <1>5, <1>7 DEF Reads
  <2> QED
    BY <1>1, <1>8, <2>1, <2>2, DataKept DEF WInv
<1>13. CallOf(page', c) /\ c.kind \notin RoomKind \cup {"feed", "peek"}
  BY <1>5 DEF CallOf, Fits, SessionKind, RoomKind, WInv, RestOK
<1>14. NoteSound(s)
  BY <1>11 DEF NoteSound
<1> QED
  BY <1>1, <1>2, <1>7, <1>8, <1>9, <1>10, <1>11, <1>12, <1>13, <1>14, CoreStep

\* A login or a logout has its answer and changes nothing of the session.
LEMMA SessionEnds ==
  ASSUME WInv, NEW c \in Calls, c.kind \in {"login", "logout"}, NEW s, Flow({c}, s),
         \A d \in Range(s) : d.kind \notin SessionKind, UNCHANGED <<cookie, session, unsure>>
  PROVE  SessionOK'
<1>1. SUFFICES ASSUME ~unsure
               PROVE  /\ Once(SessionKind)'
                      /\ \A d \in Calls' : d.kind = "me" => d.as = cookie
                      /\ (\A d \in Calls' : d.kind # "me") => session.traits = cookie
  BY DEF SessionOK
<1>2. SessionOK /\ c.kind \in SessionKind
  BY DEF WInv, SessionKind
<1>3. Once(SessionKind)
  BY <1>1, <1>2 DEF SessionOK
<1>4. \A d \in Calls' : d.kind \notin SessionKind
  BY <1>2, <1>3, NoneLeft
<1>5. \A d \in Calls : d.kind # "me"
  BY <1>1, <1>2, LoneSession DEF SessionKind
<1>6. session.traits = cookie
  BY <1>1, <1>2, <1>5 DEF SessionOK
<1> QED
  BY <1>4, <1>6 DEF Once, SessionKind

LEMMA LoginWorks ==
  ASSUME WInv, NEW c \in Calls, LoginAnswered(c, 200)
  PROVE  WInv'
<1>1. /\ c.kind = "login" /\ cookie' = c.arg /\ Ask(Without(c), <<Call(c.arg, "me", "login", c.n)>>)
      /\ UNCHANGED <<page, session, stream, lastEvent, member, logins, drops, unsure>>
  BY DEF LoginAnswered
<1>2. c.arg \in User
  BY <1>1 DEF WInv, CallsOK, CallOf
<1>3. PICK d : d = Call(c.arg, "me", "login", c.n)
  OBVIOUS
<1>4. IsCall(d) /\ d.as = c.arg /\ d.kind = "me" /\ d.arg = "login"
  BY <1>3, CallFields
<1>5. PICK s : s = <<d>>
  OBVIOUS
<1>6. s \in Seq({d}) /\ Range(s) = {d}
  BY <1>5, OneCall
<1>7. Flow({c}, s) /\ Stays({c})
  BY <1>1, <1>3, <1>5, <1>6, FlowAnswered DEF WInv, RestOK
<1>8. RestOK'
  BY <1>1, <1>2, <1>7 DEF WInv, RestOK, StreamType, Flow
<1>9. d \in Calls'
  BY <1>6, <1>7 DEF Flow
<1>10. SessionOK'
  <2>1. SUFFICES ASSUME ~unsure
                 PROVE  Once(SessionKind)' /\ \A e \in Calls' : e.kind = "me" => e.as = cookie'
    BY <1>1, <1>4, <1>9 DEF SessionOK
  <2>2. \A e \in Calls : e.kind \in SessionKind => e = c /\ calls[e] = 1
    BY <1>1, <2>1, LoneSession DEF WInv, SessionKind
  <2>3. d \notin Calls
    BY <1>1, <1>4, <2>2 DEF SessionKind
  <2>4. Once(SessionKind)' /\ \A e \in Calls' : e.kind \in SessionKind => e = d
    BY <1>5, <1>7, <2>2, <2>3, OnceSent
  <2> QED
    BY <1>1, <1>4, <2>4 DEF SessionKind
<1>11. DataOK'
  BY <1>4, <1>9 DEF DataOK
<1>12. SameCore(page, page') /\ PageFits(page') /\ page'.doubt = page.doubt /\ page'.note = page.note
  BY <1>1 DEF SameCore, WInv, PageOK, PageFits
<1>13. CallOf(page', d) /\ d.kind \notin RoomKind \cup {"feed", "peek"}
  BY <1>2, <1>4 DEF CallOf, Fits, SessionKind, RoomKind
<1>14. NoteSound(s)
  BY <1>12 DEF NoteSound
<1>15. c.kind \notin RoomKind \cup {"roster", "feed", "peek"}
  BY <1>1 DEF RoomKind
<1> QED
  BY <1>1, <1>6, <1>7, <1>8, <1>10, <1>11, <1>12, <1>13, <1>14, <1>15, CoreStep

\* An answer that is noted on the page and sends nothing.
LEMMA SessionNoted ==
  ASSUME WInv, NEW c \in Calls, c.kind \in {"login", "logout"}, Ask(Without(c), <<>>),
         UNCHANGED <<cookie, session, stream, lastEvent, member, logins, drops, unsure>>,
         PageFits(page'), SameCore(page, page'), page'.doubt = page.doubt,
         page'.note \in {page.note, "failed"}
  PROVE  WInv'
<1>1. PICK s : s = <<>>
  OBVIOUS
<1>2. s \in Seq({}) /\ Range(s) = {}
  BY <1>1, NoCall
<1>3. Flow({c}, s) /\ Stays({c})
  BY <1>1, <1>2, FlowAnswered DEF WInv, RestOK
<1>4. RestOK'
  BY <1>3 DEF WInv, RestOK, StreamType, Flow
<1>5. SessionOK'
  BY <1>2, <1>3, SessionEnds
<1>6. DataOK'
  <2>1. Shows(page, page')
    BY DEF Shows, SameCore
  <2> QED
    BY <1>2, <1>3, <2>1, DataKept DEF WInv
<1>7. NoteSound(s) /\ c.kind \notin RoomKind \cup {"roster", "feed", "peek"}
  BY DEF NoteSound, RoomKind
<1> QED
  BY <1>2, <1>3, <1>4, <1>5, <1>6, <1>7, CoreStep

LEMMA LoginFails ==
  ASSUME WInv, NEW c \in Calls, NEW status, status # 200, LoginAnswered(c, status)
  PROVE  WInv'
<1>1. /\ c.kind = "login" /\ Ask(Without(c), <<>>)
      /\ page' = IF page.login = c.n THEN [page EXCEPT !.login = 0, !.note = "failed"] ELSE page
      /\ UNCHANGED <<cookie, session, stream, lastEvent, member, logins, drops, unsure>>
  BY DEF LoginAnswered
<1>2. PageFits(page)
  BY DEF WInv, PageOK
<1>3. PICK q : q = page'
  OBVIOUS
<1>4. /\ IsPage(q) /\ q.login \in {0, page.login} /\ q.note \in {page.note, "failed"}
      /\ \A f \in PageField \ {"login", "note"} : q[f] = page[f]
  BY <1>1, <1>2, <1>3 DEF PageFits, IsPage, PageField
<1>5. PageFits(q) /\ SameCore(page, q) /\ q.doubt = page.doubt
  BY <1>2, <1>4, WebAssumption DEF PageFits, PageField, SameCore, Notes
<1> QED
  BY <1>1, <1>3, <1>4, <1>5, SessionNoted

\* An effect renders the page as a session call c has its answer.
LEMMA AnswerRenders ==
  ASSUME WInv, NEW c \in Calls, c.kind \in SessionKind, NEW tr, tr = session'.traits,
         NEW why, why = Changed(session.traits, tr), NEW last,
         cookie' \in User \cup {None}, tr \in User \cup {None},
         Render(page, why, tr, last, Without(c))
  PROVE  \E s : /\ Renders(page, why, session'.traits, Without(c), s)
                /\ Flow({c}, s) /\ Stays({c}) /\ Rendered(page, why) /\ Noticed(why)
                /\ \A d \in Calls \ {c} : d \in BagToSet(Without(c))
<1>1. PageFits(page) /\ IsABag(calls)
  BY DEF WInv, PageOK, RestOK
<1>2. PICK s : Renders(page, why, tr, Without(c), s)
  BY <1>1, RenderFacts
<1>3. s \in Seq(Range(s)) /\ Ask(Without(c), s)
  BY <1>2 DEF Renders
<1>4. Flow({c}, s) /\ Stays({c})
  BY <1>1, <1>3, FlowAnswered
<1>5. Rendered(page, why)
  BY PageRendered
<1>6. Noticed(why)
  BY DEF Noticed, Changed
<1>7. \A d \in Calls \ {c} : d \in BagToSet(Without(c))
  BY <1>1, WithoutSet DEF Calls
<1> QED
  BY <1>2, <1>4, <1>5, <1>6, <1>7

LEMMA LogoutWorks ==
  ASSUME WInv, NEW c \in Calls, LogoutAnswered(c, 200)
  PROVE  WInv'
<1>1. /\ c.kind = "logout" /\ cookie' = None /\ session' = [status |-> "anonymous", traits |-> None]
      /\ Render(page, Changed(session.traits, None), None, lastEvent, Without(c))
      /\ UNCHANGED <<stream, lastEvent, member, logins, drops, unsure>>
  BY DEF LogoutAnswered
<1>2. PICK why : why = Changed(session.traits, None)
  OBVIOUS
<1>3. session'.traits = None /\ c.kind \in SessionKind
  BY <1>1 DEF SessionKind
<1>4. PICK s : /\ Renders(page, why, session'.traits, Without(c), s)
               /\ Flow({c}, s) /\ Stays({c}) /\ Rendered(page, why) /\ Noticed(why)
               /\ \A d \in Calls \ {c} : d \in BagToSet(Without(c))
  BY <1>1, <1>2, <1>3, AnswerRenders
<1>5. RestOK'
  BY <1>1, <1>4 DEF WInv, RestOK, StreamType, Flow
<1>6. \A d \in Range(s) : d.kind \notin SessionKind
  BY <1>4, RenderShows
<1>7. SessionOK'
  <2>1. ASSUME ~unsure PROVE \A d \in Calls' : d.kind \notin SessionKind
    BY <1>3, <1>4, <1>6, <2>1, NoneLeft DEF WInv, SessionOK
  <2> QED
    BY <1>1, <1>3, <2>1 DEF SessionOK, Once, SessionKind
<1>8. DataOK'
  BY <1>1 DEF DataOK
<1> QED
  BY <1>1, <1>3, <1>4, <1>5, <1>7, <1>8, RenderStep

LEMMA LogoutFails ==
  ASSUME WInv, NEW c \in Calls, NEW status, status # 200, LogoutAnswered(c, status)
  PROVE  WInv'
<1>1. /\ c.kind = "logout" /\ Ask(Without(c), <<>>)
      /\ UNCHANGED <<cookie, session, page, stream, lastEvent, member, logins, drops, unsure>>
  BY DEF LogoutAnswered
<1>2. PageFits(page') /\ SameCore(page, page') /\ page'.doubt = page.doubt /\ page'.note = page.note
  BY <1>1 DEF WInv, PageOK, PageFits, SameCore
<1> QED
  BY <1>1, <1>2, SessionNoted

LEMMA MeStatuses ==
  ASSUME NEW c, c.kind = "me"
  PROVE  Statuses(c) = IF c.as = None THEN {401} ELSE {200}
BY DEF Statuses, authApi, domainApi, emitApi, auditApi, connectionsApi, evictionLabApi, replayLabApi,
       presenceApi, offlineLabApi, reauthLabApi, roomsApi, AuthController, SessionGuard

\* The answer to a read of the session, as long as session calls do not overlap, is
\* the cookie's.
LEMMA MeSession ==
  ASSUME WInv, NEW c \in Calls, c.kind = "me", NEW status, status \in request(c),
         session' = loadSession(c, status), unsure' = (unsure \/ status = 0), cookie' = cookie,
         NEW s, Flow({c}, s), \A d \in Range(s) : d.kind \notin SessionKind
  PROVE  SessionOK'
<1>1. SUFFICES ASSUME ~unsure'
               PROVE  /\ Once(SessionKind)'
                      /\ \A d \in Calls' : d.kind = "me" => d.as = cookie
                      /\ session'.traits = cookie
  BY DEF SessionOK
<1>2. ~unsure /\ status # 0 /\ c.kind \in SessionKind
  BY <1>1 DEF SessionKind
<1>3. \A d \in Calls' : d.kind \notin SessionKind
  BY <1>2, NoneLeft DEF WInv, SessionOK
<1>4. c.as = cookie
  BY <1>2 DEF WInv, SessionOK
<1>5. status \in IF c.as = None THEN {401} ELSE {200}
  BY <1>2, MeStatuses DEF request
<1>6. session'.traits = cookie
  BY <1>4, <1>5 DEF loadSession
<1> QED
  BY <1>3, <1>6 DEF Once, SessionKind

LEMMA MeRest ==
  ASSUME WInv, NEW c \in Calls, NEW status,
         session' = loadSession(c, status), unsure' = (unsure \/ status = 0), IsABag(calls'),
         stream' \in StreamType, member' \in {member, {}},
         UNCHANGED <<cookie, lastEvent, logins, drops>>
  PROVE  RestOK' /\ session'.traits \in User \cup {None}
<1>1. c.as \in User \cup {None} /\ unsure \in BOOLEAN
  BY DEF WInv, CallsOK, CallOf, RestOK
<1>2. /\ session' \in [status : {"loading", "anonymous", "authenticated"}, traits : User \cup {None}]
      /\ session'.traits \in User \cup {None}
  BY <1>1 DEF loadSession
<1>3. unsure' \in BOOLEAN
  BY <1>1
<1> QED
  BY <1>2, <1>3 DEF WInv, RestOK, StreamType

LEMMA MeRenders ==
  ASSUME WInv, NEW c \in Calls, NEW status, status \in request(c), MeAnswered(c, status), ~Pushes(c)
  PROVE  WInv'
<1>1. /\ c.kind = "me" /\ session' = loadSession(c, status) /\ unsure' = (unsure \/ status = 0)
      /\ Render(page, Changed(session.traits, session'.traits), session'.traits, lastEvent, Without(c))
      /\ UNCHANGED <<cookie, lastEvent, logins, drops, stream, member>>
  BY DEF MeAnswered
<1>2. /\ c.as \in User \cup {None} /\ cookie \in User \cup {None} /\ stream \in StreamType
      /\ page.doubt \in BOOLEAN /\ PageFits(page)
  BY DEF WInv, CallsOK, CallOf, RestOK, PageOK, PageFits
<1>3. session'.traits \in User \cup {None} /\ c.kind \in SessionKind
  BY <1>1, <1>2 DEF loadSession, SessionKind
<1>4. PICK tr : tr = session'.traits
  OBVIOUS
<1>5. PICK why : why = Changed(session.traits, tr)
  OBVIOUS
<1>6. cookie' \in User \cup {None} /\ tr \in User \cup {None} /\ Render(page, why, tr, lastEvent, Without(c))
  BY <1>1, <1>2, <1>3, <1>4, <1>5
<1>7. PICK s : /\ Renders(page, why, session'.traits, Without(c), s)
               /\ Flow({c}, s) /\ Stays({c}) /\ Rendered(page, why) /\ Noticed(why)
               /\ \A d \in Calls \ {c} : d \in BagToSet(Without(c))
  BY <1>3, <1>4, <1>5, <1>6, AnswerRenders
<1>8. /\ Shows(page, page')
      /\ \A d \in Range(s) : d.kind \notin SessionKind /\ (d.kind \in Reads => d.as = cookie')
  BY <1>7, RenderShows
<1>9. RestOK'
  BY <1>1, <1>2, <1>7, MeRest DEF Flow
<1>10. SessionOK'
  BY <1>1, <1>7, <1>8, MeSession
<1>11. DataOK'
  <2>1. CASE c.arg # "login"
    BY <1>1, <1>7, <1>8, <2>1, DataKept DEF WInv
  <2>2. CASE c.arg = "login"
    <3>1. page.at = "home"
      BY <2>2 DEF Pushes
    <3>2. page.shown = None /\ page.side = None /\ page.wiring = None
      BY <1>2, <3>1 DEF PageFits
    <3>3. page'.shown = None /\ page'.side = None /\ page'.wiring = None
      BY <1>7, <3>2 DEF Renders, PageField
    <3>4. s = <<>>
      BY <1>7, <3>1 DEF Renders
    <3>5. Range(s) = {}
      BY <3>4, NoCall
    <3>6. ASSUME NEW d \in Calls', d.kind \in Reads PROVE FALSE
      <4>1. d \in Calls
        BY <1>7, <3>5 DEF Flow
      <4>2. Fits(d.kind, "home")
        BY <3>1, <4>1 DEF WInv, CallsOK, CallOf
      <4> QED
        BY <3>6, <4>2 DEF Fits, Reads, SessionKind
    <3> QED
      BY <3>3, <3>6 DEF DataOK
  <2> QED BY <2>1, <2>2
<1>12. \A d \in {c} : d.kind \in SessionKind
  BY <1>3
<1> QED
  BY <1>1, <1>7, <1>9, <1>10, <1>11, <1>12, RenderStep

-----------------------------------------------------------------------------
(* Navigation.                                                             *)

LEMMA FreshFits ==
  ASSUME NEW at \in Page, NEW p, p = Fresh(at)
  PROVE  /\ PageFits(p) /\ p.at = at /\ p.shown = None /\ p.side = None /\ p.wiring = None
         /\ p.reads = 0 /\ p.joined = None
<1>1. PICK input : input = CASE at = "audit" -> "all" [] at = "offline" -> Target [] OTHER -> None
  OBVIOUS
<1>2. PICK cards \in [Card -> {"idle", "pending", "ok", "failed"}] : cards = [c \in Card |-> "idle"]
  OBVIOUS
<1>3. p = [at |-> at, input |-> input, shown |-> None, side |-> None, wiring |-> None,
           note |-> Blank, reads |-> 0, login |-> 0, card |-> cards, token |-> None,
           live |-> 0, owner |-> None, joined |-> None, confirming |-> FALSE,
           sse |-> 0, ws |-> 0, via |-> 0, doubt |-> FALSE]
  BY <1>1, <1>2 DEF Fresh
<1>4. IsPage(p)
  BY <1>3 DEF IsPage, PageField
<1>5. /\ p.at = at /\ p.shown = None /\ p.side = None /\ p.wiring = None /\ p.note = Blank
      /\ p.reads = 0 /\ p.login = 0 /\ p.card = cards /\ p.token = None /\ p.live = 0
      /\ p.joined = None /\ p.confirming = FALSE /\ p.sse = 0 /\ p.ws = 0 /\ p.via = 0
      /\ p.doubt = FALSE
  BY <1>3
<1>6. MaxReads \in Nat /\ MaxLogins \in Nat
  BY WebAssumption
<1>7. p.confirming \in BOOLEAN /\ p.doubt \in BOOLEAN
  BY <1>5
<1>8. /\ p.reads \in 0..MaxReads /\ p.live \in 0..p.reads /\ p.via \in 0..p.reads
      /\ p.sse \in 0..MaxReads /\ p.ws \in 0..MaxReads /\ p.login \in 0..MaxLogins
  BY <1>5, <1>6
<1>9. p.note \in Notes /\ p.at \in Page /\ p.token \in User \cup {None}
  BY <1>5 DEF Notes
<1>10. PageFits(p)
  BY <1>2, <1>4, <1>5, <1>7, <1>8, <1>9 DEF PageFits
<1> QED
  BY <1>5, <1>10

LEMMA MountStep ==
  ASSUME WInv, RestOK', SessionOK', NEW at \in Page, NEW p, p = Fresh(at),
         NEW old, NEW s, Renders(p, {"mount"}, session'.traits, old, s), NEW G, Flow(G, s),
         \A c \in Calls' \ Range(s) : c.kind \in SessionKind
  PROVE  WInv'
<1>1. /\ PageFits(p) /\ p.shown = None /\ p.side = None /\ p.wiring = None
      /\ p.reads = 0 /\ p.joined = None
  BY FreshFits
<1>2. /\ page'.at = p.at /\ page'.input = p.input /\ page'.shown = None /\ page'.side = None
      /\ page'.wiring = None /\ page'.joined = None
      /\ page'.reads = IF p.at = "presence" THEN Len(s) ELSE 0
  BY <1>1 DEF Renders, PageField
<1>3. PageOK'
  BY DEF Renders, PageOK, PageFits
<1>4. CallsOK'
  BY CallsForgotten DEF WInv, Flow, Renders
<1>5. \A c \in Calls' : c.kind \in SessionKind \/ c \in Range(s)
  OBVIOUS
<1>6. DataOK'
  <2>1. \A c \in Calls' : c.kind \in Reads => c.as = cookie'
    BY <1>5 DEF Renders, Reads, SessionKind
  <2> QED
    BY <1>2, <2>1 DEF DataOK
<1>7. Range(s) \subseteq Calls'
  BY DEF Flow
<1>8. RosterOK'
  <2>1. SUFFICES ASSUME page'.at = "presence", page'.reads > 0
                 PROVE  \E c \in Calls' : c.kind = "roster" /\ c.n = page'.reads
    BY DEF RosterOK
  <2>2. Len(s) > 0 /\ p.at = "presence"
    BY <1>2, <2>1
  <2>3. PICK c \in Range(s) : c.kind = "roster" /\ c.n = page'.reads
    BY <2>2 DEF Renders
  <2> QED
    BY <1>7, <2>3
<1>9. ASSUME NEW kind \in {"feed", "peek"}, \E c \in Range(s) : c.kind = kind PROVE Fed(kind)'
  <2>1. \A c \in Calls' : c.kind = kind => c.arg = page'.input
    BY <1>2, <1>5 DEF Renders, SessionKind
  <2> QED
    BY <1>7, <1>9, <2>1 DEF Fed
<1>10. ASSUME page'.at = "audit" PROVE Fed("feed")'
  <2>1. {"mount"} \cap {"mount", "input"} # {} /\ p.at = "audit"
    BY <1>2, <1>10
  <2>2. \E c \in Range(s) : c.kind = "feed"
    BY <2>1 DEF Renders
  <2> QED
    BY <1>9, <2>2
<1>11. ASSUME page'.at = "offline", isAdmin(session'.traits) PROVE Fed("peek")'
  <2>1. Peeks(p, {"mount"})
    BY <1>2, <1>11 DEF Peeks
  <2>2. \E c \in Range(s) : c.kind = "peek"
    BY <1>11, <2>1 DEF Renders
  <2> QED
    BY <1>9, <2>2
<1>12. ListOK'
  <2>1. isAdmin(session.traits)' = isAdmin(session'.traits)
    BY DEF isAdmin
  <2> QED
    BY <1>10, <1>11, <2>1 DEF ListOK
<1>13. ChatOK'
  <2>1. \A c \in Calls' : c.kind \notin RoomKind
    BY <1>5 DEF Renders, Loadable, Reads, SessionKind, RoomKind
  <2> QED
    BY <1>2, <2>1 DEF ChatOK, Once, RoomKind
<1> QED
  BY <1>3, <1>4, <1>6, <1>8, <1>12, <1>13 DEF WInv

LEMMA MountStream ==
  ASSUME stream \in StreamType, cookie' \in User \cup {None}, NEW p, NEW tr,
         NEW survivors, Mount(p, tr, survivors)
  PROVE  stream' \in StreamType
<1>1. PICK r : r = IF p = "both" THEN connect(cookie') ELSE Closed
  OBVIOUS
<1>2. r \in StreamRec
  BY <1>1, StreamRecs
<1>3. stream' = [stream EXCEPT !["panel"] = r]
  BY <1>1 DEF Mount
<1> QED
  BY <1>2, <1>3, StreamSet DEF Hook

LEMMA NavigateStep ==
  ASSUME WInv, NEW at \in Page, Navigate(at)
  PROVE  WInv'
<1>1. PICK p : p = Fresh(at)
  OBVIOUS
<1>2. PICK survivors : survivors = Survivors(calls)
  OBVIOUS
<1>3. /\ UNCHANGED <<cookie, session, lastEvent, logins, drops, unsure>> /\ member' = {}
      /\ Mount(at, session.traits, survivors) /\ Render(p, {"mount"}, session.traits, lastEvent, survivors)
  BY <1>1, <1>2 DEF Navigate, Mount
<1>4. IsABag(calls) /\ stream \in StreamType /\ cookie \in User \cup {None} /\ session.traits \in User \cup {None}
  BY DEF WInv, RestOK
<1>5. PageFits(p)
  BY <1>1, FreshFits
<1>6. PICK tr : tr = session.traits
  OBVIOUS
<1>7. cookie' \in User \cup {None} /\ tr \in User \cup {None} /\ Render(p, {"mount"}, tr, lastEvent, survivors)
  BY <1>3, <1>4, <1>6
<1>8. PICK s : Renders(p, {"mount"}, tr, survivors, s)
  BY <1>5, <1>7, RenderFacts
<1>9. s \in Seq(Range(s)) /\ Ask(Survivors(calls), s)
  BY <1>2, <1>8 DEF Renders
<1>10. Flow({}, s) /\ \A c \in Calls' \ Range(s) : c.kind \in SessionKind
  <2>1. PICK old : old = calls
    OBVIOUS
  <2>2. IsABag(old) /\ BagToSet(old) \subseteq Calls /\ Calls \ {} \subseteq BagToSet(old)
    BY <1>4, <2>1 DEF Calls
  <2>3. \A d \in BagToSet(old) : old[d] <= calls[d]
    BY <1>4, <2>1 DEF IsABag, BagToSet
  <2>4. Ask(Survivors(old), s)
    BY <1>9, <2>1
  <2> QED
    BY <1>9, <2>2, <2>3, <2>4, FlowForgets
<1>11. stream' \in StreamType
  BY <1>3, <1>4, <1>7, MountStream
<1>12. RestOK'
  BY <1>3, <1>10, <1>11 DEF WInv, RestOK, StreamType, Flow
<1>13. SessionOK'
  BY <1>3, <1>4, <1>8, <1>10, SessionKept DEF WInv, Renders, Loadable, Reads, SessionKind
<1>14. Renders(p, {"mount"}, session'.traits, survivors, s)
  BY <1>3, <1>6, <1>8
<1> QED
  BY <1>1, <1>10, <1>12, <1>13, <1>14, MountStep

LEMMA MePushes ==
  ASSUME WInv, NEW c \in Calls, NEW status, status \in request(c), MeAnswered(c, status), Pushes(c)
  PROVE  WInv'
<1>1. PICK p : p = Fresh("home")
  OBVIOUS
<1>2. PICK survivors : survivors = Survivors(Without(c))
  OBVIOUS
<1>3. /\ c.kind = "me" /\ session' = loadSession(c, status) /\ unsure' = (unsure \/ status = 0)
      /\ UNCHANGED <<cookie, lastEvent, logins, drops>> /\ member' = {}
      /\ Mount("home", session'.traits, survivors) /\ Render(p, {"mount"}, session'.traits, lastEvent', survivors)
  BY <1>1, <1>2 DEF MeAnswered, Mount
<1>4. /\ IsABag(calls) /\ stream \in StreamType /\ cookie \in User \cup {None}
      /\ c.as \in User \cup {None} /\ "home" \in Page
  BY WebAssumption DEF WInv, RestOK, CallsOK, CallOf
<1>5. PageFits(p)
  BY <1>1, <1>4, FreshFits
<1>6. session'.traits \in User \cup {None}
  BY <1>3, <1>4 DEF loadSession
<1>7. PICK tr, last : tr = session'.traits /\ last = lastEvent
  OBVIOUS
<1>8. cookie' \in User \cup {None} /\ tr \in User \cup {None} /\ Render(p, {"mount"}, tr, last, survivors)
  BY <1>3, <1>4, <1>6, <1>7
<1>9. PICK s : Renders(p, {"mount"}, tr, survivors, s)
  BY <1>5, <1>8, RenderFacts
<1>10. s \in Seq(Range(s)) /\ Ask(Survivors(Without(c)), s)
  BY <1>2, <1>9 DEF Renders
<1>11. Flow({c}, s) /\ \A d \in Calls' \ Range(s) : d.kind \in SessionKind
  <2>1. PICK old : old = Without(c)
    OBVIOUS
  <2>2. /\ IsABag(old) /\ BagToSet(old) \subseteq Calls /\ Calls \ {c} \subseteq BagToSet(old)
        /\ \A d \in BagToSet(old) : old[d] <= calls[d]
        /\ \A d \in {c} : calls[d] = 1 => d \notin BagToSet(old)
    BY <1>4, <2>1, WithoutSet DEF Calls
  <2>3. Ask(Survivors(old), s)
    BY <1>10, <2>1
  <2> QED
    BY <1>10, <2>2, <2>3, FlowForgets
<1>12. stream' \in StreamType
  BY <1>3, <1>4, <1>8, MountStream
<1>13. RestOK'
  BY <1>3, <1>11, <1>12, MeRest DEF Flow
<1>14. \A d \in Range(s) : d.kind \notin SessionKind
  BY <1>9 DEF Renders, Loadable, Reads, SessionKind
<1>15. SessionOK'
  BY <1>3, <1>11, <1>14, MeSession
<1>16. Renders(p, {"mount"}, session'.traits, survivors, s)
  BY <1>7, <1>9
<1> QED
  BY <1>1, <1>4, <1>11, <1>13, <1>15, <1>16, MountStep

-----------------------------------------------------------------------------
(* Answers to what a page read or did.                                     *)

\* A page with another body or note.
Bodied(p, q, b) ==
  \/ q = p \/ q = Failed(p) \/ q = [p EXCEPT !.shown = b, !.note = Blank]
  \/ q = [p EXCEPT !.shown = b] \/ q = [p EXCEPT !.side = b] \/ q = [p EXCEPT !.wiring = b]

LEMMA BodiedFits ==
  ASSUME NEW p, PageFits(p), p.at # "home", NEW b, NEW q, Bodied(p, q, b)
  PROVE  /\ PageFits(q)
         /\ \A f \in PageField \ {"shown", "side", "wiring", "note"} : q[f] = p[f]
         /\ {q.shown, q.side, q.wiring} \subseteq {p.shown, p.side, p.wiring, b}
<1>1. /\ IsPage(q) /\ \A f \in PageField \ {"shown", "side", "wiring", "note"} : q[f] = p[f]
      /\ q.note \in {p.note, Blank, "failed"}
      /\ q.shown \in {p.shown, b} /\ q.side \in {p.side, b} /\ q.wiring \in {p.wiring, b}
  BY DEF Bodied, Failed, PageFits, IsPage, PageField
<1>2. PageFits(q)
  BY <1>1 DEF PageFits, PageField, Notes
<1> QED
  BY <1>1, <1>2

LEMMA ReadBodied ==
  ASSUME NEW c, c.kind \in Reads, NEW ok \in BOOLEAN, NEW p, NEW q, q = Read(p, c, ok)
  PROVE  Bodied(p, q, Body(c)) \/ Bodied(p, q, None)
<1>1. CASE c.kind = "roster"
  BY <1>1 DEF Read, setRoster, Bodied
<1>2. CASE c.kind = "feed"
  BY <1>2 DEF Read, setEntries, Bodied
<1>3. CASE c.kind = "list"
  BY <1>3 DEF Read, setConnections, Bodied
<1>4. CASE c.kind = "timeline"
  BY <1>4 DEF Read, OrNone, Bodied
<1>5. CASE c.kind = "introspection"
  BY <1>5 DEF Read, OrNone, Bodied
<1>6. CASE c.kind = "peek"
  BY <1>6 DEF Read, setQueued, Bodied
<1>7. CASE c.kind = "cards"
  BY <1>7 DEF Read, fetchInstanceStats, OrNone, Bodied
<1>8. CASE c.kind \in {"replayTimeline", "stats"}
  BY <1>8 DEF Read, OrNone, Bodied
<1> QED
  BY <1>1, <1>2, <1>3, <1>4, <1>5, <1>6, <1>7, <1>8 DEF Reads

LEMMA ReadPlace ==
  ASSUME NEW kind \in Reads, NEW at, Fits(kind, at)
  PROVE  /\ at \notin {"home", "chat"} /\ (at = "presence" <=> kind = "roster")
         /\ (at = "audit" <=> kind = "feed") /\ (at = "offline" <=> kind = "peek")
BY DEF Fits, Reads, SessionKind, emitApi

LEMMA RosterAnswer ==
  ASSUME WInv, NEW c \in Calls, c.kind = "roster", NEW ok \in BOOLEAN,
         page' = setRoster(page, c, ok), Stays({c})
  PROVE  RosterOK'
<1>1. PageFits(page) /\ c.arg \in Range(TenantOf) /\ c.n \in 1..MaxReads /\ c.as \in User \cup {None}
  BY DEF WInv, PageOK, CallsOK, CallOf
<1>2. Body(c) # None /\ Body(c).n = c.n
  BY <1>1, WebAssumption DEF Body
<1>3. SUFFICES ASSUME page.at = "presence", page.reads > 0
               PROVE  \/ \E d \in Calls' : d.kind = "roster" /\ d.n = page.reads
                      \/ page'.note = "failed"
                      \/ page'.shown # None /\ page'.shown.n = page.reads
  <2>1. page'.at = page.at /\ page'.reads = page.reads
    BY <1>1 DEF setRoster, Failed, PageFits, IsPage, PageField
  <2> QED
    BY <2>1 DEF RosterOK
<1>4. CASE c.n # page.reads
  <2>1. page' = page
    BY <1>4 DEF setRoster
  <2>2. CASE \E d \in Calls : d.kind = "roster" /\ d.n = page.reads
    BY <1>4, <2>2 DEF Stays
  <2>3. CASE ~\E d \in Calls : d.kind = "roster" /\ d.n = page.reads
    BY <1>3, <2>1, <2>3 DEF WInv, RosterOK
  <2> QED BY <2>2, <2>3
<1>5. CASE c.n = page.reads /\ ok
  <2>1. page'.shown = Body(c)
    BY <1>1, <1>5 DEF setRoster, PageFits, IsPage, PageField
  <2> QED
    BY <1>2, <1>5, <2>1
<1>6. CASE c.n = page.reads /\ ~ok
  <2>1. page'.note = "failed"
    BY <1>1, <1>6 DEF setRoster, Failed, PageFits, IsPage, PageField
  <2> QED BY <2>1
<1> QED BY <1>4, <1>5, <1>6

LEMMA FedAnswer ==
  ASSUME WInv, NEW kind, NEW c \in Calls, c.kind = kind, Fed(kind),
         NEW s, Range(s) = {}, Flow({c}, s),
         page' = setEntries(page, c, TRUE) \/ page' = setQueued(page, c, TRUE) \/ page' = Failed(page)
  PROVE  Fed(kind)'
<1>1. PageFits(page)
  BY DEF WInv, PageOK
<1>2. page'.input = page.input
  BY <1>1 DEF setEntries, setQueued, Failed, PageFits, IsPage, PageField
<1>3. page'.note = "failed" \/ page'.shown = Body(c)
  BY <1>1 DEF setEntries, setQueued, Failed, PageFits, IsPage, PageField
<1>4. c.arg = page.input /\ Body(c).arg = c.arg
  BY DEF Fed, Body
<1>5. \A d \in Calls' : d.kind = kind => d.arg = page.input
  BY DEF Flow, Fed
<1> QED
  BY <1>2, <1>3, <1>4, <1>5 DEF Fed

LEMMA ReadStep ==
  ASSUME WInv, NEW c \in Calls, NEW status, ReadAnswered(c, status)
  PROVE  WInv'
<1>1. PICK ok \in BOOLEAN : ok = (status = 200)
  OBVIOUS
<1>2. /\ c.kind \in Reads /\ page' = Read(page, c, ok) /\ Ask(Without(c), <<>>)
      /\ UNCHANGED <<cookie, session, member, logins, unsure, stream, lastEvent, drops>>
  BY <1>1 DEF ReadAnswered, Still
<1>3. IsABag(calls) /\ PageFits(page) /\ Fits(c.kind, page.at)
  BY DEF WInv, RestOK, PageOK, CallsOK, CallOf
<1>4. PICK s : s = <<>>
  OBVIOUS
<1>5. s \in Seq({}) /\ Range(s) = {}
  BY <1>4, NoCall
<1>6. Flow({c}, s) /\ Stays({c})
  BY <1>2, <1>3, <1>4, <1>5, FlowAnswered
<1>7. RestOK'
  BY <1>2, <1>6, RestKept DEF WInv, Flow, Still
<1>8. /\ page.at \notin {"home", "chat"} /\ (page.at = "presence" <=> c.kind = "roster")
      /\ (page.at = "audit" <=> c.kind = "feed") /\ (page.at = "offline" <=> c.kind = "peek")
  BY <1>2, <1>3, ReadPlace
<1>9. PICK q : q = page'
  OBVIOUS
<1>10. PICK b \in {Body(c), None} : Bodied(page, q, b)
  BY <1>2, <1>9, ReadBodied
<1>11. /\ PageFits(q)
       /\ \A f \in PageField \ {"shown", "side", "wiring", "note"} : q[f] = page[f]
       /\ {q.shown, q.side, q.wiring} \subseteq {page.shown, page.side, page.wiring, b}
  BY <1>3, <1>8, <1>10, BodiedFits
<1>12. /\ page'.at = page.at /\ page'.reads = page.reads /\ page'.doubt = page.doubt
  BY <1>9, <1>11 DEF PageField
<1>13. PageOK'
  BY <1>9, <1>11 DEF PageOK, PageFits
<1>14. CallsOK'
  <2>1. page.reads \in Nat /\ page'.reads \in Nat /\ page.reads <= page'.reads
    BY <1>3, <1>12 DEF PageFits
  <2> QED
    BY <1>5, <1>6, <1>12, <2>1, CallsKept DEF WInv
<1>15. c.kind \notin SessionKind \cup RoomKind
  BY <1>2 DEF Reads, SessionKind, RoomKind
<1>16. SessionOK'
  BY <1>2, <1>3, <1>5, <1>6, <1>15, SessionKept DEF WInv
<1>17. DataOK'
  <2>1. Body(c).as = c.as
    BY DEF Body
  <2>2. Shows(page, page')
    BY <1>2, <1>9, <1>10, <1>11, <2>1 DEF Shows
  <2> QED
    BY <1>2, <1>5, <1>6, <1>15, <2>2, DataKept DEF WInv, SessionKind
<1>18. RosterOK'
  <2>1. CASE c.kind = "roster"
    <3>1. page' = setRoster(page, c, ok)
      BY <1>2, <2>1 DEF Read
    <3> QED
      BY <1>6, <2>1, <3>1, RosterAnswer
  <2>2. CASE c.kind # "roster"
    BY <1>8, <1>12, <2>2 DEF RosterOK
  <2> QED BY <2>1, <2>2
<1>19. ListOK'
  <2>1. ASSUME page.at = "audit", ~page.doubt PROVE Fed("feed")'
    <3>1. c.kind = "feed"
      BY <1>8, <2>1
    <3>2. Fed("feed")
      BY <2>1 DEF WInv, ListOK
    <3>3. page' = setEntries(page, c, TRUE) \/ page' = Failed(page)
      BY <1>2, <3>1 DEF Read, setEntries
    <3> QED
      BY <1>5, <1>6, <3>1, <3>2, <3>3, FedAnswer
  <2>2. ASSUME page.at = "offline", isAdmin(session.traits), ~page.doubt PROVE Fed("peek")'
    <3>1. c.kind = "peek"
      BY <1>8, <2>2
    <3>2. Fed("peek")
      BY <2>2 DEF WInv, ListOK
    <3>3. page' = setQueued(page, c, TRUE) \/ page' = Failed(page)
      BY <1>2, <3>1 DEF Read, setQueued
    <3> QED
      BY <1>5, <1>6, <3>1, <3>2, <3>3, FedAnswer
  <2>3. isAdmin(session.traits)' = isAdmin(session.traits)
    BY <1>2 DEF isAdmin
  <2> QED
    BY <1>12, <2>1, <2>2, <2>3 DEF ListOK
<1>20. ChatOK'
  BY <1>8, <1>12 DEF ChatOK
<1> QED
  BY <1>7, <1>13, <1>14, <1>16, <1>17, <1>18, <1>19, <1>20 DEF WInv

\* What a click reads again once it worked.
LEMMA AgainCalls ==
  ASSUME WInv, NEW c, c.kind \in Clicks, Fits(c.kind, page.at), NEW s, s = Again(c)
  PROVE  /\ s \in Seq(Range(s))
         /\ \A d \in Range(s) : Sendable(d) /\ d.kind # "feed"
         /\ c.kind \in {"offlineEmit", "ack"} => \E d \in Range(s) : d.kind = "peek"
<1>1. CASE c.kind = "disconnect"
  <2>1. PICK d : d = Call(cookie, "list", None, 0)
    OBVIOUS
  <2>2. s = <<d>>
    BY <1>1, <2>1 DEF Again
  <2>3. Fits("list", page.at)
    BY <1>1 DEF Fits, SessionKind, emitApi
  <2>4. Sendable(d) /\ d.kind = "list"
    BY <2>1, <2>3, CallSends DEF SessionKind, RoomKind
  <2> QED
    BY <1>1, <2>2, <2>4, OneCall
<1>2. CASE c.kind = "burst" /\ c.arg # None
  <2>1. PICK d : d = Call(cookie, "replayTimeline", c.arg, 0)
    OBVIOUS
  <2>2. s = <<d>>
    BY <1>2, <2>1 DEF Again
  <2>3. Fits("replayTimeline", page.at)
    BY <1>2 DEF Fits, SessionKind, emitApi
  <2>4. Sendable(d) /\ d.kind = "replayTimeline"
    BY <2>1, <2>3, CallSends DEF SessionKind, RoomKind
  <2> QED
    BY <1>2, <2>2, <2>4, OneCall
<1>3. CASE c.kind \in {"offlineEmit", "ack"}
  <2>1. PICK d : d = Call(cookie, "peek", c.arg, 0)
    OBVIOUS
  <2>2. s = <<d>>
    BY <1>3, <2>1 DEF Again
  <2>3. Fits("peek", page.at)
    BY <1>3 DEF Fits, SessionKind, emitApi
  <2>4. Sendable(d) /\ d.kind = "peek"
    BY <2>1, <2>3, CallSends DEF SessionKind, RoomKind
  <2> QED
    BY <2>2, <2>4, OneCall
<1>4. CASE ~(c.kind = "disconnect" \/ (c.kind = "burst" /\ c.arg # None) \/ c.kind \in {"offlineEmit", "ack"})
  <2>1. s = <<>>
    BY <1>4 DEF Again
  <2> QED
    BY <1>4, <2>1, NoCall
<1> QED BY <1>1, <1>2, <1>3, <1>4

\* The page a click leaves before its doubts: a note or a card is all it changes.
ClickPage(c, status) ==
  CASE c.kind \in emitApi                      -> setFeedback(page, c, status = 200)
    [] c.kind = "disconnect" /\ status = 200   -> page
    [] OTHER                                   -> Told(page, status = 200)

LEMMA ClickPages ==
  ASSUME PageFits(page), NEW c, c.kind \in Clicks, Fits(c.kind, page.at),
         NEW status, NEW p, p = ClickPage(c, status)
  PROVE  /\ PageFits(p) /\ SameCore(page, p) /\ p.doubt = page.doubt
         /\ \/ p.note \in {page.note, "failed"} \/ page.at \notin {"presence", "audit", "offline"}
            \/ page.at = "offline" /\ c.kind \in {"offlineEmit", "ack"} /\ status = 200
<1>1. page.at \notin {"presence", "audit"} /\ (page.at = "offline" => c.kind \in {"offlineEmit", "ack"})
  BY DEF Fits, Clicks, emitApi, SessionKind
<1>2. CASE p = Told(page, status = 200)
  <2>1. /\ IsPage(p) /\ p.note = (IF status = 200 THEN "ok" ELSE "failed")
        /\ \A f \in PageField \ {"note"} : p[f] = page[f]
    BY <1>2 DEF Told, PageFits, IsPage, PageField
  <2>2. PageFits(p) /\ SameCore(page, p) /\ p.doubt = page.doubt
    BY <2>1 DEF PageFits, PageField, SameCore, Notes
  <2> QED
    BY <1>1, <2>1, <2>2
<1>3. CASE p = page
  BY <1>3 DEF SameCore
<1>4. CASE \E card : p = [page EXCEPT !.card[card] = IF status = 200 THEN "ok" ELSE "failed"]
  <2>1. PICK card : p = [page EXCEPT !.card[card] = IF status = 200 THEN "ok" ELSE "failed"]
    BY <1>4
  <2>2. PICK cards : cards = [page.card EXCEPT ![card] = IF status = 200 THEN "ok" ELSE "failed"]
    OBVIOUS
  <2>3. cards \in [Card -> {"idle", "pending", "ok", "failed"}]
    BY <2>2 DEF PageFits
  <2>4. p = [page EXCEPT !.card = cards]
    BY <2>1, <2>2
  <2>5. IsPage(p) /\ p.card = cards /\ \A f \in PageField \ {"card"} : p[f] = page[f]
    BY <2>4 DEF PageFits, IsPage, PageField
  <2> QED
    BY <2>3, <2>5 DEF PageFits, PageField, SameCore
<1>5. CASE c.kind \in emitApi
  <2>1. p = setFeedback(page, c, status = 200)
    BY <1>5 DEF ClickPage, emitApi
  <2>2. PICK card : card = CHOOSE k \in DOMAIN Scope : Scope[k] = c.kind
    OBVIOUS
  <2>3. \/ p = Told(page, status = 200)
        \/ p = [page EXCEPT !.card[card] = IF status = 200 THEN "ok" ELSE "failed"]
    BY <2>1, <2>2 DEF setFeedback
  <2> QED
    BY <1>2, <1>4, <2>3
<1>6. CASE c.kind \notin emitApi
  <2>1. p = page \/ p = Told(page, status = 200)
    BY <1>6 DEF ClickPage
  <2> QED
    BY <1>2, <1>3, <2>1
<1> QED BY <1>5, <1>6

LEMMA ClickStep ==
  ASSUME WInv, NEW c \in Calls, NEW status, ClickAnswered(c, status)
  PROVE  WInv'
<1>1. PICK s : s = IF status = 200 THEN Again(c) ELSE <<>>
  OBVIOUS
<1>2. PICK p : p = ClickPage(c, status)
  OBVIOUS
<1>3. p = CASE c.kind \in emitApi                    -> setFeedback(page, c, status = 200)
            [] c.kind = "disconnect" /\ status = 200 -> page
            [] OTHER                                 -> Told(page, status = 200)
  BY <1>2 DEF ClickPage
<1>4. /\ c.kind \in Clicks /\ Ask(Without(c), s)
      /\ page' = [p EXCEPT !.doubt = \/ Overlapped(p, Without(c), s)
                                     \/ \E d \in Range(s) : d.kind = "peek" /\ d.arg # p.input]
      /\ UNCHANGED <<cookie, session, member, logins, unsure, stream, lastEvent, drops>>
  BY <1>1, <1>3 DEF ClickAnswered, Still
<1>5. IsABag(calls) /\ PageFits(page) /\ Fits(c.kind, page.at)
  BY DEF WInv, RestOK, PageOK, CallsOK, CallOf
<1>6. /\ s \in Seq(Range(s))
      /\ \A d \in Range(s) : Sendable(d) /\ d.kind # "feed"
      /\ c.kind \in {"offlineEmit", "ack"} /\ status = 200 => \E d \in Range(s) : d.kind = "peek"
  <2>1. CASE status = 200
    BY <1>1, <1>4, <1>5, <2>1, AgainCalls
  <2>2. CASE status # 200
    BY <1>1, <2>2, NoCall
  <2> QED BY <2>1, <2>2
<1>7. /\ PageFits(p) /\ SameCore(page, p) /\ p.doubt = page.doubt
      /\ \/ p.note \in {page.note, "failed"} \/ page.at \notin {"presence", "audit", "offline"}
         \/ page.at = "offline" /\ c.kind \in {"offlineEmit", "ack"} /\ status = 200
  BY <1>2, <1>4, <1>5, ClickPages
<1>8. PICK b \in BOOLEAN : b = (\/ Overlapped(p, Without(c), s)
                                \/ \E d \in Range(s) : d.kind = "peek" /\ d.arg # p.input)
  OBVIOUS
<1>9. page' = [p EXCEPT !.doubt = b]
  BY <1>4, <1>8
<1>10. PageFits(page') /\ SameCore(p, page') /\ page'.note = p.note /\ page'.doubt = b
  BY <1>7, <1>9, DoubtFits
<1>11. SameCore(page, page')
  BY <1>7, <1>10 DEF SameCore
<1>12. Flow({c}, s) /\ Stays({c})
  BY <1>4, <1>5, <1>6, FlowAnswered
<1>13. RestOK'
  BY <1>4, <1>12, RestKept DEF WInv, Flow, Still
<1>14. NoteSound(s)
  BY <1>6, <1>7, <1>10 DEF NoteSound
<1>15. ~page'.doubt => ~page.doubt /\ \A d \in Range(s) : d.kind \in {"feed", "peek"} => d.arg = page.input
  BY <1>6, <1>7, <1>8, <1>10 DEF Overlapped, SameCore
<1>16. Small(c) /\ c.kind \notin {"roster", "feed", "peek"}
  BY <1>4 DEF Small, Clicks, SessionKind, RoomKind, emitApi
<1>17. \A d \in Range(s) : Small(d) /\ CallOf(page', d) /\ (d.kind \in Reads => d.as = cookie)
  BY <1>6, <1>11, SendableFits DEF WInv, SameCore, Sendable
<1> QED
  BY <1>4, <1>10, <1>11, <1>12, <1>13, <1>14, <1>15, <1>16, <1>17, SmallStep

-----------------------------------------------------------------------------
(* Tickets, bearers and the chat's socket.                                 *)

\* No join in flight and nothing joined is of the socket the step leaves.
NewSocket ==
  /\ \A c \in Calls : c.kind = "join" => c.n # page'.live
  /\ page.joined # None => page.via # page'.live

LEMMA ChatSocket ==
  ASSUME ChatOK, IsABag(calls), NewSocket,
         page'.at = page.at, page'.joined = page.joined, page'.via = page.via,
         page'.doubt = page.doubt,
         NEW G, NEW s, Flow(G, s), Stays(G), \A c \in G : c.kind \notin RoomKind,
         \A c \in Range(s) : c.kind \notin RoomKind
  PROVE  ChatOK'
<1>1. SUFFICES ASSUME page.at = "chat", ~page.doubt
               PROVE  /\ Once(RoomKind)'
                      /\ \A c \in Calls' : c.kind = "join" => page'.joined = None /\ c.n # page'.live
                      /\ page'.joined # None => page'.via # page'.live
  BY DEF ChatOK
<1>2. Once(RoomKind) /\ \A c \in Calls : c.kind = "join" => page.joined = None
  BY <1>1 DEF ChatOK
<1>3. Once(RoomKind)'
  BY <1>2, OnceKept
<1>4. ASSUME NEW c \in Calls', c.kind = "join" PROVE c \in Calls
  BY <1>4 DEF Flow, RoomKind
<1> QED
  BY <1>2, <1>3, <1>4 DEF NewSocket

LEMMA SocketStep ==
  ASSUME WInv, RestOK', PageFits(page'), UNCHANGED <<cookie, session, unsure>>,
         \A f \in PageField \ {"reads", "live", "owner", "token"} : page'[f] = page[f],
         page.reads <= page'.reads, page.at = "presence" => page'.reads = page.reads,
         NEW G, NEW s, Flow(G, s), Stays(G), Range(s) = {},
         \A c \in G : c.kind \in {"ticket", "wsToken"},
         NewSocket \/ page.at # "chat"
  PROVE  WInv'
<1>1. PageOK'
  BY DEF PageOK, PageFits
<1>2. /\ page'.at = page.at /\ page'.input = page.input /\ page'.shown = page.shown
      /\ page'.side = page.side /\ page'.wiring = page.wiring /\ page'.joined = page.joined
      /\ page'.via = page.via /\ page'.doubt = page.doubt /\ page'.note = page.note
  BY DEF PageField
<1>3. page.reads \in Nat /\ page'.reads \in Nat
  BY DEF WInv, PageOK, PageFits
<1>4. \A c \in G : c.kind \notin SessionKind \cup RoomKind \cup {"roster", "feed", "peek"}
  BY DEF SessionKind, RoomKind
<1>5. CallsOK'
  BY <1>2, <1>3, CallsKept DEF WInv
<1>6. SessionOK'
  BY <1>4, SessionKept DEF WInv, RestOK
<1>7. DataOK'
  <2>1. Shows(page, page')
    BY <1>2 DEF Shows
  <2> QED
    BY <2>1, DataKept DEF WInv
<1>8. RosterOK'
  BY <1>2, <1>4, RosterKept DEF WInv
<1>9. ListOK'
  <2>1. NoteSound(s)
    BY <1>2 DEF NoteSound
  <2> QED
    BY <1>2, <1>4, <2>1, ListKept DEF WInv
<1>10. ChatOK'
  <2>1. CASE page.at # "chat"
    BY <1>2, <2>1 DEF ChatOK
  <2>2. CASE NewSocket
    BY <1>2, <1>4, <2>2, ChatSocket DEF WInv, RestOK
  <2> QED BY <2>1, <2>2
<1> QED
  BY <1>1, <1>5, <1>6, <1>7, <1>8, <1>9, <1>10 DEF WInv

\* A step of a page that reads no listing and is not the chat.
LEMMA ElsewhereStep ==
  ASSUME WInv, RestOK', PageFits(page'), UNCHANGED <<cookie, session, unsure>>,
         page.at \notin {"presence", "audit", "offline", "chat"},
         \A f \in PageField \ {"reads", "token", "note", "doubt"} : page'[f] = page[f],
         page.reads <= page'.reads,
         NEW G, NEW s, Flow(G, s), Stays(G),
         \A c \in G : c.kind \notin SessionKind,
         \A c \in Range(s) : CallOf(page', c) /\ c.kind \notin SessionKind \cup Reads
  PROVE  WInv'
<1>1. PageOK'
  BY DEF PageOK, PageFits
<1>2. /\ page'.at = page.at /\ page'.shown = page.shown
      /\ page'.side = page.side /\ page'.wiring = page.wiring
  BY DEF PageField
<1>3. page.reads \in Nat /\ page'.reads \in Nat
  BY DEF WInv, PageOK, PageFits
<1>4. CallsOK'
  BY <1>2, <1>3, CallsKept DEF WInv
<1>5. SessionOK'
  BY SessionKept DEF WInv, RestOK
<1>6. DataOK'
  <2>1. Shows(page, page')
    BY <1>2 DEF Shows
  <2>2. \A c \in G : ~(c.kind = "me" /\ c.arg = "login")
    BY DEF SessionKind
  <2> QED
    BY <2>1, <2>2, DataKept DEF WInv
<1>7. RosterOK' /\ ListOK' /\ ChatOK'
  BY <1>2 DEF RosterOK, ListOK, ChatOK
<1> QED
  BY <1>1, <1>4, <1>5, <1>6, <1>7 DEF WInv

LEMMA TicketStep ==
  ASSUME WInv, NEW c \in Calls, c.kind = "ticket", NEW status, TokenAnswered(c, status)
  PROVE  WInv'
<1>1. /\ setTicket(c, status = 200) /\ Ask(Without(c), <<>>)
      /\ UNCHANGED <<cookie, session, lastEvent, logins, drops, unsure>>
  BY DEF TokenAnswered
<1>2. /\ IsABag(calls) /\ PageFits(page) /\ page.at = "ticket" /\ c.as \in User \cup {None}
      /\ stream \in StreamType
  BY DEF WInv, RestOK, PageOK, CallsOK, CallOf, Fits, SessionKind, emitApi
<1>3. PICK s : s = <<>>
  OBVIOUS
<1>4. s \in Seq({}) /\ Range(s) = {}
  BY <1>3, NoCall
<1>5. Flow({c}, s) /\ Stays({c})
  BY <1>1, <1>2, <1>3, <1>4, FlowAnswered
<1>6. PICK q : q = page'
  OBVIOUS
<1>7. CASE status = 200
  <2>1. /\ page.reads < MaxReads
        /\ page' = [page EXCEPT !.token = c.as, !.reads = @ + 1, !.note = Blank]
        /\ stream' = [stream EXCEPT !["panel"] = connect(c.as)] /\ UNCHANGED member
    BY <1>1, <1>7 DEF setTicket
  <2>2. /\ IsPage(q) /\ q.token = c.as /\ q.reads = page.reads + 1 /\ q.note = Blank
        /\ \A f \in PageField \ {"token", "reads", "note"} : q[f] = page[f]
    BY <1>2, <1>6, <2>1 DEF PageFits, IsPage, PageField
  <2>3. PageFits(q) /\ page.reads <= q.reads
    <3>1. q.reads \in 0..MaxReads /\ 0..page.reads \subseteq 0..q.reads /\ page.reads <= q.reads
      BY <1>2, <2>1, <2>2, WebAssumption DEF PageFits
    <3> QED
      BY <1>2, <2>2, <3>1 DEF PageFits, PageField, Notes
  <2>4. connect(c.as) \in StreamRec
    BY <1>2, StreamRecs
  <2>5. stream' \in StreamType
    BY <1>2, <2>1, <2>4, StreamSet DEF Hook
  <2>6. RestOK'
    BY <1>1, <1>5, <2>1, <2>5 DEF WInv, RestOK, StreamType, Flow
  <2> QED
    BY <1>1, <1>2, <1>4, <1>5, <1>6, <2>2, <2>3, <2>6, ElsewhereStep DEF SessionKind
<1>8. CASE status # 200
  <2>1. page' = Failed(page) /\ UNCHANGED <<stream, member>>
    BY <1>1, <1>8 DEF setTicket
  <2>2. IsPage(q) /\ q.note = "failed" /\ \A f \in PageField \ {"note"} : q[f] = page[f]
    BY <1>2, <1>6, <2>1 DEF Failed, PageFits, IsPage, PageField
  <2>3. PageFits(q) /\ q.reads = page.reads
    BY <1>2, <2>2 DEF PageFits, PageField, Notes
  <2>4. RestOK'
    BY <1>1, <1>5, <2>1 DEF WInv, RestOK, StreamType, Flow
  <2>5. page.reads \in Nat
    BY <1>2 DEF PageFits
  <2> QED
    BY <1>1, <1>2, <1>4, <1>5, <1>6, <2>2, <2>3, <2>4, <2>5, ElsewhereStep DEF SessionKind
<1> QED BY <1>7, <1>8

LEMMA BearerStep ==
  ASSUME WInv, NEW c \in Calls, c.kind = "wsToken", NEW status, TokenAnswered(c, status)
  PROVE  WInv'
<1>1. /\ setWsToken(c, status = 200) /\ Ask(Without(c), <<>>)
      /\ UNCHANGED <<cookie, session, lastEvent, logins, drops, unsure>>
  BY DEF TokenAnswered
<1>2. IsABag(calls) /\ PageFits(page) /\ c.as \in User \cup {None}
  BY DEF WInv, RestOK, PageOK, CallsOK, CallOf
<1>3. PICK s : s = <<>>
  OBVIOUS
<1>4. s \in Seq({}) /\ Range(s) = {}
  BY <1>3, NoCall
<1>5. Flow({c}, s) /\ Stays({c})
  BY <1>1, <1>2, <1>3, <1>4, FlowAnswered
<1>6. member' \in {member, {}} /\ stream' = stream
  BY <1>1 DEF setWsToken
<1>7. RestOK'
  BY <1>1, <1>5, <1>6 DEF WInv, RestOK, StreamType, Flow
<1>8. PICK q : q = page'
  OBVIOUS
<1>9. CASE status = 200
  <2>1. page' = [SocketGone(page) EXCEPT !.token = c.as]
    BY <1>1, <1>9 DEF setWsToken
  <2>2. /\ IsPage(q) /\ q.token = c.as /\ q.live = 0
        /\ \A f \in PageField \ {"token", "live", "owner"} : q[f] = page[f]
    BY <1>2, <1>8, <2>1 DEF SocketGone, PageFits, IsPage, PageField
  <2>3. PageFits(q)
    BY <1>2, <2>2 DEF PageFits, PageField
  <2>4. page.reads = page'.reads /\ page.reads \in Nat
    BY <1>2, <1>8, <2>2 DEF PageFits, PageField
  <2>5. NewSocket
    <3>1. page'.live = 0 /\ (page.joined # None => page.via >= 1)
      BY <1>2, <1>8, <2>2 DEF PageFits
    <3>2. \A d \in Calls : d.kind = "join" => d.n \in 1..page.reads
      BY DEF WInv, CallsOK, CallOf, RoomKind
    <3> QED
      BY <3>1, <3>2, <2>4 DEF NewSocket
  <2>6. \A f \in PageField \ {"reads", "live", "owner", "token"} : page'[f] = page[f]
    BY <1>8, <2>2
  <2> QED
    BY <1>1, <1>4, <1>5, <1>7, <1>8, <2>3, <2>4, <2>5, <2>6, SocketStep
<1>10. CASE status # 200
  <2>1. page' = [page EXCEPT !.token = None] /\ member' = member
    BY <1>1, <1>10 DEF setWsToken
  <2>2. IsPage(q) /\ q.token = None /\ \A f \in PageField \ {"token"} : q[f] = page[f]
    BY <1>2, <1>8, <2>1 DEF PageFits, IsPage, PageField
  <2>3. PageFits(q) /\ SameCore(page, q) /\ q.doubt = page.doubt /\ q.note = page.note
    BY <1>2, <2>2 DEF PageFits, PageField, SameCore
  <2>4. PageFits(page') /\ SameCore(page, page') /\ page'.doubt = page.doubt
    BY <1>8, <2>3
  <2>5. NoteSound(s)
    BY <1>8, <2>3 DEF NoteSound
  <2>6. \A d \in {c} : Small(d) /\ d.kind \notin {"roster", "feed", "peek"}
    BY DEF Small, SessionKind, RoomKind
  <2>7. UNCHANGED <<cookie, session, unsure, member>>
    BY <1>1, <2>1
  <2> QED
    BY <1>4, <1>5, <1>7, <2>4, <2>5, <2>6, <2>7, SmallStep
<1> QED BY <1>9, <1>10

LEMMA EmitBothStep ==
  ASSUME WInv, emitBoth
  PROVE  WInv'
<1>1. PICK p : p = [page EXCEPT !.reads = @ + 1]
  OBVIOUS
<1>2. PICK d : d = Call(cookie, "emitUser", session.traits, page.reads + 1)
  OBVIOUS
<1>3. PICK c : c = [d EXCEPT !.event = "custom"]
  OBVIOUS
<1>4. /\ page.at = "both" /\ page.reads < MaxReads /\ Ask(calls, <<c>>)
      /\ page' = [p EXCEPT !.doubt = Overlapped(p, calls, <<c>>)]
      /\ UNCHANGED <<cookie, session, member, logins, unsure, stream, lastEvent, drops>>
  BY <1>1, <1>2, <1>3 DEF emitBoth, Send, Still
<1>5. IsABag(calls) /\ PageFits(page)
  BY DEF WInv, RestOK, PageOK
<1>6. /\ IsPage(p) /\ p.reads = page.reads + 1 /\ \A f \in PageField \ {"reads"} : p[f] = page[f]
  BY <1>1, <1>5 DEF PageFits, IsPage, PageField
<1>7. PageFits(p) /\ page.reads <= p.reads
  <2>1. p.reads \in 0..MaxReads /\ 0..page.reads \subseteq 0..p.reads /\ page.reads <= p.reads
    BY <1>4, <1>5, <1>6, WebAssumption DEF PageFits
  <2> QED
    BY <1>5, <1>6, <2>1 DEF PageFits, PageField
<1>8. Sendable(d) /\ d.kind = "emitUser"
  BY <1>2, <1>4, CallSends DEF Fits, emitApi, SessionKind, RoomKind
<1>9. IsCall(c) /\ \A f \in CallField \ {"event"} : c[f] = d[f]
  BY <1>3, <1>8 DEF Sendable, IsCall, CallField
<1>10. Sendable(c) /\ c.kind = "emitUser"
  BY <1>8, <1>9 DEF Sendable, Small, CallField
<1>11. PICK b \in BOOLEAN : b = Overlapped(p, calls, <<c>>)
  BY DEF Overlapped
<1>12. PICK q : q = page'
  OBVIOUS
<1>13. q = [p EXCEPT !.doubt = b]
  BY <1>4, <1>11, <1>12
<1>14. PageFits(q) /\ \A f \in PageField \ {"doubt"} : q[f] = p[f]
  <2>1. \A f \in PageField \ {"doubt"} : q[f] = p[f]
    BY <1>7, <1>13 DEF PageFits, IsPage, PageField
  <2> QED
    BY <1>7, <1>13, <2>1, DoubtFits
<1>15. PICK s : s = <<c>>
  OBVIOUS
<1>16. s \in Seq({c}) /\ Range(s) = {c}
  BY <1>15, OneCall
<1>17. Flow({}, s) /\ Stays({})
  BY <1>4, <1>5, <1>15, <1>16, FlowSent
<1>18. RestOK'
  BY <1>4, <1>17 DEF WInv, RestOK, StreamType, Flow
<1>19. /\ PageFits(page') /\ page'.at = page.at /\ page.reads <= page'.reads
       /\ \A f \in PageField \ {"reads", "token", "note", "doubt"} : page'[f] = page[f]
  BY <1>6, <1>7, <1>12, <1>14 DEF PageField
<1>20. \A e \in Range(s) : CallOf(page', e) /\ e.kind \notin SessionKind \cup Reads
  BY <1>10, <1>16, <1>19, SendableFits DEF WInv, SessionKind, Reads
<1> QED
  BY <1>4, <1>17, <1>18, <1>19, <1>20, ElsewhereStep

LEMMA SocketOpensStep ==
  ASSUME WInv, SocketOpens
  PROVE  WInv'
<1>1. /\ page.at = "chat" /\ page.live = 0 /\ page.reads < MaxReads
      /\ page' = [page EXCEPT !.reads = @ + 1, !.live = page.reads + 1, !.owner = Holder]
      /\ UNCHANGED <<cookie, session, member, logins, unsure, calls, stream, lastEvent, drops>>
  BY DEF SocketOpens, Set, Still
<1>2. IsABag(calls) /\ PageFits(page)
  BY DEF WInv, RestOK, PageOK
<1>3. PICK q : q = page'
  OBVIOUS
<1>4. /\ IsPage(q) /\ q.reads = page.reads + 1 /\ q.live = page.reads + 1
      /\ \A f \in PageField \ {"reads", "live", "owner"} : q[f] = page[f]
  BY <1>1, <1>2, <1>3 DEF PageFits, IsPage, PageField
<1>5. /\ q.reads \in 0..MaxReads /\ q.live \in 0..q.reads /\ page.via \in 0..q.reads /\ page.reads <= q.reads
      /\ page.via # q.live
  BY <1>1, <1>2, <1>4, WebAssumption DEF PageFits
<1>6. PageFits(q)
  BY <1>2, <1>4, <1>5 DEF PageFits, PageField
<1>7. NewSocket
  <2>1. \A d \in Calls : d.kind = "join" => d.n \in 1..page.reads
    BY DEF WInv, CallsOK, CallOf, RoomKind
  <2>2. page'.live = page.reads + 1 /\ page.reads \in Nat
    BY <1>2, <1>3, <1>4 DEF PageFits
  <2> QED
    BY <1>3, <1>5, <2>1, <2>2 DEF NewSocket
<1>8. PICK s : s = <<>>
  OBVIOUS
<1>9. Flow({}, s) /\ Stays({}) /\ Range(s) = {}
  BY <1>1, <1>2, <1>8, FlowNone, NoCall
<1>10. RestOK'
  BY <1>1 DEF WInv, RestOK, StreamType
<1>11. \A f \in PageField \ {"reads", "live", "owner", "token"} : page'[f] = page[f]
  BY <1>3, <1>4
<1> QED
  BY <1>1, <1>3, <1>5, <1>6, <1>7, <1>9, <1>10, <1>11, SocketStep

LEMMA SocketBreaksStep ==
  ASSUME WInv, SocketBreaks
  PROVE  WInv'
<1>1. /\ drops < MaxDrops /\ drops' = drops + 1 /\ page' = SocketGone(page) /\ member' = {}
      /\ UNCHANGED <<cookie, session, logins, unsure, calls, stream, lastEvent>>
  BY DEF SocketBreaks
<1>2. IsABag(calls) /\ PageFits(page) /\ drops \in 0..MaxDrops
  BY DEF WInv, RestOK, PageOK
<1>3. PICK q : q = page'
  OBVIOUS
<1>4. IsPage(q) /\ q.live = 0 /\ \A f \in PageField \ {"live", "owner"} : q[f] = page[f]
  BY <1>1, <1>2, <1>3 DEF SocketGone, PageFits, IsPage, PageField
<1>5. PageFits(q) /\ q.reads = page.reads /\ page.reads \in Nat
  BY <1>2, <1>4 DEF PageFits, PageField
<1>6. NewSocket
  <2>1. \A d \in Calls : d.kind = "join" => d.n \in 1..page.reads
    BY DEF WInv, CallsOK, CallOf, RoomKind
  <2>2. page'.live = 0 /\ (page.joined # None => page.via >= 1)
    BY <1>2, <1>3, <1>4 DEF PageFits
  <2> QED
    BY <1>5, <2>1, <2>2 DEF NewSocket
<1>7. PICK s : s = <<>>
  OBVIOUS
<1>8. Flow({}, s) /\ Stays({}) /\ Range(s) = {}
  BY <1>1, <1>2, <1>7, FlowNone, NoCall
<1>9. drops' \in 0..MaxDrops
  BY <1>1, <1>2, WebAssumption
<1>10. RestOK'
  BY <1>1, <1>9 DEF WInv, RestOK, StreamType
<1>11. \A f \in PageField \ {"reads", "live", "owner", "token"} : page'[f] = page[f]
  BY <1>3, <1>4
<1> QED
  BY <1>1, <1>3, <1>5, <1>6, <1>8, <1>10, <1>11, SocketStep

-----------------------------------------------------------------------------
(* The chat's rooms.                                                       *)

LEMMA ChatStep ==
  ASSUME WInv, RestOK', ChatOK', PageFits(page'), UNCHANGED <<cookie, session, unsure>>,
         page.at = "chat", page'.at = "chat", page'.reads = page.reads,
         page'.shown = page.shown, page'.side = page.side, page'.wiring = page.wiring,
         NEW G, NEW s, Flow(G, s), \A c \in G : c.kind \in RoomKind,
         \A c \in Range(s) : CallOf(page', c) /\ c.kind \in RoomKind
  PROVE  WInv'
<1>1. PageOK'
  BY DEF PageOK, PageFits
<1>2. page.reads \in Nat /\ page'.reads \in Nat /\ page.reads <= page'.reads
  BY DEF WInv, PageOK, PageFits
<1>3. CallsOK'
  BY <1>2, CallsKept DEF WInv
<1>4. SessionOK'
  BY SessionKept DEF WInv, RestOK, SessionKind, RoomKind
<1>5. DataOK'
  <2>1. Shows(page, page')
    BY DEF Shows
  <2>2. \A c \in G : ~(c.kind = "me" /\ c.arg = "login")
    BY DEF RoomKind
  <2>3. \A c \in Range(s) : c.kind \in Reads => c.as = cookie'
    BY DEF Reads, RoomKind
  <2> QED
    BY <2>1, <2>2, <2>3, DataKept DEF WInv
<1>6. RosterOK' /\ ListOK'
  BY DEF RosterOK, ListOK
<1> QED
  BY <1>1, <1>3, <1>4, <1>5, <1>6 DEF WInv

LEMMA RoomSends ==
  ASSUME WInv, page.at = "chat", NEW kind \in RoomKind, NEW incident \in Incident \cup {Blank},
         page.reads # 0,
         kind = "join" => page.joined = None,
         Send(page, Call(cookie, kind, incident, page.reads))
  PROVE  WInv'
<1>1. PICK c : c = Call(cookie, kind, incident, page.reads)
  OBVIOUS
<1>2. /\ Ask(calls, <<c>>) /\ page' = [page EXCEPT !.doubt = Overlapped(page, calls, <<c>>)]
      /\ UNCHANGED <<cookie, session, member, logins, unsure, stream, lastEvent, drops>>
  BY <1>1 DEF Send, Still
<1>3. IsABag(calls) /\ PageFits(page) /\ cookie \in User \cup {None}
  BY DEF WInv, RestOK, PageOK
<1>4. PICK b \in BOOLEAN : b = Overlapped(page, calls, <<c>>)
  BY DEF Overlapped
<1>5. PageFits(page') /\ SameCore(page, page') /\ page'.doubt = b
  BY <1>2, <1>3, <1>4, DoubtFits
<1>6. /\ IsCall(c) /\ c.as = cookie /\ c.kind = kind /\ c.arg = incident /\ c.n = page.reads
      /\ c.served = 0
  BY <1>1, CallFields
<1>7. page.reads \in 1..page.reads
  BY <1>3 DEF PageFits
<1>8. page'.at = page.at /\ page'.reads = page.reads /\ page'.joined = page.joined
      /\ page'.via = page.via /\ page'.live = page.live
  BY <1>5 DEF SameCore
<1>9. CallOf(page', c)
  BY <1>3, <1>6, <1>7, <1>8 DEF CallOf, Fits, RoomKind, SessionKind
<1>10. PICK s : s = <<c>>
  OBVIOUS
<1>11. s \in Seq({c}) /\ Range(s) = {c}
  BY <1>10, OneCall
<1>12. Flow({}, s) /\ Stays({})
  BY <1>2, <1>3, <1>10, <1>11, FlowSent
<1>13. RestOK'
  BY <1>2, <1>12 DEF WInv, RestOK, StreamType, Flow
<1>14. ChatOK'
  <2>1. SUFFICES ASSUME ~page'.doubt
                 PROVE  /\ Once(RoomKind)'
                        /\ \A d \in Calls' : d.kind = "join" => page.joined = None /\ d.served # 200
                        /\ page.joined # None /\ page.via = page.live => page.joined \in member
    BY <1>2, <1>8 DEF ChatOK
  <2>2. ~page.doubt /\ \A d \in Calls : d.kind \notin RoomKind
    <3>1. ~Overlapped(page, calls, s)
      BY <1>4, <1>5, <1>10, <2>1
    <3>2. c \in Range(s) /\ c.kind \in RoomKind
      BY <1>6, <1>11
    <3> QED
      BY <3>1, <3>2 DEF Overlapped, Calls, RoomKind
  <2>3. c \notin Calls
    BY <1>6, <2>2
  <2>4. Once(RoomKind)' /\ \A d \in Calls' : d.kind \in RoomKind => d = c
    BY <1>10, <1>12, <2>2, <2>3, OnceSent
  <2>5. page.joined # None /\ page.via = page.live => page.joined \in member
    BY <2>2 DEF WInv, ChatOK, RoomKind
  <2> QED
    BY <1>6, <2>4, <2>5 DEF RoomKind
<1> QED
  BY <1>2, <1>5, <1>6, <1>8, <1>9, <1>11, <1>12, <1>13, <1>14, ChatStep DEF SameCore

LEMMA RoomControlStep ==
  ASSUME WInv, RoomControls
  PROVE  WInv'
<1>1. PICK incident \in Incident \cup {Blank} :
        \/ JoinLeaveControl = "join"  /\ joinRoom(incident)
        \/ JoinLeaveControl = "leave" /\ leaveRoom(incident)
  BY DEF RoomControls
<1>2. page.at = "chat" /\ page.reads # 0
  BY <1>1 DEF RoomControls, JoinLeaveControl, findConnectionId
<1>3. JoinLeaveControl = "join" => page.joined = None
  BY DEF JoinLeaveControl
<1>4. CASE JoinLeaveControl = "join"  /\ joinRoom(incident)
  BY <1>2, <1>3, <1>4, RoomSends DEF joinRoom, findConnectionId, RoomKind
<1>5. CASE JoinLeaveControl = "leave" /\ leaveRoom(incident)
  BY <1>2, <1>5, RoomSends DEF leaveRoom, findConnectionId, RoomKind
<1> QED BY <1>1, <1>4, <1>5

LEMMA FlowServed ==
  ASSUME IsABag(calls), NEW c \in Calls, NEW d, calls' = Without(c) (+) One(d), NEW s, s = <<d>>
  PROVE  Flow({c}, s) /\ Stays({c})
<1>1. PICK old : old = Without(c)
  OBVIOUS
<1>2. /\ IsABag(old)
      /\ BagToSet(old) \subseteq BagToSet(calls)
      /\ \A e \in BagToSet(calls) : e # c => e \in BagToSet(old)
      /\ \A e \in BagToSet(old) : old[e] <= calls[e]
      /\ calls[c] = 1 => c \notin BagToSet(old)
  BY <1>1, WithoutSet DEF Calls
<1>3. One(d) = [e \in {d} |-> 1]
  BY DEF One, SetToBag
<1>4. PICK b : b = calls'
  OBVIOUS
<1>5. b = old (+) [e \in {d} |-> 1]
  BY <1>1, <1>3, <1>4
<1>6. /\ IsABag(b) /\ BagToSet(b) = BagToSet(old) \cup {d}
      /\ \A e \in BagToSet(old) \ {d} : b[e] = old[e]
      /\ d \notin BagToSet(old) => b[d] = 1
  BY <1>2, <1>5 DEF IsABag, BagToSet, (+)
<1>7. Calls' = BagToSet(b) /\ Calls = BagToSet(calls)
  BY <1>4 DEF Calls
<1>8. Range(s) = {d} /\ Len(s) = 1
  BY OneCall
<1> QED
  BY <1>2, <1>4, <1>6, <1>7, <1>8 DEF Flow, Stays

LEMMA ServesStep ==
  ASSUME WInv, NEW c \in Calls, RoomsServes(c)
  PROVE  WInv'
<1>1. PICK d : d = [c EXCEPT !.served = assertOwned(c)]
  OBVIOUS
<1>2. /\ c.kind \in RoomKind /\ c.served = 0 /\ c.as # None /\ c.arg # Blank
      /\ calls' = Without(c) (+) One(d)
      /\ member' = IF assertOwned(c) # 200 THEN member
                   ELSE IF c.kind = "join" THEN member \cup {c.arg} ELSE member \ {c.arg}
      /\ UNCHANGED <<cookie, session, page, stream, lastEvent, logins, drops, unsure>>
  BY <1>1 DEF RoomsServes, roomsApi, RoomKind, roomMembershipSchema
<1>3. /\ IsABag(calls) /\ PageFits(page) /\ IsCall(c) /\ CallOf(page, c) /\ page.at = "chat"
  BY <1>2 DEF WInv, RestOK, PageOK, CallsOK, CallOf, Fits, SessionKind, RoomKind, emitApi
<1>4. assertOwned(c) \in {200, 403, 404} /\ (assertOwned(c) = 200 => c.n = page.live)
  BY DEF assertOwned
<1>5. IsCall(d) /\ d.served = assertOwned(c) /\ \A f \in CallField \ {"served"} : d[f] = c[f]
  BY <1>1, <1>3 DEF IsCall, CallField
<1>6. d.kind = c.kind /\ d.arg = c.arg /\ d.n = c.n /\ d.as = c.as
  BY <1>5 DEF CallField
<1>7. CallOf(page, d)
  BY <1>2, <1>3, <1>4, <1>5, <1>6 DEF CallOf
<1>8. CallOf(page', d) /\ PageFits(page')
  BY <1>2, <1>3, <1>7
<1>9. PICK s : s = <<d>>
  OBVIOUS
<1>10. Range(s) = {d}
  BY <1>9, OneCall
<1>11. Flow({c}, s) /\ Stays({c})
  BY <1>2, <1>3, <1>9, FlowServed
<1>12. member' \subseteq Incident
  BY <1>2, <1>3 DEF WInv, RestOK, CallOf
<1>13. RestOK'
  BY <1>2, <1>11, <1>12 DEF WInv, RestOK, StreamType, Flow
<1>14. ChatOK'
  <2>1. SUFFICES ASSUME ~page.doubt
                 PROVE  /\ Once(RoomKind)'
                        /\ \A e \in Calls' : e.kind = "join" =>
                             page.joined = None /\ (e.served = 200 /\ e.n = page.live => e.arg \in member')
                        /\ /\ page.joined # None /\ page.via = page.live
                           /\ \A e \in Calls' : ~(e.kind = "leave" /\ e.served = 200)
                           => page.joined \in member'
    BY <1>2 DEF ChatOK
  <2>2. \A e \in Calls : e.kind \in RoomKind => e = c /\ calls[e] = 1
    BY <1>2, <1>3, <2>1 DEF WInv, ChatOK, Once
  <2>3. d \notin Calls
    BY <1>2, <1>4, <1>5, <1>6, <2>2
  <2>4. Once(RoomKind)' /\ \A e \in Calls' : e.kind \in RoomKind => e = d
    BY <1>9, <1>11, <2>2, <2>3, OnceSent
  <2>5. d \in Calls'
    BY <1>10, <1>11 DEF Flow
  <2>6. CASE c.kind = "join"
    <3>1. page.joined = None
      BY <1>3, <2>1, <2>6 DEF WInv, ChatOK
    <3>2. d.served = 200 => d.arg \in member'
      BY <1>2, <1>5, <1>6, <2>6
    <3> QED
      BY <2>4, <3>1, <3>2 DEF RoomKind
  <2>7. CASE c.kind = "leave"
    <3>1. page.joined # None /\ page.via = page.live => page.joined \in member
      BY <1>2, <1>3, <2>1, <2>2, <2>7 DEF WInv, ChatOK, RoomKind
    <3>2. assertOwned(c) # 200 => member' = member
      BY <1>2
    <3>3. assertOwned(c) = 200 => d.kind = "leave" /\ d.served = 200
      BY <1>5, <1>6, <2>7
    <3>4. \A e \in Calls' : e.kind # "join"
      BY <1>6, <2>4, <2>7 DEF RoomKind
    <3> QED
      BY <2>4, <2>5, <3>1, <3>2, <3>3, <3>4
  <2> QED
    BY <1>2, <2>6, <2>7 DEF RoomKind
<1> QED
  BY <1>2, <1>3, <1>6, <1>8, <1>10, <1>11, <1>13, <1>14, ChatStep

LEMMA RoomStatuses ==
  ASSUME NEW c, c.kind \in RoomKind
  PROVE  Statuses(c) = IF c.as = None THEN {401}
                       ELSE IF c.arg = Blank THEN {400} ELSE {c.served} \ {0}
BY DEF Statuses, authApi, domainApi, emitApi, auditApi, connectionsApi, evictionLabApi, replayLabApi,
       presenceApi, offlineLabApi, reauthLabApi, roomsApi, RoomKind, RoomsController, SessionGuard,
       ZodValidationPipe, roomMembershipSchema

LEMMA RoomAnswer ==
  ASSUME WInv, NEW c \in Calls, NEW status, status \in request(c), RoomAnswered(c, status)
  PROVE  WInv'
<1>1. /\ c.kind \in RoomKind /\ Ask(Without(c), <<>>)
      /\ UNCHANGED <<cookie, session, member, logins, unsure, stream, lastEvent, drops>>
  BY DEF RoomAnswered, Still, RoomKind
<1>2. /\ IsABag(calls) /\ PageFits(page) /\ CallOf(page, c) /\ page.at = "chat"
  BY <1>1 DEF WInv, RestOK, PageOK, CallsOK, CallOf, Fits, SessionKind, RoomKind, emitApi
<1>3. PICK b \in BOOLEAN : b = (page.doubt \/ status = 0)
  OBVIOUS
<1>4. PICK p : p = [page EXCEPT !.doubt = b]
  OBVIOUS
<1>5. PageFits(p) /\ SameCore(page, p) /\ p.note = page.note /\ p.doubt = b
  BY <1>2, <1>4, DoubtFits
<1>6. page' = IF c.kind = "join" THEN joined(p, c, status = 200) ELSE left(p, status = 200)
  BY <1>3, <1>4 DEF RoomAnswered
<1>7. PICK q : q = page'
  OBVIOUS
<1>8. c.n \in 1..page.reads /\ page.reads \in Nat
  BY <1>1, <1>2 DEF CallOf, PageFits
<1>9. /\ IsPage(q) /\ \A f \in PageField \ {"joined", "via", "note"} : q[f] = p[f]
      /\ q.note \in {p.note, Blank, "failed"}
      /\ \/ q.joined = p.joined /\ q.via = p.via
         \/ c.kind = "join" /\ status = 200 /\ q.joined = c.arg /\ q.via = c.n
         \/ c.kind # "join" /\ status = 200 /\ q.joined = None /\ q.via = p.via
      /\ status = 200 => \/ c.kind = "join" /\ q.joined = c.arg /\ q.via = c.n
                         \/ c.kind # "join" /\ q.joined = None
  <2>1. IsPage(p)
    BY <1>5 DEF PageFits
  <2>2. CASE c.kind = "join" /\ status = 200
    BY <1>6, <1>7, <2>1, <2>2 DEF joined, IsPage, PageField
  <2>3. CASE c.kind = "join" /\ status # 200
    BY <1>6, <1>7, <2>1, <2>3 DEF joined, IsPage, PageField
  <2>4. CASE c.kind # "join" /\ status = 200
    BY <1>6, <1>7, <2>1, <2>4 DEF left, IsPage, PageField
  <2>5. CASE c.kind # "join" /\ status # 200
    BY <1>6, <1>7, <2>1, <2>5 DEF left, IsPage, PageField
  <2> QED BY <2>2, <2>3, <2>4, <2>5
<1>10. /\ q.at = "chat" /\ q.reads = page.reads /\ q.shown = page.shown /\ q.side = page.side
       /\ q.wiring = page.wiring /\ q.live = page.live /\ q.doubt = b
       /\ p.joined = page.joined /\ p.via = page.via
  BY <1>2, <1>5, <1>9 DEF SameCore, PageField
<1>11. PageFits(q)
  <2>1. q.via \in 0..q.reads /\ (q.joined # None => q.via >= 1)
    BY <1>2, <1>8, <1>9, <1>10 DEF PageFits
  <2> QED
    BY <1>5, <1>9, <1>10, <2>1 DEF PageFits, PageField, Notes
<1>12. PICK s : s = <<>>
  OBVIOUS
<1>13. s \in Seq({}) /\ Range(s) = {}
  BY <1>12, NoCall
<1>14. Flow({c}, s) /\ Stays({c})
  BY <1>1, <1>2, <1>12, <1>13, FlowAnswered
<1>15. RestOK'
  BY <1>1, <1>14 DEF WInv, RestOK, StreamType, Flow
<1>16. ChatOK'
  <2>1. SUFFICES ASSUME ~b
                 PROVE  /\ \A d \in Calls' : d.kind \notin RoomKind
                        /\ q.joined # None /\ q.via = page.live => q.joined \in member
    BY <1>1, <1>7, <1>10 DEF ChatOK, Once, RoomKind
  <2>2. ~page.doubt /\ status # 0
    BY <1>3, <2>1
  <2>3. /\ Once(RoomKind)
        /\ c.kind = "join" => page.joined = None /\ (c.served = 200 /\ c.n = page.live => c.arg \in member)
        /\ /\ page.joined # None /\ page.via = page.live
           /\ \A d \in Calls : ~(d.kind = "leave" /\ d.served = 200)
           => page.joined \in member
    BY <1>2, <2>2 DEF WInv, ChatOK
  <2>4. \A d \in Calls' : d.kind \notin RoomKind
    BY <1>1, <1>13, <1>14, <2>3, NoneLeft
  <2>5. \A d \in Calls : d.kind \in RoomKind => d = c
    BY <1>1, <2>3 DEF Once
  <2>6. status = 200 <=> c.served = 200
    <3>1. status \in IF c.as = None THEN {401} ELSE IF c.arg = Blank THEN {400} ELSE {c.served} \ {0}
      BY <1>1, <2>2, RoomStatuses DEF request
    <3>2. c.as = None \/ c.arg = Blank => c.served = 0
      BY <1>1, <1>2 DEF CallOf
    <3> QED
      BY <3>1, <3>2
  <2>7. CASE c.kind = "join"
    BY <1>9, <1>10, <2>3, <2>4, <2>6, <2>7
  <2>8. CASE c.kind # "join"
    <3>1. CASE status = 200
      BY <1>9, <2>4, <2>8, <3>1
    <3>2. CASE status # 200
      <4>1. \A d \in Calls : ~(d.kind = "leave" /\ d.served = 200)
        BY <2>5, <2>6, <3>2 DEF RoomKind
      <4> QED
        BY <1>9, <1>10, <2>3, <2>4, <3>2, <4>1
    <3> QED BY <3>1, <3>2
  <2> QED BY <2>7, <2>8
<1> QED
  BY <1>1, <1>2, <1>7, <1>10, <1>11, <1>13, <1>14, <1>15, <1>16, ChatStep

-----------------------------------------------------------------------------
(* The invariant.                                                          *)

LEMMA FirstCalls ==
  ASSUME NEW S, NEW l \in Seq(S), NEW m, m \notin Range(l), NEW s, s = <<m>> \o l,
         NEW b, b = SeqBag(s)
  PROVE  IsABag(b) /\ BagToSet(b) = {m} \cup Range(l) /\ b[m] = 1
<1>1. s \in Seq(S \cup {m}) /\ Len(s) = Len(l) + 1 /\ s[1] = m
      /\ \A i \in 1..Len(l) : s[i + 1] = l[i]
  OBVIOUS
<1>2. ASSUME NEW i \in 2..Len(s) PROVE i - 1 \in 1..Len(l) /\ s[i] = l[i - 1]
  <2>1. PICK k : k = i - 1
    OBVIOUS
  <2>2. k \in 1..Len(l) /\ i = k + 1
    BY <1>1, <2>1
  <2> QED
    BY <1>1, <2>1, <2>2
<1>3. DOMAIN s = 1..Len(s) /\ DOMAIN l = 1..Len(l) /\ Len(l) \in Nat
  BY <1>1
<1>4. Range(s) = {m} \cup Range(l)
  <2>1. ASSUME NEW i \in DOMAIN s PROVE s[i] \in {m} \cup Range(l)
    <3>1. CASE i = 1
      BY <1>1, <3>1
    <3>2. CASE i # 1
      <4>1. i - 1 \in DOMAIN l /\ s[i] = l[i - 1]
        BY <1>2, <1>3, <3>2
      <4> QED
        BY <4>1 DEF Range
    <3> QED
      BY <3>1, <3>2
  <2>2. ASSUME NEW i \in DOMAIN l PROVE l[i] \in Range(s)
    <3>1. i + 1 \in DOMAIN s /\ s[i + 1] = l[i]
      BY <1>1, <1>3, <2>2
    <3> QED
      BY <3>1 DEF Range
  <2>3. m \in Range(s)
    BY <1>1, <1>3 DEF Range
  <2>4. Range(s) \subseteq {m} \cup Range(l)
    BY <2>1 DEF Range
  <2>5. {m} \cup Range(l) \subseteq Range(s)
    <3>1. Range(l) \subseteq Range(s)
      BY <2>2 DEF Range
    <3> QED
      BY <2>3, <3>1
  <2> QED
    BY <2>4, <2>5
<1>5. b \in [Range(s) -> {n \in Nat : n > 0}]
  BY <1>1, CopiesPositive
<1>6. {i \in DOMAIN s : s[i] = m} = {1}
  <2>1. \A i \in 2..Len(s) : s[i] # m
    BY <1>2, <1>3 DEF Range
  <2> QED
    BY <1>1, <1>3, <2>1
<1>7. b[m] = 1
  <2>1. b[m] = Cardinality({i \in DOMAIN s : s[i] = m})
    BY <1>4 DEF SeqBag
  <2> QED
    BY <1>6, <2>1, FS_Singleton
<1>8. IsABag(b) /\ BagToSet(b) = Range(s)
  BY <1>5 DEF IsABag, BagToSet
<1> QED
  BY <1>4, <1>7, <1>8

LEMMA WInvInit == Init => WInv
<1> SUFFICES ASSUME Init PROVE WInv
  OBVIOUS
<1>1. PICK at \in Page :
        /\ page = Fresh(at)
        /\ calls = SeqBag(<<Call(cookie, "me", "mount", 0)>>
                          \o Loads(Fresh(at), {"mount"}, None, None, cookie))
        /\ stream = [provider |-> connect(cookie),
                     panel    |-> IF at = "both" THEN connect(cookie) ELSE Closed]
  BY DEF Init
<1>2. /\ cookie \in User \cup {None} /\ session = [status |-> "loading", traits |-> None]
      /\ lastEvent = None /\ member = {} /\ unsure = FALSE /\ logins = 0 /\ drops = 0
  BY DEF Init
<1>3. /\ PageFits(page) /\ page.at = at /\ page.shown = None /\ page.side = None
      /\ page.wiring = None /\ page.reads = 0 /\ page.joined = None
  BY <1>1, FreshFits
<1>4. PICK l : l = Loads(page, {"mount"}, None, None, cookie)
  OBVIOUS
<1>5. PICK tr \in User \cup {None} : tr = None
  OBVIOUS
<1>6. l = Loads(page, {"mount"}, tr, None, cookie) /\ page.reads \in Nat
  BY <1>3, <1>4, <1>5
<1>7. l \in Seq(Range(l)) /\ Len(l) \in Nat /\ \A c \in Range(l) : Loaded(page, cookie, Len(l), c)
  BY <1>6, LoadsCalls
<1>8. ASSUME page.at = "presence" PROVE Len(l) = 0
  BY <1>4, <1>8, OnMountOf, NoCall DEF Loads, usePresenceLoads
<1>9. PICK m : m = Call(cookie, "me", "mount", 0)
  OBVIOUS
<1>10. IsCall(m) /\ m.as = cookie /\ m.kind = "me" /\ m.arg = "mount"
  BY <1>9, CallFields
<1>11. \A c \in Range(l) : c.kind \in Loadable /\ c.as = cookie /\ c.kind \notin SessionKind \cup RoomKind
  BY <1>7 DEF Loaded, Loadable, Reads, SessionKind, RoomKind
<1>12. m \notin Range(l)
  BY <1>10, <1>11 DEF SessionKind
<1>13. calls = SeqBag(<<m>> \o l)
  BY <1>1, <1>4, <1>9
<1>14. IsABag(calls) /\ Calls = {m} \cup Range(l) /\ calls[m] = 1
  BY <1>7, <1>12, <1>13, FirstCalls DEF Calls
<1>15. RestOK
  <2>1. connect(cookie) \in StreamRec /\ Closed \in StreamRec
    BY <1>2, StreamRecs
  <2>2. stream \in StreamType
    BY <1>1, <2>1 DEF StreamType, StreamRec, Hook
  <2>3. 0 \in 0..MaxLogins /\ 0 \in 0..MaxDrops
    BY WebAssumption
  <2> QED
    BY <1>2, <1>14, <2>2, <2>3 DEF RestOK
<1>16. CallsOK
  <2>1. ASSUME NEW c \in Range(l) PROVE CallOf(page, c)
    <3>1. PICK k \in Nat : k = page.reads + (IF page.at = "presence" THEN Len(l) ELSE 0)
      BY <1>3, <1>7
    <3>2. k <= MaxReads
      BY <1>3, <1>8, <3>1, WebAssumption
    <3> QED
      BY <1>2, <1>6, <1>7, <3>1, <3>2, LoadedFits
  <2>2. CallOf(page, m)
    BY <1>2, <1>10 DEF CallOf, Fits, SessionKind, RoomKind
  <2> QED
    BY <1>14, <2>1, <2>2 DEF CallsOK
<1>17. SessionOK
  BY <1>10, <1>11, <1>14 DEF SessionOK, Once, SessionKind
<1>18. DataOK
  BY <1>3, <1>10, <1>11, <1>14 DEF DataOK, Reads
<1>19. RosterOK
  BY <1>3 DEF RosterOK
<1>20. ListOK
  <2>1. ~isAdmin(session.traits)
    BY <1>2, WebAssumption DEF isAdmin
  <2>2. ASSUME page.at = "audit" PROVE Fed("feed")
    <3>1. {"mount"} \cap {"mount", "input"} # {}
      OBVIOUS
    <3>2. \E c \in Range(l) : c.kind = "feed"
      BY <1>4, <2>2, <3>1, LoadsFeed
    <3>3. \A c \in Calls : c.kind = "feed" => c.arg = page.input
      BY <1>7, <1>10, <1>14 DEF Loaded
    <3> QED
      BY <1>14, <3>2, <3>3 DEF Fed
  <2> QED
    BY <2>1, <2>2 DEF ListOK
<1>21. ChatOK
  BY <1>3, <1>10, <1>11, <1>14 DEF ChatOK, Once, RoomKind
<1> QED
  BY <1>3, <1>15, <1>16, <1>17, <1>18, <1>19, <1>20, <1>21 DEF WInv, PageOK

LEMMA ControlStep ==
  ASSUME WInv, Control
  PROVE  WInv'
<1>1. CASE \E k \in AuditKind \cup {"all"} : setKind(k)
  BY <1>1, EnterStep DEF setKind
<1>2. CASE \E u \in User \cup {Blank} : setTargetUserId(u) \/ act("revoke", u) \/ act("restore", u)
  <2>1. PICK u : setTargetUserId(u) \/ act("revoke", u) \/ act("restore", u)
    BY <1>2
  <2>2. CASE setTargetUserId(u)
    BY <2>2, EnterStep DEF setTargetUserId
  <2>3. CASE act("revoke", u)
    BY <2>3, RevocationControl
  <2>4. CASE act("restore", u)
    BY <2>4, RevocationControl
  <2> QED BY <2>1, <2>2, <2>3, <2>4
<1>3. CASE reload \/ poll \/ refreshQueue
  BY <1>3, ReadControls
<1>4. CASE simulate \/ triggerFanOut \/ BurstControls \/ dropStream \/ drain \/ fetchTicket
  BY <1>4, ClickControls
<1>5. CASE ConnectionRow
  BY <1>5, RowControl
<1>6. CASE emitBoth
  BY <1>6, EmitBothStep
<1>7. CASE RoomControls
  BY <1>7, RoomControlStep
<1>8. CASE \E parsed \in {{}} \cup {{n} : n \in Typed} : enqueue(parsed)
  BY <1>8, QueueControl
<1>9. CASE \E card \in Card : \E form \in EmitCardFields(card) : handleSubmit(card, form)
  BY <1>9, SubmitControl
<1> QED
  BY <1>1, <1>2, <1>3, <1>4, <1>5, <1>6, <1>7, <1>8, <1>9 DEF Control

LEMMA AnswerStep ==
  ASSUME WInv, NEW c \in Calls, NEW status, status \in request(c), Answered(c, status)
  PROVE  WInv'
<1>1. CASE LoginAnswered(c, status)
  BY <1>1, LoginWorks, LoginFails
<1>2. CASE MeAnswered(c, status)
  BY <1>2, MeRenders, MePushes
<1>3. CASE LogoutAnswered(c, status)
  BY <1>3, LogoutWorks, LogoutFails
<1>4. CASE ReadAnswered(c, status)
  BY <1>4, ReadStep
<1>5. CASE ClickAnswered(c, status)
  BY <1>5, ClickStep
<1>6. CASE TokenAnswered(c, status)
  BY <1>6, TicketStep, BearerStep DEF TokenAnswered
<1>7. CASE RoomAnswered(c, status)
  BY <1>7, RoomAnswer
<1> QED
  BY <1>1, <1>2, <1>3, <1>4, <1>5, <1>6, <1>7 DEF Answered

LEMMA WInvNext ==
  ASSUME WInv, [Next]_vars
  PROVE  WInv'
<1>1. CASE UNCHANGED vars
  <2>1. RestOK' /\ UNCHANGED <<cookie, session, unsure, member, calls>> /\ page' = page
    BY <1>1 DEF vars, WInv, RestOK, StreamType
  <2>2. Writes(page')
    BY <2>1, PageWrites DEF Writes, SameCore, PageFits
  <2> QED
    BY <2>1, <2>2, QuietStep
<1>2. CASE LoginPage
  BY <1>2, LoginSends
<1>3. CASE logout
  BY <1>3, LogoutSends
<1>4. CASE \E p \in Page : Navigate(p)
  BY <1>4, NavigateStep
<1>5. CASE \E c \in BagToSet(calls) : RoomsServes(c) \/ \E status \in request(c) : Answered(c, status)
  <2>1. PICK c \in Calls : RoomsServes(c) \/ \E status \in request(c) : Answered(c, status)
    BY <1>5 DEF Calls
  <2> QED
    BY <2>1, ServesStep, AnswerStep
<1>6. CASE \E h \in Hook : Opens(h) \/ Breaks(h) \/ Retries(h)
  BY <1>6, PanelOpens, ProviderOpens, BreaksStep, RetriesStep DEF Hook
<1>7. CASE \E e \in SSE_APPLICATION_EVENT_NAMES \cup PRESENCE_EVENT_NAME_SET : FeedEvent(e)
  BY <1>7, FeedStep DEF SSE_APPLICATION_EVENT_NAMES, PRESENCE_EVENT_NAME_SET
<1>8. CASE ConnectionLabPage \/ ManagedConnection
  BY <1>8, SetPanelStep
<1>9. CASE \E panel \in {"sse", "ws"} : SplitPanel(panel)
  BY <1>9, NonceStep
<1>10. CASE SocketOpens \/ SocketBreaks
  BY <1>10, SocketOpensStep, SocketBreaksStep
<1>11. CASE Control
  BY <1>11, ControlStep
<1> QED
  BY <1>1, <1>2, <1>3, <1>4, <1>5, <1>6, <1>7, <1>8, <1>9, <1>10, <1>11 DEF Next

LEMMA WInvTypes == WInv => TypeOK
<1> SUFFICES ASSUME WInv PROVE TypeOK
  OBVIOUS
<1>1. PageFits(page) /\ RestOK
  BY DEF WInv, PageOK
<1>2. {page.reads, page.live, page.via, page.sse, page.ws} \subseteq 0..MaxReads
  BY <1>1, WebAssumption DEF PageFits
<1> QED
  BY <1>1, <1>2 DEF TypeOK, PageFits, RestOK, StreamType

\* The invariant in all its parts holds throughout.
THEOREM Invariant == Spec => []WInv
<1>1. Init => WInv
  BY WInvInit
<1>2. WInv /\ [Next]_vars => WInv'
  BY WInvNext
<1> QED
  BY <1>1, <1>2, PTL DEF Spec

\* Every variable keeps to its values, for any users, routes and bounds.
THEOREM TypeCorrect == Spec => []TypeOK
BY Invariant, WInvTypes, PTL

\* However roster reads are answered, with none in flight the newest one is the
\* roster on the screen, or the page says that it failed (presence/page.tsx:30-51).
THEOREM NewestRosterShown == Spec => []RosterNewest
<1>1. WInv => RosterNewest
  BY DEF WInv, RosterOK, RosterNewest, InFlight, Calls
<1> QED
  BY <1>1, Invariant, PTL

\* With no session call in flight, the session context is the cookie's, unless
\* session calls overlapped or a read of the session was lost
\* (session-context.tsx:51-68).
THEOREM ContextIsCookies == Spec => []TraitsTrue
<1>1. WInv => TraitsTrue
  BY DEF WInv, SessionOK, TraitsTrue, AtRest, InFlight, Calls, SessionKind
<1> QED
  BY <1>1, Invariant, PTL

\* With no session call in flight, nothing on the screen was read as somebody
\* else, in whatever order reads, logins and logouts are answered
\* (login/page.tsx:38-39).
THEOREM ScreenIsOnesOwn == Spec => []NobodyElsesData
<1>1. WInv => NobodyElsesData
  BY DEF WInv, DataOK, NobodyElsesData, AtRest, InFlight, Calls, SessionKind
<1> QED
  BY <1>1, Invariant, PTL

\* A filtered listing with no read in flight shows what its filter says, unless the
\* page has reason to doubt it (audit/page.tsx:62-82, offline/page.tsx:85-97).
THEOREM ListingMatchesFilter == Spec => []ListMatches
<1>1. WInv => ListMatches
  BY DEF WInv, ListOK, Fed, ListMatches, InFlight, Calls
<1> QED
  BY <1>1, Invariant, PTL

\* A room the chat says it has joined is a room its socket is in, whatever was
\* replaced, refused or left meanwhile (chat/page.tsx:83-127).
THEOREM JoinedIsMember == Spec => []ChatHonest
<1>1. WInv => ChatHonest
  <2> SUFFICES ASSUME WInv, page.at = "chat", page.joined # None, ~page.doubt,
                      page.live = page.via, ~InFlight({"join", "leave"})
               PROVE  page.joined \in member
    BY DEF ChatHonest
  <2>1. \A c \in Calls : ~(c.kind = "leave" /\ c.served = 200)
    BY DEF InFlight, Calls
  <2> QED
    BY <2>1 DEF WInv, ChatOK
<1> QED
  BY <1>1, Invariant, PTL

-----------------------------------------------------------------------------
(* What a step sends.  Some calls the API judges as the property allows,   *)
(* whoever sends them; the others rest on a check of the page.             *)

Guarded == emitApi \cup {"offlineEmit", "revoke", "restore", "roster", "peek", "ack"}

Plain == {"me", "login", "logout", "ticket", "wsToken", "simulate", "feed", "cards", "drop", "burst",
          "list", "introspection", "timeline", "disconnect", "stats", "replayTimeline", "join", "leave"}

LEMMA CallKinds ==
  ASSUME NEW p, NEW c, CallOf(p, c), c.kind \notin Guarded
  PROVE  c.kind \in Plain
BY DEF CallOf, Fits, SessionKind, Guarded, Plain, emitApi

\* What OnlyUncheckedRefused asks of a call just sent.
Fine(c) ==
  c.served = 0 => /\ 400 \in Statuses(c) => Unchecked(c)
                  /\ 403 \in Statuses(c) => LeftToGuard(c)

LEMMA ControlStatuses ==
  ASSUME NEW c
  PROVE  /\ c.kind \in emitApi => Statuses(c) = EmitController(c)
         /\ c.kind \in {"offlineEmit", "peek", "ack"} => Statuses(c) = OfflineLabController(c)
         /\ c.kind \in {"revoke", "restore"} => Statuses(c) = RevocationController(c)
         /\ c.kind \in {"burst", "drop", "replayTimeline"} => Statuses(c) = ReplayLabController(c)
         /\ c.kind = "roster" => Statuses(c) = PresenceController(c)
BY DEF Statuses, authApi, domainApi, emitApi, auditApi, connectionsApi, evictionLabApi, replayLabApi,
       presenceApi, offlineLabApi, reauthLabApi, roomsApi

LEMMA ReadStatuses ==
  ASSUME NEW c
  PROVE  /\ c.kind \in {"me", "login", "logout"} => Statuses(c) = AuthController(c)
         /\ c.kind = "ticket" => Statuses(c) = TicketController(c)
         /\ c.kind = "wsToken" => Statuses(c) = WsTokenController(c)
         /\ c.kind = "simulate" => Statuses(c) = DomainController(c)
         /\ c.kind = "feed" => Statuses(c) = AuditController(c)
         /\ c.kind = "cards" => Statuses(c) = ClusterStatsController(c)
         /\ c.kind \in {"list", "introspection", "disconnect"} => Statuses(c) = ConnectionsController(c)
         /\ c.kind = "timeline" => Statuses(c) = EvictionLabController(c)
         /\ c.kind = "stats" => Statuses(c) = ReauthLabController(c)
BY DEF Statuses, authApi, domainApi, emitApi, auditApi, connectionsApi, evictionLabApi, replayLabApi,
       presenceApi, offlineLabApi, reauthLabApi, roomsApi

LEMMA SessionStatuses ==
  ASSUME NEW c, c.kind \in {"me", "login", "logout", "ticket", "wsToken", "simulate", "feed", "cards", "drop"}
  PROVE  Statuses(c) \subseteq {200, 401}
<1>1. CASE c.kind \in {"me", "login", "logout"}
  BY <1>1, ReadStatuses DEF AuthController, SessionGuard
<1>2. CASE c.kind \in {"ticket", "wsToken"}
  BY <1>2, ReadStatuses DEF TicketController, WsTokenController, SessionGuard
<1>3. CASE c.kind \in {"simulate", "feed", "cards"}
  BY <1>3, ReadStatuses DEF DomainController, AuditController, ClusterStatsController, SessionGuard
<1>4. CASE c.kind = "drop"
  BY <1>4, ControlStatuses DEF ReplayLabController, SessionGuard
<1> QED
  BY <1>1, <1>2, <1>3, <1>4

LEMMA AdminStatuses ==
  ASSUME NEW c, c.kind \in {"list", "introspection", "timeline", "disconnect", "stats", "replayTimeline"}
  PROVE  400 \notin Statuses(c)
<1>1. CASE c.kind \in {"list", "introspection", "disconnect"}
  BY <1>1, ReadStatuses DEF ConnectionsController, AdminGuard, SessionGuard
<1>2. CASE c.kind \in {"timeline", "stats"}
  BY <1>2, ReadStatuses DEF EvictionLabController, ReauthLabController, AdminGuard, SessionGuard
<1>3. CASE c.kind = "replayTimeline"
  BY <1>3, ControlStatuses DEF ReplayLabController, AdminGuard, SessionGuard
<1> QED
  BY <1>1, <1>2, <1>3

LEMMA PlainFine ==
  ASSUME NEW c, c.kind \in Plain
  PROVE  Fine(c)
<1>1. CASE c.kind \in {"me", "login", "logout", "ticket", "wsToken", "simulate", "feed", "cards", "drop"}
  BY <1>1, SessionStatuses DEF Fine
<1>2. CASE c.kind \in {"list", "introspection", "timeline", "disconnect", "stats", "replayTimeline"}
  BY <1>2, AdminStatuses DEF Fine, LeftToGuard
<1>3. CASE c.kind = "burst"
  <2>1. Statuses(c) = IF c.as = None THEN {401} ELSE IF burstSchema(c.n) THEN {200} ELSE {400}
    BY <1>3, ControlStatuses DEF ReplayLabController, SessionGuard, ZodValidationPipe
  <2> QED
    BY <1>3, <2>1 DEF Fine, Unchecked
<1>4. CASE c.kind \in RoomKind /\ c.served = 0
  <2>1. Statuses(c) \subseteq {401, 400} /\ (c.arg # Blank => 400 \notin Statuses(c))
    BY <1>4, RoomStatuses
  <2> QED
    BY <1>4, <2>1 DEF Fine, Unchecked, roomsApi, RoomKind, roomMembershipSchema
<1>5. CASE c.kind \in RoomKind /\ c.served # 0
  BY <1>5 DEF Fine
<1> QED
  BY <1>1, <1>2, <1>3, <1>4, <1>5 DEF Plain, RoomKind

LEMMA AckFine ==
  ASSUME NEW c, c.kind = "ack"
  PROVE  Fine(c)
<1>1. Statuses(c) \subseteq {200, 401, 503}
  BY ControlStatuses DEF OfflineLabController, SessionGuard
<1> QED
  BY <1>1 DEF Fine

LEMMA RosterFine ==
  ASSUME NEW c, c.kind = "roster", c.as = None \/ c.arg = TenantOf[c.as]
  PROVE  Fine(c)
<1>1. Statuses(c) \subseteq {200, 401}
  BY ControlStatuses DEF PresenceController, SessionGuard
<1> QED
  BY <1>1 DEF Fine

LEMMA PeekFine ==
  ASSUME NEW c, c.kind = "peek", c.as = None \/ isAdmin(c.as)
  PROVE  Fine(c)
<1>1. CASE c.as = None
  <2>1. Statuses(c) = {401}
    BY <1>1, ControlStatuses DEF OfflineLabController, AdminGuard, SessionGuard
  <2> QED
    BY <2>1 DEF Fine
<1>2. CASE c.as # None /\ c.as \in Admin
  <2>1. Statuses(c) = IF c.arg = Blank THEN {400} ELSE {200, 503}
    BY <1>2, ControlStatuses DEF OfflineLabController, AdminGuard, SessionGuard
  <2> QED
    BY <2>1 DEF Fine, Unchecked
<1> QED
  BY <1>1, <1>2, WebAssumption DEF isAdmin

LEMMA RevocationFine ==
  ASSUME NEW c, c.kind \in {"revoke", "restore"}, isAdmin(c.as)
  PROVE  Fine(c)
<1>1. c.as \in Admin /\ c.as # None
  BY WebAssumption DEF isAdmin
<1>2. Statuses(c) = {200}
  BY <1>1, ControlStatuses DEF RevocationController, AdminGuard, SessionGuard
<1> QED
  BY <1>2 DEF Fine
LEMMA LargerOfTwo ==
  ASSUME NEW a \in Int, NEW b \in Int, NEW m, m = Max({a} \cup {b})
  PROVE  m \in Int /\ m >= a
<1>1. PICK S : S = {a} \cup {b}
  OBVIOUS
<1>2. \E x \in S : \A y \in S : x >= y
  BY <1>1
<1>3. m \in S /\ \A y \in S : m >= y
  BY <1>1, <1>2 DEF Max
<1> QED
  BY <1>1, <1>3

LEMMA SmallerOfTwo ==
  ASSUME NEW a \in Int, NEW b \in Int, NEW m, m = Min({a, b})
  PROVE  m \in {a, b} /\ m <= a
<1>1. PICK S : S = {a, b}
  OBVIOUS
<1>2. \E x \in S : \A y \in S : x <= y
  BY <1>1
<1>3. m \in S /\ \A y \in S : m <= y
  BY <1>1, <1>2 DEF Min
<1> QED
  BY <1>1, <1>3

LEMMA BurstSize ==
  ASSUME NEW parsed \in {{}} \cup {{n} : n \in Typed}
  PROVE  readBurstSize(parsed) \in 1..50
<1>1. CASE parsed = {}
  BY <1>1 DEF readBurstSize, MIN_BURST
<1>2. ASSUME NEW n \in Typed, parsed = {n} PROVE readBurstSize(parsed) \in 1..50
  <2>1. n \in Int
    BY DEF Typed
  <2>2. PICK m : m = Max({1} \cup {n})
    OBVIOUS
  <2>3. m \in Int /\ m >= 1
    BY <2>1, <2>2, LargerOfTwo
  <2>4. PICK k : k = Min({50, m})
    OBVIOUS
  <2>5. k \in {50, m} /\ k <= 50
    BY <2>3, <2>4, SmallerOfTwo
  <2>6. readBurstSize(parsed) = k
    BY <1>2, <2>2, <2>4 DEF readBurstSize, MIN_BURST
  <2> QED
    BY <2>3, <2>5, <2>6
<1> QED
  BY <1>1, <1>2

LEMMA QueueFine ==
  ASSUME NEW c, c.kind = "offlineEmit", isAdmin(c.as), c.n \in 1..50
  PROVE  Fine(c)
<1>1. c.as \in Admin /\ c.as # None
  BY WebAssumption DEF isAdmin
<1>2. Statuses(c) = IF c.arg # Blank THEN {200, 409, 503} ELSE {400}
  BY <1>1, ControlStatuses
     DEF OfflineLabController, AdminGuard, SessionGuard, ZodValidationPipe, offlineEmitSchema,
         MAX_OFFLINE_BURST
<1> QED
  BY <1>2 DEF Fine, Unchecked

LEMMA EmitFine ==
  ASSUME NEW c, c.kind \in emitApi, c.event \notin {Blank, "reserved"},
         c.kind = "broadcast" => isAdmin(c.as)
  PROVE  Fine(c)
<1>1. emitSchema(c.event)
  BY DEF emitSchema, RESERVED_EVENT_NAMES
<1>2. Statuses(c) = EmitController(c)
  BY ControlStatuses
<1>3. CASE c.kind = "emitUser"
  <2>1. Statuses(c) \subseteq {200, 401}
    BY <1>1, <1>2, <1>3 DEF EmitController, SessionGuard, ZodValidationPipe
  <2> QED
    BY <2>1 DEF Fine
<1>4. CASE c.kind = "broadcast"
  <2>1. c.as \in Admin /\ c.as # None
    BY <1>4, WebAssumption DEF isAdmin
  <2>2. Statuses(c) = {200}
    BY <1>1, <1>2, <1>4, <2>1 DEF EmitController, AdminGuard, SessionGuard, ZodValidationPipe
  <2> QED
    BY <2>2 DEF Fine
<1>5. CASE c.kind = "emitTenant"
  <2>1. Statuses(c) \subseteq {200, 401, 403} /\ (c.arg = TenantOf[c.as] => 403 \notin Statuses(c))
    BY <1>1, <1>2, <1>5 DEF EmitController, SessionGuard, ZodValidationPipe
  <2> QED
    BY <1>5, <2>1 DEF Fine, LeftToGuard
<1>6. CASE c.kind = "emitRoom"
  <2>1. Statuses(c) \subseteq {200, 401, 403} /\ (c.arg # "scoped" => 403 \notin Statuses(c))
    BY <1>1, <1>2, <1>6 DEF EmitController, SessionGuard, ZodValidationPipe, emitToRoom
  <2> QED
    BY <1>6, <2>1 DEF Fine, LeftToGuard
<1> QED
  BY <1>3, <1>4, <1>5, <1>6 DEF emitApi

-----------------------------------------------------------------------------
(* What the queue on the screen and the clicks on it say of who is signed  *)
(* in: a click that worked reads the queue again, as an admin.             *)

\* The offline page, of who is signed in.
AtQueue ==
  /\ page.at = "offline" /\ cookie # None
  /\ \A c \in Calls : ~(c.kind = "me" /\ c.arg = "login")

QueueOK ==
  AtQueue =>
    /\ page.shown # None => cookie \in Admin
    /\ \A c \in Calls : /\ c.kind = "offlineEmit" => c.as = cookie
                        /\ c.kind = "ack" => cookie \in Admin

\* What a click on the offline page owes to the page it is made on.
Owed(c) ==
  /\ c.kind = "offlineEmit" => c.as = cookie'
  /\ c.kind = "ack" => page.shown # None

\* In the situation the property speaks of, the context is the cookie's.
Settled == AtRest /\ ~unsure

LEMMA SettledTraits ==
  ASSUME WInv', Settled' PROVE session'.traits = cookie'
BY DEF WInv, SessionOK, Settled, AtRest, InFlight, Calls, SessionKind

\* Every new call is fine, if the context is the cookie's, and is owed to its page.
AllFine ==
  /\ Settled' => \A c \in Calls' \ Calls : Fine(c)
  /\ \A c \in Calls' \ Calls : Owed(c)

\* Nothing that rests on a check of the page is sent.
Tame == \A c \in Calls' \ Calls : c.kind \notin Guarded

LEMMA TameAllFine ==
  ASSUME WInv', Tame PROVE AllFine
<1>1. ASSUME NEW c \in Calls' \ Calls PROVE Fine(c) /\ Owed(c)
  <2>1. c.kind \notin Guarded /\ CallOf(page', c)
    BY DEF Tame, WInv, CallsOK
  <2>2. Fine(c)
    BY <2>1, CallKinds, PlainFine
  <2> QED
    BY <2>1, <2>2 DEF Owed, Guarded
<1> QED
  BY <1>1 DEF AllFine

LEMMA TameFlow ==
  ASSUME NEW G, NEW s, Flow(G, s), \A c \in Range(s) : c.kind \notin Guarded
  PROVE  Tame
BY DEF Flow, Tame

LEMMA TameKept ==
  ASSUME UNCHANGED calls
  PROVE  Tame
BY DEF Tame, Calls

LEMMA OnlySent ==
  ASSUME IsABag(calls), NEW p, NEW c, Send(p, c), NEW d \in Calls' \ Calls
  PROVE  d = c
<1>1. PICK s : s = <<c>>
  OBVIOUS
<1>2. s \in Seq({c}) /\ Range(s) = {c}
  BY <1>1, OneCall
<1>3. Flow({}, s)
  BY <1>1, <1>2, FlowSent DEF Send
<1> QED
  BY <1>2, <1>3 DEF Flow

LEMMA TameSent ==
  ASSUME IsABag(calls), NEW p, NEW kind, kind \notin Guarded, NEW arg, NEW n,
         Send(p, Call(cookie, kind, arg, n))
  PROVE  Tame
<1>1. PICK c : c = Call(cookie, kind, arg, n)
  OBVIOUS
<1>2. Send(p, c) /\ c.kind = kind
  BY <1>1, CallFields
<1> QED
  BY <1>2, OnlySent DEF Tame

LEMMA TameAnswered ==
  ASSUME IsABag(calls), NEW c \in Calls, NEW s, s \in Seq(Range(s)), Ask(Without(c), s),
         \A d \in Range(s) : d.kind \notin Guarded
  PROVE  Tame
<1>1. Flow({c}, s)
  BY FlowAnswered
<1> QED
  BY <1>1, TameFlow

\* A control that sends one call, which is fine of an admin if it must be.
LEMMA SentFine ==
  ASSUME WInv, WInv', NEW p, NEW c, Send(p, c), c.as = cookie,
         session.traits = cookie => Fine(c), c.kind = "ack" => page.shown # None
  PROVE  AllFine
<1>1. \A d \in Calls' \ Calls : d = c
  BY OnlySent DEF WInv, RestOK
<1>2. cookie' = cookie /\ session' = session
  BY DEF Send, Still
<1>3. Settled' => session.traits = cookie
  BY <1>2, SettledTraits
<1>4. Owed(c)
  BY <1>2 DEF Owed
<1> QED
  BY <1>1, <1>3, <1>4 DEF AllFine

\* What a page reads by itself asks for the tenant of its traits, and for a queue
\* only of an admin.
LEMMA LoadsJudged ==
  ASSUME NEW p, p.reads \in Nat, NEW why, NEW tr \in User \cup {None}, NEW last, NEW who,
         NEW new, new = Loads(p, why, tr, last, who), NEW c \in Range(new)
  PROVE  /\ c.kind = "roster" => tr # None /\ c.arg = TenantOf[tr]
         /\ c.kind = "peek" => isAdmin(tr)
         /\ c.kind \in Loadable /\ c.as = who
<1>1. Loaded(p, who, Len(new), c)
  BY LoadsCalls
<1>2. Fits(c.kind, p.at) /\ c.kind \in Loadable /\ c.as = who
  BY <1>1 DEF Loaded
<1>3. ASSUME c.kind = "roster" PROVE tr # None /\ c.arg = TenantOf[tr]
  <2>1. p.at = "presence"
    BY <1>2, <1>3 DEF Fits, SessionKind, emitApi
  <2>2. new = usePresenceLoads(p, why, tr, last, who)
    BY <2>1, OnMountOf DEF Loads
  <2>3. tr # None
    BY <2>2, NoCall DEF usePresenceLoads
  <2>4. PICK k \in Nat : k = Times(why, {"mount", "traits"}, last, PRESENCE_EVENT_NAME_SET)
    BY TimesNat
  <2>5. PICK t : t = TenantOf[tr]
    OBVIOUS
  <2>6. new = [i \in 1..k |-> Call(who, "roster", t, p.reads + i)]
    BY <2>2, <2>3, <2>4, <2>5 DEF usePresenceLoads
  <2>7. PICK i \in 1..k : c = Call(who, "roster", t, p.reads + i)
    BY <2>6 DEF Range
  <2> QED
    BY <2>3, <2>5, <2>7, CallFields
<1>4. ASSUME c.kind = "peek" PROVE isAdmin(tr)
  <2>1. p.at = "offline"
    BY <1>2, <1>4 DEF Fits, SessionKind, emitApi
  <2>2. new = peek(p, why, tr, who)
    BY <2>1, OnMountOf DEF Loads
  <2> QED
    BY <2>2, NoCall DEF peek
<1> QED
  BY <1>2, <1>3, <1>4

LEMMA RenderedFine ==
  ASSUME WInv', NEW p, PageFits(p), NEW why, NEW tr \in User \cup {None}, tr = session'.traits,
         NEW last, NEW old, IsABag(old), BagToSet(old) \subseteq Calls,
         cookie' \in User \cup {None}, Render(p, why, tr, last, old)
  PROVE  AllFine
<1>1. PICK who \in User \cup {None} : who = cookie'
  OBVIOUS
<1>2. PICK s : s = Loads(p, why, tr, last, who)
  OBVIOUS
<1>3. p.reads \in Nat
  BY DEF PageFits
<1>4. s \in Seq(Range(s)) /\ Ask(old, s)
  BY <1>1, <1>2, <1>3, LoadsCalls DEF Render
<1>5. Calls' \ Calls \subseteq Range(s)
  BY <1>4, AskSet DEF Calls
<1>6. ASSUME NEW c \in Range(s) PROVE Owed(c) /\ (Settled' => Fine(c))
  <2>1. /\ c.kind = "roster" => tr # None /\ c.arg = TenantOf[tr]
        /\ c.kind = "peek" => isAdmin(tr)
        /\ c.kind \in Loadable /\ c.as = who
    BY <1>2, <1>3, LoadsJudged
  <2>2. Owed(c)
    BY <2>1 DEF Owed, Loadable, Reads
  <2>3. Settled' => tr = who
    BY <1>1, SettledTraits
  <2>4. CASE c.kind = "roster"
    BY <2>1, <2>2, <2>3, <2>4, RosterFine
  <2>5. CASE c.kind = "peek"
    BY <2>1, <2>2, <2>3, <2>5, PeekFine
  <2>6. CASE c.kind \notin {"roster", "peek"}
    <3>1. c.kind \in Plain
      BY <2>1, <2>6 DEF Loadable, Reads, Plain
    <3> QED
      BY <2>2, <3>1, PlainFine
  <2> QED BY <2>4, <2>5, <2>6
<1> QED
  BY <1>5, <1>6 DEF AllFine

LEMMA MountedFine ==
  ASSUME WInv', NEW at \in Page, NEW tr \in User \cup {None}, tr = session'.traits, NEW old, IsABag(old),
         BagToSet(old) \subseteq Calls, cookie' \in User \cup {None}, Mount(at, tr, Survivors(old))
  PROVE  AllFine
<1>1. PICK p : p = Fresh(at)
  OBVIOUS
<1>2. PICK survivors : survivors = Survivors(old)
  OBVIOUS
<1>3. IsABag(survivors) /\ BagToSet(survivors) \subseteq Calls
  BY <1>2, SurvivorsSet
<1>4. PageFits(p)
  BY <1>1, FreshFits
<1>5. Render(p, {"mount"}, tr, lastEvent, survivors)
  BY <1>1, <1>2 DEF Mount
<1> QED
  BY <1>3, <1>4, <1>5, RenderedFine

-----------------------------------------------------------------------------
(* The controls that rest on a check of their page.                        *)

LEMMA ActFine ==
  ASSUME WInv, WInv', NEW action \in {"revoke", "restore"}, NEW u, act(action, u)
  PROVE  AllFine
<1>1. CASE u = Blank
  BY <1>1, TameKept, TameAllFine DEF act, Set
<1>2. CASE u # Blank
  <2>1. PICK c : c = Call(cookie, action, u, 0)
    OBVIOUS
  <2>2. isAdmin(session.traits) /\ Send(page, c)
    BY <1>2, <2>1 DEF act, RevocationControls
  <2>3. c.kind = action /\ c.as = cookie
    BY <2>1, CallFields
  <2>4. session.traits = cookie => Fine(c)
    BY <2>2, <2>3, RevocationFine
  <2> QED
    BY <2>2, <2>3, <2>4, SentFine
<1> QED BY <1>1, <1>2

LEMMA EnqueueFine ==
  ASSUME WInv, WInv', NEW parsed \in {{}} \cup {{n} : n \in Typed}, enqueue(parsed)
  PROVE  AllFine
<1>1. PICK k : k = readBurstSize(parsed)
  OBVIOUS
<1>2. k \in 1..50
  BY <1>1, BurstSize
<1>3. PICK c : c = Call(cookie, "offlineEmit", page.input, k)
  OBVIOUS
<1>4. isAdmin(session.traits) /\ Send(page, c)
  BY <1>1, <1>3 DEF enqueue, QueueControls
<1>5. c.kind = "offlineEmit" /\ c.as = cookie /\ c.n = k
  BY <1>3, CallFields
<1>6. session.traits = cookie => Fine(c)
  BY <1>2, <1>4, <1>5, QueueFine
<1> QED
  BY <1>4, <1>5, <1>6, SentFine

LEMMA RefreshFine ==
  ASSUME WInv, WInv', refreshQueue
  PROVE  AllFine
<1>1. PICK c : c = Call(cookie, "peek", page.input, 0)
  OBVIOUS
<1>2. isAdmin(session.traits) /\ Send(page, c)
  BY <1>1 DEF refreshQueue, QueueControls
<1>3. c.kind = "peek" /\ c.as = cookie
  BY <1>1, CallFields
<1>4. session.traits = cookie => Fine(c)
  BY <1>2, <1>3, PeekFine
<1> QED
  BY <1>2, <1>3, <1>4, SentFine

LEMMA DrainFine ==
  ASSUME WInv, WInv', drain
  PROVE  AllFine
<1>1. PICK c : c = Call(cookie, "ack", page.input, 0)
  OBVIOUS
<1>2. page.shown # None /\ Send(page, c)
  BY <1>1 DEF drain, OfflineLabPage
<1>3. c.kind = "ack" /\ c.as = cookie
  BY <1>1, CallFields
<1>4. Fine(c)
  BY <1>3, AckFine
<1> QED
  BY <1>2, <1>3, <1>4, SentFine

LEMMA EmitCall ==
  ASSUME NEW b, IsCall(b), NEW event, NEW c, c = [b EXCEPT !.event = event]
  PROVE  c.kind = b.kind /\ c.as = b.as /\ c.event = event
<1>1. c.event = event /\ \A f \in CallField \ {"event"} : c[f] = b[f]
  BY DEF IsCall, CallField
<1> QED
  BY <1>1 DEF CallField

LEMMA BothFine ==
  ASSUME WInv, WInv', emitBoth
  PROVE  AllFine
<1>1. PICK b : b = Call(cookie, "emitUser", session.traits, page.reads + 1)
  OBVIOUS
<1>2. PICK p, c : p = [page EXCEPT !.reads = @ + 1] /\ c = [b EXCEPT !.event = "custom"]
  OBVIOUS
<1>3. Send(p, c)
  BY <1>1, <1>2 DEF emitBoth
<1>4. c.kind = "emitUser" /\ c.as = cookie /\ c.event = "custom"
  BY <1>1, <1>2, CallFields, EmitCall
<1>5. c.event \notin {Blank, "reserved"}
  <2>1. "custom" # Blank
    BY Zenon DEF Blank
  <2> QED
    BY <1>4, <2>1
<1>6. Fine(c)
  BY <1>4, <1>5, EmitFine DEF emitApi
<1> QED
  BY <1>3, <1>4, <1>6, SentFine

LEMMA CardFine ==
  ASSUME WInv, WInv', NEW card \in Card, NEW form, handleSubmit(card, form)
  PROVE  AllFine
<1>1. CASE emitFormSchema(form.event)
  <2>1. PICK kind : kind = Scope[card]
    OBVIOUS
  <2>2. kind \in emitApi /\ (kind = "broadcast" => card = "broadcast")
    BY <2>1, WebAssumption DEF Scope, emitApi
  <2>3. PICK target, event : target = form.target /\ event = form.event
    OBVIOUS
  <2>4. PICK b : b = Call(cookie, kind, target, 0)
    OBVIOUS
  <2>5. PICK p, c : p = [page EXCEPT !.card[card] = "pending"] /\ c = [b EXCEPT !.event = event]
    OBVIOUS
  <2>6. Send(p, c) /\ BroadcastPage(card)
    BY <1>1, <2>1, <2>3, <2>4, <2>5 DEF handleSubmit
  <2>7. c.kind = kind /\ c.as = cookie /\ c.event = event
    BY <2>4, <2>5, CallFields, EmitCall
  <2>8. event \notin {Blank, "reserved"}
    BY <1>1, <2>3 DEF emitFormSchema
  <2>9. session.traits = cookie => Fine(c)
    BY <2>2, <2>6, <2>7, <2>8, EmitFine DEF BroadcastPage
  <2>10. c.kind # "ack"
    BY <2>2, <2>7 DEF emitApi
  <2> QED
    BY <2>6, <2>7, <2>9, <2>10, SentFine
<1>2. CASE ~emitFormSchema(form.event)
  BY <1>2, TameKept, TameAllFine DEF handleSubmit, Set
<1> QED BY <1>1, <1>2

-----------------------------------------------------------------------------
(* Every other step sends none of those calls.                             *)

LEMMA ControlFine ==
  ASSUME WInv, WInv', Control
  PROVE  AllFine
<1>1. IsABag(calls) /\ PageFits(page) /\ session.traits \in User \cup {None} /\ cookie' \in User \cup {None}
  BY DEF WInv, RestOK, PageOK
<1>2. ASSUME NEW value, Enter(value) PROVE AllFine
  <2>1. PICK p : p = [page EXCEPT !.input = value]
    OBVIOUS
  <2>2. IsPage(p) /\ \A f \in PageField \ {"input"} : p[f] = page[f]
    BY <1>1, <2>1 DEF PageFits, IsPage, PageField
  <2>3. PageFits(p)
    BY <1>1, <2>2 DEF PageFits, PageField
  <2>4. Render(p, {"input"}, session.traits, lastEvent, calls) /\ session' = session
    BY <1>2, <2>1 DEF Enter, Still
  <2> QED
    BY <1>1, <2>3, <2>4, RenderedFine DEF Calls
<1>3. ASSUME NEW p, NEW kind, NEW arg, NEW n, Send(p, Call(cookie, kind, arg, n)), kind \notin Guarded
      PROVE  Tame
  BY <1>1, <1>3, TameSent
<1>4. CASE \E k \in AuditKind \cup {"all"} : setKind(k)
  BY <1>2, <1>4 DEF setKind
<1>5. CASE \E u \in User \cup {Blank} : setTargetUserId(u) \/ act("revoke", u) \/ act("restore", u)
  BY <1>2, <1>5, ActFine DEF setTargetUserId
<1>6. CASE poll
  <2>1. PICK kind : kind = Polled[page.at]
    OBVIOUS
  <2>2. kind \in {"list", "stats", "cards"}
    BY <1>6, <2>1 DEF poll, Polled
  <2>3. Send(page, Call(cookie, kind, None, 0))
    BY <1>6, <2>1 DEF poll
  <2> QED
    BY <1>3, <2>2, <2>3, TameAllFine DEF Guarded, emitApi
<1>7. CASE reload \/ simulate \/ triggerFanOut \/ fetchTicket
  BY <1>3, <1>7, TameAllFine
     DEF reload, simulate, triggerFanOut, fetchTicket, Guarded, emitApi
<1>8. CASE BurstControls \/ dropStream
  BY <1>3, <1>8, TameAllFine DEF BurstControls, dropStream, drop, emitBurst, Guarded, emitApi
<1>9. CASE ConnectionRow
  <2>1. UNCHANGED calls \/ disconnect
    BY <1>9 DEF ConnectionRow, Set
  <2> QED
    BY <1>3, <2>1, TameKept, TameAllFine DEF disconnect, Guarded, emitApi
<1>10. CASE RoomControls
  BY <1>3, <1>10, TameAllFine DEF RoomControls, joinRoom, leaveRoom, Guarded, emitApi
<1>11. CASE emitBoth
  BY <1>11, BothFine
<1>12. CASE \E parsed \in {{}} \cup {{n} : n \in Typed} : enqueue(parsed)
  BY <1>12, EnqueueFine
<1>13. CASE \E card \in Card : \E form \in EmitCardFields(card) : handleSubmit(card, form)
  BY <1>13, CardFine
<1>14. CASE refreshQueue \/ drain
  BY <1>14, RefreshFine, DrainFine
<1> QED
  BY <1>4, <1>5, <1>6, <1>7, <1>8, <1>9, <1>10, <1>11, <1>12, <1>13, <1>14 DEF Control

LEMMA AgainKinds ==
  ASSUME NEW c, NEW s, s = Again(c)
  PROVE  /\ s \in Seq(Range(s))
         /\ \A d \in Range(s) : /\ d.kind \in {"list", "replayTimeline", "peek"}
                                /\ d.kind = "peek" => d.as = cookie /\ c.kind \in {"offlineEmit", "ack"}
<1>1. PICK list, timeline, queue : /\ list = Call(cookie, "list", None, 0)
                                  /\ timeline = Call(cookie, "replayTimeline", c.arg, 0)
                                  /\ queue = Call(cookie, "peek", c.arg, 0)
  OBVIOUS
<1>2. list.kind = "list" /\ timeline.kind = "replayTimeline" /\ queue.kind = "peek" /\ queue.as = cookie
  BY <1>1, CallFields
<1>3. s = <<>> \/ s = <<list>> \/ s = <<timeline>> \/ (s = <<queue>> /\ c.kind \in {"offlineEmit", "ack"})
  BY <1>1 DEF Again
<1>4. ASSUME NEW d, s = <<d>>
      PROVE  s \in Seq(Range(s)) /\ Range(s) = {d}
  BY <1>4, OneCall
<1>5. s = <<>> => s \in Seq(Range(s)) /\ Range(s) = {}
  BY NoCall
<1> QED
  BY <1>2, <1>3, <1>4, <1>5

\* Who reads the queue again after a click that worked is still an admin.
LEMMA AgainAdmin ==
  ASSUME WInv, QueueOK, NEW c \in Calls, c.kind \in {"offlineEmit", "ack"}, 200 \in Statuses(c),
         \A d \in Calls : d.kind \notin SessionKind, cookie # None
  PROVE  cookie \in Admin
<1>1. page.at = "offline"
  BY DEF WInv, CallsOK, CallOf, Fits, SessionKind, emitApi
<1>2. AtQueue
  BY <1>1 DEF AtQueue, SessionKind
<1>3. CASE c.kind = "offlineEmit"
  <2>1. c.as \in Admin
    BY <1>3, ControlStatuses DEF OfflineLabController, AdminGuard, SessionGuard
  <2> QED
    BY <1>2, <1>3, <2>1 DEF QueueOK
<1>4. CASE c.kind = "ack"
  BY <1>2, <1>4 DEF QueueOK
<1> QED BY <1>3, <1>4

LEMMA ClickFine ==
  ASSUME WInv, WInv', QueueOK, NEW c \in Calls, NEW status, status \in request(c),
         ClickAnswered(c, status)
  PROVE  AllFine
<1>1. PICK s : s = IF status = 200 THEN Again(c) ELSE <<>>
  OBVIOUS
<1>2. c.kind \in Clicks /\ Ask(Without(c), s) /\ UNCHANGED <<cookie, session, unsure>>
  BY <1>1 DEF ClickAnswered, Still
<1>3. /\ s \in Seq(Range(s))
      /\ \A d \in Range(s) : /\ d.kind \in {"list", "replayTimeline", "peek"}
                             /\ d.kind = "peek" => /\ d.as = cookie /\ c.kind \in {"offlineEmit", "ack"}
                                                   /\ status = 200
  <2>1. CASE status = 200
    BY <1>1, <2>1, AgainKinds
  <2>2. CASE status # 200
    BY <1>1, <2>2, NoCall
  <2> QED BY <2>1, <2>2
<1>4. Flow({c}, s)
  BY <1>2, <1>3, FlowAnswered DEF WInv, RestOK
<1>5. ASSUME NEW d \in Range(s), Settled' PROVE Fine(d)
  <2>1. CASE d.kind = "peek" /\ cookie = None
    BY <1>3, <2>1, PeekFine
  <2>2. CASE d.kind = "peek" /\ cookie # None
    <3>1. 200 \in Statuses(c)
      BY <1>3, <2>2 DEF request
    <3>2. c.kind \notin SessionKind
      BY <1>2 DEF Clicks, emitApi, SessionKind
    <3>3. \A e \in Calls' : e.kind \notin SessionKind
      BY <1>5 DEF Settled, AtRest, InFlight, Calls
    <3>4. \A e \in Calls : e.kind \notin SessionKind
      BY <1>4, <3>2, <3>3 DEF Flow
    <3>5. cookie \in Admin
      BY <1>3, <2>2, <3>1, <3>4, AgainAdmin
    <3> QED
      BY <1>3, <2>2, <3>5, PeekFine DEF isAdmin
  <2>3. CASE d.kind # "peek"
    BY <1>3, <2>3, PlainFine DEF Plain
  <2> QED BY <2>1, <2>2, <2>3
<1>6. \A d \in Range(s) : Owed(d)
  BY <1>3 DEF Owed
<1>7. Calls' \ Calls \subseteq Range(s)
  BY <1>4 DEF Flow
<1> QED
  BY <1>5, <1>6, <1>7 DEF AllFine

LEMMA AnswerFine ==
  ASSUME WInv, WInv', QueueOK, NEW c \in Calls, NEW status, status \in request(c), Answered(c, status)
  PROVE  AllFine
<1>1. IsABag(calls) /\ PageFits(page) /\ session'.traits \in User \cup {None} /\ cookie' \in User \cup {None}
  BY DEF WInv, RestOK, PageOK
<1>2. PICK old : old = Without(c)
  OBVIOUS
<1>3. IsABag(old) /\ BagToSet(old) \subseteq Calls
  BY <1>1, <1>2, WithoutSet DEF Calls
<1>4. ASSUME Ask(old, <<>>) PROVE AllFine
  <2>1. PICK s : s = <<>>
    OBVIOUS
  <2> QED
    BY <1>1, <1>2, <1>4, <2>1, NoCall, TameAnswered, TameAllFine
<1>5. ASSUME NEW d, Ask(old, <<d>>), d.kind \notin Guarded PROVE AllFine
  <2>1. PICK s : s = <<d>>
    OBVIOUS
  <2> QED
    BY <1>1, <1>2, <1>5, <2>1, OneCall, TameAnswered, TameAllFine
<1>6. ASSUME NEW why, Render(page, why, session'.traits, lastEvent, old) PROVE AllFine
  <2>1. PICK tr \in User \cup {None} : tr = session'.traits
    BY <1>1
  <2>2. Render(page, why, tr, lastEvent, old)
    BY <1>6, <2>1
  <2> QED
    BY <1>1, <1>3, <2>1, <2>2, RenderedFine
<1>7. CASE LoginAnswered(c, status)
  <2>1. PICK d : d = Call(c.arg, "me", "login", c.n)
    OBVIOUS
  <2>2. d.kind \notin Guarded
    BY <2>1, CallFields DEF Guarded, emitApi
  <2>3. Ask(old, <<d>>) \/ Ask(old, <<>>)
    BY <1>2, <1>7, <2>1 DEF LoginAnswered
  <2> QED
    BY <1>4, <1>5, <2>2, <2>3
<1>8. CASE MeAnswered(c, status)
  <2>1. CASE Pushes(c)
    <3>1. PICK tr \in User \cup {None} : tr = session'.traits
      BY <1>1
    <3>2. Mount("home", tr, Survivors(old))
      BY <1>2, <1>8, <2>1, <3>1 DEF MeAnswered
    <3> QED
      BY <1>1, <1>3, <3>1, <3>2, MountedFine, WebAssumption
  <2>2. CASE ~Pushes(c)
    <3>1. PICK why : Render(page, why, session'.traits, lastEvent, old)
      BY <1>2, <1>8, <2>2 DEF MeAnswered
    <3> QED
      BY <1>6, <3>1
  <2> QED BY <2>1, <2>2
<1>9. CASE LogoutAnswered(c, status)
  <2>1. CASE status = 200
    <3>1. session'.traits = None
      BY <1>9, <2>1 DEF LogoutAnswered
    <3>2. \E why : Render(page, why, session'.traits, lastEvent, old)
      BY <1>2, <1>9, <2>1, <3>1 DEF LogoutAnswered
    <3> QED
      BY <1>6, <3>2
  <2>2. CASE status # 200
    BY <1>2, <1>4, <1>9, <2>2 DEF LogoutAnswered
  <2> QED BY <2>1, <2>2
<1>10. CASE ReadAnswered(c, status) \/ TokenAnswered(c, status) \/ RoomAnswered(c, status)
  BY <1>2, <1>4, <1>10 DEF ReadAnswered, TokenAnswered, RoomAnswered
<1>11. CASE ClickAnswered(c, status)
  BY <1>11, ClickFine
<1> QED
  BY <1>7, <1>8, <1>9, <1>10, <1>11 DEF Answered

LEMMA StepFine ==
  ASSUME WInv, WInv', QueueOK, Next
  PROVE  AllFine
<1>1. IsABag(calls) /\ PageFits(page) /\ session.traits \in User \cup {None} /\ cookie' \in User \cup {None}
  BY DEF WInv, RestOK, PageOK
<1>2. PICK old : old = calls
  OBVIOUS
<1>3. IsABag(old) /\ BagToSet(old) \subseteq Calls
  BY <1>1, <1>2 DEF Calls
<1>4. ASSUME NEW d, Ask(calls, <<d>>), d.kind \notin Guarded PROVE AllFine
  <2>1. PICK s : s = <<d>>
    OBVIOUS
  <2>2. Flow({}, s) /\ Range(s) = {d}
    BY <1>1, <1>4, <2>1, OneCall, FlowSent
  <2> QED
    BY <1>4, <2>2, TameFlow, TameAllFine
<1>5. ASSUME NEW last, session' = session, Render(page, {"event"}, session.traits, last, calls) PROVE AllFine
  BY <1>1, <1>2, <1>3, <1>5, RenderedFine
<1>6. CASE LoginPage \/ logout
  <2>1. PICK kind, arg, n : kind \in {"login", "logout"} /\ Ask(calls, <<Call(cookie, kind, arg, n)>>)
    BY <1>6 DEF LoginPage, loginAs, logout
  <2>2. PICK d : d = Call(cookie, kind, arg, n)
    OBVIOUS
  <2>3. d.kind \notin Guarded
    BY <2>1, <2>2, CallFields DEF Guarded, emitApi
  <2> QED
    BY <1>4, <2>1, <2>2, <2>3
<1>7. CASE \E p \in Page : Navigate(p)
  <2>1. PICK p \in Page : Mount(p, session.traits, Survivors(old)) /\ session' = session
    BY <1>2, <1>7 DEF Navigate
  <2> QED
    BY <1>1, <1>3, <2>1, MountedFine
<1>8. ASSUME NEW c \in Calls, RoomsServes(c) PROVE Tame
  <2>1. PICK d : d = [c EXCEPT !.served = assertOwned(c)]
    OBVIOUS
  <2>2. calls' = Without(c) (+) One(d) /\ c.kind \in RoomKind
    BY <1>8, <2>1 DEF RoomsServes, roomsApi, RoomKind
  <2>3. IsCall(c)
    BY DEF WInv, CallsOK, CallOf
  <2>4. d.kind = c.kind
    BY <2>1, <2>3 DEF IsCall, CallField
  <2>5. PICK s : s = <<d>>
    OBVIOUS
  <2>6. Flow({c}, s) /\ Range(s) = {d}
    BY <1>1, <2>2, <2>5, FlowServed, OneCall
  <2> QED
    BY <2>2, <2>4, <2>6, TameFlow DEF RoomKind, Guarded, emitApi
<1>9. CASE \E c \in BagToSet(calls) : RoomsServes(c) \/ \E status \in request(c) : Answered(c, status)
  BY <1>8, <1>9, AnswerFine, TameAllFine DEF Calls
<1>10. CASE \E h \in Hook : Opens(h) \/ Breaks(h) \/ Retries(h)
  <2>1. session' = session
    BY <1>10 DEF Opens, Breaks, Retries, Still
  <2>2. UNCHANGED calls \/ Render(page, {"event"}, session.traits, "established", calls)
    BY <1>10 DEF Hook, Opens, Breaks, Retries
  <2> QED
    BY <1>5, <2>1, <2>2, TameKept, TameAllFine
<1>11. CASE \E e \in SSE_APPLICATION_EVENT_NAMES \cup PRESENCE_EVENT_NAME_SET : FeedEvent(e)
  BY <1>5, <1>11 DEF FeedEvent, Still
<1>12. CASE ConnectionLabPage \/ ManagedConnection \/ SocketOpens \/ SocketBreaks
  BY <1>12, TameKept, TameAllFine DEF ConnectionLabPage, ManagedConnection, SetPanel, SocketOpens, SocketBreaks, Set
<1>13. CASE \E panel \in {"sse", "ws"} : SplitPanel(panel)
  BY <1>13, TameKept, TameAllFine DEF SplitPanel, onNonce, Set
<1>14. CASE Control
  BY <1>14, ControlFine
<1> QED
  BY <1>6, <1>7, <1>9, <1>10, <1>11, <1>12, <1>13, <1>14 DEF Next

-----------------------------------------------------------------------------
(* The offline page keeps what its clicks rest on.                         *)

\* The step mounts the page, or finds it and shows nothing more of it but to an admin.
Held ==
  AtQueue' =>
    \/ page'.shown = None /\ \A c \in Calls' : c.kind \notin {"offlineEmit", "ack"}
    \/ AtQueue /\ cookie' = cookie /\ (page'.shown # None => page.shown # None \/ cookie \in Admin)

LEMMA QueueKept ==
  ASSUME QueueOK, Held, AllFine
  PROVE  QueueOK'
<1>1. SUFFICES ASSUME AtQueue'
               PROVE  /\ page'.shown # None => cookie' \in Admin
                      /\ \A c \in Calls' : /\ c.kind = "offlineEmit" => c.as = cookie'
                                           /\ c.kind = "ack" => cookie' \in Admin
  BY DEF QueueOK
<1>2. CASE page'.shown = None /\ \A c \in Calls' : c.kind \notin {"offlineEmit", "ack"}
  BY <1>2
<1>3. CASE AtQueue /\ cookie' = cookie /\ (page'.shown # None => page.shown # None \/ cookie \in Admin)
  <2>1. /\ page.shown # None => cookie \in Admin
        /\ \A c \in Calls : /\ c.kind = "offlineEmit" => c.as = cookie
                            /\ c.kind = "ack" => cookie \in Admin
    BY <1>3 DEF QueueOK
  <2>2. ASSUME NEW c \in Calls' \ Calls
        PROVE  /\ c.kind = "offlineEmit" => c.as = cookie'
               /\ c.kind = "ack" => page.shown # None
    BY DEF AllFine, Owed
  <2> QED
    BY <1>3, <2>1, <2>2
<1> QED
  BY <1>1, <1>2, <1>3 DEF Held

LEMMA HeldElsewhere ==
  ASSUME page'.at # "offline"
  PROVE  Held
BY DEF Held, AtQueue

LEMMA HeldFlow ==
  ASSUME NEW G, NEW s, Flow(G, s), \A c \in G : ~(c.kind = "me" /\ c.arg = "login"),
         cookie' = cookie, page'.at = page.at, page'.shown \in {page.shown, None}
  PROVE  Held
<1>1. ASSUME NEW c \in Calls, c.kind = "me" /\ c.arg = "login" PROVE c \in Calls'
  BY <1>1 DEF Flow, SessionKind
<1>2. AtQueue' => AtQueue
  BY <1>1 DEF AtQueue
<1> QED
  BY <1>2 DEF Held

LEMMA HeldSame ==
  ASSUME UNCHANGED <<cookie, calls>>, page'.at = page.at, page'.shown = page.shown
  PROVE  Held
<1>1. Calls' = Calls
  BY DEF Calls
<1>2. AtQueue' => AtQueue
  BY <1>1 DEF AtQueue
<1> QED
  BY <1>2 DEF Held

\* A page with another field than these.
Touched(p) == IsPage(p) /\ p.at = page.at /\ p.shown = page.shown

LEMMA FieldTouched ==
  ASSUME IsPage(page), NEW v, NEW p,
         \/ p = page \/ p = [page EXCEPT !.note = v] \/ p = [page EXCEPT !.confirming = v]
         \/ p = [page EXCEPT !.card = v] \/ p = [page EXCEPT !.reads = v]
         \/ p = [page EXCEPT !.sse = v] \/ p = [page EXCEPT !.ws = v]
         \/ p = [page EXCEPT !.input = v]
  PROVE  Touched(p)
BY DEF Touched, IsPage, PageField

LEMMA HeldSent ==
  ASSUME WInv, NEW p, Touched(p), NEW c, Send(p, c)
  PROVE  Held
<1>1. PICK s : s = <<c>>
  OBVIOUS
<1>2. s \in Seq({c}) /\ Ask(calls, s) /\ cookie' = cookie
  BY <1>1, OneCall DEF Send, Still
<1>3. Flow({}, s)
  BY <1>2, FlowSent DEF WInv, RestOK
<1>4. PICK b : b = Overlapped(p, calls, <<c>>)
  OBVIOUS
<1>5. page' = [p EXCEPT !.doubt = b]
  BY <1>4 DEF Send
<1>6. page'.at = page.at /\ page'.shown = page.shown
  BY <1>5 DEF Touched, IsPage, PageField
<1> QED
  BY <1>2, <1>3, <1>6, HeldFlow

LEMMA HeldSet ==
  ASSUME NEW p, Touched(p), Set(p)
  PROVE  Held
BY HeldSame DEF Touched, Set, Still

LEMMA HeldRendered ==
  ASSUME WInv, NEW p, PageFits(p), Touched(p), NEW why, NEW tr \in User \cup {None}, NEW last,
         cookie' = cookie, Render(p, why, tr, last, calls)
  PROVE  Held
<1>1. cookie' \in User \cup {None} /\ IsABag(calls)
  BY DEF WInv, RestOK
<1>2. PICK s : Renders(p, why, tr, calls, s)
  BY <1>1, RenderFacts
<1>3. s \in Seq(Range(s)) /\ Ask(calls, s)
  BY <1>2 DEF Renders
<1>4. Flow({}, s)
  BY <1>1, <1>3, FlowSent
<1>5. page'.at = page.at /\ page'.shown \in {page.shown, None}
  BY <1>2 DEF Renders, PageField, Touched
<1> QED
  BY <1>4, <1>5, HeldFlow

LEMMA HeldAnswered ==
  ASSUME WInv, NEW why, NEW tr \in User \cup {None}, NEW last, NEW c \in Calls,
         ~(c.kind = "me" /\ c.arg = "login"),
         cookie' = cookie, Render(page, why, tr, last, Without(c))
  PROVE  Held
<1>1. cookie' \in User \cup {None} /\ IsABag(calls) /\ PageFits(page)
  BY DEF WInv, RestOK, PageOK
<1>2. PICK old : old = Without(c)
  OBVIOUS
<1>3. IsABag(old)
  BY <1>1, <1>2, WithoutSet DEF Calls
<1>4. PICK s : Renders(page, why, tr, old, s)
  BY <1>1, <1>2, <1>3, RenderFacts
<1>5. s \in Seq(Range(s)) /\ Ask(Without(c), s)
  BY <1>2, <1>4 DEF Renders
<1>6. Flow({c}, s)
  BY <1>1, <1>5, FlowAnswered
<1>7. page'.at = page.at /\ page'.shown \in {page.shown, None}
  BY <1>4 DEF Renders, PageField
<1>8. \A d \in {c} : ~(d.kind = "me" /\ d.arg = "login")
  OBVIOUS
<1> QED
  BY <1>6, <1>7, <1>8, HeldFlow

LEMMA HeldMounted ==
  ASSUME WInv', NEW at \in Page, NEW tr \in User \cup {None}, NEW old, IsABag(old),
         BagToSet(old) \subseteq Calls, cookie' \in User \cup {None}, Mount(at, tr, Survivors(old))
  PROVE  Held
<1>1. PICK p : p = Fresh(at)
  OBVIOUS
<1>2. PICK survivors : survivors = Survivors(old)
  OBVIOUS
<1>3. IsABag(survivors) /\ \A c \in BagToSet(survivors) : c.kind \in SessionKind
  BY <1>2, SurvivorsSet
<1>4. PageFits(p) /\ p.shown = None
  BY <1>1, FreshFits DEF Fresh
<1>5. PICK s : Renders(p, {"mount"}, tr, survivors, s)
  BY <1>1, <1>2, <1>4, RenderFacts DEF Mount
<1>6. /\ s \in Seq(Range(s)) /\ Ask(survivors, s) /\ page'.shown = None
      /\ \A c \in Range(s) : c.kind \in Loadable
  BY <1>4, <1>5 DEF Renders
<1>7. Calls' = BagToSet(survivors) \cup Range(s)
  BY <1>3, <1>6, AskSet DEF Calls
<1>8. \A c \in Calls' : c.kind \notin {"offlineEmit", "ack"}
  BY <1>3, <1>6, <1>7 DEF Loadable, Reads, SessionKind
<1> QED
  BY <1>6, <1>8 DEF Held

LEMMA ControlHeld ==
  ASSUME WInv, Control
  PROVE  Held
<1>1. IsPage(page) /\ PageFits(page) /\ IsABag(calls) /\ session.traits \in User \cup {None}
  BY DEF WInv, RestOK, PageOK, PageFits
<1>2. Touched(page)
  BY <1>1 DEF Touched
<1>3. ASSUME NEW c, Send(page, c) PROVE Held
  BY <1>2, <1>3, HeldSent
<1>4. ASSUME NEW value, Enter(value) PROVE Held
  <2>1. PICK p : p = [page EXCEPT !.input = value]
    OBVIOUS
  <2>2. IsPage(p) /\ \A f \in PageField \ {"input"} : p[f] = page[f]
    BY <1>1, <2>1 DEF IsPage, PageField
  <2>3. PageFits(p) /\ Touched(p)
    BY <1>1, <2>2 DEF PageFits, PageField, Touched
  <2>4. Render(p, {"input"}, session.traits, lastEvent, calls) /\ cookie' = cookie
    BY <1>4, <2>1 DEF Enter, Still
  <2> QED
    BY <1>1, <2>3, <2>4, HeldRendered
<1>5. ASSUME NEW v, NEW p, p = [page EXCEPT !.note = v] PROVE Touched(p)
  BY <1>1, <1>5, FieldTouched
<1>6. CASE \E k \in AuditKind \cup {"all"} : setKind(k)
  BY <1>4, <1>6 DEF setKind
<1>7. CASE \E u \in User \cup {Blank} : setTargetUserId(u) \/ act("revoke", u) \/ act("restore", u)
  BY <1>3, <1>4, <1>5, <1>7, HeldSet DEF setTargetUserId, act
<1>8. CASE reload \/ poll \/ triggerFanOut \/ fetchTicket \/ refreshQueue \/ drain
  BY <1>3, <1>8 DEF reload, poll, triggerFanOut, fetchTicket, refreshQueue, drain
<1>9. CASE simulate
  <2>1. PICK p : p = [page EXCEPT !.note = Blank]
    OBVIOUS
  <2> QED
    BY <1>5, <1>9, <2>1, HeldSent DEF simulate
<1>10. CASE BurstControls \/ dropStream \/ RoomControls
  BY <1>3, <1>10 DEF BurstControls, dropStream, drop, emitBurst, RoomControls, joinRoom, leaveRoom
<1>11. CASE ConnectionRow
  <2>1. ASSUME NEW v, Set([page EXCEPT !.confirming = v]) PROVE Held
    <3>1. PICK p : p = [page EXCEPT !.confirming = v]
      OBVIOUS
    <3> QED
      BY <1>1, <2>1, <3>1, FieldTouched, HeldSet
  <2> QED
    BY <1>3, <1>11, <2>1 DEF ConnectionRow, disconnect
<1>12. CASE emitBoth
  <2>1. PICK n : n = page.reads + 1
    OBVIOUS
  <2>2. PICK p : p = [page EXCEPT !.reads = n]
    OBVIOUS
  <2>3. PICK c : Send(p, c)
    BY <1>12, <2>1, <2>2 DEF emitBoth
  <2> QED
    BY <1>1, <2>2, <2>3, FieldTouched, HeldSent
<1>13. CASE \E parsed \in {{}} \cup {{n} : n \in Typed} : enqueue(parsed)
  BY <1>3, <1>13 DEF enqueue
<1>14. CASE \E card \in Card : \E form \in EmitCardFields(card) : handleSubmit(card, form)
  <2>1. PICK card, v, p : /\ v \in {"pending", "failed"} /\ p = [page EXCEPT !.card[card] = v]
                          /\ (Set(p) \/ \E c : Send(p, c))
    BY <1>14 DEF handleSubmit
  <2>2. PICK cards : cards = [page.card EXCEPT ![card] = v]
    OBVIOUS
  <2>3. p = [page EXCEPT !.card = cards]
    BY <2>1, <2>2
  <2>4. Touched(p)
    BY <1>1, <2>3, FieldTouched
  <2> QED
    BY <2>1, <2>4, HeldSet, HeldSent
<1> QED
  BY <1>6, <1>7, <1>8, <1>9, <1>10, <1>11, <1>12, <1>13, <1>14 DEF Control

\* The queue that comes on the screen was read by an admin, who is signed in.
LEMMA ReadHeld ==
  ASSUME WInv, NEW c \in Calls, NEW status, status \in request(c), ReadAnswered(c, status)
  PROVE  Held
<1>1. PICK ok \in BOOLEAN : ok = (status = 200)
  OBVIOUS
<1>2. c.kind \in Reads /\ page' = Read(page, c, ok) /\ Ask(Without(c), <<>>) /\ cookie' = cookie
  BY <1>1 DEF ReadAnswered, Still
<1>3. PageFits(page) /\ Fits(c.kind, page.at) /\ IsABag(calls)
  BY DEF WInv, RestOK, PageOK, CallsOK, CallOf
<1>4. page.at # "home" /\ (page.at = "offline" <=> c.kind = "peek")
  BY <1>2, <1>3, ReadPlace
<1>5. PICK q : q = page'
  OBVIOUS
<1>6. PICK b : Bodied(page, q, b)
  BY <1>2, <1>5, ReadBodied
<1>7. page'.at = page.at
  BY <1>3, <1>4, <1>5, <1>6, BodiedFits DEF PageField
<1>8. PICK s : s = <<>>
  OBVIOUS
<1>9. s \in Seq({}) /\ Range(s) = {}
  BY <1>8, NoCall
<1>10. Flow({c}, s)
  BY <1>2, <1>3, <1>8, <1>9, FlowAnswered
<1>11. CASE page.at # "offline"
  BY <1>7, <1>11, HeldElsewhere
<1>12. CASE page.at = "offline"
  <2>1. page' = setQueued(page, c, ok)
    BY <1>2, <1>4, <1>12 DEF Read
  <2>2. page'.shown = page.shown \/ status = 200
    BY <1>1, <1>3, <2>1 DEF setQueued, Failed, PageFits, IsPage, PageField
  <2>3. \A d \in {c} : ~(d.kind = "me" /\ d.arg = "login")
    BY <1>4, <1>12
  <2>4. CASE page'.shown = page.shown
    BY <1>2, <1>7, <1>10, <2>3, <2>4, HeldFlow
  <2>5. CASE status = 200
    <3>1. AtQueue' => AtQueue
      <4>1. ASSUME NEW d \in Calls, d.kind = "me" /\ d.arg = "login" PROVE d \in Calls'
        BY <1>10, <2>3, <4>1 DEF Flow, SessionKind
      <4> QED
        BY <1>2, <1>7, <4>1 DEF AtQueue
    <3>2. AtQueue => c.as = cookie
      BY <1>2 DEF WInv, DataOK, AtQueue
    <3>3. 200 \in Statuses(c)
      BY <2>5 DEF request
    <3>4. c.as \in Admin
      BY <1>4, <1>12, <3>3, ControlStatuses DEF OfflineLabController, AdminGuard, SessionGuard
    <3> QED
      BY <1>2, <3>1, <3>2, <3>4 DEF Held
  <2> QED BY <2>2, <2>4, <2>5
<1> QED BY <1>11, <1>12

LEMMA ClickHeld ==
  ASSUME WInv, NEW c \in Calls, NEW status, ClickAnswered(c, status)
  PROVE  Held
<1>1. PICK s : s = IF status = 200 THEN Again(c) ELSE <<>>
  OBVIOUS
<1>2. PICK p : p = ClickPage(c, status)
  OBVIOUS
<1>3. p = CASE c.kind \in emitApi                    -> setFeedback(page, c, status = 200)
            [] c.kind = "disconnect" /\ status = 200 -> page
            [] OTHER                                 -> Told(page, status = 200)
  BY <1>2 DEF ClickPage
<1>4. /\ c.kind \in Clicks /\ Ask(Without(c), s) /\ cookie' = cookie
      /\ page' = [p EXCEPT !.doubt = \/ Overlapped(p, Without(c), s)
                                     \/ \E d \in Range(s) : d.kind = "peek" /\ d.arg # p.input]
  BY <1>1, <1>3 DEF ClickAnswered, Still
<1>5. IsABag(calls) /\ PageFits(page) /\ Fits(c.kind, page.at)
  BY DEF WInv, RestOK, PageOK, CallsOK, CallOf
<1>6. PageFits(p) /\ SameCore(page, p)
  BY <1>2, <1>4, <1>5, ClickPages
<1>7. PICK b : b = (\/ Overlapped(p, Without(c), s)
                    \/ \E d \in Range(s) : d.kind = "peek" /\ d.arg # p.input)
  OBVIOUS
<1>8. page' = [p EXCEPT !.doubt = b]
  BY <1>4, <1>7
<1>9. page'.at = page.at /\ page'.shown = page.shown
  BY <1>6, <1>8 DEF SameCore, PageFits, IsPage, PageField
<1>10. s \in Seq(Range(s))
  BY <1>1, AgainKinds, NoCall
<1>11. Flow({c}, s)
  BY <1>4, <1>5, <1>10, FlowAnswered
<1>12. \A d \in {c} : ~(d.kind = "me" /\ d.arg = "login")
  BY <1>4 DEF Clicks, emitApi
<1> QED
  BY <1>4, <1>9, <1>11, <1>12, HeldFlow

LEMMA SessionHeld ==
  ASSUME WInv, WInv', NEW c \in Calls, NEW status,
         LoginAnswered(c, status) \/ MeAnswered(c, status) \/ LogoutAnswered(c, status)
  PROVE  Held
<1>1. /\ IsABag(calls) /\ PageFits(page) /\ IsPage(page) /\ cookie' \in User \cup {None}
      /\ session'.traits \in User \cup {None}
  BY DEF WInv, RestOK, PageOK, PageFits
<1>2. PICK old : old = Without(c)
  OBVIOUS
<1>3. IsABag(old) /\ BagToSet(old) \subseteq Calls
  BY <1>1, <1>2, WithoutSet DEF Calls
<1>4. ASSUME Ask(Without(c), <<>>), c.kind # "me", cookie' = cookie, Touched(page') PROVE Held
  <2>1. PICK s : s = <<>>
    OBVIOUS
  <2>2. Flow({c}, s)
    BY <1>1, <1>4, <2>1, NoCall, FlowAnswered
  <2> QED
    BY <1>4, <2>2, HeldFlow DEF Touched
<1>5. CASE LoginAnswered(c, status) /\ status = 200
  <2>1. PICK d : d = Call(c.arg, "me", "login", c.n)
    OBVIOUS
  <2>2. d.kind = "me" /\ d.arg = "login"
    BY <2>1, CallFields
  <2>3. PICK s : s = <<d>>
    OBVIOUS
  <2>4. s \in Seq({d}) /\ Range(s) = {d} /\ Ask(Without(c), s)
    BY <1>5, <2>1, <2>3, OneCall DEF LoginAnswered
  <2>5. d \in Calls'
    BY <1>1, <2>4, FlowAnswered DEF Flow
  <2> QED
    BY <2>2, <2>5 DEF Held, AtQueue
<1>6. CASE LoginAnswered(c, status) /\ status # 200
  <2>1. /\ c.kind = "login" /\ Ask(Without(c), <<>>) /\ cookie' = cookie
        /\ (page' = page \/ page' = [page EXCEPT !.login = 0, !.note = "failed"])
    BY <1>6 DEF LoginAnswered
  <2>2. Touched(page')
    BY <1>1, <2>1 DEF Touched, IsPage, PageField
  <2> QED
    BY <1>4, <2>1, <2>2
<1>7. CASE MeAnswered(c, status) /\ Pushes(c)
  <2>1. PICK tr \in User \cup {None} : tr = session'.traits
    BY <1>1
  <2>2. Mount("home", tr, Survivors(old))
    BY <1>2, <1>7, <2>1 DEF MeAnswered
  <2> QED
    BY <1>1, <1>3, <2>2, HeldMounted, WebAssumption
<1>8. CASE MeAnswered(c, status) /\ ~Pushes(c)
  <2>1. PICK tr \in User \cup {None} : tr = session'.traits
    BY <1>1
  <2>2. PICK why : Render(page, why, tr, lastEvent, Without(c))
    BY <1>8, <2>1 DEF MeAnswered
  <2>3. c.kind = "me" /\ cookie' = cookie
    BY <1>8 DEF MeAnswered
  <2>5. CASE c.arg # "login"
    BY <2>2, <2>3, <2>5, HeldAnswered
  <2>6. CASE c.arg = "login"
    <3>1. page.at = "home"
      BY <1>8, <2>6 DEF Pushes
    <3>2. PICK s : Renders(page, why, tr, old, s)
      BY <1>1, <1>2, <1>3, <2>2, RenderFacts
    <3>3. page'.at = "home"
      BY <3>1, <3>2 DEF Renders, PageField
    <3> QED
      BY <3>3, HeldElsewhere
  <2> QED BY <2>5, <2>6
<1>9. CASE LogoutAnswered(c, status) /\ status = 200
  BY <1>9 DEF LogoutAnswered, Held, AtQueue
<1>10. CASE LogoutAnswered(c, status) /\ status # 200
  <2>1. c.kind = "logout" /\ Ask(Without(c), <<>>) /\ cookie' = cookie /\ page' = page
    BY <1>10 DEF LogoutAnswered
  <2> QED
    BY <1>1, <1>4, <2>1 DEF Touched
<1> QED
  BY <1>5, <1>6, <1>7, <1>8, <1>9, <1>10

\* The answers of other pages, which stay where they are.
LEMMA TokenHeld ==
  ASSUME WInv, NEW c \in Calls, NEW status, TokenAnswered(c, status) \/ RoomAnswered(c, status)
  PROVE  Held
<1>1. IsPage(page) /\ page.at \in {"chat", "both", "ticket"}
  BY DEF WInv, PageOK, PageFits, CallsOK, CallOf, TokenAnswered, RoomAnswered, Fits, SessionKind, emitApi
<1>2. CASE TokenAnswered(c, status) /\ c.kind = "ticket"
  <2>1. PICK n : n = page.reads + 1
    OBVIOUS
  <2>2. \/ page' = [page EXCEPT !.token = c.as, !.reads = n, !.note = Blank]
        \/ page' = [page EXCEPT !.note = "failed"]
    BY <1>2, <2>1 DEF TokenAnswered, setTicket, Failed
  <2>3. page'.at = page.at
    BY <1>1, <2>2 DEF IsPage, PageField
  <2> QED
    BY <1>1, <2>3, HeldElsewhere
<1>3. CASE TokenAnswered(c, status) /\ c.kind # "ticket"
  <2>1. PICK p : p = IF status = 200 THEN SocketGone(page) ELSE page
    OBVIOUS
  <2>2. PICK v : page' = [p EXCEPT !.token = v]
    BY <1>3, <2>1 DEF TokenAnswered, setWsToken
  <2>3. p = page \/ p = [page EXCEPT !.live = 0, !.owner = None]
    BY <2>1 DEF SocketGone
  <2>4. IsPage(p) /\ p.at = page.at
    BY <1>1, <2>3 DEF IsPage, PageField
  <2>5. page'.at = p.at
    BY <2>2, <2>4 DEF IsPage, PageField
  <2> QED
    BY <1>1, <2>4, <2>5, HeldElsewhere
<1>4. CASE RoomAnswered(c, status)
  <2>1. PICK b : b = (page.doubt \/ status = 0)
    OBVIOUS
  <2>2. PICK p : p = [page EXCEPT !.doubt = b]
    OBVIOUS
  <2>3. IsPage(p) /\ p.at = page.at
    BY <1>1, <2>2 DEF IsPage, PageField
  <2>4. page' = joined(p, c, status = 200) \/ page' = left(p, status = 200)
    BY <1>4, <2>1, <2>2 DEF RoomAnswered
  <2>5. \/ page' = [p EXCEPT !.joined = c.arg, !.via = c.n, !.note = Blank]
        \/ page' = [p EXCEPT !.note = "failed"]
        \/ page' = [p EXCEPT !.joined = None]
        \/ page' = p
    BY <2>4 DEF joined, left
  <2>6. page'.at = p.at
    BY <2>3, <2>5 DEF IsPage, PageField
  <2> QED
    BY <1>1, <2>3, <2>6, HeldElsewhere
<1> QED
  BY <1>2, <1>3, <1>4

LEMMA StepHeld ==
  ASSUME WInv, WInv', Next
  PROVE  Held
<1>1. /\ IsABag(calls) /\ PageFits(page) /\ IsPage(page) /\ session.traits \in User \cup {None}
      /\ cookie' \in User \cup {None}
  BY DEF WInv, RestOK, PageOK, PageFits
<1>2. Touched(page)
  BY <1>1 DEF Touched
<1>3. PICK old : old = calls
  OBVIOUS
<1>4. IsABag(old) /\ BagToSet(old) \subseteq Calls
  BY <1>1, <1>3 DEF Calls
<1>5. ASSUME NEW last, cookie' = cookie, Render(page, {"event"}, session.traits, last, calls) PROVE Held
  BY <1>1, <1>2, <1>5, HeldRendered
<1>6. CASE LoginPage \/ logout
  <2>1. PICK d : Ask(calls, <<d>>)
    BY <1>6 DEF LoginPage, loginAs, logout
  <2>2. PICK s : s = <<d>>
    OBVIOUS
  <2>3. Flow({}, s)
    BY <1>1, <2>1, <2>2, OneCall, FlowSent
  <2>4. PICK n : page' = page \/ page' = [page EXCEPT !.login = n, !.note = Blank]
    BY <1>6 DEF LoginPage, loginAs, logout
  <2>5. page'.at = page.at /\ page'.shown = page.shown
    BY <1>1, <2>4 DEF IsPage, PageField
  <2>6. cookie' = cookie
    BY <1>6 DEF LoginPage, loginAs, logout
  <2> QED
    BY <2>3, <2>5, <2>6, HeldFlow
<1>7. CASE \E p \in Page : Navigate(p)
  <2>1. PICK p \in Page : Mount(p, session.traits, Survivors(old))
    BY <1>3, <1>7 DEF Navigate
  <2> QED
    BY <1>1, <1>4, <2>1, HeldMounted
<1>8. ASSUME NEW c \in Calls, RoomsServes(c) PROVE Held
  <2>1. page.at = "chat"
    BY <1>8 DEF WInv, CallsOK, CallOf, RoomsServes, roomsApi, Fits, SessionKind, emitApi
  <2> QED
    BY <1>8, <2>1, HeldElsewhere DEF RoomsServes
<1>9. CASE \E c \in BagToSet(calls) : RoomsServes(c) \/ \E status \in request(c) : Answered(c, status)
  BY <1>8, <1>9, SessionHeld, ReadHeld, ClickHeld, TokenHeld DEF Calls, Answered
<1>10. CASE \E h \in Hook : Opens(h) \/ Breaks(h) \/ Retries(h)
  <2>1. cookie' = cookie
    BY <1>10 DEF Opens, Breaks, Retries, Still
  <2>2. \/ (UNCHANGED calls /\ (page' = page \/ page' = [page EXCEPT !.token = None]))
        \/ Render(page, {"event"}, session.traits, "established", calls)
    BY <1>10 DEF Hook, Opens, Breaks, Retries
  <2>3. CASE UNCHANGED calls /\ (page' = page \/ page' = [page EXCEPT !.token = None])
    <3>1. page'.at = page.at /\ page'.shown = page.shown
      BY <1>1, <2>3 DEF IsPage, PageField
    <3> QED
      BY <2>1, <2>3, <3>1, HeldSame
  <2> QED
    BY <1>5, <2>1, <2>2, <2>3
<1>11. CASE \E e \in SSE_APPLICATION_EVENT_NAMES \cup PRESENCE_EVENT_NAME_SET : FeedEvent(e)
  BY <1>5, <1>11 DEF FeedEvent, Still
<1>12. CASE ConnectionLabPage \/ ManagedConnection
  BY <1>12, HeldSame DEF ConnectionLabPage, ManagedConnection, SetPanel, Still
<1>13. CASE SocketOpens \/ SocketBreaks
  <2>1. UNCHANGED <<cookie, calls>>
    BY <1>13 DEF SocketOpens, SocketBreaks, Set, Still
  <2>2. PICK n, who : \/ page' = [page EXCEPT !.reads = n, !.live = n, !.owner = who]
                      \/ page' = [page EXCEPT !.live = 0, !.owner = None]
    BY <1>13 DEF SocketOpens, SocketBreaks, SocketGone, Set
  <2>3. page'.at = page.at /\ page'.shown = page.shown
    BY <1>1, <2>2 DEF IsPage, PageField
  <2> QED
    BY <2>1, <2>3, HeldSame
<1>14. CASE \E panel \in {"sse", "ws"} : SplitPanel(panel)
  <2>1. PICK n : Set([page EXCEPT !.sse = n]) \/ Set([page EXCEPT !.ws = n])
    BY <1>14 DEF SplitPanel, onNonce
  <2>2. PICK p : Set(p) /\ (p = [page EXCEPT !.sse = n] \/ p = [page EXCEPT !.ws = n])
    BY <2>1
  <2>3. Touched(p)
    BY <1>1, <2>2, FieldTouched
  <2> QED
    BY <2>2, <2>3, HeldSet
<1>15. CASE Control
  BY <1>15, ControlHeld
<1> QED
  BY <1>6, <1>7, <1>9, <1>10, <1>11, <1>12, <1>13, <1>14, <1>15 DEF Next

-----------------------------------------------------------------------------
LEMMA QueueInit == Init => QueueOK
<1>1. SUFFICES ASSUME Init PROVE QueueOK
  OBVIOUS
<1>2. PICK p \in Page : /\ page = Fresh(p)
                        /\ calls = SeqBag(<<Call(cookie, "me", "mount", 0)>>
                                          \o Loads(Fresh(p), {"mount"}, None, None, cookie))
  BY <1>1 DEF Init
<1>3. PICK m, l, s : /\ m = Call(cookie, "me", "mount", 0)
                     /\ l = Loads(Fresh(p), {"mount"}, None, None, cookie) /\ s = <<m>> \o l
  OBVIOUS
<1>4. m.kind = "me"
  BY <1>3, CallFields
<1>5. Fresh(p).reads \in Nat /\ page.shown = None
  BY <1>2 DEF Fresh
<1>6. l \in Seq(Range(l)) /\ \A c \in Range(l) : c.kind \in Loadable
  BY <1>3, <1>5, LoadsCalls DEF Loaded
<1>7. m \notin Range(l)
  BY <1>4, <1>6 DEF Loadable, Reads
<1>8. calls = SeqBag(s)
  BY <1>2, <1>3
<1>9. Calls = {m} \cup Range(l)
  BY <1>3, <1>6, <1>7, <1>8, FirstCalls DEF Calls
<1>10. \A c \in Calls : c.kind \notin {"offlineEmit", "ack"}
  BY <1>4, <1>6, <1>9 DEF Loadable, Reads
<1> QED
  BY <1>5, <1>10 DEF QueueOK

LEMMA QueueSame ==
  ASSUME QueueOK, UNCHANGED vars
  PROVE  QueueOK'
BY DEF QueueOK, AtQueue, Calls, vars

\* A queue on the offline page, and what a click on it sent, are an admin's, and the user
\* the page works for is the one it is signed in for, as long as no navigation is due.
THEOREM QueueOfAdmins == Spec => []QueueOK
<1>1. WInv /\ WInv' /\ QueueOK /\ [Next]_vars => QueueOK'
  BY StepFine, StepHeld, QueueKept, QueueSame
<1> QED
  BY <1>1, QueueInit, Invariant, PTL DEF Spec

\* As long as the session context is right, what a page sends is refused for its shape
\* only if it is sent as it was typed, and for who sends it only if the page leaves that
\* to the guard: the checks of the forms and pages are no weaker than the schemas and
\* guards of the API, whatever is in flight (emit-schema.ts:18-24,
\* offline/page.tsx:40-53,76-97, reauth/page.tsx:72-81, replay/page.tsx:89-93).
THEOREM CheckedIsAccepted == Spec => OnlyUncheckedRefused
<1> DEFINE Accepts == (AtRest /\ ~unsure)' =>
       \A c \in BagToSet(calls') \ BagToSet(calls) : c.served = 0 =>
         /\ 400 \in Statuses(c) => Unchecked(c)
         /\ 403 \in Statuses(c) => LeftToGuard(c)
<1>1. WInv /\ WInv' /\ QueueOK /\ Next => Accepts
  BY StepFine DEF AllFine, Settled, Fine, Calls
<1>2. WInv /\ WInv' /\ QueueOK /\ [Next]_vars => [Accepts]_vars
  BY <1>1
<1> QED
  BY <1>2, Invariant, QueueOfAdmins, PTL DEF Spec, OnlyUncheckedRefused
=============================================================================
