----------------------------- MODULE RoomsProofs -----------------------------
(***************************************************************************)
(* Proofs about Rooms for every set of connections, users and rooms, every *)
(* limit and capacity.                                                     *)
(***************************************************************************)
EXTENDS Rooms, SequenceFacts, FiniteSetTheorems

\* The stages of a connection, from both of its ends.
StagesAgree ==
  \A c \in Conn :
    /\ socket[c] = "none" <=> handshake[c] = "none"
    /\ transport[c] = None <=> handshake[c] = "none"
    /\ Registered(c) => handshake[c] \in {"evicting", "done"}
    /\ c \in announced => handshake[c] = "done"

\* Neither side remembers the rooms of a connection that is not registered.
NoRoomsOutside ==
  \A c \in Conn : ~ Registered(c) => rooms[c] = {} /\ byConnection[c] = {}

\* The log has connections that were announced, once each, and knows which of
\* them are still open, those announced too late aside.
LogOf(log, known, tardy, open) ==
  /\ Len(log) <= LOG_CAPACITY
  /\ \A i, j \in DOMAIN log : log[i].conn = log[j].conn => i = j
  /\ \A i \in DOMAIN log :
       /\ log[i].conn \in known
       /\ log[i].conn \notin tardy => (log[i].end = None <=> log[i].conn \in open)
LogTrue == LogOf(entries, announced, late, Range(registry))

\* What the limiter remembers of a socket that is up is what was let through
\* within the window, and nothing else counts.
WindowTrue ==
  \A c \in Conn :
    /\ socket[c] = "up" => Recent(timestampsByConnection[c]) = Recent(admitted[c])
    /\ ~ WebSocket(c) => timestampsByConnection[c] = <<>> /\ admitted[c] = <<>>
    /\ \A i, j \in DOMAIN admitted[c] :
         admitted[c][i] <= now /\ (i <= j => admitted[c][i] <= admitted[c][j])

\* Connections whose hook of this phase awaits presence, and those that were
\* registered once and are no longer.
Pending(phase) == {c \in Conn : [phase |-> phase, conn |-> c] \in hooks}
Gone == {c \in Conn : handshake[c] \in {"evicting", "done"} /\ ~ Registered(c)}

\* Every connection announced, and every one gone, is counted or about to be.
CountsTrue ==
  /\ Pending("connect") \subseteq announced /\ Pending("disconnect") \subseteq Gone
  /\ connects + Cardinality(Pending("connect")) = Cardinality(announced)
  /\ disconnects + Cardinality(Pending("disconnect")) = Cardinality(Gone)

RInv ==
  /\ TypeOK /\ StagesAgree /\ NoRoomsOutside /\ TrackerMirrors /\ OnlyMembers
  /\ LogTrue /\ WindowTrue /\ RateExact /\ CountsTrue

-----------------------------------------------------------------------------
(* TypeOK, by the part of the state it is about.                           *)

Entry == [conn : Conn, end : Reasons \cup {None}]
Fact  == [kind : {"connect", "disconnect", "error", "reauth-failed"}, conn : Conn]

ConnTypes ==
  /\ transport \in [Conn -> {None, "sse", "websocket"}]
  /\ socket \in [Conn -> {"none", "up", "down"}]
  /\ handshake \in [Conn -> {"none", "auth", "refused", "evicting", "done"}]
  /\ waitsFor \in [Conn -> Conn \cup {None}]
  /\ \A c \in Conn : waitsFor[c] # None <=> handshake[c] = "evicting"
  /\ registry \in Seq(Conn) /\ IsInjective(registry)
RoomTypes == rooms \in [Conn -> SUBSET Room] /\ byConnection \in [Conn -> SUBSET Room]
ChatTypes ==
  /\ timestampsByConnection \in [Conn -> Seq(0..MaxTime)]
  /\ \A c \in Conn : Len(timestampsByConnection[c]) <= MAX_MESSAGES_PER_WINDOW
                      /\ (socket[c] # "up" => timestampsByConnection[c] = <<>>)
  /\ sends \in 0..MaxSends /\ admitted \in [Conn -> Seq(0..MaxTime)]
  /\ starved \in BOOLEAN /\ intruded \in BOOLEAN
Trails == [log : Seq(Entry), ring : {s \in Seq(Fact) : Len(s) <= AUDIT_CAPACITY},
           calls : SUBSET Call]
TrailTypes ==
  /\ Trail \in Trails
  /\ announced \subseteq Conn /\ late \subseteq announced
CountTypes == connects \in Nat /\ disconnects \in Nat

LEMMA TypeParts ==
  /\ TypeOK <=> /\ now \in 0..MaxTime
                /\ ConnTypes /\ RoomTypes /\ ChatTypes /\ TrailTypes /\ CountTypes
  /\ TypeOK' <=> /\ now' \in 0..MaxTime
                 /\ ConnTypes' /\ RoomTypes' /\ ChatTypes' /\ TrailTypes' /\ CountTypes'
<1>1. TypeOK <=> /\ now \in 0..MaxTime
                 /\ ConnTypes /\ RoomTypes /\ ChatTypes /\ TrailTypes /\ CountTypes
  BY DEF TypeOK, ConnTypes, RoomTypes, ChatTypes, TrailTypes, CountTypes, Trails, Trail, Entry, Fact
<1>2. TypeOK' <=> /\ now' \in 0..MaxTime
                  /\ ConnTypes' /\ RoomTypes' /\ ChatTypes' /\ TrailTypes' /\ CountTypes'
  BY DEF TypeOK, ConnTypes, RoomTypes, ChatTypes, TrailTypes, CountTypes, Trails, Trail, Entry, Fact
<1> QED BY <1>1, <1>2

LEMMA Positive ==
  /\ None \notin Conn /\ None \notin Reasons /\ None # "sse" /\ None # "websocket"
  /\ IsFiniteSet(Conn)
  /\ maxConnectionsPerUser \in Nat \ {0} /\ MAX_MESSAGES_PER_WINDOW \in Nat \ {0}
  /\ WINDOW_MS \in Nat \ {0} /\ AUDIT_CAPACITY \in Nat \ {0} /\ LOG_CAPACITY \in Nat \ {0}
  /\ MaxTime \in Nat /\ MaxSends \in Nat
BY ConstantsAssumption

-----------------------------------------------------------------------------
(* What the hooks write.                                                   *)

LEMMA RecordKeeps ==
  ASSUME NEW ring \in Seq(Fact), NEW new \in Seq(Fact)
  PROVE  record(ring, new) \in {s \in Seq(Fact) : Len(s) <= AUDIT_CAPACITY}
<1>1. PICK all : all = ring \o new
  OBVIOUS
<1>2. all \in Seq(Fact) /\ Len(all) \in Nat
  BY <1>1
<1>3. AUDIT_CAPACITY \in Nat \ {0}
  BY Positive
<1>4. CASE Len(all) <= AUDIT_CAPACITY
  BY <1>1, <1>2, <1>4 DEF record
<1>5. CASE ~ (Len(all) <= AUDIT_CAPACITY)
  <2>1. record(ring, new) = SubSeq(all, Len(all) - AUDIT_CAPACITY + 1, Len(all))
    BY <1>1, <1>5 DEF record
  <2>2. Len(all) - AUDIT_CAPACITY + 1 \in 1..Len(all)
    BY <1>2, <1>3, <1>5
  <2>3. /\ SubSeq(all, Len(all) - AUDIT_CAPACITY + 1, Len(all)) \in Seq(Fact)
        /\ Len(SubSeq(all, Len(all) - AUDIT_CAPACITY + 1, Len(all))) = AUDIT_CAPACITY
    BY <1>2, <1>3, <2>2
  <2> QED BY <1>3, <2>1, <2>3
<1> QED BY <1>4, <1>5

\* Closing entries: their number and their connections stay.
LEMMA LogEnds ==
  ASSUME NEW log \in Seq(Entry), NEW gone \in SUBSET Conn, NEW ends \in [gone -> Reasons],
         NEW known, NEW tardy, NEW open, LogOf(log, known, tardy, open)
  PROVE  /\ logDisconnect(log, ends) \in Seq(Entry)
         /\ LogOf(logDisconnect(log, ends), known, tardy, open \ gone)
<1>1. PICK new : new = logDisconnect(log, ends)
  OBVIOUS
<1>2. /\ DOMAIN log = 1..Len(log) /\ Len(log) \in Nat
      /\ \A i \in 1..Len(log) : log[i] \in Entry
      /\ DOMAIN ends = gone /\ None \notin Reasons
  BY Positive
<1>3. \A e \in Entry : /\ e.conn \in Conn /\ e.end \in Reasons \cup {None}
                       /\ \A x \in Reasons \cup {None} :
                            /\ [e EXCEPT !.end = x] \in Entry
                            /\ [e EXCEPT !.end = x].conn = e.conn
                            /\ [e EXCEPT !.end = x].end = x
  BY DEF Entry
<1>4. new = [i \in 1..Len(log) |-> IF log[i].conn \in gone
                                   THEN [log[i] EXCEPT !.end = ends[log[i].conn]] ELSE log[i]]
  BY <1>1, <1>2 DEF logDisconnect
<1>5. \A i \in 1..Len(log) : /\ new[i] \in Entry
                             /\ new[i].conn = log[i].conn
                             /\ new[i].end = IF log[i].conn \in gone THEN ends[log[i].conn]
                                                                      ELSE log[i].end
  <2> TAKE i \in 1..Len(log)
  <2>1. log[i] \in Entry
    BY <1>2
  <2>2. CASE log[i].conn \in gone
    <3>1. ends[log[i].conn] \in Reasons
      BY <2>2
    <3> QED BY <1>3, <1>4, <2>1, <2>2, <3>1
  <2>3. CASE log[i].conn \notin gone
    BY <1>4, <2>1, <2>3
  <2> QED BY <2>2, <2>3
<1>6. new \in Seq(Entry) /\ Len(new) = Len(log) /\ DOMAIN new = 1..Len(log)
  BY <1>2, <1>4, <1>5
<1>7. /\ Len(log) <= LOG_CAPACITY
      /\ \A i, j \in 1..Len(log) : log[i].conn = log[j].conn => i = j
      /\ \A i \in 1..Len(log) : log[i].conn \in known
      /\ \A i \in 1..Len(log) :
           log[i].conn \notin tardy => (log[i].end = None <=> log[i].conn \in open)
  BY <1>2 DEF LogOf
<1>8. \A i \in 1..Len(log) :
        new[i].conn \notin tardy => (new[i].end = None <=> new[i].conn \in open \ gone)
  <2> SUFFICES ASSUME NEW i \in 1..Len(log), new[i].conn \notin tardy
               PROVE  new[i].end = None <=> new[i].conn \in open \ gone
    OBVIOUS
  <2>1. CASE log[i].conn \in gone
    <3>1. ends[log[i].conn] \in Reasons
      BY <2>1
    <3> QED BY <1>2, <1>5, <2>1, <3>1
  <2>2. CASE log[i].conn \notin gone
    BY <1>5, <1>7, <2>2
  <2> QED BY <2>1, <2>2
<1>9. LogOf(new, known, tardy, open \ gone)
  BY <1>5, <1>6, <1>7, <1>8 DEF LogOf
<1> QED BY <1>1, <1>6, <1>9

\* A new entry: of a connection the log does not have, so none is twice there;
\* over capacity the oldest goes.
LEMMA LogOpens ==
  ASSUME NEW log \in Seq(Entry), NEW c \in Conn, NEW known, NEW tardy, NEW open,
         tardy \subseteq known, c \notin known, LogOf(log, known, tardy, open)
  PROVE  /\ logConnect(log, c) \in Seq(Entry)
         /\ LogOf(logConnect(log, c), known \cup {c},
                  IF c \in open THEN tardy ELSE tardy \cup {c}, open)
<1>1. PICK entry : entry = [conn |-> c, end |-> None]
  OBVIOUS
<1>2. entry \in Entry /\ entry.conn = c /\ entry.end = None
  BY <1>1 DEF Entry
<1>3. PICK grown : grown = Append(log, entry)
  OBVIOUS
<1>4. /\ grown \in Seq(Entry) /\ Len(grown) = Len(log) + 1 /\ Len(log) \in Nat
      /\ \A i \in 1..Len(log) : grown[i] = log[i]
      /\ grown[Len(log) + 1] = entry
  BY <1>2, <1>3
<1>5. LOG_CAPACITY \in Nat \ {0}
  BY Positive
<1> DEFINE tardier == IF c \in open THEN tardy ELSE tardy \cup {c}
<1>6. /\ Len(log) <= LOG_CAPACITY
      /\ \A i, j \in 1..Len(log) : log[i].conn = log[j].conn => i = j
      /\ \A i \in 1..Len(log) : log[i].conn \in known
      /\ \A i \in 1..Len(log) :
           log[i].conn \notin tardy => (log[i].end = None <=> log[i].conn \in open)
  BY DEF LogOf
<1>7. \A i \in 1..Len(grown) : i \in 1..Len(log) \/ i = Len(log) + 1
  BY <1>4
<1>8. \A i, j \in 1..Len(grown) : grown[i].conn = grown[j].conn => i = j
  BY <1>2, <1>4, <1>6, <1>7
<1>9. \A i \in 1..Len(grown) : grown[i].conn \in known \cup {c}
  BY <1>2, <1>4, <1>6, <1>7
<1>10. \A i \in 1..Len(grown) :
         grown[i].conn \notin tardier => (grown[i].end = None <=> grown[i].conn \in open)
  <2> SUFFICES ASSUME NEW i \in 1..Len(grown), grown[i].conn \notin tardier
               PROVE  grown[i].end = None <=> grown[i].conn \in open
    OBVIOUS
  <2>1. CASE i \in 1..Len(log)
    BY <1>4, <1>6, <2>1
  <2>2. CASE i = Len(log) + 1
    BY <1>2, <1>4, <2>2
  <2> QED BY <1>7, <2>1, <2>2
<1> HIDE DEF tardier
<1>11. CASE Len(grown) <= LOG_CAPACITY
  <2>1. logConnect(log, c) = grown
    BY <1>1, <1>3, <1>4, <1>5, <1>11 DEF logConnect
  <2>2. DOMAIN grown = 1..Len(grown)
    BY <1>4
  <2>3. LogOf(grown, known \cup {c}, tardier, open)
    BY <1>8, <1>9, <1>10, <1>11, <2>2 DEF LogOf
  <2> QED BY <1>4, <2>1, <2>3 DEF tardier
<1>12. CASE Len(grown) > LOG_CAPACITY
  <2>1. logConnect(log, c) = Tail(grown)
    BY <1>1, <1>3, <1>12 DEF logConnect
  <2>2. PICK rest : rest = Tail(grown)
    OBVIOUS
  <2>3. /\ rest \in Seq(Entry) /\ Len(rest) = Len(log) /\ DOMAIN rest = 1..Len(rest)
        /\ \A i \in 1..Len(rest) : rest[i] = grown[i + 1] /\ i + 1 \in 1..Len(grown)
    BY <1>4, <2>2
  <2>4. \A i, j \in 1..Len(rest) : rest[i].conn = rest[j].conn => i = j
    <3> SUFFICES ASSUME NEW i \in 1..Len(rest), NEW j \in 1..Len(rest),
                        rest[i].conn = rest[j].conn
                 PROVE  i = j
      OBVIOUS
    <3>1. i + 1 = j + 1
      BY <1>8, <2>3
    <3> QED BY <1>4, <2>3, <3>1
  <2>5. ASSUME NEW i \in 1..Len(rest)
        PROVE  /\ rest[i].conn \in known \cup {c}
               /\ rest[i].conn \notin tardier => (rest[i].end = None <=> rest[i].conn \in open)
    BY <1>9, <1>10, <2>3
  <2>6. LogOf(rest, known \cup {c}, tardier, open)
    BY <1>6, <2>3, <2>4, <2>5 DEF LogOf
  <2> QED BY <2>1, <2>2, <2>3, <2>6 DEF tardier
<1> QED BY <1>4, <1>5, <1>11, <1>12

\* A hook writes a trail, given one.
LEMMA HooksError ==
  ASSUME NEW t \in Trails, NEW c \in Conn
  PROVE  /\ onError(t, c) \in Trails /\ onReauthenticationFailed(t, c) \in Trails
         /\ onError(t, c).log = t.log /\ onError(t, c).calls = t.calls
         /\ onReauthenticationFailed(t, c).log = t.log
         /\ onReauthenticationFailed(t, c).calls = t.calls
<1>1. /\ t.log \in Seq(Entry) /\ t.ring \in Seq(Fact) /\ t.calls \in SUBSET Call
      /\ t = [log |-> t.log, ring |-> t.ring, calls |-> t.calls]
  BY DEF Trails
<1>2. ASSUME NEW ring \in {s \in Seq(Fact) : Len(s) <= AUDIT_CAPACITY}
      PROVE  /\ [t EXCEPT !.ring = ring] \in Trails
             /\ [t EXCEPT !.ring = ring].log = t.log /\ [t EXCEPT !.ring = ring].calls = t.calls
  BY DEF Trails
<1>4. /\ <<[kind |-> "error", conn |-> c]>> \in Seq(Fact)
      /\ <<[kind |-> "reauth-failed", conn |-> c]>> \in Seq(Fact)
  BY DEF Fact
<1>5. PICK e : e = record(t.ring, <<[kind |-> "error", conn |-> c]>>)
  OBVIOUS
<1>6. PICK r : r = record(t.ring, <<[kind |-> "reauth-failed", conn |-> c]>>)
  OBVIOUS
<1>7. /\ e \in {s \in Seq(Fact) : Len(s) <= AUDIT_CAPACITY}
      /\ r \in {s \in Seq(Fact) : Len(s) <= AUDIT_CAPACITY}
  BY <1>1, <1>4, <1>5, <1>6, RecordKeeps
<1>8. /\ onError(t, c) = [t EXCEPT !.ring = e]
      /\ onReauthenticationFailed(t, c) = [t EXCEPT !.ring = r]
  BY <1>5, <1>6 DEF onError, onReauthenticationFailed
<1> QED BY <1>2, <1>7, <1>8

LEMMA HooksEnd ==
  ASSUME NEW t \in Trails, NEW gone \in Seq(Conn), NEW ends \in [Range(gone) -> Reasons],
         logDisconnect(t.log, ends) \in Seq(Entry)
  PROVE  /\ onDisconnect(t, gone, ends) \in Trails
         /\ onDisconnect(t, gone, ends).log = logDisconnect(t.log, ends)
         /\ onDisconnect(t, gone, ends).calls
              = t.calls \cup [phase : {"disconnect"}, conn : Range(gone)]
<1>1. /\ t.log \in Seq(Entry) /\ t.ring \in Seq(Fact) /\ t.calls \in SUBSET Call
      /\ t = [log |-> t.log, ring |-> t.ring, calls |-> t.calls]
  BY DEF Trails
<1>3. \A log \in Seq(Entry) : \A ring \in {s \in Seq(Fact) : Len(s) <= AUDIT_CAPACITY} :
        \A calls \in SUBSET Call :
          LET u == [log |-> log, ring |-> ring, calls |-> calls]
          IN u \in Trails /\ u.log = log /\ u.calls = calls
  BY DEF Trails
<1>4. PICK new : new = [i \in DOMAIN gone |-> [kind |-> "disconnect", conn |-> gone[i]]]
  OBVIOUS
<1>5. /\ DOMAIN gone = 1..Len(gone) /\ Len(gone) \in Nat
      /\ \A i \in 1..Len(gone) : [kind |-> "disconnect", conn |-> gone[i]] \in Fact
  BY DEF Fact
<1>6. new \in Seq(Fact)
  BY <1>4, <1>5
<1>7. PICK ring : ring = record(t.ring, new)
  OBVIOUS
<1>8. ring \in {s \in Seq(Fact) : Len(s) <= AUDIT_CAPACITY}
  BY <1>1, <1>6, <1>7, RecordKeeps
<1>9. PICK calls : calls = t.calls \cup [phase : {"disconnect"}, conn : Range(gone)]
  OBVIOUS
<1>10. Range(gone) \subseteq Conn
  BY RangeIs
<1>11. calls \in SUBSET Call
  BY <1>1, <1>9, <1>10 DEF Call
<1>12. PICK log : log = logDisconnect(t.log, ends)
  OBVIOUS
<1>13. onDisconnect(t, gone, ends) = [log |-> log, ring |-> ring, calls |-> calls]
  BY <1>4, <1>7, <1>9, <1>12 DEF onDisconnect
<1>14. log \in Seq(Entry)
  BY <1>12
<1> QED BY <1>3, <1>8, <1>9, <1>11, <1>12, <1>13, <1>14

LEMMA HooksOpen ==
  ASSUME NEW t \in Trails, NEW c \in Conn, logConnect(t.log, c) \in Seq(Entry)
  PROVE  /\ onConnect(t, c) \in Trails
         /\ onConnect(t, c).log = logConnect(t.log, c)
         /\ onConnect(t, c).calls = t.calls \cup {[phase |-> "connect", conn |-> c]}
<1>1. /\ t.log \in Seq(Entry) /\ t.ring \in Seq(Fact) /\ t.calls \in SUBSET Call
      /\ t = [log |-> t.log, ring |-> t.ring, calls |-> t.calls]
  BY DEF Trails
<1>3. \A log \in Seq(Entry) : \A ring \in {s \in Seq(Fact) : Len(s) <= AUDIT_CAPACITY} :
        \A calls \in SUBSET Call :
          LET u == [log |-> log, ring |-> ring, calls |-> calls]
          IN u \in Trails /\ u.log = log /\ u.calls = calls
  BY DEF Trails
<1>4. <<[kind |-> "connect", conn |-> c]>> \in Seq(Fact)
  BY DEF Fact
<1>5. PICK ring : ring = record(t.ring, <<[kind |-> "connect", conn |-> c]>>)
  OBVIOUS
<1>6. ring \in {s \in Seq(Fact) : Len(s) <= AUDIT_CAPACITY}
  BY <1>1, <1>4, <1>5, RecordKeeps
<1>7. PICK calls : calls = t.calls \cup {[phase |-> "connect", conn |-> c]}
  OBVIOUS
<1>8. calls \in SUBSET Call
  BY <1>1, <1>7 DEF Call
<1>9. PICK log : log = logConnect(t.log, c)
  OBVIOUS
<1>10. onConnect(t, c) = [log |-> log, ring |-> ring, calls |-> calls]
  BY <1>5, <1>7, <1>9 DEF onConnect
<1>11. log \in Seq(Entry)
  BY <1>9
<1> QED BY <1>3, <1>6, <1>7, <1>8, <1>9, <1>10, <1>11

LEMMA DisjointCount ==
  ASSUME NEW A, NEW B, IsFiniteSet(A), IsFiniteSet(B), A \cap B = {}
  PROVE  Cardinality(A \cup B) = Cardinality(A) + Cardinality(B)
<1>1. Cardinality(A \cup B) = Cardinality(A) + Cardinality(B) - Cardinality(A \cap B)
  BY FS_Union
<1>2. Cardinality(A \cap B) = 0
  BY FS_EmptySet
<1>3. Cardinality(A) \in Nat /\ Cardinality(B) \in Nat
  BY FS_CardinalityType
<1> QED BY <1>1, <1>2, <1>3

\* Counting: as many are added on both sides.
LEMMA CountMore ==
  ASSUME NEW A, NEW P \in SUBSET A, NEW G, IsFiniteSet(A), IsFiniteSet(G), A \cap G = {},
         NEW n \in Nat, n + Cardinality(P) = Cardinality(A)
  PROVE  n + Cardinality(P \cup G) = Cardinality(A \cup G)
<1>1. IsFiniteSet(P) /\ P \cap G = {}
  BY FS_Subset
<1>2. /\ Cardinality(P \cup G) = Cardinality(P) + Cardinality(G)
      /\ Cardinality(A \cup G) = Cardinality(A) + Cardinality(G)
  BY <1>1, DisjointCount
<1>3. Cardinality(P) \in Nat /\ Cardinality(A) \in Nat /\ Cardinality(G) \in Nat
  BY <1>1, FS_CardinalityType
<1> QED BY <1>2, <1>3

\* Counting: one that was waiting is counted.
LEMMA CountOne ==
  ASSUME NEW A, NEW P \in SUBSET A, NEW x \in P, IsFiniteSet(A),
         NEW n \in Nat, n + Cardinality(P) = Cardinality(A)
  PROVE  n + 1 + Cardinality(P \ {x}) = Cardinality(A)
<1>1. IsFiniteSet(P)
  BY FS_Subset
<1>2. Cardinality(P \ {x}) = Cardinality(P) - 1
  BY <1>1, FS_RemoveElement
<1>3. Cardinality(P) \in Nat /\ Cardinality(A) \in Nat
  BY <1>1, FS_CardinalityType
<1> QED BY <1>2, <1>3

-----------------------------------------------------------------------------
(* A departure, whatever caused it: the rooms and the rate of the rest are *)
(* as they were.                                                           *)

LEMMA Departs ==
  ASSUME TypeOK, NoRoomsOutside, TrackerMirrors, OnlyMembers, WindowTrue, RateExact,
         NEW reg \in Seq(Conn), IsInjective(reg), Range(registry) \subseteq Range(reg),
         NEW gone \in SUBSET Conn, Unregister(reg, gone), release(gone),
         UNCHANGED <<now, transport, sends, admitted, starved, intruded>>
  PROVE  /\ registry' \in Seq(Conn) /\ IsInjective(registry')
         /\ Range(registry') = Range(reg) \ gone
         /\ socket' \in [Conn -> {"none", "up", "down"}]
         /\ \A c \in Conn : socket'[c] = IF c \in gone THEN "down" ELSE socket[c]
         /\ RoomTypes' /\ NoRoomsOutside' /\ TrackerMirrors'
         /\ ChatTypes' /\ OnlyMembers' /\ WindowTrue' /\ RateExact'
<1>1. ConnTypes /\ RoomTypes /\ ChatTypes
  BY TypeParts
<1>2. /\ registry' = Kept(reg, Conn \ gone)
      /\ rooms' = [c \in Conn |-> IF c \in gone THEN {} ELSE rooms[c]]
      /\ byConnection' = [c \in Conn |-> IF c \in gone THEN {} ELSE byConnection[c]]
      /\ socket' = [c \in Conn |-> IF c \in gone THEN "down" ELSE socket[c]]
  BY DEF Unregister, forget
<1>3. PICK r : r = registry'
  OBVIOUS
<1>4. /\ r \in Seq(Conn) /\ Range(r) = Range(reg) \cap (Conn \ gone) /\ IsInjective(r)
  BY <1>2, <1>3, KeptRange
<1>5. Range(reg) \subseteq Conn
  BY RangeIs
<1>6. registry' \in Seq(Conn) /\ IsInjective(registry') /\ Range(registry') = Range(reg) \ gone
  BY <1>3, <1>4, <1>5 DEF Range, IsInjective
<1>7. \A c \in Conn : Registered(c)' <=> c \in Range(reg) \ gone
  BY <1>6 DEF Registered, Range
<1>8. \A c \in Conn : Registered(c) => c \in Range(reg)
  BY DEF Registered
<1>9. /\ socket' \in [Conn -> {"none", "up", "down"}]
      /\ \A c \in Conn : socket'[c] = IF c \in gone THEN "down" ELSE socket[c]
  BY <1>1, <1>2 DEF ConnTypes
<1>10. RoomTypes'
  BY <1>1, <1>2 DEF RoomTypes
<1>11. \A c \in Conn : /\ rooms'[c] = IF c \in gone THEN {} ELSE rooms[c]
                       /\ byConnection'[c] = IF c \in gone THEN {} ELSE byConnection[c]
  BY <1>2
<1>12. NoRoomsOutside'
  <2> SUFFICES ASSUME NEW c \in Conn, ~ Registered(c)'
               PROVE  rooms'[c] = {} /\ byConnection'[c] = {}
    BY DEF NoRoomsOutside
  <2>1. CASE c \in gone
    BY <1>11, <2>1
  <2>2. CASE c \notin gone
    <3>1. ~ Registered(c)
      BY <1>7, <1>8, <2>2
    <3> QED BY <1>11, <2>2, <3>1 DEF NoRoomsOutside
  <2> QED BY <2>1, <2>2
<1>13. TrackerMirrors'
  <2> SUFFICES ASSUME NEW c \in Conn
               PROVE  /\ ~ Registered(c)' => byConnection'[c] = {}
                      /\ Registered(c)' /\ Joinable(c)' => byConnection'[c] = rooms'[c]
    BY DEF TrackerMirrors
  <2>1. ~ Registered(c)' => byConnection'[c] = {}
    BY <1>12 DEF NoRoomsOutside
  <2>2. ASSUME Registered(c)', Joinable(c)' PROVE byConnection'[c] = rooms'[c]
    <3>1. c \notin gone
      BY <1>7, <2>2
    <3>2. Joinable(c)
      BY <1>9, <2>2, <3>1 DEF Joinable, Sse
    <3>3. CASE Registered(c)
      BY <1>11, <3>1, <3>2, <3>3 DEF TrackerMirrors
    <3>4. CASE ~ Registered(c)
      BY <1>11, <3>1, <3>4 DEF NoRoomsOutside
    <3> QED BY <3>3, <3>4
  <2> QED BY <2>1, <2>2
<1>14. \A c \in Conn : timestampsByConnection'[c]
         = IF c \in gone /\ WebSocket(c) THEN <<>> ELSE timestampsByConnection[c]
  BY DEF release
<1>15. \A c \in Conn : c \in gone => timestampsByConnection'[c] = <<>>
  BY <1>14 DEF WindowTrue
<1>16. ChatTypes'
  <2>1. timestampsByConnection' \in [Conn -> Seq(0..MaxTime)]
    <3>1. <<>> \in Seq(0..MaxTime)
      OBVIOUS
    <3>2. timestampsByConnection' =
            [c \in Conn |-> IF c \in gone /\ WebSocket(c) THEN <<>> ELSE timestampsByConnection[c]]
      BY DEF release
    <3>3. timestampsByConnection \in [Conn -> Seq(0..MaxTime)]
      BY <1>1 DEF ChatTypes
    <3> QED BY <3>1, <3>2, <3>3
  <2>2. ASSUME NEW c \in Conn
        PROVE  /\ Len(timestampsByConnection'[c]) <= MAX_MESSAGES_PER_WINDOW
               /\ socket'[c] # "up" => timestampsByConnection'[c] = <<>>
    <3>1. CASE c \in gone
      <4>1. timestampsByConnection'[c] = <<>> /\ Len(<<>>) = 0
        BY <1>15, <3>1
      <4> QED BY <4>1, Positive
    <3>2. CASE c \notin gone
      BY <1>1, <1>9, <1>14, <3>2 DEF ChatTypes
    <3> QED BY <3>1, <3>2
  <2> QED BY <1>1, <2>1, <2>2 DEF ChatTypes
<1>17. WindowTrue'
  <2> SUFFICES ASSUME NEW c \in Conn
               PROVE  /\ socket'[c] = "up"
                           => Recent(timestampsByConnection[c])' = Recent(admitted[c])'
                      /\ ~ WebSocket(c)' => timestampsByConnection'[c] = <<>> /\ admitted'[c] = <<>>
                      /\ \A i, j \in DOMAIN admitted'[c] :
                           /\ admitted'[c][i] <= now'
                           /\ i <= j => admitted'[c][i] <= admitted'[c][j]
    BY DEF WindowTrue
  <2>1. ASSUME socket'[c] = "up"
        PROVE  Recent(timestampsByConnection[c])' = Recent(admitted[c])'
    <3>1. c \notin gone /\ socket[c] = "up"
      BY <1>9, <2>1
    <3>2. Recent(timestampsByConnection[c]) = Recent(admitted[c])
      BY <3>1 DEF WindowTrue
    <3>3. timestampsByConnection'[c] = timestampsByConnection[c]
      BY <1>14, <3>1
    <3> QED BY <3>2, <3>3 DEF Recent
  <2>2. ~ WebSocket(c)' => timestampsByConnection'[c] = <<>> /\ admitted'[c] = <<>>
    BY <1>14 DEF WindowTrue, WebSocket
  <2>3. \A i, j \in DOMAIN admitted'[c] :
          admitted'[c][i] <= now' /\ (i <= j => admitted'[c][i] <= admitted'[c][j])
    BY DEF WindowTrue
  <2> QED BY <2>1, <2>2, <2>3
<1>18. OnlyMembers' /\ RateExact'
  BY DEF OnlyMembers, RateExact
<1> QED BY <1>6, <1>9, <1>10, <1>12, <1>13, <1>16, <1>17, <1>18

-----------------------------------------------------------------------------
(* What a step does to the trail and to the counts.                        *)

LEMMA TrailOf ==
  /\ TypeOK => Trail \in Trails /\ Trail.log = entries /\ Trail.calls = hooks
  /\ \A t \in Trails : Written(t) =>
       /\ Trail' \in Trails /\ entries' = t.log /\ hooks' = t.calls
<1>1. TypeOK => Trail \in Trails
  BY TypeParts DEF TrailTypes
<1>2. Trail.log = entries /\ Trail.calls = hooks
  BY DEF Trail
<1>3. ASSUME NEW t \in Trails, Written(t)
      PROVE  Trail' \in Trails /\ entries' = t.log /\ hooks' = t.calls
  <2>1. entries' = t.log /\ audit' = t.ring /\ hooks' = t.calls
    BY <1>3 DEF Written
  <2>2. t = [log |-> t.log, ring |-> t.ring, calls |-> t.calls]
    BY DEF Trails
  <2> QED BY <2>1, <2>2 DEF Trail
<1> QED BY <1>1, <1>2, <1>3

\* Connections are gone and one may be announced; none was so before.
LEMMA CountsGrow ==
  ASSUME TypeOK, CountsTrue,
         NEW gone \in SUBSET Conn, NEW came \in SUBSET Conn,
         gone \cap Gone = {}, came \cap announced = {},
         hooks' = (hooks \cup [phase : {"disconnect"}, conn : gone])
                    \cup [phase : {"connect"}, conn : came],
         announced' = announced \cup came, Gone' = Gone \cup gone,
         UNCHANGED <<connects, disconnects>>
  PROVE  CountsTrue'
<1>1. \A c \in Conn :
        /\ [phase |-> "connect", conn |-> c] \in hooks'
             <=> [phase |-> "connect", conn |-> c] \in hooks \/ c \in came
        /\ [phase |-> "disconnect", conn |-> c] \in hooks'
             <=> [phase |-> "disconnect", conn |-> c] \in hooks \/ c \in gone
  <2> TAKE c \in Conn
  <2>1. /\ [phase |-> "connect", conn |-> c].phase # "disconnect"
        /\ [phase |-> "disconnect", conn |-> c].phase # "connect"
    OBVIOUS
  <2>2. /\ [phase |-> "connect", conn |-> c] \notin [phase : {"disconnect"}, conn : gone]
        /\ [phase |-> "disconnect", conn |-> c] \notin [phase : {"connect"}, conn : came]
    BY <2>1
  <2>3. /\ [phase |-> "connect", conn |-> c] \in [phase : {"connect"}, conn : came] <=> c \in came
        /\ [phase |-> "disconnect", conn |-> c] \in [phase : {"disconnect"}, conn : gone]
             <=> c \in gone
    OBVIOUS
  <2> QED BY <2>2, <2>3
<1>2. /\ Pending("connect")' = Pending("connect") \cup came
      /\ Pending("disconnect")' = Pending("disconnect") \cup gone
  BY <1>1 DEF Pending
<1>3. /\ IsFiniteSet(Gone) /\ IsFiniteSet(announced) /\ IsFiniteSet(gone) /\ IsFiniteSet(came)
      /\ connects \in Nat /\ disconnects \in Nat
  <2>1. announced \subseteq Conn /\ Gone \subseteq Conn
    BY TypeParts DEF TrailTypes, Gone
  <2>2. connects \in Nat /\ disconnects \in Nat
    BY TypeParts DEF CountTypes
  <2> QED BY <2>1, <2>2, Positive, FS_Subset
<1>4. PICK P : P = Pending("connect")
  OBVIOUS
<1>5. PICK Q : Q = Pending("disconnect")
  OBVIOUS
<1>6. PICK A : A = announced
  OBVIOUS
<1>7. PICK G : G = Gone
  OBVIOUS
<1>8. PICK n : n = connects
  OBVIOUS
<1>9. PICK m : m = disconnects
  OBVIOUS
<1>10. /\ P \in SUBSET A /\ n + Cardinality(P) = Cardinality(A)
       /\ Q \in SUBSET G /\ m + Cardinality(Q) = Cardinality(G)
  BY <1>4, <1>5, <1>6, <1>7, <1>8, <1>9 DEF CountsTrue
<1>11. n + Cardinality(P \cup came) = Cardinality(A \cup came)
  BY <1>3, <1>6, <1>8, <1>10, CountMore
<1>12. m + Cardinality(Q \cup gone) = Cardinality(G \cup gone)
  BY <1>3, <1>7, <1>9, <1>10, CountMore
<1>13. /\ Pending("connect")' = P \cup came /\ announced' = A \cup came
       /\ Pending("disconnect")' = Q \cup gone /\ Gone' = G \cup gone
       /\ connects' = n /\ disconnects' = m
  BY <1>2, <1>4, <1>5, <1>6, <1>7, <1>8, <1>9
<1> QED BY <1>10, <1>11, <1>12, <1>13 DEF CountsTrue

LEMMA RParts ==
  RInv => /\ TypeOK /\ StagesAgree /\ NoRoomsOutside /\ TrackerMirrors /\ OnlyMembers
          /\ LogTrue /\ WindowTrue /\ RateExact /\ CountsTrue
          /\ ConnTypes /\ RoomTypes /\ ChatTypes /\ TrailTypes /\ CountTypes
          /\ now \in 0..MaxTime
BY TypeParts DEF RInv

\* The library's listener on a connection that closes.
LEMMA ClosedTrail ==
  ASSUME RInv, NEW c \in Conn, NEW t \in Trails, t.log = entries, t.calls = hooks
  PROVE  /\ Closed(t, c) \in Trails
         /\ LogOf(Closed(t, c).log, announced, late, Range(registry) \ {c})
         /\ Closed(t, c).calls = hooks \cup [phase : {"disconnect"},
                                             conn : IF Registered(c) THEN {c} ELSE {}]
<1>1. LogOf(entries, announced, late, Range(registry))
  BY RParts DEF LogTrue
<1>2. CASE ~ Registered(c)
  <2>1. Closed(t, c) = t
    BY <1>2 DEF Closed
  <2>2. Range(registry) \ {c} = Range(registry)
    BY <1>2 DEF Registered
  <2> QED BY <1>1, <1>2, <2>1, <2>2
<1>3. CASE Registered(c)
  <2>1. PICK gone : gone = <<c>>
    OBVIOUS
  <2>2. PICK ends : ends = [d \in {c} |-> IF Sse(c) THEN "none given" ELSE "CLIENT_DISCONNECT"]
    OBVIOUS
  <2>3. gone \in Seq(Conn) /\ Range(gone) = {c}
    <3>1. gone \in Seq(Conn) /\ Len(gone) = 1 /\ gone[1] = c
      BY <2>1
    <3>2. \A x : x \in Range(gone) <=> \E i \in 1..Len(gone) : x = gone[i]
      BY <3>1, RangeIs
    <3> QED BY <3>1, <3>2
  <2>4. ends \in [{c} -> Reasons]
    <3>1. "none given" \in Reasons /\ "CLIENT_DISCONNECT" \in Reasons
      BY DEF Reasons
    <3> QED BY <2>2, <3>1
  <2>5. Closed(t, c) = onDisconnect(t, gone, ends)
    BY <1>3, <2>1, <2>2 DEF Closed
  <2>6. PICK log : log = entries
    OBVIOUS
  <2>7. PICK known : known = announced
    OBVIOUS
  <2>8. PICK tardy : tardy = late
    OBVIOUS
  <2>9. PICK open : open = Range(registry)
    OBVIOUS
  <2>10. log \in Seq(Entry) /\ t.log = log
    BY <2>6 DEF Trails
  <2>11. LogOf(log, known, tardy, open)
    BY <1>1, <2>6, <2>7, <2>8, <2>9
  <2>12. /\ logDisconnect(log, ends) \in Seq(Entry)
         /\ LogOf(logDisconnect(log, ends), known, tardy, open \ {c})
    BY <2>4, <2>10, <2>11, LogEnds
  <2>13. /\ onDisconnect(t, gone, ends) \in Trails
         /\ onDisconnect(t, gone, ends).log = logDisconnect(t.log, ends)
         /\ onDisconnect(t, gone, ends).calls
              = t.calls \cup [phase : {"disconnect"}, conn : Range(gone)]
    <3>1. ends \in [Range(gone) -> Reasons] /\ logDisconnect(t.log, ends) \in Seq(Entry)
      BY <2>3, <2>4, <2>10, <2>12
    <3> QED BY <2>3, <3>1, HooksEnd
  <2>14. Closed(t, c) \in Trails /\ Closed(t, c).log = logDisconnect(log, ends)
    BY <2>5, <2>10, <2>13
  <2>15. LogOf(Closed(t, c).log, announced, late, Range(registry) \ {c})
    BY <2>7, <2>8, <2>9, <2>12, <2>14
  <2>16. Closed(t, c).calls = hooks \cup [phase : {"disconnect"}, conn : {c}]
    BY <2>3, <2>5, <2>13
  <2> QED BY <1>3, <2>14, <2>15, <2>16
<1> QED BY <1>2, <1>3

\* The end of a connection, with what its hooks have written.
LEMMA EndingStep ==
  ASSUME RInv, NEW c \in Conn, NEW t \in Trails, Ending(c, t), handshake[c] # "none",
         LogOf(t.log, announced, late, Range(registry) \ {c}),
         t.calls = hooks \cup [phase : {"disconnect"}, conn : IF Registered(c) THEN {c} ELSE {}]
  PROVE  RInv'
<1>1. /\ TypeOK /\ StagesAgree /\ NoRoomsOutside /\ TrackerMirrors /\ OnlyMembers
      /\ LogTrue /\ WindowTrue /\ RateExact /\ CountsTrue
      /\ ConnTypes /\ RoomTypes /\ ChatTypes /\ TrailTypes /\ CountTypes /\ now \in 0..MaxTime
  BY RParts
<1>2. /\ Unregister(registry, {c}) /\ release({c}) /\ Written(t)
      /\ UNCHANGED <<now, transport, handshake, waitsFor, connects, disconnects, announced, late,
                     sends, admitted, starved, intruded>>
  BY DEF Ending, endRest, countVars
<1>3. PICK reg : reg = registry
  OBVIOUS
<1>4. reg \in Seq(Conn) /\ IsInjective(reg) /\ Range(registry) \subseteq Range(reg)
      /\ Unregister(reg, {c})
  BY <1>1, <1>2, <1>3 DEF ConnTypes
<1>5. /\ registry' \in Seq(Conn) /\ IsInjective(registry')
      /\ Range(registry') = Range(reg) \ {c}
      /\ socket' \in [Conn -> {"none", "up", "down"}]
      /\ \A d \in Conn : socket'[d] = IF d \in {c} THEN "down" ELSE socket[d]
      /\ RoomTypes' /\ NoRoomsOutside' /\ TrackerMirrors'
      /\ ChatTypes' /\ OnlyMembers' /\ WindowTrue' /\ RateExact'
  BY <1>1, <1>2, <1>4, Departs
<1>6. Range(registry') = Range(registry) \ {c}
  BY <1>3, <1>5
<1>7. \A d \in Conn : Registered(d)' <=> Registered(d) /\ d # c
  BY <1>6 DEF Registered, Range
<1>8. /\ Trail' \in Trails /\ entries' = t.log /\ hooks' = t.calls
  BY <1>2, TrailOf
<1>9. ConnTypes'
  BY <1>1, <1>2, <1>5 DEF ConnTypes
<1>10. TrailTypes' /\ CountTypes' /\ now' \in 0..MaxTime
  BY <1>1, <1>2, <1>8 DEF TrailTypes, CountTypes
<1>11. StagesAgree'
  BY <1>1, <1>2, <1>5, <1>7 DEF StagesAgree
<1>12. LogTrue'
  <2>1. LogTrue' <=> LogOf(entries', announced', late', Range(registry'))
    BY DEF LogTrue, LogOf, Range
  <2> QED BY <1>2, <1>6, <1>8, <2>1
<1>13. CountsTrue'
  <2>1. PICK gone : gone = IF Registered(c) THEN {c} ELSE {}
    OBVIOUS
  <2>2. gone \in SUBSET Conn /\ gone \cap Gone = {}
    BY <2>1 DEF Gone
  <2>3. Gone' = Gone \cup gone
    <3>1. \A d \in Conn : d \in Gone' <=> d \in Gone \/ d \in gone
      BY <1>1, <1>2, <1>7, <2>1 DEF Gone, StagesAgree
    <3>2. Gone' \subseteq Conn /\ Gone \subseteq Conn
      BY DEF Gone
    <3> QED BY <2>2, <3>1, <3>2
  <2>4. hooks' = (hooks \cup [phase : {"disconnect"}, conn : gone])
                   \cup [phase : {"connect"}, conn : {}]
    BY <1>8, <2>1
  <2>5. announced' = announced \cup {} /\ {} \cap announced = {}
    BY <1>2
  <2> QED BY <1>1, <1>2, <2>2, <2>3, <2>4, <2>5, CountsGrow
<1>14. TypeOK'
  BY <1>5, <1>9, <1>10, TypeParts
<1> QED BY <1>5, <1>11, <1>12, <1>13, <1>14 DEF RInv

LEMMA HangUpStep == ASSUME RInv, NEW c \in Conn, NEW why \in Why, HangUp(c, why) PROVE RInv'
<1>1. /\ Trail \in Trails /\ Trail.log = entries /\ Trail.calls = hooks
  BY RParts, TrailOf
<1>2. handshake[c] # "none"
  BY RParts DEF HangUp, StagesAgree
<1>3. \A t \in Trails : /\ onSocketDisconnect(t, c, why) \in Trails
                        /\ onSocketDisconnect(t, c, why).log = t.log
                        /\ onSocketDisconnect(t, c, why).calls = t.calls
  BY HooksError DEF onSocketDisconnect
<1>4. CASE Ending(c, Closed(onSocketDisconnect(Trail, c, why), c))
  <2>1. PICK t : t = onSocketDisconnect(Trail, c, why)
    OBVIOUS
  <2>2. t \in Trails /\ t.log = entries /\ t.calls = hooks
    BY <1>1, <1>3, <2>1
  <2>3. PICK u : u = Closed(t, c)
    OBVIOUS
  <2>4. Ending(c, u)
    BY <1>4, <2>1, <2>3
  <2>5. /\ u \in Trails /\ LogOf(u.log, announced, late, Range(registry) \ {c})
        /\ u.calls = hooks \cup [phase : {"disconnect"},
                                 conn : IF Registered(c) THEN {c} ELSE {}]
    BY <2>2, <2>3, ClosedTrail
  <2> QED BY <1>2, <2>4, <2>5, EndingStep
<1>5. CASE Ending(c, onSocketDisconnect(Closed(Trail, c), c, why))
  <2>1. PICK t : t = Trail
    OBVIOUS
  <2>2. t \in Trails /\ t.log = entries /\ t.calls = hooks
    BY <1>1, <2>1
  <2>3. PICK u : u = Closed(t, c)
    OBVIOUS
  <2>4. PICK v : v = onSocketDisconnect(u, c, why)
    OBVIOUS
  <2>5. Ending(c, v)
    BY <1>5, <2>1, <2>3, <2>4
  <2>6. /\ u \in Trails /\ LogOf(u.log, announced, late, Range(registry) \ {c})
        /\ u.calls = hooks \cup [phase : {"disconnect"},
                                 conn : IF Registered(c) THEN {c} ELSE {}]
    BY <2>2, <2>3, ClosedTrail
  <2>7. v \in Trails /\ v.log = u.log /\ v.calls = u.calls
    BY <1>3, <2>4, <2>6
  <2> QED BY <1>2, <2>5, <2>6, <2>7, EndingStep
<1> QED BY <1>4, <1>5 DEF HangUp

LEMMA ReauthFailsStep == ASSUME RInv, NEW c \in Conn, ReauthFails(c) PROVE RInv'
<1>1. /\ Trail \in Trails /\ Trail.log = entries /\ Trail.calls = hooks
  BY RParts, TrailOf
<1>2. Registered(c) /\ handshake[c] # "none"
  BY RParts DEF ReauthFails, StagesAgree
<1>3. PICK t : t = onReauthenticationFailed(Trail, c)
  OBVIOUS
<1>4. t \in Trails /\ t.log = entries /\ t.calls = hooks
  BY <1>1, <1>3, HooksError
<1>5. PICK ends : ends = [d \in {c} |-> "REALTIME_REAUTHENTICATION_FAILED"]
  OBVIOUS
<1>6. PICK gone : gone = <<c>>
  OBVIOUS
<1>7. gone \in Seq(Conn) /\ Range(gone) = {c}
  <2>1. gone \in Seq(Conn) /\ Len(gone) = 1 /\ gone[1] = c
    BY <1>6
  <2>2. \A x : x \in Range(gone) <=> \E i \in 1..Len(gone) : x = gone[i]
    BY <2>1, RangeIs
  <2> QED BY <2>1, <2>2
<1>8. ends \in [{c} -> Reasons]
  <2>1. "REALTIME_REAUTHENTICATION_FAILED" \in Reasons
    BY DEF Reasons
  <2> QED BY <1>5, <2>1
<1>9. PICK u : u = onDisconnect(t, gone, ends)
  OBVIOUS
<1>10. Ending(c, u)
  BY <1>3, <1>5, <1>6, <1>9 DEF ReauthFails
<1>11. PICK known : known = announced
  OBVIOUS
<1>12. PICK tardy : tardy = late
  OBVIOUS
<1>13. PICK open : open = Range(registry)
  OBVIOUS
<1>14. t.log \in Seq(Entry) /\ LogOf(t.log, known, tardy, open)
  BY <1>4, <1>11, <1>12, <1>13, RParts DEF LogTrue, Trails
<1>15. /\ logDisconnect(t.log, ends) \in Seq(Entry)
       /\ LogOf(logDisconnect(t.log, ends), known, tardy, open \ {c})
  BY <1>8, <1>14, LogEnds
<1>16. /\ u \in Trails /\ u.log = logDisconnect(t.log, ends)
       /\ u.calls = t.calls \cup [phase : {"disconnect"}, conn : Range(gone)]
  <2>1. ends \in [Range(gone) -> Reasons]
    BY <1>7, <1>8
  <2> QED BY <1>4, <1>7, <1>9, <1>15, <2>1, HooksEnd
<1>17. LogOf(u.log, announced, late, Range(registry) \ {c})
  BY <1>11, <1>12, <1>13, <1>15, <1>16
<1>18. u.calls = hooks \cup [phase : {"disconnect"}, conn : IF Registered(c) THEN {c} ELSE {}]
  BY <1>2, <1>4, <1>7, <1>16
<1> QED BY <1>2, <1>10, <1>16, <1>17, <1>18, EndingStep

-----------------------------------------------------------------------------
(* Evicting, and then announcing.                                          *)

\* One turn of the eviction: who goes, with which reasons, the eviction that
\* is awaited, if any, and whether the connection is announced.
LEMMA GoOnTurn ==
  ASSUME NEW c \in Conn, NEW reg \in Seq(Conn), IsInjective(reg), GoOn(c, reg)
  PROVE  \E gone \in Seq(Conn), w \in Conn \cup {None}, heeds \in BOOLEAN :
           \E ends \in [Range(gone) -> Reasons] :
             /\ Range(gone) \subseteq Range(reg) /\ (heeds => w = None)
             /\ Unregister(reg, Range(gone)) /\ release(Range(gone))
             /\ handshake' = [handshake EXCEPT ![c] = IF w = None THEN "done" ELSE "evicting"]
             /\ waitsFor' = [waitsFor EXCEPT ![c] = w]
             /\ Written(IF heeds THEN onConnect(onDisconnect(Trail, gone, ends), c)
                        ELSE onDisconnect(Trail, gone, ends))
             /\ announced' = IF heeds THEN announced \cup {c} ELSE announced
             /\ late' = IF heeds /\ c \notin Range(reg) \ Range(gone) THEN late \cup {c} ELSE late
             /\ UNCHANGED <<now, transport, countVars, sends, admitted, starved, intruded>>
<1>1. PICK peers : peers = Peers(reg, c)
  OBVIOUS
<1>2. peers \in Seq(Conn) /\ Range(peers) \subseteq Range(reg) /\ Len(peers) \in Nat
  BY <1>1, KeptRange DEF Peers
<1>3. PICK m : m = Len(peers) - maxConnectionsPerUser
  OBVIOUS
<1>4. m \in Int /\ m <= Len(peers)
  BY <1>2, <1>3, Positive
<1>5. PICK over : over = SubSeq(peers, 1, m)
  OBVIOUS
<1>6. over \in Seq(Conn) /\ Range(over) \subseteq Range(reg)
  BY <1>2, <1>4, <1>5, PrefixRange
<1>7. PICK k : k = SelectInSeq(over, Awaited)
  OBVIOUS
<1>8. k \in 0..Len(over)
  <2>1. PICK I : I = {i \in 1..Len(over) : Awaited(over[i])}
    OBVIOUS
  <2>2. k = IF I # {} THEN Min(I) ELSE 0
    BY <1>7, <2>1 DEF SelectInSeq
  <2>3. I \in SUBSET Nat /\ Len(over) \in Nat
    BY <1>6, <2>1
  <2>4. I # {} => Min(I) \in I
    BY <2>3, MinIndex
  <2> QED BY <2>1, <2>2, <2>3, <2>4
<1>9. PICK gone : gone = IF k = 0 THEN over ELSE SubSeq(over, 1, k)
  OBVIOUS
<1>10. gone \in Seq(Conn) /\ Range(gone) \subseteq Range(reg) /\ (k # 0 => gone[k] \in Conn)
  <2>1. CASE k = 0
    BY <1>6, <1>9, <2>1
  <2>2. CASE k # 0
    <3>1. k \in Int /\ k <= Len(over) /\ k > 0
      BY <1>6, <1>8, <2>2
    <3>2. /\ gone \in Seq(Conn) /\ Range(gone) \subseteq Range(over) /\ Len(gone) = k
      BY <1>6, <1>9, <2>2, <3>1, PrefixRange
    <3> QED BY <1>6, <3>1, <3>2
  <2> QED BY <2>1, <2>2
<1>11. PICK ends : ends = [d \in Range(gone) |-> Reason(d)]
  OBVIOUS
<1>12. ends \in [Range(gone) -> Reasons]
  BY <1>11 DEF Reason, Reasons
<1>13. PICK w : w = IF k = 0 THEN None ELSE gone[k]
  OBVIOUS
<1>14. w \in Conn \cup {None} /\ (w = None <=> k = 0)
  BY <1>10, <1>13, Positive
<1>15. PICK heeds \in BOOLEAN :
         heeds <=> k = 0 /\ (WebSocket(c) \/ c \in Range(reg) \ Range(gone))
  OBVIOUS
<1>16. /\ Unregister(reg, Range(gone)) /\ release(Range(gone))
       /\ handshake' = [handshake EXCEPT ![c] = IF k = 0 THEN "done" ELSE "evicting"]
       /\ waitsFor' = [waitsFor EXCEPT ![c] = w]
       /\ Written(IF heeds THEN onConnect(onDisconnect(Trail, gone, ends), c)
                  ELSE onDisconnect(Trail, gone, ends))
       /\ announced' = IF heeds THEN announced \cup {c} ELSE announced
       /\ late' = IF heeds /\ c \notin Range(reg) \ Range(gone) THEN late \cup {c} ELSE late
       /\ UNCHANGED <<now, transport, countVars, sends, admitted, starved, intruded>>
  BY <1>1, <1>3, <1>5, <1>7, <1>9, <1>11, <1>13, <1>15 DEF GoOn
<1>17. heeds => w = None
  BY <1>14, <1>15
<1>18. handshake' = [handshake EXCEPT ![c] = IF w = None THEN "done" ELSE "evicting"]
  BY <1>14, <1>16
<1> QED BY <1>10, <1>12, <1>14, <1>16, <1>17, <1>18

LEMMA GoOnStep ==
  ASSUME RInv, NEW c \in Conn, NEW reg \in Seq(Conn), IsInjective(reg), GoOn(c, reg),
         handshake[c] \in {"auth", "evicting"},
         Range(reg) = IF handshake[c] = "auth" THEN Range(registry) \cup {c} ELSE Range(registry)
  PROVE  RInv'
<1>1. /\ TypeOK /\ StagesAgree /\ NoRoomsOutside /\ TrackerMirrors /\ OnlyMembers
      /\ LogTrue /\ WindowTrue /\ RateExact /\ CountsTrue
      /\ ConnTypes /\ RoomTypes /\ ChatTypes /\ TrailTypes /\ CountTypes /\ now \in 0..MaxTime
  BY RParts
<1>2. PICK left \in Seq(Conn), w \in Conn \cup {None}, heeds \in BOOLEAN :
        \E ends \in [Range(left) -> Reasons] :
          /\ Range(left) \subseteq Range(reg) /\ (heeds => w = None)
          /\ Unregister(reg, Range(left)) /\ release(Range(left))
          /\ handshake' = [handshake EXCEPT ![c] = IF w = None THEN "done" ELSE "evicting"]
          /\ waitsFor' = [waitsFor EXCEPT ![c] = w]
          /\ Written(IF heeds THEN onConnect(onDisconnect(Trail, left, ends), c)
                     ELSE onDisconnect(Trail, left, ends))
          /\ announced' = IF heeds THEN announced \cup {c} ELSE announced
          /\ late' = IF heeds /\ c \notin Range(reg) \ Range(left) THEN late \cup {c} ELSE late
          /\ UNCHANGED <<now, transport, countVars, sends, admitted, starved, intruded>>
  BY GoOnTurn
<1>3. PICK gone : gone = Range(left)
  OBVIOUS
<1>4. PICK ends \in [gone -> Reasons] :
          /\ gone \subseteq Range(reg) /\ (heeds => w = None)
          /\ Unregister(reg, gone) /\ release(gone)
          /\ handshake' = [handshake EXCEPT ![c] = IF w = None THEN "done" ELSE "evicting"]
          /\ waitsFor' = [waitsFor EXCEPT ![c] = w]
          /\ Written(IF heeds THEN onConnect(onDisconnect(Trail, left, ends), c)
                     ELSE onDisconnect(Trail, left, ends))
          /\ announced' = IF heeds THEN announced \cup {c} ELSE announced
          /\ late' = IF heeds /\ c \notin Range(reg) \ gone THEN late \cup {c} ELSE late
          /\ UNCHANGED <<now, transport, countVars, sends, admitted, starved, intruded>>
  BY <1>2, <1>3
<1>5. Range(reg) \subseteq Conn /\ Range(registry) \subseteq Range(reg)
  BY RangeIs
<1>6. gone \in SUBSET Conn
  BY <1>4, <1>5
<1>7. /\ registry' \in Seq(Conn) /\ IsInjective(registry')
      /\ Range(registry') = Range(reg) \ gone
      /\ socket' \in [Conn -> {"none", "up", "down"}]
      /\ \A d \in Conn : socket'[d] = IF d \in gone THEN "down" ELSE socket[d]
      /\ RoomTypes' /\ NoRoomsOutside' /\ TrackerMirrors'
      /\ ChatTypes' /\ OnlyMembers' /\ WindowTrue' /\ RateExact'
  BY <1>1, <1>4, <1>5, <1>6, Departs
<1>8. \A d \in Conn : /\ Registered(d)' <=> d \in Range(reg) /\ d \notin gone
                      /\ d \in Range(reg) <=> Registered(d) \/ (d = c /\ handshake[c] = "auth")
  <2>1. ASSUME NEW d \in Conn PROVE Registered(d)' <=> d \in Range(reg) /\ d \notin gone
    BY <1>7, Zenon DEF Registered
  <2>2. ASSUME NEW d \in Conn
        PROVE  d \in Range(reg) <=> Registered(d) \/ (d = c /\ handshake[c] = "auth")
    BY SMT DEF Registered
  <2> QED BY <2>1, <2>2
<1>9. /\ handshake'[c] = IF w = None THEN "done" ELSE "evicting"
      /\ waitsFor'[c] = w
      /\ \A d \in Conn \ {c} : handshake'[d] = handshake[d] /\ waitsFor'[d] = waitsFor[d]
  BY <1>1, <1>4 DEF ConnTypes
<1>10. ConnTypes'
  <2>1. /\ handshake' \in [Conn -> {"none", "auth", "refused", "evicting", "done"}]
        /\ waitsFor' \in [Conn -> Conn \cup {None}]
        /\ transport' \in [Conn -> {None, "sse", "websocket"}]
    BY <1>1, <1>4 DEF ConnTypes
  <2>2. \A d \in Conn : waitsFor'[d] # None <=> handshake'[d] = "evicting"
    BY <1>1, <1>9 DEF ConnTypes
  <2> QED BY <1>7, <2>1, <2>2 DEF ConnTypes
<1>11. c \notin announced
  BY <1>1 DEF StagesAgree
<1>12. StagesAgree'
  <2> SUFFICES ASSUME NEW d \in Conn
               PROVE  /\ socket'[d] = "none" <=> handshake'[d] = "none"
                      /\ transport'[d] = None <=> handshake'[d] = "none"
                      /\ Registered(d)' => handshake'[d] \in {"evicting", "done"}
                      /\ d \in announced' => handshake'[d] = "done"
    BY DEF StagesAgree
  <2>1. /\ socket[d] = "none" <=> handshake[d] = "none"
        /\ transport[d] = None <=> handshake[d] = "none"
        /\ Registered(d) => handshake[d] \in {"evicting", "done"}
        /\ d \in announced => handshake[d] = "done"
    BY <1>1 DEF StagesAgree
  <2>2. transport'[d] = transport[d] /\ socket'[d] = IF d \in gone THEN "down" ELSE socket[d]
    BY <1>4, <1>7
  <2>3. /\ Registered(d)' => Registered(d) \/ (d = c /\ handshake[c] = "auth")
        /\ d \in gone => Registered(d) \/ (d = c /\ handshake[c] = "auth")
    BY <1>4, <1>8
  <2>4. d \in announced' => d \in announced \/ (d = c /\ w = None)
    BY <1>4
  <2>5. CASE d = c
    BY <1>9, <1>11, <2>1, <2>2, <2>4, <2>5
  <2>6. CASE d # c
    <3>1. handshake'[d] = handshake[d]
      BY <1>9, <2>6
    <3> QED BY <2>1, <2>2, <2>3, <2>4, <2>6, <3>1
  <2> QED BY <2>5, <2>6
<1>13. PICK known : known = announced
  OBVIOUS
<1>14. PICK tardy : tardy = late
  OBVIOUS
<1>15. PICK t : t = Trail
  OBVIOUS
<1>16. t \in Trails /\ t.log = entries /\ t.calls = hooks
  BY <1>1, <1>15, TrailOf
<1>17. t.log \in Seq(Entry)
  BY <1>16 DEF Trails
<1>18. LogOf(t.log, known, tardy, Range(reg))
  <2>1. LogOf(entries, announced, late, Range(registry))
    BY <1>1 DEF LogTrue
  <2>2. \A x \in announced : x \in Range(reg) <=> x \in Range(registry)
    BY <1>11
  <2> QED BY <1>13, <1>14, <1>16, <2>1, <2>2 DEF LogOf
<1>19. PICK u : u = onDisconnect(t, left, ends)
  OBVIOUS
<1>20. /\ u \in Trails /\ LogOf(u.log, known, tardy, Range(reg) \ gone)
       /\ u.calls = hooks \cup [phase : {"disconnect"}, conn : gone]
  <2>1. /\ logDisconnect(t.log, ends) \in Seq(Entry)
        /\ LogOf(logDisconnect(t.log, ends), known, tardy, Range(reg) \ gone)
    BY <1>4, <1>6, <1>17, <1>18, LogEnds
  <2>2. ends \in [Range(left) -> Reasons]
    BY <1>3, <1>4
  <2>3. /\ u \in Trails /\ u.log = logDisconnect(t.log, ends)
        /\ u.calls = t.calls \cup [phase : {"disconnect"}, conn : Range(left)]
    BY <1>16, <1>19, <2>1, <2>2, HooksEnd
  <2> QED BY <1>3, <1>16, <2>1, <2>3
<1>21. tardy \subseteq known /\ known \subseteq Conn /\ c \notin known
  BY <1>1, <1>11, <1>13, <1>14 DEF TrailTypes
<1>22. PICK came : came = IF heeds THEN {c} ELSE {}
  OBVIOUS
<1>23. PICK v : v = IF heeds THEN onConnect(u, c) ELSE u
  OBVIOUS
<1>24. Written(v)
  BY <1>4, <1>15, <1>19, <1>23
<1>25. /\ v \in Trails /\ LogOf(v.log, announced', late', Range(reg) \ gone)
       /\ v.calls = u.calls \cup [phase : {"connect"}, conn : came]
  <2>1. CASE heeds
    <3>1. u.log \in Seq(Entry)
      BY <1>20 DEF Trails
    <3>2. PICK open : open = Range(reg) \ gone
      OBVIOUS
    <3>3. LogOf(u.log, known, tardy, open)
      BY <1>20, <3>2
    <3>4. /\ logConnect(u.log, c) \in Seq(Entry)
          /\ LogOf(logConnect(u.log, c), known \cup {c},
                   IF c \in open THEN tardy ELSE tardy \cup {c}, open)
      BY <1>21, <3>1, <3>3, LogOpens
    <3>5. /\ announced' = known \cup {c}
          /\ late' = IF c \in open THEN tardy ELSE tardy \cup {c}
      BY <1>4, <1>13, <1>14, <2>1, <3>2
    <3>6. /\ v \in Trails /\ v.log = logConnect(u.log, c)
          /\ v.calls = u.calls \cup {[phase |-> "connect", conn |-> c]}
      BY <1>20, <1>23, <2>1, <3>4, HooksOpen
    <3>7. [phase : {"connect"}, conn : came] = {[phase |-> "connect", conn |-> c]}
      <4>1. came = {c}
        BY <1>22, <2>1
      <4>2. \A x \in [phase : {"connect"}, conn : came] : x = [phase |-> "connect", conn |-> c]
        BY <4>1
      <4>3. [phase |-> "connect", conn |-> c] \in [phase : {"connect"}, conn : came]
        BY <4>1
      <4> QED BY <4>2, <4>3
    <3> QED BY <3>2, <3>4, <3>5, <3>6, <3>7
  <2>2. CASE ~ heeds
    <3>1. v = u /\ announced' = known /\ late' = tardy /\ came = {}
      BY <1>4, <1>13, <1>14, <1>22, <1>23, <2>2
    <3>2. [phase : {"connect"}, conn : came] = {}
      BY <3>1
    <3> QED BY <1>20, <3>1, <3>2
  <2> QED BY <2>1, <2>2
<1>26. /\ Trail' \in Trails /\ entries' = v.log /\ hooks' = v.calls
  BY <1>24, <1>25, TrailOf
<1>27. LogTrue'
  <2>1. LogTrue' <=> LogOf(entries', announced', late', Range(registry'))
    BY DEF LogTrue, LogOf, Range
  <2> QED BY <1>7, <1>25, <1>26, <2>1
<1>28. announced' = announced \cup came /\ came \cap announced = {} /\ came \in SUBSET Conn
  BY <1>4, <1>11, <1>22
<1>29. TrailTypes'
  <2>1. announced' \subseteq Conn /\ late' \subseteq announced'
    BY <1>1, <1>4 DEF TrailTypes
  <2> QED BY <1>26, <2>1 DEF TrailTypes
<1>30. CountsTrue'
  <2>1. hooks' = (hooks \cup [phase : {"disconnect"}, conn : gone])
                   \cup [phase : {"connect"}, conn : came]
    BY <1>20, <1>25, <1>26
  <2>2. gone \cap Gone = {}
    <3> SUFFICES ASSUME NEW d \in Conn, d \in gone PROVE d \notin Gone
      BY <1>6
    <3>1. Registered(d) \/ (d = c /\ handshake[c] = "auth")
      BY <1>4, <1>8
    <3> QED BY <3>1 DEF Gone
  <2>3. Gone' = Gone \cup gone
    <3>1. ASSUME NEW d \in Conn PROVE d \in Gone' <=> d \in Gone \/ d \in gone
      <4>1. /\ d \in Gone' <=> handshake'[d] \in {"evicting", "done"} /\ ~ Registered(d)'
            /\ d \in Gone <=> handshake[d] \in {"evicting", "done"} /\ ~ Registered(d)
        BY DEF Gone
      <4>2. Registered(d) => handshake[d] \in {"evicting", "done"}
        BY <1>1 DEF StagesAgree
      <4>3. CASE d = c
        <5>1. handshake'[d] \in {"evicting", "done"}
          BY <1>9, <4>3
        <5>2. d \in gone => d \in Range(reg)
          BY <1>4
        <5> QED BY <1>8, <4>1, <4>3, <5>1, <5>2
      <4>4. CASE d # c
        <5>1. handshake'[d] = handshake[d]
          BY <1>9, <4>4
        <5>2. d \in gone => Registered(d)
          BY <1>4, <1>8, <4>4
        <5> QED BY <1>8, <4>1, <4>2, <4>4, <5>1, <5>2
      <4> QED BY <4>3, <4>4
    <3>2. Gone' \subseteq Conn /\ Gone \subseteq Conn
      BY DEF Gone
    <3> QED BY <1>6, <3>1, <3>2
  <2>4. UNCHANGED <<connects, disconnects>>
    BY <1>4 DEF countVars
  <2> QED BY <1>1, <1>6, <1>28, <2>1, <2>2, <2>3, <2>4, CountsGrow
<1>31. TypeOK'
  <2>1. CountTypes' /\ now' \in 0..MaxTime
    BY <1>1, <1>4 DEF CountTypes, countVars
  <2> QED BY <1>7, <1>10, <1>29, <2>1, TypeParts
<1> QED BY <1>7, <1>12, <1>27, <1>30, <1>31 DEF RInv

LEMMA RegisterStep == ASSUME RInv, NEW c \in Conn, Register(c) PROVE RInv'
<1>1. handshake[c] = "auth"
  BY DEF Register
<1>2. registry \in Seq(Conn) /\ IsInjective(registry) /\ c \notin Range(registry)
  BY <1>1, RParts DEF ConnTypes, StagesAgree, Registered
<1>3. PICK old : old = registry
  OBVIOUS
<1>4. PICK reg : reg = Append(old, c)
  OBVIOUS
<1>5. reg \in Seq(Conn) /\ IsInjective(reg) /\ Range(reg) = Range(old) \cup {c}
  BY <1>2, <1>3, <1>4, AppendRange
<1>6. GoOn(c, reg)
  BY <1>3, <1>4 DEF Register
<1> QED BY <1>1, <1>3, <1>5, <1>6, GoOnStep

LEMMA EvictedStep == ASSUME RInv, NEW c \in Conn, Evicted(c) PROVE RInv'
<1>1. PICK reg : reg = registry
  OBVIOUS
<1>2. handshake[c] = "evicting" /\ GoOn(c, reg)
  BY <1>1 DEF Evicted
<1>3. reg \in Seq(Conn) /\ IsInjective(reg)
  BY <1>1, RParts DEF ConnTypes
<1> QED BY <1>1, <1>2, <1>3, GoOnStep

-----------------------------------------------------------------------------
(* The other steps.                                                        *)

LEMMA KnockStep ==
  ASSUME RInv, NEW c \in Conn, NEW kind \in {"sse", "websocket"}, Knock(c, kind)
  PROVE  RInv'
<1>1. /\ TypeOK /\ StagesAgree /\ NoRoomsOutside /\ TrackerMirrors /\ OnlyMembers
      /\ LogTrue /\ WindowTrue /\ RateExact /\ CountsTrue
      /\ ConnTypes /\ RoomTypes /\ ChatTypes /\ TrailTypes /\ CountTypes /\ now \in 0..MaxTime
  BY RParts
<1>2. /\ socket[c] = "none" /\ handshake[c] = "none" /\ transport[c] = None
      /\ ~ Registered(c) /\ waitsFor[c] = None
  BY <1>1 DEF Knock, StagesAgree, ConnTypes
<1>3. /\ socket' = [socket EXCEPT ![c] = "up"] /\ transport' = [transport EXCEPT ![c] = kind]
      /\ handshake' = [handshake EXCEPT ![c] = "auth"]
      /\ UNCHANGED <<now, waitsFor, registry, rooms, byConnection, entries, audit, hooks, announced,
                     late, connects, disconnects, timestampsByConnection, sends, admitted,
                     starved, intruded>>
  BY DEF Knock, roomVars, trailVars, countVars, chatVars
<1>4. /\ \A d \in Conn : Registered(d)' <=> Registered(d)
      /\ \A d \in Conn \ {c} : /\ socket'[d] = socket[d] /\ transport'[d] = transport[d]
                               /\ handshake'[d] = handshake[d]
      /\ socket'[c] = "up" /\ transport'[c] = kind /\ handshake'[c] = "auth"
  BY <1>1, <1>3 DEF Registered, Range, ConnTypes
<1>5. ConnTypes'
  BY <1>1, <1>2, <1>3, <1>4 DEF ConnTypes
<1>6. timestampsByConnection[c] = <<>> /\ admitted[c] = <<>>
  BY <1>1, <1>2, Positive DEF WindowTrue, WebSocket
<1>7. ChatTypes' /\ RoomTypes' /\ TrailTypes' /\ CountTypes' /\ now' \in 0..MaxTime
  BY <1>1, <1>3, <1>4 DEF ChatTypes, RoomTypes, TrailTypes, Trail, CountTypes
<1>8. StagesAgree'
  <2>1. kind # None
    BY Positive
  <2> QED BY <1>1, <1>2, <1>3, <1>4, <2>1 DEF StagesAgree
<1>9. NoRoomsOutside' /\ OnlyMembers' /\ RateExact'
  BY <1>1, <1>3, <1>4 DEF NoRoomsOutside, OnlyMembers, RateExact
<1>10. TrackerMirrors'
  <2> SUFFICES ASSUME NEW d \in Conn
               PROVE  /\ ~ Registered(d)' => byConnection'[d] = {}
                      /\ Registered(d)' /\ Joinable(d)' => byConnection'[d] = rooms'[d]
    BY DEF TrackerMirrors
  <2>1. ~ Registered(d)' => byConnection'[d] = {}
    BY <1>1, <1>3, <1>4 DEF TrackerMirrors
  <2>2. Registered(d)' => d # c /\ (Joinable(d)' => Joinable(d))
    BY <1>2, <1>4 DEF Joinable, Sse
  <2> QED BY <1>1, <1>3, <1>4, <2>1, <2>2 DEF TrackerMirrors
<1>11. LogTrue'
  BY <1>1, <1>3 DEF LogTrue, LogOf, Range
<1>12. WindowTrue'
  <2> SUFFICES ASSUME NEW d \in Conn
               PROVE  /\ socket'[d] = "up"
                           => Recent(timestampsByConnection[d])' = Recent(admitted[d])'
                      /\ ~ WebSocket(d)' => timestampsByConnection'[d] = <<>> /\ admitted'[d] = <<>>
                      /\ \A i, j \in DOMAIN admitted'[d] :
                           /\ admitted'[d][i] <= now'
                           /\ i <= j => admitted'[d][i] <= admitted'[d][j]
    BY DEF WindowTrue
  <2>1. \A i, j \in DOMAIN admitted'[d] :
          admitted'[d][i] <= now' /\ (i <= j => admitted'[d][i] <= admitted'[d][j])
    BY <1>1, <1>3 DEF WindowTrue
  <2>2. CASE d = c
    BY <1>3, <1>6, <2>1, <2>2 DEF Recent
  <2>3. CASE d # c
    <3>1. /\ socket[d] = "up" => Recent(timestampsByConnection[d]) = Recent(admitted[d])
          /\ ~ WebSocket(d) => timestampsByConnection[d] = <<>> /\ admitted[d] = <<>>
      BY <1>1 DEF WindowTrue
    <3>2. WebSocket(d)' <=> WebSocket(d)
      BY <1>4, <2>3 DEF WebSocket
    <3> QED BY <1>3, <1>4, <2>1, <2>3, <3>1, <3>2 DEF Recent
  <2> QED BY <2>2, <2>3
<1>13. CountsTrue'
  <2>1. Gone' = Gone
    <3>1. \A d \in Conn : d \in Gone' <=> d \in Gone
      BY <1>2, <1>4 DEF Gone
    <3> QED BY <3>1 DEF Gone
  <2> QED BY <1>1, <1>3, <2>1 DEF CountsTrue, Pending
<1>14. TypeOK'
  BY <1>5, <1>7, TypeParts
<1> QED BY <1>8, <1>9, <1>10, <1>11, <1>12, <1>13, <1>14 DEF RInv

LEMMA RefuseStep == ASSUME RInv, NEW c \in Conn, Refuse(c) PROVE RInv'
<1>1. /\ TypeOK /\ StagesAgree /\ NoRoomsOutside /\ TrackerMirrors /\ OnlyMembers
      /\ LogTrue /\ WindowTrue /\ RateExact /\ CountsTrue
      /\ ConnTypes /\ RoomTypes /\ ChatTypes /\ TrailTypes /\ CountTypes /\ now \in 0..MaxTime
  BY RParts
<1>2. /\ handshake[c] = "auth" /\ handshake' = [handshake EXCEPT ![c] = "refused"]
      /\ socket' = [socket EXCEPT ![c] = "down"] /\ release({c})
      /\ UNCHANGED <<now, transport, waitsFor, registry, rooms, byConnection, entries, audit, hooks,
                     announced, late, connects, disconnects, sends, admitted, starved, intruded>>
  BY DEF Refuse, roomVars, trailVars, countVars
<1>3. ~ Registered(c) /\ c \notin announced
  BY <1>1, <1>2 DEF StagesAgree
<1>4. /\ \A d \in Conn : Registered(d)' <=> Registered(d)
      /\ \A d \in Conn \ {c} : socket'[d] = socket[d] /\ handshake'[d] = handshake[d]
      /\ socket'[c] = "down" /\ handshake'[c] = "refused"
  BY <1>1, <1>2 DEF Registered, Range, ConnTypes
<1>5. ConnTypes'
  BY <1>1, <1>2, <1>4 DEF ConnTypes
<1>6. timestampsByConnection' =
        [d \in Conn |-> IF d \in {c} /\ WebSocket(d) THEN <<>> ELSE timestampsByConnection[d]]
  BY <1>2 DEF release
<1>7. /\ timestampsByConnection'[c] = <<>>
      /\ \A d \in Conn \ {c} : timestampsByConnection'[d] = timestampsByConnection[d]
  BY <1>1, <1>6 DEF WindowTrue
<1>8. ChatTypes'
  <2>1. <<>> \in Seq(0..MaxTime) /\ Len(<<>>) = 0
    OBVIOUS
  <2>2. timestampsByConnection' \in [Conn -> Seq(0..MaxTime)]
    BY <1>1, <1>6, <2>1 DEF ChatTypes
  <2>3. \A d \in Conn : /\ Len(timestampsByConnection'[d]) <= MAX_MESSAGES_PER_WINDOW
                        /\ socket'[d] # "up" => timestampsByConnection'[d] = <<>>
    <3> TAKE d \in Conn
    <3>1. CASE d = c
      BY <1>7, <2>1, <3>1, Positive
    <3>2. CASE d # c
      BY <1>1, <1>4, <1>7, <3>2 DEF ChatTypes
    <3> QED BY <3>1, <3>2
  <2> QED BY <1>1, <1>2, <2>2, <2>3 DEF ChatTypes
<1>9. RoomTypes' /\ TrailTypes' /\ CountTypes' /\ now' \in 0..MaxTime
  BY <1>1, <1>2 DEF RoomTypes, TrailTypes, Trail, CountTypes
<1>10. StagesAgree'
  <2>1. socket[c] # "none" /\ transport[c] # None
    BY <1>1, <1>2 DEF StagesAgree
  <2> QED BY <1>1, <1>2, <1>3, <1>4, <2>1 DEF StagesAgree
<1>11. NoRoomsOutside' /\ OnlyMembers' /\ RateExact'
  BY <1>1, <1>2, <1>4 DEF NoRoomsOutside, OnlyMembers, RateExact
<1>12. TrackerMirrors'
  <2> SUFFICES ASSUME NEW d \in Conn
               PROVE  /\ ~ Registered(d)' => byConnection'[d] = {}
                      /\ Registered(d)' /\ Joinable(d)' => byConnection'[d] = rooms'[d]
    BY DEF TrackerMirrors
  <2>1. ~ Registered(d)' => byConnection'[d] = {}
    BY <1>1, <1>2, <1>4 DEF TrackerMirrors
  <2>2. Registered(d)' => d # c /\ (Joinable(d)' => Joinable(d))
    BY <1>2, <1>3, <1>4 DEF Joinable, Sse
  <2> QED BY <1>1, <1>2, <1>4, <2>1, <2>2 DEF TrackerMirrors
<1>13. LogTrue'
  BY <1>1, <1>2 DEF LogTrue, LogOf, Range
<1>14. WindowTrue'
  <2> SUFFICES ASSUME NEW d \in Conn
               PROVE  /\ socket'[d] = "up"
                           => Recent(timestampsByConnection[d])' = Recent(admitted[d])'
                      /\ ~ WebSocket(d)' => timestampsByConnection'[d] = <<>> /\ admitted'[d] = <<>>
                      /\ \A i, j \in DOMAIN admitted'[d] :
                           /\ admitted'[d][i] <= now'
                           /\ i <= j => admitted'[d][i] <= admitted'[d][j]
    BY DEF WindowTrue
  <2>1. \A i, j \in DOMAIN admitted'[d] :
          admitted'[d][i] <= now' /\ (i <= j => admitted'[d][i] <= admitted'[d][j])
    BY <1>1, <1>2 DEF WindowTrue
  <2>2. ~ WebSocket(d)' => timestampsByConnection'[d] = <<>> /\ admitted'[d] = <<>>
    BY <1>1, <1>2, <1>7 DEF WindowTrue, WebSocket
  <2>3. ASSUME socket'[d] = "up"
        PROVE  Recent(timestampsByConnection[d])' = Recent(admitted[d])'
    <3>1. d # c /\ socket[d] = "up"
      BY <1>4, <2>3
    <3>2. Recent(timestampsByConnection[d]) = Recent(admitted[d])
      BY <1>1, <3>1 DEF WindowTrue
    <3> QED BY <1>2, <1>7, <3>1, <3>2 DEF Recent
  <2> QED BY <2>1, <2>2, <2>3
<1>15. CountsTrue'
  <2>1. Gone' = Gone
    <3>1. \A d \in Conn : d \in Gone' <=> d \in Gone
      BY <1>2, <1>4 DEF Gone
    <3> QED BY <3>1 DEF Gone
  <2> QED BY <1>1, <1>2, <2>1 DEF CountsTrue, Pending
<1>16. TypeOK'
  BY <1>5, <1>8, <1>9, TypeParts
<1> QED BY <1>10, <1>11, <1>12, <1>13, <1>14, <1>15, <1>16 DEF RInv

\* Rooms are joined and left by a connection that is registered.
LEMMA RoomStep ==
  ASSUME RInv, NEW c \in Conn, NEW r \in Room, join(c, r) \/ leave(c, r)
  PROVE  RInv'
<1>1. /\ TypeOK /\ StagesAgree /\ NoRoomsOutside /\ TrackerMirrors /\ OnlyMembers
      /\ LogTrue /\ WindowTrue /\ RateExact /\ CountsTrue
      /\ ConnTypes /\ RoomTypes /\ ChatTypes /\ TrailTypes /\ CountTypes /\ now \in 0..MaxTime
  BY RParts
<1>2. /\ Registered(c)
      /\ UNCHANGED <<now, connVars, trailVars, countVars, chatVars>>
  BY DEF join, leave, roomRest
<1>3. UNCHANGED <<now, transport, socket, handshake, waitsFor, registry, entries, audit, hooks,
                  announced, late, connects, disconnects, timestampsByConnection, sends, admitted,
                  starved, intruded>>
  BY <1>2 DEF connVars, trailVars, countVars, chatVars
<1>4. RoomTypes' /\ \A d \in Conn \ {c} : rooms'[d] = rooms[d] /\ byConnection'[d] = byConnection[d]
  BY <1>1 DEF RoomTypes, join, leave
<1>5. Joinable(c) => byConnection'[c] = rooms'[c]
  <2>1. Joinable(c) => byConnection[c] = rooms[c]
    BY <1>1, <1>2 DEF TrackerMirrors
  <2> QED BY <1>1, <2>1 DEF RoomTypes, join, leave
<1>6. \A d \in Conn : (Registered(d)' <=> Registered(d)) /\ (Joinable(d)' <=> Joinable(d))
  BY <1>3 DEF Registered, Range, Joinable, Sse
<1>7. NoRoomsOutside' /\ TrackerMirrors'
  BY <1>1, <1>2, <1>4, <1>5, <1>6 DEF NoRoomsOutside, TrackerMirrors
<1>8. ConnTypes' /\ ChatTypes' /\ TrailTypes' /\ CountTypes' /\ now' \in 0..MaxTime
  BY <1>1, <1>3 DEF ConnTypes, ChatTypes, TrailTypes, Trail, CountTypes
<1>9. StagesAgree' /\ OnlyMembers' /\ LogTrue' /\ RateExact'
  BY <1>1, <1>3, <1>6 DEF StagesAgree, OnlyMembers, LogTrue, LogOf, Range, RateExact
<1>10. WindowTrue'
  BY <1>1, <1>3 DEF WindowTrue, Recent, WebSocket
<1>11. CountsTrue'
  <2>1. Gone' = Gone
    BY <1>3, <1>6 DEF Gone
  <2> QED BY <1>1, <1>3, <2>1 DEF CountsTrue, Pending
<1>12. TypeOK'
  BY <1>4, <1>8, TypeParts
<1> QED BY <1>7, <1>9, <1>10, <1>11, <1>12 DEF RInv

\* With the maximum admitted since some moment, the window is full.
LEMMA WindowFull ==
  ASSUME NEW times \in Seq(0..MaxTime), now \in 0..MaxTime,
         \A i, j \in DOMAIN times : times[i] <= now /\ (i <= j => times[i] <= times[j]),
         NEW k \in 1..Len(times), now - times[k] < WINDOW_MS
  PROVE  Len(Recent(times)) >= Len(times) - k + 1
<1>1. /\ DOMAIN times = 1..Len(times) /\ Len(times) \in Nat
      /\ \A i \in 1..Len(times) : times[i] \in Nat
  BY Positive
<1>2. \A i \in k..Len(times) : times[i] \in {at \in Nat : now - at < WINDOW_MS}
  <2> SUFFICES ASSUME NEW i \in k..Len(times) PROVE now - times[i] < WINDOW_MS /\ times[i] \in Nat
    OBVIOUS
  <2>1. i \in DOMAIN times /\ k \in DOMAIN times /\ k <= i
    BY <1>1
  <2>2. times[k] <= times[i] /\ times[i] \in Nat /\ times[k] \in Nat
    BY <1>1, <2>1
  <2>3. now \in Nat /\ WINDOW_MS \in Nat
    BY Positive
  <2>4. now - times[k] < WINDOW_MS
    OBVIOUS
  <2> QED BY <2>2, <2>3, <2>4
<1> QED BY <1>2, KeptTail DEF Recent

LEMMA ChatStep ==
  ASSUME RInv, NEW c \in Conn, NEW r \in Room, onChatMessage(c, r)
  PROVE  RInv'
<1>1. /\ TypeOK /\ StagesAgree /\ NoRoomsOutside /\ TrackerMirrors /\ OnlyMembers
      /\ LogTrue /\ WindowTrue /\ RateExact /\ CountsTrue
      /\ ConnTypes /\ RoomTypes /\ ChatTypes /\ TrailTypes /\ CountTypes /\ now \in 0..MaxTime
  BY RParts
<1>2. PICK taken : taken = tryConsume(timestampsByConnection[c])
  OBVIOUS
<1>3. /\ WebSocket(c) /\ socket[c] = "up" /\ sends < MaxSends /\ sends' = sends + 1
      /\ timestampsByConnection' = [timestampsByConnection EXCEPT ![c] = taken.times]
      /\ admitted' = IF taken.ok THEN [admitted EXCEPT ![c] = Append(@, now)] ELSE admitted
      /\ starved' = (starved \/ (~ taken.ok /\ Len(Recent(admitted[c])) < MAX_MESSAGES_PER_WINDOW))
      /\ intruded' = (intruded \/ (taken.ok /\ MayPost(c, r) /\ r \notin rooms[c]))
      /\ UNCHANGED <<now, connVars, roomVars, trailVars, countVars>>
  BY <1>2 DEF onChatMessage
<1>4. UNCHANGED <<transport, socket, handshake, waitsFor, registry, rooms, byConnection, entries,
                  audit, hooks, announced, late, connects, disconnects>>
  BY <1>3 DEF connVars, roomVars, trailVars, countVars
<1>5. PICK times : times = timestampsByConnection[c]
  OBVIOUS
<1>6. PICK old : old = admitted[c]
  OBVIOUS
<1>7. times \in Seq(0..MaxTime) /\ old \in Seq(0..MaxTime)
  BY <1>1, <1>5, <1>6 DEF ChatTypes
<1>8. PICK fresh : fresh = {at \in Nat : now - at < WINDOW_MS}
  OBVIOUS
<1>9. PICK at0 : at0 = now
  OBVIOUS
<1>10. at0 \in 0..MaxTime /\ at0 \in fresh /\ at0 \in Nat
  BY <1>1, <1>8, <1>9, Positive
<1>11. Kept(times, fresh) = Kept(old, fresh)
  <2>1. Recent(times) = Recent(old)
    BY <1>1, <1>3, <1>5, <1>6 DEF WindowTrue
  <2> QED BY <1>8, <2>1 DEF Recent
<1>12. PICK kept : kept = Kept(times, fresh)
  OBVIOUS
<1>13. kept \in Seq(0..MaxTime) /\ Len(kept) <= Len(times) /\ Kept(kept, fresh) = kept
  <2>1. kept \in Seq(0..MaxTime) /\ Len(kept) <= Len(times)
    BY <1>7, <1>12, KeptRange
  <2>2. Kept(kept, fresh) = Kept(times, fresh \cap fresh)
    BY <1>7, <1>12, KeptTwice
  <2>3. fresh \cap fresh = fresh
    OBVIOUS
  <2> QED BY <1>12, <2>1, <2>2, <2>3
<1>14. /\ taken.ok <=> Len(kept) < MAX_MESSAGES_PER_WINDOW
       /\ taken.times = IF taken.ok THEN Append(kept, at0) ELSE kept
  BY <1>2, <1>5, <1>8, <1>9, <1>12 DEF tryConsume, Recent
<1>15. PICK ok \in BOOLEAN : ok <=> taken.ok
  OBVIOUS
<1>16. PICK next : next = taken.times
  OBVIOUS
<1>17. PICK all : all = IF ok THEN Append(old, at0) ELSE old
  OBVIOUS
<1>18. /\ timestampsByConnection' = [timestampsByConnection EXCEPT ![c] = next]
       /\ admitted' = [admitted EXCEPT ![c] = all]
  <2>1. timestampsByConnection' = [timestampsByConnection EXCEPT ![c] = next]
    BY <1>3, <1>16
  <2>2. CASE ok
    BY <1>3, <1>6, <1>9, <1>15, <1>17, <2>1, <2>2
  <2>3. CASE ~ ok
    BY <1>1, <1>3, <1>6, <1>15, <1>17, <2>1, <2>3 DEF ChatTypes
  <2> QED BY <2>2, <2>3
<1>19. next \in Seq(0..MaxTime) /\ all \in Seq(0..MaxTime) /\ Len(next) <= MAX_MESSAGES_PER_WINDOW
  <2>1. Len(times) <= MAX_MESSAGES_PER_WINDOW /\ Len(kept) \in Nat
    BY <1>1, <1>5, <1>13 DEF ChatTypes
  <2>2. CASE ok
    <3>1. /\ Append(kept, at0) \in Seq(0..MaxTime) /\ Append(old, at0) \in Seq(0..MaxTime)
          /\ Len(Append(kept, at0)) = Len(kept) + 1
      BY <1>7, <1>10, <1>13
    <3>2. next = Append(kept, at0) /\ all = Append(old, at0) /\ Len(kept) < MAX_MESSAGES_PER_WINDOW
      BY <1>14, <1>15, <1>16, <1>17, <2>2
    <3> QED BY <2>1, <3>1, <3>2, Positive
  <2>3. CASE ~ ok
    BY <1>7, <1>13, <1>14, <1>15, <1>16, <1>17, <2>1, <2>3, Positive
  <2> QED BY <2>2, <2>3
<1>20. /\ timestampsByConnection'[c] = next /\ admitted'[c] = all
       /\ \A d \in Conn \ {c} : /\ timestampsByConnection'[d] = timestampsByConnection[d]
                                /\ admitted'[d] = admitted[d]
  BY <1>1, <1>18 DEF ChatTypes
<1>21. Kept(next, fresh) = Kept(all, fresh)
  <2>1. CASE ok
    <3>0. PICK T : T = 0..MaxTime
      OBVIOUS
    <3>1. Kept(next, fresh) = Append(kept, at0)
      <4>1. Kept(Append(kept, at0), fresh)
              = IF at0 \in fresh THEN Append(Kept(kept, fresh), at0) ELSE Kept(kept, fresh)
        <5>1. kept \in Seq(T) /\ at0 \in T
          BY <1>10, <1>13, <3>0
        <5> QED BY <5>1, KeptAppend
      <4> QED BY <1>10, <1>13, <1>14, <1>15, <1>16, <2>1, <4>1
    <3>2. Kept(all, fresh) = Append(Kept(old, fresh), at0)
      <4>1. Kept(Append(old, at0), fresh)
              = IF at0 \in fresh THEN Append(Kept(old, fresh), at0) ELSE Kept(old, fresh)
        <5>1. old \in Seq(T) /\ at0 \in T
          BY <1>7, <1>10, <3>0
        <5> QED BY <5>1, KeptAppend
      <4> QED BY <1>10, <1>17, <2>1, <4>1
    <3> QED BY <1>11, <1>12, <3>1, <3>2
  <2>2. CASE ~ ok
    <3>1. next = kept /\ all = old
      BY <1>14, <1>15, <1>16, <1>17, <2>2
    <3> QED BY <1>11, <1>12, <1>13, <3>1
  <2> QED BY <2>1, <2>2
<1>22. \A i, j \in DOMAIN old : old[i] <= at0 /\ (i <= j => old[i] <= old[j])
  BY <1>1, <1>6, <1>9 DEF WindowTrue
<1>23. /\ DOMAIN all = 1..Len(all) /\ DOMAIN old = 1..Len(old) /\ Len(old) \in Nat
       /\ Len(all) = IF ok THEN Len(old) + 1 ELSE Len(old)
       /\ \A i \in 1..Len(old) : all[i] = old[i] /\ old[i] \in Nat
       /\ ok => all[Len(old) + 1] = at0
  <2>1. PICK T : T = 0..MaxTime
    OBVIOUS
  <2>2. old \in Seq(T) /\ all \in Seq(T) /\ at0 \in T /\ T \subseteq Nat
    BY <1>7, <1>10, <1>19, <2>1, Positive
  <2>3. /\ DOMAIN all = 1..Len(all) /\ DOMAIN old = 1..Len(old) /\ Len(old) \in Nat
        /\ \A i \in 1..Len(old) : old[i] \in T
    BY <2>2
  <2>4. /\ Len(Append(old, at0)) = Len(old) + 1 /\ Append(old, at0)[Len(old) + 1] = at0
        /\ \A i \in 1..Len(old) : Append(old, at0)[i] = old[i]
    BY <2>2
  <2>5. \A i \in 1..Len(old) : old[i] \in Nat
    BY <2>2, <2>3
  <2>6. CASE ok
    <3>1. all = Append(old, at0)
      BY <1>17, <2>6
    <3> QED BY <2>3, <2>4, <2>5, <2>6, <3>1
  <2>7. CASE ~ ok
    <3>1. all = old
      BY <1>17, <2>7
    <3> QED BY <2>3, <2>5, <2>7, <3>1
  <2> QED BY <2>6, <2>7
<1>24. \A i, j \in DOMAIN all : all[i] <= at0 /\ (i <= j => all[i] <= all[j])
  <2> SUFFICES ASSUME NEW i \in 1..Len(all), NEW j \in 1..Len(all)
               PROVE  all[i] <= at0 /\ (i <= j => all[i] <= all[j])
    BY <1>23
  <2>1. CASE j \in 1..Len(old) /\ i \in 1..Len(old)
    BY <1>22, <1>23, <2>1
  <2>2. CASE ok /\ j = Len(old) + 1
    BY <1>10, <1>22, <1>23, <2>2
  <2>3. CASE ok /\ i = Len(old) + 1 /\ j \in 1..Len(old)
    BY <1>10, <1>22, <1>23, <2>3
  <2> QED BY <1>23, <2>1, <2>2, <2>3
<1>25. WindowTrue'
  <2> SUFFICES ASSUME NEW d \in Conn
               PROVE  /\ socket'[d] = "up"
                           => Recent(timestampsByConnection[d])' = Recent(admitted[d])'
                      /\ ~ WebSocket(d)' => timestampsByConnection'[d] = <<>> /\ admitted'[d] = <<>>
                      /\ \A i, j \in DOMAIN admitted'[d] :
                           /\ admitted'[d][i] <= now'
                           /\ i <= j => admitted'[d][i] <= admitted'[d][j]
    BY DEF WindowTrue
  <2>1. CASE d = c
    <3>1. Recent(timestampsByConnection[d])' = Recent(admitted[d])'
      BY <1>3, <1>8, <1>20, <1>21, <2>1 DEF Recent
    <3>2. WebSocket(d)'
      BY <1>3, <1>4, <2>1 DEF WebSocket
    <3> QED BY <1>3, <1>9, <1>20, <1>24, <2>1, <3>1, <3>2
  <2>2. CASE d # c
    <3>1. /\ socket[d] = "up" => Recent(timestampsByConnection[d]) = Recent(admitted[d])
          /\ ~ WebSocket(d) => timestampsByConnection[d] = <<>> /\ admitted[d] = <<>>
          /\ \A i, j \in DOMAIN admitted[d] :
               admitted[d][i] <= now /\ (i <= j => admitted[d][i] <= admitted[d][j])
      BY <1>1 DEF WindowTrue
    <3> QED BY <1>3, <1>4, <1>20, <2>2, <3>1 DEF Recent, WebSocket
  <2> QED BY <2>1, <2>2
<1>26. ASSUME ok, NEW i \in 1..Len(all), i > MAX_MESSAGES_PER_WINDOW
       PROVE  all[i] - all[i - MAX_MESSAGES_PER_WINDOW] >= WINDOW_MS
  <2>1. i - MAX_MESSAGES_PER_WINDOW \in 1..Len(old)
    BY <1>23, <1>26, Positive
  <2>2. CASE i \in 1..Len(old)
    <3>1. old[i] - old[i - MAX_MESSAGES_PER_WINDOW] >= WINDOW_MS
      BY <1>1, <1>6, <1>23, <1>26, <2>2 DEF RateExact
    <3> QED BY <1>23, <2>1, <2>2, <3>1
  <2>3. CASE i = Len(old) + 1
    <3>1. PICK k : k = i - MAX_MESSAGES_PER_WINDOW
      OBVIOUS
    <3>2. k \in 1..Len(old) /\ Len(old) - k + 1 = MAX_MESSAGES_PER_WINDOW
      BY <1>23, <2>1, <2>3, <3>1, Positive
    <3>3. Len(Kept(old, fresh)) < MAX_MESSAGES_PER_WINDOW
      BY <1>11, <1>12, <1>14, <1>15, <1>26
    <3>4. Len(Kept(old, fresh)) \in Nat
      BY <1>11, <1>12, <1>13
    <3>5. now - old[k] < WINDOW_MS => Len(Kept(old, fresh)) >= Len(old) - k + 1
      BY <1>1, <1>7, <1>8, <1>9, <1>22, <3>2, WindowFull DEF Recent
    <3>6. at0 - old[k] >= WINDOW_MS
      BY <1>9, <1>10, <1>23, <3>2, <3>3, <3>4, <3>5, Positive
    <3> QED BY <1>23, <1>26, <2>3, <3>1, <3>2, <3>6
  <2> QED BY <1>23, <1>26, <2>2, <2>3
<1>27. RateExact'
  <2>1. ~ starved'
    <3>1. ~ starved
      BY <1>1 DEF RateExact
    <3>2. Recent(admitted[c]) = kept
      BY <1>6, <1>8, <1>11, <1>12 DEF Recent
    <3> QED BY <1>3, <1>14, <3>1, <3>2
  <2>2. ASSUME NEW d \in Conn, NEW i \in DOMAIN admitted'[d], i > MAX_MESSAGES_PER_WINDOW
        PROVE  admitted'[d][i] - admitted'[d][i - MAX_MESSAGES_PER_WINDOW] >= WINDOW_MS
    <3>1. CASE d = c /\ ok
      BY <1>20, <1>23, <1>26, <2>2, <3>1
    <3>2. CASE d # c \/ ~ ok
      <4>1. admitted'[d] = admitted[d]
        BY <1>3, <1>15, <1>20, <3>2
      <4> QED BY <1>1, <2>2, <4>1 DEF RateExact
    <3> QED BY <3>1, <3>2
  <2> QED BY <2>1, <2>2 DEF RateExact
<1>28. OnlyMembers'
  <2>1. MayPost(c, r) => r \in rooms[c]
    BY <1>1, <1>3 DEF MayPost, TrackerMirrors, Joinable
  <2> QED BY <1>1, <1>3, <2>1 DEF OnlyMembers
<1>29. ChatTypes'
  <2>1. /\ timestampsByConnection' \in [Conn -> Seq(0..MaxTime)]
        /\ admitted' \in [Conn -> Seq(0..MaxTime)]
    BY <1>1, <1>18, <1>19 DEF ChatTypes
  <2>2. sends' \in 0..MaxSends
    BY <1>1, <1>3, Positive DEF ChatTypes
  <2>3. starved' \in BOOLEAN /\ intruded' \in BOOLEAN
    BY <1>3
  <2>4. ASSUME NEW d \in Conn
        PROVE  /\ Len(timestampsByConnection'[d]) <= MAX_MESSAGES_PER_WINDOW
               /\ socket'[d] # "up" => timestampsByConnection'[d] = <<>>
    <3>1. CASE d = c
      BY <1>3, <1>4, <1>19, <1>20, <3>1
    <3>2. CASE d # c
      BY <1>1, <1>4, <1>20, <3>2 DEF ChatTypes
    <3> QED BY <3>1, <3>2
  <2> QED BY <2>1, <2>2, <2>3, <2>4 DEF ChatTypes
<1>30. ConnTypes' /\ RoomTypes' /\ TrailTypes' /\ CountTypes' /\ now' \in 0..MaxTime
  BY <1>1, <1>3, <1>4 DEF ConnTypes, RoomTypes, TrailTypes, Trail, CountTypes
<1>31. StagesAgree' /\ NoRoomsOutside' /\ TrackerMirrors' /\ LogTrue'
  BY <1>1, <1>4 DEF StagesAgree, NoRoomsOutside, TrackerMirrors, LogTrue, LogOf, Range, Registered,
                    Joinable, Sse
<1>32. CountsTrue'
  BY <1>1, <1>4 DEF CountsTrue, Pending, Gone, Registered, Range
<1>33. TypeOK'
  BY <1>29, <1>30, TypeParts
<1> QED BY <1>25, <1>27, <1>28, <1>31, <1>32, <1>33 DEF RInv

\* The dispatcher runs.
LEMMA DispatchStep == ASSUME RInv, NEW call \in hooks, Dispatch(call) PROVE RInv'
<1>1. /\ TypeOK /\ StagesAgree /\ NoRoomsOutside /\ TrackerMirrors /\ OnlyMembers
      /\ LogTrue /\ WindowTrue /\ RateExact /\ CountsTrue
      /\ ConnTypes /\ RoomTypes /\ ChatTypes /\ TrailTypes /\ CountTypes /\ now \in 0..MaxTime
  BY RParts
<1>2. /\ hooks' = hooks \ {call} /\ count(call)
      /\ UNCHANGED <<now, connVars, roomVars, entries, audit, announced, late, chatVars>>
  BY DEF Dispatch
<1>3. UNCHANGED <<now, transport, socket, handshake, waitsFor, registry, rooms, byConnection,
                  entries, audit, announced, late, timestampsByConnection, sends, admitted,
                  starved, intruded>>
  BY <1>2 DEF connVars, roomVars, chatVars
<1>4. Trail \in Trails /\ Trail.calls = hooks /\ hooks \subseteq Call
  BY <1>1, TrailOf DEF Trails
<1>5. PICK phase \in {"connect", "disconnect"}, c \in Conn : call = [phase |-> phase, conn |-> c]
  BY <1>4 DEF Call
<1>6. /\ connects' = IF phase = "connect" THEN connects + 1 ELSE connects
      /\ disconnects' = IF phase = "disconnect" THEN disconnects + 1 ELSE disconnects
  <2>1. call.phase = phase
    BY <1>5
  <2>2. \A handler \in REGISTRY :
          /\ handler.phase = "connect" <=> handler.fn = "whenConnected"
          /\ handler.phase = "disconnect" <=> handler.fn = "whenDisconnected"
    BY DEF REGISTRY
  <2>3. /\ \E handler \in REGISTRY : handler.phase = "connect"
        /\ \E handler \in REGISTRY : handler.phase = "disconnect"
    BY DEF REGISTRY
  <2>4. /\ "whenConnected" \in collectHandlers(phase) <=> phase = "connect"
        /\ "whenDisconnected" \in collectHandlers(phase) <=> phase = "disconnect"
    BY <2>2, <2>3 DEF collectHandlers
  <2> QED BY <1>2, <2>1, <2>4 DEF count
<1>7. CountTypes'
  BY <1>1, <1>6 DEF CountTypes
<1>8. CountsTrue'
  <2>1. Gone' = Gone /\ announced' = announced
    BY <1>3 DEF Gone, Registered, Range
  <2>2. \A p \in {"connect", "disconnect"} : \A d \in Conn :
          [phase |-> p, conn |-> d] \in hooks'
            <=> [phase |-> p, conn |-> d] \in hooks /\ ~ (p = phase /\ d = c)
    <3> SUFFICES ASSUME NEW p \in {"connect", "disconnect"}, NEW d \in Conn
                 PROVE  [phase |-> p, conn |-> d] = call <=> p = phase /\ d = c
      BY <1>2
    <3>1. [phase |-> p, conn |-> d].phase = p /\ [phase |-> p, conn |-> d].conn = d
      OBVIOUS
    <3> QED BY <1>5, <3>1
  <2>3. /\ Pending("connect")' = IF phase = "connect" THEN Pending("connect") \ {c}
                                 ELSE Pending("connect")
        /\ Pending("disconnect")' = IF phase = "disconnect" THEN Pending("disconnect") \ {c}
                                    ELSE Pending("disconnect")
    BY <2>2 DEF Pending
  <2>4. c \in Pending(phase)
    BY <1>5 DEF Pending
  <2>5. /\ IsFiniteSet(Gone) /\ IsFiniteSet(announced)
        /\ connects \in Nat /\ disconnects \in Nat
    <3>1. announced \subseteq Conn /\ Gone \subseteq Conn
      BY <1>1 DEF TrailTypes, Gone
    <3> QED BY <1>1, <3>1, Positive, FS_Subset DEF CountTypes
  <2>6. PICK P : P = Pending("connect")
    OBVIOUS
  <2>7. PICK Q : Q = Pending("disconnect")
    OBVIOUS
  <2>8. PICK A : A = announced
    OBVIOUS
  <2>9. PICK G : G = Gone
    OBVIOUS
  <2>10. PICK n : n = connects
    OBVIOUS
  <2>11. PICK m : m = disconnects
    OBVIOUS
  <2>12. /\ P \in SUBSET A /\ n + Cardinality(P) = Cardinality(A)
         /\ Q \in SUBSET G /\ m + Cardinality(Q) = Cardinality(G)
    BY <1>1, <2>6, <2>7, <2>8, <2>9, <2>10, <2>11 DEF CountsTrue
  <2>13. CASE phase = "connect"
    <3>1. n + 1 + Cardinality(P \ {c}) = Cardinality(A)
      BY <2>4, <2>5, <2>6, <2>8, <2>10, <2>12, <2>13, CountOne
    <3>2. /\ Pending("connect")' = P \ {c} /\ Pending("disconnect")' = Q
          /\ connects' = n + 1 /\ disconnects' = m /\ announced' = A /\ Gone' = G
      BY <1>6, <2>1, <2>3, <2>6, <2>7, <2>8, <2>9, <2>10, <2>11, <2>13
    <3> QED BY <2>12, <3>1, <3>2 DEF CountsTrue
  <2>14. CASE phase = "disconnect"
    <3>1. m + 1 + Cardinality(Q \ {c}) = Cardinality(G)
      BY <2>4, <2>5, <2>7, <2>9, <2>11, <2>12, <2>14, CountOne
    <3>2. /\ Pending("connect")' = P /\ Pending("disconnect")' = Q \ {c}
          /\ connects' = n /\ disconnects' = m + 1 /\ announced' = A /\ Gone' = G
      BY <1>6, <2>1, <2>3, <2>6, <2>7, <2>8, <2>9, <2>10, <2>11, <2>14
    <3> QED BY <2>12, <3>1, <3>2 DEF CountsTrue
  <2> QED BY <2>13, <2>14
<1>9. TrailTypes'
  <2>1. Trail' \in Trails
    BY <1>2, <1>3, <1>4 DEF Trail, Trails
  <2> QED BY <1>1, <1>3, <2>1 DEF TrailTypes
<1>10. ConnTypes' /\ RoomTypes' /\ ChatTypes' /\ now' \in 0..MaxTime
  BY <1>1, <1>3 DEF ConnTypes, RoomTypes, ChatTypes
<1>11. StagesAgree' /\ NoRoomsOutside' /\ TrackerMirrors' /\ LogTrue' /\ OnlyMembers' /\ RateExact'
  BY <1>1, <1>3 DEF StagesAgree, NoRoomsOutside, TrackerMirrors, LogTrue, LogOf, Range, Registered,
                    Joinable, Sse, OnlyMembers, RateExact
<1>12. WindowTrue'
  BY <1>1, <1>3 DEF WindowTrue, Recent, WebSocket
<1>13. TypeOK'
  BY <1>7, <1>9, <1>10, TypeParts
<1> QED BY <1>8, <1>11, <1>12, <1>13 DEF RInv

\* Time passes: what is recent now was recent before.
LEMMA TickStep == ASSUME RInv, Tick PROVE RInv'
<1>1. /\ TypeOK /\ StagesAgree /\ NoRoomsOutside /\ TrackerMirrors /\ OnlyMembers
      /\ LogTrue /\ WindowTrue /\ RateExact /\ CountsTrue
      /\ ConnTypes /\ RoomTypes /\ ChatTypes /\ TrailTypes /\ CountTypes /\ now \in 0..MaxTime
  BY RParts
<1>2. /\ now < MaxTime /\ now' = now + 1
      /\ UNCHANGED <<connVars, roomVars, trailVars, countVars, chatVars>>
  BY DEF Tick
<1>3. UNCHANGED <<transport, socket, handshake, waitsFor, registry, rooms, byConnection, entries,
                  audit, hooks, announced, late, connects, disconnects, timestampsByConnection,
                  sends, admitted, starved, intruded>>
  BY <1>2 DEF connVars, roomVars, trailVars, countVars, chatVars
<1>4. now' \in 0..MaxTime /\ now' = now + 1 /\ now \in Nat
  BY <1>1, <1>2, Positive
<1>5. PICK before : before = {at \in Nat : now - at < WINDOW_MS}
  OBVIOUS
<1>6. PICK after : after = {at \in Nat : now' - at < WINDOW_MS}
  OBVIOUS
<1>7. before \cap after = after
  BY <1>4, <1>5, <1>6, Positive
<1>8. ASSUME NEW s \in Seq(0..MaxTime) PROVE Kept(s, after) = Kept(Kept(s, before), after)
  <2>1. Kept(Kept(s, before), after) = Kept(s, before \cap after)
    BY KeptTwice
  <2> QED BY <1>7, <2>1
<1>9. WindowTrue'
  <2> SUFFICES ASSUME NEW c \in Conn
               PROVE  /\ socket'[c] = "up"
                           => Recent(timestampsByConnection[c])' = Recent(admitted[c])'
                      /\ ~ WebSocket(c)' => timestampsByConnection'[c] = <<>> /\ admitted'[c] = <<>>
                      /\ \A i, j \in DOMAIN admitted'[c] :
                           /\ admitted'[c][i] <= now'
                           /\ i <= j => admitted'[c][i] <= admitted'[c][j]
    BY DEF WindowTrue
  <2>1. PICK times : times = timestampsByConnection[c]
    OBVIOUS
  <2>2. PICK old : old = admitted[c]
    OBVIOUS
  <2>3. times \in Seq(0..MaxTime) /\ old \in Seq(0..MaxTime)
    BY <1>1, <2>1, <2>2 DEF ChatTypes
  <2>4. ASSUME socket'[c] = "up"
        PROVE  Recent(timestampsByConnection[c])' = Recent(admitted[c])'
    <3>1. Kept(times, before) = Kept(old, before)
      BY <1>1, <1>3, <1>5, <2>1, <2>2, <2>4 DEF WindowTrue, Recent
    <3>2. Kept(times, after) = Kept(old, after)
      BY <1>8, <2>3, <3>1
    <3>3. timestampsByConnection'[c] = times /\ admitted'[c] = old
      BY <1>3, <2>1, <2>2
    <3> QED BY <1>6, <3>2, <3>3 DEF Recent
  <2>5. ~ WebSocket(c)' => timestampsByConnection'[c] = <<>> /\ admitted'[c] = <<>>
    BY <1>1, <1>3 DEF WindowTrue, WebSocket
  <2>6. ASSUME NEW i \in DOMAIN admitted'[c], NEW j \in DOMAIN admitted'[c]
        PROVE  /\ admitted'[c][i] <= now' /\ (i <= j => admitted'[c][i] <= admitted'[c][j])
    <3>1. old[i] <= now /\ (i <= j => old[i] <= old[j]) /\ old[i] \in Nat
      BY <1>1, <1>3, <2>2, <2>3, <2>6, Positive DEF WindowTrue
    <3> QED BY <1>3, <1>4, <2>2, <3>1
  <2> QED BY <2>4, <2>5, <2>6
<1>10. ConnTypes' /\ RoomTypes' /\ ChatTypes' /\ TrailTypes' /\ CountTypes'
  BY <1>1, <1>3 DEF ConnTypes, RoomTypes, ChatTypes, TrailTypes, Trail, CountTypes
<1>11. StagesAgree' /\ NoRoomsOutside' /\ TrackerMirrors' /\ LogTrue' /\ OnlyMembers' /\ RateExact'
  BY <1>1, <1>3 DEF StagesAgree, NoRoomsOutside, TrackerMirrors, LogTrue, LogOf, Range, Registered,
                    Joinable, Sse, OnlyMembers, RateExact
<1>12. CountsTrue'
  BY <1>1, <1>3 DEF CountsTrue, Pending, Gone, Registered, Range
<1>13. TypeOK'
  BY <1>4, <1>10, TypeParts
<1> QED BY <1>9, <1>11, <1>12, <1>13 DEF RInv

-----------------------------------------------------------------------------
(* The invariant, and what follows from it.                                *)

LEMMA InitRInv == Init => RInv
<1> SUFFICES ASSUME Init PROVE RInv
  OBVIOUS
<1>1. /\ now = 0 /\ transport = [c \in Conn |-> None] /\ socket = [c \in Conn |-> "none"]
      /\ handshake = [c \in Conn |-> "none"] /\ waitsFor = [c \in Conn |-> None]
      /\ registry = <<>> /\ rooms = [c \in Conn |-> {}] /\ byConnection = [c \in Conn |-> {}]
      /\ timestampsByConnection = [c \in Conn |-> <<>>] /\ entries = <<>> /\ audit = <<>>
      /\ hooks = {} /\ connects = 0 /\ disconnects = 0 /\ sends = 0
      /\ admitted = [c \in Conn |-> <<>>] /\ starved = FALSE /\ intruded = FALSE
      /\ announced = {} /\ late = {}
  BY DEF Init
<1>2. PICK empty : empty = <<>>
  OBVIOUS
<1>3. /\ \A S : empty \in Seq(S) /\ Len(empty) = 0 /\ DOMAIN empty = {}
      /\ Range(empty) = {} /\ IsInjective(empty)
  BY <1>2 DEF Range, IsInjective
<1>4. ConnTypes
  BY <1>1, <1>2, <1>3 DEF ConnTypes
<1>5. RoomTypes /\ CountTypes /\ now \in 0..MaxTime
  BY <1>1, Positive DEF RoomTypes, CountTypes
<1>6. ChatTypes
  <2>1. /\ timestampsByConnection \in [Conn -> Seq(0..MaxTime)]
        /\ admitted \in [Conn -> Seq(0..MaxTime)]
    BY <1>1, <1>2, <1>3
  <2>2. \A c \in Conn : timestampsByConnection[c] = empty
    BY <1>1, <1>2
  <2>3. \A c \in Conn : /\ Len(timestampsByConnection[c]) <= MAX_MESSAGES_PER_WINDOW
                        /\ socket[c] # "up" => timestampsByConnection[c] = <<>>
    BY <1>2, <1>3, <2>2, Positive
  <2>4. sends \in 0..MaxSends /\ starved \in BOOLEAN /\ intruded \in BOOLEAN
    <3>1. sends \in 0..MaxSends
      BY <1>1, Positive
    <3>2. starved \in BOOLEAN /\ intruded \in BOOLEAN
      BY <1>1
    <3> QED BY <3>1, <3>2
  <2> QED BY <2>1, <2>3, <2>4 DEF ChatTypes
<1>7. TrailTypes
  <2>1. Trail = [log |-> empty, ring |-> empty, calls |-> {}]
    BY <1>1, <1>2 DEF Trail
  <2>2. empty \in Seq(Entry) /\ empty \in Seq(Fact) /\ Len(empty) <= AUDIT_CAPACITY
    BY <1>3, Positive
  <2>3. Trail \in Trails
    BY <2>1, <2>2 DEF Trails
  <2> QED BY <1>1, <2>3 DEF TrailTypes
<1>8. \A c \in Conn : ~ Registered(c)
  BY <1>1, <1>2, <1>3 DEF Registered
<1>9. StagesAgree /\ NoRoomsOutside /\ TrackerMirrors /\ OnlyMembers
  BY <1>1, <1>8 DEF StagesAgree, NoRoomsOutside, TrackerMirrors, OnlyMembers
<1>10. LogTrue
  BY <1>1, <1>2, <1>3, Positive DEF LogTrue, LogOf
<1>11. WindowTrue /\ RateExact
  <2>1. \A c \in Conn : admitted[c] = empty /\ timestampsByConnection[c] = empty
    BY <1>1, <1>2
  <2> QED BY <1>1, <1>2, <1>3, <2>1 DEF WindowTrue, RateExact
<1>12. CountsTrue
  <2>1. Pending("connect") = {} /\ Pending("disconnect") = {} /\ Gone = {}
    BY <1>1 DEF Pending, Gone
  <2>2. Cardinality({}) = 0 /\ connects = 0 /\ disconnects = 0 /\ announced = {}
    BY <1>1, FS_EmptySet
  <2>3. /\ Cardinality(Pending("connect")) = 0 /\ Cardinality(Pending("disconnect")) = 0
        /\ Cardinality(announced) = 0 /\ Cardinality(Gone) = 0
    BY <2>1, <2>2
  <2> QED BY <2>1, <2>2, <2>3 DEF CountsTrue
<1>13. TypeOK
  BY <1>4, <1>5, <1>6, <1>7, TypeParts
<1> QED BY <1>9, <1>10, <1>11, <1>12, <1>13 DEF RInv

LEMMA RInvStep == RInv /\ [Next]_vars => RInv'
<1> SUFFICES ASSUME RInv, [Next]_vars PROVE RInv'
  OBVIOUS
<1>1. CASE UNCHANGED vars
  <2>1. UNCHANGED <<now, transport, socket, handshake, waitsFor, registry, rooms, byConnection,
                    entries, audit, hooks, announced, late, connects, disconnects,
                    timestampsByConnection, sends, admitted, starved, intruded>>
    BY <1>1 DEF vars, connVars, roomVars, trailVars, countVars, chatVars
  <2>2. TypeOK' /\ StagesAgree' /\ NoRoomsOutside' /\ TrackerMirrors' /\ OnlyMembers'
    <3>1. /\ ConnTypes' /\ RoomTypes' /\ ChatTypes' /\ TrailTypes' /\ CountTypes'
          /\ now' \in 0..MaxTime
      BY <2>1, RParts DEF ConnTypes, RoomTypes, ChatTypes, TrailTypes, Trail, CountTypes
    <3>2. TypeOK'
      BY <3>1, TypeParts
    <3>3. StagesAgree' /\ NoRoomsOutside' /\ TrackerMirrors' /\ OnlyMembers'
      BY <2>1, RParts DEF StagesAgree, NoRoomsOutside, TrackerMirrors, OnlyMembers,
                          Registered, Range, Joinable, Sse
    <3> QED BY <3>2, <3>3
  <2>3. LogTrue' /\ RateExact'
    BY <2>1, RParts DEF LogTrue, LogOf, Range, RateExact
  <2>4. WindowTrue'
    BY <2>1, RParts DEF WindowTrue, Recent, WebSocket
  <2>5. CountsTrue'
    BY <2>1, RParts DEF CountsTrue, Pending, Gone, Registered, Range
  <2> QED BY <2>2, <2>3, <2>4, <2>5 DEF RInv
<1>2. ASSUME NEW c \in Conn, Knock(c, "sse") \/ Knock(c, "websocket") PROVE RInv'
  BY <1>2, KnockStep
<1>3. ASSUME NEW c \in Conn, Refuse(c) PROVE RInv'
  BY <1>3, RefuseStep
<1>4. ASSUME NEW c \in Conn, Register(c) PROVE RInv'
  BY <1>4, RegisterStep
<1>5. ASSUME NEW c \in Conn, Evicted(c) PROVE RInv'
  BY <1>5, EvictedStep
<1>6. ASSUME NEW c \in Conn, ReauthFails(c) PROVE RInv'
  BY <1>6, ReauthFailsStep
<1>7. ASSUME NEW c \in Conn, NEW why \in Why, HangUp(c, why) PROVE RInv'
  BY <1>7, HangUpStep
<1>8. ASSUME NEW c \in Conn, NEW r \in Room, join(c, r) \/ leave(c, r) PROVE RInv'
  BY <1>8, RoomStep
<1>9. ASSUME NEW c \in Conn, NEW r \in Room, onChatMessage(c, r) PROVE RInv'
  BY <1>9, ChatStep
<1>10. ASSUME NEW call \in hooks, Dispatch(call) PROVE RInv'
  BY <1>10, DispatchStep
<1>11. ASSUME Tick PROVE RInv'
  BY <1>11, TickStep
<1> QED
  BY <1>1, <1>2, <1>3, <1>4, <1>5, <1>6, <1>7, <1>8, <1>9, <1>10, <1>11 DEF Next

\* The inductive invariant.
THEOREM RoomsInvariance == Spec => []RInv
BY InitRInv, RInvStep, PTL DEF Spec

\* Every variable keeps its type; the audit ring and the limiter their bounds.
THEOREM TypeCorrect == Spec => []TypeOK
BY RoomsInvariance, RParts, PTL

\* RoomMembershipTracker and the library's rooms agree on a live connection,
\* and the tracker remembers nothing of one that is closed.
THEOREM TrackerAgrees == Spec => []TrackerMirrors
BY RoomsInvariance, RParts, PTL

\* ChatGateway fans out to members of the room only.
THEOREM PostsAreMembers == Spec => []OnlyMembers
BY RoomsInvariance, RParts, PTL

\* ChatRateLimiter, for every window and maximum: no window holds more, and
\* none is refused while it holds less.
THEOREM RateKept == Spec => []RateExact
BY RoomsInvariance, RParts, PTL

\* The log says less than the invariant does of it.
LEMMA TimelineFromLog == RInv => TimelineTrue
<1> SUFFICES ASSUME RInv PROVE TimelineTrue
  OBVIOUS
<1>1. LogOf(entries, announced, late, Range(registry))
  BY RParts DEF LogTrue
<1>2. entries \in Seq(Entry)
  BY RParts, TrailOf DEF Trails
<1>3. ASSUME NEW entry \in Range(entries), entry.conn \notin late
      PROVE  EvictionTimeline(entry) = "open" <=> Registered(entry.conn)
  <2>1. PICK i \in DOMAIN entries : entry = entries[i]
    BY <1>2, RangeIs
  <2>2. entry.end = None <=> Registered(entry.conn)
    BY <1>1, <1>3, <2>1 DEF LogOf, Registered
  <2>3. EvictionTimeline(entry) = "open" <=> entry.end = None
    BY DEF EvictionTimeline
  <2> QED BY <2>2, <2>3
<1>4. \A u \in Range(UserOf) : \A entry \in timeline(u) : entry.conn \notin late =>
        (EvictionTimeline(entry) = "open" <=> Registered(entry.conn))
  BY <1>3 DEF timeline
<1> QED BY <1>1, <1>4 DEF TimelineTrue, LogOf

\* The eviction timeline shows a row open exactly while its connection is
\* registered, except one announced after it had closed.
THEOREM TimelineShows == Spec => []TimelineTrue
BY RoomsInvariance, TimelineFromLog, PTL

\* An injective sequence has as many elements as its range.
LEMMA InjectiveCount ==
  ASSUME NEW S, NEW s \in Seq(S), IsInjective(s)
  PROVE  IsFiniteSet(Range(s)) /\ Cardinality(Range(s)) = Len(s)
<1>1. PICK R : R = Range(s)
  OBVIOUS
<1>2. /\ Len(s) \in Nat
      /\ \A x : x \in R <=> \E i \in 1..Len(s) : x = s[i]
      /\ \A i, j \in 1..Len(s) : s[i] = s[j] => i = j
  BY <1>1, RangeIs
<1>3. s \in [1..Len(s) -> R]
  <2>1. s = [i \in 1..Len(s) |-> s[i]]
    OBVIOUS
  <2> QED BY <1>2, <2>1
<1>4. s \in Bijection(1..Len(s), R)
  BY <1>2, <1>3 DEF Bijection, Injection, Surjection
<1>5. ExistsBijection(1..Len(s), R)
  BY <1>4 DEF ExistsBijection
<1>6. IsFiniteSet(R)
  BY <1>2, <1>5, FS_NatBijection
<1>7. Cardinality(R) = Len(s)
  BY <1>2, <1>5, FS_CountingElements
<1> QED BY <1>1, <1>6, <1>7

LEMMA BalanceFromCounts == RInv => CountersBalance
<1> DEFINE unsung == {c \in Conn : handshake[c] = "done" /\ c \notin announced}
           done   == {c \in Conn : handshake[c] = "done"}
<1> SUFFICES ASSUME RInv, hooks = {}, \A c \in Conn : handshake[c] # "evicting"
             PROVE  connects + Cardinality(unsung) = disconnects + Len(registry)
  BY DEF CountersBalance
<1>1. /\ connects \in Nat /\ disconnects \in Nat /\ IsFiniteSet(Conn)
      /\ registry \in Seq(Conn) /\ IsInjective(registry) /\ announced \subseteq Conn
  BY RParts, Positive DEF CountTypes, ConnTypes, TrailTypes
<1>2. connects = Cardinality(announced) /\ disconnects = Cardinality(Gone)
  <2>1. Pending("connect") = {} /\ Pending("disconnect") = {}
    BY DEF Pending
  <2>2. /\ connects + Cardinality({}) = Cardinality(announced)
        /\ disconnects + Cardinality({}) = Cardinality(Gone)
    BY <2>1, RParts DEF CountsTrue
  <2> QED BY <1>1, <2>2, FS_EmptySet
<1>3. /\ announced \cup unsung = done /\ announced \cap unsung = {}
      /\ Gone \cup Range(registry) = done /\ Gone \cap Range(registry) = {}
  <2>1. \A c \in announced : handshake[c] = "done"
    BY <1>1, RParts DEF StagesAgree
  <2>2. Range(registry) \subseteq Conn
    BY <1>1, RangeIs
  <2>3. \A c \in Range(registry) : handshake[c] = "done"
    BY <2>2, RParts DEF StagesAgree, Registered
  <2>4. Gone = {c \in Conn : handshake[c] = "done" /\ c \notin Range(registry)}
    BY DEF Gone, Registered
  <2> QED BY <1>1, <2>1, <2>2, <2>3, <2>4
<1>4. IsFiniteSet(announced) /\ IsFiniteSet(unsung) /\ IsFiniteSet(Gone)
  <2>1. unsung \subseteq Conn /\ Gone \subseteq Conn
    BY DEF Gone
  <2> HIDE DEF unsung
  <2> QED BY <1>1, <2>1, FS_Subset
<1>5. IsFiniteSet(Range(registry)) /\ Cardinality(Range(registry)) = Len(registry)
  <2>1. PICK reg : reg = registry
    OBVIOUS
  <2> QED BY <1>1, <2>1, InjectiveCount
<1> HIDE DEF unsung, done
<1>6. Cardinality(done) = Cardinality(announced) + Cardinality(unsung)
  BY <1>3, <1>4, DisjointCount
<1>7. Cardinality(done) = Cardinality(Gone) + Cardinality(Range(registry))
  BY <1>3, <1>4, <1>5, DisjointCount
<1> QED BY <1>2, <1>5, <1>6, <1>7

\* DecoratorHandlers: whenever nothing is under way, the two counters differ
\* by the connections registered, streams that were never announced aside.
THEOREM CountersAgree == Spec => []CountersBalance
BY RoomsInvariance, BalanceFromCounts, PTL
=============================================================================
