------------------------------ MODULE Recovery ------------------------------
(***************************************************************************)
(* What one user gets back after a disconnect: the replay ring of an       *)
(* instance, the durable offline queue in Redis, and the lab requests that *)
(* fill, read and purge them.                                              *)
(*                                                                         *)
(* Everything here is kept per user, so the module is about one user, with *)
(* several browser tabs, on one instance.  Its commands to Redis travel on *)
(* one connection and run in the order they were issued; a step of the     *)
(* event loop is one action.                                               *)
(***************************************************************************)
EXTENDS Integers, Sequences, FiniteSets, SequencesExt, Subsequences

CONSTANTS
  Tab,            \* browser tabs: each has one stream at a time
  FirstCursor,    \* the Last-Event-ID of a tab that has heard nothing, or None
  Job,            \* HTTP requests
  Kind,           \* "burst", "offline", "drop", "ack" or "view"
  Count,          \* events a burst or an offline emit asks for
  BufferSize,     \* REALTIME_REPLAY_BUFFER_SIZE
  MaxPerUser,     \* OFFLINE_QUEUE_MAX_PER_USER
  RetrieveLimit,  \* events one drain may return
  PEEK_LIMIT,     \* events one listing of the queue may return
  None,
  MaxConnects,    \* bound: streams a tab opens
  MaxFaults       \* bound: restarts of the instance and expiries of the queue

MIN_EVENT_ID == 0

ASSUME ConstantsAssumption ==
  /\ FirstCursor \in [Tab -> {None, MIN_EVENT_ID}] /\ None \notin Nat \cup Tab
  /\ Kind \in [Job -> {"burst", "offline", "drop", "ack", "view"}]
  /\ Count \in [Job -> Nat \ {0}]
  /\ {BufferSize, MaxPerUser, RetrieveLimit, PEEK_LIMIT} \subseteq Nat \ {0}
  /\ {MaxConnects, MaxFaults} \subseteq Nat

VARIABLES
  enabled,     \* OFFLINE_QUEUE_ENABLED
  lastId,      \* the newest event id handed out
  ring,        \* EventReplayBuffer: the newest events
  data,        \* what each event carries: [seq, type]
  timeline,    \* ReplayTimeline: [seq, id], the id for the properties only
  stage,       \* a tab's stream: "none", "reading", "fetched" or "open"
  replay, fetched,  \* what its handshake took from the ring and the queue
  connects,    \* streams it has opened
  wire,        \* commands Redis has not run yet, in order
  queue,       \* the sorted set realtime:offline:{user}
  purging,     \* acknowledgements between their ZRANGE and their ZREM
  pc, seq,     \* where each request is, and the last number it emitted
  closing,     \* streams a drop has still to close
  view,        \* what a timeline request will answer
  \* history
  got,         \* the events each tab received, in order
  unqueued,    \* events never given to the queue
  drained,     \* events a stream took from the queue since the process started
  forgone,     \* events the code gives up for a tab, see Forgo
  owner, mixed,   \* the request that reset the timeline; another one emitted since
  crashes, expiries

handshakeVars == <<stage, replay, fetched, connects>>
jobVars == <<pc, seq, closing, view>>
memoryVars == <<lastId, data, ring, timeline>>
historyVars == <<unqueued, owner, mixed>>
vars == <<enabled, memoryVars, handshakeVars, wire, queue, purging, jobVars, got,
          historyVars, drained, forgone, crashes, expiries>>

Id == 1..lastId
Live == {t \in Tab : stage[t] = "open"}
Has(t) == Range(got[t])
\* The Last-Event-ID a browser sends when it reconnects.
Cursor(t) == IF got[t] = <<>> THEN FirstCursor[t] ELSE Last(got[t])

\* The newest n events of a set or of a sequence.
Newest(S, n) == {e \in S : Cardinality({f \in S : f > e}) < n}
Suffix(s, n) == IF Len(s) <= n THEN s ELSE SubSeq(s, Len(s) - n + 1, Len(s))

\* A tab gives up events only here: set by set, with the reason where used.
Forgo(lost(_)) == forgone' = [t \in Tab |-> forgone[t] \cup (lost(t) \ Has(t))]

NoView == [emissions |-> <<>>, retained |-> <<>>, evicted |-> <<>>, offlineQueued |-> {},
           shared |-> FALSE]

Init ==
  /\ enabled \in BOOLEAN
  /\ lastId = 0 /\ data = <<>> /\ ring = <<>> /\ timeline = <<>>
  /\ stage = [t \in Tab |-> "none"] /\ connects = [t \in Tab |-> 0]
  /\ replay = [t \in Tab |-> <<>>] /\ fetched = [t \in Tab |-> <<>>]
  /\ wire = <<>> /\ queue = {} /\ purging = {}
  /\ pc = [j \in Job |-> "idle"] /\ seq = [j \in Job |-> 0]
  /\ closing = [j \in Job |-> {}] /\ view = [j \in Job |-> NoView]
  /\ got = [t \in Tab |-> <<>>] /\ forgone = [t \in Tab |-> {}]
  /\ unqueued = {} /\ drained = {} /\ owner = None /\ mixed = FALSE
  /\ crashes = 0 /\ expiries = 0

-----------------------------------------------------------------------------
(* emitToUser, and the requests that call it.                              *)

Send(c) == wire' = Append(wire, c)
Queued == enabled /\ Live = {}

\* The live streams hear the event at once; the queue gets it only when
\* there is none.  A tab inside its handshake hears it from neither.
EmitToUser(payload) ==
  LET e == lastId + 1 IN
  /\ lastId' = e /\ data' = Append(data, payload)
  /\ ring' = Suffix(Append(ring, e), BufferSize)
  /\ got' = [t \in Tab |-> IF t \in Live THEN Append(got[t], e) ELSE got[t]]
  /\ IF Queued THEN Send([op |-> "append", id |-> e]) /\ UNCHANGED unqueued
               ELSE UNCHANGED wire /\ unqueued' = unqueued \cup {e}
  /\ Forgo(LAMBDA t : IF stage[t] \in {"reading", "fetched"} THEN {e} ELSE {})

SetJob(j, p) == pc' = [pc EXCEPT ![j] = p]

\* record(): the array a timeline request still holds grows with it.
Push(entry) ==
  /\ timeline' = Append(timeline, entry)
  /\ view' = [v \in Job |-> IF view[v].shared /\ pc[v] = "reading"
                            THEN [view[v] EXCEPT !.emissions = Append(@, entry)]
                            ELSE view[v]]

\* reset() and the first record(): a new array.
\* Mutated: the record is not reset.
RestartKept(entry) == Push(entry)
Restart(entry) ==
  /\ timeline' = <<entry>>
  /\ view' = [v \in Job |-> [view[v] EXCEPT !.shared = FALSE]]

burstRest == <<enabled, handshakeVars, queue, purging, closing, drained, crashes, expiries>>

\* burst and OfflineService.emit: one event per turn, a publish in between.
Burst(j) ==
  LET n == seq[j] + 1
      entry == [seq |-> n, id |-> lastId + 1] IN
  /\ EmitToUser([seq |-> n, type |-> Kind[j]])
  /\ seq' = [seq EXCEPT ![j] = n]
  /\ SetJob(j, IF n = Count[j] THEN "done" ELSE "running")
  /\ \/ pc[j] = "idle" /\ Restart(entry) /\ owner' = j /\ mixed' = FALSE
     \/ pc[j] = "running" /\ Push(entry) /\ mixed' = (mixed \/ owner # j) /\ UNCHANGED owner
  /\ UNCHANGED burstRest

ReplayBurst(j) == Kind[j] = "burst" /\ Burst(j)

requireQueue == enabled

\* Whether the user is connected is asked once, before the first event.
OfflineEmit(j) ==
  /\ Kind[j] = "offline"
  /\ pc[j] = "idle" => requireQueue /\ Live = {}
  /\ Burst(j)

\* 503 without a queue, 409 for an emit with a live stream.
OfflineRefused(j) ==
  /\ pc[j] = "idle"
  /\ \/ Kind[j] \in {"offline", "ack"} /\ ~requireQueue
     \/ Kind[j] = "offline" /\ Live # {}
  /\ SetJob(j, "done")
  /\ UNCHANGED <<burstRest, memoryVars, wire, seq, view, got, historyVars, forgone>>

-----------------------------------------------------------------------------
(* A stream's handshake.                                                   *)

\* EventReplayBuffer.since: nothing unless the window still holds the cursor.
Since(c) ==
  LET k == SelectInSeq(ring, LAMBDA e : e = c)
  IN IF k = 0 THEN <<>> ELSE SubSeq(ring, k + 1, Len(ring))

\* What has been emitted and was never queued is out of a tab's reach once
\* its cursor has left the window.
Slipped(t) == IF Cursor(t) \in Range(ring) THEN {} ELSE unqueued

openRest == <<enabled, memoryVars, queue, purging, jobVars, historyVars, crashes, expiries>>

\* Without a cursor, or a queue, nothing is awaited: what was missed is
\* replayed from the ring and the stream is open.
ConnectAtOnce(t) ==
  /\ stage[t] = "none" /\ connects[t] < MaxConnects
  /\ Cursor(t) = None \/ ~enabled
  /\ stage' = [stage EXCEPT ![t] = "open"]
  /\ connects' = [connects EXCEPT ![t] = @ + 1]
  /\ got' = [got EXCEPT ![t] = @ \o Since(Cursor(t))]
  /\ Forgo(LAMBDA u : IF u # t THEN {}
                      ELSE IF Cursor(t) = None THEN 1..lastId ELSE Slipped(t))
  /\ UNCHANGED <<openRest, replay, fetched, wire, drained>>

\* The ring is read, and the queue asked, before the stream is registered.
Connect(t) ==
  /\ stage[t] = "none" /\ connects[t] < MaxConnects
  /\ Cursor(t) # None /\ enabled
  /\ stage' = [stage EXCEPT ![t] = "reading"]
  /\ connects' = [connects EXCEPT ![t] = @ + 1]
  /\ replay' = [replay EXCEPT ![t] = Since(Cursor(t))]
  /\ Send([op |-> "retrieve", tab |-> t])
  /\ Forgo(LAMBDA u : IF u = t THEN Slipped(t) ELSE {})
  /\ UNCHANGED <<openRest, fetched, got, drained>>

\* The reply: replay, drain, and only then the registration.  What was
\* drained is acknowledged up to its last id.
Drained(t) == Kept(fetched[t], Id \ Range(replay[t]))

Opened(t) ==
  /\ stage[t] = "fetched"
  /\ stage' = [stage EXCEPT ![t] = "open"]
  /\ got' = [got EXCEPT ![t] = @ \o replay[t] \o Drained(t)]
  /\ replay' = [replay EXCEPT ![t] = <<>>]
  /\ fetched' = [fetched EXCEPT ![t] = <<>>]
  /\ drained' = drained \cup Range(Drained(t))
  /\ IF Drained(t) # <<>> THEN Send([op |-> "ack", by |-> t, upTo |-> Last(Drained(t))])
                          ELSE UNCHANGED wire
  /\ UNCHANGED <<openRest, connects, forgone>>

\* The client goes, or the network does.
Leave(t) ==
  /\ stage[t] = "open" /\ stage' = [stage EXCEPT ![t] = "none"]
  /\ UNCHANGED <<openRest, replay, fetched, connects, wire, got, drained, forgone>>

\* drop(): the streams are listed once, then closed one at a time.
dropRest == <<enabled, memoryVars, replay, fetched, connects, wire, queue, purging, seq, view,
              got, historyVars, drained, forgone, crashes, expiries>>

Drop(j) ==
  /\ Kind[j] = "drop" /\ pc[j] = "idle"
  /\ closing' = [closing EXCEPT ![j] = {<<t, connects[t]>> : t \in Live}]
  /\ SetJob(j, IF Live = {} THEN "done" ELSE "running")
  /\ UNCHANGED <<dropRest, stage>>

\* A stream that is gone is left alone, and so is its tab's next one.
DropOne(j) ==
  /\ Kind[j] = "drop" /\ pc[j] = "running"
  /\ \E c \in closing[j] :
       /\ stage' = [t \in Tab |-> IF t \in Live /\ c = <<t, connects[t]>>
                                  THEN "none" ELSE stage[t]]
       /\ closing' = [closing EXCEPT ![j] = @ \ {c}]
  /\ SetJob(j, IF closing'[j] = {} THEN "done" ELSE "running")
  /\ UNCHANGED dropRest

-----------------------------------------------------------------------------
(* RedisOfflineQueue.                                                      *)

redisRest == <<enabled, memoryVars, replay, connects, seq, closing, got, historyVars,
               drained, crashes, expiries>>

\* ZREMRANGEBYRANK: ranks follow the ids, whose clock scores the members.
\* Mutated: the oldest are kept; one too many is kept.
TrimLate(S) == Newest(S, MaxPerUser + 1)
TrimNewest(S) == {e \in S : Cardinality({f \in S : f < e}) < MaxPerUser}
Trim(S) == Newest(S, MaxPerUser)

append(c) ==
  LET all == queue \cup {c.id} IN
  /\ queue' = Trim(all)
  /\ Forgo(LAMBDA t : all \ Newest(all, MaxPerUser))
  /\ UNCHANGED <<stage, fetched, purging, pc, view>>

\* The first of the given events, in the order of their ids.
Oldest(S, limit) ==
  LET s == Kept([k \in Id |-> k], S)
  IN SubSeq(s, 1, IF Len(s) < limit THEN Len(s) ELSE limit)

\* Mutated: the event the client already has is returned again.
retrieveAgain(since, limit) == Oldest({e \in queue : e >= since}, limit)
retrieveSince(since, limit) == Oldest({e \in queue : e > since}, limit)

\* A drain: what its limit leaves behind is not asked for again.
retrieve(c) ==
  LET t == c.tab
      missed == {e \in queue : e > Cursor(t)} IN
  /\ fetched' = [fetched EXCEPT ![t] = retrieveSince(Cursor(t), RetrieveLimit)]
  /\ stage' = [stage EXCEPT ![t] = "fetched"]
  /\ Forgo(LAMBDA u : IF u = t THEN {e \in missed : Cardinality({f \in missed : f < e}) >= RetrieveLimit}
                      ELSE {})
  /\ UNCHANGED <<queue, purging, pc, view>>

\* acknowledge, first half: the members up to the watermark.
\* Mutated: the watermark itself is kept.
coveredBelow(upTo) == {e \in queue : e < upTo}
covered(upTo) == {e \in queue : e <= upTo}

acknowledge(c) ==
  /\ purging' = IF covered(c.upTo) = {} THEN purging
                ELSE purging \cup {[by |-> c.by, ids |-> covered(c.upTo)]}
  /\ UNCHANGED <<queue, stage, fetched, pc, view, forgone>>

readSeq(e) == data[e].seq

\* A timeline request's read of the queue: its reply ends the request.
readQueue(c) ==
  /\ view' = [view EXCEPT ![c.job].offlineQueued =
                 {readSeq(e) : e \in Range(retrieveSince(MIN_EVENT_ID, PEEK_LIMIT))}]
  /\ SetJob(c.job, "done")
  /\ UNCHANGED <<queue, purging, stage, fetched, forgone>>

Redis ==
  /\ wire # <<>> /\ wire' = Tail(wire)
  /\ LET c == Head(wire) IN \/ c.op = "append" /\ append(c)
                            \/ c.op = "retrieve" /\ retrieve(c)
                            \/ c.op = "ack" /\ acknowledge(c)
                            \/ c.op = "peek" /\ readQueue(c)
  /\ UNCHANGED redisRest

\* acknowledge, second half.  What a tab drained is not given up for it.
Purge ==
  \E p \in purging :
    /\ queue' = queue \ p.ids
    /\ purging' = purging \ {p}
    /\ Forgo(LAMBDA t : IF t = p.by THEN {} ELSE p.ids)
    /\ UNCHANGED <<redisRest, stage, fetched, wire, pc, view>>

\* The ack endpoint: the watermark is the newest event of an earlier listing
\* of the queue, or any other.
Acknowledge(j) ==
  /\ Kind[j] = "ack" /\ pc[j] = "idle" /\ requireQueue
  /\ \E e \in 1..lastId : Send([op |-> "ack", by |-> None, upTo |-> e])
  /\ SetJob(j, "done")
  /\ UNCHANGED <<redisRest, view, stage, fetched, queue, purging, forgone>>

\* timelineFor: the lists are cut before the queue is awaited, but the
\* emissions are the record's own array.
Timeline(j) ==
  LET cut == IF Len(timeline) > BufferSize THEN Len(timeline) - BufferSize ELSE 0 IN
  /\ Kind[j] = "view" /\ pc[j] = "idle"
  /\ view' = [view EXCEPT ![j] = [emissions |-> timeline, shared |-> timeline # <<>>,
                                  evicted |-> SubSeq(timeline, 1, cut),
                                  retained |-> SubSeq(timeline, cut + 1, Len(timeline)),
                                  offlineQueued |-> {}]]
  /\ IF enabled THEN SetJob(j, "reading") /\ Send([op |-> "peek", job |-> j])
                ELSE SetJob(j, "done") /\ UNCHANGED wire
  /\ UNCHANGED <<burstRest, memoryVars, seq, got, historyVars, forgone>>

-----------------------------------------------------------------------------
(* The lab page: a row for each emission of the answer, against the bursts *)
(* the tab has heard.                                                      *)

Seqs(s) == {entry.seq : entry \in Range(s)}

receivedSeqsFrom(t) == {readSeq(e) : e \in {x \in Has(t) : data[x].type = "burst"}}

tagReplayRanges(v, received) ==
  [k \in DOMAIN v.emissions |->
     LET n == v.emissions[k].seq
     IN [id |-> v.emissions[k].id,
         tag |-> IF n \in v.offlineQueued THEN "queue"
                 ELSE IF n \in Seqs(v.retained) THEN "buffer"
                 ELSE IF n \in received THEN "live" ELSE "gap"]]

tagRows(j, t) == tagReplayRanges(view[j], receivedSeqsFrom(t))

-----------------------------------------------------------------------------
\* The key's TTL runs out.
Expire ==
  /\ queue # {} /\ crashes + expiries < MaxFaults /\ expiries' = expiries + 1
  /\ queue' = {}
  /\ Forgo(LAMBDA t : queue)
  /\ UNCHANGED <<enabled, memoryVars, handshakeVars, wire, purging, jobVars, got, historyVars,
                 drained, crashes>>

Appending == {wire[k].id : k \in {n \in DOMAIN wire : wire[n].op = "append"}}

\* The process restarts: its memory and its unsent commands are gone.
Crash ==
  /\ crashes + expiries < MaxFaults /\ crashes' = crashes + 1
  /\ ring' = <<>> /\ timeline' = <<>> /\ owner' = None /\ mixed' = FALSE
  /\ stage' = [t \in Tab |-> "none"]
  /\ replay' = [t \in Tab |-> <<>>] /\ fetched' = [t \in Tab |-> <<>>]
  /\ wire' = <<>> /\ purging' = {}
  /\ pc' = [j \in Job |-> IF pc[j] = "idle" THEN "idle" ELSE "done"]
  /\ closing' = [j \in Job |-> {}] /\ view' = [j \in Job |-> NoView]
  /\ Forgo(LAMBDA t : Appending) /\ drained' = {}
  /\ UNCHANGED <<enabled, lastId, data, connects, queue, seq, got, unqueued, expiries>>

Next ==
  \/ \E t \in Tab : ConnectAtOnce(t) \/ Connect(t) \/ Opened(t) \/ Leave(t)
  \/ \E j \in Job : \/ ReplayBurst(j) \/ OfflineEmit(j) \/ OfflineRefused(j)
                    \/ Drop(j) \/ DropOne(j) \/ Acknowledge(j) \/ Timeline(j)
  \/ Redis \/ Purge \/ Expire \/ Crash

Spec == Init /\ [][Next]_vars

-----------------------------------------------------------------------------
Command == [op : {"append"}, id : Id] \cup [op : {"retrieve"}, tab : Tab]
           \cup [op : {"ack"}, by : Tab \cup {None}, upTo : Id] \cup [op : {"peek"}, job : Job]
Entry == [seq : Nat, id : Id]

TypeOK ==
  /\ enabled \in BOOLEAN /\ lastId \in Nat
  /\ ring \in Seq(Id) /\ Len(ring) <= BufferSize
  /\ data \in [Id -> [seq : Nat \ {0}, type : {"burst", "offline"}]]
  /\ timeline \in Seq(Entry)
  /\ stage \in [Tab -> {"none", "reading", "fetched", "open"}]
  /\ replay \in [Tab -> Seq(Id)] /\ fetched \in [Tab -> Seq(Id)]
  /\ connects \in [Tab -> Nat]
  /\ wire \in Seq(Command)
  /\ queue \subseteq Id /\ Cardinality(queue) <= MaxPerUser
  /\ purging \subseteq [by : Tab \cup {None}, ids : SUBSET Id]
  /\ pc \in [Job -> {"idle", "running", "reading", "done"}] /\ seq \in [Job -> Nat]
  /\ closing \in [Job -> SUBSET (Tab \X Nat)]
  /\ view \in [Job -> [emissions : Seq(Entry), retained : Seq(Entry), evicted : Seq(Entry),
                       offlineQueued : SUBSET Nat, shared : BOOLEAN]]
  /\ got \in [Tab -> Seq(Id)] /\ unqueued \subseteq Id /\ drained \subseteq Id
  /\ forgone \in [Tab -> SUBSET Id]
  /\ owner \in Job \cup {None} /\ mixed \in BOOLEAN
  /\ crashes \in Nat /\ expiries \in Nat

\* Across every reconnect (drop, Last-Event-ID, retrieveSince) a tab hears
\* each event at most once, and in the order they were emitted: the ring's
\* replay, the queue's drain and the live events join into one stream.
OneStream ==
  \A t \in Tab : \A k, l \in DOMAIN got[t] : k < l => got[t][k] < got[t][l]

\* Events a tab is still going to get: on their way, or had by reconnecting.
Ahead(t) ==
  CASE stage[t] = "open" -> {}
    [] stage[t] = "fetched" -> Range(replay[t]) \cup Range(fetched[t])
    [] stage[t] = "reading" -> Range(replay[t]) \cup queue \cup Appending
    [] OTHER -> {e \in queue \cup Appending : Cursor(t) \in Nat /\ e > Cursor(t)}
                  \cup Range(Since(Cursor(t)))

\* Nothing else is lost: an event a tab has not heard is ahead of it, unless
\* it was given up (emitted inside the tab's own handshake, trimmed, expired,
\* purged for somebody else, beyond a drain's limit, on the wire of a dead
\* process), or was never queued and the tab's cursor has left the window.
NothingElseLost ==
  \A t \in Tab : Cursor(t) # None =>
    \A e \in Id \ (Has(t) \cup forgone[t]) : e \in Ahead(t) \/ e \in Slipped(t)

\* timelineFor: the record of a burst nothing else interfered with is its clean 1..count,
\* and the part it calls retained is what the ring holds of it.
TimelineHonest ==
  owner # None /\ ~mixed =>
    /\ timeline = [k \in 1..seq[owner] |-> [seq |-> k, id |-> timeline[k].id]]
    /\ \A k \in 1..Len(timeline) :
         timeline[k].id \in Range(ring) <=> k > Len(timeline) - BufferSize

\* What a stream drained is on its way out of the queue: an acknowledge()
\* that covers it waits for Redis or is between its two commands, unless
\* the process died first.
DrainedIsPurged ==
  \A e \in drained \cap queue :
    \/ \E k \in DOMAIN wire : wire[k].op = "ack" /\ e <= wire[k].upTo
    \/ \E p \in purging : e \in p.ids

-----------------------------------------------------------------------------
(* What the lab's documentation claims and the code does not do.           *)

\* lib/replay-diff.ts:42-43: what is tagged a gap has aged out of the buffer,
\* was never received and cannot be recovered.
GapIsLost ==
  \A j \in Job, t \in Tab : Kind[j] = "view" /\ pc[j] = "done" =>
    \A row \in Range(tagRows(j, t)) : row.tag = "gap" => row.id \notin Range(ring) \cup Has(t)
=============================================================================
