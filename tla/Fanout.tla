------------------------------- MODULE Fanout -------------------------------
(***************************************************************************)
(* Cross-instance fan-out: requests that emit or that disconnect a stream, *)
(* the Redis channel between the instances, the counters and the health    *)
(* flag.                                                                   *)
(*                                                                         *)
(* A request applies its operation to the streams of its own instance, and *)
(* then publishes it.  Redis copies a published message to every           *)
(* connection subscribed at that moment, the publisher's own included, and *)
(* keeps nothing: what is on a connection that drops is lost.              *)
(***************************************************************************)
EXTENDS Naturals, Sequences, FiniteSets

CONSTANTS
  Instance,
  User, Tenant, TenantOf, Admin,   \* accounts, their tenants, the admins
  Stream, UserOf, HomeOf,          \* SSE streams, their accounts, their instances
  Job, JobAt, Caller,              \* HTTP requests: where each runs, and for whom
  Scope,                           \* "user", "tenant", "broadcast" or "kill"
  Target,                          \* the user, tenant or stream it names
  Steps,                           \* events it emits, in order (a kill has one)
  NoJob,
  MaxLosses                        \* bound: outages

ASSUME ConstantsAssumption ==
  /\ TenantOf \in [User -> Tenant] /\ Admin \subseteq User
  /\ UserOf \in [Stream -> User] /\ HomeOf \in [Stream -> Instance]
  /\ JobAt \in [Job -> Instance] /\ Caller \in [Job -> User]
  /\ Scope \in [Job -> {"user", "tenant", "broadcast", "kill"}]
  /\ Steps \in [Job -> Nat \ {0}]
  /\ \A j \in Job : /\ Scope[j] = "user" => Target[j] \in User
                    /\ Scope[j] = "tenant" => Target[j] \in Tenant
                    /\ Scope[j] = "kill" => Target[j] \in Stream /\ Steps[j] = 1
  /\ NoJob \notin Job /\ MaxLosses \in Nat

VARIABLES
  phase,      \* "boot", "subscribing", "serving", "closing" or "stopped"
  handling,   \* the driver holds the library's handler
  link,       \* its subscriber connection: "none", "ready", "up" or "down"
  channel,    \* messages copied to that connection, oldest first
  flag,       \* busAvailable
  published, receivedRemote,   \* the counters of ClusterStatsService
  open,       \* streams registered on their instance
  present,    \* streams the presence index lists
  pc, step,   \* where each request is
  wire,       \* publishes of each instance not yet taken by Redis, in order
  answer,     \* what a request returned
  \* history
  used,       \* stream ids given out: each is a fresh UUID
  got,        \* the events each stream was sent, in order
  accepted,   \* messages of each instance that Redis took
  audience,   \* the streams open when an event was emitted
  killedBy,   \* the request that closed a stream
  whole,      \* so far every message was copied to every instance
  lost        \* outages so far

busVars == <<phase, handling, link, channel, flag, published, receivedRemote>>
jobVars == <<pc, step, wire, answer>>
historyVars == <<used, got, accepted, audience, killedBy, whole>>
vars == <<busVars, open, present, jobVars, historyVars, lost>>

\* An event is identified by the request that emits it and its place there.
Message == UNION {{j} \X (1..Steps[j]) : j \in Job}
JobOf(m) == m[1]
Origin(m) == JobAt[JobOf(m)]
Current(j) == <<j, step[j]>>

\* The streams an event of request j is for.
Addressed(j) ==
  {c \in Stream : CASE Scope[j] = "user" -> UserOf[c] = Target[j]
                    [] Scope[j] = "tenant" -> TenantOf[UserOf[c]] = Target[j]
                    [] Scope[j] = "broadcast" -> TRUE
                    [] Scope[j] = "kill" -> FALSE}

Init ==
  /\ phase = [i \in Instance |-> "boot"]
  /\ handling = [i \in Instance |-> FALSE]
  /\ link = [i \in Instance |-> "none"]
  /\ channel = [i \in Instance |-> <<>>]
  /\ flag = [i \in Instance |-> TRUE]
  /\ published = [i \in Instance |-> 0]
  /\ receivedRemote = [i \in Instance |-> 0]
  /\ open = {} /\ present = {} /\ used = {}
  /\ pc = [j \in Job |-> "idle"]
  /\ step = [j \in Job |-> 1]
  /\ wire = [i \in Instance |-> <<>>]
  /\ answer = [j \in Job |-> "none"]
  /\ got = [c \in Stream |-> <<>>]
  /\ accepted = [i \in Instance |-> 0]
  /\ audience = [m \in Message |-> {}]
  /\ killedBy = [c \in Stream |-> NoJob]
  /\ whole = TRUE
  /\ lost = 0

-----------------------------------------------------------------------------
(* The driver's subscriber connection.                                     *)

SetFlag(i, up) == flag' = [flag EXCEPT ![i] = up]
SetLink(i, l) == link' = [link EXCEPT ![i] = l]
Enter(i, p) == phase' = [phase EXCEPT ![i] = p]
Drain(i) == channel' = [channel EXCEPT ![i] = <<>>]
Outage == lost < MaxLosses /\ lost' = lost + 1

\* What no event of the connection touches.
linkRest == <<published, receivedRemote, open, present, jobVars, historyVars>>

\* subscribe(), called once, while the application boots.
Subscribe(i) ==
  /\ phase[i] = "boot"
  /\ Enter(i, "subscribing")
  /\ handling' = [handling EXCEPT ![i] = TRUE]
  /\ UNCHANGED <<link, channel, flag, lost, linkRest>>

\* 'ready': the connection is established, the subscription not yet.
Ready(i) ==
  /\ \/ phase[i] = "subscribing" /\ link[i] = "none"
     \/ phase[i] = "serving" /\ link[i] = "down"
  /\ SetLink(i, "ready") /\ SetFlag(i, TRUE)
  /\ UNCHANGED <<phase, handling, channel, lost, linkRest>>

\* The SUBSCRIBE is acknowledged: the first one resolves createSubscriber,
\* a later one is ioredis's own after a reconnect.
Subscribed(i) ==
  /\ link[i] = "ready"
  /\ SetLink(i, "up")
  /\ IF phase[i] = "subscribing" THEN Enter(i, "serving") /\ SetFlag(i, TRUE)
                                 ELSE UNCHANGED <<phase, flag>>
  /\ UNCHANGED <<handling, channel, lost, linkRest>>

\* subscribe() rejects: the handler is dropped and the clone disconnected.
\* The library logs it and never subscribes again.
SubscribeFails(i) ==
  /\ phase[i] = "subscribing"
  /\ Outage
  /\ Enter(i, "serving") /\ SetLink(i, "none") /\ SetFlag(i, FALSE)
  /\ handling' = [handling EXCEPT ![i] = FALSE]
  /\ UNCHANGED <<channel, linkRest>>

\* 'close': what was on its way is gone.
LinkDrops(i) ==
  /\ phase[i] = "serving" /\ link[i] \in {"ready", "up"}
  /\ Outage
  /\ SetLink(i, "down") /\ SetFlag(i, FALSE) /\ Drain(i)
  /\ UNCHANGED <<phase, handling, linkRest>>

\* close(): the handlers are dropped at once, the connection is quit after.
\* The HTTP server has drained its requests by then.
Close(i) ==
  /\ phase[i] = "serving"
  /\ \A j \in Job : JobAt[j] = i => pc[j] \in {"idle", "done"}
  /\ Enter(i, "closing")
  /\ handling' = [handling EXCEPT ![i] = FALSE]
  /\ UNCHANGED <<link, channel, flag, lost, linkRest>>

Quit(i) ==
  /\ phase[i] = "closing"
  /\ Enter(i, "stopped") /\ SetLink(i, "none") /\ Drain(i)
  /\ SetFlag(i, IF link[i] = "none" THEN flag[i] ELSE FALSE)
  /\ open' = {c \in open : HomeOf[c] # i}
  /\ UNCHANGED <<handling, published, receivedRemote, present, jobVars, historyVars, lost>>

-----------------------------------------------------------------------------
(* Streams, and the presence index that follows them.                      *)

streamRest == <<busVars, jobVars, got, accepted, audience, killedBy, whole, lost>>

Open(c) ==
  /\ c \notin used /\ used' = used \cup {c}
  /\ phase[HomeOf[c]] = "serving"
  /\ open' = open \cup {c}
  /\ UNCHANGED <<present, streamRest>>

Leave(c) ==
  /\ c \in open
  /\ open' = open \ {c}
  /\ UNCHANGED <<present, used, streamRest>>

\* The index is followed for the streams some request asks it about.
Indexed == {Target[j] : j \in {k \in Job : Scope[k] = "kill"}}

Joined(c) ==
  /\ c \in (open \cap Indexed) \ present
  /\ present' = present \cup {c}
  /\ UNCHANGED <<open, used, streamRest>>

Left(c) ==
  /\ c \in present \ open
  /\ present' = present \ {c}
  /\ UNCHANGED <<open, used, streamRest>>

-----------------------------------------------------------------------------
(* Applying an operation to the streams of one instance.                   *)

Local(i) == {c \in open : HomeOf[c] = i}

Deliver(i, m) ==
  got' = [c \in Stream |-> IF c \in Local(i) \cap Addressed(JobOf(m))
                           THEN Append(got[c], m) ELSE got[c]]

\* disconnectLocal: a stream this instance does not hold is left alone.
CloseStream(i, m) ==
  LET c == Target[JobOf(m)] IN
  IF c \in Local(i)
  THEN /\ open' = open \ {c}
       /\ killedBy' = [killedBy EXCEPT ![c] = JobOf(m)]
       ELSE UNCHANGED <<open, killedBy>>

ApplyRemote(i, m) ==
  \/ Scope[JobOf(m)] = "kill" /\ CloseStream(i, m) /\ UNCHANGED got
  \/ Scope[JobOf(m)] # "kill" /\ Deliver(i, m) /\ UNCHANGED <<open, killedBy>>

-----------------------------------------------------------------------------
(* Requests.                                                               *)

SetJob(j, p) == pc' = [pc EXCEPT ![j] = p]
Answer(j, a) == answer' = [answer EXCEPT ![j] = a]
Serving(j) == phase[JobAt[j]] = "serving"
jobRest == <<busVars, present, used, accepted, whole, lost>>

\* Mutated: the tenant named by the caller is not compared with their own.
PermittedAnyTenant(j) == Scope[j] = "broadcast" => Caller[j] \in Admin
Permitted(j) == /\ Scope[j] = "tenant" => Target[j] = TenantOf[Caller[j]]
                /\ Scope[j] = "broadcast" => Caller[j] \in Admin

Refuse(j) ==
  /\ Serving(j) /\ pc[j] = "idle" /\ Scope[j] # "kill" /\ ~Permitted(j)
  /\ SetJob(j, "done") /\ Answer(j, "forbidden")
  /\ UNCHANGED <<jobRest, open, step, wire, got, audience, killedBy>>

\* The client sends its commands in the order they were issued.
\* Mutated: the newest goes first.
EnqueueFirst(j) == wire' = [wire EXCEPT ![JobAt[j]] = <<j>> \o @]
\* Mutated: the command is sent twice.
EnqueueTwice(j) == wire' = [wire EXCEPT ![JobAt[j]] = @ \o <<j, j>>]
\* Mutated: the command is never sent.
EnqueueNever(j) == j \in Job /\ UNCHANGED wire
Enqueue(j) == wire' = [wire EXCEPT ![JobAt[j]] = Append(@, j)]

\* One emit: its own streams first, then the bus.
Emit(j) ==
  /\ Serving(j) /\ pc[j] \in {"idle", "pause"} /\ Scope[j] # "kill" /\ Permitted(j)
  /\ Deliver(JobAt[j], Current(j))
  /\ audience' = [audience EXCEPT ![Current(j)] = open \cap Addressed(j)]
  /\ Enqueue(j) /\ SetJob(j, "publish")
  /\ UNCHANGED <<jobRest, open, step, answer, killedBy>>

\* Mutated: any stream the index lists may be closed by whoever asks.
OwnedByAnyone(j, c) == c \in present /\ Caller[j] \in User
isConnectionOwnedByUser(j, c) == c \in present /\ UserOf[c] = Caller[j]

\* disconnectOwned of a stream this instance holds.
KillLocal(j) ==
  /\ Serving(j) /\ pc[j] = "idle" /\ Scope[j] = "kill"
  /\ Target[j] \in Local(JobAt[j]) /\ UserOf[Target[j]] = Caller[j]
  /\ CloseStream(JobAt[j], Current(j))
  /\ SetJob(j, "done") /\ Answer(j, "disconnected")
  /\ UNCHANGED <<jobRest, step, wire, got, audience>>

KillForbidden(j) ==
  /\ Serving(j) /\ pc[j] = "idle" /\ Scope[j] = "kill"
  /\ Target[j] \in Local(JobAt[j]) /\ UserOf[Target[j]] # Caller[j]
  /\ SetJob(j, "done") /\ Answer(j, "forbidden")
  /\ UNCHANGED <<jobRest, open, step, wire, got, audience, killedBy>>

\* Any other stream: the presence index decides, after a round-trip.
KillElsewhere(j) ==
  /\ Serving(j) /\ pc[j] = "idle" /\ Scope[j] = "kill"
  /\ Target[j] \notin Local(JobAt[j])
  /\ SetJob(j, "owner")
  /\ UNCHANGED <<jobRest, open, step, wire, answer, got, audience, killedBy>>

NotOwner(j) ==
  /\ pc[j] = "owner" /\ ~isConnectionOwnedByUser(j, Target[j])
  /\ SetJob(j, "done") /\ Answer(j, "unknown")
  /\ UNCHANGED <<jobRest, open, step, wire, got, audience, killedBy>>

\* The index lists it: asked for over the bus, or closed here after all if
\* it opened on this instance while the index was read.
OwnerConfirmed(j) ==
  /\ pc[j] = "owner" /\ isConnectionOwnedByUser(j, Target[j])
  /\ Target[j] \notin Local(JobAt[j])
  /\ SetJob(j, "publish") /\ Enqueue(j)
  /\ UNCHANGED <<jobRest, open, step, answer, got, audience, killedBy>>

LocalAfterAll(j) ==
  /\ pc[j] = "owner" /\ isConnectionOwnedByUser(j, Target[j])
  /\ Target[j] \in Local(JobAt[j])
  /\ CloseStream(JobAt[j], Current(j))
  /\ SetJob(j, "done") /\ Answer(j, "disconnected")
  /\ UNCHANGED <<jobRest, step, wire, got, audience>>

\* After a publish the sequence goes on, after a pause, or the answer is sent.
Finished(j) == step[j] = Steps[j]

Advance(j) == step' = [step EXCEPT ![j] = IF Finished(j) THEN @ ELSE @ + 1]

AfterPublish(j) ==
  /\ Advance(j)
  /\ \/ Finished(j) /\ SetJob(j, "done")
        /\ Answer(j, IF Scope[j] = "kill" THEN "disconnected" ELSE "accepted")
     \/ ~Finished(j) /\ SetJob(j, "pause") /\ UNCHANGED answer

Subscribers == {i \in Instance : link[i] = "up"}

\* Redis takes the PUBLISH and copies it to every live subscription.
AtRedis(j) ==
  LET i == JobAt[j] IN
  /\ wire[i] # <<>> /\ Head(wire[i]) = j
  /\ wire' = [wire EXCEPT ![i] = Tail(@)]
  /\ SetJob(j, "reply")
  /\ channel' = [k \in Instance |-> IF k \in Subscribers THEN Append(channel[k], Current(j))
                                                         ELSE channel[k]]
  /\ accepted' = [accepted EXCEPT ![i] = @ + 1]
  /\ whole' = (whole /\ Subscribers = Instance)
  /\ UNCHANGED <<phase, handling, link, flag, published, receivedRemote, open, present,
                 used, step, answer, got, audience, killedBy, lost>>

publishRest == <<phase, handling, link, channel, receivedRemote, open, present, historyVars>>

\* Mutated: a publish is not counted.
recordPublishNever(i) == i \in Instance /\ UNCHANGED published
recordPublish(i) == published' = [published EXCEPT ![i] = @ + 1]

\* Its reply: the flag is raised, the publish counted.
Published(j) ==
  /\ pc[j] = "reply"
  /\ SetFlag(JobAt[j], TRUE)
  /\ recordPublish(JobAt[j])
  /\ AfterPublish(j)
  /\ UNCHANGED <<publishRest, wire, lost>>

\* PUBLISH rejects, whether or not Redis had taken it.  The flag falls, and
\* the library swallows the error.
PublishFails(j) ==
  LET i == JobAt[j] IN
  /\ \/ pc[j] = "publish" /\ wire[i] # <<>> /\ Head(wire[i]) = j /\ wire' = [wire EXCEPT ![i] = Tail(@)]
     \/ pc[j] = "reply" /\ UNCHANGED wire
  /\ Outage
  /\ SetFlag(i, FALSE)
  /\ AfterPublish(j)
  /\ UNCHANGED <<publishRest, published>>

\* Mutated: it hears nothing but that.
AcceptsOwn(i, m) == Origin(m) = i /\ handling[i]
Accepts(i, m) == Origin(m) # i /\ handling[i]

recordRemoteDelivery(i) == receivedRemote' = [receivedRemote EXCEPT ![i] = @ + 1]

\* 'message': own messages are dropped, others counted and applied.
Dispatch(i) ==
  /\ channel[i] # <<>>
  /\ channel' = [channel EXCEPT ![i] = Tail(@)]
  /\ \/ /\ Accepts(i, Head(channel[i]))
        /\ recordRemoteDelivery(i) /\ ApplyRemote(i, Head(channel[i]))
     \/ /\ ~Accepts(i, Head(channel[i]))
        /\ UNCHANGED <<receivedRemote, open, got, killedBy>>
  /\ UNCHANGED <<phase, handling, link, flag, published, present, jobVars, used,
                 accepted, audience, whole, lost>>

-----------------------------------------------------------------------------
JobStep(j) == \/ Refuse(j) \/ Emit(j) \/ KillLocal(j) \/ KillForbidden(j) \/ KillElsewhere(j)
              \/ NotOwner(j) \/ OwnerConfirmed(j) \/ LocalAfterAll(j)
              \/ AtRedis(j) \/ Published(j)

Next ==
  \/ \E i \in Instance : \/ Subscribe(i) \/ Ready(i) \/ Subscribed(i) \/ SubscribeFails(i)
                         \/ LinkDrops(i) \/ Close(i) \/ Quit(i) \/ Dispatch(i)
  \/ \E c \in Stream : Open(c) \/ Leave(c) \/ Joined(c) \/ Left(c)
  \/ \E j \in Job : JobStep(j) \/ PublishFails(j)

Spec == Init /\ [][Next]_vars

\* A request that runs is run to its answer; Redis answers or rejects.
FairSpec == Spec /\ \A j \in Job : WF_vars(pc[j] # "idle" /\ JobStep(j))

-----------------------------------------------------------------------------
TypeOK ==
  /\ phase \in [Instance -> {"boot", "subscribing", "serving", "closing", "stopped"}]
  /\ handling \in [Instance -> BOOLEAN]
  /\ link \in [Instance -> {"none", "ready", "up", "down"}]
  /\ channel \in [Instance -> Seq(Message)]
  /\ flag \in [Instance -> BOOLEAN]
  /\ published \in [Instance -> Nat] /\ receivedRemote \in [Instance -> Nat]
  /\ open \subseteq Stream /\ present \subseteq Stream /\ used \subseteq Stream
  /\ pc \in [Job -> {"idle", "owner", "publish", "reply", "pause", "done"}]
  /\ step \in [Job -> Nat] /\ \A j \in Job : step[j] \in 1..Steps[j]
  /\ wire \in [Instance -> Seq(Job)]
  /\ answer \in [Job -> {"none", "accepted", "disconnected", "forbidden", "unknown"}]
  /\ got \in [Stream -> Seq(Message)]
  /\ accepted \in [Instance -> Nat]
  /\ audience \in [Message -> SUBSET Stream]
  /\ killedBy \in [Stream -> Job \cup {NoJob}]
  /\ whole \in BOOLEAN /\ lost \in Nat

Heard(c) == {got[c][k] : k \in DOMAIN got[c]}
Before(m, n, c) == \E k, l \in DOMAIN got[c] : k < l /\ got[c][k] = m /\ got[c][l] = n

\* No request is running and nothing is on its way.
Quiet == /\ \A j \in Job : pc[j] \in {"idle", "done"}
         /\ \A i \in Instance : channel[i] = <<>> /\ phase[i] # "closing"

\* No stream is sent an event twice, by its own instance's emit, an echo of
\* its publish or a remote re-emit, and a sequence reaches every stream in
\* the order it was scripted, with gaps at most.
OnceInOrder ==
  \A c \in Stream : \A k, l \in DOMAIN got[c] :
    k < l /\ JobOf(got[c][k]) = JobOf(got[c][l]) => got[c][k][2] < got[c][l][2]

\* Streams of different instances hear the events of one origin in the same
\* order, though its own hear them before the bus does.
SameOrderEverywhere ==
  \A c, d \in Stream : \A m, n \in Heard(c) \cap Heard(d) :
    Origin(m) = Origin(n) /\ Before(m, n, c) => ~Before(n, m, d)

\* While nothing fails, an event reaches every stream it is for that was
\* open when it was emitted, on whatever instance.
EveryoneHears ==
  lost = 0 /\ Quiet =>
    \A m \in Message : \A c \in audience[m] \cap open : m \in Heard(c)

\* An event a user may not send to a tenant, or to everyone, is on no stream.
TenantWall ==
  \A c \in Stream : \A m \in Heard(c) :
    LET j == JobOf(m) IN
    /\ Scope[j] = "tenant" => TenantOf[UserOf[c]] = TenantOf[Caller[j]]
    /\ Scope[j] = "broadcast" => Caller[j] \in Admin

\* deliveredLocal is not counted, but derived.
snapshot(i) == [published      |-> published[i],
                receivedRemote |-> receivedRemote[i],
                deliveredLocal |-> published[i] + receivedRemote[i]]

\* What counters add up to: the number of ticks they have made.
Ticks(f, S) == UNION {{x} \X (1..f[x]) : x \in S}
Tally(f, S) == Cardinality(Ticks(f, S))

\* The events the answered requests of an instance were to emit.
Ordered(i) == Tally(Steps, {j \in Job : JobAt[j] = i /\ answer[j] = "accepted"})

Others(f, i) == Tally(f, Instance \ {i})

\* A delivery is never published again: an instance counts no more remote
\* messages than its peers put on the bus, and exactly as many as they count
\* when every one was copied everywhere; deliveredLocal is then what was emitted
\* here and heard from the peers, though no delivery counts it
\* (cluster-stats.service.ts:8-14).
CountersExact ==
  \A i \in Instance :
    /\ published[i] <= accepted[i]
    /\ receivedRemote[i] <= Others(accepted, i)
    /\ lost = 0 /\ whole /\ Quiet /\ (\A k \in Instance : phase[k] = "serving")
         => /\ published[i] = accepted[i]
            /\ receivedRemote[i] = Others(published, i)
            /\ (\A j \in Job : Scope[j] # "kill")
                 => snapshot(i).deliveredLocal = Ordered(i) + receivedRemote[i]

\* The kill switch closes a stream only for the user it belongs to, whichever
\* instance was asked, whatever opened or closed while the index was read.
OwnKillsOnly ==
  \A c \in Stream : killedBy[c] # NoJob =>
    /\ Scope[killedBy[c]] = "kill" /\ Target[killedBy[c]] = c
    /\ Caller[killedBy[c]] = UserOf[c]

\* While nothing fails, a stream the kill switch reported closed is closed.
KillTakes ==
  lost = 0 /\ Quiet => \A j \in Job : answer[j] = "disconnected" => Target[j] \notin open

\* Every request that starts is answered, through every outage.
Answered == \A j \in Job : pc[j] # "idle" ~> pc[j] = "done"

-----------------------------------------------------------------------------
(* What the repository's comments claim and the code does not do.          *)

\* isAvailable: "`true` while the bus is usable, `false` after a Redis
\* outage", so an instance that cannot hear its peers reports degraded.
pubsubHealth(i) == IF flag[i] THEN "ok" ELSE "degraded"
HealthyHears ==
  \A i \in Instance : phase[i] = "serving" /\ pubsubHealth(i) = "ok" => link[i] \in {"ready", "up"}
=============================================================================
