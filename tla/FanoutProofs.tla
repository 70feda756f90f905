----------------------------- MODULE FanoutProofs -----------------------------
(***************************************************************************)
(* Proofs about Fanout for every set of instances, accounts, streams and   *)
(* requests, every length of a sequence and any number of outages: types,  *)
(* the walls between tenants and owners, then what is delivered, in which  *)
(* order, what the kill switch closes and what the counters say.           *)
(*                                                                         *)
(* The order rests on one relation, Ahead: wherever two events of one      *)
(* instance can be seen together, on a stream, on the bus or in the        *)
(* pipeline to Redis, the one that is ahead.  No step adds a pair to it    *)
(* but the emit of an event, which is then behind all others; so it stays  *)
(* without cycles of two.                                                  *)
(*                                                                         *)
(* The counters rest on sets: each counter and the set of what has yet to  *)
(* reach it add up to another counter.                                     *)
(***************************************************************************)
EXTENDS Fanout, FiniteSetTheorems, TLAPS

\* Every action of Next under its own name, for the case splits below.
LEMMA NextActions ==
  ASSUME Next
  PROVE  \/ \E i \in Instance :
              \/ Subscribe(i) \/ Ready(i) \/ Subscribed(i) \/ SubscribeFails(i)
              \/ LinkDrops(i) \/ Close(i) \/ Quit(i) \/ Dispatch(i)
         \/ \E c \in Stream : Open(c) \/ Leave(c) \/ Joined(c) \/ Left(c)
         \/ \E j \in Job :
              \/ Refuse(j) \/ Emit(j) \/ KillLocal(j) \/ KillForbidden(j) \/ KillElsewhere(j)
              \/ NotOwner(j) \/ OwnerConfirmed(j) \/ LocalAfterAll(j)
              \/ AtRedis(j) \/ Published(j) \/ PublishFails(j)
BY DEF Next, JobStep

-----------------------------------------------------------------------------
Packet == Job \X Nat

\* What the walls between users rest on has its type.
BusTypes ==
  /\ step \in [Job -> Nat]
  /\ wire \in [Instance -> Seq(Job)]
  /\ channel \in [Instance -> Seq(Packet)]
  /\ got \in [Stream -> Seq(Packet)]
  /\ killedBy \in [Stream -> Job \cup {NoJob}]
  /\ pc \in [Job -> {"idle", "owner", "publish", "reply", "pause", "done"}]

\* The request was checked: an emit against its caller's tenant and role, a
\* kill against the owner of the stream.
Approved(j) == IF Scope[j] = "kill" THEN UserOf[Target[j]] = Caller[j] ELSE Permitted(j)

\* Only approved requests get as far as the bus, and nothing else is on it.
BusApproved ==
  /\ \A j \in Job : /\ pc[j] \in {"publish", "reply", "pause"} => Approved(j)
                    /\ pc[j] = "owner" => Scope[j] = "kill"
  /\ \A i \in Instance : \A k \in DOMAIN wire[i] : Approved(wire[i][k])
  /\ \A i \in Instance : \A k \in DOMAIN channel[i] : Approved(JobOf(channel[i][k]))

\* A stream was sent what is addressed to it by an approved request.
HeardApproved ==
  \A c \in Stream : \A k \in DOMAIN got[c] :
    Approved(JobOf(got[c][k])) /\ c \in Addressed(JobOf(got[c][k]))

\* A stream was closed by a kill that names it, approved.
KilledApproved ==
  \A c \in Stream : killedBy[c] # NoJob =>
    Scope[killedBy[c]] = "kill" /\ Target[killedBy[c]] = c /\ Approved(killedBy[c])

IInv == BusTypes /\ BusApproved /\ HeardApproved /\ KilledApproved

\* Whether a request was to be approved is settled when it is made: what is on the
\* bus after a step is judged as it would have been before.
LEMMA BusApprovedNext ==
  ASSUME \A j \in Job : /\ pc'[j] \in {"publish", "reply", "pause"} => Approved(j)
                        /\ pc'[j] = "owner" => Scope[j] = "kill",
         \A i \in Instance : \A k \in DOMAIN wire'[i] : Approved(wire'[i][k]),
         \A i \in Instance : \A k \in DOMAIN channel'[i] : Approved(JobOf(channel'[i][k]))
  PROVE  BusApproved'
<1>1. \A x : Approved(x)' <=> Approved(x)
  BY DEF Approved, Permitted
<1>2. \A j \in Job : /\ pc'[j] \in {"publish", "reply", "pause"} => Approved(j)'
                     /\ pc'[j] = "owner" => Scope[j] = "kill"
  BY <1>1
<1>3. (\A i \in Instance : \A k \in DOMAIN wire[i] : Approved(wire[i][k]))'
  BY DEF Approved, Permitted
<1>4. (\A i \in Instance : \A k \in DOMAIN channel[i] : Approved(JobOf(channel[i][k])))'
  BY DEF Approved, Permitted, JobOf
<1> QED BY <1>2, <1>3, <1>4 DEF BusApproved

\* What was heard and what was closed is settled too.
LEMMA HeardKept == HeardApproved /\ UNCHANGED got => HeardApproved'
BY DEF HeardApproved

LEMMA KilledKept == KilledApproved /\ UNCHANGED killedBy => KilledApproved'
BY DEF KilledApproved

LEMMA InitIInv == Init => IInv
BY ConstantsAssumption
   DEF Init, IInv, BusTypes, BusApproved, HeardApproved, KilledApproved

\* What the connection's and the streams' own events leave alone.
trafficVars == <<step, wire, channel, got, killedBy, pc>>

LEMMA Untouched == IInv /\ UNCHANGED trafficVars => IInv'
BY DEF IInv, BusTypes, BusApproved, HeardApproved, KilledApproved, trafficVars

\* A connection that drops or is quit loses messages and gains none.
LEMMA LinkStep ==
  ASSUME IInv, NEW i \in Instance,
         \/ Subscribe(i) \/ Ready(i) \/ Subscribed(i) \/ SubscribeFails(i)
         \/ LinkDrops(i) \/ Close(i) \/ Quit(i)
  PROVE  IInv'
<1>1. UNCHANGED <<step, wire, got, killedBy, pc>>
  BY DEF Subscribe, Ready, Subscribed, SubscribeFails, LinkDrops, Close, Quit, linkRest,
         jobVars, historyVars
<1>2. channel' = channel \/ channel' = [channel EXCEPT ![i] = <<>>]
  BY DEF Subscribe, Ready, Subscribed, SubscribeFails, LinkDrops, Close, Quit, Drain
<1>3. BusTypes'
  <2>1. channel' \in [Instance -> Seq(Packet)]
    <3>1. <<>> \in Seq(Packet)
      OBVIOUS
    <3> QED
      BY <1>2, <3>1 DEF IInv, BusTypes
  <2> QED
    BY <1>1, <2>1 DEF IInv, BusTypes, Packet
<1>4. \A n \in Instance : \A k \in DOMAIN channel'[n] : Approved(JobOf(channel'[n][k]))
  <2> SUFFICES ASSUME NEW n \in Instance, NEW k \in DOMAIN channel'[n]
               PROVE  Approved(JobOf(channel'[n][k]))
    OBVIOUS
  <2>1. channel'[n] = channel[n] \/ channel'[n] = <<>>
    BY <1>2 DEF IInv, BusTypes
  <2> QED
    BY <2>1 DEF IInv, BusApproved
<1>5. BusApproved'
  <2>1. /\ \A j \in Job : /\ pc'[j] \in {"publish", "reply", "pause"} => Approved(j)
                          /\ pc'[j] = "owner" => Scope[j] = "kill"
        /\ \A n \in Instance : \A k \in DOMAIN wire'[n] : Approved(wire'[n][k])
    BY <1>1 DEF IInv, BusApproved
  <2> QED
    BY <1>4, <2>1, BusApprovedNext
<1> QED
  BY <1>1, <1>3, <1>5 DEF IInv, HeardApproved, KilledApproved

LEMMA StreamStep ==
  ASSUME NEW c \in Stream, Open(c) \/ Leave(c) \/ Joined(c) \/ Left(c)
  PROVE  UNCHANGED trafficVars
BY DEF Open, Leave, Joined, Left, streamRest, busVars, jobVars, trafficVars

-----------------------------------------------------------------------------
\* Delivering an approved event to the streams it is for is harmless.
LEMMA DeliverKeeps ==
  ASSUME BusTypes, HeardApproved, NEW i \in Instance, NEW m \in Packet,
         Deliver(i, m), Approved(JobOf(m))
  PROVE  got' \in [Stream -> Seq(Packet)] /\ HeardApproved'
<1>1. got' = [c \in Stream |-> IF c \in Local(i) \cap Addressed(JobOf(m))
                               THEN Append(got[c], m) ELSE got[c]]
  BY DEF Deliver
<1>2. got' \in [Stream -> Seq(Packet)]
  BY <1>1 DEF BusTypes
<1>3. ASSUME NEW c \in Stream, NEW k \in DOMAIN got'[c]
      PROVE  Approved(JobOf(got'[c][k])) /\ c \in Addressed(JobOf(got'[c][k]))
  <2>1. CASE c \in Local(i) \cap Addressed(JobOf(m))
    <3>1. got'[c] = Append(got[c], m) /\ got[c] \in Seq(Packet)
      BY <1>1, <2>1 DEF BusTypes
    <3>2. CASE k = Len(got[c]) + 1
      BY <2>1, <3>1, <3>2
    <3>3. CASE k \in 1..Len(got[c])
      BY <3>1, <3>3 DEF HeardApproved
    <3> QED
      BY <3>1, <3>2, <3>3
  <2>2. CASE c \notin Local(i) \cap Addressed(JobOf(m))
    BY <1>1, <2>2 DEF HeardApproved
  <2> QED
    BY <2>1, <2>2
<1>4. HeardApproved'
  BY <1>3 DEF HeardApproved, Approved, Permitted, Addressed
<1> QED
  BY <1>2, <1>4

\* So is closing the stream an approved kill names.
LEMMA CloseKeeps ==
  ASSUME BusTypes, KilledApproved, NEW i \in Instance, NEW m \in Packet,
         CloseStream(i, m), Scope[JobOf(m)] = "kill", Approved(JobOf(m))
  PROVE  killedBy' \in [Stream -> Job \cup {NoJob}] /\ KilledApproved'
<1>1. JobOf(m) \in Job
  BY DEF Packet, JobOf
<1>2. CASE UNCHANGED killedBy
  BY <1>2 DEF BusTypes, KilledApproved, Approved, Permitted
<1>3. CASE killedBy' = [killedBy EXCEPT ![Target[JobOf(m)]] = JobOf(m)]
  BY <1>1, <1>3 DEF BusTypes, KilledApproved, Approved, Permitted
<1> QED
  BY <1>2, <1>3 DEF CloseStream

-----------------------------------------------------------------------------
\* The driver's message handler: own messages and those nobody handles are
\* dropped, the others applied.
LEMMA DispatchStep ==
  ASSUME IInv, NEW i \in Instance, Dispatch(i)
  PROVE  IInv'
<1> DEFINE m == Head(channel[i])
<1>1. /\ channel[i] \in Seq(Packet) /\ channel[i] # <<>>
      /\ channel' = [channel EXCEPT ![i] = Tail(@)]
      /\ UNCHANGED <<step, wire, pc>>
  BY DEF Dispatch, IInv, BusTypes, jobVars
<1>2. m \in Packet /\ Approved(JobOf(m))
  BY <1>1 DEF IInv, BusApproved
<1>3. channel' \in [Instance -> Seq(Packet)]
  BY <1>1 DEF IInv, BusTypes
<1>4. BusApproved'
  <2>1. \A n \in Instance : \A k \in DOMAIN channel'[n] : Approved(JobOf(channel'[n][k]))
    BY <1>1 DEF IInv, BusTypes, BusApproved
  <2>2. \A k \in Job : /\ pc'[k] \in {"publish", "reply", "pause"} => Approved(k)
                       /\ pc'[k] = "owner" => Scope[k] = "kill"
    BY <1>1 DEF IInv, BusApproved
  <2>3. \A n \in Instance : \A k \in DOMAIN wire'[n] : Approved(wire'[n][k])
    BY <1>1 DEF IInv, BusApproved
  <2> QED
    BY <2>1, <2>2, <2>3, BusApprovedNext
<1>5. /\ got' \in [Stream -> Seq(Packet)] /\ HeardApproved'
      /\ killedBy' \in [Stream -> Job \cup {NoJob}] /\ KilledApproved'
  <2>1. CASE UNCHANGED <<got, killedBy>>
    BY <2>1 DEF IInv, BusTypes, HeardApproved, KilledApproved
  <2>2. CASE Scope[JobOf(m)] = "kill" /\ CloseStream(i, m) /\ UNCHANGED got
    BY <1>2, <2>2, CloseKeeps DEF IInv, BusTypes, HeardApproved
  <2>3. CASE Scope[JobOf(m)] # "kill" /\ Deliver(i, m) /\ UNCHANGED killedBy
    BY <1>2, <2>3, DeliverKeeps DEF IInv, BusTypes, KilledApproved
  <2> QED
    BY <2>1, <2>2, <2>3 DEF Dispatch, ApplyRemote
<1> QED
  BY <1>1, <1>3, <1>4, <1>5 DEF IInv, BusTypes

\* A request that appends itself to the pipeline was checked before.
LEMMA EnqueueKeeps ==
  ASSUME BusTypes, BusApproved, NEW j \in Job, Enqueue(j), Approved(j)
  PROVE  /\ wire' \in [Instance -> Seq(Job)]
         /\ \A i \in Instance : \A k \in DOMAIN wire'[i] : Approved(wire'[i][k])
<1>1. wire' = [wire EXCEPT ![JobAt[j]] = Append(@, j)]
  BY DEF Enqueue
<1>2. wire' \in [Instance -> Seq(Job)]
  <2>1. JobAt[j] \in Instance /\ Append(wire[JobAt[j]], j) \in Seq(Job)
    BY ConstantsAssumption DEF BusTypes
  <2> QED
    BY <1>1, <2>1 DEF BusTypes
<1>3. ASSUME NEW i \in Instance, NEW k \in DOMAIN wire'[i] PROVE Approved(wire'[i][k])
  <2>1. CASE i = JobAt[j]
    <3>1. wire'[i] = Append(wire[i], j) /\ wire[i] \in Seq(Job)
      BY <1>1, <2>1 DEF BusTypes
    <3>2. CASE k = Len(wire[i]) + 1
      BY <3>1, <3>2
    <3>3. CASE k \in 1..Len(wire[i])
      BY <3>1, <3>3 DEF BusApproved
    <3> QED
      BY <3>1, <3>2, <3>3
  <2>2. CASE i # JobAt[j]
    BY <1>1, <2>2 DEF BusTypes, BusApproved
  <2> QED
    BY <2>1, <2>2
<1> QED
  BY <1>2, <1>3

\* The first step of a request, up to the bus.
LEMMA RequestStep ==
  ASSUME IInv, NEW j \in Job,
         \/ Refuse(j) \/ Emit(j) \/ KillLocal(j) \/ KillForbidden(j) \/ KillElsewhere(j)
         \/ NotOwner(j) \/ OwnerConfirmed(j) \/ LocalAfterAll(j)
  PROVE  IInv'
<1> USE ConstantsAssumption DEF IInv, jobRest, busVars
<1>1. CASE Refuse(j) \/ KillForbidden(j) \/ KillElsewhere(j) \/ NotOwner(j)
  <2>1. /\ UNCHANGED <<step, wire, channel, got, killedBy>>
        /\ \/ pc' = [pc EXCEPT ![j] = "done"]
           \/ pc' = [pc EXCEPT ![j] = "owner"] /\ Scope[j] = "kill"
    BY <1>1 DEF Refuse, KillForbidden, KillElsewhere, NotOwner, SetJob
  <2>2. BusTypes'
    BY <2>1 DEF BusTypes, Packet
  <2>3. BusApproved'
    <3>1. /\ \A k \in Job : /\ pc'[k] \in {"publish", "reply", "pause"} => Approved(k)
                            /\ pc'[k] = "owner" => Scope[k] = "kill"
      BY <2>1 DEF BusTypes, BusApproved
    <3>2. /\ \A n \in Instance : \A k \in DOMAIN wire'[n] : Approved(wire'[n][k])
          /\ \A n \in Instance : \A k \in DOMAIN channel'[n] : Approved(JobOf(channel'[n][k]))
      BY <2>1 DEF BusApproved
    <3> QED
      BY <3>1, <3>2, BusApprovedNext
  <2>4. HeardApproved' /\ KilledApproved'
    BY <2>1, HeardKept, KilledKept
  <2> QED
    BY <2>2, <2>3, <2>4
<1>2. CASE Emit(j)
  <2>1. /\ UNCHANGED <<step, channel, killedBy>> /\ Enqueue(j) /\ Approved(j)
        /\ pc' = [pc EXCEPT ![j] = "publish"] /\ Deliver(JobAt[j], Current(j))
    BY <1>2 DEF Emit, SetJob, Approved
  <2>2. Current(j) \in Packet /\ JobOf(Current(j)) = j
    BY DEF BusTypes, Current, Packet, JobOf
  <2>3. got' \in [Stream -> Seq(Packet)] /\ HeardApproved'
    BY <2>1, <2>2, DeliverKeeps
  <2> QED
    BY <2>1, <2>3, EnqueueKeeps DEF BusTypes, BusApproved, KilledApproved
<1>3. CASE OwnerConfirmed(j)
  <2>1. /\ UNCHANGED <<step, channel, got, killedBy>> /\ Enqueue(j)
        /\ pc' = [pc EXCEPT ![j] = "publish"] /\ UserOf[Target[j]] = Caller[j]
    BY <1>3 DEF OwnerConfirmed, SetJob, isConnectionOwnedByUser
  <2>2. Scope[j] = "kill"
    BY <1>3 DEF OwnerConfirmed, BusApproved
  <2>3. /\ wire' \in [Instance -> Seq(Job)]
        /\ \A i \in Instance : \A k \in DOMAIN wire'[i] : Approved(wire'[i][k])
    BY <2>1, <2>2, EnqueueKeeps DEF Approved
  <2>4. BusTypes'
    BY <2>1, <2>3 DEF BusTypes, Packet
  <2>5. BusApproved'
    <3>1. /\ \A k \in Job : /\ pc'[k] \in {"publish", "reply", "pause"} => Approved(k)
                            /\ pc'[k] = "owner" => Scope[k] = "kill"
      BY <2>1, <2>2 DEF BusTypes, BusApproved, Approved
    <3>2. /\ \A n \in Instance : \A k \in DOMAIN channel'[n] : Approved(JobOf(channel'[n][k]))
      BY <2>1 DEF BusApproved
    <3> QED
      BY <2>3, <3>1, <3>2, BusApprovedNext
  <2>6. HeardApproved' /\ KilledApproved'
    BY <2>1, HeardKept, KilledKept
  <2> QED
    BY <2>1, <2>2, <2>3, <2>4, <2>5, <2>6
<1>4. CASE KillLocal(j) \/ LocalAfterAll(j)
  <2>1. /\ UNCHANGED <<step, wire, channel, got>> /\ CloseStream(JobAt[j], Current(j))
        /\ pc' = [pc EXCEPT ![j] = "done"] /\ UserOf[Target[j]] = Caller[j]
    BY <1>4 DEF KillLocal, LocalAfterAll, SetJob, isConnectionOwnedByUser
  <2>2. Scope[j] = "kill" /\ Approved(j)
    BY <1>4, <2>1 DEF KillLocal, LocalAfterAll, BusApproved, Approved
  <2>3. Current(j) \in Packet /\ JobOf(Current(j)) = j
    BY DEF BusTypes, Current, Packet, JobOf
  <2>4. killedBy' \in [Stream -> Job \cup {NoJob}] /\ KilledApproved'
    BY <2>1, <2>2, <2>3, CloseKeeps
  <2>5. BusTypes'
    BY <2>1, <2>4 DEF BusTypes, Packet
  <2>6. BusApproved'
    <3>1. /\ \A k \in Job : /\ pc'[k] \in {"publish", "reply", "pause"} => Approved(k)
                            /\ pc'[k] = "owner" => Scope[k] = "kill"
      BY <2>1 DEF BusTypes, BusApproved
    <3>2. /\ \A n \in Instance : \A k \in DOMAIN wire'[n] : Approved(wire'[n][k])
          /\ \A n \in Instance : \A k \in DOMAIN channel'[n] : Approved(JobOf(channel'[n][k]))
      BY <2>1 DEF BusApproved
    <3> QED
      BY <3>1, <3>2, BusApprovedNext
  <2>7. HeardApproved'
    BY <2>1, HeardKept
  <2> QED
    BY <2>4, <2>5, <2>6, <2>7
<1> QED
  BY <1>1, <1>2, <1>3, <1>4

\* Redis takes the oldest command of a pipeline and copies its message.
LEMMA AtRedisStep ==
  ASSUME IInv, NEW j \in Job, AtRedis(j)
  PROVE  IInv'
<1> DEFINE home == JobAt[j]
           new(k) == IF k \in Subscribers THEN Append(channel[k], Current(j)) ELSE channel[k]
<1>1. /\ wire[home] # <<>> /\ Head(wire[home]) = j
      /\ wire' = [wire EXCEPT ![home] = Tail(@)]
      /\ pc' = [pc EXCEPT ![j] = "reply"]
      /\ channel' = [k \in Instance |-> new(k)]
      /\ UNCHANGED <<step, got, killedBy>>
  BY DEF AtRedis, SetJob
<1>2. home \in Instance /\ wire[home] \in Seq(Job)
  BY ConstantsAssumption DEF IInv, BusTypes
<1>3. Approved(j)
  BY <1>1, <1>2 DEF IInv, BusApproved
<1>4. Current(j) \in Packet /\ JobOf(Current(j)) = j
  BY DEF IInv, BusTypes, Current, Packet, JobOf
<1>5. ASSUME NEW k \in Instance
      PROVE  new(k) \in Seq(Packet) /\ \A n \in DOMAIN new(k) : Approved(JobOf(new(k)[n]))
  <2>1. channel[k] \in Seq(Packet) /\ \A n \in DOMAIN channel[k] : Approved(JobOf(channel[k][n]))
    BY DEF IInv, BusTypes, BusApproved
  <2>2. CASE k \in Subscribers
    <3>1. new(k) = Append(channel[k], Current(j))
      BY <2>2
    <3>2. ASSUME NEW n \in DOMAIN new(k) PROVE Approved(JobOf(new(k)[n]))
      <4>1. CASE n = Len(channel[k]) + 1
        BY <1>3, <1>4, <2>1, <3>1, <4>1
      <4>2. CASE n \in 1..Len(channel[k])
        BY <1>4, <2>1, <3>1, <4>2
      <4> QED
        BY <1>4, <2>1, <3>1, <4>1, <4>2
    <3> QED
      BY <1>4, <2>1, <3>1, <3>2
  <2>3. CASE k \notin Subscribers
    BY <2>1, <2>3
  <2> QED
    BY <2>2, <2>3
<1> HIDE DEF new
<1>6. BusTypes'
  <2>1. wire' \in [Instance -> Seq(Job)]
    <3>1. Tail(wire[home]) \in Seq(Job)
      BY <1>1, <1>2
    <3> QED
      BY <1>1, <1>2, <3>1 DEF IInv, BusTypes
  <2>2. channel' \in [Instance -> Seq(Packet)]
    BY <1>1, <1>5
  <2> QED
    BY <1>1, <2>1, <2>2 DEF IInv, BusTypes, Packet
<1>7. BusApproved'
  <2>1. \A i \in Instance : \A n \in DOMAIN wire'[i] : Approved(wire'[i][n])
    <3> SUFFICES ASSUME NEW i \in Instance, NEW n \in DOMAIN wire'[i]
                 PROVE  Approved(wire'[i][n])
      OBVIOUS
    <3>1. CASE i = home
      <4>1. wire'[i] = Tail(wire[i])
        BY <1>1, <3>1 DEF IInv, BusTypes
      <4>2. wire[i] # <<>> /\ wire[i] \in Seq(Job) /\ n \in DOMAIN Tail(wire[i])
        BY <1>1, <1>2, <3>1, <4>1
      <4>3. wire'[i][n] = wire[i][n + 1] /\ n + 1 \in DOMAIN wire[i]
        BY <4>1, <4>2
      <4> QED
        BY <4>3 DEF IInv, BusApproved
    <3>2. CASE i # home
      BY <1>1, <3>2 DEF IInv, BusTypes, BusApproved
    <3> QED
      BY <3>1, <3>2
  <2>2. \A i \in Instance : \A n \in DOMAIN channel'[i] : Approved(JobOf(channel'[i][n]))
    BY <1>1, <1>5
  <2>3. \A k \in Job : /\ pc'[k] \in {"publish", "reply", "pause"} => Approved(k)
                       /\ pc'[k] = "owner" => Scope[k] = "kill"
    BY <1>1, <1>3 DEF IInv, BusTypes, BusApproved
  <2> QED
    BY <2>1, <2>2, <2>3, BusApprovedNext
<1>8. HeardApproved' /\ KilledApproved'
  BY <1>1, HeardKept, KilledKept DEF IInv
<1> QED
  BY <1>6, <1>7, <1>8 DEF IInv

\* The reply, or the rejection, of a publish: the request goes on.
LEMMA PublishStep ==
  ASSUME IInv, NEW j \in Job, Published(j) \/ PublishFails(j)
  PROVE  IInv'
<1> DEFINE home == JobAt[j]
<1>1. /\ UNCHANGED <<channel, got, killedBy>>
      /\ pc[j] \in {"publish", "reply"} /\ AfterPublish(j)
  BY DEF Published, PublishFails, publishRest, historyVars
<1>2. \/ UNCHANGED wire
      \/ wire[home] # <<>> /\ wire' = [wire EXCEPT ![home] = Tail(@)]
  BY DEF Published, PublishFails
<1>3. /\ step' = [step EXCEPT ![j] = IF Finished(j) THEN @ ELSE @ + 1]
      /\ pc' = [pc EXCEPT ![j] = "done"] \/ pc' = [pc EXCEPT ![j] = "pause"]
  BY <1>1 DEF AfterPublish, Advance, SetJob
<1>4. home \in Instance /\ wire[home] \in Seq(Job)
  BY ConstantsAssumption DEF IInv, BusTypes
<1>5. BusTypes'
  <2>1. wire' \in [Instance -> Seq(Job)]
    <3>1. wire[home] # <<>> => Tail(wire[home]) \in Seq(Job)
      BY <1>4
    <3> QED
      BY <1>2, <1>4, <3>1 DEF IInv, BusTypes
  <2>2. step' \in [Job -> Nat]
    BY <1>3 DEF IInv, BusTypes
  <2>3. pc' \in [Job -> {"idle", "owner", "publish", "reply", "pause", "done"}]
    BY <1>3 DEF IInv, BusTypes
  <2> QED
    BY <1>1, <2>1, <2>2, <2>3 DEF IInv, BusTypes, Packet
<1>6. BusApproved'
  <2>1. \A i \in Instance : \A n \in DOMAIN wire'[i] : Approved(wire'[i][n])
    <3> SUFFICES ASSUME NEW i \in Instance, NEW n \in DOMAIN wire'[i]
                 PROVE  Approved(wire'[i][n])
      OBVIOUS
    <3>1. CASE wire'[i] = wire[i]
      BY <3>1 DEF IInv, BusApproved
    <3>2. CASE i = home /\ wire[i] # <<>> /\ wire'[i] = Tail(wire[i])
      <4>1. wire'[i][n] = wire[i][n + 1] /\ n + 1 \in DOMAIN wire[i]
        BY <1>4, <3>2
      <4> QED
        BY <4>1 DEF IInv, BusApproved
    <3> QED
      BY <1>2, <3>1, <3>2 DEF IInv, BusTypes
  <2>2. \A k \in Job : /\ pc'[k] \in {"publish", "reply", "pause"} => Approved(k)
                       /\ pc'[k] = "owner" => Scope[k] = "kill"
    BY <1>1, <1>3 DEF IInv, BusTypes, BusApproved
  <2> QED
    <3>1. /\ \A n \in Instance : \A k \in DOMAIN channel'[n] : Approved(JobOf(channel'[n][k]))
      BY <1>1 DEF IInv, BusApproved
    <3> QED
      BY <2>1, <2>2, <3>1, BusApprovedNext
<1>7. HeardApproved' /\ KilledApproved'
  BY <1>1, HeardKept, KilledKept DEF IInv
<1> QED
  BY <1>5, <1>6, <1>7 DEF IInv

-----------------------------------------------------------------------------
LEMMA StepIInv == IInv /\ [Next]_vars => IInv'
<1> SUFFICES ASSUME IInv, [Next]_vars PROVE IInv'
  OBVIOUS
<1>1. CASE UNCHANGED vars
  BY <1>1, Untouched DEF vars, busVars, jobVars, historyVars, trafficVars
<1>2. CASE Next
  BY <1>2, NextActions, Untouched, LinkStep, StreamStep, DispatchStep, RequestStep,
     AtRedisStep, PublishStep
<1> QED
  BY <1>1, <1>2

\* What is under way was allowed: the invariant, whatever is lost or repeated.
THEOREM Invariance == Spec => []IInv
BY InitIInv, StepIInv, PTL DEF Spec

-----------------------------------------------------------------------------
(* Type correctness.  It is inductive by itself.                           *)

\* The messages are the events of the requests, and only those.
LEMMA MessageParts ==
  ASSUME NEW m \in Message
  PROVE  JobOf(m) \in Job
BY DEF Message, JobOf

LEMMA CurrentIsMessage ==
  ASSUME TypeOK, NEW j \in Job
  PROVE  Current(j) \in Message /\ JobOf(Current(j)) = j
BY DEF TypeOK, Message, Current, JobOf

LEMMA InitTypes == Init => TypeOK
<1> SUFFICES ASSUME Init PROVE TypeOK
  OBVIOUS
<1>1. <<>> \in Seq(Message) /\ <<>> \in Seq(Job)
  OBVIOUS
<1>2. \A j \in Job : step[j] \in 1..Steps[j]
  BY ConstantsAssumption DEF Init
<1> QED
  BY <1>1, <1>2 DEF Init, TypeOK

\* Delivering and closing, wherever the message comes from.
LEMMA DeliverTypes ==
  ASSUME TypeOK, NEW i \in Instance, NEW m \in Message, Deliver(i, m)
  PROVE  got' \in [Stream -> Seq(Message)]
BY DEF TypeOK, Deliver

LEMMA CloseTypes ==
  ASSUME TypeOK, NEW i \in Instance, NEW m \in Message, CloseStream(i, m)
  PROVE  open' \subseteq Stream /\ killedBy' \in [Stream -> Job \cup {NoJob}]
BY MessageParts DEF TypeOK, CloseStream

LEMMA LinkTypes ==
  ASSUME TypeOK, NEW i \in Instance,
         \/ Subscribe(i) \/ Ready(i) \/ Subscribed(i) \/ SubscribeFails(i)
         \/ LinkDrops(i) \/ Close(i) \/ Quit(i)
  PROVE  TypeOK'
<1> USE DEF linkRest, jobVars, historyVars
<1>1. /\ phase' \in [Instance -> {"boot", "subscribing", "serving", "closing", "stopped"}]
      /\ handling' \in [Instance -> BOOLEAN]
      /\ link' \in [Instance -> {"none", "ready", "up", "down"}]
  BY DEF TypeOK, Subscribe, Ready, Subscribed, SubscribeFails, LinkDrops, Close, Quit,
         Enter, SetLink
<1>2. flag' \in [Instance -> BOOLEAN]
  <2>1. flag' = flag \/ \E up \in BOOLEAN : flag' = [flag EXCEPT ![i] = up]
    BY DEF TypeOK, Subscribe, Ready, Subscribed, SubscribeFails, LinkDrops, Close, Quit, SetFlag
  <2> QED
    BY <2>1 DEF TypeOK
<1>3. channel' \in [Instance -> Seq(Message)]
  <2>1. <<>> \in Seq(Message)
    OBVIOUS
  <2> QED
    BY <2>1 DEF TypeOK, Subscribe, Ready, Subscribed, SubscribeFails, LinkDrops, Close, Quit,
                Drain
<1>4. lost' \in Nat
  <2>1. lost' = lost \/ lost' = lost + 1
    BY DEF Subscribe, Ready, Subscribed, SubscribeFails, LinkDrops, Close, Quit, Outage
  <2> QED
    BY <2>1 DEF TypeOK
<1>5. /\ UNCHANGED <<published, receivedRemote, present, pc, step, wire, answer,
                     used, got, accepted, audience, killedBy, whole>>
      /\ open' \subseteq open
  BY DEF Subscribe, Ready, Subscribed, SubscribeFails, LinkDrops, Close, Quit
<1> QED
  BY <1>1, <1>2, <1>3, <1>4, <1>5 DEF TypeOK

LEMMA StreamTypes ==
  ASSUME TypeOK, NEW c \in Stream, Open(c) \/ Leave(c) \/ Joined(c) \/ Left(c)
  PROVE  TypeOK'
<1>1. open' \subseteq Stream /\ present' \subseteq Stream /\ used' \subseteq Stream
  BY DEF TypeOK, Open, Leave, Joined, Left, streamRest
<1>2. UNCHANGED streamRest
  BY DEF Open, Leave, Joined, Left
<1> QED
  BY <1>1, <1>2 DEF TypeOK, streamRest, busVars, jobVars

LEMMA DispatchTypes ==
  ASSUME TypeOK, NEW i \in Instance, Dispatch(i)
  PROVE  TypeOK'
<1> DEFINE m == Head(channel[i])
<1>1. channel[i] \in Seq(Message) /\ channel[i] # <<>>
  BY DEF TypeOK, Dispatch
<1>2. m \in Message /\ Tail(channel[i]) \in Seq(Message)
  BY <1>1
<1>3. channel' \in [Instance -> Seq(Message)]
  BY <1>2 DEF TypeOK, Dispatch
<1>4. receivedRemote' \in [Instance -> Nat]
  <2>1. \/ receivedRemote' = receivedRemote
        \/ receivedRemote' = [receivedRemote EXCEPT ![i] = @ + 1]
    BY DEF Dispatch, recordRemoteDelivery
  <2>2. receivedRemote[i] + 1 \in Nat
    BY DEF TypeOK
  <2> QED
    BY <2>1, <2>2 DEF TypeOK
<1>5. /\ open' \subseteq Stream /\ killedBy' \in [Stream -> Job \cup {NoJob}]
      /\ got' \in [Stream -> Seq(Message)]
  <2>1. CASE ApplyRemote(i, m)
    BY <1>2, <2>1, DeliverTypes, CloseTypes DEF TypeOK, ApplyRemote
  <2>2. CASE UNCHANGED <<open, got, killedBy>>
    BY <2>2 DEF TypeOK
  <2> QED
    BY <2>1, <2>2 DEF Dispatch
<1> QED
  BY <1>3, <1>4, <1>5 DEF TypeOK, Dispatch, jobVars

LEMMA RequestTypes ==
  ASSUME TypeOK, NEW j \in Job,
         \/ Refuse(j) \/ Emit(j) \/ KillLocal(j) \/ KillForbidden(j) \/ KillElsewhere(j)
         \/ NotOwner(j) \/ OwnerConfirmed(j) \/ LocalAfterAll(j)
  PROVE  TypeOK'
<1>1. /\ UNCHANGED <<jobRest, step>>
      /\ \E p \in {"done", "publish", "owner"} : SetJob(j, p)
  BY DEF Refuse, Emit, KillLocal, KillForbidden, KillElsewhere, NotOwner, OwnerConfirmed,
         LocalAfterAll
<1>2. pc' \in [Job -> {"idle", "owner", "publish", "reply", "pause", "done"}]
  <2>1. pc \in [Job -> {"idle", "owner", "publish", "reply", "pause", "done"}]
    BY DEF TypeOK
  <2>2. PICK p \in {"done", "publish", "owner"} : pc' = [pc EXCEPT ![j] = p]
    BY <1>1 DEF SetJob
  <2> QED
    BY <2>1, <2>2
<1>3. answer' \in [Job -> {"none", "accepted", "disconnected", "forbidden", "unknown"}]
  BY DEF TypeOK, Refuse, Emit, KillLocal, KillForbidden, KillElsewhere, NotOwner,
         OwnerConfirmed, LocalAfterAll, Answer
<1>4. wire' \in [Instance -> Seq(Job)]
  <2>1. JobAt[j] \in Instance /\ Append(wire[JobAt[j]], j) \in Seq(Job)
    BY ConstantsAssumption DEF TypeOK
  <2> QED
    BY <2>1 DEF TypeOK, Refuse, Emit, KillLocal, KillForbidden, KillElsewhere, NotOwner,
                OwnerConfirmed, LocalAfterAll, Enqueue
<1>5. Current(j) \in Message /\ JobAt[j] \in Instance
  BY CurrentIsMessage, ConstantsAssumption
<1>6. /\ got' \in [Stream -> Seq(Message)]
      /\ audience' \in [Message -> SUBSET Stream]
  <2>1. CASE Emit(j)
    <3>1. open \cap Addressed(j) \in SUBSET Stream
      BY DEF TypeOK
    <3> QED
      BY <1>5, <2>1, <3>1, DeliverTypes DEF TypeOK, Emit
  <2>2. CASE UNCHANGED <<got, audience>>
    BY <2>2 DEF TypeOK
  <2> QED
    BY <2>1, <2>2 DEF Refuse, KillLocal, KillForbidden, KillElsewhere, NotOwner,
                      OwnerConfirmed, LocalAfterAll
<1>7. open' \subseteq Stream /\ killedBy' \in [Stream -> Job \cup {NoJob}]
  <2>1. CASE KillLocal(j) \/ LocalAfterAll(j)
    BY <1>5, <2>1, CloseTypes DEF KillLocal, LocalAfterAll
  <2>2. CASE UNCHANGED <<open, killedBy>>
    BY <2>2 DEF TypeOK
  <2> QED
    BY <2>1, <2>2 DEF Refuse, Emit, KillForbidden, KillElsewhere, NotOwner, OwnerConfirmed
<1> QED
  BY <1>1, <1>2, <1>3, <1>4, <1>6, <1>7 DEF TypeOK, jobRest, busVars

LEMMA AtRedisTypes ==
  ASSUME TypeOK, NEW j \in Job, AtRedis(j)
  PROVE  TypeOK'
<1> DEFINE home == JobAt[j]
<1>1. home \in Instance /\ wire[home] \in Seq(Job) /\ wire[home] # <<>>
  BY ConstantsAssumption DEF TypeOK, AtRedis
<1>2. wire' \in [Instance -> Seq(Job)]
  <2>1. Tail(wire[home]) \in Seq(Job)
    BY <1>1
  <2> QED
    BY <2>1 DEF TypeOK, AtRedis
<1>3. channel' \in [Instance -> Seq(Message)]
  <2>1. \A k \in Instance : Append(channel[k], Current(j)) \in Seq(Message)
    BY CurrentIsMessage DEF TypeOK
  <2> QED
    BY <2>1 DEF TypeOK, AtRedis
<1>4. accepted' \in [Instance -> Nat]
  <2>1. accepted[home] + 1 \in Nat
    BY <1>1 DEF TypeOK
  <2> QED
    BY <2>1 DEF TypeOK, AtRedis
<1>5. whole' \in BOOLEAN
  BY DEF AtRedis
<1>6. pc' \in [Job -> {"idle", "owner", "publish", "reply", "pause", "done"}]
  BY DEF TypeOK, AtRedis, SetJob
<1> QED
  BY <1>2, <1>3, <1>4, <1>5, <1>6 DEF TypeOK, AtRedis

LEMMA PublishTypes ==
  ASSUME TypeOK, NEW j \in Job, Published(j) \/ PublishFails(j)
  PROVE  TypeOK'
<1> DEFINE home == JobAt[j]
<1>1. AfterPublish(j) /\ UNCHANGED publishRest
  BY DEF Published, PublishFails
<1>2. step' \in [Job -> Nat] /\ \A k \in Job : step'[k] \in 1..Steps[k]
  <2>1. step' = [step EXCEPT ![j] = IF step[j] = Steps[j] THEN @ ELSE @ + 1]
    BY <1>1 DEF AfterPublish, Advance, Finished
  <2>2. step \in [Job -> Nat] /\ (\A k \in Job : step[k] \in 1..Steps[k]) /\ Steps[j] \in Nat
    BY ConstantsAssumption DEF TypeOK
  <2>3. step' \in [Job -> Nat] /\ step'[j] \in 1..Steps[j]
    BY <2>1, <2>2
  <2>4. \A k \in Job \ {j} : step'[k] = step[k]
    BY <2>1, <2>2
  <2> QED
    BY <2>2, <2>3, <2>4
<1>3. /\ pc' \in [Job -> {"idle", "owner", "publish", "reply", "pause", "done"}]
      /\ answer' \in [Job -> {"none", "accepted", "disconnected", "forbidden", "unknown"}]
  BY <1>1 DEF TypeOK, AfterPublish, SetJob, Answer
<1>4. flag' \in [Instance -> BOOLEAN]
  BY DEF TypeOK, Published, PublishFails, SetFlag
<1>5. wire' \in [Instance -> Seq(Job)]
  <2>1. home \in Instance /\ wire[home] \in Seq(Job)
    BY ConstantsAssumption DEF TypeOK
  <2>2. wire[home] # <<>> => Tail(wire[home]) \in Seq(Job)
    BY <2>1
  <2> QED
    BY <2>1, <2>2 DEF TypeOK, Published, PublishFails
<1>6. published' \in [Instance -> Nat] /\ lost' \in Nat
  <2>1. \/ published' = [published EXCEPT ![home] = @ + 1] /\ lost' = lost
        \/ published' = published /\ lost' = lost + 1
    BY DEF Published, PublishFails, recordPublish, Outage
  <2>2. home \in Instance /\ published[home] + 1 \in Nat /\ lost + 1 \in Nat
    BY ConstantsAssumption DEF TypeOK
  <2> QED
    BY <2>1, <2>2 DEF TypeOK
<1> QED
  BY <1>1, <1>2, <1>3, <1>4, <1>5, <1>6 DEF TypeOK, publishRest, historyVars

LEMMA StepTypes == TypeOK /\ [Next]_vars => TypeOK'
<1> SUFFICES ASSUME TypeOK, [Next]_vars PROVE TypeOK'
  OBVIOUS
<1>1. CASE UNCHANGED vars
  BY <1>1 DEF vars, busVars, jobVars, historyVars, TypeOK
<1>2. CASE Next
  BY <1>2, NextActions, LinkTypes, StreamTypes, DispatchTypes, RequestTypes, AtRedisTypes,
     PublishTypes
<1> QED
  BY <1>1, <1>2

\* Every variable of the driver, the requests, the streams and the history
\* keeps its type; a sequence never runs past its last event
\* (domain.service.ts:67-73).
THEOREM TypeCorrect == Spec => []TypeOK
BY InitTypes, StepTypes, PTL DEF Spec

-----------------------------------------------------------------------------
\* EmitService: whatever is in flight, dropped or repeated on the bus, no
\* stream of another tenant is sent an event its sender had no right to.
THEOREM TenantsApart == Spec => []TenantWall
<1>1. IInv => TenantWall
  <2> SUFFICES ASSUME IInv, NEW c \in Stream, NEW k \in DOMAIN got[c]
               PROVE  LET j == JobOf(got[c][k]) IN
                        /\ Scope[j] = "tenant" => TenantOf[UserOf[c]] = TenantOf[Caller[j]]
                        /\ Scope[j] = "broadcast" => Caller[j] \in Admin
    BY DEF TenantWall, Heard
  <2> DEFINE j == JobOf(got[c][k])
  <2>1. Approved(j) /\ c \in Addressed(j)
    BY DEF IInv, HeardApproved
  <2> QED
    BY <2>1 DEF Approved, Permitted, Addressed
<1> QED
  BY <1>1, Invariance, PTL

\* ConnectionsService.disconnectOwned: however its requests race with the
\* streams and with the presence index, the kill switch closes a stream only
\* for the user it belongs to.
THEOREM KillsOwnOnly == Spec => []OwnKillsOnly
<1>1. IInv => OwnKillsOnly
  BY DEF IInv, KilledApproved, Approved, OwnKillsOnly
<1> QED
  BY <1>1, Invariance, PTL

-----------------------------------------------------------------------------
(* The order.                                                              *)

\* A pipeline holds requests of its instance that wait, each of them once.
PipelineOK ==
  \A i \in Instance :
    /\ \A k \in DOMAIN wire[i] : JobAt[wire[i][k]] = i /\ pc[wire[i][k]] = "publish"
    /\ \A k, l \in DOMAIN wire[i] : wire[i][k] = wire[i][l] => k = l

\* An event somebody has seen was emitted by the request it belongs to, and
\* one that left its instance was taken by Redis.
SentBefore(m, late) ==
  /\ m[2] <= step[JobOf(m)]
  /\ m[2] = step[JobOf(m)] => pc[JobOf(m)] \in late

On(m, i) == \E k \in DOMAIN channel[i] : channel[i][k] = m
Queued(m, n, i) == \E k, l \in DOMAIN channel[i] : k < l /\ channel[i][k] = m /\ channel[i][l] = n
Waits(m) == \E k \in DOMAIN wire[Origin(m)] : Current(wire[Origin(m)][k]) = m
HeardAway(m, c) == HomeOf[c] # Origin(m) /\ m \in Heard(c)
Taken(m) == (\E i \in Instance : On(m, i)) \/ (\E c \in Stream : HeardAway(m, c))
Piped(m, n) == \E k, l \in DOMAIN wire[Origin(m)] :
                 /\ k < l
                 /\ Current(wire[Origin(m)][k]) = m /\ Current(wire[Origin(m)][l]) = n

Ahead(m, n) ==
  \/ \E c \in Stream : Before(m, n, c)
  \/ \E i \in Instance : Queued(m, n, i)
  \/ \E c \in Stream : HeardAway(m, c) /\ On(n, HomeOf[c])
  \/ Taken(m) /\ Waits(n)
  \/ Piped(m, n)

SentOK ==
  \A m \in Message :
    /\ Taken(m) => SentBefore(m, {"reply", "done"})
    /\ \A c \in Stream : m \in Heard(c) => SentBefore(m, {"publish", "reply", "done"})

Rivals == {p \in Message \X Message : Origin(p[1]) = Origin(p[2])}

Orderly ==
  \A p \in Rivals :
    Ahead(p[1], p[2]) => /\ ~Ahead(p[2], p[1])
                         /\ JobOf(p[1]) = JobOf(p[2]) => p[1][2] < p[2][2]

OInv == TypeOK /\ PipelineOK /\ SentOK /\ Orderly

-----------------------------------------------------------------------------
(* Delivery while nothing fails.                                           *)

\* A stream was opened on an instance that had booted, and is closed before
\* that instance stops.
StreamsOK ==
  /\ open \subseteq used /\ present \subseteq used
  /\ \A m \in Message : audience[m] \subseteq used
  /\ \A c \in used : phase[HomeOf[c]] \in {"serving", "closing", "stopped"}
  /\ \A c \in open : phase[HomeOf[c]] # "stopped"

\* Without an outage an instance that serves hears the bus.
Hears ==
  \A i \in Instance :
    /\ phase[i] = "boot" => link[i] = "none"
    /\ phase[i] = "subscribing" => handling[i] /\ link[i] \in {"none", "ready"}
    /\ phase[i] = "serving" => handling[i]
    /\ phase[i] \in {"serving", "closing"} => link[i] = "up"

Away(m, c) == HomeOf[c] # Origin(m)

\* An event that a stream has not been sent yet is still to come.
Coming(m, c) ==
  \/ m \in Heard(c)
  \/ phase[HomeOf[c]] = "closing"
  \/ Away(m, c) /\ On(m, HomeOf[c])
  \/ Away(m, c) /\ pc[JobOf(m)] = "publish" /\ step[JobOf(m)] = m[2]

Promised ==
  \A m \in Message : \A c \in audience[m] \cap open :
    c \in Addressed(JobOf(m)) /\ Scope[JobOf(m)] # "kill" /\ Coming(m, c)

\* The stream a kill names is closed, or about to be.
Doomed(j) ==
  LET c == Target[j] IN
  \/ c \notin open
  \/ phase[HomeOf[c]] = "closing"
  \/ Away(<<j, 1>>, c) /\ On(<<j, 1>>, HomeOf[c])

Killed(j) == answer[j] = "disconnected" \/ (Scope[j] = "kill" /\ pc[j] = "reply")

Condemned ==
  \A j \in Job :
    /\ Killed(j) => Scope[j] = "kill" /\ Target[j] \in used /\ Doomed(j)
    /\ Scope[j] = "kill" /\ pc[j] = "publish"
         => Target[j] \in used /\ (Target[j] \in open => HomeOf[Target[j]] # JobAt[j])

DInv == OInv /\ StreamsOK /\ (lost = 0 => Hears /\ Promised /\ Condemned)

-----------------------------------------------------------------------------
(* Sequences and messages.                                                 *)

LEMMA TailAt ==
  ASSUME NEW S, NEW s \in Seq(S), s # <<>>
  PROVE  /\ 1 \in DOMAIN s /\ Head(s) = s[1]
         /\ \A k \in DOMAIN Tail(s) : k \in Nat /\ k + 1 > 1 /\ k + 1 \in DOMAIN s
                                      /\ Tail(s)[k] = s[k + 1]
OBVIOUS

LEMMA AppendAt ==
  ASSUME NEW S, NEW s \in Seq(S), NEW x \in S
  PROVE  /\ \A k \in DOMAIN s : k < Len(s) + 1
         /\ \A k \in DOMAIN Append(s, x) :
              \/ k \in DOMAIN s /\ Append(s, x)[k] = s[k]
              \/ k = Len(s) + 1 /\ Append(s, x)[k] = x
OBVIOUS

LEMMA MessageShape ==
  ASSUME NEW m \in Message
  PROVE  /\ JobOf(m) \in Job /\ Origin(m) = JobAt[JobOf(m)] /\ Origin(m) \in Instance
         /\ m[2] \in 1..Steps[JobOf(m)] /\ m[2] \in Nat
         /\ m = <<JobOf(m), m[2]>>
BY ConstantsAssumption DEF Message, JobOf, Origin

LEMMA CurrentShape ==
  ASSUME TypeOK, NEW j \in Job
  PROVE  /\ Current(j) \in Message /\ JobOf(Current(j)) = j /\ Current(j)[2] = step[j]
         /\ Origin(Current(j)) = JobAt[j]
         /\ \A k \in Job : Current(k) = Current(j) => k = j
BY CurrentIsMessage DEF Current, Origin, JobOf

LEMMA HeardIsMessage ==
  ASSUME TypeOK, NEW c \in Stream, NEW m \in Heard(c)
  PROVE  m \in Message
BY DEF TypeOK, Heard

-----------------------------------------------------------------------------
\* A step that puts no event ahead of another keeps the order.
LEMMA OrderKept ==
  ASSUME Orderly, \A p \in Rivals : Ahead(p[1], p[2])' => Ahead(p[1], p[2])
  PROVE  Orderly'
<1>1. ASSUME NEW p \in Rivals, Ahead(p[1], p[2])'
      PROVE  ~Ahead(p[2], p[1])' /\ (JobOf(p[1]) = JobOf(p[2]) => p[1][2] < p[2][2])
  <2>1. Ahead(p[1], p[2])
    BY <1>1
  <2>2. Ahead(p[2], p[1])' => Ahead(p[2], p[1])
    <3> DEFINE q == <<p[2], p[1]>>
    <3>1. q \in Rivals /\ q[1] = p[2] /\ q[2] = p[1]
      BY DEF Rivals
    <3> HIDE DEF q
    <3> QED
      BY <3>1
  <2> QED
    BY <2>1, <2>2 DEF Orderly
<1> QED
  BY <1>1 DEF Orderly, Rivals, Message, Origin, JobOf

\* So does one after which nothing new can be seen.
LEMMA OrderShrinks ==
  ASSUME Orderly, got' = got,
         \A m \in Message : /\ \A i \in Instance : On(m, i)' => On(m, i)
                            /\ Waits(m)' => Waits(m),
         \A m, n \in Message : /\ \A i \in Instance : Queued(m, n, i)' => Queued(m, n, i)
                               /\ Piped(m, n)' => Piped(m, n)
  PROVE  Orderly'
<1>1. ASSUME NEW p \in Rivals, Ahead(p[1], p[2])' PROVE Ahead(p[1], p[2])
  <2>1. p[1] \in Message /\ p[2] \in Message
    BY DEF Rivals
  <2>2. \A c \in Stream : /\ Before(p[1], p[2], c)' => Before(p[1], p[2], c)
                          /\ HeardAway(p[1], c)' => HeardAway(p[1], c)
    BY DEF Before, HeardAway, Heard
  <2>3. \A c \in Stream : HomeOf[c] \in Instance
    BY ConstantsAssumption
  <2>4. Taken(p[1])' => Taken(p[1])
    BY <2>1, <2>2 DEF Taken
  <2> QED
    BY <1>1, <2>1, <2>2, <2>3, <2>4 DEF Ahead
<1> QED
  BY <1>1, OrderKept

\* The connection's own events, and a request's that stay off the bus.
LEMMA TrafficUntouched ==
  ASSUME OInv, UNCHANGED <<step, wire, got>>,
         \A i \in Instance : channel'[i] = channel[i] \/ channel'[i] = <<>>,
         \A j \in Job : pc'[j] = pc[j] \/ (pc[j] \in {"idle", "owner"} /\ pc'[j] \in {"owner", "done"})
  PROVE  PipelineOK' /\ SentOK' /\ Orderly'
<1> USE DEF OInv
<1>1. PipelineOK'
  <2> SUFFICES ASSUME NEW i \in Instance, NEW k \in DOMAIN wire[i]
               PROVE  pc'[wire[i][k]] = "publish"
    BY DEF PipelineOK
  <2>1. wire[i][k] \in Job /\ pc[wire[i][k]] = "publish"
    BY DEF PipelineOK, TypeOK
  <2> QED
    BY <2>1
<1>2. \A m \in Message, i \in Instance : On(m, i)' => On(m, i)
  BY DEF On
<1>3. SentOK'
  <2> SUFFICES ASSUME NEW m \in Message
               PROVE  /\ Taken(m)' => SentBefore(m, {"reply", "done"})'
                      /\ \A c \in Stream :
                           (m \in Heard(c))' => SentBefore(m, {"publish", "reply", "done"})'
    BY DEF SentOK, Message
  <2>1. Taken(m)' => Taken(m)
    BY <1>2 DEF Taken, HeardAway, Heard, Origin, JobOf
  <2>2. \A c \in Stream : (m \in Heard(c))' => m \in Heard(c)
    BY DEF Heard
  <2>3. \A late \in {{"reply", "done"}, {"publish", "reply", "done"}} :
          SentBefore(m, late) => SentBefore(m, late)'
    BY MessageShape DEF SentBefore, TypeOK, JobOf
  <2> QED
    BY <2>1, <2>2, <2>3 DEF SentOK
<1>4. Orderly'
  <2>2. ASSUME NEW m \in Message, NEW n \in Message, NEW i \in Instance, Queued(m, n, i)'
        PROVE  Queued(m, n, i)
    BY <2>2 DEF Queued
  <2>3. \A m \in Message : Waits(m)' => Waits(m)
    BY DEF Waits, Current, Origin, JobOf
  <2>4. \A m, n \in Message : Piped(m, n)' => Piped(m, n)
    BY DEF Piped, Current, Origin, JobOf
  <2> QED
    BY <1>2, <2>2, <2>3, <2>4, OrderShrinks
<1> QED
  BY <1>1, <1>3, <1>4

\* Every event of the connection but a message, and the steps of a request
\* that neither emit nor publish.
LEMMA QuietOrder ==
  ASSUME OInv,
         \/ \E i \in Instance : \/ Subscribe(i) \/ Ready(i) \/ Subscribed(i) \/ SubscribeFails(i)
                                \/ LinkDrops(i) \/ Close(i) \/ Quit(i)
         \/ \E c \in Stream : Open(c) \/ Leave(c) \/ Joined(c) \/ Left(c)
         \/ \E j \in Job : \/ Refuse(j) \/ KillLocal(j) \/ KillForbidden(j) \/ KillElsewhere(j)
                           \/ NotOwner(j) \/ LocalAfterAll(j)
         \/ UNCHANGED vars
  PROVE  PipelineOK' /\ SentOK' /\ Orderly'
<1> USE DEF linkRest, streamRest, jobRest, busVars, jobVars, historyVars
<1>1. ASSUME NEW i \in Instance,
             \/ Subscribe(i) \/ Ready(i) \/ Subscribed(i) \/ SubscribeFails(i)
             \/ LinkDrops(i) \/ Close(i) \/ Quit(i)
      PROVE  /\ UNCHANGED <<step, wire, got, pc>>
             /\ \A k \in Instance : channel'[k] = channel[k] \/ channel'[k] = <<>>
  <2>1. channel' = channel \/ channel' = [channel EXCEPT ![i] = <<>>]
    BY <1>1 DEF Subscribe, Ready, Subscribed, SubscribeFails, LinkDrops, Close, Quit, Drain
  <2> QED
    BY <1>1, <2>1 DEF Subscribe, Ready, Subscribed, SubscribeFails, LinkDrops, Close, Quit,
                      OInv, TypeOK
<1>2. ASSUME NEW c \in Stream, Open(c) \/ Leave(c) \/ Joined(c) \/ Left(c)
      PROVE  UNCHANGED <<step, wire, got, pc, channel>>
  BY <1>2 DEF Open, Leave, Joined, Left
<1>3. ASSUME NEW j \in Job,
             \/ Refuse(j) \/ KillLocal(j) \/ KillForbidden(j) \/ KillElsewhere(j)
             \/ NotOwner(j) \/ LocalAfterAll(j)
      PROVE  /\ UNCHANGED <<step, wire, got, channel>>
             /\ \A k \in Job : \/ pc'[k] = pc[k]
                               \/ pc[k] \in {"idle", "owner"} /\ pc'[k] \in {"owner", "done"}
  BY <1>3 DEF Refuse, KillLocal, KillForbidden, KillElsewhere, NotOwner, LocalAfterAll, SetJob,
              OInv, TypeOK
<1>4. UNCHANGED vars => UNCHANGED <<step, wire, got, pc, channel>>
  BY DEF vars
<1> QED
  BY <1>1, <1>2, <1>3, <1>4, TrafficUntouched

\* A request whose publish was answered goes on, or is done.
LEMMA PublishOrder ==
  ASSUME OInv, NEW j \in Job, Published(j) \/ PublishFails(j)
  PROVE  PipelineOK' /\ SentOK' /\ Orderly'
<1> DEFINE home == JobAt[j]
<1> USE DEF OInv
<1>1. /\ UNCHANGED <<channel, got>> /\ AfterPublish(j)
      /\ \/ pc[j] = "reply" /\ wire' = wire
         \/ /\ pc[j] = "publish" /\ wire[home] # <<>> /\ Head(wire[home]) = j
            /\ wire' = [wire EXCEPT ![home] = Tail(@)]
  BY DEF Published, PublishFails, publishRest, historyVars
<1>2. /\ wire \in [Instance -> Seq(Job)] /\ step \in [Job -> Nat]
      /\ home \in Instance /\ wire[home] \in Seq(Job)
  BY ConstantsAssumption DEF TypeOK
<1>3. /\ \A k \in Job \ {j} : step'[k] = step[k] /\ pc'[k] = pc[k]
      /\ \/ step'[j] = step[j] /\ pc'[j] = "done"
         \/ step'[j] = step[j] + 1 /\ pc'[j] = "pause"
  BY <1>1 DEF AfterPublish, Advance, SetJob, TypeOK
\* The request has left the pipeline, and the others keep their places.
<1>4. ASSUME NEW i \in Instance, NEW k \in DOMAIN wire'[i]
      PROVE  \E d \in {0, 1} : /\ \A l \in DOMAIN wire'[i] :
                                    /\ l \in Nat /\ l + d \in DOMAIN wire[i]
                                    /\ wire'[i][l] = wire[i][l + d]
                               /\ wire'[i][k] # j
  <2>1. CASE wire'[i] = wire[i] /\ (pc[j] = "reply" \/ i # home)
    <3>1. wire[i][k] # j
      BY <2>1 DEF PipelineOK
    <3>2. \A l \in DOMAIN wire[i] : l \in Nat /\ l + 0 = l
      BY DEF TypeOK
    <3> QED
      BY <2>1, <3>1, <3>2
  <2>2. CASE i = home /\ wire[i] # <<>> /\ Head(wire[i]) = j /\ wire'[i] = Tail(wire[i])
    <3>1. /\ \A l \in DOMAIN wire'[i] : l \in Nat /\ l + 1 > 1 /\ l + 1 \in DOMAIN wire[i]
                                        /\ wire'[i][l] = wire[i][l + 1]
          /\ 1 \in DOMAIN wire[i] /\ wire[i][1] = j
      <4>1. PICK s, r : s = wire[i] /\ r = wire'[i]
        OBVIOUS
      <4>2. s \in Seq(Job) /\ s # <<>> /\ Head(s) = j /\ r = Tail(s)
        BY <1>2, <2>2, <4>1
      <4>3. /\ 1 \in DOMAIN s /\ s[1] = j
            /\ \A l \in DOMAIN r : l \in Nat /\ l + 1 > 1 /\ l + 1 \in DOMAIN s /\ r[l] = s[l + 1]
        BY <4>2, TailAt
      <4> QED
        BY <4>1, <4>3, Zenon
    <3>2. 1 \in DOMAIN wire[i] /\ wire[i][1] = j
      BY <3>1
    <3>3. wire'[i][k] # j
      BY <3>1, <3>2 DEF PipelineOK
    <3> QED
      BY <3>1, <3>3
  <2> QED
    BY <1>1, <1>2, <2>1, <2>2
<1>5. ASSUME NEW i \in Instance, NEW k \in DOMAIN wire'[i]
      PROVE  wire'[i][k] \in Job \ {j} /\ step'[wire'[i][k]] = step[wire'[i][k]]
  <2>1. PICK d \in {0, 1} : /\ k + d \in DOMAIN wire[i] /\ wire'[i][k] = wire[i][k + d]
                            /\ wire'[i][k] # j
    BY <1>4
  <2>2. wire[i][k + d] \in Job
    BY <1>2, <2>1
  <2> QED
    BY <1>3, <2>1, <2>2
<1>6. PipelineOK'
  <2> SUFFICES ASSUME NEW i \in Instance
               PROVE  /\ \A k \in DOMAIN wire'[i] : JobAt[wire'[i][k]] = i /\ pc'[wire'[i][k]] = "publish"
                      /\ \A k, l \in DOMAIN wire'[i] : wire'[i][k] = wire'[i][l] => k = l
    BY DEF PipelineOK
  <2>1. ASSUME NEW k \in DOMAIN wire'[i]
        PROVE  JobAt[wire'[i][k]] = i /\ pc'[wire'[i][k]] = "publish"
    BY <1>3, <1>4, <1>5 DEF PipelineOK
  <2>2. ASSUME NEW k \in DOMAIN wire'[i], NEW l \in DOMAIN wire'[i], wire'[i][k] = wire'[i][l]
        PROVE  k = l
    BY <1>4, <2>2 DEF PipelineOK
  <2> QED
    BY <2>1, <2>2
<1>7. SentOK'
  <2> SUFFICES ASSUME NEW m \in Message
               PROVE  /\ Taken(m)' => SentBefore(m, {"reply", "done"})'
                      /\ \A c \in Stream :
                           (m \in Heard(c))' => SentBefore(m, {"publish", "reply", "done"})'
    BY DEF SentOK, Message
  <2>1. /\ Taken(m)' => Taken(m)
        /\ \A c \in Stream : (m \in Heard(c))' => m \in Heard(c)
    BY <1>1 DEF Taken, HeardAway, Heard, On, Origin, JobOf
  <2>2. \A late \in {{"reply", "done"}, {"publish", "reply", "done"}} :
          SentBefore(m, late) => SentBefore(m, late)'
    BY <1>3, MessageShape DEF SentBefore, TypeOK, JobOf
  <2> QED
    BY <2>1, <2>2 DEF SentOK
<1>8. Orderly'
  <2>1. \A m, n \in Message, i \in Instance : /\ On(m, i)' => On(m, i)
                                              /\ Queued(m, n, i)' => Queued(m, n, i)
    BY <1>1 DEF On, Queued
  <2>2. ASSUME NEW m \in Message, Waits(m)' PROVE Waits(m)
    <3>1. Origin(m) \in Instance
      BY MessageShape
    <3>2. PICK k \in DOMAIN wire'[Origin(m)] :
            <<wire'[Origin(m)][k], step'[wire'[Origin(m)][k]]>> = m
      BY <2>2 DEF Waits, Current, Origin, JobOf
    <3>3. PICK d \in {0, 1} : /\ k + d \in DOMAIN wire[Origin(m)]
                              /\ wire'[Origin(m)][k] = wire[Origin(m)][k + d]
      BY <1>4, <3>1
    <3> QED
      BY <1>5, <3>1, <3>2, <3>3 DEF Waits, Current
  <2>3. ASSUME NEW m \in Message, NEW n \in Message, Piped(m, n)' PROVE Piped(m, n)
    <3> DEFINE i == Origin(m)
    <3>1. i \in Instance
      BY MessageShape
    <3>2. PICK k \in DOMAIN wire'[i], l \in DOMAIN wire'[i] :
            /\ k < l
            /\ <<wire'[i][k], step'[wire'[i][k]]>> = m /\ <<wire'[i][l], step'[wire'[i][l]]>> = n
      BY <2>3 DEF Piped, Current, Origin, JobOf
    <3>3. PICK d \in {0, 1} : \A x \in DOMAIN wire'[i] : /\ x \in Nat /\ x + d \in DOMAIN wire[i]
                                                         /\ wire'[i][x] = wire[i][x + d]
      BY <1>4, <3>1
    <3>4. /\ k + d \in DOMAIN wire[i] /\ l + d \in DOMAIN wire[i] /\ k + d < l + d
          /\ Current(wire[i][k + d]) = m /\ Current(wire[i][l + d]) = n
      BY <1>5, <3>1, <3>2, <3>3 DEF Current
    <3> QED
      BY <3>4 DEF Piped
  <2> QED
    BY <1>1, <2>1, <2>2, <2>3, OrderShrinks
<1> QED
  BY <1>6, <1>7, <1>8

\* The oldest message of a connection is applied, or dropped: on a stream of
\* this instance it follows what the stream was sent, as on the bus.
LEMMA DispatchOrder ==
  ASSUME OInv, NEW i \in Instance, Dispatch(i)
  PROVE  PipelineOK' /\ SentOK' /\ Orderly'
<1> DEFINE first == Head(channel[i])
<1> USE DEF OInv
<1>1. /\ channel \in [Instance -> Seq(Message)] /\ got \in [Stream -> Seq(Message)]
      /\ HomeOf \in [Stream -> Instance]
  BY ConstantsAssumption DEF TypeOK
<1>2. /\ channel[i] \in Seq(Message) /\ channel[i] # <<>>
      /\ channel' = [channel EXCEPT ![i] = Tail(@)]
      /\ UNCHANGED <<pc, step, wire>>
  BY <1>1 DEF Dispatch, jobVars
<1>3. first \in Message /\ On(first, i)
  BY <1>2, TailAt DEF On
<1>4. \/ got' = got
      \/ /\ Origin(first) # i
         /\ got' = [c \in Stream |-> IF c \in Local(i) \cap Addressed(JobOf(first))
                                     THEN Append(got[c], first) ELSE got[c]]
  BY DEF Dispatch, ApplyRemote, Deliver, Accepts
<1> HIDE DEF first
<1>5. ASSUME NEW m \in Message, NEW k \in Instance, On(m, k)'
      PROVE  On(m, k) /\ (k = i => Queued(first, m, i))
  <2>1. CASE k = i
    <3>1. PICK x \in DOMAIN Tail(channel[i]) : Tail(channel[i])[x] = m
      BY <1>1, <1>2, <1>5, <2>1 DEF On
    <3>2. /\ 1 \in DOMAIN channel[i] /\ channel[i][1] = first
          /\ 1 < x + 1 /\ x + 1 \in DOMAIN channel[i] /\ channel[i][x + 1] = m
      BY <1>2, <3>1, TailAt DEF first
    <3> QED
      BY <2>1, <3>2 DEF On, Queued
  <2>2. CASE k # i
    BY <1>1, <1>2, <1>5, <2>2 DEF On
  <2> QED
    BY <2>1, <2>2
<1>6. ASSUME NEW m \in Message, NEW n \in Message, NEW k \in Instance, Queued(m, n, k)'
      PROVE  Queued(m, n, k)
  <2>1. CASE k = i
    <3>1. PICK x, y \in DOMAIN Tail(channel[i]) :
            x < y /\ Tail(channel[i])[x] = m /\ Tail(channel[i])[y] = n
      BY <1>1, <1>2, <1>6, <2>1 DEF Queued
    <3>2. /\ x + 1 \in DOMAIN channel[i] /\ y + 1 \in DOMAIN channel[i] /\ x + 1 < y + 1
          /\ channel[i][x + 1] = m /\ channel[i][y + 1] = n
      BY <1>2, <3>1, TailAt
    <3> QED
      BY <2>1, <3>2 DEF Queued
  <2>2. CASE k # i
    BY <1>1, <1>2, <1>6, <2>2 DEF Queued
  <2> QED
    BY <2>1, <2>2
<1>7. ASSUME NEW c \in Stream
      PROVE  \/ got'[c] = got[c]
             \/ /\ HomeOf[c] = i /\ Origin(first) # i
                /\ got'[c] = Append(got[c], first) /\ got[c] \in Seq(Message)
  BY <1>1, <1>4 DEF Local
<1>8. ASSUME NEW c \in Stream, NEW m \in Message, (m \in Heard(c))'
      PROVE  m \in Heard(c) \/ (m = first /\ HomeOf[c] = i /\ Origin(first) # i)
  <2>1. PICK k \in DOMAIN got'[c] : got'[c][k] = m
    BY <1>8 DEF Heard
  <2> QED
    BY <1>3, <1>7, <2>1, AppendAt DEF Heard
<1>9. ASSUME NEW c \in Stream, NEW m \in Message, NEW n \in Message, Before(m, n, c)'
      PROVE  Before(m, n, c) \/ (n = first /\ HomeOf[c] = i /\ Origin(first) # i /\ m \in Heard(c))
  <2>1. PICK k, l \in DOMAIN got'[c] : k < l /\ got'[c][k] = m /\ got'[c][l] = n
    BY <1>9 DEF Before
  <2>2. CASE got'[c] = got[c]
    BY <2>1, <2>2 DEF Before
  <2>3. CASE /\ HomeOf[c] = i /\ Origin(first) # i
             /\ got'[c] = Append(got[c], first) /\ got[c] \in Seq(Message)
    <3>1. k \in DOMAIN got[c] /\ got[c][k] = m
      BY <1>3, <2>1, <2>3
    <3>2. (l \in DOMAIN got[c] /\ got[c][l] = n) \/ n = first
      BY <1>3, <2>1, <2>3, AppendAt
    <3> QED
      BY <2>1, <2>3, <3>1, <3>2 DEF Before, Heard
  <2> QED
    BY <1>7, <2>2, <2>3
<1>10. ASSUME NEW m \in Message, Taken(m)' PROVE Taken(m)
  <2>1. CASE \E k \in Instance : On(m, k)'
    BY <1>5, <2>1 DEF Taken
  <2>2. CASE \E c \in Stream : HeardAway(m, c)'
    BY <1>3, <1>8, <2>2 DEF Taken, HeardAway, Origin, JobOf
  <2> QED
    BY <1>10, <2>1, <2>2 DEF Taken
<1>11. PipelineOK'
  BY <1>2 DEF PipelineOK
<1>12. SentOK'
  <2> SUFFICES ASSUME NEW m \in Message
               PROVE  /\ Taken(m)' => SentBefore(m, {"reply", "done"})'
                      /\ \A c \in Stream :
                           (m \in Heard(c))' => SentBefore(m, {"publish", "reply", "done"})'
    BY DEF SentOK, Message
  <2>1. \A late \in {{"reply", "done"}, {"publish", "reply", "done"}} :
          SentBefore(m, late) => SentBefore(m, late)'
    BY <1>2 DEF SentBefore, JobOf
  <2>2. SentBefore(m, {"reply", "done"}) => SentBefore(m, {"publish", "reply", "done"})
    BY DEF SentBefore
  <2>3. \A c \in Stream : (m \in Heard(c))' => m \in Heard(c) \/ Taken(m)
    BY <1>3, <1>8 DEF Taken
  <2> QED
    BY <1>10, <2>1, <2>2, <2>3 DEF SentOK
<1>13. ASSUME NEW p \in Rivals, Ahead(p[1], p[2])' PROVE Ahead(p[1], p[2])
  <2> DEFINE m == p[1]  n == p[2]
  <2>1. m \in Message /\ n \in Message /\ Origin(m) = Origin(n)
    BY DEF Rivals
  <2>2. CASE \E c \in Stream : Before(m, n, c)'
    <3>1. PICK c \in Stream : Before(m, n, c)'
      BY <2>2
    <3>2. Before(m, n, c) \/ (HeardAway(m, c) /\ On(n, HomeOf[c]))
      BY <1>3, <1>9, <2>1, <3>1 DEF HeardAway
    <3> QED
      BY <3>2 DEF Ahead
  <2>3. CASE \E k \in Instance : Queued(m, n, k)'
    BY <1>6, <2>1, <2>3 DEF Ahead
  <2>4. CASE \E c \in Stream : HeardAway(m, c)' /\ On(n, HomeOf[c])'
    <3>1. PICK c \in Stream : HomeOf[c] # Origin(m) /\ (m \in Heard(c))' /\ On(n, HomeOf[c])'
      BY <2>4 DEF HeardAway, Origin, JobOf
    <3>2. On(n, HomeOf[c]) /\ (HomeOf[c] = i => Queued(first, n, i))
      BY <1>1, <1>5, <2>1, <3>1
    <3>3. (HeardAway(m, c) /\ On(n, HomeOf[c])) \/ Queued(m, n, i)
      BY <1>8, <2>1, <3>1, <3>2 DEF HeardAway
    <3> QED
      BY <3>3 DEF Ahead
  <2>5. CASE Taken(m)' /\ Waits(n)'
    BY <1>2, <1>10, <2>1, <2>5 DEF Ahead, Waits, Current, Origin, JobOf
  <2>6. CASE Piped(m, n)'
    BY <1>2, <2>6 DEF Ahead, Piped, Current, Origin, JobOf
  <2> QED
    BY <1>13, <2>2, <2>3, <2>4, <2>5, <2>6 DEF Ahead
<1> QED
  BY <1>11, <1>12, <1>13, OrderKept

\* Redis takes the oldest message of a pipeline: it is behind all that was
\* taken, and ahead of all that waits there.
LEMMA AtRedisOrder ==
  ASSUME OInv, NEW j \in Job, AtRedis(j)
  PROVE  PipelineOK' /\ SentOK' /\ Orderly'
<1> DEFINE home == JobAt[j]
           first == Current(j)
<1> USE DEF OInv
<1>1. /\ channel \in [Instance -> Seq(Message)] /\ wire \in [Instance -> Seq(Job)]
      /\ pc \in [Job -> {"idle", "owner", "publish", "reply", "pause", "done"}]
      /\ HomeOf \in [Stream -> Instance] /\ home \in Instance
  BY ConstantsAssumption DEF TypeOK
<1>2. /\ wire[home] \in Seq(Job) /\ wire[home] # <<>> /\ Head(wire[home]) = j
      /\ wire' = [wire EXCEPT ![home] = Tail(@)]
      /\ pc' = [pc EXCEPT ![j] = "reply"]
      /\ channel' = [k \in Instance |-> IF k \in Subscribers THEN Append(channel[k], first)
                                                             ELSE channel[k]]
      /\ UNCHANGED <<step, got>>
  BY <1>1 DEF AtRedis, SetJob
<1>3. first \in Message /\ JobOf(first) = j /\ first[2] = step[j] /\ Origin(first) = home
  BY CurrentShape
<1>4. 1 \in DOMAIN wire[home] /\ wire[home][1] = j /\ pc[j] = "publish" /\ Waits(first)
  BY <1>1, <1>2, <1>3, TailAt DEF PipelineOK, Waits
\* The pipeline moves up by one.
<1>5. ASSUME NEW i \in Instance, NEW k \in DOMAIN wire'[i]
      PROVE  \/ i # home /\ wire'[i] = wire[i]
             \/ /\ i = home /\ wire'[i] = Tail(wire[i])
                /\ k \in Nat /\ 1 < k + 1 /\ k + 1 \in DOMAIN wire[i]
                /\ wire'[i][k] = wire[i][k + 1]
  BY <1>1, <1>2, TailAt
<1> HIDE DEF first, home
<1>6. PipelineOK'
  <2> SUFFICES ASSUME NEW i \in Instance
               PROVE  /\ \A k \in DOMAIN wire'[i] : JobAt[wire'[i][k]] = i /\ pc'[wire'[i][k]] = "publish"
                      /\ \A k, l \in DOMAIN wire'[i] : wire'[i][k] = wire'[i][l] => k = l
    BY DEF PipelineOK
  <2>1. ASSUME NEW k \in DOMAIN wire'[i]
        PROVE  JobAt[wire'[i][k]] = i /\ pc'[wire'[i][k]] = "publish"
    <3>1. wire'[i][k] # j
      BY <1>4, <1>5 DEF PipelineOK, home
    <3> QED
      BY <1>1, <1>2, <1>5, <3>1 DEF PipelineOK
  <2>2. ASSUME NEW k \in DOMAIN wire'[i], NEW l \in DOMAIN wire'[i], wire'[i][k] = wire'[i][l]
        PROVE  k = l
    BY <1>5, <2>2 DEF PipelineOK
  <2> QED
    BY <2>1, <2>2
<1>7. ASSUME NEW k \in Instance
      PROVE  \/ channel'[k] = channel[k]
             \/ channel'[k] = Append(channel[k], first) /\ channel[k] \in Seq(Message)
  BY <1>1, <1>2
<1>8. ASSUME NEW m \in Message, NEW k \in Instance, On(m, k)' PROVE On(m, k) \/ m = first
  <2>1. PICK x \in DOMAIN channel'[k] : channel'[k][x] = m
    BY <1>8 DEF On
  <2>2. (x \in DOMAIN channel[k] /\ channel[k][x] = m) \/ m = first
    <3>1. CASE channel'[k] = channel[k]
      BY <2>1, <3>1
    <3>2. CASE channel'[k] = Append(channel[k], first) /\ channel[k] \in Seq(Message)
      BY <1>3, <2>1, <3>2, AppendAt
    <3> QED
      BY <1>7, <3>1, <3>2
  <2> QED
    BY <2>2 DEF On
<1>9. ASSUME NEW m \in Message, NEW n \in Message, NEW i \in Instance, Queued(m, n, i)'
      PROVE  Queued(m, n, i) \/ (On(m, i) /\ n = first)
  <2>1. PICK k, l \in DOMAIN channel'[i] : k < l /\ channel'[i][k] = m /\ channel'[i][l] = n
    BY <1>9 DEF Queued
  <2>2. CASE channel'[i] = channel[i]
    BY <2>1, <2>2 DEF Queued
  <2>3. CASE channel'[i] = Append(channel[i], first) /\ channel[i] \in Seq(Message)
    <3>1. k \in DOMAIN channel[i] /\ channel[i][k] = m
      BY <1>3, <2>1, <2>3
    <3>2. (l \in DOMAIN channel[i] /\ channel[i][l] = n) \/ n = first
      BY <1>3, <2>1, <2>3, AppendAt
    <3> QED
      BY <2>1, <3>1, <3>2 DEF Queued, On
  <2> QED
    BY <1>7, <2>2, <2>3
<1>10. ASSUME NEW m \in Message, Waits(m)'
       PROVE  Waits(m) /\ (Origin(m) = home => Piped(first, m))
  <2> DEFINE i == Origin(m)
  <2>1. i \in Instance
    BY MessageShape
  <2>2. PICK k \in DOMAIN wire'[i] : <<wire'[i][k], step[wire'[i][k]]>> = m
    BY <1>2, <1>10 DEF Waits, Current, Origin, JobOf
  <2>3. CASE i # home
    BY <1>5, <2>1, <2>2, <2>3 DEF Waits, Current
  <2>4. CASE i = home
    <3>1. 1 < k + 1 /\ k + 1 \in DOMAIN wire[home] /\ Current(wire[home][k + 1]) = m
      BY <1>5, <2>1, <2>2, <2>4 DEF Current
    <3>2. Current(wire[home][1]) = first /\ 1 \in DOMAIN wire[home]
      BY <1>4 DEF first
    <3> QED
      BY <1>3, <2>4, <3>1, <3>2 DEF Waits, Piped
  <2> QED
    BY <2>3, <2>4
<1>11. ASSUME NEW m \in Message, NEW n \in Message, Piped(m, n)' PROVE Piped(m, n)
  <2> DEFINE i == Origin(m)
  <2>1. i \in Instance
    BY MessageShape
  <2>2. PICK k, l \in DOMAIN wire'[i] :
          k < l /\ <<wire'[i][k], step[wire'[i][k]]>> = m /\ <<wire'[i][l], step[wire'[i][l]]>> = n
    BY <1>2, <1>11 DEF Piped, Current, Origin, JobOf
  <2>3. CASE i # home
    BY <1>5, <2>1, <2>2, <2>3 DEF Piped, Current
  <2>4. CASE i = home
    <3>1. /\ k + 1 \in DOMAIN wire[i] /\ l + 1 \in DOMAIN wire[i] /\ k + 1 < l + 1
          /\ Current(wire[i][k + 1]) = m /\ Current(wire[i][l + 1]) = n
      BY <1>5, <2>1, <2>2, <2>4 DEF Current
    <3> QED
      BY <3>1 DEF Piped
  <2> QED
    BY <2>3, <2>4
<1>12. \A c \in Stream, m \in Message : (m \in Heard(c))' <=> m \in Heard(c)
  BY <1>2 DEF Heard
<1>13. ASSUME NEW m \in Message, Taken(m)' PROVE Taken(m) \/ m = first
  <2>1. CASE \E k \in Instance : On(m, k)'
    BY <1>8, <2>1 DEF Taken
  <2>2. CASE \E c \in Stream : HeardAway(m, c)'
    BY <1>12, <2>2 DEF Taken, HeardAway, Origin, JobOf
  <2> QED
    BY <1>13, <2>1, <2>2 DEF Taken
<1>14. SentOK'
  <2> SUFFICES ASSUME NEW m \in Message
               PROVE  /\ Taken(m)' => SentBefore(m, {"reply", "done"})'
                      /\ \A c \in Stream :
                           (m \in Heard(c))' => SentBefore(m, {"publish", "reply", "done"})'
    BY DEF SentOK, Message
  <2>1. \A late \in {{"reply", "done"}, {"publish", "reply", "done"}} :
          SentBefore(m, late) => SentBefore(m, late)'
    BY <1>1, <1>2, MessageShape DEF SentBefore, JobOf
  <2>2. m = first => SentBefore(m, {"reply", "done"})'
    BY <1>1, <1>2, <1>3, MessageShape DEF SentBefore, JobOf
  <2> QED
    BY <1>12, <1>13, <2>1, <2>2 DEF SentOK
<1>15. ASSUME NEW p \in Rivals, Ahead(p[1], p[2])' PROVE Ahead(p[1], p[2])
  <2> DEFINE m == p[1]  n == p[2]
  <2>1. m \in Message /\ n \in Message /\ Origin(m) = Origin(n)
    BY DEF Rivals
  <2>2. CASE \E c \in Stream : Before(m, n, c)'
    BY <1>2, <2>2 DEF Ahead, Before
  <2>3. CASE \E k \in Instance : Queued(m, n, k)'
    BY <1>4, <1>9, <2>1, <2>3 DEF Ahead, Taken
  <2>4. CASE \E c \in Stream : HeardAway(m, c)' /\ On(n, HomeOf[c])'
    <3>1. PICK c \in Stream : HeardAway(m, c) /\ On(n, HomeOf[c])'
      BY <1>12, <2>1, <2>4 DEF HeardAway, Origin, JobOf
    <3>2. On(n, HomeOf[c]) \/ (Taken(m) /\ n = first)
      BY <1>1, <1>8, <2>1, <3>1 DEF Taken
    <3> QED
      BY <1>4, <3>1, <3>2 DEF Ahead
  <2>5. CASE Taken(m)' /\ Waits(n)'
    BY <1>3, <1>10, <1>13, <2>1, <2>5 DEF Ahead
  <2>6. CASE Piped(m, n)'
    BY <1>11, <2>1, <2>6 DEF Ahead
  <2> QED
    BY <1>15, <2>2, <2>3, <2>4, <2>5, <2>6 DEF Ahead
<1> QED
  BY <1>6, <1>14, <1>15, OrderKept

\* An event that was never seen is queued at its instance, and sent to the
\* streams there: it is behind all others.
LEMMA FreshOrder ==
  ASSUME OInv, NEW j \in Job, pc[j] \in {"idle", "pause", "owner"}, Enqueue(j),
         Deliver(JobAt[j], Current(j)) \/ got' = got,
         pc' = [pc EXCEPT ![j] = "publish"], UNCHANGED <<channel, step>>
  PROVE  PipelineOK' /\ SentOK' /\ Orderly'
<1> DEFINE home == JobAt[j]
           fresh == Current(j)
           Seen(m) == (\E c \in Stream : m \in Heard(c)) \/ Taken(m) \/ Waits(m)
<1> USE DEF OInv
<1>1. /\ channel \in [Instance -> Seq(Message)] /\ wire \in [Instance -> Seq(Job)]
      /\ got \in [Stream -> Seq(Message)]
      /\ pc \in [Job -> {"idle", "owner", "publish", "reply", "pause", "done"}]
      /\ HomeOf \in [Stream -> Instance] /\ home \in Instance
  BY ConstantsAssumption DEF TypeOK
<1>2. /\ wire' = [wire EXCEPT ![home] = Append(@, j)] /\ wire[home] \in Seq(Job)
      /\ \/ got' = got
         \/ got' = [c \in Stream |-> IF c \in Local(home) \cap Addressed(JobOf(fresh))
                                     THEN Append(got[c], fresh) ELSE got[c]]
  BY <1>1 DEF Enqueue, Deliver
<1>3. fresh \in Message /\ JobOf(fresh) = j /\ fresh[2] = step[j] /\ Origin(fresh) = home
  BY CurrentShape
<1>4. ASSUME NEW c \in Stream
      PROVE  \/ got'[c] = got[c]
             \/ HomeOf[c] = home /\ got'[c] = Append(got[c], fresh) /\ got[c] \in Seq(Message)
  BY <1>1, <1>2 DEF Local
<1>5. ASSUME NEW i \in Instance, NEW k \in DOMAIN wire'[i]
      PROVE  \/ k \in DOMAIN wire[i] /\ wire'[i][k] = wire[i][k]
             \/ i = home /\ k = Len(wire[i]) + 1 /\ wire'[i][k] = j
  BY <1>1, <1>2, AppendAt
<1> HIDE DEF fresh, home
\* Nobody has seen it, and what was seen of its request came earlier.
<1>6. ASSUME NEW m \in Message, Seen(m), JobOf(m) = j PROVE m[2] < step[j]
  <2>1. ~Waits(m)
    <3> SUFFICES ASSUME Waits(m) PROVE FALSE
      OBVIOUS
    <3>1. Origin(m) \in Instance
      BY MessageShape
    <3>2. PICK k \in DOMAIN wire[Origin(m)] : Current(wire[Origin(m)][k]) = m
      BY DEF Waits
    <3>3. wire[Origin(m)][k] = j
      BY <1>6, <3>2 DEF Current, JobOf
    <3> QED
      BY <3>1, <3>3 DEF PipelineOK
  <2>2. m[2] <= step[j] /\ m[2] # step[j]
    BY <1>6, <2>1 DEF SentOK, SentBefore
  <2>3. m[2] \in Nat /\ step[j] \in Nat
    BY MessageShape DEF TypeOK
  <2> QED
    BY <2>2, <2>3
<1>7. ~Seen(fresh)
  <2>1. step[j] \in Nat
    BY DEF TypeOK
  <2> QED
    BY <1>3, <1>6, <2>1
<1>8. ASSUME NEW i \in Instance, NEW k \in DOMAIN wire[i]
      PROVE  wire[i][k] # j
  BY DEF PipelineOK
<1>9. ASSUME NEW c \in Stream, NEW m \in Message, (m \in Heard(c))'
      PROVE  m \in Heard(c) \/ (m = fresh /\ HomeOf[c] = home)
  <2>1. PICK k \in DOMAIN got'[c] : got'[c][k] = m
    BY <1>9 DEF Heard
  <2> QED
    BY <1>3, <1>4, <2>1, AppendAt DEF Heard
<1>10. ASSUME NEW m \in Message PROVE Taken(m)' => Taken(m)
  <2>1. \A k \in Instance : On(m, k)' <=> On(m, k)
    BY DEF On
  <2>2. \A c \in Stream : HeardAway(m, c)' => HeardAway(m, c)
    BY <1>3, <1>9 DEF HeardAway, Origin, JobOf
  <2> QED
    BY <2>1, <2>2 DEF Taken
<1>11. PipelineOK'
  <2> SUFFICES ASSUME NEW i \in Instance
               PROVE  /\ \A k \in DOMAIN wire'[i] : JobAt[wire'[i][k]] = i /\ pc'[wire'[i][k]] = "publish"
                      /\ \A k, l \in DOMAIN wire'[i] : wire'[i][k] = wire'[i][l] => k = l
    BY DEF PipelineOK
  <2>1. ASSUME NEW k \in DOMAIN wire'[i]
        PROVE  JobAt[wire'[i][k]] = i /\ pc'[wire'[i][k]] = "publish"
    <3>0. k \in DOMAIN wire[i] => wire[i][k] \in Job /\ JobAt[wire[i][k]] = i
      BY <1>1 DEF PipelineOK
    <3>1. wire'[i][k] \in Job /\ JobAt[wire'[i][k]] = i
      BY <1>5, <3>0 DEF home
    <3>2. wire'[i][k] = j \/ pc[wire'[i][k]] = "publish"
      BY <1>5 DEF PipelineOK
    <3> QED
      BY <1>1, <3>1, <3>2
  <2>2. ASSUME NEW k \in DOMAIN wire'[i], NEW l \in DOMAIN wire'[i], wire'[i][k] = wire'[i][l]
        PROVE  k = l
    BY <1>5, <1>8, <2>2 DEF PipelineOK
  <2> QED
    BY <2>1, <2>2
<1>12. SentOK'
  <2> SUFFICES ASSUME NEW m \in Message
               PROVE  /\ Taken(m)' => SentBefore(m, {"reply", "done"})'
                      /\ \A c \in Stream :
                           (m \in Heard(c))' => SentBefore(m, {"publish", "reply", "done"})'
    BY DEF SentOK, Message
  <2>1. \A late \in {{"reply", "done"}, {"publish", "reply", "done"}} :
          SentBefore(m, late) => SentBefore(m, late)'
    BY <1>1, MessageShape DEF SentBefore, JobOf
  <2>2. m = fresh => SentBefore(m, {"publish", "reply", "done"})'
    <3>1. step[j] \in Nat
      BY DEF TypeOK
    <3> QED
      BY <1>1, <1>3, <3>1 DEF SentBefore, JobOf
  <2> QED
    BY <1>9, <1>10, <2>1, <2>2 DEF SentOK
<1>13. ASSUME NEW p \in Rivals, Ahead(p[1], p[2]) PROVE Seen(p[1])
  BY <1>13 DEF Ahead, Before, Queued, Taken, On, HeardAway, Heard, Piped, Waits
<1>14. ASSUME NEW p \in Rivals, Ahead(p[1], p[2])'
       PROVE  Ahead(p[1], p[2]) \/ (p[2] = fresh /\ Seen(p[1]))
  <2> DEFINE m == p[1]  n == p[2]
  <2>1. m \in Message /\ n \in Message /\ Origin(m) = Origin(n) /\ Origin(m) \in Instance
    BY MessageShape DEF Rivals
  <2>2. CASE \E c \in Stream : Before(m, n, c)'
    <3>0. PICK c \in Stream : Before(m, n, c)'
      BY <2>2
    <3>1. PICK k, l \in DOMAIN got'[c] : k < l /\ got'[c][k] = m /\ got'[c][l] = n
      BY <3>0 DEF Before
    <3>2. CASE got'[c] = got[c]
      BY <3>1, <3>2 DEF Ahead, Before
    <3>3. CASE got'[c] = Append(got[c], fresh) /\ got[c] \in Seq(Message)
      <4>1. k \in DOMAIN got[c] /\ got[c][k] = m
        BY <1>3, <3>1, <3>3
      <4>2. (l \in DOMAIN got[c] /\ got[c][l] = n) \/ n = fresh
        BY <1>3, <3>1, <3>3, AppendAt
      <4> QED
        BY <3>1, <4>1, <4>2 DEF Ahead, Before, Heard
    <3> QED
      BY <1>4, <3>2, <3>3
  <2>3. CASE \E k \in Instance : Queued(m, n, k)'
    BY <2>3 DEF Ahead, Queued
  <2>4. CASE \E c \in Stream : HeardAway(m, c)' /\ On(n, HomeOf[c])'
    <3>1. PICK c \in Stream : HomeOf[c] # Origin(m) /\ (m \in Heard(c))' /\ On(n, HomeOf[c])
      BY <2>4 DEF HeardAway, On, Origin, JobOf
    <3>2. HeardAway(m, c)
      BY <1>3, <1>9, <2>1, <3>1 DEF HeardAway
    <3> QED
      BY <3>1, <3>2 DEF Ahead
  <2>5. CASE Taken(m)' /\ Waits(n)'
    <3>1. PICK k \in DOMAIN wire'[Origin(n)] :
            <<wire'[Origin(n)][k], step[wire'[Origin(n)][k]]>> = n
      BY <2>5 DEF Waits, Current, Origin, JobOf
    <3>2. Waits(n) \/ n = fresh
      BY <1>5, <2>1, <3>1 DEF Waits, Current, fresh
    <3> QED
      BY <1>10, <2>1, <2>5, <3>2 DEF Ahead
  <2>6. CASE Piped(m, n)'
    <3> DEFINE i == Origin(m)
    <3>1. PICK k \in DOMAIN wire'[i], l \in DOMAIN wire'[i] :
            /\ k < l
            /\ <<wire'[i][k], step[wire'[i][k]]>> = m /\ <<wire'[i][l], step[wire'[i][l]]>> = n
      BY <2>6 DEF Piped, Current, Origin, JobOf
    <3>2. k \in DOMAIN wire[i] /\ wire'[i][k] = wire[i][k]
      BY <1>1, <1>2, <1>5, <2>1, <3>1
    <3>3. Waits(m)
      BY <3>1, <3>2 DEF Waits, Current
    <3>4. (l \in DOMAIN wire[i] /\ wire'[i][l] = wire[i][l]) \/ n = fresh
      BY <1>5, <2>1, <3>1 DEF Current, fresh
    <3> QED
      BY <3>1, <3>2, <3>3, <3>4 DEF Ahead, Piped, Current
  <2> QED
    BY <1>14, <2>2, <2>3, <2>4, <2>5, <2>6 DEF Ahead
<1>15. ASSUME NEW p \in Rivals, Ahead(p[1], p[2])'
       PROVE  ~Ahead(p[2], p[1])' /\ (JobOf(p[1]) = JobOf(p[2]) => p[1][2] < p[2][2])
  <2>1. p[1] \in Message /\ p[2] \in Message /\ Seen(p[1])
    BY <1>13, <1>14, <1>15 DEF Rivals
  <2>2. Ahead(p[2], p[1])' => Ahead(p[2], p[1]) \/ (p[1] = fresh /\ Seen(p[2]))
    <3> DEFINE q == <<p[2], p[1]>>
    <3>1. q \in Rivals /\ q[1] = p[2] /\ q[2] = p[1]
      BY DEF Rivals
    <3> HIDE DEF q, Seen
    <3> QED
      BY <1>14, <3>1
  <2>3. Ahead(p[2], p[1]) => Seen(p[2])
    <3> DEFINE q == <<p[2], p[1]>>
    <3>1. q \in Rivals /\ q[1] = p[2] /\ q[2] = p[1]
      BY DEF Rivals
    <3> HIDE DEF q, Seen
    <3> QED
      BY <1>13, <3>1
  <2> HIDE DEF Seen
  <2>4. CASE Ahead(p[1], p[2])
    BY <1>7, <2>1, <2>2, <2>4 DEF Orderly
  <2>5. CASE p[2] = fresh
    BY <1>3, <1>6, <1>7, <2>1, <2>2, <2>3, <2>5
  <2> QED
    BY <1>14, <1>15, <2>4, <2>5
<1> QED
  BY <1>11, <1>12, <1>15 DEF Orderly, Rivals, Message, Origin, JobOf

LEMMA OrderInit == Init => OInv
<1> SUFFICES ASSUME Init PROVE PipelineOK /\ SentOK /\ Orderly
  BY InitTypes DEF OInv
<1>1. ASSUME NEW m \in Message
      PROVE  ~Taken(m) /\ ~Waits(m) /\ \A c \in Stream : m \notin Heard(c)
  BY MessageShape DEF Init, Taken, Waits, Heard, HeardAway, On
<1>2. ASSUME NEW p \in Rivals PROVE ~Ahead(p[1], p[2])
  <2>1. p[1] \in Message /\ Origin(p[1]) \in Instance
    BY MessageShape DEF Rivals
  <2>2. ~Piped(p[1], p[2]) /\ \A i \in Instance : ~Queued(p[1], p[2], i)
    BY <2>1 DEF Init, Piped, Queued
  <2>3. \A c \in Stream : ~Before(p[1], p[2], c) /\ ~HeardAway(p[1], c)
    BY DEF Init, Before, HeardAway, Heard
  <2> QED
    BY <1>1, <2>1, <2>2, <2>3 DEF Ahead
<1> QED
  BY <1>1, <1>2 DEF Init, PipelineOK, SentOK, Orderly

LEMMA OrderStep == OInv /\ [Next]_vars => OInv'
<1> SUFFICES ASSUME OInv, [Next]_vars PROVE OInv'
  OBVIOUS
<1>1. TypeOK'
  BY StepTypes DEF OInv
<1>2. ASSUME NEW j \in Job, Emit(j) \/ OwnerConfirmed(j)
      PROVE  PipelineOK' /\ SentOK' /\ Orderly'
  <2>1. /\ pc[j] \in {"idle", "pause", "owner"} /\ Enqueue(j)
        /\ Deliver(JobAt[j], Current(j)) \/ got' = got
        /\ pc' = [pc EXCEPT ![j] = "publish"] /\ UNCHANGED <<channel, step>>
    BY <1>2 DEF Emit, OwnerConfirmed, SetJob, jobRest, busVars
  <2> QED
    BY <2>1, FreshOrder
<1>3. PipelineOK' /\ SentOK' /\ Orderly'
  BY <1>2, NextActions, QuietOrder, PublishOrder, DispatchOrder, AtRedisOrder
<1> QED
  BY <1>1, <1>3 DEF OInv

\* What is ahead of each stream extends what it heard, in the order of emission.
THEOREM OrderInvariance == Spec => []OInv
BY OrderInit, OrderStep, PTL DEF Spec

-----------------------------------------------------------------------------
LEMMA HeardPair ==
  ASSUME OInv, NEW c \in Stream, NEW k \in DOMAIN got[c], NEW l \in DOMAIN got[c]
  PROVE  /\ got[c][k] \in Message /\ got[c][l] \in Message
         /\ k < l => Ahead(got[c][k], got[c][l])
BY DEF OInv, TypeOK, Ahead, Before

\* EmitService and the replayed sequence: an event reaches a stream once, by
\* the local emit or over the bus, and the events of one request in the order
\* it emitted them, whatever fails between the instances.
THEOREM SequencesInOrder == Spec => []OnceInOrder
<1>1. OInv => OnceInOrder
  <2> SUFFICES ASSUME OInv, NEW c \in Stream, NEW k \in DOMAIN got[c], NEW l \in DOMAIN got[c],
                      k < l, JobOf(got[c][k]) = JobOf(got[c][l])
               PROVE  got[c][k][2] < got[c][l][2]
    BY DEF OnceInOrder
  <2> DEFINE p == <<got[c][k], got[c][l]>>
  <2>1. p \in Rivals /\ Ahead(p[1], p[2])
    BY HeardPair DEF Rivals, Origin
  <2> QED
    BY <2>1 DEF OInv, Orderly
<1> QED
  BY <1>1, OrderInvariance, PTL

\* The driver's one pipeline and one subscription per instance: no two streams,
\* on the instance that emits or on another, disagree on the order of two of
\* its events.
THEOREM StreamsAgree == Spec => []SameOrderEverywhere
<1>1. OInv => SameOrderEverywhere
  <2> SUFFICES ASSUME OInv, NEW c \in Stream, NEW d \in Stream,
                      NEW m \in Heard(c) \cap Heard(d), NEW n \in Heard(c) \cap Heard(d),
                      Origin(m) = Origin(n), Before(m, n, c), Before(n, m, d)
               PROVE  FALSE
    BY DEF SameOrderEverywhere
  <2> DEFINE p == <<m, n>>
  <2>1. p \in Rivals
    BY HeardIsMessage DEF OInv, Rivals
  <2> QED
    BY <2>1 DEF OInv, Orderly, Ahead
<1> QED
  BY <1>1, OrderInvariance, PTL

-----------------------------------------------------------------------------
(* Delivery.                                                               *)

\* Of an instance's life: it boots, serves, and closes for good.
LEMMA StreamsStep ==
  ASSUME TypeOK, TypeOK', StreamsOK, Next
  PROVE  StreamsOK'
<1>1. ASSUME NEW i \in Instance,
             Subscribe(i) \/ Ready(i) \/ Subscribed(i) \/ SubscribeFails(i) \/ LinkDrops(i) \/ Close(i)
      PROVE  StreamsOK'
  <2>1. /\ UNCHANGED <<open, used, present, audience>>
        /\ \/ phase' = phase
           \/ phase[i] = "boot" /\ phase' = [phase EXCEPT ![i] = "subscribing"]
           \/ phase[i] = "subscribing" /\ phase' = [phase EXCEPT ![i] = "serving"]
           \/ phase[i] = "serving" /\ phase' = [phase EXCEPT ![i] = "closing"]
    BY <1>1 DEF Subscribe, Ready, Subscribed, SubscribeFails, LinkDrops, Close, Enter,
                linkRest, historyVars
  <2>2. \A c \in used : HomeOf[c] \in Instance
    BY ConstantsAssumption DEF TypeOK
  <2>3. phase \in [Instance -> {"boot", "subscribing", "serving", "closing", "stopped"}]
    BY DEF TypeOK
  <2>4. \A c \in used : /\ phase'[HomeOf[c]] \in {"serving", "closing", "stopped"}
                        /\ phase[HomeOf[c]] # "stopped" => phase'[HomeOf[c]] # "stopped"
    BY <2>1, <2>2, <2>3 DEF StreamsOK
  <2> QED
    BY <2>1, <2>4 DEF StreamsOK, Message
<1>2. ASSUME NEW i \in Instance, Quit(i)
      PROVE  StreamsOK'
  <2>1. /\ UNCHANGED <<used, present, audience>> /\ open' = {c \in open : HomeOf[c] # i}
        /\ phase' = [phase EXCEPT ![i] = "stopped"] /\ phase[i] = "closing"
    BY <1>2 DEF Quit, Enter, historyVars
  <2> QED
    BY <2>1, ConstantsAssumption DEF StreamsOK, TypeOK, Message
<1>3. ASSUME NEW c \in Stream, Open(c) \/ Leave(c) \/ Joined(c) \/ Left(c)
      PROVE  StreamsOK'
  <2>1. /\ UNCHANGED <<phase, audience>> /\ used \subseteq used'
        /\ \/ phase[HomeOf[c]] = "serving" /\ used' = used \cup {c} /\ open' = open \cup {c}
           \/ used' = used /\ open' \subseteq open
        /\ present' \subseteq present \cup open
    BY <1>3 DEF Open, Leave, Joined, Left, streamRest, busVars
  <2> QED
    BY <2>1 DEF StreamsOK, Message
<1>4. ASSUME UNCHANGED <<phase, used, present>>, open' \subseteq open,
             \A m \in Message : audience'[m] \subseteq audience[m] \cup open
      PROVE  StreamsOK'
  BY <1>4 DEF StreamsOK, Message
<1>5. ASSUME NEW i \in Instance, Dispatch(i)
      PROVE  StreamsOK'
  BY <1>4, <1>5 DEF Dispatch, ApplyRemote, CloseStream
<1>6. ASSUME NEW j \in Job, JobStep(j) \/ PublishFails(j)
      PROVE  StreamsOK'
  <2>1. UNCHANGED <<phase, used, present>>
    BY <1>6 DEF JobStep, Refuse, Emit, KillLocal, KillForbidden, KillElsewhere, NotOwner,
       OwnerConfirmed, LocalAfterAll, AtRedis, Published, PublishFails, jobRest, busVars,
       publishRest, historyVars
  <2>2. open' \subseteq open
    BY <1>6 DEF JobStep, Refuse, Emit, KillLocal, KillForbidden, KillElsewhere, NotOwner,
       OwnerConfirmed, LocalAfterAll, AtRedis, Published, PublishFails, publishRest, CloseStream
  <2>3. \A m \in Message : audience'[m] \subseteq audience[m] \cup open
    <3>1. CASE UNCHANGED audience
      BY <3>1
    <3>2. CASE audience' = [audience EXCEPT ![Current(j)] = open \cap Addressed(j)]
      BY <3>2 DEF TypeOK
    <3> QED
      BY <1>6, <3>1, <3>2 DEF JobStep, Refuse, Emit, KillLocal, KillForbidden, KillElsewhere,
         NotOwner, OwnerConfirmed, LocalAfterAll, AtRedis, Published, PublishFails, publishRest,
         historyVars
  <2> QED
    BY <1>4, <2>1, <2>2, <2>3
<1> QED
  BY <1>1, <1>2, <1>3, <1>5, <1>6 DEF Next

\* While nothing fails, no subscription is lost.
LEMMA HearsStep ==
  ASSUME TypeOK, lost = 0 => Hears, Next, lost' = 0
  PROVE  Hears'
<1>1. lost = 0 /\ ~Outage
  <2>1. lost' = lost \/ lost' = lost + 1
    BY DEF Next, JobStep, Subscribe, Ready, Subscribed, SubscribeFails, LinkDrops, Close, Quit,
       Dispatch, Open, Leave, Joined, Left, streamRest, Refuse, Emit, KillLocal, KillForbidden,
       KillElsewhere, NotOwner, OwnerConfirmed, LocalAfterAll, AtRedis, Published, PublishFails,
       jobRest, Outage
  <2> QED
    BY <2>1 DEF TypeOK, Outage
<1>2. Hears
  BY <1>1
<1>3. CASE UNCHANGED <<phase, handling, link>>
  BY <1>2, <1>3 DEF Hears
<1>4. ASSUME NEW i \in Instance, Subscribe(i) \/ Ready(i) \/ Subscribed(i) \/ Close(i) \/ Quit(i)
      PROVE  Hears'
  <2>1. \A k \in Instance \ {i} : phase'[k] = phase[k] /\ handling'[k] = handling[k] /\ link'[k] = link[k]
    BY <1>4 DEF Subscribe, Ready, Subscribed, Close, Quit, Enter, SetLink, TypeOK
  <2>2. /\ phase'[i] = "boot" => link'[i] = "none"
        /\ phase'[i] = "subscribing" => handling'[i] /\ link'[i] \in {"none", "ready"}
        /\ phase'[i] = "serving" => handling'[i]
        /\ phase'[i] \in {"serving", "closing"} => link'[i] = "up"
    <3>1. /\ phase \in [Instance -> {"boot", "subscribing", "serving", "closing", "stopped"}]
          /\ handling \in [Instance -> BOOLEAN]
          /\ link \in [Instance -> {"none", "ready", "up", "down"}]
      BY DEF TypeOK
    <3>2. CASE Subscribe(i)
      BY <1>2, <3>1, <3>2 DEF Subscribe, Enter, Hears
    <3>3. CASE Ready(i)
      BY <1>2, <3>1, <3>3 DEF Ready, SetLink, Hears
    <3>4. CASE Subscribed(i)
      BY <1>2, <3>1, <3>4 DEF Subscribed, Enter, SetLink, Hears
    <3>5. CASE Close(i)
      BY <1>2, <3>1, <3>5 DEF Close, Enter, Hears
    <3>6. CASE Quit(i)
      BY <3>1, <3>6 DEF Quit, Enter, SetLink
    <3> QED
      BY <1>4, <3>2, <3>3, <3>4, <3>5, <3>6
  <2> QED
    BY <2>1, <2>2, <1>2 DEF Hears
<1> QED
  BY <1>1, <1>3, <1>4 DEF Next, JobStep, SubscribeFails, LinkDrops, Dispatch, Open, Leave, Joined,
     Left, streamRest, busVars, Refuse, Emit, KillLocal, KillForbidden, KillElsewhere, NotOwner,
     OwnerConfirmed, LocalAfterAll, AtRedis, Published, PublishFails, jobRest, publishRest

\* What a stream still has to be sent stays on its way to it.
LEMMA PromisedKept ==
  ASSUME TypeOK, StreamsOK, Promised, UNCHANGED audience,
         \A c \in open' : c \in open \/ c \notin used,
         \A m \in Message : \A c \in audience[m] \cap open \cap open' :
           c \in Addressed(JobOf(m)) /\ Scope[JobOf(m)] # "kill" /\ Coming(m, c) => Coming(m, c)'
  PROVE  Promised'
<1> SUFFICES ASSUME NEW m \in Message, NEW c \in (audience[m] \cap open)'
             PROVE  c \in Addressed(JobOf(m)) /\ Scope[JobOf(m)] # "kill" /\ Coming(m, c)'
  BY DEF Promised, Message, Addressed, JobOf
<1>1. c \in audience[m] \cap open \cap open'
  BY DEF StreamsOK
<1> QED
  BY <1>1 DEF Promised

\* Redis copies a message to every instance a stream can be open on.
LEMMA HomeSubscribed ==
  ASSUME TypeOK, StreamsOK, Hears, NEW c \in open
  PROVE  /\ HomeOf[c] \in Subscribers /\ HomeOf[c] \in Instance
         /\ phase[HomeOf[c]] = "closing" \/ handling[HomeOf[c]]
<1>1. c \in used /\ HomeOf[c] \in Instance
  BY ConstantsAssumption DEF TypeOK, StreamsOK
<1>2. phase[HomeOf[c]] \in {"serving", "closing"}
  BY <1>1 DEF StreamsOK
<1> QED
  BY <1>1, <1>2 DEF Hears, Subscribers

\* What is copied to the connections joins what is there.
LEMMA AtRedisOn ==
  ASSUME TypeOK, NEW j \in Job, AtRedis(j), NEW i \in Instance
  PROVE  /\ i \in Subscribers => On(Current(j), i)'
         /\ \A m \in Message : On(m, i) => On(m, i)'
<1>1. channel[i] \in Seq(Message) /\ Current(j) \in Message
  BY CurrentShape DEF TypeOK
<1>2. channel'[i] = IF i \in Subscribers THEN Append(channel[i], Current(j)) ELSE channel[i]
  BY DEF AtRedis
<1>3. CASE i \in Subscribers
  <2>1. /\ Len(channel[i]) + 1 \in DOMAIN channel'[i]
        /\ channel'[i][Len(channel[i]) + 1] = Current(j)
    BY <1>1, <1>2, <1>3
  <2>2. \A k \in DOMAIN channel[i] : k \in DOMAIN channel'[i] /\ channel'[i][k] = channel[i][k]
    BY <1>1, <1>2, <1>3
  <2>3. step' = step
    BY DEF AtRedis
  <2> QED
    BY <1>3, <2>1, <2>2, <2>3 DEF On, Current
<1>4. CASE i \notin Subscribers
  BY <1>2, <1>4 DEF On
<1> QED
  BY <1>3, <1>4

\* A message leaves a connection only by being handled.
LEMMA DispatchOn ==
  ASSUME TypeOK, NEW i \in Instance, Dispatch(i), NEW m \in Message, NEW k \in Instance, On(m, k)
  PROVE  On(m, k)' \/ (k = i /\ m = Head(channel[i]))
<1>1. /\ channel[i] \in Seq(Message) /\ channel[i] # <<>>
      /\ channel' = [channel EXCEPT ![i] = Tail(@)] /\ channel \in [Instance -> Seq(Message)]
  BY DEF TypeOK, Dispatch
<1>2. CASE k # i
  BY <1>1, <1>2 DEF On
<1>3. CASE k = i
  <2>1. PICK x \in DOMAIN channel[i] : channel[i][x] = m
    BY <1>3 DEF On
  <2>2. CASE x = 1
    BY <1>1, <1>3, <2>1, <2>2
  <2>3. CASE x # 1
    <3>1. x - 1 \in DOMAIN Tail(channel[i]) /\ Tail(channel[i])[x - 1] = m
      BY <1>1, <2>1, <2>3
    <3> QED
      BY <1>1, <1>3, <3>1 DEF On
  <2> QED
    BY <2>2, <2>3
<1> QED
  BY <1>2, <1>3

LEMMA DispatchPromised ==
  ASSUME TypeOK, StreamsOK, Hears, Promised, NEW i \in Instance, Dispatch(i)
  PROVE  Promised'
<1> DEFINE first == Head(channel[i])
<1>1. UNCHANGED <<audience, phase, pc, step>> /\ open' \subseteq open
  BY DEF Dispatch, ApplyRemote, CloseStream, jobVars
<1>2. ASSUME NEW m \in Message, NEW c \in audience[m] \cap open \cap open',
             c \in Addressed(JobOf(m)), Scope[JobOf(m)] # "kill", Coming(m, c)
      PROVE  Coming(m, c)'
  <2>1. c \in Stream /\ HomeOf[c] \in Instance /\ got[c] \in Seq(Message)
    BY ConstantsAssumption DEF TypeOK
  <2>2. CASE m \in Heard(c)
    <3>1. got'[c] = got[c] \/ got'[c] = Append(got[c], first)
      BY <2>1 DEF Dispatch, ApplyRemote, Deliver
    <3>2. (m \in Heard(c))'
      BY <2>1, <2>2, <3>1 DEF Heard
    <3> QED
      BY <3>2 DEF Coming
  <2>3. CASE phase[HomeOf[c]] = "closing"
    BY <1>1, <2>3 DEF Coming
  <2>4. CASE Away(m, c) /\ pc[JobOf(m)] = "publish" /\ step[JobOf(m)] = m[2]
    BY <1>1, <2>4 DEF Coming, Away, Origin, JobOf
  <2>5. CASE Away(m, c) /\ On(m, HomeOf[c]) /\ phase[HomeOf[c]] # "closing"
    <3>1. CASE On(m, HomeOf[c])'
      BY <2>5, <3>1 DEF Coming, Away, Origin, JobOf
    <3>2. CASE HomeOf[c] = i /\ m = first
      <4>1. Accepts(i, first)
        BY <2>5, <3>2, HomeSubscribed DEF Accepts, Away
      <4>2. Deliver(i, first)
        BY <1>2, <3>2, <4>1 DEF Dispatch, ApplyRemote
      <4>3. got'[c] = Append(got[c], m)
        BY <1>2, <2>1, <3>2, <4>2 DEF Deliver, Local
      <4>4. (m \in Heard(c))'
        BY <2>1, <4>3 DEF Heard
      <4> QED
        BY <4>4 DEF Coming
    <3> QED
      BY <2>1, <2>5, <3>1, <3>2, DispatchOn
  <2> QED
    BY <1>2, <2>2, <2>3, <2>4, <2>5 DEF Coming
<1> QED
  BY <1>1, <1>2, PromisedKept

LEMMA EmitPromised ==
  ASSUME TypeOK, StreamsOK, Promised, NEW j \in Job, Emit(j)
  PROVE  Promised'
<1>1. /\ UNCHANGED <<phase, channel, step, open>> /\ pc' = [pc EXCEPT ![j] = "publish"]
      /\ pc[j] # "publish" /\ Scope[j] # "kill"
      /\ got' = [c \in Stream |-> IF c \in Local(JobAt[j]) \cap Addressed(j)
                                  THEN Append(got[c], Current(j)) ELSE got[c]]
      /\ audience' = [audience EXCEPT ![Current(j)] = open \cap Addressed(j)]
  BY CurrentShape DEF Emit, SetJob, jobRest, busVars, Deliver
<1>2. pc'[j] = "publish" /\ \A k \in Job : pc[k] = "publish" => pc'[k] = "publish"
  BY <1>1 DEF TypeOK
<1>3. ASSUME NEW m \in Message, NEW c \in Stream, Coming(m, c) PROVE Coming(m, c)'
  <2>1. m \in Heard(c) => (m \in Heard(c))'
    <3>1. got[c] \in Seq(Message) /\ (got'[c] = got[c] \/ got'[c] = Append(got[c], Current(j)))
      BY <1>1 DEF TypeOK
    <3> QED
      BY <3>1 DEF Heard
  <2>2. On(m, HomeOf[c]) => On(m, HomeOf[c])'
    BY <1>1 DEF On
  <2>3. JobOf(m) \in Job
    BY MessageShape
  <2> QED
    BY <1>1, <1>2, <1>3, <2>1, <2>2, <2>3 DEF Coming, Away, Origin, JobOf
<1>4. ASSUME NEW c \in open \cap Addressed(j) PROVE Coming(Current(j), c)'
  <2> DEFINE m == Current(j)
  <2>1. c \in Stream /\ got[c] \in Seq(Message)
    BY DEF TypeOK
  <2>2. m \in Message /\ JobOf(m) = j /\ m[2] = step[j] /\ Origin(m) = JobAt[j] /\ m = <<j, step[j]>>
    BY CurrentShape DEF Current
  <2> HIDE DEF m
  <2>3. m' = m
    BY <1>1 DEF m, Current
  <2>4. CASE HomeOf[c] = JobAt[j]
    <3>1. got'[c] = Append(got[c], m)
      BY <1>1, <1>4, <2>1, <2>4 DEF Local, m
    <3>2. m \in {got'[c][k] : k \in DOMAIN got'[c]}
      BY <2>1, <3>1
    <3> QED
      BY <2>3, <3>2 DEF Coming, Heard, m
  <2>5. CASE HomeOf[c] # JobAt[j]
    BY <1>1, <1>2, <2>2, <2>3, <2>5 DEF Coming, Away, Origin, JobOf, m
  <2> QED
    BY <2>4, <2>5
<1> SUFFICES ASSUME NEW m \in Message, NEW c \in (audience[m] \cap open)'
             PROVE  c \in Addressed(JobOf(m)) /\ Scope[JobOf(m)] # "kill" /\ Coming(m, c)'
  BY DEF Promised, Message, Addressed, JobOf
<1>5. CASE m = Current(j)
  <2>1. c \in open \cap Addressed(j) /\ JobOf(m) = j
    BY <1>1, <1>5, CurrentShape DEF TypeOK
  <2>2. Current(j)' = m
    BY <1>1, <1>5 DEF Current
  <2> QED
    BY <1>1, <1>4, <1>5, <2>1, <2>2
<1>6. CASE m # Current(j)
  <2>1. c \in audience[m] \cap open /\ c \in Stream
    BY <1>1, <1>6 DEF TypeOK
  <2> QED
    BY <1>3, <2>1 DEF Promised
<1> QED
  BY <1>5, <1>6

LEMMA PromisedStep ==
  ASSUME OInv, StreamsOK, Hears, Promised, Next, lost' = lost
  PROVE  Promised'
<1> USE DEF OInv
<1>1. ~Outage
  BY DEF Outage, TypeOK
<1>2. ASSUME NEW i \in Instance, Subscribe(i) \/ Ready(i) \/ Subscribed(i) \/ Close(i) \/ Quit(i)
      PROVE  Promised'
  <2>1. /\ UNCHANGED <<got, pc, step, audience>>
        /\ \A k \in Instance : phase[k] = "closing" /\ k # i => phase'[k] = "closing"
        /\ \A k \in Instance \ {i} : channel'[k] = channel[k]
        /\ \/ Quit(i) /\ open' = {c \in open : HomeOf[c] # i}
           \/ /\ open' = open /\ channel' = channel
              /\ phase[i] = "closing" => phase'[i] = "closing"
    BY <1>2 DEF Subscribe, Ready, Subscribed, Close, Quit, Enter, Drain, linkRest, jobVars,
                historyVars, TypeOK
  <2>2. ASSUME NEW m \in Message, NEW c \in audience[m] \cap open \cap open', Coming(m, c)
        PROVE  Coming(m, c)'
    <3>1. HomeOf[c] \in Instance
      BY ConstantsAssumption DEF TypeOK
    <3>2. /\ phase[HomeOf[c]] = "closing" => phase'[HomeOf[c]] = "closing"
          /\ channel'[HomeOf[c]] = channel[HomeOf[c]]
      BY <2>1, <3>1
    <3> QED
      BY <2>1, <2>2, <3>2 DEF Coming, Heard, On, Away, Origin, JobOf
  <2> QED
    BY <2>1, <2>2, PromisedKept
<1>3. ASSUME NEW c \in Stream, Open(c) \/ Leave(c) \/ Joined(c) \/ Left(c)
      PROVE  Promised'
  <2>1. /\ UNCHANGED <<phase, channel, got, pc, step, audience>>
        /\ \A d \in open' : d \in open \/ d \notin used
    BY <1>3 DEF Open, Leave, Joined, Left, streamRest, busVars, jobVars
  <2>2. \A m \in Message, d \in Stream : Coming(m, d) => Coming(m, d)'
    BY <2>1 DEF Coming, Heard, On, Away, Origin, JobOf
  <2> QED
    BY <2>1, <2>2, PromisedKept DEF TypeOK
<1>4. ASSUME NEW j \in Job,
             \/ Refuse(j) \/ KillLocal(j) \/ KillForbidden(j) \/ KillElsewhere(j)
             \/ NotOwner(j) \/ OwnerConfirmed(j) \/ LocalAfterAll(j) \/ Published(j)
      PROVE  Promised'
  <2>1. /\ UNCHANGED <<phase, channel, got, audience>> /\ open' \subseteq open
        /\ pc[j] # "publish"
        /\ \A k \in Job \ {j} : pc'[k] = pc[k] /\ step'[k] = step[k]
    BY <1>4 DEF Refuse, KillLocal, KillForbidden, KillElsewhere, NotOwner, OwnerConfirmed,
                LocalAfterAll, Published, AfterPublish, Advance, SetJob, CloseStream, jobRest,
                busVars, publishRest, historyVars, TypeOK
  <2>2. ASSUME NEW m \in Message, NEW c \in Stream, Coming(m, c) PROVE Coming(m, c)'
    <3>1. JobOf(m) \in Job
      BY MessageShape
    <3> QED
      BY <2>1, <2>2, <3>1 DEF Coming, Heard, On, Away, Origin, JobOf
  <2> QED
    BY <2>1, <2>2, PromisedKept DEF TypeOK
<1>5. ASSUME NEW j \in Job, AtRedis(j)
      PROVE  Promised'
  <2>1. /\ UNCHANGED <<phase, got, step, audience, open>>
        /\ \A k \in Job \ {j} : pc'[k] = pc[k]
    BY <1>5 DEF AtRedis, SetJob, TypeOK
  <2>2. ASSUME NEW m \in Message, NEW c \in audience[m] \cap open \cap open', Coming(m, c)
        PROVE  Coming(m, c)'
    <3>1. HomeOf[c] \in Subscribers /\ HomeOf[c] \in Instance
      BY HomeSubscribed
    <3>2. /\ On(Current(j), HomeOf[c])' /\ Current(j)' = Current(j)
          /\ On(m, HomeOf[c]) => On(m, HomeOf[c])'
      BY <1>5, <2>1, <3>1, AtRedisOn DEF Current
    <3>3. m = <<JobOf(m), m[2]>> /\ JobOf(m) \in Job
      BY MessageShape
    <3>4. CASE JobOf(m) = j /\ step[j] = m[2]
      <4>1. m = Current(j)
        BY <3>3, <3>4 DEF Current
      <4>2. On(m, HomeOf[c])'
        BY <3>2, <4>1
      <4> QED
        BY <2>1, <2>2, <4>2 DEF Coming, Heard, Away, Origin, JobOf
    <3>5. CASE JobOf(m) # j \/ step[j] # m[2]
      BY <2>1, <2>2, <3>2, <3>3, <3>5 DEF Coming, Heard, Away, Origin, JobOf
    <3> QED
      BY <3>4, <3>5
  <2> QED
    BY <2>1, <2>2, PromisedKept
<1> QED
  BY <1>1, <1>2, <1>3, <1>4, <1>5, NextActions, EmitPromised, DispatchPromised
     DEF SubscribeFails, LinkDrops, PublishFails

-----------------------------------------------------------------------------
(* The kill switch.                                                        *)

LEMMA KillShape ==
  ASSUME TypeOK, NEW j \in Job, Scope[j] = "kill"
  PROVE  /\ Target[j] \in Stream /\ HomeOf[Target[j]] \in Instance
         /\ <<j, 1>> \in Message /\ Current(j) = <<j, 1>> /\ Origin(<<j, 1>>) = JobAt[j]
         /\ JobOf(<<j, 1>>) = j
<1>1. Target[j] \in Stream /\ Steps[j] = 1 /\ HomeOf \in [Stream -> Instance]
  BY ConstantsAssumption
<1>2. step[j] = 1
  BY <1>1 DEF TypeOK
<1> QED
  BY <1>1, <1>2, CurrentShape DEF Current, JobOf, Origin

\* A closed stream never opens again, so a stream once doomed stays so.
LEMMA CondemnedKept ==
  ASSUME Condemned,
         \A c \in used : c \in used' /\ (c \in open' => c \in open),
         \A j \in Job : Scope[j] = "kill" /\ Target[j] \in used /\ Doomed(j) => Doomed(j)',
         \A j \in Job : Killed(j)' => \/ Killed(j)
                                      \/ Scope[j] = "kill" /\ Target[j] \in used' /\ Doomed(j)',
         \A j \in Job : Scope[j] = "kill" /\ pc'[j] = "publish" =>
                          \/ pc[j] = "publish"
                          \/ /\ Target[j] \in used'
                             /\ Target[j] \in open' => HomeOf[Target[j]] # JobAt[j]
  PROVE  Condemned'
<1>1. ASSUME NEW j \in Job, Killed(j)'
      PROVE  Scope[j] = "kill" /\ Target[j] \in used' /\ Doomed(j)'
  BY <1>1 DEF Condemned
<1>2. ASSUME NEW j \in Job, Scope[j] = "kill", pc'[j] = "publish"
      PROVE  Target[j] \in used' /\ (Target[j] \in open' => HomeOf[Target[j]] # JobAt[j])
  BY <1>2 DEF Condemned
<1> QED
  BY <1>1, <1>2 DEF Condemned

LEMMA CondemnedStep ==
  ASSUME IInv, OInv, StreamsOK, Hears, Condemned, Next, lost' = lost
  PROVE  Condemned'
<1> USE DEF OInv
<1>1. ~Outage
  BY DEF Outage, TypeOK
<1>2. ASSUME NEW i \in Instance, Subscribe(i) \/ Ready(i) \/ Subscribed(i) \/ Close(i) \/ Quit(i)
      PROVE  Condemned'
  <2>1. /\ UNCHANGED <<pc, answer, used>>
        /\ \A k \in Instance : phase[k] = "closing" /\ k # i => phase'[k] = "closing"
        /\ \A k \in Instance \ {i} : channel'[k] = channel[k]
        /\ \/ Quit(i) /\ open' = {c \in open : HomeOf[c] # i}
           \/ /\ open' = open /\ channel' = channel
              /\ phase[i] = "closing" => phase'[i] = "closing"
    BY <1>2 DEF Subscribe, Ready, Subscribed, Close, Quit, Enter, Drain, linkRest, jobVars,
                historyVars, TypeOK
  <2>2. ASSUME NEW j \in Job, Scope[j] = "kill", Doomed(j) PROVE Doomed(j)'
    <3>1. HomeOf[Target[j]] \in Instance
      BY <2>2, KillShape
    <3>2. \/ Target[j] \notin open'
          \/ /\ phase[HomeOf[Target[j]]] = "closing" => phase'[HomeOf[Target[j]]] = "closing"
             /\ channel'[HomeOf[Target[j]]] = channel[HomeOf[Target[j]]]
      BY <2>1, <3>1
    <3> QED
      BY <2>1, <2>2, <3>2 DEF Doomed, On, Away, Origin, JobOf
  <2>3. \A j \in Job : Killed(j)' => Killed(j)
    BY <2>1 DEF Killed
  <2>4. \A c \in used : c \in used' /\ (c \in open' => c \in open)
    BY <2>1
  <2> QED
    BY <2>1, <2>2, <2>3, <2>4, CondemnedKept
<1>3. ASSUME NEW c \in Stream, Open(c) \/ Leave(c) \/ Joined(c) \/ Left(c)
      PROVE  Condemned'
  <2>1. /\ UNCHANGED <<phase, channel, pc, answer>>
        /\ \A d \in used : d \in used' /\ (d \in open' => d \in open)
    BY <1>3 DEF Open, Leave, Joined, Left, streamRest, busVars, jobVars
  <2>2. \A j \in Job : Scope[j] = "kill" /\ Target[j] \in used /\ Doomed(j) => Doomed(j)'
    BY <2>1 DEF Doomed, On, Away, Origin, JobOf
  <2>3. \A j \in Job : Killed(j)' => Killed(j)
    BY <2>1 DEF Killed
  <2> QED
    BY <2>1, <2>2, <2>3, CondemnedKept
<1>4. ASSUME UNCHANGED <<phase, used>>, open' \subseteq open,
             \A k \in Instance, m \in Message : On(m, k) => On(m, k)'
      PROVE  \A j \in Job : Scope[j] = "kill" /\ Doomed(j) => Doomed(j)'
  <2> SUFFICES ASSUME NEW j \in Job, Scope[j] = "kill", Doomed(j) PROVE Doomed(j)'
    OBVIOUS
  <2>1. On(<<j, 1>>, HomeOf[Target[j]]) => On(<<j, 1>>, HomeOf[Target[j]])'
    BY <1>4, KillShape
  <2> QED
    BY <1>4, <2>1 DEF Doomed, Away, Origin, JobOf
\* What a request does without a message.
<1>5. ASSUME NEW j \in Job,
             \/ Refuse(j) \/ Emit(j) \/ KillLocal(j) \/ KillForbidden(j) \/ KillElsewhere(j)
             \/ NotOwner(j) \/ OwnerConfirmed(j) \/ LocalAfterAll(j) \/ Published(j)
      PROVE  Condemned'
  <2>1. /\ UNCHANGED <<phase, used, channel>> /\ open' \subseteq open
        /\ \A k \in Job \ {j} : pc'[k] = pc[k] /\ answer'[k] = answer[k]
    BY <1>5 DEF Refuse, Emit, KillLocal, KillForbidden, KillElsewhere, NotOwner, OwnerConfirmed,
                LocalAfterAll, Published, AfterPublish, Advance, SetJob, Answer, CloseStream,
                jobRest, busVars, publishRest, historyVars, TypeOK
  <2>2. \A k \in Job : Scope[k] = "kill" /\ Doomed(k) => Doomed(k)'
    BY <1>4, <2>1 DEF On
  <2>3. Killed(j)' => \/ Killed(j)
                      \/ Scope[j] = "kill" /\ Target[j] \in used' /\ Doomed(j)'
    <3>1. CASE KillLocal(j) \/ LocalAfterAll(j)
      <4>1. CloseStream(JobAt[j], Current(j)) /\ Target[j] \in Local(JobAt[j]) /\ JobOf(Current(j)) = j
        BY <3>1, CurrentShape DEF KillLocal, LocalAfterAll
      <4>2. Target[j] \in open /\ Target[j] \notin open'
        BY <4>1 DEF CloseStream, Local
      <4>3. Scope[j] = "kill"
        BY <3>1 DEF KillLocal, LocalAfterAll, IInv, BusApproved
      <4> QED
        BY <2>1, <4>2, <4>3 DEF Doomed, StreamsOK
    <3>2. CASE Published(j)
      BY <3>2 DEF Published, AfterPublish, SetJob, Answer, Killed, TypeOK
    <3>3. CASE Refuse(j) \/ Emit(j) \/ KillForbidden(j) \/ KillElsewhere(j) \/ NotOwner(j) \/ OwnerConfirmed(j)
      BY <3>3 DEF Refuse, Emit, KillForbidden, KillElsewhere, NotOwner, OwnerConfirmed, SetJob,
                  Answer, Killed, TypeOK
    <3> QED
      BY <1>5, <3>1, <3>2, <3>3
  <2>4. Scope[j] = "kill" /\ pc'[j] = "publish" =>
          \/ pc[j] = "publish"
          \/ Target[j] \in used' /\ (Target[j] \in open' => HomeOf[Target[j]] # JobAt[j])
    <3>1. CASE OwnerConfirmed(j)
      BY <2>1, <3>1 DEF OwnerConfirmed, isConnectionOwnedByUser, StreamsOK, Local
    <3>2. CASE ~OwnerConfirmed(j) /\ Scope[j] = "kill"
      BY <1>5, <3>2 DEF Refuse, Emit, KillLocal, KillForbidden, KillElsewhere, NotOwner,
         LocalAfterAll, Published, AfterPublish, SetJob, TypeOK
    <3> QED
      BY <3>1, <3>2
  <2>5. /\ \A k \in Job \ {j} : Killed(k)' => Killed(k)
        /\ \A c \in used : c \in used' /\ (c \in open' => c \in open)
    BY <2>1 DEF Killed
  <2> QED
    BY <2>1, <2>2, <2>3, <2>4, <2>5, CondemnedKept
<1>6. ASSUME NEW j \in Job, AtRedis(j)
      PROVE  Condemned'
  <2>1. /\ UNCHANGED <<phase, used, open, answer>> /\ pc[j] = "publish"
        /\ pc' = [pc EXCEPT ![j] = "reply"]
    <3>1. wire[JobAt[j]] \in Seq(Job) /\ JobAt[j] \in Instance
      BY ConstantsAssumption DEF TypeOK
    <3>2. 1 \in DOMAIN wire[JobAt[j]] /\ wire[JobAt[j]][1] = j
      BY <1>6, <3>1, TailAt DEF AtRedis
    <3> QED
      BY <1>6, <3>1, <3>2 DEF AtRedis, SetJob, PipelineOK
  <2>2. \A k \in Job : Scope[k] = "kill" /\ Doomed(k) => Doomed(k)'
    BY <1>4, <1>6, <2>1, AtRedisOn
  <2>3. Scope[j] = "kill" => Target[j] \in used' /\ Doomed(j)'
    <3> SUFFICES ASSUME Scope[j] = "kill", Target[j] \in open PROVE Target[j] \in used' /\ Doomed(j)'
      BY <2>1 DEF Condemned, Doomed
    <3>1. HomeOf[Target[j]] # JobAt[j] /\ Target[j] \in used
      BY <2>1 DEF Condemned
    <3>2. On(<<j, 1>>, HomeOf[Target[j]])'
      <4>1. Current(j) = <<j, 1>> /\ Current(j)' = Current(j)
        BY <1>6, KillShape DEF AtRedis, Current
      <4> QED
        BY <1>6, <4>1, HomeSubscribed, AtRedisOn
    <3> QED
      BY <2>1, <3>1, <3>2, KillShape DEF Doomed, Away, Origin, JobOf
  <2>4. \A k \in Job : /\ Killed(k)' => Killed(k) \/ (k = j /\ Scope[j] = "kill")
                       /\ pc'[k] = "publish" => pc[k] = "publish"
    BY <2>1 DEF Killed, TypeOK
  <2>5. \A c \in used : c \in used' /\ (c \in open' => c \in open)
    BY <2>1
  <2> QED
    BY <2>2, <2>3, <2>4, <2>5, CondemnedKept
<1>7. ASSUME NEW i \in Instance, Dispatch(i)
      PROVE  Condemned'
  <2> DEFINE first == Head(channel[i])
  <2>1. UNCHANGED <<phase, used, answer, pc>> /\ open' \subseteq open
    BY <1>7 DEF Dispatch, ApplyRemote, CloseStream, jobVars
  <2>2. ASSUME NEW j \in Job, Scope[j] = "kill", Doomed(j) PROVE Doomed(j)'
    <3> DEFINE c == Target[j]  home == HomeOf[Target[j]]
    <3>1. c \in Stream /\ home \in Instance /\ <<j, 1>> \in Message /\ JobOf(<<j, 1>>) = j
      BY <2>2, KillShape
    <3>2. CASE c \notin open \/ phase[home] = "closing" \/ On(<<j, 1>>, home)'
      BY <2>1, <2>2, <3>2 DEF Doomed, Away, Origin, JobOf
    <3>3. CASE c \in open /\ phase[home] # "closing" /\ home = i /\ <<j, 1>> = first
      <4>1. Accepts(i, first)
        BY <2>2, <3>3, HomeSubscribed DEF Accepts, Doomed, Away
      <4>2. CloseStream(i, first)
        BY <1>7, <2>2, <3>1, <3>3, <4>1 DEF Dispatch, ApplyRemote
      <4>3. c \notin open'
        BY <3>1, <3>3, <4>2 DEF CloseStream, Local
      <4> QED
        BY <4>3 DEF Doomed
    <3> QED
      BY <1>7, <2>2, <3>1, <3>2, <3>3, DispatchOn DEF Doomed
  <2>3. /\ \A k \in Job : Killed(k)' => Killed(k)
        /\ \A c \in used : c \in used' /\ (c \in open' => c \in open)
    BY <2>1 DEF Killed
  <2> QED
    BY <2>1, <2>2, <2>3, CondemnedKept
<1> QED
  BY <1>1, <1>2, <1>3, <1>5, <1>6, <1>7, NextActions DEF SubscribeFails, LinkDrops, PublishFails

-----------------------------------------------------------------------------
LEMMA DeliveryInit == Init => DInv
<1> SUFFICES ASSUME Init PROVE DInv
  OBVIOUS
<1>1. StreamsOK /\ Hears /\ Promised
  BY DEF Init, StreamsOK, Hears, Promised
<1>2. Condemned
  BY DEF Init, Condemned, Killed
<1> QED
  BY <1>1, <1>2, OrderInit DEF DInv

LEMMA DeliveryStep == IInv /\ DInv /\ [Next]_vars => DInv'
<1> SUFFICES ASSUME IInv, DInv, [Next]_vars PROVE DInv'
  OBVIOUS
<1>1. OInv' /\ TypeOK /\ TypeOK'
  BY OrderStep DEF DInv, OInv
<1>2. CASE UNCHANGED vars
  <2>1. StreamsOK' /\ (Hears => Hears')
    BY <1>2 DEF vars, busVars, historyVars, DInv, StreamsOK, Hears, Message
  <2>2. Promised => Promised'
    <3>1. UNCHANGED <<audience, open, got, phase, channel, pc, step>>
      BY <1>2 DEF vars, busVars, jobVars, historyVars
    <3>2. ASSUME NEW m \in Message, NEW c \in Stream, Coming(m, c) PROVE Coming(m, c)'
      BY <3>1, <3>2 DEF Coming, Heard, On, Away, Origin, JobOf
    <3> QED
      BY <1>1, <3>1, <3>2, PromisedKept DEF DInv, TypeOK
  <2>3. Condemned => Condemned'
    BY <1>2 DEF vars, busVars, jobVars, historyVars, Condemned, Killed, Doomed, On, Away, Origin,
                JobOf
  <2>4. lost' = lost
    BY <1>2 DEF vars
  <2> QED
    BY <1>1, <2>1, <2>2, <2>3, <2>4 DEF DInv
<1>3. CASE Next
  <2>1. StreamsOK'
    BY <1>1, <1>3, StreamsStep DEF DInv
  <2>2. ASSUME lost' = 0 PROVE Hears' /\ Promised' /\ Condemned'
    <3>1. lost' = lost \/ lost' = lost + 1
      BY <1>3 DEF Next, JobStep, Subscribe, Ready, Subscribed, SubscribeFails, LinkDrops, Close,
         Quit, Dispatch, Open, Leave, Joined, Left, streamRest, Refuse, Emit, KillLocal,
         KillForbidden, KillElsewhere, NotOwner, OwnerConfirmed, LocalAfterAll, AtRedis,
         Published, PublishFails, jobRest, Outage
    <3>2. lost' = lost /\ lost = 0
      BY <1>1, <2>2, <3>1 DEF TypeOK
    <3> QED
      BY <1>1, <1>3, <2>2, <3>2, HearsStep, PromisedStep, CondemnedStep DEF DInv
  <2> QED
    BY <1>1, <2>1, <2>2 DEF DInv
<1> QED
  BY <1>2, <1>3

\* Whatever is still owed to a stream is on its way to it.
THEOREM DeliveryInvariance == Spec => []DInv
BY InitIInv, StepIInv, DeliveryInit, DeliveryStep, PTL DEF Spec

\* EmitService and PubSubModule: while Redis takes every publish and keeps every
\* subscription, an event has reached every stream it is for that is still
\* open, on its own instance and on all others, once the cluster is quiet.
THEOREM EventsReachAll == Spec => []EveryoneHears
<1>1. DInv => EveryoneHears
  <2> SUFFICES ASSUME DInv, lost = 0, Quiet, NEW m \in Message, NEW c \in audience[m] \cap open
               PROVE  m \in Heard(c)
    BY DEF EveryoneHears
  <2>1. Coming(m, c)
    BY DEF DInv, Promised
  <2>2. HomeOf[c] \in Instance /\ JobOf(m) \in Job
    BY ConstantsAssumption, MessageShape DEF DInv, OInv, TypeOK
  <2>3. phase[HomeOf[c]] # "closing" /\ pc[JobOf(m)] # "publish" /\ channel[HomeOf[c]] = <<>>
    BY <2>2 DEF Quiet
  <2>4. ~On(m, HomeOf[c])
    BY <2>3 DEF On
  <2> QED
    BY <2>1, <2>3, <2>4 DEF Coming
<1> QED
  BY <1>1, DeliveryInvariance, PTL

\* ConnectionsService.disconnectOwned: a stream the kill switch reports
\* disconnected is closed wherever it lives, unless a publish or a
\* subscription failed: also when it moved between the checks, and when its
\* instance shuts down meanwhile.
THEOREM KillsTakeEffect == Spec => []KillTakes
<1>1. DInv => KillTakes
  <2> SUFFICES ASSUME DInv, lost = 0, Quiet, NEW j \in Job, answer[j] = "disconnected"
               PROVE  Target[j] \notin open
    BY DEF KillTakes
  <2>1. Scope[j] = "kill" /\ Doomed(j)
    BY DEF DInv, Condemned, Killed
  <2>2. HomeOf[Target[j]] \in Instance
    BY <2>1, KillShape DEF DInv, OInv
  <2>3. phase[HomeOf[Target[j]]] # "closing" /\ ~On(<<j, 1>>, HomeOf[Target[j]])
    BY <2>2 DEF Quiet, On
  <2> QED
    BY <2>1, <2>3 DEF Doomed
<1> QED
  BY <1>1, DeliveryInvariance, PTL

-----------------------------------------------------------------------------
(* The counters.                                                           *)

\* Requests whose publish Redis has taken and whose reply is on its way, and
\* the messages of its peers that are on an instance's connection.
Replying(i) == {j \in Job : JobAt[j] = i /\ pc[j] = "reply"}
Arriving(i) == {m \in Message : On(m, i) /\ Origin(m) # i}

\* The events of an instance whose publish was answered.
Emitted(i) == {m \in Message : /\ Origin(m) = i
                               /\ m[2] < step[JobOf(m)] \/ answer[JobOf(m)] = "accepted"}

\* An answer is given once, at the end.
AnswerOK ==
  \A j \in Job :
    /\ pc[j] \in {"idle", "owner"} => step[j] = 1
    /\ answer[j] = "accepted" => pc[j] = "done" /\ step[j] = Steps[j]
    /\ pc[j] = "done" => answer[j] = "accepted" \/ step[j] = 1

PublishedOK ==
  \A i \in Instance :
    /\ IsFiniteSet(Replying(i))
    /\ published[i] + Cardinality(Replying(i)) <= accepted[i]
    /\ lost = 0 => published[i] + Cardinality(Replying(i)) = accepted[i]

RemoteAt(i) ==
  /\ IsFiniteSet(Arriving(i)) /\ IsFiniteSet(Ticks(accepted, Instance \ {i}))
  /\ receivedRemote[i] + Cardinality(Arriving(i)) <= Others(accepted, i)
  /\ lost = 0 =>
       /\ phase[i] \in {"boot", "subscribing"} => channel[i] = <<>>
       /\ whole /\ phase[i] \in {"boot", "subscribing", "serving"}
            => receivedRemote[i] + Cardinality(Arriving(i)) = Others(accepted, i)

RemoteOK == \A i \in Instance : RemoteAt(i)

NoKills == \A j \in Job : Scope[j] # "kill"

EmittedOK ==
  lost = 0 /\ NoKills =>
    \A i \in Instance : IsFiniteSet(Emitted(i)) /\ published[i] = Cardinality(Emitted(i))

CInv == AnswerOK /\ PublishedOK /\ RemoteOK /\ EmittedOK

-----------------------------------------------------------------------------
LEMMA TicksSame ==
  ASSUME NEW S, NEW f, NEW g, \A x \in S : f[x] = g[x]
  PROVE  Ticks(f, S) = Ticks(g, S) /\ Tally(f, S) = Tally(g, S)
<1>1. {{x} \X (1..f[x]) : x \in S} = {{x} \X (1..g[x]) : x \in S}
  OBVIOUS
<1> QED BY <1>1 DEF Ticks, Tally

LEMMA TicksAdd ==
  ASSUME NEW I, NEW S \in SUBSET I, NEW f \in [I -> Nat], NEW a \in S, IsFiniteSet(Ticks(f, S)),
         NEW g, g = [f EXCEPT ![a] = @ + 1]
  PROVE  IsFiniteSet(Ticks(g, S)) /\ Tally(g, S) = Tally(f, S) + 1 /\ Tally(f, S) \in Nat
<1> DEFINE one == <<a, f[a] + 1>>
<1>1. f[a] \in Nat /\ g[a] = f[a] + 1 /\ \A x \in S : x # a => g[x] = f[x]
  OBVIOUS
<1>2. \A h, t : t \in Ticks(h, S) <=> \E x \in S : t \in {x} \X (1..h[x])
  BY DEF Ticks
<1>3. \A h, x, n : <<x, n>> \in Ticks(h, S) <=> x \in S /\ n \in 1..h[x]
  BY <1>2
<1>4. one \notin Ticks(f, S)
  BY <1>1, <1>3
<1>5. Ticks(g, S) = Ticks(f, S) \cup {one}
  <2>1. ASSUME NEW t \in Ticks(g, S) PROVE t \in Ticks(f, S) \cup {one}
    <3>1. PICK x \in S : t \in {x} \X (1..g[x])
      BY <1>2, <2>1
    <3>2. PICK n \in 1..g[x] : t = <<x, n>>
      BY <3>1
    <3>3. CASE x # a
      BY <1>1, <1>3, <3>2, <3>3
    <3>4. CASE x = a
      <4>1. n \in 1..f[a] \/ n = f[a] + 1
        BY <1>1, <3>2, <3>4
      <4> QED BY <1>3, <3>2, <3>4, <4>1
    <3> QED BY <3>3, <3>4
  <2>2. ASSUME NEW t \in Ticks(f, S) PROVE t \in Ticks(g, S)
    <3>1. PICK x \in S : t \in {x} \X (1..f[x])
      BY <1>2, <2>2
    <3>2. PICK n \in 1..f[x] : t = <<x, n>>
      BY <3>1
    <3>3. n \in 1..g[x]
      BY <1>1, <3>2
    <3> QED BY <1>3, <3>2, <3>3
  <2>3. one \in Ticks(g, S)
    <3>1. f[a] + 1 \in 1..g[a]
      BY <1>1
    <3> QED BY <1>3, <3>1
  <2> QED BY <2>1, <2>2, <2>3
<1>6. PICK T, U, x : T = Ticks(f, S) /\ U = Ticks(g, S) /\ x = one
  OBVIOUS
<1>7. IsFiniteSet(T) /\ U = T \cup {x} /\ x \notin T
  BY <1>4, <1>5, <1>6
<1>8. IsFiniteSet(U) /\ Cardinality(U) = Cardinality(T) + 1
  BY <1>7, FS_AddElement
<1>9. Cardinality(T) \in Nat
  BY <1>7, FS_CardinalityType
<1> QED BY <1>6, <1>8, <1>9 DEF Tally

LEMMA CountersInit == Init => CInv
<1> SUFFICES ASSUME Init PROVE CInv
  OBVIOUS
<1>1. AnswerOK
  BY DEF Init, AnswerOK
<1>2. \A i \in Instance : Replying(i) = {}
  BY DEF Init, Replying
<1>3. \A i \in Instance : Arriving(i) = {}
  BY DEF Init, Arriving, On
<1>4. \A i \in Instance : Emitted(i) = {}
  <2>1. \A m \in Message : step[JobOf(m)] = 1 /\ answer[JobOf(m)] = "none" /\ m[2] >= 1
    BY MessageShape DEF Init
  <2> QED BY <2>1, MessageShape DEF Emitted
<1>5. \A i \in Instance : Ticks(accepted, Instance \ {i}) = {}
  BY DEF Init, Ticks
<1>6. IsFiniteSet({}) /\ Cardinality({}) = 0
  BY FS_EmptySet
<1>7. \A i \in Instance : /\ published[i] = 0 /\ accepted[i] = 0 /\ receivedRemote[i] = 0
                         /\ channel[i] = <<>> /\ Others(accepted, i) = 0
  BY <1>5, <1>6 DEF Init, Others, Tally
<1>9. PublishedOK
  <2>1. \A i \in Instance : IsFiniteSet(Replying(i)) /\ Cardinality(Replying(i)) = 0
    BY <1>2, <1>6
  <2> QED BY <1>7, <2>1 DEF PublishedOK
<1>10. RemoteOK
  <2>1. \A i \in Instance : /\ IsFiniteSet(Arriving(i)) /\ Cardinality(Arriving(i)) = 0
                           /\ IsFiniteSet(Ticks(accepted, Instance \ {i}))
    BY <1>3, <1>5, <1>6
  <2>2. ASSUME NEW i \in Instance PROVE RemoteAt(i)
    <3>1. PICK A, n : A = Arriving(i) /\ n = Others(accepted, i)
      OBVIOUS
    <3>2. IsFiniteSet(A) /\ Cardinality(A) = 0 /\ n = 0
      BY <1>7, <2>1, <3>1
    <3>3. receivedRemote[i] + Cardinality(A) <= n /\ receivedRemote[i] + Cardinality(A) = n
      BY <1>7, <3>2
    <3> QED BY <1>7, <2>1, <3>1, <3>3 DEF RemoteAt
  <2> QED BY <2>2 DEF RemoteOK
<1>8. EmittedOK
  BY <1>4, <1>6, <1>7 DEF EmittedOK
<1> QED BY <1>1, <1>8, <1>9, <1>10 DEF CInv

\* Requests that neither begin nor end a wait for a reply.
LEMMA ReplyingSame ==
  ASSUME TypeOK, NEW j \in Job, NEW p, pc' = [pc EXCEPT ![j] = p], pc[j] # "reply", p # "reply"
  PROVE  \A i \in Instance : Replying(i)' = Replying(i)
<1>1. \A k \in Job : pc'[k] = "reply" <=> pc[k] = "reply"
  BY DEF TypeOK
<1> QED BY <1>1 DEF Replying

LEMMA PublishedKept ==
  ASSUME PublishedOK, UNCHANGED <<published, accepted>>, lost' = 0 => lost = 0,
         \A i \in Instance : Replying(i)' = Replying(i)
  PROVE  PublishedOK'
BY DEF PublishedOK

\* A reply ends a wait, whether or not it is counted.
LEMMA PublishedReplied ==
  ASSUME TypeOK, PublishedOK, NEW j \in Job, pc[j] = "reply", NEW p, pc' = [pc EXCEPT ![j] = p],
         p # "reply", accepted' = accepted,
         \/ published' = [published EXCEPT ![JobAt[j]] = @ + 1] /\ (lost' = 0 => lost = 0)
         \/ published' = published /\ lost' # 0
  PROVE  PublishedOK'
<1> SUFFICES ASSUME NEW i \in Instance
             PROVE  /\ IsFiniteSet(Replying(i)')
                    /\ published'[i] + Cardinality(Replying(i)') <= accepted'[i]
                    /\ lost' = 0 => published'[i] + Cardinality(Replying(i)') = accepted'[i]
  BY DEF PublishedOK
<1>1. PICK R, S : R = Replying(i) /\ S = Replying(i)'
  OBVIOUS
<1>2. /\ IsFiniteSet(R) /\ published[i] + Cardinality(R) <= accepted[i]
      /\ lost = 0 => published[i] + Cardinality(R) = accepted[i]
      /\ published \in [Instance -> Nat] /\ accepted[i] \in Nat
  BY <1>1 DEF PublishedOK, TypeOK
<1>3. Cardinality(R) \in Nat
  BY <1>2, FS_CardinalityType
<1>4. S = R \ {j}
  BY <1>1 DEF TypeOK, Replying
<1>5. j \in R <=> JobAt[j] = i
  BY <1>1 DEF Replying
<1>6. IsFiniteSet(S) /\ Cardinality(S) = IF j \in R THEN Cardinality(R) - 1 ELSE Cardinality(R)
  BY <1>2, <1>4, FS_RemoveElement
<1>7. \/ published'[i] = (IF JobAt[j] = i THEN published[i] + 1 ELSE published[i]) /\ (lost' = 0 => lost = 0)
      \/ published'[i] = published[i] /\ lost' # 0
  BY <1>2
<1> QED BY <1>1, <1>2, <1>3, <1>5, <1>6, <1>7

\* Redis takes a publish: it is owed a reply.
LEMMA PublishedTaken ==
  ASSUME TypeOK, PublishedOK, NEW j \in Job, pc[j] = "publish", pc' = [pc EXCEPT ![j] = "reply"],
         published' = published, lost' = lost, accepted' = [accepted EXCEPT ![JobAt[j]] = @ + 1]
  PROVE  PublishedOK'
<1> SUFFICES ASSUME NEW i \in Instance
             PROVE  /\ IsFiniteSet(Replying(i)')
                    /\ published'[i] + Cardinality(Replying(i)') <= accepted'[i]
                    /\ lost' = 0 => published'[i] + Cardinality(Replying(i)') = accepted'[i]
  BY DEF PublishedOK
<1>1. PICK R, S : R = Replying(i) /\ S = Replying(i)'
  OBVIOUS
<1>2. /\ IsFiniteSet(R) /\ published[i] + Cardinality(R) <= accepted[i]
      /\ lost = 0 => published[i] + Cardinality(R) = accepted[i]
      /\ published[i] \in Nat /\ accepted \in [Instance -> Nat] /\ accepted[i] \in Nat
  BY <1>1 DEF PublishedOK, TypeOK
<1>3. Cardinality(R) \in Nat /\ j \notin R
  BY <1>1, <1>2, FS_CardinalityType DEF Replying
<1>4. S = IF JobAt[j] = i THEN R \cup {j} ELSE R
  BY <1>1 DEF TypeOK, Replying
<1>5. IsFiniteSet(R \cup {j}) /\ Cardinality(R \cup {j}) = Cardinality(R) + 1
  BY <1>2, <1>3, FS_AddElement
<1>6. accepted'[i] = IF JobAt[j] = i THEN accepted[i] + 1 ELSE accepted[i]
  BY <1>2
<1> QED BY <1>1, <1>2, <1>3, <1>4, <1>5, <1>6

LEMMA Outlasts ==
  ASSUME TypeOK, Next
  PROVE  /\ lost' = 0 => lost = 0
         /\ lost' = lost \/ lost' = lost + 1
<1>1. lost' = lost \/ lost' = lost + 1
  BY DEF Next, JobStep, Subscribe, Ready, Subscribed, SubscribeFails, LinkDrops, Close,
     Quit, Dispatch, Open, Leave, Joined, Left, streamRest, Refuse, Emit, KillLocal,
     KillForbidden, KillElsewhere, NotOwner, OwnerConfirmed, LocalAfterAll, AtRedis,
     Published, PublishFails, jobRest, Outage
<1> QED BY <1>1 DEF TypeOK

LEMMA HeadPublishes ==
  ASSUME TypeOK, PipelineOK, NEW j \in Job, wire[JobAt[j]] # <<>>, Head(wire[JobAt[j]]) = j
  PROVE  pc[j] = "publish"
<1>1. JobAt[j] \in Instance /\ wire[JobAt[j]] \in Seq(Job)
  BY ConstantsAssumption DEF TypeOK
<1>2. 1 \in DOMAIN wire[JobAt[j]] /\ wire[JobAt[j]][1] = j
  BY <1>1, TailAt
<1> QED BY <1>1, <1>2 DEF PipelineOK

LEMMA PublishedStep == OInv /\ PublishedOK /\ [Next]_vars => PublishedOK'
<1> SUFFICES ASSUME OInv, PublishedOK, [Next]_vars PROVE PublishedOK'
  OBVIOUS
<1>1. TypeOK /\ PipelineOK
  BY DEF OInv
<1>2. CASE UNCHANGED <<published, accepted, pc, lost>>
  BY <1>1, <1>2, PublishedKept DEF Replying
<1>3. CASE UNCHANGED vars
  BY <1>2, <1>3 DEF vars, busVars, jobVars, historyVars
<1>4. CASE Next
  <2>0. lost' = 0 => lost = 0
    BY <1>1, <1>4, Outlasts
  <2>1. ASSUME UNCHANGED <<published, accepted, pc>> PROVE PublishedOK'
    BY <2>0, <2>1, PublishedKept DEF Replying
  <2>2. ASSUME NEW i \in Instance, Subscribe(i) \/ Ready(i) \/ Subscribed(i) \/ SubscribeFails(i)
                                   \/ LinkDrops(i) \/ Close(i) \/ Quit(i) \/ Dispatch(i)
        PROVE  PublishedOK'
    BY <2>1, <2>2 DEF Subscribe, Ready, Subscribed, SubscribeFails, LinkDrops, Close, Quit, Dispatch,
       linkRest, jobVars, historyVars
  <2>3. ASSUME NEW c \in Stream, Open(c) \/ Leave(c) \/ Joined(c) \/ Left(c) PROVE PublishedOK'
    BY <2>1, <2>3 DEF Open, Leave, Joined, Left, streamRest, busVars, jobVars
  <2>4. ASSUME NEW j \in Job, Refuse(j) \/ Emit(j) \/ KillLocal(j) \/ KillForbidden(j)
                              \/ KillElsewhere(j) \/ NotOwner(j) \/ OwnerConfirmed(j) \/ LocalAfterAll(j)
        PROVE  PublishedOK'
    <3>1. pc[j] # "reply" /\ UNCHANGED <<published, accepted>>
      BY <2>4 DEF Refuse, Emit, KillLocal, KillForbidden, KillElsewhere, NotOwner, OwnerConfirmed,
         LocalAfterAll, jobRest, busVars
    <3>2. PICK p : pc' = [pc EXCEPT ![j] = p] /\ p # "reply"
      BY <2>4 DEF Refuse, Emit, KillLocal, KillForbidden, KillElsewhere, NotOwner, OwnerConfirmed,
         LocalAfterAll, SetJob
    <3> QED BY <1>1, <2>0, <3>1, <3>2, ReplyingSame, PublishedKept
  <2>5. ASSUME NEW j \in Job, AtRedis(j) PROVE PublishedOK'
    <3>1. pc[j] = "publish"
      BY <1>1, <2>5, HeadPublishes DEF AtRedis
    <3> QED BY <1>1, <2>5, <3>1, PublishedTaken DEF AtRedis, SetJob
  <2>6. ASSUME NEW j \in Job, Published(j) PROVE PublishedOK'
    <3>1. PICK p : pc' = [pc EXCEPT ![j] = p] /\ p # "reply"
      BY <2>6 DEF Published, AfterPublish, SetJob
    <3>2. pc[j] = "reply" /\ accepted' = accepted /\ published' = [published EXCEPT ![JobAt[j]] = @ + 1]
      BY <2>6 DEF Published, recordPublish, publishRest, historyVars
    <3> QED BY <1>1, <2>0, <3>1, <3>2, PublishedReplied
  <2>7. ASSUME NEW j \in Job, PublishFails(j) PROVE PublishedOK'
    <3>1. PICK p : pc' = [pc EXCEPT ![j] = p] /\ p # "reply"
      BY <2>7 DEF PublishFails, AfterPublish, SetJob
    <3>2. accepted' = accepted /\ published' = published
      BY <2>7 DEF PublishFails, publishRest, historyVars
    <3>3. pc[j] = "publish" \/ pc[j] = "reply"
      BY <2>7 DEF PublishFails
    <3>4. lost' # 0
      BY <1>1, <2>7 DEF PublishFails, Outage, TypeOK
    <3>5. CASE pc[j] = "publish"
      BY <1>1, <2>0, <3>1, <3>2, <3>5, ReplyingSame, PublishedKept
    <3>6. CASE pc[j] = "reply"
      BY <1>1, <3>1, <3>2, <3>4, <3>6, PublishedReplied
    <3> QED BY <3>3, <3>5, <3>6
  <2> QED BY <1>4, <2>2, <2>3, <2>4, <2>5, <2>6, <2>7, NextActions
<1> QED BY <1>3, <1>4
-----------------------------------------------------------------------------
LEMMA AnswerStep == TypeOK /\ PipelineOK /\ AnswerOK /\ [Next]_vars => AnswerOK'
<1> SUFFICES ASSUME TypeOK, PipelineOK, AnswerOK, [Next]_vars PROVE AnswerOK'
  OBVIOUS
<1>0. /\ pc \in [Job -> {"idle", "owner", "publish", "reply", "pause", "done"}] /\ step \in [Job -> Nat]
      /\ answer \in [Job -> {"none", "accepted", "disconnected", "forbidden", "unknown"}]
      /\ \A j \in Job : step[j] \in 1..Steps[j] /\ (Scope[j] = "kill" => Steps[j] = 1)
  BY ConstantsAssumption DEF TypeOK
<1>1. ASSUME UNCHANGED <<pc, step, answer>> PROVE AnswerOK'
  BY <1>1 DEF AnswerOK
\* Its request is told nothing yet, or the end of a request that emitted nothing.
<1>2. ASSUME NEW j \in Job, step' = step, pc' = [pc EXCEPT ![j] = "done"],
             NEW a, answer' = [answer EXCEPT ![j] = a],
             a = "accepted" => step[j] = Steps[j], a = "accepted" \/ step[j] = 1
      PROVE  AnswerOK'
  BY <1>0, <1>2 DEF AnswerOK
<1>3. ASSUME NEW j \in Job, pc[j] # "done" PROVE answer[j] # "accepted" /\ [answer EXCEPT ![j] = @] = answer
  BY <1>0, <1>3 DEF AnswerOK
<1>4. ASSUME NEW j \in Job, pc[j] # "done", step' = step, NEW p, pc' = [pc EXCEPT ![j] = p],
             p \notin {"idle", "done"}, p = "owner" => step[j] = 1, answer' = answer
      PROVE  AnswerOK'
  BY <1>0, <1>3, <1>4 DEF AnswerOK
<1>5. ASSUME NEW j \in Job, Refuse(j) \/ KillLocal(j) \/ KillForbidden(j) PROVE AnswerOK'
  <2>1. pc[j] = "idle" /\ step' = step /\ pc' = [pc EXCEPT ![j] = "done"]
    BY <1>5 DEF Refuse, KillLocal, KillForbidden, SetJob
  <2>2. PICK a : answer' = [answer EXCEPT ![j] = a] /\ a # "accepted"
    BY <1>5 DEF Refuse, KillLocal, KillForbidden, Answer
  <2>3. step[j] = 1
    BY <2>1 DEF AnswerOK
  <2> QED BY <1>2, <2>1, <2>2, <2>3
<1>6. ASSUME NEW j \in Job, Emit(j) \/ KillElsewhere(j) \/ OwnerConfirmed(j) PROVE AnswerOK'
  <2>1. pc[j] # "done" /\ UNCHANGED <<step, answer>>
    BY <1>6 DEF Emit, KillElsewhere, OwnerConfirmed
  <2>2. PICK p : /\ pc' = [pc EXCEPT ![j] = p] /\ p \notin {"idle", "done"}
                 /\ p = "owner" => pc[j] = "idle"
    BY <1>6 DEF Emit, KillElsewhere, OwnerConfirmed, SetJob
  <2>3. p = "owner" => step[j] = 1
    BY <2>2 DEF AnswerOK
  <2> QED BY <1>4, <2>1, <2>2, <2>3
<1>7. ASSUME NEW j \in Job, NotOwner(j) \/ LocalAfterAll(j) PROVE AnswerOK'
  <2>1. pc[j] = "owner" /\ step' = step /\ pc' = [pc EXCEPT ![j] = "done"]
    BY <1>7 DEF NotOwner, LocalAfterAll, SetJob
  <2>2. PICK a : answer' = [answer EXCEPT ![j] = a] /\ a # "accepted"
    BY <1>7 DEF NotOwner, LocalAfterAll, Answer
  <2>3. step[j] = 1
    BY <2>1 DEF AnswerOK
  <2> QED BY <1>2, <2>1, <2>2, <2>3
<1>8. ASSUME NEW j \in Job, AtRedis(j) PROVE AnswerOK'
  <2>1. pc[j] = "publish"
    BY <1>8, HeadPublishes DEF AtRedis
  <2>2. UNCHANGED <<step, answer>> /\ pc' = [pc EXCEPT ![j] = "reply"]
    BY <1>8 DEF AtRedis, SetJob
  <2> QED BY <1>4, <2>1, <2>2
<1>9. ASSUME NEW j \in Job, pc[j] \in {"publish", "reply"}, AfterPublish(j) PROVE AnswerOK'
  <2>1. CASE Finished(j)
    <3>1. step' = step
      BY <1>0, <1>9, <2>1 DEF AfterPublish, Advance
    <3>2. PICK a : /\ answer' = [answer EXCEPT ![j] = a] /\ pc' = [pc EXCEPT ![j] = "done"]
                   /\ a = IF Scope[j] = "kill" THEN "disconnected" ELSE "accepted"
      BY <1>9, <2>1 DEF AfterPublish, SetJob, Answer
    <3>3. step[j] = Steps[j] /\ (Scope[j] = "kill" => step[j] = 1)
      BY <1>0, <2>1 DEF Finished
    <3> QED BY <1>2, <1>9, <3>1, <3>2, <3>3
  <2>2. CASE ~Finished(j)
    <3>1. /\ answer' = answer /\ pc' = [pc EXCEPT ![j] = "pause"]
          /\ step' = [step EXCEPT ![j] = step[j] + 1]
      BY <1>9, <2>2 DEF AfterPublish, SetJob, Advance
    <3>2. answer[j] # "accepted"
      BY <1>3, <1>9
    <3> QED BY <1>0, <1>9, <3>1, <3>2 DEF AnswerOK
  <2> QED BY <2>1, <2>2
<1>10. ASSUME NEW j \in Job, Published(j) PROVE AnswerOK'
  BY <1>9, <1>10 DEF Published
<1>11. ASSUME NEW j \in Job, PublishFails(j) PROVE AnswerOK'
  BY <1>9, <1>11 DEF PublishFails
<1>12. ASSUME NEW i \in Instance, Subscribe(i) \/ Ready(i) \/ Subscribed(i) \/ SubscribeFails(i)
                                  \/ LinkDrops(i) \/ Close(i) \/ Quit(i) \/ Dispatch(i)
       PROVE  AnswerOK'
  BY <1>1, <1>12 DEF Subscribe, Ready, Subscribed, SubscribeFails, LinkDrops, Close, Quit, Dispatch,
     linkRest, jobVars
<1>13. ASSUME NEW c \in Stream, Open(c) \/ Leave(c) \/ Joined(c) \/ Left(c) PROVE AnswerOK'
  BY <1>1, <1>13 DEF Open, Leave, Joined, Left, streamRest, jobVars
<1>14. CASE UNCHANGED vars
  BY <1>1, <1>14 DEF vars, jobVars
<1> QED BY <1>5, <1>6, <1>7, <1>8, <1>10, <1>11, <1>12, <1>13, <1>14, NextActions

-----------------------------------------------------------------------------
LEMMA RemoteKept ==
  ASSUME NEW i \in Instance, RemoteAt(i), channel'[i] = channel[i], receivedRemote'[i] = receivedRemote[i],
         UNCHANGED <<accepted, whole>>, lost' = 0 => lost = 0,
         phase'[i] \in {"boot", "subscribing", "serving"} => phase[i] \in {"boot", "subscribing", "serving"},
         phase'[i] \in {"boot", "subscribing"} => phase[i] \in {"boot", "subscribing"}
  PROVE  RemoteAt(i)'
<1>1. PICK A, n : A = Arriving(i) /\ n = Others(accepted, i)
  OBVIOUS
<1>2. Arriving(i)' = A /\ Others(accepted, i)' = n
  BY <1>1 DEF Arriving, On, Others, Tally, Ticks, Origin, JobOf
<1>3. Ticks(accepted, Instance \ {i})' = Ticks(accepted, Instance \ {i})
  BY DEF Ticks
<1> QED BY <1>1, <1>2, <1>3 DEF RemoteAt

\* A connection that goes takes what was on it.
LEMMA RemoteDrained ==
  ASSUME NEW i \in Instance, TypeOK, RemoteAt(i), channel'[i] = <<>>, receivedRemote'[i] = receivedRemote[i],
         accepted' = accepted, lost' # 0 \/ phase'[i] = "stopped"
  PROVE  RemoteAt(i)'
<1>1. Arriving(i)' = {}
  BY DEF Arriving, On
<1>2. IsFiniteSet({}) /\ Cardinality({}) = 0
  BY FS_EmptySet
<1>3. PICK B, n : B = Arriving(i)' /\ n = Others(accepted, i)
  OBVIOUS
<1>4. IsFiniteSet(B) /\ Cardinality(B) = 0
  BY <1>1, <1>2, <1>3
<1>5. Others(accepted, i)' = n /\ Ticks(accepted, Instance \ {i})' = Ticks(accepted, Instance \ {i})
  BY <1>3 DEF Others, Tally, Ticks
<1>6. receivedRemote[i] \in Nat /\ n \in Nat /\ Cardinality(Arriving(i)) \in Nat
  BY <1>3, FS_CardinalityType DEF TypeOK, RemoteAt, Others, Tally
<1>7. receivedRemote[i] <= n
  BY <1>3, <1>6 DEF RemoteAt
<1>8. channel'[i] = <<>>
  OBVIOUS
<1> QED BY <1>3, <1>4, <1>5, <1>6, <1>7, <1>8 DEF RemoteAt

LEMMA RemoteTaken ==
  ASSUME NEW i \in Instance, OInv, lost = 0 => Hears, RemoteAt(i), NEW j \in Job, AtRedis(j)
  PROVE  RemoteAt(i)'
<1>1. PICK e, h, A, T, n : /\ e = Current(j) /\ h = JobAt[j] /\ A = Arriving(i)
                           /\ T = Ticks(accepted, Instance \ {i}) /\ n = Others(accepted, i)
  OBVIOUS
<1>2. TypeOK /\ e \in Message /\ Origin(e) = h /\ h \in Instance
  BY <1>1, CurrentShape, ConstantsAssumption DEF OInv
<1>3. ~On(e, i)
  <2>1. pc[j] = "publish"
    BY HeadPublishes DEF AtRedis, OInv
  <2>2. Taken(e) => SentBefore(e, {"reply", "done"})
    BY <1>2 DEF OInv, SentOK
  <2>3. e[2] = step[j] /\ JobOf(e) = j
    BY <1>1, <1>2, CurrentShape
  <2> QED BY <2>1, <2>2, <2>3 DEF SentBefore, Taken
<1>4. /\ channel'[i] = (IF i \in Subscribers THEN Append(channel[i], e) ELSE channel[i])
      /\ accepted' = [accepted EXCEPT ![h] = @ + 1] /\ whole' = (whole /\ Subscribers = Instance)
      /\ UNCHANGED <<phase, lost, receivedRemote>>
  BY <1>1 DEF AtRedis
<1>5. /\ channel[i] \in Seq(Message) /\ accepted \in [Instance -> Nat] /\ receivedRemote[i] \in Nat
  BY <1>2 DEF TypeOK
<1>6. \A m \in Message : On(m, i)' <=> On(m, i) \/ (i \in Subscribers /\ m = e)
  <2>1. CASE i \in Subscribers
    <3>1. PICK s, r : s = channel[i] /\ r = Append(s, e)
      OBVIOUS
    <3>2. /\ channel'[i] = r /\ s \in Seq(Message) /\ DOMAIN r = 1..(Len(s) + 1) /\ DOMAIN s = 1..Len(s)
          /\ Len(s) \in Nat /\ r[Len(s) + 1] = e /\ \A k \in 1..Len(s) : r[k] = s[k]
      BY <1>2, <1>4, <1>5, <2>1, <3>1
    <3>3. \A k : k \in 1..(Len(s) + 1) <=> k \in 1..Len(s) \/ k = Len(s) + 1
      BY <3>2
    <3> QED BY <2>1, <3>1, <3>2, <3>3 DEF On
  <2>2. CASE i \notin Subscribers
    BY <1>4, <2>2 DEF On
  <2> QED BY <2>1, <2>2
<1>7. PICK B : B = Arriving(i)'
  OBVIOUS
<1>8. B = IF i \in Subscribers /\ h # i THEN A \cup {e} ELSE A
  BY <1>1, <1>2, <1>6, <1>7 DEF Arriving, Origin, JobOf
<1>9. IsFiniteSet(A) /\ Cardinality(A) \in Nat /\ IsFiniteSet(T) /\ n \in Nat /\ n = Cardinality(T)
  BY <1>1, FS_CardinalityType DEF RemoteAt, Others, Tally
<1>10. IsFiniteSet(A \cup {e}) /\ Cardinality(A \cup {e}) = Cardinality(A) + 1
  <2>1. e \notin A
    BY <1>1, <1>3 DEF Arriving
  <2> QED BY <1>9, <2>1, FS_AddElement
<1>11. /\ IsFiniteSet(Ticks(accepted, Instance \ {i})')
       /\ Others(accepted, i)' = IF h = i THEN n ELSE n + 1
  <2>1. CASE h = i
    <3>1. \A x \in Instance \ {i} : accepted'[x] = accepted[x]
      BY <1>4, <1>5, <2>1
    <3>2. PICK g : g = accepted'
      OBVIOUS
    <3>3. Ticks(g, Instance \ {i}) = T /\ Tally(g, Instance \ {i}) = n
      BY <1>1, <3>1, <3>2, TicksSame DEF Others
    <3> QED BY <1>9, <2>1, <3>2, <3>3 DEF Others, Ticks, Tally
  <2>2. CASE h # i
    <3>1. h \in Instance \ {i} /\ Instance \ {i} \in SUBSET Instance
      BY <1>2, <2>2
    <3>2. PICK g : g = accepted'
      OBVIOUS
    <3>3. PICK S \in SUBSET Instance : S = Instance \ {i} /\ h \in S
      BY <3>1
    <3>4. /\ g = [accepted EXCEPT ![h] = @ + 1] /\ IsFiniteSet(Ticks(accepted, S))
          /\ Tally(accepted, S) = n
      BY <1>1, <1>4, <1>9, <3>2, <3>3 DEF Others
    <3>5. IsFiniteSet(Ticks(g, S)) /\ Tally(g, S) = Tally(accepted, S) + 1
      BY <1>5, <3>3, <3>4, TicksAdd
    <3>6. IsFiniteSet(Ticks(g, Instance \ {i})) /\ Tally(g, Instance \ {i}) = n + 1
      BY <3>3, <3>4, <3>5
    <3> QED BY <2>2, <3>2, <3>6 DEF Others, Ticks, Tally
  <2> QED BY <2>1, <2>2
<1>12. /\ receivedRemote[i] + Cardinality(A) <= n
       /\ lost = 0 =>
            /\ phase[i] \in {"boot", "subscribing"} => channel[i] = <<>>
            /\ whole /\ phase[i] \in {"boot", "subscribing", "serving"}
                 => receivedRemote[i] + Cardinality(A) = n
  BY <1>1 DEF RemoteAt
<1>13. IsFiniteSet(B) /\ Cardinality(B) = IF i \in Subscribers /\ h # i THEN Cardinality(A) + 1 ELSE Cardinality(A)
  BY <1>8, <1>9, <1>10
<1>14. PICK o : o = Others(accepted, i)'
  OBVIOUS
<1>15. receivedRemote[i] + Cardinality(B) <= o
  BY <1>5, <1>9, <1>11, <1>12, <1>13, <1>14
<1>16. ASSUME lost = 0, phase[i] \in {"boot", "subscribing"} PROVE channel'[i] = <<>>
  <2>1. i \notin Subscribers
    BY <1>16 DEF Hears, Subscribers
  <2> QED BY <1>4, <1>12, <1>16, <2>1
<1>17. ASSUME lost = 0, whole', phase[i] \in {"boot", "subscribing", "serving"}
       PROVE  receivedRemote[i] + Cardinality(B) = o
  <2>1. i \in Subscribers /\ whole
    BY <1>4, <1>17
  <2> QED BY <1>5, <1>9, <1>11, <1>12, <1>13, <1>14, <1>17, <2>1
<1> QED BY <1>4, <1>7, <1>11, <1>13, <1>14, <1>15, <1>16, <1>17 DEF RemoteAt

LEMMA RemoteDispatched ==
  ASSUME NEW i \in Instance, OInv, lost = 0 => Hears, RemoteAt(i), Dispatch(i)
  PROVE  RemoteAt(i)'
<1>1. PICK e, A, B, n : e = Head(channel[i]) /\ A = Arriving(i) /\ B = Arriving(i)' /\ n = Others(accepted, i)
  OBVIOUS
<1>2. /\ TypeOK /\ channel[i] \in Seq(Message) /\ channel[i] # <<>> /\ receivedRemote[i] \in Nat
      /\ channel'[i] = Tail(channel[i]) /\ UNCHANGED <<phase, lost, accepted, whole>>
  BY DEF OInv, TypeOK, Dispatch
<1>3. /\ 1 \in DOMAIN channel[i] /\ e = channel[i][1] /\ e \in Message
      /\ \A k \in DOMAIN channel'[i] : k \in Nat /\ k + 1 > 1 /\ k + 1 \in DOMAIN channel[i]
                                       /\ channel'[i][k] = channel[i][k + 1]
      /\ \A k \in DOMAIN channel[i] : k = 1 \/ (k - 1 \in DOMAIN channel'[i] /\ channel'[i][k - 1] = channel[i][k])
  <2>1. PICK s, r : s = channel[i] /\ r = Tail(s)
    OBVIOUS
  <2>2. /\ s \in Seq(Message) /\ Len(s) \in Nat \ {0} /\ DOMAIN s = 1..Len(s) /\ e = s[1]
        /\ DOMAIN r = 1..(Len(s) - 1) /\ \A k \in 1..(Len(s) - 1) : r[k] = s[k + 1]
    BY <1>1, <1>2, <2>1
  <2> QED BY <1>2, <2>1, <2>2
<1>4. \A m \in Message : On(m, i)' <=> On(m, i) /\ m # e
  <2>1. \A k \in DOMAIN channel[i] : k > 1 => channel[i][k] # e
    <3> SUFFICES ASSUME NEW k \in DOMAIN channel[i], k > 1, channel[i][k] = e PROVE FALSE
      OBVIOUS
    <3>1. Queued(e, e, i)
      BY <1>3 DEF Queued
    <3>2. Ahead(e, e)
      BY <3>1 DEF Ahead
    <3>3. <<e, e>> \in Rivals
      BY <1>3 DEF Rivals
    <3> QED BY <3>2, <3>3 DEF OInv, Orderly
  <2>2. \A k \in DOMAIN channel'[i] : channel'[i][k] # e
    BY <1>3, <2>1
  <2>3. \A m : On(m, i)' => On(m, i)
    BY <1>3 DEF On
  <2>4. \A m : On(m, i) /\ m # e => On(m, i)'
    BY <1>3 DEF On
  <2> QED BY <2>2, <2>3, <2>4 DEF On
<1>5. B = A \ {e}
  BY <1>1, <1>4 DEF Arriving, Origin, JobOf
<1>6. e \in A <=> Origin(e) # i
  BY <1>1, <1>3 DEF Arriving, On
<1>7. IsFiniteSet(A) /\ Cardinality(A) \in Nat /\ n \in Nat
  BY <1>1, FS_CardinalityType DEF RemoteAt, Others, Tally
<1>8. IsFiniteSet(B) /\ Cardinality(B) = IF e \in A THEN Cardinality(A) - 1 ELSE Cardinality(A)
  BY <1>5, <1>7, FS_RemoveElement
<1>9. /\ Accepts(i, e) => receivedRemote'[i] = receivedRemote[i] + 1
      /\ ~Accepts(i, e) => receivedRemote'[i] = receivedRemote[i]
  BY <1>1 DEF Dispatch, recordRemoteDelivery, TypeOK, OInv
<1>10. Cardinality(B) \in Nat
  BY <1>8, FS_CardinalityType
<1>11. Others(accepted, i)' = n /\ Ticks(accepted, Instance \ {i})' = Ticks(accepted, Instance \ {i})
  BY <1>1, <1>2 DEF Others, Tally, Ticks
<1>12. receivedRemote[i] + Cardinality(A) <= n
  BY <1>1 DEF RemoteAt
<1>13. receivedRemote'[i] + Cardinality(B) <= n
  <2>1. Accepts(i, e) => e \in A
    BY <1>6 DEF Accepts
  <2> QED BY <1>2, <1>7, <1>8, <1>9, <1>10, <1>12, <2>1
<1>14. ASSUME lost = 0 PROVE phase[i] \notin {"boot", "subscribing"}
  BY <1>2, <1>14 DEF RemoteAt
<1>15. ASSUME lost = 0, whole, phase[i] = "serving" PROVE receivedRemote'[i] + Cardinality(B) = n
  <2>1. Accepts(i, e) <=> e \in A
    BY <1>6, <1>15 DEF Accepts, Hears
  <2>2. receivedRemote[i] + Cardinality(A) = n
    BY <1>1, <1>15 DEF RemoteAt
  <2> QED BY <1>2, <1>7, <1>8, <1>9, <1>10, <2>1, <2>2
<1>16. IsFiniteSet(Ticks(accepted, Instance \ {i}))
  BY DEF RemoteAt
<1> QED BY <1>1, <1>2, <1>8, <1>11, <1>13, <1>14, <1>15, <1>16 DEF RemoteAt
LEMMA RemoteStep ==
  OInv /\ (lost = 0 => Hears) /\ RemoteOK /\ [Next]_vars => RemoteOK'
<1> SUFFICES ASSUME OInv, lost = 0 => Hears, RemoteOK, [Next]_vars, NEW k \in Instance PROVE RemoteAt(k)'
  BY DEF RemoteOK
<1>0. /\ TypeOK /\ RemoteAt(k)
      /\ phase \in [Instance -> {"boot", "subscribing", "serving", "closing", "stopped"}]
      /\ channel \in [Instance -> Seq(Message)] /\ receivedRemote \in [Instance -> Nat]
  BY DEF OInv, TypeOK, RemoteOK
<1>1. CASE UNCHANGED vars
  BY <1>0, <1>1, RemoteKept DEF vars, busVars, historyVars
<1>2. CASE Next
  <2>0. lost' = 0 => lost = 0
    BY <1>0, <1>2, Outlasts
  <2>1. ASSUME UNCHANGED <<phase, channel, receivedRemote, accepted, whole>> PROVE RemoteAt(k)'
    BY <1>0, <2>0, <2>1, RemoteKept
  <2>2. ASSUME NEW i \in Instance, Subscribe(i) \/ Ready(i) \/ Subscribed(i) \/ SubscribeFails(i) \/ Close(i)
        PROVE  RemoteAt(k)'
    <3>1. /\ UNCHANGED <<channel, receivedRemote, accepted, whole>>
          /\ \/ phase' = phase
             \/ phase[i] = "boot" /\ phase' = [phase EXCEPT ![i] = "subscribing"]
             \/ phase[i] = "subscribing" /\ phase' = [phase EXCEPT ![i] = "serving"]
             \/ phase[i] = "serving" /\ phase' = [phase EXCEPT ![i] = "closing"]
      BY <2>2 DEF Subscribe, Ready, Subscribed, SubscribeFails, Close, Enter, linkRest, historyVars
    <3>2. /\ phase'[k] \in {"boot", "subscribing", "serving"} => phase[k] \in {"boot", "subscribing", "serving"}
          /\ phase'[k] \in {"boot", "subscribing"} => phase[k] \in {"boot", "subscribing"}
      BY <1>0, <3>1
    <3> QED BY <1>0, <2>0, <3>1, <3>2, RemoteKept
  <2>3. ASSUME NEW i \in Instance, LinkDrops(i) \/ Quit(i) PROVE RemoteAt(k)'
    <3>1. /\ channel' = [channel EXCEPT ![i] = <<>>] /\ UNCHANGED <<receivedRemote, accepted, whole>>
          /\ \/ phase' = phase /\ lost' = lost + 1
             \/ phase' = [phase EXCEPT ![i] = "stopped"]
      BY <2>3 DEF LinkDrops, Quit, Drain, Enter, Outage, linkRest, historyVars
    <3>4. lost + 1 # 0
      BY <1>0 DEF TypeOK
    <3>2. CASE k = i
      <4>1. channel'[k] = <<>> /\ (lost' # 0 \/ phase'[k] = "stopped")
        BY <1>0, <3>1, <3>2, <3>4
      <4> QED BY <1>0, <3>1, <4>1, RemoteDrained
    <3>3. CASE k # i
      <4>1. channel'[k] = channel[k] /\ phase'[k] = phase[k]
        BY <1>0, <3>1, <3>3
      <4> QED BY <1>0, <2>0, <3>1, <4>1, RemoteKept
    <3> QED BY <3>2, <3>3
  <2>4. ASSUME NEW i \in Instance, Dispatch(i) PROVE RemoteAt(k)'
    <3>1. CASE k = i
      BY <1>0, <2>4, <3>1, RemoteDispatched
    <3>2. CASE k # i
      <4>1. /\ channel'[k] = channel[k] /\ receivedRemote'[k] = receivedRemote[k]
            /\ UNCHANGED <<phase, accepted, whole>>
        BY <1>0, <2>4, <3>2 DEF Dispatch, recordRemoteDelivery
      <4> QED BY <1>0, <2>0, <4>1, RemoteKept
    <3> QED BY <3>1, <3>2
  <2>5. ASSUME NEW c \in Stream, Open(c) \/ Leave(c) \/ Joined(c) \/ Left(c) PROVE RemoteAt(k)'
    BY <2>1, <2>5 DEF Open, Leave, Joined, Left, streamRest, busVars
  <2>6. ASSUME NEW j \in Job, Refuse(j) \/ Emit(j) \/ KillLocal(j) \/ KillForbidden(j)
                              \/ KillElsewhere(j) \/ NotOwner(j) \/ OwnerConfirmed(j) \/ LocalAfterAll(j)
        PROVE  RemoteAt(k)'
    BY <2>1, <2>6 DEF Refuse, Emit, KillLocal, KillForbidden, KillElsewhere, NotOwner, OwnerConfirmed,
       LocalAfterAll, jobRest, busVars
  <2>7. ASSUME NEW j \in Job, Published(j) \/ PublishFails(j) PROVE RemoteAt(k)'
    BY <2>1, <2>7 DEF Published, PublishFails, publishRest, historyVars
  <2>8. ASSUME NEW j \in Job, AtRedis(j) PROVE RemoteAt(k)'
    BY <1>0, <2>8, RemoteTaken
  <2> QED BY <1>2, <2>2, <2>3, <2>4, <2>5, <2>6, <2>7, <2>8, NextActions
<1> QED BY <1>1, <1>2

-----------------------------------------------------------------------------
LEMMA EmittedSame ==
  ASSUME EmittedOK, UNCHANGED <<step, published>>, lost' = 0 => lost = 0,
         NoKills => \A j \in Job : answer'[j] = "accepted" <=> answer[j] = "accepted"
  PROVE  EmittedOK'
<1> SUFFICES ASSUME lost = 0, NoKills, NEW i \in Instance
             PROVE  IsFiniteSet(Emitted(i)') /\ published[i] = Cardinality(Emitted(i)')
  BY DEF EmittedOK, NoKills
<1>1. \A m \in Message : JobOf(m) \in Job
  BY MessageShape
<1>2. Emitted(i)' = Emitted(i)
  BY <1>1 DEF Emitted, Origin, JobOf
<1> QED BY <1>2 DEF EmittedOK

LEMMA EmittedPublished ==
  ASSUME TypeOK, AnswerOK, EmittedOK, NEW j \in Job, Published(j), lost' = 0 => lost = 0
  PROVE  EmittedOK'
<1> SUFFICES ASSUME lost = 0, NoKills, NEW i \in Instance
             PROVE  IsFiniteSet(Emitted(i)') /\ published'[i] = Cardinality(Emitted(i)')
  BY DEF EmittedOK, NoKills
<1>1. PICK e, E, F : e = Current(j) /\ E = Emitted(i) /\ F = Emitted(i)'
  OBVIOUS
<1>2. /\ e \in Message /\ JobOf(e) = j /\ e[2] = step[j] /\ Origin(e) = JobAt[j]
      /\ \A m \in Message : JobOf(m) = j /\ m[2] = step[j] => m = e
      /\ \A m \in Message : /\ JobOf(m) \in Job /\ Origin(m) = JobAt[JobOf(m)]
                            /\ m[2] \in 1..Steps[JobOf(m)]
  BY <1>1, CurrentShape, MessageShape DEF Current
<1>3. /\ published \in [Instance -> Nat] /\ step \in [Job -> Nat] /\ step[j] \in 1..Steps[j]
      /\ answer \in [Job -> {"none", "accepted", "disconnected", "forbidden", "unknown"}]
      /\ answer[j] # "accepted" /\ Scope[j] # "kill" /\ Steps[j] \in Nat
  BY ConstantsAssumption DEF TypeOK, AnswerOK, Published, NoKills
<1>4. \A k \in Job \ {j} : step'[k] = step[k] /\ answer'[k] = answer[k]
  BY <1>3 DEF Published, AfterPublish, Advance, Answer
<1>5. \/ step'[j] = step[j] /\ step[j] = Steps[j] /\ answer'[j] = "accepted"
      \/ step'[j] = step[j] + 1 /\ answer'[j] # "accepted"
  BY <1>3 DEF Published, AfterPublish, Advance, Answer, Finished
<1>6. ASSUME NEW m \in Message, Origin(m) = i
      PROVE  m \in F <=> m \in E \/ m = e
  <2>1. m \in E <=> m[2] < step[JobOf(m)] \/ answer[JobOf(m)] = "accepted"
    BY <1>1, <1>6 DEF Emitted
  <2>2. m \in F <=> m[2] < step'[JobOf(m)] \/ answer'[JobOf(m)] = "accepted"
    BY <1>1, <1>6 DEF Emitted, Origin, JobOf
  <2>3. CASE JobOf(m) = j
    <3>1. m[2] \in 1..Steps[j] /\ (m = e <=> m[2] = step[j])
      BY <1>2, <2>3
    <3>2. m \in E <=> m[2] < step[j]
      BY <1>3, <2>1, <2>3
    <3>3. m \in F <=> m[2] <= step[j]
      BY <1>3, <1>5, <2>2, <2>3, <3>1
    <3> QED BY <1>3, <3>1, <3>2, <3>3
  <2>4. CASE JobOf(m) # j
    <3>1. JobOf(m) \in Job \ {j}
      BY <1>2, <2>4
    <3> QED BY <1>2, <1>4, <2>1, <2>2, <2>4, <3>1
  <2> QED BY <2>3, <2>4
<1>7. E \subseteq Message /\ F \subseteq Message
  BY <1>1 DEF Emitted
<1>8. (\A m \in E : Origin(m) = i) /\ (\A m \in F : Origin(m) = i)
  BY <1>1 DEF Emitted, Origin, JobOf
<1>9. F = IF JobAt[j] = i THEN E \cup {e} ELSE E
  <2>1. CASE JobAt[j] = i
    <3>1. \A m : m \in F <=> m \in E \cup {e}
      BY <1>2, <1>6, <1>7, <1>8, <2>1
    <3> QED BY <2>1, <3>1
  <2>2. CASE JobAt[j] # i
    <3>1. \A m : m \in F <=> m \in E
      BY <1>2, <1>6, <1>7, <1>8, <2>2
    <3> QED BY <2>2, <3>1
  <2> QED BY <2>1, <2>2
<1>10. e \notin E
  BY <1>1, <1>2, <1>3 DEF Emitted
<1>11. IsFiniteSet(E) /\ published[i] = Cardinality(E)
  BY <1>1 DEF EmittedOK
<1>12. IsFiniteSet(E \cup {e}) /\ Cardinality(E \cup {e}) = Cardinality(E) + 1
  BY <1>10, <1>11, FS_AddElement
<1>13. published'[i] = IF JobAt[j] = i THEN published[i] + 1 ELSE published[i]
  BY <1>3 DEF Published, recordPublish
<1> QED BY <1>1, <1>9, <1>11, <1>12, <1>13

LEMMA EmittedStep == OInv /\ AnswerOK /\ EmittedOK /\ [Next]_vars => EmittedOK'
<1> SUFFICES ASSUME OInv, AnswerOK, EmittedOK, [Next]_vars PROVE EmittedOK'
  OBVIOUS
<1>0. /\ TypeOK
      /\ answer \in [Job -> {"none", "accepted", "disconnected", "forbidden", "unknown"}]
  BY DEF OInv, TypeOK
<1>1. CASE UNCHANGED vars
  BY <1>1, EmittedSame DEF vars, busVars, jobVars
<1>2. CASE Next
  <2>0. lost' = 0 => lost = 0
    BY <1>0, <1>2, Outlasts
  <2>1. ASSUME UNCHANGED <<step, published, answer>> PROVE EmittedOK'
    BY <2>0, <2>1, EmittedSame
  <2>2. ASSUME NEW i \in Instance, Subscribe(i) \/ Ready(i) \/ Subscribed(i) \/ SubscribeFails(i)
                                   \/ LinkDrops(i) \/ Close(i) \/ Quit(i) \/ Dispatch(i)
        PROVE  EmittedOK'
    BY <2>1, <2>2 DEF Subscribe, Ready, Subscribed, SubscribeFails, LinkDrops, Close, Quit, Dispatch,
       linkRest, jobVars
  <2>3. ASSUME NEW c \in Stream, Open(c) \/ Leave(c) \/ Joined(c) \/ Left(c) PROVE EmittedOK'
    BY <2>1, <2>3 DEF Open, Leave, Joined, Left, streamRest, busVars, jobVars
  <2>4. ASSUME NEW j \in Job, Emit(j) \/ AtRedis(j) PROVE EmittedOK'
    BY <2>1, <2>4 DEF Emit, AtRedis, jobRest, busVars
  <2>5. ASSUME NEW j \in Job, Refuse(j) PROVE EmittedOK'
    <3>1. UNCHANGED <<step, published>> /\ answer' = [answer EXCEPT ![j] = "forbidden"] /\ pc[j] = "idle"
      BY <2>5 DEF Refuse, Answer, jobRest, busVars
    <3>2. \A k \in Job : answer'[k] = "accepted" <=> answer[k] = "accepted"
      BY <1>0, <3>1 DEF AnswerOK
    <3> QED BY <2>0, <3>1, <3>2, EmittedSame
\* There are no kills.
  <2>6. ASSUME NEW j \in Job, Scope[j] = "kill", UNCHANGED <<step, published>> PROVE EmittedOK'
    BY <2>0, <2>6, EmittedSame DEF NoKills
  <2>7. ASSUME NEW j \in Job, KillLocal(j) \/ KillForbidden(j) \/ KillElsewhere(j) PROVE EmittedOK'
    BY <2>6, <2>7 DEF KillLocal, KillForbidden, KillElsewhere, jobRest, busVars
  <2>8. ASSUME NEW j \in Job, NotOwner(j) \/ OwnerConfirmed(j) \/ LocalAfterAll(j) PROVE EmittedOK'
    <3>1. UNCHANGED <<step, published>> /\ pc[j] = "owner"
      BY <2>8 DEF NotOwner, OwnerConfirmed, LocalAfterAll, jobRest, busVars
    <3>2. \A k \in Job : k # j => answer'[k] = answer[k]
      BY <1>0, <2>8 DEF NotOwner, OwnerConfirmed, LocalAfterAll, Answer
    <3>3. answer[j] # "accepted" /\ answer'[j] # "accepted"
      BY <1>0, <2>8, <3>1 DEF NotOwner, OwnerConfirmed, LocalAfterAll, Answer, AnswerOK
    <3> QED BY <2>0, <3>1, <3>2, <3>3, EmittedSame
  <2>9. ASSUME NEW j \in Job, Published(j) PROVE EmittedOK'
    BY <1>0, <2>0, <2>9, EmittedPublished
  <2>10. ASSUME NEW j \in Job, PublishFails(j) PROVE EmittedOK'
    <3>1. lost' # 0
      BY <1>0, <2>10 DEF PublishFails, Outage, TypeOK
    <3> QED BY <3>1 DEF EmittedOK
  <2> QED BY <1>2, <2>2, <2>3, <2>4, <2>5, <2>7, <2>8, <2>9, <2>10, NextActions
<1> QED BY <1>1, <1>2

-----------------------------------------------------------------------------
LEMMA CountersStep == DInv /\ CInv /\ [Next]_vars => CInv'
<1> SUFFICES ASSUME DInv, CInv, [Next]_vars PROVE CInv'
  OBVIOUS
<1>1. /\ OInv /\ TypeOK /\ PipelineOK /\ (lost = 0 => Hears)
      /\ AnswerOK /\ PublishedOK /\ RemoteOK /\ EmittedOK
  BY DEF DInv, OInv, CInv
<1> QED BY <1>1, AnswerStep, PublishedStep, RemoteStep, EmittedStep DEF CInv

\* Nothing is owed when the cluster is quiet.
LEMMA CountersTell ==
  ASSUME TypeOK, CInv
  PROVE  CountersExact
<1> SUFFICES ASSUME NEW i \in Instance
             PROVE  /\ published[i] <= accepted[i]
                    /\ receivedRemote[i] <= Others(accepted, i)
                    /\ lost = 0 /\ whole /\ Quiet /\ (\A k \in Instance : phase[k] = "serving")
                         => /\ published[i] = accepted[i]
                            /\ receivedRemote[i] = Others(published, i)
                            /\ (\A j \in Job : Scope[j] # "kill")
                                 => snapshot(i).deliveredLocal = Ordered(i) + receivedRemote[i]
  BY DEF CountersExact
<1>1. published \in [Instance -> Nat] /\ accepted \in [Instance -> Nat] /\ receivedRemote \in [Instance -> Nat]
  BY DEF TypeOK
<1>2. \A k \in Instance : /\ IsFiniteSet(Replying(k)) /\ IsFiniteSet(Arriving(k))
                          /\ IsFiniteSet(Ticks(accepted, Instance \ {k}))
  BY DEF CInv, PublishedOK, RemoteOK, RemoteAt
<1>3. Cardinality(Replying(i)) \in Nat /\ Cardinality(Arriving(i)) \in Nat /\ Others(accepted, i) \in Nat
  BY <1>2, FS_CardinalityType DEF Others, Tally
<1>4. published[i] <= accepted[i] /\ receivedRemote[i] <= Others(accepted, i)
  <2>1. /\ published[i] + Cardinality(Replying(i)) <= accepted[i]
        /\ receivedRemote[i] + Cardinality(Arriving(i)) <= Others(accepted, i)
    BY DEF CInv, PublishedOK, RemoteOK, RemoteAt
  <2> QED BY <1>1, <1>3, <2>1
<1>5. ASSUME lost = 0, whole, Quiet, \A k \in Instance : phase[k] = "serving"
      PROVE  /\ published[i] = accepted[i]
             /\ receivedRemote[i] = Others(published, i)
             /\ (\A j \in Job : Scope[j] # "kill")
                  => snapshot(i).deliveredLocal = Ordered(i) + receivedRemote[i]
  <2>1. \A k \in Instance : Replying(k) = {} /\ Arriving(k) = {}
    BY <1>5 DEF Quiet, Replying, Arriving, On
  <2>2. \A k \in Instance : Cardinality(Replying(k)) = 0 /\ Cardinality(Arriving(k)) = 0
    BY <2>1, FS_EmptySet
  <2>3. \A k \in Instance : published[k] = accepted[k]
    <3> SUFFICES ASSUME NEW k \in Instance PROVE published[k] = accepted[k]
      OBVIOUS
    <3>1. published[k] + Cardinality(Replying(k)) = accepted[k]
      BY <1>5 DEF CInv, PublishedOK
    <3> QED BY <1>1, <2>2, <3>1
  <2>4. receivedRemote[i] = Others(accepted, i)
    <3>1. receivedRemote[i] + Cardinality(Arriving(i)) = Others(accepted, i)
      BY <1>5 DEF CInv, RemoteOK, RemoteAt
    <3> QED BY <1>1, <2>2, <3>1
  <2>5. Others(published, i) = Others(accepted, i)
    BY <2>3, TicksSame DEF Others
  <2>6. ASSUME \A j \in Job : Scope[j] # "kill" PROVE published[i] = Ordered(i)
    <3>1. PICK J : J = {j \in Job : JobAt[j] = i /\ answer[j] = "accepted"}
      OBVIOUS
    <3>2. Emitted(i) = Ticks(Steps, J)
      <4>1. ASSUME NEW m \in Emitted(i) PROVE m \in Ticks(Steps, J)
        <5>1. /\ m \in Message /\ Origin(m) = i
              /\ m[2] < step[JobOf(m)] \/ answer[JobOf(m)] = "accepted"
          BY <4>1 DEF Emitted
        <5>2. /\ JobOf(m) \in Job /\ JobAt[JobOf(m)] = i /\ m[2] \in 1..Steps[JobOf(m)]
              /\ m = <<JobOf(m), m[2]>>
          BY <5>1, MessageShape
        <5>3. answer[JobOf(m)] = "accepted" \/ step[JobOf(m)] = 1
          BY <1>5, <5>2 DEF Quiet, CInv, AnswerOK
        <5>4. JobOf(m) \in J
          BY <3>1, <5>1, <5>2, <5>3
        <5>5. m \in {JobOf(m)} \X (1..Steps[JobOf(m)])
          BY <5>2
        <5> QED BY <5>4, <5>5 DEF Ticks
      <4>2. ASSUME NEW m \in Ticks(Steps, J) PROVE m \in Emitted(i)
        <5>1. PICK j \in J : m \in {j} \X (1..Steps[j])
          BY <4>2 DEF Ticks
        <5>2. j \in Job /\ JobAt[j] = i /\ answer[j] = "accepted" /\ JobOf(m) = j
          BY <3>1, <5>1 DEF JobOf
        <5>3. m \in Message
          BY <5>1, <5>2 DEF Message
        <5> QED BY <5>2, <5>3 DEF Emitted, Origin
      <4> QED BY <4>1, <4>2
    <3>3. published[i] = Cardinality(Emitted(i))
      BY <1>5, <2>6 DEF CInv, EmittedOK, NoKills
    <3> QED BY <3>1, <3>2, <3>3 DEF Ordered, Tally
  <2>7. snapshot(i).deliveredLocal = published[i] + receivedRemote[i]
    BY DEF snapshot
  <2> QED BY <2>3, <2>4, <2>5, <2>6, <2>7
<1> QED BY <1>4, <1>5

\* CountingRealtimePubSub and ClusterStatsService: a delivery is never
\* published again, so an instance never counts more than it published or its
\* peers did; once the cluster is quiet and nothing was lost it counts exactly that,
\* and deliveredLocal, which no delivery counts, is what was emitted here and
\* heard from the peers.
THEOREM CountersAgree == Spec => []CountersExact
<1>1. DInv => TypeOK
  BY DEF DInv, OInv
<1> QED
  BY <1>1, InitIInv, StepIInv, DeliveryInit, DeliveryStep, CountersInit, CountersStep, CountersTell, PTL
     DEF Spec
=============================================================================
