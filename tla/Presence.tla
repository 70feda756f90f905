------------------------------ MODULE Presence ------------------------------
(***************************************************************************)
(* Cluster-wide presence: the Redis sets of RedisPresenceStorage and the   *)
(* PresenceTracker tasks that write them.                                  *)
(*                                                                         *)
(* Every instance runs one asynchronous task per lifecycle hook of every   *)
(* connection.  A task is a program counter: each value names the Redis    *)
(* command (or MULTI) it will issue next, so one action is one round-trip, *)
(* and any other task, on this instance or another, may run in between.    *)
(* An instance may be killed between any two round-trips; on its next boot *)
(* it reclaims the connections recorded under its own key.                 *)
(***************************************************************************)
EXTENDS Naturals, FiniteSets

CONSTANTS
  User,           \* the accounts
  Tenant,         \* the organisations
  Conn,           \* connection ids, each used by one connection only
  Instance,       \* API processes, by their stable INSTANCE_NAME
  UserOf,         \* UserOf[c]: the account connection c authenticated as
  TenantOf,       \* TenantOf[u]: the tenant every connection of u carries
  InstOf,         \* InstOf[c]: the instance c is pinned to
  TransportOf,    \* TransportOf[c]: "sse" or "websocket"
  MaxPerUser,     \* REALTIME_MAX_CONNECTIONS_PER_USER
  NoTenant, NoConn,
  MaxCrashes,     \* bound: processes killed without their shutdown hooks
  MaxDiscards,    \* bound: MULTIs whose exec() resolves to null
  MaxFaults       \* bound: commands that reject

ASSUME ConstantsAssumption ==
  /\ UserOf \in [Conn -> User]
  /\ TenantOf \in [User -> Tenant]
  /\ InstOf \in [Conn -> Instance]
  /\ TransportOf \in [Conn -> {"sse", "websocket"}]
  /\ MaxPerUser \in Nat \ {0}
  /\ NoTenant \notin Tenant
  /\ NoConn \notin Conn
  /\ Conn \cap Instance = {} /\ IsFiniteSet(Conn)
  /\ {MaxCrashes, MaxDiscards, MaxFaults} \subseteq Nat

VARIABLES
  \* the process side
  inst,           \* "up", "down", or "reclaiming" while it boots
  stage,          \* the registry's view of each connection
  born, clock,    \* connectedAt: the order of registration
  victim,         \* the connection whose eviction a registration awaits
  cpc,            \* the onConnect task of each connection
  rpc,            \* removeConnection, run by an onDisconnect or by a reclaim
  readTenant,     \* the tenant that removal's GET returned
  todo, target,   \* a reclaim's SMEMBERS snapshot and its current member
  \* the Redis side
  conns,          \* presence:user:{u}
  online,         \* presence:online
  roster,         \* presence:tenant:{t}
  userTenant,     \* presence:user:{u}:tenant
  owned,          \* presence:instance:{i}
  \* history: what the properties need to remember
  arrived,        \* connections whose write filled a set
  saidOnline,     \* connections whose hook announced an arrival
  said,                   \* the last announcement about each user
  disturbed,              \* users some index write was raced, lost or torn for
  crashes, discards, faults

procVars    == <<inst, stage, born, clock, victim>>
taskVars    == <<cpc, rpc, readTenant, todo, target>>
redisVars   == <<conns, online, roster, userTenant, owned>>
historyVars == <<arrived, saidOnline, said, disturbed,
                 crashes, discards, faults>>
vars == <<procVars, taskVars, redisVars, historyVars>>

-----------------------------------------------------------------------------
Task == Conn \cup Instance

RecordPc  == {"recUser", "recGlobal", "recOwner", "recTenant", "recRoster"}
ConnectPc == {"none", "add", "count", "announce", "done"} \cup RecordPc

\* After the count reached zero, until the indexes are cleared.
ClearPc  == {"getTenant", "clear", "clrGlobal", "clrTenant", "clrRoster"}
RemovePc == {"none", "remove", "relUser", "relOwner", "recount", "announce",
             "done"} \cup ClearPc

Live(c) == stage[c] \in {"registering", "open"}

\* The live connections that count against c's limit.
Peers(c) == {d \in Conn \ {c} : /\ Live(d)
                                /\ UserOf[d] = UserOf[c]
                                /\ InstOf[d] = InstOf[c]
                                /\ TransportOf[d] = TransportOf[c]}

Oldest(S) == {d \in S : \A e \in S : born[d] <= born[e]}

\* The connection a removal task removes, and the user it belongs to.
Removed(p)   == IF p \in Conn THEN p ELSE target[p]
RemovedFor(p, u) == Removed(p) \in Conn /\ UserOf[Removed(p)] = u

\* Some removal of u has seen the set empty, or may be about to.
Clearing(u) == \E p \in Task : /\ RemovedFor(p, u)
                               /\ rpc[p] \in ClearPc \cup {"relOwner", "recount"}

-----------------------------------------------------------------------------
Init ==
  /\ inst = [i \in Instance |-> "up"]
  /\ stage = [c \in Conn |-> "unborn"]
  /\ born = [c \in Conn |-> 0]
  /\ clock = 0
  /\ victim = [c \in Conn |-> NoConn]
  /\ cpc = [c \in Conn |-> "none"]
  /\ rpc = [p \in Task |-> "none"]
  /\ readTenant = [p \in Task |-> NoTenant]
  /\ todo = [i \in Instance |-> {}]
  /\ target = [i \in Instance |-> NoConn]
  /\ conns = [u \in User |-> {}]
  /\ online = {}
  /\ roster = [t \in Tenant |-> {}]
  /\ userTenant = [u \in User |-> NoTenant]
  /\ owned = [i \in Instance |-> {}]
  /\ arrived = {} /\ saidOnline = {}
  /\ said = [u \in User |-> "none"]
  /\ disturbed = {}
  /\ crashes = 0 /\ discards = 0 /\ faults = 0

-----------------------------------------------------------------------------
(* The connection lifecycle that fires the hooks (the library's registry). *)

Registering(c) ==
  /\ stage[c] = "unborn"
  /\ inst[InstOf[c]] = "up"
  /\ clock' = clock + 1
  /\ born' = [born EXCEPT ![c] = clock + 1]

\* Within the limit: the record is stored and onConnect fires at once.
Register(c) ==
  /\ Registering(c)
  /\ Cardinality(Peers(c)) < MaxPerUser
  /\ stage' = [stage EXCEPT ![c] = "open"]
  /\ cpc' = [cpc EXCEPT ![c] = "add"]
  /\ UNCHANGED <<inst, victim, rpc, readTenant, todo, target, redisVars, historyVars>>

\* Over the limit the oldest peer is evicted first.  An SSE registration
\* awaits the victim's onDisconnect hooks before its own onConnect; a
\* WebSocket one does not, its victim's own disconnect event runs them.
RegisterEvicting(c) ==
  /\ Registering(c)
  /\ Cardinality(Peers(c)) >= MaxPerUser
  /\ \E d \in Oldest(Peers(c)) :
       /\ rpc' = [rpc EXCEPT ![d] = "remove"]
       /\ IF TransportOf[c] = "sse"
          THEN /\ stage' = [stage EXCEPT ![c] = "registering", ![d] = "closed"]
               /\ victim' = [victim EXCEPT ![c] = d]
               /\ UNCHANGED cpc
          ELSE /\ stage' = [stage EXCEPT ![c] = "open", ![d] = "closed"]
               /\ cpc' = [cpc EXCEPT ![c] = "add"]
               /\ UNCHANGED victim
  /\ UNCHANGED <<inst, readTenant, todo, target, redisVars, historyVars>>

\* The awaited eviction is over and the record is still there.
FireConnect(c) ==
  /\ stage[c] = "registering"
  /\ rpc[victim[c]] = "done"
  /\ stage' = [stage EXCEPT ![c] = "open"]
  /\ cpc' = [cpc EXCEPT ![c] = "add"]
  /\ UNCHANGED <<inst, born, clock, victim, rpc, readTenant, todo, target,
                 redisVars, historyVars>>

\* The client leaves, the kill switch fires or re-authentication fails: the
\* record is dropped and onDisconnect fires, whether or not onConnect did.
Close(c) ==
  /\ Live(c)
  /\ stage' = [stage EXCEPT ![c] = "closed"]
  /\ rpc' = [rpc EXCEPT ![c] = "remove"]
  /\ UNCHANGED <<inst, born, clock, victim, cpc, readTenant, todo, target,
                 redisVars, historyVars>>

-----------------------------------------------------------------------------
(* onConnect: addConnection, then the arrival announcement.                *)

SetConnect(c, pc) == cpc' = [cpc EXCEPT ![c] = pc]
\* Mutated: every connection announces the arrival, not only the first.
AfterAddEvery(count) == IF count >= 1 THEN "announce" ELSE "done"
AfterAdd(count) == IF count = 1 THEN "announce" ELSE "done"

JoinUser(c) ==
  /\ conns' = [conns EXCEPT ![UserOf[c]] = @ \cup {c}]
  /\ arrived' = IF conns[UserOf[c]] = {} THEN arrived \cup {c} ELSE arrived
  /\ disturbed' = IF Clearing(UserOf[c]) THEN disturbed \cup {UserOf[c]} ELSE disturbed

ListUser(u) == online' = online \cup {u}
ClaimConn(c) == owned' = [owned EXCEPT ![InstOf[c]] = @ \cup {c}]
RememberTenant(u) == userTenant' = [userTenant EXCEPT ![u] = TenantOf[u]]
EnterRoster(u) == roster' = [roster EXCEPT ![TenantOf[u]] = @ \cup {u}]

\* What no write of addConnection touches.
recordRest == <<procVars, rpc, readTenant, todo, target, saidOnline,
                said, crashes, discards, faults>>

\* One MULTI: the writes and the trailing SCARD.
AddConnection(c) ==
  /\ cpc[c] = "add"
  /\ JoinUser(c) /\ ListUser(UserOf[c]) /\ ClaimConn(c)
  /\ RememberTenant(UserOf[c]) /\ EnterRoster(UserOf[c])
  /\ SetConnect(c, AfterAdd(Cardinality(conns'[UserOf[c]])))
  /\ UNCHANGED recordRest

\* exec() resolves to null: nothing ran, recordConnection reissues it.
DiscardAdd(c) ==
  /\ cpc[c] = "add" /\ discards < MaxDiscards
  /\ discards' = discards + 1
  /\ disturbed' = disturbed \cup {UserOf[c]}
  /\ SetConnect(c, "recUser")
  /\ UNCHANGED <<procVars, rpc, readTenant, todo, target, redisVars, arrived,
                 saidOnline, said, crashes, faults>>

\* recordConnection, one command at a time.
RecordUser(c) ==
  /\ cpc[c] = "recUser" /\ SetConnect(c, "recGlobal")
  /\ JoinUser(c)
  /\ UNCHANGED <<recordRest, online, owned, userTenant, roster>>

RecordGlobal(c) ==
  /\ cpc[c] = "recGlobal" /\ SetConnect(c, "recOwner")
  /\ ListUser(UserOf[c])
  /\ UNCHANGED <<recordRest, conns, arrived, disturbed, owned, userTenant, roster>>

RecordOwner(c) ==
  /\ cpc[c] = "recOwner" /\ SetConnect(c, "recTenant")
  /\ ClaimConn(c)
  /\ UNCHANGED <<recordRest, conns, arrived, disturbed, online, userTenant, roster>>

RecordTenant(c) ==
  /\ cpc[c] = "recTenant" /\ SetConnect(c, "recRoster")
  /\ RememberTenant(UserOf[c])
  /\ UNCHANGED <<recordRest, conns, arrived, disturbed, online, owned, roster>>

RecordRoster(c) ==
  /\ cpc[c] = "recRoster" /\ SetConnect(c, "count")
  /\ EnterRoster(UserOf[c])
  /\ UNCHANGED <<recordRest, conns, arrived, disturbed, online, owned, userTenant>>

RecordConnection(c) == \/ RecordUser(c) \/ RecordGlobal(c) \/ RecordOwner(c)
                       \/ RecordTenant(c) \/ RecordRoster(c)

\* liveCount re-reads the count the discarded transaction did not report.
CountAdded(c) ==
  /\ cpc[c] = "count"
  /\ SetConnect(c, AfterAdd(Cardinality(conns[UserOf[c]])))
  /\ UNCHANGED <<procVars, rpc, readTenant, todo, target, redisVars, historyVars>>

AnnounceOnline(c) ==
  /\ cpc[c] = "announce"
  /\ SetConnect(c, "done")
  /\ saidOnline' = saidOnline \cup {c}
  /\ said' = [said EXCEPT ![UserOf[c]] = "online"]
  /\ UNCHANGED <<procVars, rpc, readTenant, todo, target, redisVars, arrived,
                 disturbed, crashes, discards, faults>>

-----------------------------------------------------------------------------
(* removeConnection, run by the onDisconnect task of a connection (p in    *)
(* Conn) or by the reclaim of an instance (p in Instance).                 *)

Leaver(p) == UserOf[Removed(p)]
Owner(p) == IF p \in Conn THEN InstOf[p] ELSE p

\* What a removal does next: a hook's ends, a reclaim's yields to the loop.
AfterRemoval(p) == IF p \in Conn THEN "done" ELSE "none"
AfterClear(p)   == IF p \in Conn THEN "announce" ELSE "none"
AfterRemove(p, count) == IF count > 0 THEN AfterRemoval(p) ELSE "getTenant"

SetRemoval(p, pc) == rpc' = [rpc EXCEPT ![p] = pc]

\* Mutated: the user's whole key is deleted.
LeaveUserDel(p) == conns' = [conns EXCEPT ![Leaver(p)] = {}]

LeaveUser(p) == conns' = [conns EXCEPT ![Leaver(p)] = @ \ {Removed(p)}]

\* Mutated: the instance's own set is forgotten.
DisclaimConnForgotten(p) == Removed(p) \in Conn /\ UNCHANGED owned
DisclaimConn(p) == owned' = [owned EXCEPT ![Owner(p)] = @ \ {Removed(p)}]

\* What no removal from the sets touches.
removeRest == <<procVars, cpc, readTenant, todo, target, online, roster, userTenant,
                arrived, saidOnline, said, disturbed, crashes,
                discards, faults>>

\* One MULTI: both removals and the trailing SCARD.  An ioredis client sends
\* its commands in order, so the hook's own add has run.
RemoveConnection(p) ==
  /\ rpc[p] = "remove"
  /\ p \in Conn => cpc[p] # "add"
  /\ LeaveUser(p) /\ DisclaimConn(p)
  /\ SetRemoval(p, AfterRemove(p, Cardinality(conns'[Leaver(p)])))
  /\ UNCHANGED removeRest

DiscardRemove(p) ==
  /\ rpc[p] = "remove" /\ discards < MaxDiscards
  /\ p \in Conn => cpc[p] # "add"
  /\ discards' = discards + 1
  /\ SetRemoval(p, "relUser")
  /\ UNCHANGED <<procVars, cpc, readTenant, todo, target, redisVars, arrived,
                 saidOnline, said, disturbed, crashes, faults>>

\* releaseConnection, one command at a time, then liveCount's SCARD.
ReleaseUser(p) ==
  /\ rpc[p] = "relUser" /\ SetRemoval(p, "relOwner")
  /\ LeaveUser(p)
  /\ UNCHANGED <<removeRest, owned>>

ReleaseOwner(p) ==
  /\ rpc[p] = "relOwner" /\ SetRemoval(p, "recount")
  /\ DisclaimConn(p)
  /\ UNCHANGED <<removeRest, conns>>

CountRemaining(p) ==
  /\ rpc[p] = "recount"
  /\ SetRemoval(p, AfterRemove(p, Cardinality(conns[Leaver(p)])))
  /\ UNCHANGED <<procVars, cpc, readTenant, todo, target, redisVars, historyVars>>

\* clearUserIndexes: a GET, then a MULTI that trusts what the GET returned.
ReadTenant(p) ==
  /\ rpc[p] = "getTenant"
  /\ readTenant' = [readTenant EXCEPT ![p] = userTenant[Leaver(p)]]
  /\ SetRemoval(p, "clear")
  /\ UNCHANGED <<procVars, cpc, todo, target, redisVars, historyVars>>

UnlistUser(p) == online' = online \ {Leaver(p)}
ForgetTenant(p) == userTenant' = [userTenant EXCEPT ![Leaver(p)] = NoTenant]

\* Mutated: the tenant roster is forgotten.
LeaveRosterForgotten(p) == Removed(p) \in Conn /\ UNCHANGED roster
LeaveRoster(p) == roster' = [t \in Tenant |-> IF t = readTenant[p]
                                              THEN roster[t] \ {Leaver(p)} ELSE roster[t]]

clearRest == <<procVars, cpc, readTenant, todo, target, conns, owned, historyVars>>

ClearIndexes(p) ==
  /\ rpc[p] = "clear" /\ SetRemoval(p, AfterClear(p))
  /\ UnlistUser(p) /\ ForgetTenant(p) /\ LeaveRoster(p)
  /\ UNCHANGED clearRest

DiscardClear(p) ==
  /\ rpc[p] = "clear" /\ discards < MaxDiscards
  /\ discards' = discards + 1
  /\ SetRemoval(p, "clrGlobal")
  /\ UNCHANGED <<procVars, cpc, readTenant, todo, target, redisVars, arrived,
                 saidOnline, said, disturbed, crashes, faults>>

\* The discarded cleanup, one command at a time; SREM of the roster only if
\* the GET found a tenant.
ReissueGlobal(p) ==
  /\ rpc[p] = "clrGlobal" /\ SetRemoval(p, "clrTenant")
  /\ UnlistUser(p)
  /\ UNCHANGED <<clearRest, userTenant, roster>>

ReissueTenant(p) ==
  /\ rpc[p] = "clrTenant"
  /\ SetRemoval(p, IF readTenant[p] = NoTenant THEN AfterClear(p) ELSE "clrRoster")
  /\ ForgetTenant(p)
  /\ UNCHANGED <<clearRest, online, roster>>

ReissueRoster(p) ==
  /\ rpc[p] = "clrRoster" /\ SetRemoval(p, AfterClear(p))
  /\ LeaveRoster(p)
  /\ UNCHANGED <<clearRest, online, userTenant>>

AnnounceOffline(c) ==
  /\ rpc[c] = "announce"
  /\ SetRemoval(c, "done")
  /\ said' = [said EXCEPT ![UserOf[c]] = "offline"]
  /\ UNCHANGED <<procVars, cpc, readTenant, todo, target, redisVars, arrived,
                 saidOnline, disturbed, crashes, discards, faults>>

-----------------------------------------------------------------------------
(* A rejected command: tolerate() swallows it and the hook ends there.     *)

AbortConnect(c) ==
  /\ cpc[c] \notin {"none", "done"} /\ faults < MaxFaults
  /\ faults' = faults + 1
  /\ SetConnect(c, "done")
  /\ UNCHANGED <<procVars, rpc, readTenant, todo, target, redisVars, arrived,
                 saidOnline, said, disturbed, crashes, discards>>

\* The users whose index cleanup one of the tasks in P was in the middle of.
Interrupted(P) == {u \in User : \E p \in P :
                     /\ RemovedFor(p, u)
                     /\ rpc[p] \in ClearPc \cup {"relOwner", "recount"}}

AbortRemoval(c) ==
  /\ rpc[c] \notin {"none", "done"} /\ faults < MaxFaults
  /\ faults' = faults + 1
  /\ SetRemoval(c, "done")
  /\ disturbed' = disturbed \cup Interrupted({c})
  /\ UNCHANGED <<procVars, cpc, readTenant, todo, target, redisVars, arrived,
                 saidOnline, said, crashes, discards>>

-----------------------------------------------------------------------------
(* Crash, boot and reclaim.                                                *)

DropReclaim(i) ==
  /\ todo' = [todo EXCEPT ![i] = {}]
  /\ target' = [target EXCEPT ![i] = NoConn]

\* The process is killed: its streams and its tasks are gone, Redis is not.
Crash(i) ==
  LET lost(p) == p = i \/ (p \in Conn /\ InstOf[p] = i) IN
  /\ inst[i] # "down" /\ crashes < MaxCrashes
  /\ crashes' = crashes + 1
  /\ inst' = [inst EXCEPT ![i] = "down"]
  /\ stage' = [c \in Conn |-> IF lost(c) /\ Live(c) THEN "closed" ELSE stage[c]]
  /\ cpc' = [c \in Conn |-> IF lost(c) /\ cpc[c] # "none" THEN "done" ELSE cpc[c]]
  /\ rpc' = [p \in Task |-> IF lost(p) /\ rpc[p] # "none" THEN AfterRemoval(p) ELSE rpc[p]]
  /\ disturbed' = disturbed \cup Interrupted({p \in Task : lost(p)})
  /\ DropReclaim(i)
  /\ UNCHANGED <<born, clock, victim, readTenant, redisVars, arrived, saidOnline, said,
                 discards, faults>>

\* Mutated: the boot reads nothing, so the DEL drops what is still owed.
BootBlind(i) ==
  /\ inst[i] = "down"
  /\ inst' = [inst EXCEPT ![i] = "reclaiming"]
  /\ UNCHANGED <<stage, born, clock, victim, taskVars, redisVars, historyVars>>

\* onApplicationBootstrap runs before the server listens: SMEMBERS.
Boot(i) ==
  /\ inst[i] = "down"
  /\ inst' = [inst EXCEPT ![i] = "reclaiming"]
  /\ todo' = [todo EXCEPT ![i] = owned[i]]
  /\ UNCHANGED <<stage, born, clock, victim, cpc, rpc, readTenant, target, redisVars,
                 historyVars>>

\* The loop's next member: setOffline, which announces nothing.
ReclaimNext(i) ==
  /\ inst[i] = "reclaiming" /\ rpc[i] = "none"
  /\ \E c \in todo[i] :
       /\ target' = [target EXCEPT ![i] = c]
       /\ todo' = [todo EXCEPT ![i] = @ \ {c}]
  /\ SetRemoval(i, "remove")
  /\ UNCHANGED <<procVars, cpc, readTenant, redisVars, historyVars>>

\* The final DEL of the instance's own key; only now does the server listen.
ReclaimDone(i) ==
  /\ inst[i] = "reclaiming" /\ rpc[i] = "none" /\ todo[i] = {}
  /\ owned' = [owned EXCEPT ![i] = {}]
  /\ inst' = [inst EXCEPT ![i] = "up"]
  /\ DropReclaim(i)
  /\ UNCHANGED <<stage, born, clock, victim, cpc, rpc, readTenant, conns, online,
                 roster, userTenant, historyVars>>

\* A command of the reclaim rejects: it is abandoned and the server listens.
ReclaimFails(i) ==
  /\ inst[i] = "reclaiming" /\ faults < MaxFaults
  /\ faults' = faults + 1
  /\ inst' = [inst EXCEPT ![i] = "up"]
  /\ SetRemoval(i, "none")
  /\ disturbed' = disturbed \cup Interrupted({i})
  /\ DropReclaim(i)
  /\ UNCHANGED <<stage, born, clock, victim, cpc, readTenant, redisVars, arrived,
                 saidOnline, said, crashes, discards>>

-----------------------------------------------------------------------------
ConnectStep(c) == AddConnection(c) \/ RecordConnection(c) \/ CountAdded(c)
                  \/ AnnounceOnline(c)
RemovalStep(p) == \/ RemoveConnection(p) \/ ReleaseUser(p) \/ ReleaseOwner(p)
                  \/ CountRemaining(p) \/ ReadTenant(p) \/ ClearIndexes(p)
                  \/ ReissueGlobal(p) \/ ReissueTenant(p) \/ ReissueRoster(p)
ReclaimStep(i) == ReclaimNext(i) \/ ReclaimDone(i)

Next ==
  \/ \E c \in Conn : \/ Register(c) \/ RegisterEvicting(c) \/ FireConnect(c) \/ Close(c)
                     \/ ConnectStep(c) \/ DiscardAdd(c) \/ AbortConnect(c)
                     \/ AnnounceOffline(c) \/ AbortRemoval(c)
  \/ \E p \in Task : RemovalStep(p) \/ DiscardRemove(p) \/ DiscardClear(p)
  \/ \E i \in Instance : Crash(i) \/ Boot(i) \/ ReclaimStep(i) \/ ReclaimFails(i)

Spec == Init /\ [][Next]_vars

\* The event loop runs every task whose reply arrived; a killed container is
\* restarted by its supervisor.  Clients owe nothing.
Fairness ==
  /\ \A c \in Conn : /\ WF_vars(ConnectStep(c)) /\ WF_vars(AnnounceOffline(c))
                     /\ WF_vars(FireConnect(c))
  /\ \A p \in Task : WF_vars(RemovalStep(p))
  /\ \A i \in Instance : WF_vars(Boot(i)) /\ WF_vars(ReclaimStep(i))

FairSpec == Spec /\ Fairness

-----------------------------------------------------------------------------
(* What the API reads.                                                     *)

isOnline(u) == conns[u] # {}
listOnlineByTenant(t) == roster[t]
isConnectionOwnedByUser(u, c) == c \in conns[u]

TypeOK ==
  /\ inst \in [Instance -> {"up", "down", "reclaiming"}]
  /\ stage \in [Conn -> {"unborn", "registering", "open", "closed"}]
  /\ born \in [Conn -> Nat] /\ clock \in Nat
  /\ victim \in [Conn -> Conn \cup {NoConn}]
  /\ cpc \in [Conn -> ConnectPc]
  /\ rpc \in [Task -> RemovePc]
  /\ readTenant \in [Task -> Tenant \cup {NoTenant}]
  /\ todo \in [Instance -> SUBSET Conn]
  /\ target \in [Instance -> Conn \cup {NoConn}]
  /\ conns \in [User -> SUBSET Conn]
  /\ online \subseteq User
  /\ roster \in [Tenant -> SUBSET User]
  /\ userTenant \in [User -> Tenant \cup {NoTenant}]
  /\ owned \in [Instance -> SUBSET Conn]
  /\ arrived \subseteq Conn /\ saidOnline \subseteq Conn
  /\ said \in [User -> {"none", "online", "offline"}]
  /\ disturbed \subseteq User
  /\ {crashes, discards, faults} \subseteq Nat

\* Nothing is in flight anywhere.
Quiescent == /\ \A c \in Conn : cpc[c] \in {"none", "done"} /\ rpc[c] \in {"none", "done"}
             /\ \A i \in Instance : inst[i] = "up"

\* A user's set and the instances' own keys record the same connections, so
\* a reclaim finds all that a dead process left and the kill switch never
\* authorises a user for someone else's stream.  Only a discarded MULTI,
\* whose commands are reissued one by one, can part the two.
OwnershipMirror ==
  discards = 0 =>
    \A c \in Conn :
      /\ \A u \in User : isConnectionOwnedByUser(u, c)
                           => u = UserOf[c] /\ c \in owned[InstOf[c]]
      /\ \A i \in Instance : c \in owned[i] => i = InstOf[c] /\ c \in conns[UserOf[c]]

\* A stream whose connect hook has written is in its user's set for as long
\* as it is open: no other connection's removal, no reclaim (of this or of
\* another instance) and no cleanup of the user's indexes takes it out.
LiveIsPresent ==
  faults = 0 =>
    \A c \in Conn : stage[c] = "open" /\ cpc[c] \in {"count", "announce", "done"}
                      => isConnectionOwnedByUser(UserOf[c], c)

\* An entry of a set stands for an open stream, or its removal is still to
\* run: the connection's own, or the reclaim of its dead instance.
NoPhantom ==
  discards = 0 /\ faults = 0 =>
    \A c \in Conn : isConnectionOwnedByUser(UserOf[c], c) =>
      LET i == InstOf[c] IN
      \/ Live(c) \/ rpc[c] = "remove"
      \/ inst[i] = "down"
      \/ inst[i] = "reclaiming" /\ (c \in todo[i] \/ (target[i] = c /\ rpc[i] = "remove"))

\* The tenant roster and the global set agree with the connection sets for
\* every user none of whose index writes was raced, lost or torn: an arrival
\* inside another removal's cleanup, a crash or a rejected command inside
\* one, and a discarded add are the only ways the indexes can go wrong.
IndexesExact ==
  \A u \in User \ disturbed :
    /\ isOnline(u) => u \in online /\ u \in listOnlineByTenant(TenantOf[u])
    /\ ~isOnline(u) /\ ~Clearing(u)
         => u \notin online /\ \A t \in Tenant : u \notin listOnlineByTenant(t)

\* presence:online is said for exactly the connections that took a user's
\* set from empty to occupied; what has not been said yet is about to be.
ArrivalAnnounced ==
  discards = 0 =>
    /\ saidOnline \subseteq arrived
    /\ faults = 0 /\ crashes = 0 =>
         \A c \in arrived : c \in saidOnline \/ cpc[c] = "announce"

\* A closed stream leaves its user's set for good, even when the instance
\* that held it was killed, so no user stays online on a dead stream; only a
\* discarded or a rejected command can leave it there.
ClosedLeaves ==
  \A c \in Conn :
    stage[c] = "closed" ~> (discards + faults > 0 \/ [](c \notin conns[UserOf[c]]))

\* The sets and the announcements behave as the ledger promises: who owes an
\* arrival is settled by the one step that fills the set, whatever runs
\* between that step and the announcement.
Ledger == INSTANCE PresenceLedger WITH
            members <- {c \in Conn : isConnectionOwnedByUser(UserOf[c], c)},
            owed    <- {c \in Conn : cpc[c] = "announce"},
            told    <- saidOnline

ImplementsLedger == Ledger!LedgerSpec

-----------------------------------------------------------------------------
(* What the repository's comments claim and the code does not do.          *)

\* "a user with two tabs stays online until both close": with nothing in
\* flight, a user with an open stream is on the tenant's roster.
LiveUserListed ==
  Quiescent => \A u \in User : isOnline(u) => u \in listOnlineByTenant(TenantOf[u])
=============================================================================
