--------------------------- MODULE PresenceProofs ---------------------------
(***************************************************************************)
(* Proofs about Presence for every set of users, connections and           *)
(* instances, every limit and every bound on crashes, discards and faults. *)
(***************************************************************************)
EXTENDS Presence, FiniteSetTheorems, TLAPS

\* Every action of Next under its own name, for the case splits below.
LEMMA NextActions ==
  ASSUME Next
  PROVE  \/ \E c \in Conn :
              \/ Register(c) \/ RegisterEvicting(c) \/ FireConnect(c) \/ Close(c)
              \/ AddConnection(c) \/ RecordUser(c) \/ RecordGlobal(c) \/ RecordOwner(c)
              \/ RecordTenant(c) \/ RecordRoster(c) \/ CountAdded(c)
              \/ AnnounceOnline(c) \/ DiscardAdd(c) \/ AbortConnect(c)
              \/ AnnounceOffline(c) \/ AbortRemoval(c)
         \/ \E p \in Task :
              \/ RemoveConnection(p) \/ ReleaseUser(p) \/ ReleaseOwner(p) \/ CountRemaining(p)
              \/ ReadTenant(p) \/ ClearIndexes(p) \/ ReissueGlobal(p)
              \/ ReissueTenant(p) \/ ReissueRoster(p)
              \/ DiscardRemove(p) \/ DiscardClear(p)
         \/ \E i \in Instance :
              Crash(i) \/ Boot(i) \/ ReclaimNext(i) \/ ReclaimDone(i) \/ ReclaimFails(i)
BY DEF Next, ConnectStep, RecordConnection, RemovalStep, ReclaimStep

-----------------------------------------------------------------------------
(* A reclaim's task always has a connection of its own instance at hand.   *)
TargetInv ==
  \A i \in Instance :
    /\ rpc[i] # "none" => /\ target[i] \in Conn
                          /\ InstOf[target[i]] = i
                          /\ inst[i] = "reclaiming"
    /\ \A c \in todo[i] \cup owned[i] : InstOf[c] = i

\* The registry, the tasks and the process agree about who is alive.
StageInv ==
  \A c \in Conn :
    /\ Live(c) => inst[InstOf[c]] = "up"
    /\ rpc[c] # "none" => stage[c] = "closed"
    /\ stage[c] \in {"unborn", "registering"} => cpc[c] = "none"
    /\ cpc[c] = "add" => inst[InstOf[c]] = "up"
    /\ cpc[c] = "add" /\ faults = 0 => Live(c) \/ rpc[c] = "remove"

\* A connection's hook has issued its write.
Written(c) == cpc[c] \notin {"none", "add", "recUser"}

PresentInv ==
  faults = 0 =>
    \A c \in Conn : stage[c] = "open" /\ Written(c) => c \in conns[UserOf[c]]

\* A connection is only ever in the set of its own user.
OwnUserInv == \A u \in User : \A c \in conns[u] : u = UserOf[c]

\* While no MULTI has been discarded no task runs command by command, both
\* records agree, and a reclaim still holds all that its key lists.
MirrorInv ==
  discards = 0 =>
    /\ \A c \in Conn : /\ cpc[c] \notin RecordPc \cup {"count"}
                       /\ c \in conns[UserOf[c]] <=> c \in owned[InstOf[c]]
    /\ \A p \in Task : rpc[p] \notin {"relUser", "relOwner", "recount"}
    /\ \A i \in Instance : \A c \in owned[i] :
         inst[i] = "reclaiming" => c \in todo[i] \/ (target[i] = c /\ rpc[i] = "remove")

IInv == TypeOK /\ TargetInv /\ StageInv /\ PresentInv /\ OwnUserInv /\ MirrorInv /\ NoPhantom

LEMMA TypeInit == Init => TypeOK
<1> USE ConstantsAssumption
<1> QED
  BY SMTT(60) DEF Init, TypeOK, Task, ConnectPc, RemovePc, RecordPc, ClearPc

\* What a registration over the limit does to the task of its victim d.
Evicted(c, d) ==
  /\ rpc' = [rpc EXCEPT ![d] = "remove"]
  /\ \/ /\ stage' = [stage EXCEPT ![c] = "registering", ![d] = "closed"]
        /\ victim' = [victim EXCEPT ![c] = d]
        /\ UNCHANGED cpc
     \/ /\ stage' = [stage EXCEPT ![c] = "open", ![d] = "closed"]
        /\ cpc' = [cpc EXCEPT ![c] = "add"]
        /\ UNCHANGED victim

LEMMA EvictingEffect ==
  ASSUME NEW c \in Conn, RegisterEvicting(c)
  PROVE  \E d \in Conn \ {c} : Live(d) /\ Evicted(c, d)
BY DEF RegisterEvicting, Oldest, Peers, Evicted

\* What a removal's transaction does, whichever way it goes on.
LEMMA RemoveEffect ==
  ASSUME NEW p \in Task, RemoveConnection(p)
  PROVE  /\ rpc[p] = "remove" /\ (p \in Conn => cpc[p] # "add")
         /\ conns' = [conns EXCEPT ![Leaver(p)] = @ \ {Removed(p)}]
         /\ owned' = [owned EXCEPT ![Owner(p)] = @ \ {Removed(p)}]
         /\ \/ rpc' = [rpc EXCEPT ![p] = "getTenant"]
            \/ rpc' = [rpc EXCEPT ![p] = AfterRemoval(p)]
         /\ UNCHANGED <<inst, stage, born, clock, victim, faults, cpc, todo, target, readTenant>>
         /\ UNCHANGED <<discards, crashes, disturbed, arrived, saidOnline, said>>
         /\ UNCHANGED <<online, roster, userTenant>>
BY DEF RemoveConnection, LeaveUser, DisclaimConn, AfterRemove, SetRemoval, removeRest, procVars

LEMMA TypeConn ==
  ASSUME TypeOK, NEW c \in Conn,
         \/ Register(c) \/ RegisterEvicting(c) \/ FireConnect(c) \/ Close(c)
  PROVE  TypeOK'
<1> USE ConstantsAssumption DEF TypeOK, procVars, taskVars, redisVars, historyVars, vars,
        Task, ConnectPc, RemovePc, RecordPc, ClearPc
<1>1. CASE Register(c) BY <1>1 DEF Register, Registering
<1>2. CASE RegisterEvicting(c)
  <2>1. PICK d \in Conn \ {c} : Evicted(c, d)
    BY <1>2, EvictingEffect
  <2>2. clock' \in Nat /\ born' \in [Conn -> Nat]
    BY <1>2 DEF RegisterEvicting, Registering
  <2>3. stage' \in [Conn -> {"unborn", "registering", "open", "closed"}]
    BY <2>1 DEF Evicted
  <2>4. rpc' \in [Task -> RemovePc]
    BY <2>1 DEF Evicted
  <2>7. victim' = [victim EXCEPT ![c] = d] \/ victim' = victim
    BY <2>1 DEF Evicted
  <2>8. victim' \in [Conn -> Conn \cup {NoConn}]
    <3>1. victim \in [Conn -> Conn \cup {NoConn}]
      OBVIOUS
    <3> HIDE DEF TypeOK, vars
    <3> QED BY <2>7, <3>1
  <2>9. cpc' = [cpc EXCEPT ![c] = "add"] \/ cpc' = cpc
    BY <2>1 DEF Evicted
  <2>5. cpc' \in [Conn -> ConnectPc]
    BY <2>9
  <2>6. UNCHANGED <<inst, readTenant, todo, target, redisVars, historyVars>>
    BY <1>2 DEF RegisterEvicting
  <2> QED BY <2>2, <2>3, <2>4, <2>5, <2>6, <2>8
<1>3. CASE FireConnect(c) BY <1>3 DEF FireConnect
<1>4. CASE Close(c) BY <1>4 DEF Close
<1> QED BY <1>1, <1>2, <1>3, <1>4

LEMMA TypeConnect ==
  ASSUME TypeOK, NEW c \in Conn,
         \/ AddConnection(c) \/ RecordUser(c) \/ RecordGlobal(c) \/ RecordOwner(c)
         \/ RecordTenant(c) \/ RecordRoster(c) \/ CountAdded(c)
         \/ AnnounceOnline(c) \/ DiscardAdd(c) \/ AbortConnect(c)
  PROVE  TypeOK'
<1> USE ConstantsAssumption DEF TypeOK, procVars, taskVars, redisVars, historyVars,
        recordRest, Task, ConnectPc, RemovePc, RecordPc, ClearPc, SetConnect, AfterAdd
<1>1. CASE AddConnection(c)
  BY <1>1 DEF AddConnection, JoinUser, ListUser, ClaimConn, RememberTenant, EnterRoster
<1>2. CASE RecordUser(c) BY <1>2 DEF RecordUser, JoinUser
<1>7. CASE RecordGlobal(c) BY <1>7 DEF RecordGlobal, ListUser
<1>8. CASE RecordOwner(c) BY <1>8 DEF RecordOwner, ClaimConn
<1>9. CASE RecordTenant(c) BY <1>9 DEF RecordTenant, RememberTenant
<1>10. CASE RecordRoster(c) BY <1>10 DEF RecordRoster, EnterRoster
<1>3. CASE CountAdded(c) BY <1>3 DEF CountAdded
<1>4. CASE AnnounceOnline(c) BY <1>4 DEF AnnounceOnline
<1>5. CASE DiscardAdd(c) BY <1>5 DEF DiscardAdd
<1>6. CASE AbortConnect(c) BY <1>6 DEF AbortConnect
<1> HIDE DEF TypeOK
<1> QED BY <1>1, <1>2, <1>3, <1>4, <1>5, <1>6, <1>7, <1>8, <1>9, <1>10

LEMMA TypeRemoval ==
  ASSUME TypeOK, TargetInv, NEW p \in Task,
         \/ RemoveConnection(p) \/ ReleaseUser(p) \/ ReleaseOwner(p) \/ CountRemaining(p)
         \/ ReadTenant(p) \/ ClearIndexes(p) \/ ReissueGlobal(p)
         \/ ReissueTenant(p) \/ ReissueRoster(p)
         \/ DiscardRemove(p) \/ DiscardClear(p)
  PROVE  TypeOK'
<1> USE ConstantsAssumption DEF TypeOK, procVars, taskVars, redisVars, historyVars,
        removeRest, clearRest, Task, ConnectPc, RemovePc, RecordPc, ClearPc,
        SetRemoval, AfterRemoval, AfterClear, AfterRemove
<1>0. rpc[p] # "none" => Removed(p) \in Conn /\ Leaver(p) \in User /\ Owner(p) \in Instance
  BY DEF TargetInv, Removed, Leaver, Owner
<1>1. CASE RemoveConnection(p)
  BY <1>0, <1>1 DEF RemoveConnection, LeaveUser, DisclaimConn
<1>2. CASE ReleaseUser(p) BY <1>0, <1>2 DEF ReleaseUser, LeaveUser
<1>9. CASE ReleaseOwner(p) BY <1>0, <1>9 DEF ReleaseOwner, DisclaimConn
<1>3. CASE CountRemaining(p) BY <1>3 DEF CountRemaining
<1>4. CASE ReadTenant(p) BY <1>0, <1>4 DEF ReadTenant
<1>5. CASE ClearIndexes(p)
  BY <1>0, <1>5 DEF ClearIndexes, UnlistUser, ForgetTenant, LeaveRoster
<1>6. CASE ReissueGlobal(p) BY <1>0, <1>6 DEF ReissueGlobal, UnlistUser
<1>10. CASE ReissueTenant(p) BY <1>0, <1>10 DEF ReissueTenant, ForgetTenant
<1>11. CASE ReissueRoster(p) BY <1>0, <1>11 DEF ReissueRoster, LeaveRoster
<1>7. CASE DiscardRemove(p) BY <1>7 DEF DiscardRemove
<1>8. CASE DiscardClear(p) BY <1>8 DEF DiscardClear
<1> HIDE DEF TypeOK
<1> QED BY <1>1, <1>2, <1>3, <1>4, <1>5, <1>6, <1>7, <1>8, <1>9, <1>10, <1>11

LEMMA TypeHookEnd ==
  ASSUME TypeOK, NEW c \in Conn, AnnounceOffline(c) \/ AbortRemoval(c)
  PROVE  TypeOK'
<1> USE ConstantsAssumption DEF TypeOK, procVars, taskVars, redisVars, historyVars,
        Task, ConnectPc, RemovePc, RecordPc, ClearPc, SetRemoval, Interrupted
<1>1. CASE AnnounceOffline(c) BY <1>1 DEF AnnounceOffline
<1>2. CASE AbortRemoval(c) BY <1>2 DEF AbortRemoval
<1> QED BY <1>1, <1>2

LEMMA TypeInstance ==
  ASSUME TypeOK, NEW i \in Instance,
         Crash(i) \/ Boot(i) \/ ReclaimNext(i) \/ ReclaimDone(i) \/ ReclaimFails(i)
  PROVE  TypeOK'
<1> USE ConstantsAssumption DEF TypeOK, procVars, taskVars, redisVars, historyVars,
        Task, ConnectPc, RemovePc, RecordPc, ClearPc, SetRemoval, Interrupted, DropReclaim
<1>1. CASE Crash(i)
  <2>1. inst' \in [Instance -> {"up", "down", "reclaiming"}]
    BY <1>1 DEF Crash
  <2>2. stage' \in [Conn -> {"unborn", "registering", "open", "closed"}]
    BY <1>1 DEF Crash
  <2>3. cpc' \in [Conn -> ConnectPc]
    BY <1>1 DEF Crash
  <2>4. rpc' \in [Task -> RemovePc]
    BY <1>1 DEF Crash, AfterRemoval
  <2>5. todo' \in [Instance -> SUBSET Conn] /\ target' \in [Instance -> Conn \cup {NoConn}]
    BY <1>1 DEF Crash
  <2>6. disturbed' \subseteq User /\ crashes' \in Nat
    BY <1>1 DEF Crash
  <2> QED BY <1>1, <2>1, <2>2, <2>3, <2>4, <2>5, <2>6 DEF Crash
<1>2. CASE Boot(i) BY <1>2 DEF Boot
<1>3. CASE ReclaimNext(i) BY <1>3 DEF ReclaimNext
<1>4. CASE ReclaimDone(i) BY <1>4 DEF ReclaimDone
<1>5. CASE ReclaimFails(i) BY <1>5 DEF ReclaimFails
<1> QED BY <1>1, <1>2, <1>3, <1>4, <1>5
-----------------------------------------------------------------------------
(* One lemma per conjunct, one step per action.                            *)

\* A reclaim works only on members of its own key.
LEMMA TargetStep ==
  ASSUME IInv, [Next]_vars
  PROVE  TargetInv'
<1> USE ConstantsAssumption
    DEF IInv, TypeOK, Task, procVars, taskVars, redisVars, historyVars, vars, recordRest,
        removeRest, clearRest, ConnectPc, RemovePc, RecordPc, ClearPc, SetConnect,
        SetRemoval, AfterRemoval, Removed, Leaver, Owner,
        TargetInv
<1>1. ASSUME NEW c \in Conn, Register(c) PROVE TargetInv'
  BY <1>1 DEF Register, Registering
<1>2. ASSUME NEW c \in Conn, RegisterEvicting(c) PROVE TargetInv'
  BY <1>2 DEF RegisterEvicting, Registering, Oldest, Peers
<1>3. ASSUME NEW c \in Conn, FireConnect(c) PROVE TargetInv'
  BY <1>3 DEF FireConnect
<1>4. ASSUME NEW c \in Conn, Close(c) PROVE TargetInv'
  BY <1>4 DEF Close
<1>5. ASSUME NEW c \in Conn, AddConnection(c) PROVE TargetInv'
  BY <1>5 DEF AddConnection, JoinUser, ListUser, ClaimConn, RememberTenant, EnterRoster, AfterAdd
<1>6. ASSUME NEW c \in Conn, RecordUser(c) PROVE TargetInv'
  BY <1>6 DEF RecordUser, JoinUser
<1>7. ASSUME NEW c \in Conn, RecordGlobal(c) PROVE TargetInv'
  BY <1>7 DEF RecordGlobal, ListUser
<1>8. ASSUME NEW c \in Conn, RecordOwner(c) PROVE TargetInv'
  BY <1>8 DEF RecordOwner, ClaimConn
<1>9. ASSUME NEW c \in Conn, RecordTenant(c) PROVE TargetInv'
  BY <1>9 DEF RecordTenant, RememberTenant
<1>10. ASSUME NEW c \in Conn, RecordRoster(c) PROVE TargetInv'
  BY <1>10 DEF RecordRoster, EnterRoster
<1>11. ASSUME NEW c \in Conn, CountAdded(c) PROVE TargetInv'
  BY <1>11 DEF CountAdded, AfterAdd
<1>12. ASSUME NEW c \in Conn, AnnounceOnline(c) PROVE TargetInv'
  BY <1>12 DEF AnnounceOnline
<1>13. ASSUME NEW c \in Conn, DiscardAdd(c) PROVE TargetInv'
  BY <1>13 DEF DiscardAdd
<1>14. ASSUME NEW c \in Conn, AbortConnect(c) PROVE TargetInv'
  BY <1>14 DEF AbortConnect
<1>15. ASSUME NEW c \in Conn, AnnounceOffline(c) PROVE TargetInv'
  BY <1>15 DEF AnnounceOffline
<1>16. ASSUME NEW c \in Conn, AbortRemoval(c) PROVE TargetInv'
  BY <1>16 DEF AbortRemoval
<1>17. ASSUME NEW p \in Task, RemoveConnection(p) PROVE TargetInv'
  <2>1. /\ rpc[p] = "remove" /\ (p \in Conn => cpc[p] # "add")
        /\ conns' = [conns EXCEPT ![Leaver(p)] = @ \ {Removed(p)}]
        /\ owned' = [owned EXCEPT ![Owner(p)] = @ \ {Removed(p)}]
        /\ UNCHANGED <<inst, stage, faults, cpc, todo, target, readTenant, discards>>
    BY <1>17, RemoveEffect
  <2>2. CASE rpc' = [rpc EXCEPT ![p] = "getTenant"]
    BY <2>1, <2>2
  <2>3. CASE rpc' = [rpc EXCEPT ![p] = AfterRemoval(p)]
    BY <2>1, <2>3
  <2>4. \/ rpc' = [rpc EXCEPT ![p] = "getTenant"]
        \/ rpc' = [rpc EXCEPT ![p] = AfterRemoval(p)]
    BY <1>17, RemoveEffect
  <2> QED BY <2>2, <2>3, <2>4, Zenon
<1>18. ASSUME NEW p \in Task, ReleaseUser(p) PROVE TargetInv'
  BY <1>18 DEF ReleaseUser, LeaveUser
<1>19. ASSUME NEW p \in Task, ReleaseOwner(p) PROVE TargetInv'
  BY <1>19 DEF ReleaseOwner, DisclaimConn
<1>20. ASSUME NEW p \in Task, CountRemaining(p) PROVE TargetInv'
  BY <1>20 DEF CountRemaining, AfterRemove
<1>21. ASSUME NEW p \in Task, ReadTenant(p) PROVE TargetInv'
  BY <1>21 DEF ReadTenant
<1>22. ASSUME NEW p \in Task, ClearIndexes(p) PROVE TargetInv'
  BY <1>22 DEF ClearIndexes, UnlistUser, ForgetTenant, LeaveRoster, AfterClear
<1>23. ASSUME NEW p \in Task, ReissueGlobal(p) PROVE TargetInv'
  BY <1>23 DEF ReissueGlobal, UnlistUser
<1>24. ASSUME NEW p \in Task, ReissueTenant(p) PROVE TargetInv'
  BY <1>24 DEF ReissueTenant, ForgetTenant, AfterClear
<1>25. ASSUME NEW p \in Task, ReissueRoster(p) PROVE TargetInv'
  BY <1>25 DEF ReissueRoster, LeaveRoster, AfterClear
<1>26. ASSUME NEW p \in Task, DiscardRemove(p) PROVE TargetInv'
  BY <1>26 DEF DiscardRemove
<1>27. ASSUME NEW p \in Task, DiscardClear(p) PROVE TargetInv'
  BY <1>27 DEF DiscardClear
<1>28. ASSUME NEW i \in Instance, Crash(i) PROVE TargetInv'
  BY <1>28 DEF Crash, DropReclaim, Interrupted
<1>29. ASSUME NEW i \in Instance, Boot(i) PROVE TargetInv'
  BY <1>29 DEF Boot
<1>30. ASSUME NEW i \in Instance, ReclaimNext(i) PROVE TargetInv'
  BY <1>30 DEF ReclaimNext
<1>31. ASSUME NEW i \in Instance, ReclaimDone(i) PROVE TargetInv'
  BY <1>31 DEF ReclaimDone, DropReclaim
<1>32. ASSUME NEW i \in Instance, ReclaimFails(i) PROVE TargetInv'
  BY <1>32 DEF ReclaimFails, DropReclaim, Interrupted
<1>33. CASE UNCHANGED vars BY <1>33
<1> HIDE DEF IInv, TargetInv
<1> QED BY <1>1, <1>2, <1>3, <1>4, <1>5, <1>6, <1>7, <1>8, <1>9, <1>10, <1>11,
      <1>12, <1>13, <1>14, <1>15, <1>16, <1>17, <1>18, <1>19, <1>20, <1>21,
      <1>22, <1>23, <1>24, <1>25, <1>26, <1>27, <1>28, <1>29, <1>30, <1>31,
      <1>32, <1>33, NextActions

\* No stream outlives its process, and a hook fires only where it can.
LEMMA StageStep ==
  ASSUME IInv, [Next]_vars
  PROVE  StageInv'
<1> USE ConstantsAssumption
    DEF IInv, TypeOK, Task, procVars, taskVars, redisVars, historyVars, vars, recordRest,
        removeRest, clearRest, ConnectPc, RemovePc, RecordPc, ClearPc, SetConnect,
        SetRemoval, AfterRemoval, Removed, Leaver, Owner,
        StageInv, Live, TargetInv
<1>1. ASSUME NEW c \in Conn, Register(c) PROVE StageInv'
  BY <1>1 DEF Register, Registering
<1>2. ASSUME NEW c \in Conn, RegisterEvicting(c) PROVE StageInv'
  BY <1>2 DEF RegisterEvicting, Registering, Oldest, Peers
<1>3. ASSUME NEW c \in Conn, FireConnect(c) PROVE StageInv'
  BY <1>3 DEF FireConnect
<1>4. ASSUME NEW c \in Conn, Close(c) PROVE StageInv'
  BY <1>4 DEF Close
<1>5. ASSUME NEW c \in Conn, AddConnection(c) PROVE StageInv'
  BY <1>5 DEF AddConnection, JoinUser, ListUser, ClaimConn, RememberTenant, EnterRoster, AfterAdd
<1>6. ASSUME NEW c \in Conn, RecordUser(c) PROVE StageInv'
  BY <1>6 DEF RecordUser, JoinUser
<1>7. ASSUME NEW c \in Conn, RecordGlobal(c) PROVE StageInv'
  BY <1>7 DEF RecordGlobal, ListUser
<1>8. ASSUME NEW c \in Conn, RecordOwner(c) PROVE StageInv'
  BY <1>8 DEF RecordOwner, ClaimConn
<1>9. ASSUME NEW c \in Conn, RecordTenant(c) PROVE StageInv'
  BY <1>9 DEF RecordTenant, RememberTenant
<1>10. ASSUME NEW c \in Conn, RecordRoster(c) PROVE StageInv'
  BY <1>10 DEF RecordRoster, EnterRoster
<1>11. ASSUME NEW c \in Conn, CountAdded(c) PROVE StageInv'
  BY <1>11 DEF CountAdded, AfterAdd
<1>12. ASSUME NEW c \in Conn, AnnounceOnline(c) PROVE StageInv'
  BY <1>12 DEF AnnounceOnline
<1>13. ASSUME NEW c \in Conn, DiscardAdd(c) PROVE StageInv'
  BY <1>13 DEF DiscardAdd
<1>14. ASSUME NEW c \in Conn, AbortConnect(c) PROVE StageInv'
  BY <1>14 DEF AbortConnect
<1>15. ASSUME NEW c \in Conn, AnnounceOffline(c) PROVE StageInv'
  BY <1>15 DEF AnnounceOffline
<1>16. ASSUME NEW c \in Conn, AbortRemoval(c) PROVE StageInv'
  BY <1>16 DEF AbortRemoval
<1>17. ASSUME NEW p \in Task, RemoveConnection(p) PROVE StageInv'
  <2>1. /\ rpc[p] = "remove" /\ (p \in Conn => cpc[p] # "add")
        /\ conns' = [conns EXCEPT ![Leaver(p)] = @ \ {Removed(p)}]
        /\ owned' = [owned EXCEPT ![Owner(p)] = @ \ {Removed(p)}]
        /\ UNCHANGED <<inst, stage, faults, cpc, todo, target, readTenant, discards>>
    BY <1>17, RemoveEffect
  <2>2. CASE rpc' = [rpc EXCEPT ![p] = "getTenant"]
    BY <2>1, <2>2
  <2>3. CASE rpc' = [rpc EXCEPT ![p] = AfterRemoval(p)]
    BY <2>1, <2>3
  <2>4. \/ rpc' = [rpc EXCEPT ![p] = "getTenant"]
        \/ rpc' = [rpc EXCEPT ![p] = AfterRemoval(p)]
    BY <1>17, RemoveEffect
  <2> QED BY <2>2, <2>3, <2>4, Zenon
<1>18. ASSUME NEW p \in Task, ReleaseUser(p) PROVE StageInv'
  BY <1>18 DEF ReleaseUser, LeaveUser
<1>19. ASSUME NEW p \in Task, ReleaseOwner(p) PROVE StageInv'
  BY <1>19 DEF ReleaseOwner, DisclaimConn
<1>20. ASSUME NEW p \in Task, CountRemaining(p) PROVE StageInv'
  BY <1>20 DEF CountRemaining, AfterRemove
<1>21. ASSUME NEW p \in Task, ReadTenant(p) PROVE StageInv'
  BY <1>21 DEF ReadTenant
<1>22. ASSUME NEW p \in Task, ClearIndexes(p) PROVE StageInv'
  BY <1>22 DEF ClearIndexes, UnlistUser, ForgetTenant, LeaveRoster, AfterClear
<1>23. ASSUME NEW p \in Task, ReissueGlobal(p) PROVE StageInv'
  BY <1>23 DEF ReissueGlobal, UnlistUser
<1>24. ASSUME NEW p \in Task, ReissueTenant(p) PROVE StageInv'
  BY <1>24 DEF ReissueTenant, ForgetTenant, AfterClear
<1>25. ASSUME NEW p \in Task, ReissueRoster(p) PROVE StageInv'
  BY <1>25 DEF ReissueRoster, LeaveRoster, AfterClear
<1>26. ASSUME NEW p \in Task, DiscardRemove(p) PROVE StageInv'
  BY <1>26 DEF DiscardRemove
<1>27. ASSUME NEW p \in Task, DiscardClear(p) PROVE StageInv'
  BY <1>27 DEF DiscardClear
<1>28. ASSUME NEW i \in Instance, Crash(i) PROVE StageInv'
  BY <1>28 DEF Crash, DropReclaim, Interrupted
<1>29. ASSUME NEW i \in Instance, Boot(i) PROVE StageInv'
  BY <1>29 DEF Boot
<1>30. ASSUME NEW i \in Instance, ReclaimNext(i) PROVE StageInv'
  BY <1>30 DEF ReclaimNext
<1>31. ASSUME NEW i \in Instance, ReclaimDone(i) PROVE StageInv'
  BY <1>31 DEF ReclaimDone, DropReclaim
<1>32. ASSUME NEW i \in Instance, ReclaimFails(i) PROVE StageInv'
  BY <1>32 DEF ReclaimFails, DropReclaim, Interrupted
<1>33. CASE UNCHANGED vars BY <1>33
<1> HIDE DEF IInv, StageInv
<1> QED BY <1>1, <1>2, <1>3, <1>4, <1>5, <1>6, <1>7, <1>8, <1>9, <1>10, <1>11,
      <1>12, <1>13, <1>14, <1>15, <1>16, <1>17, <1>18, <1>19, <1>20, <1>21,
      <1>22, <1>23, <1>24, <1>25, <1>26, <1>27, <1>28, <1>29, <1>30, <1>31,
      <1>32, <1>33, NextActions

\* Only a connection's own removal, or a reclaim after its instance died,
\* takes it out of its user's set.
LEMMA PresentStep ==
  ASSUME IInv, [Next]_vars
  PROVE  PresentInv'
<1> USE ConstantsAssumption
    DEF IInv, TypeOK, Task, procVars, taskVars, redisVars, historyVars, vars, recordRest,
        removeRest, clearRest, ConnectPc, RemovePc, RecordPc, ClearPc, SetConnect,
        SetRemoval, AfterRemoval, Removed, Leaver, Owner,
        PresentInv, Written, StageInv, Live, TargetInv
<1>1. ASSUME NEW c \in Conn, Register(c) PROVE PresentInv'
  BY <1>1 DEF Register, Registering
<1>2. ASSUME NEW c \in Conn, RegisterEvicting(c) PROVE PresentInv'
  <2>1. PICK d \in Conn \ {c} : Evicted(c, d)
    BY <1>2, EvictingEffect
  <2>2. ASSUME NEW e \in Conn, stage'[e] = "open", Written(e)'
        PROVE  stage[e] = "open" /\ Written(e)
    <3>1. CASE e = d BY <2>1, <2>2, <3>1 DEF Evicted
    <3>2. CASE e = c BY <2>1, <2>2, <3>2 DEF Evicted
    <3>3. CASE e # c /\ e # d BY <2>1, <2>2, <3>3 DEF Evicted
    <3> QED BY <3>1, <3>2, <3>3
  <2>3. UNCHANGED <<conns, faults>>
    BY <1>2 DEF RegisterEvicting
  <2> QED BY <2>2, <2>3
<1>3. ASSUME NEW c \in Conn, FireConnect(c) PROVE PresentInv'
  BY <1>3 DEF FireConnect
<1>4. ASSUME NEW c \in Conn, Close(c) PROVE PresentInv'
  BY <1>4 DEF Close
<1>5. ASSUME NEW c \in Conn, AddConnection(c) PROVE PresentInv'
  BY <1>5 DEF AddConnection, JoinUser, ListUser, ClaimConn, RememberTenant, EnterRoster, AfterAdd
<1>6. ASSUME NEW c \in Conn, RecordUser(c) PROVE PresentInv'
  BY <1>6 DEF RecordUser, JoinUser
<1>7. ASSUME NEW c \in Conn, RecordGlobal(c) PROVE PresentInv'
  BY <1>7 DEF RecordGlobal, ListUser
<1>8. ASSUME NEW c \in Conn, RecordOwner(c) PROVE PresentInv'
  BY <1>8 DEF RecordOwner, ClaimConn
<1>9. ASSUME NEW c \in Conn, RecordTenant(c) PROVE PresentInv'
  BY <1>9 DEF RecordTenant, RememberTenant
<1>10. ASSUME NEW c \in Conn, RecordRoster(c) PROVE PresentInv'
  BY <1>10 DEF RecordRoster, EnterRoster
<1>11. ASSUME NEW c \in Conn, CountAdded(c) PROVE PresentInv'
  BY <1>11 DEF CountAdded, AfterAdd
<1>12. ASSUME NEW c \in Conn, AnnounceOnline(c) PROVE PresentInv'
  BY <1>12 DEF AnnounceOnline
<1>13. ASSUME NEW c \in Conn, DiscardAdd(c) PROVE PresentInv'
  BY <1>13 DEF DiscardAdd
<1>14. ASSUME NEW c \in Conn, AbortConnect(c) PROVE PresentInv'
  BY <1>14 DEF AbortConnect
<1>15. ASSUME NEW c \in Conn, AnnounceOffline(c) PROVE PresentInv'
  BY <1>15 DEF AnnounceOffline
<1>16. ASSUME NEW c \in Conn, AbortRemoval(c) PROVE PresentInv'
  BY <1>16 DEF AbortRemoval
<1>17. ASSUME NEW p \in Task, RemoveConnection(p) PROVE PresentInv'
  <2>1. stage[Removed(p)] # "open"
    BY <1>17 DEF RemoveConnection
  <2>2. /\ conns' = [conns EXCEPT ![Leaver(p)] = @ \ {Removed(p)}]
        /\ stage' = stage /\ cpc' = cpc /\ faults' = faults
    BY <1>17 DEF RemoveConnection, LeaveUser
  <2> QED
    BY <2>1, <2>2
<1>18. ASSUME NEW p \in Task, ReleaseUser(p) PROVE PresentInv'
  BY <1>18 DEF ReleaseUser, LeaveUser
<1>19. ASSUME NEW p \in Task, ReleaseOwner(p) PROVE PresentInv'
  BY <1>19 DEF ReleaseOwner, DisclaimConn
<1>20. ASSUME NEW p \in Task, CountRemaining(p) PROVE PresentInv'
  BY <1>20 DEF CountRemaining, AfterRemove
<1>21. ASSUME NEW p \in Task, ReadTenant(p) PROVE PresentInv'
  BY <1>21 DEF ReadTenant
<1>22. ASSUME NEW p \in Task, ClearIndexes(p) PROVE PresentInv'
  BY <1>22 DEF ClearIndexes, UnlistUser, ForgetTenant, LeaveRoster, AfterClear
<1>23. ASSUME NEW p \in Task, ReissueGlobal(p) PROVE PresentInv'
  BY <1>23 DEF ReissueGlobal, UnlistUser
<1>24. ASSUME NEW p \in Task, ReissueTenant(p) PROVE PresentInv'
  BY <1>24 DEF ReissueTenant, ForgetTenant, AfterClear
<1>25. ASSUME NEW p \in Task, ReissueRoster(p) PROVE PresentInv'
  BY <1>25 DEF ReissueRoster, LeaveRoster, AfterClear
<1>26. ASSUME NEW p \in Task, DiscardRemove(p) PROVE PresentInv'
  BY <1>26 DEF DiscardRemove
<1>27. ASSUME NEW p \in Task, DiscardClear(p) PROVE PresentInv'
  BY <1>27 DEF DiscardClear
<1>28. ASSUME NEW i \in Instance, Crash(i) PROVE PresentInv'
  BY <1>28 DEF Crash, DropReclaim, Interrupted
<1>29. ASSUME NEW i \in Instance, Boot(i) PROVE PresentInv'
  BY <1>29 DEF Boot
<1>30. ASSUME NEW i \in Instance, ReclaimNext(i) PROVE PresentInv'
  BY <1>30 DEF ReclaimNext
<1>31. ASSUME NEW i \in Instance, ReclaimDone(i) PROVE PresentInv'
  BY <1>31 DEF ReclaimDone, DropReclaim
<1>32. ASSUME NEW i \in Instance, ReclaimFails(i) PROVE PresentInv'
  BY <1>32 DEF ReclaimFails, DropReclaim, Interrupted
<1>33. CASE UNCHANGED vars BY <1>33
<1> HIDE DEF IInv, PresentInv
<1> QED BY <1>1, <1>2, <1>3, <1>4, <1>5, <1>6, <1>7, <1>8, <1>9, <1>10, <1>11,
      <1>12, <1>13, <1>14, <1>15, <1>16, <1>17, <1>18, <1>19, <1>20, <1>21,
      <1>22, <1>23, <1>24, <1>25, <1>26, <1>27, <1>28, <1>29, <1>30, <1>31,
      <1>32, <1>33, NextActions

\* No write puts a connection into another user's set.
LEMMA OwnUserStep ==
  ASSUME IInv, [Next]_vars
  PROVE  OwnUserInv'
<1> USE ConstantsAssumption
    DEF IInv, TypeOK, Task, procVars, taskVars, redisVars, historyVars, vars, recordRest,
        removeRest, clearRest, ConnectPc, RemovePc, RecordPc, ClearPc, SetConnect,
        SetRemoval, AfterRemoval, Removed, Leaver, Owner,
        OwnUserInv, TargetInv
<1>1. ASSUME NEW c \in Conn, Register(c) PROVE OwnUserInv'
  BY <1>1 DEF Register, Registering
<1>2. ASSUME NEW c \in Conn, RegisterEvicting(c) PROVE OwnUserInv'
  BY <1>2 DEF RegisterEvicting, Registering, Oldest, Peers
<1>3. ASSUME NEW c \in Conn, FireConnect(c) PROVE OwnUserInv'
  BY <1>3 DEF FireConnect
<1>4. ASSUME NEW c \in Conn, Close(c) PROVE OwnUserInv'
  BY <1>4 DEF Close
<1>5. ASSUME NEW c \in Conn, AddConnection(c) PROVE OwnUserInv'
  BY <1>5 DEF AddConnection, JoinUser, ListUser, ClaimConn, RememberTenant, EnterRoster, AfterAdd
<1>6. ASSUME NEW c \in Conn, RecordUser(c) PROVE OwnUserInv'
  BY <1>6 DEF RecordUser, JoinUser
<1>7. ASSUME NEW c \in Conn, RecordGlobal(c) PROVE OwnUserInv'
  BY <1>7 DEF RecordGlobal, ListUser
<1>8. ASSUME NEW c \in Conn, RecordOwner(c) PROVE OwnUserInv'
  BY <1>8 DEF RecordOwner, ClaimConn
<1>9. ASSUME NEW c \in Conn, RecordTenant(c) PROVE OwnUserInv'
  BY <1>9 DEF RecordTenant, RememberTenant
<1>10. ASSUME NEW c \in Conn, RecordRoster(c) PROVE OwnUserInv'
  BY <1>10 DEF RecordRoster, EnterRoster
<1>11. ASSUME NEW c \in Conn, CountAdded(c) PROVE OwnUserInv'
  BY <1>11 DEF CountAdded, AfterAdd
<1>12. ASSUME NEW c \in Conn, AnnounceOnline(c) PROVE OwnUserInv'
  BY <1>12 DEF AnnounceOnline
<1>13. ASSUME NEW c \in Conn, DiscardAdd(c) PROVE OwnUserInv'
  BY <1>13 DEF DiscardAdd
<1>14. ASSUME NEW c \in Conn, AbortConnect(c) PROVE OwnUserInv'
  BY <1>14 DEF AbortConnect
<1>15. ASSUME NEW c \in Conn, AnnounceOffline(c) PROVE OwnUserInv'
  BY <1>15 DEF AnnounceOffline
<1>16. ASSUME NEW c \in Conn, AbortRemoval(c) PROVE OwnUserInv'
  BY <1>16 DEF AbortRemoval
<1>17. ASSUME NEW p \in Task, RemoveConnection(p) PROVE OwnUserInv'
  <2>1. /\ rpc[p] = "remove" /\ (p \in Conn => cpc[p] # "add")
        /\ conns' = [conns EXCEPT ![Leaver(p)] = @ \ {Removed(p)}]
        /\ owned' = [owned EXCEPT ![Owner(p)] = @ \ {Removed(p)}]
        /\ UNCHANGED <<inst, stage, faults, cpc, todo, target, readTenant, discards>>
    BY <1>17, RemoveEffect
  <2>2. CASE rpc' = [rpc EXCEPT ![p] = "getTenant"]
    BY <2>1, <2>2
  <2>3. CASE rpc' = [rpc EXCEPT ![p] = AfterRemoval(p)]
    BY <2>1, <2>3
  <2>4. \/ rpc' = [rpc EXCEPT ![p] = "getTenant"]
        \/ rpc' = [rpc EXCEPT ![p] = AfterRemoval(p)]
    BY <1>17, RemoveEffect
  <2> QED BY <2>2, <2>3, <2>4, Zenon
<1>18. ASSUME NEW p \in Task, ReleaseUser(p) PROVE OwnUserInv'
  BY <1>18 DEF ReleaseUser, LeaveUser
<1>19. ASSUME NEW p \in Task, ReleaseOwner(p) PROVE OwnUserInv'
  BY <1>19 DEF ReleaseOwner, DisclaimConn
<1>20. ASSUME NEW p \in Task, CountRemaining(p) PROVE OwnUserInv'
  BY <1>20 DEF CountRemaining, AfterRemove
<1>21. ASSUME NEW p \in Task, ReadTenant(p) PROVE OwnUserInv'
  BY <1>21 DEF ReadTenant
<1>22. ASSUME NEW p \in Task, ClearIndexes(p) PROVE OwnUserInv'
  BY <1>22 DEF ClearIndexes, UnlistUser, ForgetTenant, LeaveRoster, AfterClear
<1>23. ASSUME NEW p \in Task, ReissueGlobal(p) PROVE OwnUserInv'
  BY <1>23 DEF ReissueGlobal, UnlistUser
<1>24. ASSUME NEW p \in Task, ReissueTenant(p) PROVE OwnUserInv'
  BY <1>24 DEF ReissueTenant, ForgetTenant, AfterClear
<1>25. ASSUME NEW p \in Task, ReissueRoster(p) PROVE OwnUserInv'
  BY <1>25 DEF ReissueRoster, LeaveRoster, AfterClear
<1>26. ASSUME NEW p \in Task, DiscardRemove(p) PROVE OwnUserInv'
  BY <1>26 DEF DiscardRemove
<1>27. ASSUME NEW p \in Task, DiscardClear(p) PROVE OwnUserInv'
  BY <1>27 DEF DiscardClear
<1>28. ASSUME NEW i \in Instance, Crash(i) PROVE OwnUserInv'
  BY <1>28 DEF Crash, DropReclaim, Interrupted
<1>29. ASSUME NEW i \in Instance, Boot(i) PROVE OwnUserInv'
  BY <1>29 DEF Boot
<1>30. ASSUME NEW i \in Instance, ReclaimNext(i) PROVE OwnUserInv'
  BY <1>30 DEF ReclaimNext
<1>31. ASSUME NEW i \in Instance, ReclaimDone(i) PROVE OwnUserInv'
  BY <1>31 DEF ReclaimDone, DropReclaim
<1>32. ASSUME NEW i \in Instance, ReclaimFails(i) PROVE OwnUserInv'
  BY <1>32 DEF ReclaimFails, DropReclaim, Interrupted
<1>33. CASE UNCHANGED vars BY <1>33
<1> HIDE DEF IInv, OwnUserInv
<1> QED BY <1>1, <1>2, <1>3, <1>4, <1>5, <1>6, <1>7, <1>8, <1>9, <1>10, <1>11,
      <1>12, <1>13, <1>14, <1>15, <1>16, <1>17, <1>18, <1>19, <1>20, <1>21,
      <1>22, <1>23, <1>24, <1>25, <1>26, <1>27, <1>28, <1>29, <1>30, <1>31,
      <1>32, <1>33, NextActions

\* The user's set and the instance's key change in one MULTI.
LEMMA MirrorStep ==
  ASSUME IInv, [Next]_vars
  PROVE  MirrorInv'
<1> USE ConstantsAssumption
    DEF IInv, TypeOK, Task, procVars, taskVars, redisVars, historyVars, vars, recordRest,
        removeRest, clearRest, ConnectPc, RemovePc, RecordPc, ClearPc, SetConnect,
        SetRemoval, AfterRemoval, Removed, Leaver, Owner,
        MirrorInv, TargetInv, OwnUserInv, StageInv, Live
<1>1. ASSUME NEW c \in Conn, Register(c) PROVE MirrorInv'
  BY <1>1 DEF Register, Registering
<1>2. ASSUME NEW c \in Conn, RegisterEvicting(c) PROVE MirrorInv'
  BY <1>2 DEF RegisterEvicting, Registering, Oldest, Peers
<1>3. ASSUME NEW c \in Conn, FireConnect(c) PROVE MirrorInv'
  BY <1>3 DEF FireConnect
<1>4. ASSUME NEW c \in Conn, Close(c) PROVE MirrorInv'
  BY <1>4 DEF Close
<1>5. ASSUME NEW c \in Conn, AddConnection(c) PROVE MirrorInv'
  BY <1>5 DEF AddConnection, JoinUser, ListUser, ClaimConn, RememberTenant, EnterRoster, AfterAdd
<1>6. ASSUME NEW c \in Conn, RecordUser(c) PROVE MirrorInv'
  BY <1>6 DEF RecordUser, JoinUser
<1>7. ASSUME NEW c \in Conn, RecordGlobal(c) PROVE MirrorInv'
  BY <1>7 DEF RecordGlobal, ListUser
<1>8. ASSUME NEW c \in Conn, RecordOwner(c) PROVE MirrorInv'
  BY <1>8 DEF RecordOwner, ClaimConn
<1>9. ASSUME NEW c \in Conn, RecordTenant(c) PROVE MirrorInv'
  BY <1>9 DEF RecordTenant, RememberTenant
<1>10. ASSUME NEW c \in Conn, RecordRoster(c) PROVE MirrorInv'
  BY <1>10 DEF RecordRoster, EnterRoster
<1>11. ASSUME NEW c \in Conn, CountAdded(c) PROVE MirrorInv'
  BY <1>11 DEF CountAdded, AfterAdd
<1>12. ASSUME NEW c \in Conn, AnnounceOnline(c) PROVE MirrorInv'
  BY <1>12 DEF AnnounceOnline
<1>13. ASSUME NEW c \in Conn, DiscardAdd(c) PROVE MirrorInv'
  BY <1>13 DEF DiscardAdd
<1>14. ASSUME NEW c \in Conn, AbortConnect(c) PROVE MirrorInv'
  BY <1>14 DEF AbortConnect
<1>15. ASSUME NEW c \in Conn, AnnounceOffline(c) PROVE MirrorInv'
  BY <1>15 DEF AnnounceOffline
<1>16. ASSUME NEW c \in Conn, AbortRemoval(c) PROVE MirrorInv'
  BY <1>16 DEF AbortRemoval
<1>17. ASSUME NEW p \in Task, RemoveConnection(p) PROVE MirrorInv'
  <2>1. /\ rpc[p] = "remove"
        /\ conns' = [conns EXCEPT ![Leaver(p)] = @ \ {Removed(p)}]
        /\ owned' = [owned EXCEPT ![Owner(p)] = @ \ {Removed(p)}]
        /\ UNCHANGED <<inst, cpc, todo, target, discards>>
    BY <1>17, RemoveEffect
  <2>2. PICK q : rpc' = [rpc EXCEPT ![p] = q] /\ q \notin {"relUser", "relOwner", "recount"}
    <3>1. \/ rpc' = [rpc EXCEPT ![p] = "getTenant"]
          \/ rpc' = [rpc EXCEPT ![p] = AfterRemoval(p)]
      BY <1>17, RemoveEffect
    <3>2. AfterRemoval(p) \notin {"relUser", "relOwner", "recount"}
      OBVIOUS
    <3> HIDE DEF AfterRemoval
    <3> QED BY <3>1, <3>2
  <2>3. PICK r \in Conn : r = Removed(p) /\ Leaver(p) = UserOf[r] /\ Owner(p) = InstOf[r]
    BY <2>1
  <2>4. SUFFICES ASSUME discards = 0
                 PROVE  /\ \A c \in Conn : /\ cpc'[c] \notin RecordPc \cup {"count"}
                                           /\ c \in conns'[UserOf[c]] <=> c \in owned'[InstOf[c]]
                        /\ \A t \in Task : rpc'[t] \notin {"relUser", "relOwner", "recount"}
                        /\ \A i \in Instance : \A c \in owned'[i] : inst'[i] = "reclaiming" =>
                             c \in todo'[i] \/ (target'[i] = c /\ rpc'[i] = "remove")
    BY <2>1
  <2>5. ASSUME NEW c \in Conn
        PROVE  /\ cpc'[c] \notin RecordPc \cup {"count"}
               /\ c \in conns'[UserOf[c]] <=> c \in owned'[InstOf[c]]
    <3>1. c \in conns'[UserOf[c]] <=> c \in conns[UserOf[c]] /\ c # r
      BY <2>1, <2>3
    <3>2. c \in owned'[InstOf[c]] <=> c \in owned[InstOf[c]] /\ c # r
      BY <2>1, <2>3
    <3> QED BY <2>1, <2>4, <3>1, <3>2
  <2>6. \A t \in Task : rpc'[t] \notin {"relUser", "relOwner", "recount"}
    BY <2>2, <2>4
  <2>7. ASSUME NEW i \in Instance, NEW c \in owned'[i], inst[i] = "reclaiming"
        PROVE  c \in todo[i] \/ (target[i] = c /\ rpc'[i] = "remove")
    <3>1. c \in owned[i] /\ (i = Owner(p) => c # r)
      BY <2>1, <2>3, <2>7
    <3>2. c \in todo[i] \/ (target[i] = c /\ rpc[i] = "remove")
      BY <2>4, <2>7, <3>1
    <3>3. CASE i = p
      BY <2>3, <3>1, <3>2, <3>3
    <3>4. CASE i # p
      BY <2>2, <3>2, <3>4
    <3> QED BY <3>3, <3>4
  <2> HIDE DEF IInv, TypeOK, TargetInv, OwnUserInv, StageInv, Live, Removed, Leaver, Owner,
               AfterRemoval, RecordPc, Task, MirrorInv
  <2>8. UNCHANGED <<inst, todo, target>>
    BY <2>1
  <2> QED BY <2>5, <2>6, <2>7, <2>8
<1>18. ASSUME NEW p \in Task, ReleaseUser(p) PROVE MirrorInv'
  BY <1>18 DEF ReleaseUser, LeaveUser
<1>19. ASSUME NEW p \in Task, ReleaseOwner(p) PROVE MirrorInv'
  BY <1>19 DEF ReleaseOwner, DisclaimConn
<1>20. ASSUME NEW p \in Task, CountRemaining(p) PROVE MirrorInv'
  BY <1>20 DEF CountRemaining, AfterRemove
<1>21. ASSUME NEW p \in Task, ReadTenant(p) PROVE MirrorInv'
  BY <1>21 DEF ReadTenant
<1>22. ASSUME NEW p \in Task, ClearIndexes(p) PROVE MirrorInv'
  BY <1>22 DEF ClearIndexes, UnlistUser, ForgetTenant, LeaveRoster, AfterClear
<1>23. ASSUME NEW p \in Task, ReissueGlobal(p) PROVE MirrorInv'
  BY <1>23 DEF ReissueGlobal, UnlistUser
<1>24. ASSUME NEW p \in Task, ReissueTenant(p) PROVE MirrorInv'
  BY <1>24 DEF ReissueTenant, ForgetTenant, AfterClear
<1>25. ASSUME NEW p \in Task, ReissueRoster(p) PROVE MirrorInv'
  BY <1>25 DEF ReissueRoster, LeaveRoster, AfterClear
<1>26. ASSUME NEW p \in Task, DiscardRemove(p) PROVE MirrorInv'
  BY <1>26 DEF DiscardRemove
<1>27. ASSUME NEW p \in Task, DiscardClear(p) PROVE MirrorInv'
  BY <1>27 DEF DiscardClear
<1>28. ASSUME NEW i \in Instance, Crash(i) PROVE MirrorInv'
  BY <1>28 DEF Crash, DropReclaim, Interrupted
<1>29. ASSUME NEW i \in Instance, Boot(i) PROVE MirrorInv'
  BY <1>29 DEF Boot
<1>30. ASSUME NEW i \in Instance, ReclaimNext(i) PROVE MirrorInv'
  BY <1>30 DEF ReclaimNext
<1>31. ASSUME NEW i \in Instance, ReclaimDone(i) PROVE MirrorInv'
  <2>1. ASSUME discards = 0, NEW c \in owned[i] PROVE FALSE
    BY <1>31, <2>1 DEF ReclaimDone
  <2>2. discards = 0 => owned' = owned
    BY <1>31, <2>1 DEF ReclaimDone
  <2> QED BY <1>31, <2>2 DEF ReclaimDone, DropReclaim
<1>32. ASSUME NEW i \in Instance, ReclaimFails(i) PROVE MirrorInv'
  BY <1>32 DEF ReclaimFails, DropReclaim, Interrupted
<1>33. CASE UNCHANGED vars BY <1>33
<1> HIDE DEF IInv, MirrorInv
<1> QED BY <1>1, <1>2, <1>3, <1>4, <1>5, <1>6, <1>7, <1>8, <1>9, <1>10, <1>11,
      <1>12, <1>13, <1>14, <1>15, <1>16, <1>17, <1>18, <1>19, <1>20, <1>21,
      <1>22, <1>23, <1>24, <1>25, <1>26, <1>27, <1>28, <1>29, <1>30, <1>31,
      <1>32, <1>33, NextActions

\* A closed stream's entry keeps its removal ahead of it.
LEMMA PhantomStep ==
  ASSUME IInv, [Next]_vars
  PROVE  NoPhantom'
<1> USE ConstantsAssumption
    DEF IInv, TypeOK, Task, procVars, taskVars, redisVars, historyVars, vars, recordRest,
        removeRest, clearRest, ConnectPc, RemovePc, RecordPc, ClearPc, SetConnect,
        SetRemoval, AfterRemoval, Removed, Leaver, Owner,
        NoPhantom, MirrorInv, TargetInv, OwnUserInv, StageInv, Live,
        isConnectionOwnedByUser
<1>1. ASSUME NEW c \in Conn, Register(c) PROVE NoPhantom'
  BY <1>1 DEF Register, Registering
<1>2. ASSUME NEW c \in Conn, RegisterEvicting(c) PROVE NoPhantom'
  <2>1. PICK d \in Conn \ {c} : Live(d) /\ Evicted(c, d)
    BY <1>2, EvictingEffect
  <2>2. rpc' = [rpc EXCEPT ![d] = "remove"] /\ rpc[d] = "none"
    BY <2>1 DEF Evicted
  <2>3. \/ stage' = [stage EXCEPT ![c] = "registering", ![d] = "closed"]
        \/ stage' = [stage EXCEPT ![c] = "open", ![d] = "closed"]
    BY <2>1 DEF Evicted
  <2>4. \A e \in Conn \ {d} : stage[e] \in {"registering", "open"} =>
                              stage'[e] \in {"registering", "open"}
    BY <2>3
  <2>5. UNCHANGED <<inst, todo, target, redisVars, historyVars>>
    BY <1>2 DEF RegisterEvicting
  <2> QED BY <2>2, <2>4, <2>5
<1>3. ASSUME NEW c \in Conn, FireConnect(c) PROVE NoPhantom'
  BY <1>3 DEF FireConnect
<1>4. ASSUME NEW c \in Conn, Close(c) PROVE NoPhantom'
  BY <1>4 DEF Close
<1>5. ASSUME NEW c \in Conn, AddConnection(c) PROVE NoPhantom'
  BY <1>5 DEF AddConnection, JoinUser, ListUser, ClaimConn, RememberTenant, EnterRoster, AfterAdd
<1>6. ASSUME NEW c \in Conn, RecordUser(c) PROVE NoPhantom'
  BY <1>6 DEF RecordUser, JoinUser
<1>7. ASSUME NEW c \in Conn, RecordGlobal(c) PROVE NoPhantom'
  BY <1>7 DEF RecordGlobal, ListUser
<1>8. ASSUME NEW c \in Conn, RecordOwner(c) PROVE NoPhantom'
  BY <1>8 DEF RecordOwner, ClaimConn
<1>9. ASSUME NEW c \in Conn, RecordTenant(c) PROVE NoPhantom'
  BY <1>9 DEF RecordTenant, RememberTenant
<1>10. ASSUME NEW c \in Conn, RecordRoster(c) PROVE NoPhantom'
  BY <1>10 DEF RecordRoster, EnterRoster
<1>11. ASSUME NEW c \in Conn, CountAdded(c) PROVE NoPhantom'
  BY <1>11 DEF CountAdded, AfterAdd
<1>12. ASSUME NEW c \in Conn, AnnounceOnline(c) PROVE NoPhantom'
  BY <1>12 DEF AnnounceOnline
<1>13. ASSUME NEW c \in Conn, DiscardAdd(c) PROVE NoPhantom'
  BY <1>13 DEF DiscardAdd
<1>14. ASSUME NEW c \in Conn, AbortConnect(c) PROVE NoPhantom'
  BY <1>14 DEF AbortConnect
<1>15. ASSUME NEW c \in Conn, AnnounceOffline(c) PROVE NoPhantom'
  BY <1>15 DEF AnnounceOffline
<1>16. ASSUME NEW c \in Conn, AbortRemoval(c) PROVE NoPhantom'
  BY <1>16 DEF AbortRemoval
<1>17. ASSUME NEW p \in Task, RemoveConnection(p) PROVE NoPhantom'
  <2>1. /\ rpc[p] = "remove" /\ (p \in Conn => cpc[p] # "add")
        /\ conns' = [conns EXCEPT ![Leaver(p)] = @ \ {Removed(p)}]
        /\ owned' = [owned EXCEPT ![Owner(p)] = @ \ {Removed(p)}]
        /\ UNCHANGED <<inst, stage, faults, cpc, todo, target, readTenant, discards>>
    BY <1>17, RemoveEffect
  <2>2. PICK r \in Conn : r = Removed(p) /\ Leaver(p) = UserOf[r] /\ Owner(p) = InstOf[r]
    BY <2>1
  <2>3. \A t \in Task : t # p => rpc'[t] = rpc[t]
    <3>1. \/ rpc' = [rpc EXCEPT ![p] = "getTenant"]
          \/ rpc' = [rpc EXCEPT ![p] = AfterRemoval(p)]
      BY <1>17, RemoveEffect
    <3> HIDE DEF AfterRemoval
    <3> QED BY <3>1
  <2>4. \A c \in Conn : c \in conns'[UserOf[c]] => c \in conns[UserOf[c]] /\ c # r
    BY <2>1, <2>2
  <2>5. ASSUME NEW c \in Conn, c # r
        PROVE  /\ rpc[c] = "remove" => rpc'[c] = "remove"
               /\ \A i \in Instance : target[i] = c /\ rpc[i] = "remove" => rpc'[i] = "remove"
    <3>1. c # p /\ \A i \in Instance : target[i] = c => i # p
      BY <2>2, <2>5
    <3> HIDE DEF IInv, Removed, Leaver, Owner
    <3> QED BY <2>3, <3>1
  <2>6. NoPhantom
    OBVIOUS
  <2>7. UNCHANGED <<inst, stage, faults, todo, target, discards>>
    BY <2>1
  <2> HIDE DEF IInv, TypeOK, MirrorInv, TargetInv, OwnUserInv, StageInv, Removed, Leaver, Owner
  <2> QED BY <2>4, <2>5, <2>6, <2>7
<1>18. ASSUME NEW p \in Task, ReleaseUser(p) PROVE NoPhantom'
  BY <1>18 DEF ReleaseUser, LeaveUser
<1>19. ASSUME NEW p \in Task, ReleaseOwner(p) PROVE NoPhantom'
  BY <1>19 DEF ReleaseOwner, DisclaimConn
<1>20. ASSUME NEW p \in Task, CountRemaining(p) PROVE NoPhantom'
  BY <1>20 DEF CountRemaining, AfterRemove
<1>21. ASSUME NEW p \in Task, ReadTenant(p) PROVE NoPhantom'
  BY <1>21 DEF ReadTenant
<1>22. ASSUME NEW p \in Task, ClearIndexes(p) PROVE NoPhantom'
  BY <1>22 DEF ClearIndexes, UnlistUser, ForgetTenant, LeaveRoster, AfterClear
<1>23. ASSUME NEW p \in Task, ReissueGlobal(p) PROVE NoPhantom'
  BY <1>23 DEF ReissueGlobal, UnlistUser
<1>24. ASSUME NEW p \in Task, ReissueTenant(p) PROVE NoPhantom'
  BY <1>24 DEF ReissueTenant, ForgetTenant, AfterClear
<1>25. ASSUME NEW p \in Task, ReissueRoster(p) PROVE NoPhantom'
  BY <1>25 DEF ReissueRoster, LeaveRoster, AfterClear
<1>26. ASSUME NEW p \in Task, DiscardRemove(p) PROVE NoPhantom'
  BY <1>26 DEF DiscardRemove
<1>27. ASSUME NEW p \in Task, DiscardClear(p) PROVE NoPhantom'
  BY <1>27 DEF DiscardClear
<1>28. ASSUME NEW i \in Instance, Crash(i) PROVE NoPhantom'
  BY <1>28 DEF Crash, DropReclaim, Interrupted
<1>29. ASSUME NEW i \in Instance, Boot(i) PROVE NoPhantom'
  BY <1>29 DEF Boot
<1>30. ASSUME NEW i \in Instance, ReclaimNext(i) PROVE NoPhantom'
  BY <1>30 DEF ReclaimNext
<1>31. ASSUME NEW i \in Instance, ReclaimDone(i) PROVE NoPhantom'
  BY <1>31 DEF ReclaimDone, DropReclaim
<1>32. ASSUME NEW i \in Instance, ReclaimFails(i) PROVE NoPhantom'
  BY <1>32 DEF ReclaimFails, DropReclaim, Interrupted
<1>33. CASE UNCHANGED vars BY <1>33
<1> HIDE DEF IInv, NoPhantom
<1> QED BY <1>1, <1>2, <1>3, <1>4, <1>5, <1>6, <1>7, <1>8, <1>9, <1>10, <1>11,
      <1>12, <1>13, <1>14, <1>15, <1>16, <1>17, <1>18, <1>19, <1>20, <1>21,
      <1>22, <1>23, <1>24, <1>25, <1>26, <1>27, <1>28, <1>29, <1>30, <1>31,
      <1>32, <1>33, NextActions

-----------------------------------------------------------------------------
(* The theorems.                                                           *)

LEMMA InitIInv == Init => IInv
<1> USE ConstantsAssumption, TypeInit
    DEF Init, Task, RecordPc, TargetInv, StageInv, Live, PresentInv, Written, OwnUserInv,
        MirrorInv, NoPhantom, isConnectionOwnedByUser
<1>1. Init => TargetInv /\ StageInv /\ PresentInv /\ OwnUserInv /\ NoPhantom
  OBVIOUS
<1>2. Init => MirrorInv
  OBVIOUS
<1> QED BY <1>1, <1>2 DEF IInv

LEMMA TypeStep == IInv /\ [Next]_vars => TypeOK'
<1> SUFFICES ASSUME IInv, [Next]_vars PROVE TypeOK'
  OBVIOUS
<1>1. CASE UNCHANGED vars
  BY <1>1 DEF IInv, TypeOK, vars, procVars, taskVars, redisVars, historyVars
<1>2. CASE Next
  BY <1>2, NextActions, TypeConn, TypeConnect, TypeRemoval, TypeHookEnd, TypeInstance DEF IInv
<1> QED BY <1>1, <1>2

\* The invariant the results below rest on, from Init through every action.
THEOREM Invariance == Spec => []IInv
<1>1. Init => IInv BY InitIInv
<1>2. IInv /\ [Next]_vars => IInv'
  BY TypeStep, TargetStep, StageStep, PresentStep, OwnUserStep, MirrorStep, PhantomStep DEF IInv
<1> QED BY <1>1, <1>2, PTL DEF Spec

\* Every variable keeps its type, whatever crashes, discards and faults occur.
THEOREM TypeCorrect == Spec => []TypeOK
<1>1. IInv => TypeOK BY DEF IInv
<1> QED BY <1>1, Invariance, PTL

\* redis-presence-storage.ts:19-23: the user sets and the instances' own keys
\* list the same connections until a MULTI is discarded, so a reclaim finds
\* exactly what its previous life left.
THEOREM OwnershipMirrored == Spec => []OwnershipMirror
<1>1. IInv => OwnershipMirror
  BY ConstantsAssumption
     DEF IInv, TypeOK, MirrorInv, OwnUserInv, TargetInv, OwnershipMirror, isConnectionOwnedByUser
<1> QED BY <1>1, Invariance, PTL

\* redis-presence-storage.ts:6-8: while a stream is open nothing takes it out
\* of its user's set, unless a command is rejected.
THEOREM LiveStaysPresent == Spec => []LiveIsPresent
<1>1. IInv => LiveIsPresent
  BY DEF IInv, PresentInv, Written, LiveIsPresent, isConnectionOwnedByUser
<1> QED BY <1>1, Invariance, PTL

\* redis-presence-storage.ts:17-24: an entry whose stream is gone always has a
\* removal ahead of it, the connection's own or its instance's reclaim.
THEOREM PhantomFree == Spec => []NoPhantom
<1>1. IInv => NoPhantom BY DEF IInv
<1> QED BY <1>1, Invariance, PTL

-----------------------------------------------------------------------------
(* The arrival announcements.                                              *)

ArrivalInv ==
  /\ \A c \in Conn : ~Written(c) => c \notin conns[UserOf[c]]
  /\ discards = 0 =>
       /\ \A c \in Conn : cpc[c] = "announce" => c \in arrived
       /\ saidOnline \subseteq arrived
       /\ faults = 0 /\ crashes = 0 =>
            \A c \in arrived : c \in saidOnline \/ cpc[c] = "announce"

\* The trailing SCARD tells the filling and the emptying of a set apart.
LEMMA FirstOnly ==
  ASSUME NEW S \in SUBSET Conn, NEW c \in Conn, c \notin S
  PROVE  Cardinality(S \cup {c}) = 1 <=> S = {}
<1>1. S \cup {c} \in SUBSET Conn /\ IsFiniteSet(Conn)
  BY ConstantsAssumption
<1>2. Cardinality(S \cup {c}) = 1 <=> \E x : S \cup {c} = {x}
  BY <1>1, FS_Subset, FS_Singleton
<1> QED BY <1>2

\* The add announces exactly when it found its user's set empty.
LEMMA AddEffect ==
  ASSUME TypeOK, ArrivalInv, NEW c \in Conn, AddConnection(c)
  PROVE  /\ conns' = [conns EXCEPT ![UserOf[c]] = @ \cup {c}]
         /\ cpc' = [cpc EXCEPT ![c] = IF conns[UserOf[c]] = {} THEN "announce" ELSE "done"]
<1>1. UserOf[c] \in User /\ conns \in [User -> SUBSET Conn]
  BY ConstantsAssumption DEF TypeOK
<1>2. conns' = [conns EXCEPT ![UserOf[c]] = @ \cup {c}] /\ cpc[c] = "add"
  BY DEF AddConnection, JoinUser
<1>3. c \notin conns[UserOf[c]]
  BY <1>2 DEF ArrivalInv, Written
<1>4. conns'[UserOf[c]] = conns[UserOf[c]] \cup {c}
  BY <1>1, <1>2
<1>5. conns[UserOf[c]] \in SUBSET Conn
  BY <1>1
<1>6. Cardinality(conns[UserOf[c]] \cup {c}) = 1 <=> conns[UserOf[c]] = {}
  BY <1>3, <1>5, FirstOnly
<1>7. cpc' = [cpc EXCEPT ![c] = AfterAdd(Cardinality(conns'[UserOf[c]]))]
  BY DEF AddConnection, SetConnect
<1>8. AfterAdd(Cardinality(conns'[UserOf[c]])) = IF conns[UserOf[c]] = {} THEN "announce" ELSE "done"
  BY <1>4, <1>6 DEF AfterAdd
<1> QED BY <1>2, <1>7, <1>8

\* The add that fills a set is the one that owes the announcement.
\* A step that adds nothing to a set, and announces nothing.
LEMMA ArrivalKept ==
  ASSUME ArrivalInv, UNCHANGED <<cpc, arrived, saidOnline, discards, faults, crashes>>,
         \A c \in Conn : conns'[UserOf[c]] \subseteq conns[UserOf[c]]
  PROVE  ArrivalInv'
BY DEF ArrivalInv, Written

LEMMA ArrivalStep ==
  ASSUME IInv, ArrivalInv, [Next]_vars
  PROVE  ArrivalInv'
<1> USE ConstantsAssumption
    DEF IInv, TypeOK, Task, procVars, taskVars, redisVars, historyVars, vars, recordRest,
        removeRest, clearRest, ConnectPc, RemovePc, RecordPc, ClearPc, SetConnect,
        SetRemoval, AfterRemoval, Removed, Leaver, Owner,
        ArrivalInv, Written, StageInv, Live, TargetInv, OwnUserInv, MirrorInv
<1>1. ASSUME NEW c \in Conn, Register(c) PROVE ArrivalInv'
  BY <1>1 DEF Register, Registering
<1>2. ASSUME NEW c \in Conn, RegisterEvicting(c) PROVE ArrivalInv'
  <2>1. cpc' = cpc \/ cpc' = [cpc EXCEPT ![c] = "add"]
    BY <1>2 DEF RegisterEvicting
  <2>2. UNCHANGED <<redisVars, historyVars>> /\ stage[c] = "unborn"
    BY <1>2 DEF RegisterEvicting, Registering
  <2> QED BY <2>1, <2>2
<1>3. ASSUME NEW c \in Conn, FireConnect(c) PROVE ArrivalInv'
  BY <1>3 DEF FireConnect
<1>4. ASSUME NEW c \in Conn, Close(c) PROVE ArrivalInv'
  BY <1>4 DEF Close
<1>5. ASSUME NEW c \in Conn, AddConnection(c) PROVE ArrivalInv'
  <2>1. /\ conns' = [conns EXCEPT ![UserOf[c]] = @ \cup {c}]
        /\ cpc' = [cpc EXCEPT ![c] = IF conns[UserOf[c]] = {} THEN "announce" ELSE "done"]
    BY <1>5, AddEffect
  <2>5. arrived' = (IF conns[UserOf[c]] = {} THEN arrived \cup {c} ELSE arrived) /\ cpc[c] = "add"
    BY <1>5 DEF AddConnection, JoinUser
  <2>6. UNCHANGED <<saidOnline, discards, faults, crashes>>
    BY <1>5 DEF AddConnection
  <2>7. \A e \in Conn : ~Written(e)' => e \notin conns'[UserOf[e]]
    BY <2>1
  <2> QED
    BY <2>1, <2>5, <2>6, <2>7
<1>6. ASSUME NEW c \in Conn, RecordUser(c) PROVE ArrivalInv'
  BY <1>6 DEF RecordUser, JoinUser
<1>7. ASSUME NEW c \in Conn, RecordGlobal(c) PROVE ArrivalInv'
  BY <1>7 DEF RecordGlobal, ListUser
<1>8. ASSUME NEW c \in Conn, RecordOwner(c) PROVE ArrivalInv'
  BY <1>8 DEF RecordOwner, ClaimConn
<1>9. ASSUME NEW c \in Conn, RecordTenant(c) PROVE ArrivalInv'
  BY <1>9 DEF RecordTenant, RememberTenant
<1>10. ASSUME NEW c \in Conn, RecordRoster(c) PROVE ArrivalInv'
  BY <1>10 DEF RecordRoster, EnterRoster
<1>11. ASSUME NEW c \in Conn, CountAdded(c) PROVE ArrivalInv'
  BY <1>11 DEF CountAdded, AfterAdd
<1>12. ASSUME NEW c \in Conn, AnnounceOnline(c) PROVE ArrivalInv'
  BY <1>12 DEF AnnounceOnline
<1>13. ASSUME NEW c \in Conn, DiscardAdd(c) PROVE ArrivalInv'
  BY <1>13 DEF DiscardAdd
<1>14. ASSUME NEW c \in Conn, AbortConnect(c) PROVE ArrivalInv'
  BY <1>14 DEF AbortConnect
<1>15. ASSUME NEW c \in Conn, AnnounceOffline(c) PROVE ArrivalInv'
  BY <1>15 DEF AnnounceOffline
<1>16. ASSUME NEW c \in Conn, AbortRemoval(c) PROVE ArrivalInv'
  BY <1>16 DEF AbortRemoval
<1>17. ASSUME NEW p \in Task, RemoveConnection(p) PROVE ArrivalInv'
  <2>1. /\ conns' = [conns EXCEPT ![Leaver(p)] = @ \ {Removed(p)}]
        /\ UNCHANGED <<cpc, arrived, saidOnline, discards, faults, crashes>>
    BY <1>17, RemoveEffect
  <2>2. \A d \in Conn : conns'[UserOf[d]] \subseteq conns[UserOf[d]]
    BY <2>1
  <2> HIDE DEF ArrivalInv
  <2> QED BY <2>1, <2>2, ArrivalKept, Zenon
<1>18. ASSUME NEW p \in Task, ReleaseUser(p) PROVE ArrivalInv'
  <2>1. /\ conns' = [conns EXCEPT ![Leaver(p)] = @ \ {Removed(p)}]
        /\ UNCHANGED <<cpc, arrived, saidOnline, discards, faults, crashes>>
    BY <1>18 DEF ReleaseUser, LeaveUser
  <2>2. \A d \in Conn : conns'[UserOf[d]] \subseteq conns[UserOf[d]]
    BY <2>1
  <2> HIDE DEF ArrivalInv
  <2> QED BY <2>1, <2>2, ArrivalKept, Zenon
<1>19. ASSUME NEW p \in Task, ReleaseOwner(p) PROVE ArrivalInv'
  BY <1>19 DEF ReleaseOwner, DisclaimConn
<1>20. ASSUME NEW p \in Task, CountRemaining(p) PROVE ArrivalInv'
  BY <1>20 DEF CountRemaining, AfterRemove
<1>21. ASSUME NEW p \in Task, ReadTenant(p) PROVE ArrivalInv'
  BY <1>21 DEF ReadTenant
<1>22. ASSUME NEW p \in Task, ClearIndexes(p) PROVE ArrivalInv'
  BY <1>22 DEF ClearIndexes, UnlistUser, ForgetTenant, LeaveRoster, AfterClear
<1>23. ASSUME NEW p \in Task, ReissueGlobal(p) PROVE ArrivalInv'
  BY <1>23 DEF ReissueGlobal, UnlistUser
<1>24. ASSUME NEW p \in Task, ReissueTenant(p) PROVE ArrivalInv'
  BY <1>24 DEF ReissueTenant, ForgetTenant, AfterClear
<1>25. ASSUME NEW p \in Task, ReissueRoster(p) PROVE ArrivalInv'
  BY <1>25 DEF ReissueRoster, LeaveRoster, AfterClear
<1>26. ASSUME NEW p \in Task, DiscardRemove(p) PROVE ArrivalInv'
  BY <1>26 DEF DiscardRemove
<1>27. ASSUME NEW p \in Task, DiscardClear(p) PROVE ArrivalInv'
  BY <1>27 DEF DiscardClear
<1>28. ASSUME NEW i \in Instance, Crash(i) PROVE ArrivalInv'
  BY <1>28 DEF Crash, DropReclaim, Interrupted
<1>29. ASSUME NEW i \in Instance, Boot(i) PROVE ArrivalInv'
  BY <1>29 DEF Boot
<1>30. ASSUME NEW i \in Instance, ReclaimNext(i) PROVE ArrivalInv'
  BY <1>30 DEF ReclaimNext
<1>31. ASSUME NEW i \in Instance, ReclaimDone(i) PROVE ArrivalInv'
  BY <1>31 DEF ReclaimDone, DropReclaim
<1>32. ASSUME NEW i \in Instance, ReclaimFails(i) PROVE ArrivalInv'
  BY <1>32 DEF ReclaimFails, DropReclaim, Interrupted
<1>33. CASE UNCHANGED vars BY <1>33
<1> HIDE DEF IInv, ArrivalInv
<1> QED BY <1>1, <1>2, <1>3, <1>4, <1>5, <1>6, <1>7, <1>8, <1>9, <1>10, <1>11,
      <1>12, <1>13, <1>14, <1>15, <1>16, <1>17, <1>18, <1>19, <1>20, <1>21,
      <1>22, <1>23, <1>24, <1>25, <1>26, <1>27, <1>28, <1>29, <1>30, <1>31,
      <1>32, <1>33, NextActions

\* presence.tracker.ts:78-83: a connection announces an arrival only if its own
\* write filled the set, and one that filled it has announced or is about to.
THEOREM ArrivalsAnnounced == Spec => []ArrivalAnnounced
<1>1. Init => ArrivalInv
  BY ConstantsAssumption DEF Init, ArrivalInv
<1>2. IInv /\ ArrivalInv /\ [Next]_vars => ArrivalInv'
  BY ArrivalStep
<1>3. ArrivalInv => ArrivalAnnounced
  BY DEF ArrivalInv, ArrivalAnnounced
<1> QED BY <1>1, <1>2, <1>3, Invariance, PTL DEF Spec

-----------------------------------------------------------------------------
(* The indexes.                                                            *)

AfterRead == {"clear", "clrGlobal", "clrTenant", "clrRoster"}

\* A user is only ever filed under the tenant of the account, a cleanup knows
\* that tenant or none, and only a discarded add runs command by command.
TenantInv ==
  /\ \A c \in Conn : cpc[c] \in RecordPc => UserOf[c] \in disturbed
  /\ \A t \in Tenant : \A u \in roster[t] : t = TenantOf[u]
  /\ \A u \in User : userTenant[u] \in {TenantOf[u], NoTenant}
  /\ \A p \in Task :
       /\ rpc[p] \in AfterRead => readTenant[p] \in {TenantOf[Leaver(p)], NoTenant}
       /\ rpc[p] = "clrRoster" => readTenant[p] # NoTenant

Rostered(u) == u \in roster[TenantOf[u]]
ClearedBy(p, u, S) == RemovedFor(p, u) /\ rpc[p] \in S

\* An occupied user is listed everywhere.
Listed(u) == conns[u] # {} => u \in online /\ Rostered(u) /\ userTenant[u] = TenantOf[u]

\* Nothing joins a set under a cleanup without disturbing its user.
ClearsEmpty(u) == \A p \in Task : ClearedBy(p, u, ClearPc) => conns[u] = {}

\* The reissued cleanup has already left the global set.
Unlisted(u) == \A p \in Task : ClearedBy(p, u, {"clrTenant", "clrRoster"}) => u \notin online

\* The last cleanup leaves nothing behind.
Gone(u) == conns[u] = {} /\ ~Clearing(u) => u \notin online /\ ~Rostered(u)

\* A cleanup that knows no tenant skips the roster only because another one,
\* which took the tenant away, is about to leave it.
RosterOwed(u) ==
  /\ Rostered(u)
  /\ \/ userTenant[u] = NoTenant
     \/ \E p \in Task : ClearedBy(p, u, AfterRead) /\ readTenant[p] = NoTenant
  => \E q \in Task : ClearedBy(q, u, {"clrRoster"})

UserIndexOK(u) == Listed(u) /\ ClearsEmpty(u) /\ Unlisted(u) /\ Gone(u) /\ RosterOwed(u)

IndexInv == TenantInv /\ \A u \in User \ disturbed : UserIndexOK(u)

LEMMA CountZero ==
  ASSUME NEW S \in SUBSET Conn
  PROVE  Cardinality(S) \in Nat /\ (Cardinality(S) > 0 <=> S # {})
<1>1. IsFiniteSet(S)
  BY ConstantsAssumption, FS_Subset
<1> QED BY <1>1, FS_CardinalityType, FS_EmptySet


\* The places where a removal of u may still find, or has found, the set empty.
CleanupPc == ClearPc \cup {"relOwner", "recount"}

\* A step that leaves what is filed of w and every cleanup of w alone.
LEMMA SameCleanups ==
  ASSUME NEW w \in User, UserIndexOK(w),
         conns'[w] = conns[w], w \in online' <=> w \in online, Rostered(w)' <=> Rostered(w),
         userTenant'[w] = userTenant[w],
         \A p \in Task :
           \/ ~ClearedBy(p, w, CleanupPc) /\ ~ClearedBy(p, w, CleanupPc)'
           \/ rpc'[p] = rpc[p] /\ Removed(p)' = Removed(p) /\ readTenant'[p] = readTenant[p]
  PROVE  UserIndexOK(w)'
<1>1. ASSUME NEW p \in Task
      PROVE  /\ ClearedBy(p, w, CleanupPc)' <=> ClearedBy(p, w, CleanupPc)
             /\ ClearedBy(p, w, CleanupPc) =>
                  rpc'[p] = rpc[p] /\ readTenant'[p] = readTenant[p] /\ RemovedFor(p, w)'
  <2>1. CASE rpc'[p] = rpc[p] /\ Removed(p)' = Removed(p) /\ readTenant'[p] = readTenant[p]
    BY <2>1 DEF ClearedBy, RemovedFor
  <2>2. CASE ~ClearedBy(p, w, CleanupPc) /\ ~ClearedBy(p, w, CleanupPc)'
    BY <2>2
  <2> QED BY <2>1, <2>2
<1>2. Clearing(w)' <=> Clearing(w)
  BY <1>1 DEF Clearing, ClearedBy, CleanupPc
<1>3. ASSUME NEW S \in SUBSET CleanupPc, NEW p \in Task
      PROVE  ClearedBy(p, w, S)' <=> ClearedBy(p, w, S)
  BY <1>1 DEF ClearedBy
<1>4. /\ ClearPc \in SUBSET CleanupPc /\ AfterRead \in SUBSET CleanupPc
      /\ {"clrTenant", "clrRoster"} \in SUBSET CleanupPc /\ {"clrRoster"} \in SUBSET CleanupPc
  BY DEF CleanupPc, ClearPc, AfterRead
<1>5. Listed(w)' /\ Gone(w)'
  BY <1>2 DEF UserIndexOK, Listed, Gone
<1>6. ClearsEmpty(w)' /\ Unlisted(w)'
  BY <1>3, <1>4 DEF UserIndexOK, ClearsEmpty, Unlisted
<1>7. RosterOwed(w)'
  <2>1. ASSUME NEW p \in Task, ClearedBy(p, w, AfterRead)'
        PROVE  ClearedBy(p, w, AfterRead) /\ readTenant'[p] = readTenant[p]
    <3>1. ClearedBy(p, w, AfterRead)
      BY <1>3, <1>4, <2>1
    <3>2. ClearedBy(p, w, CleanupPc)
      BY <1>4, <3>1 DEF ClearedBy
    <3> QED BY <1>1, <3>1, <3>2
  <2>2. SUFFICES ASSUME Rostered(w)',
                        \/ userTenant'[w] = NoTenant
                        \/ \E p \in Task : ClearedBy(p, w, AfterRead)' /\ readTenant'[p] = NoTenant
                 PROVE  \E q \in Task : ClearedBy(q, w, {"clrRoster"})'
    BY DEF RosterOwed
  <2>3. PICK q \in Task : ClearedBy(q, w, {"clrRoster"})
    BY <2>1, <2>2 DEF UserIndexOK, RosterOwed
  <2> QED BY <1>3, <1>4, <2>3
<1> QED BY <1>5, <1>6, <1>7 DEF UserIndexOK

LEMMA TenantStep ==
  ASSUME IInv, TenantInv, [Next]_vars
  PROVE  TenantInv'
<1> USE ConstantsAssumption
    DEF procVars, taskVars, redisVars, historyVars, vars, recordRest, removeRest, clearRest,
        SetConnect, SetRemoval, IInv, TypeOK, Task, TargetInv, StageInv, Live, TenantInv,
        AfterRead, Removed, Leaver, RecordPc, ConnectPc, RemovePc, ClearPc, AfterRemoval
<1>1. ASSUME NEW c \in Conn, Register(c) PROVE TenantInv'
  BY <1>1 DEF Register, Registering
<1>2. ASSUME NEW c \in Conn, RegisterEvicting(c) PROVE TenantInv'
  <2>1. PICK d \in Conn : rpc' = [rpc EXCEPT ![d] = "remove"] /\ rpc[d] = "none"
    <3>1. PICK e \in Conn : Live(e) /\ Evicted(c, e)
      <4> HIDE DEF Live
      <4> QED BY <1>2, EvictingEffect, Zenon
    <3>2. rpc[e] = "none"
      BY <3>1
    <3> QED BY <3>1, <3>2 DEF Evicted
  <2>2. cpc' = cpc \/ cpc' = [cpc EXCEPT ![c] = "add"]
    BY <1>2 DEF RegisterEvicting
  <2>3. UNCHANGED <<target, readTenant, roster, userTenant, disturbed>>
    BY <1>2 DEF RegisterEvicting
  <2>4. /\ \A e \in Conn : cpc'[e] \in RecordPc => UserOf[e] \in disturbed'
        /\ \A t \in Tenant : \A u \in roster'[t] : t = TenantOf[u]
        /\ \A u \in User : userTenant'[u] \in {TenantOf[u], NoTenant}
    BY <2>2, <2>3
  <2>5. ASSUME NEW r \in Task
        PROVE  /\ rpc'[r] \in AfterRead => readTenant'[r] \in {TenantOf[Leaver(r)'], NoTenant}
               /\ rpc'[r] = "clrRoster" => readTenant'[r] # NoTenant
    <3>1. Leaver(r)' = Leaver(r)
      BY <2>3
    <3> QED BY <2>1, <2>3, <3>1
  <2> QED BY <2>4, <2>5
<1>3. ASSUME NEW c \in Conn, FireConnect(c) PROVE TenantInv'
  BY <1>3 DEF FireConnect
<1>4. ASSUME NEW c \in Conn, Close(c) PROVE TenantInv'
  BY <1>4 DEF Close
<1>5. ASSUME NEW c \in Conn, AddConnection(c) PROVE TenantInv'
  <2>1. /\ roster' = [roster EXCEPT ![TenantOf[UserOf[c]]] = @ \cup {UserOf[c]}]
        /\ userTenant' = [userTenant EXCEPT ![UserOf[c]] = TenantOf[UserOf[c]]]
        /\ UNCHANGED <<rpc, target, readTenant>>
    BY <1>5 DEF AddConnection, RememberTenant, EnterRoster
  <2>2. /\ disturbed \subseteq disturbed'
        /\ \A e \in Conn : cpc'[e] \in RecordPc => cpc[e] \in RecordPc
    BY <1>5 DEF AddConnection, JoinUser, AfterAdd
  <2>3. \A t \in Tenant : \A u \in roster'[t] : t = TenantOf[u]
    BY <2>1
  <2>4. \A u \in User : userTenant'[u] \in {TenantOf[u], NoTenant}
    BY <2>1
  <2>5. \A e \in Conn : cpc'[e] \in RecordPc => UserOf[e] \in disturbed'
    BY <2>2
  <2> QED BY <2>1, <2>3, <2>4, <2>5
<1>6. ASSUME NEW c \in Conn, RecordUser(c) PROVE TenantInv'
  BY <1>6 DEF RecordUser, JoinUser
<1>7. ASSUME NEW c \in Conn, RecordGlobal(c) PROVE TenantInv'
  BY <1>7 DEF RecordGlobal, ListUser
<1>8. ASSUME NEW c \in Conn, RecordOwner(c) PROVE TenantInv'
  BY <1>8 DEF RecordOwner, ClaimConn
<1>9. ASSUME NEW c \in Conn, RecordTenant(c) PROVE TenantInv'
  BY <1>9 DEF RecordTenant, RememberTenant
<1>10. ASSUME NEW c \in Conn, RecordRoster(c) PROVE TenantInv'
  <2>1. /\ cpc' = [cpc EXCEPT ![c] = "count"]
        /\ roster' = [roster EXCEPT ![TenantOf[UserOf[c]]] = @ \cup {UserOf[c]}]
        /\ UNCHANGED <<rpc, target, readTenant, userTenant, disturbed>>
    BY <1>10 DEF RecordRoster, EnterRoster
  <2>2. \A t \in Tenant : \A u \in roster'[t] : t = TenantOf[u]
    BY <2>1
  <2>3. \A e \in Conn : cpc'[e] \in RecordPc => UserOf[e] \in disturbed'
    BY <2>1
  <2> QED BY <2>1, <2>2, <2>3
<1>11. ASSUME NEW c \in Conn, CountAdded(c) PROVE TenantInv'
  BY <1>11 DEF CountAdded, AfterAdd
<1>12. ASSUME NEW c \in Conn, AnnounceOnline(c) PROVE TenantInv'
  BY <1>12 DEF AnnounceOnline
<1>13. ASSUME NEW c \in Conn, DiscardAdd(c) PROVE TenantInv'
  BY <1>13 DEF DiscardAdd
<1>14. ASSUME NEW c \in Conn, AbortConnect(c) PROVE TenantInv'
  BY <1>14 DEF AbortConnect
<1>15. ASSUME NEW c \in Conn, AnnounceOffline(c) PROVE TenantInv'
  BY <1>15 DEF AnnounceOffline
<1>16. ASSUME NEW c \in Conn, AbortRemoval(c) PROVE TenantInv'
  BY <1>16 DEF AbortRemoval
<1>17. ASSUME NEW p \in Task, RemoveConnection(p) PROVE TenantInv'
  <2>1. /\ rpc[p] = "remove" /\ (p \in Conn => cpc[p] # "add")
        /\ conns' = [conns EXCEPT ![Leaver(p)] = @ \ {Removed(p)}]
        /\ owned' = [owned EXCEPT ![Owner(p)] = @ \ {Removed(p)}]
        /\ UNCHANGED <<inst, stage, faults, cpc, todo, target, readTenant, discards,
                       roster, userTenant, disturbed>>
    BY <1>17, RemoveEffect
  <2>2. CASE rpc' = [rpc EXCEPT ![p] = "getTenant"]
    BY <2>1, <2>2
  <2>3. CASE rpc' = [rpc EXCEPT ![p] = AfterRemoval(p)]
    BY <2>1, <2>3
  <2>4. \/ rpc' = [rpc EXCEPT ![p] = "getTenant"]
        \/ rpc' = [rpc EXCEPT ![p] = AfterRemoval(p)]
    BY <1>17, RemoveEffect
  <2> QED BY <2>2, <2>3, <2>4, Zenon
<1>18. ASSUME NEW p \in Task, ReleaseUser(p) PROVE TenantInv'
  BY <1>18 DEF ReleaseUser, LeaveUser
<1>19. ASSUME NEW p \in Task, ReleaseOwner(p) PROVE TenantInv'
  BY <1>19 DEF ReleaseOwner, DisclaimConn
<1>20. ASSUME NEW p \in Task, CountRemaining(p) PROVE TenantInv'
  BY <1>20 DEF CountRemaining, AfterRemove
<1>21. ASSUME NEW p \in Task, ReadTenant(p) PROVE TenantInv'
  <2>1. /\ readTenant' = [readTenant EXCEPT ![p] = userTenant[Leaver(p)]]
        /\ rpc' = [rpc EXCEPT ![p] = "clear"] /\ rpc[p] = "getTenant"
        /\ UNCHANGED <<cpc, target, roster, userTenant, disturbed>>
    BY <1>21 DEF ReadTenant
  <2>2. userTenant[Leaver(p)] \in {TenantOf[Leaver(p)], NoTenant}
    BY <2>1
  <2>3. readTenant'[p] \in {TenantOf[Leaver(p)], NoTenant} /\ rpc'[p] = "clear"
    BY <2>1, <2>2
  <2>4. \A r \in Task \ {p} : rpc'[r] = rpc[r] /\ readTenant'[r] = readTenant[r]
    BY <2>1
  <2>5. /\ \A c \in Conn : cpc'[c] \in RecordPc => UserOf[c] \in disturbed'
        /\ \A t \in Tenant : \A u \in roster'[t] : t = TenantOf[u]
        /\ \A u \in User : userTenant'[u] \in {TenantOf[u], NoTenant}
    BY <2>1
  <2>6. ASSUME NEW r \in Task
        PROVE  /\ rpc'[r] \in AfterRead => readTenant'[r] \in {TenantOf[Leaver(r)'], NoTenant}
               /\ rpc'[r] = "clrRoster" => readTenant'[r] # NoTenant
    <3>1. Leaver(r)' = Leaver(r)
      BY <2>1
    <3>2. CASE r = p
      BY <2>3, <3>1, <3>2
    <3>3. CASE r # p
      BY <2>4, <3>1, <3>3
    <3> QED BY <3>2, <3>3
  <2> QED BY <2>5, <2>6
<1>22. ASSUME NEW p \in Task, ClearIndexes(p) PROVE TenantInv'
  <2>1. /\ rpc' = [rpc EXCEPT ![p] = AfterClear(p)] /\ AfterClear(p) \notin AfterRead
        /\ UNCHANGED <<cpc, target, readTenant, disturbed>>
    BY <1>22 DEF ClearIndexes, AfterClear
  <2>2. /\ userTenant' = [userTenant EXCEPT ![Leaver(p)] = NoTenant]
        /\ roster' = [t \in Tenant |-> IF t = readTenant[p] THEN roster[t] \ {Leaver(p)} ELSE roster[t]]
    BY <1>22 DEF ClearIndexes, ForgetTenant, LeaveRoster
  <2>3. /\ \A c \in Conn : cpc'[c] \in RecordPc => UserOf[c] \in disturbed'
        /\ \A t \in Tenant : \A u \in roster'[t] : t = TenantOf[u]
        /\ \A u \in User : userTenant'[u] \in {TenantOf[u], NoTenant}
    BY <2>1, <2>2
  <2>4. ASSUME NEW r \in Task
        PROVE  /\ rpc'[r] \in AfterRead => readTenant'[r] \in {TenantOf[Leaver(r)'], NoTenant}
               /\ rpc'[r] = "clrRoster" => readTenant'[r] # NoTenant
    <3>1. Leaver(r)' = Leaver(r)
      BY <2>1
    <3> QED BY <2>1, <3>1
  <2> QED BY <2>3, <2>4
<1>23. ASSUME NEW p \in Task, ReissueGlobal(p) PROVE TenantInv'
  <2>1. /\ rpc[p] = "clrGlobal" /\ rpc' = [rpc EXCEPT ![p] = "clrTenant"]
        /\ UNCHANGED <<cpc, target, readTenant, roster, userTenant, disturbed>>
    BY <1>23 DEF ReissueGlobal
  <2>2. ASSUME NEW r \in Task
        PROVE  /\ Leaver(r)' = Leaver(r) /\ (rpc'[r] \in AfterRead => rpc[r] \in AfterRead)
               /\ rpc'[r] = "clrRoster" => rpc[r] = "clrRoster"
    BY <2>1
  <2> QED BY <2>1, <2>2
<1>24. ASSUME NEW p \in Task, ReissueTenant(p) PROVE TenantInv'
  BY <1>24 DEF ReissueTenant, ForgetTenant, AfterClear
<1>25. ASSUME NEW p \in Task, ReissueRoster(p) PROVE TenantInv'
  BY <1>25 DEF ReissueRoster, LeaveRoster, AfterClear
<1>26. ASSUME NEW p \in Task, DiscardRemove(p) PROVE TenantInv'
  BY <1>26 DEF DiscardRemove
<1>27. ASSUME NEW p \in Task, DiscardClear(p) PROVE TenantInv'
  BY <1>27 DEF DiscardClear
<1>28. ASSUME NEW i \in Instance, Crash(i) PROVE TenantInv'
  <2>1. /\ \A c \in Conn : cpc'[c] \in {cpc[c], "done"}
        /\ \A p \in Task : (rpc'[p] = rpc[p] /\ p # i) \/ rpc'[p] \in {"none", "done"}
        /\ target' = [target EXCEPT ![i] = NoConn]
        /\ disturbed \subseteq disturbed' /\ UNCHANGED <<readTenant, roster, userTenant>>
    BY <1>28 DEF Crash, DropReclaim
  <2>2. /\ \A c \in Conn : cpc'[c] \in RecordPc => UserOf[c] \in disturbed'
        /\ \A t \in Tenant : \A u \in roster'[t] : t = TenantOf[u]
        /\ \A u \in User : userTenant'[u] \in {TenantOf[u], NoTenant}
    BY <2>1
  <2>3. ASSUME NEW p \in Task
        PROVE  /\ rpc'[p] \in AfterRead => readTenant'[p] \in {TenantOf[Leaver(p)'], NoTenant}
               /\ rpc'[p] = "clrRoster" => readTenant'[p] # NoTenant
    <3>1. CASE rpc'[p] \in {"none", "done"}
      BY <3>1
    <3>2. CASE rpc'[p] = rpc[p] /\ p # i
      <4>1. Leaver(p)' = Leaver(p)
        BY <2>1, <3>2
      <4> QED BY <2>1, <3>2, <4>1
    <3> QED BY <2>1, <3>1, <3>2
  <2> QED BY <2>2, <2>3
<1>29. ASSUME NEW i \in Instance, Boot(i) PROVE TenantInv'
  BY <1>29 DEF Boot
<1>30. ASSUME NEW i \in Instance, ReclaimNext(i) PROVE TenantInv'
  BY <1>30 DEF ReclaimNext
<1>31. ASSUME NEW i \in Instance, ReclaimDone(i) PROVE TenantInv'
  BY <1>31 DEF ReclaimDone, DropReclaim
<1>32. ASSUME NEW i \in Instance, ReclaimFails(i) PROVE TenantInv'
  <2>1. /\ rpc' = [rpc EXCEPT ![i] = "none"] /\ target' = [target EXCEPT ![i] = NoConn]
        /\ disturbed \subseteq disturbed' /\ UNCHANGED <<cpc, readTenant, roster, userTenant>>
    BY <1>32 DEF ReclaimFails, DropReclaim
  <2>2. ASSUME NEW p \in Task, p # i
        PROVE  rpc'[p] = rpc[p] /\ Leaver(p)' = Leaver(p)
    BY <2>1, <2>2
  <2>3. rpc'[i] = "none"
    BY <2>1
  <2> QED BY <2>1, <2>2, <2>3
<1>33. CASE UNCHANGED vars BY <1>33
<1> HIDE DEF IInv, TenantInv
<1> QED BY <1>1, <1>2, <1>3, <1>4, <1>5, <1>6, <1>7, <1>8, <1>9, <1>10, <1>11, <1>12,
      <1>13, <1>14, <1>15, <1>16, <1>17, <1>18, <1>19, <1>20, <1>21, <1>22, <1>23,
      <1>24, <1>25, <1>26, <1>27, <1>28, <1>29, <1>30, <1>31, <1>32, <1>33,
      NextActions

\* A step of a removal that is no cleanup of w, before or after.
LEMMA IdleRemoval ==
  ASSUME NEW w \in User, UserIndexOK(w), NEW p \in Task, NEW q,
         ~ClearedBy(p, w, CleanupPc), ~RemovedFor(p, w)' \/ q \notin CleanupPc,
         rpc \in [Task -> RemovePc], rpc' = [rpc EXCEPT ![p] = q],
         \A r \in Task \ {p} : Removed(r)' = Removed(r) /\ readTenant'[r] = readTenant[r],
         conns'[w] = conns[w], w \in online' <=> w \in online, Rostered(w)' <=> Rostered(w),
         userTenant'[w] = userTenant[w]
  PROVE  UserIndexOK(w)'
<1>1. ASSUME NEW r \in Task
      PROVE  \/ ~ClearedBy(r, w, CleanupPc) /\ ~ClearedBy(r, w, CleanupPc)'
             \/ rpc'[r] = rpc[r] /\ Removed(r)' = Removed(r) /\ readTenant'[r] = readTenant[r]
  <2>1. CASE r = p
    BY <2>1 DEF ClearedBy
  <2>2. CASE r # p
    BY <2>2
  <2> QED BY <2>1, <2>2
<1> QED BY <1>1, SameCleanups

\* A step that leaves every index and every removal alone.
LEMMA SameIndexes ==
  ASSUME NEW w \in User, UserIndexOK(w),
         UNCHANGED <<rpc, target, readTenant, conns, online, roster, userTenant>>
  PROVE  UserIndexOK(w)'
<1>1. \A p \in Task : Removed(p)' = Removed(p)
  BY DEF Removed
<1>2. Rostered(w)' <=> Rostered(w)
  BY DEF Rostered
<1> QED BY <1>1, <1>2, SameCleanups

LEMMA IndexFacts ==
  ASSUME IInv
  PROVE  /\ rpc \in [Task -> RemovePc] /\ readTenant \in [Task -> Tenant \cup {NoTenant}]
         /\ target \in [Instance -> Conn \cup {NoConn}]
         /\ conns \in [User -> SUBSET Conn] /\ online \subseteq User
         /\ roster \in [Tenant -> SUBSET User] /\ userTenant \in [User -> Tenant \cup {NoTenant}]
         /\ UserOf \in [Conn -> User] /\ TenantOf \in [User -> Tenant]
         /\ Conn \subseteq Task /\ Instance \subseteq Task /\ Conn \cap Instance = {}
BY ConstantsAssumption DEF IInv, TypeOK, Task

\* What a task that runs removes, and for whom.
LEMMA LeaverIs ==
  ASSUME IInv, NEW p \in Task, rpc[p] # "none"
  PROVE  /\ Removed(p) \in Conn /\ Leaver(p) \in User
         /\ \A u : RemovedFor(p, u) <=> u = Leaver(p)
<1>1. Removed(p) \in Conn
  BY DEF Removed, Task, IInv, TargetInv
<1>2. UserOf \in [Conn -> User]
  BY ConstantsAssumption
<1> QED BY <1>1, <1>2 DEF Leaver, RemovedFor

\* The steps of a connection, and of its hook.
LEMMA UserIndexConnect ==
  ASSUME IInv, TenantInv, NEW w \in User, w \notin disturbed', UserIndexOK(w), NEW c \in Conn,
         \/ Register(c) \/ RegisterEvicting(c) \/ FireConnect(c) \/ Close(c)
         \/ AddConnection(c) \/ RecordUser(c) \/ RecordGlobal(c) \/ RecordOwner(c)
         \/ RecordTenant(c) \/ RecordRoster(c) \/ CountAdded(c)
         \/ AnnounceOnline(c) \/ DiscardAdd(c) \/ AbortConnect(c)
  PROVE  UserIndexOK(w)'
<1>1. /\ rpc \in [Task -> RemovePc] /\ conns \in [User -> SUBSET Conn]
      /\ roster \in [Tenant -> SUBSET User] /\ userTenant \in [User -> Tenant \cup {NoTenant}]
      /\ UserOf[c] \in User /\ TenantOf \in [User -> Tenant] /\ c \in Task
  BY IndexFacts
<1>2. CASE Register(c) \/ FireConnect(c) \/ RecordOwner(c) \/ CountAdded(c) \/ AnnounceOnline(c)
           \/ DiscardAdd(c) \/ AbortConnect(c)
  <2>1. UNCHANGED <<rpc, target, readTenant, conns, online, roster, userTenant>>
    BY <1>2 DEF Register, FireConnect, RecordOwner, CountAdded, AnnounceOnline, DiscardAdd,
                AbortConnect, redisVars, recordRest
  <2> QED BY <2>1, SameIndexes
<1>3. CASE RegisterEvicting(c) \/ Close(c)
  <2>1. PICK d \in Conn : Live(d) /\ rpc' = [rpc EXCEPT ![d] = "remove"]
    BY <1>3, EvictingEffect DEF Evicted, Close
  <2>2. rpc[d] = "none" /\ d \in Task
    BY <1>1, <2>1, IndexFacts DEF Live, IInv, StageInv, TypeOK, RemovePc
  <2>3. UNCHANGED <<target, readTenant, conns, online, roster, userTenant>>
    BY <1>3 DEF RegisterEvicting, Close, redisVars
  <2>4. ~ClearedBy(d, w, CleanupPc) /\ "remove" \notin CleanupPc
    BY <2>2 DEF ClearedBy, CleanupPc, ClearPc
  <2>5. \A r \in Task : Removed(r)' = Removed(r)
    BY <2>3 DEF Removed
  <2>6. Rostered(w)' <=> Rostered(w)
    BY <2>3 DEF Rostered
  <2> QED BY <1>1, <2>1, <2>2, <2>3, <2>4, <2>5, <2>6, IdleRemoval
<1>4. CASE RecordUser(c) \/ RecordGlobal(c) \/ RecordTenant(c) \/ RecordRoster(c)
  <2>1. UserOf[c] \in disturbed
    BY <1>4 DEF TenantInv, RecordPc, RecordUser, RecordGlobal, RecordTenant, RecordRoster
  <2>2. disturbed \subseteq disturbed'
    BY <1>4 DEF RecordUser, RecordGlobal, RecordTenant, RecordRoster, JoinUser
  <2>3. UserOf[c] # w
    BY <2>1, <2>2
  <2>4. UNCHANGED <<rpc, target, readTenant>>
    BY <1>4 DEF RecordUser, RecordGlobal, RecordTenant, RecordRoster, recordRest
  <2>5. /\ conns' = conns \/ conns' = [conns EXCEPT ![UserOf[c]] = @ \cup {c}]
        /\ online' = online \/ online' = online \cup {UserOf[c]}
        /\ roster' = roster \/ roster' = [roster EXCEPT ![TenantOf[UserOf[c]]] = @ \cup {UserOf[c]}]
        /\ \/ userTenant' = userTenant
           \/ userTenant' = [userTenant EXCEPT ![UserOf[c]] = TenantOf[UserOf[c]]]
    BY <1>4 DEF RecordUser, RecordGlobal, RecordTenant, RecordRoster, JoinUser, ListUser,
                RememberTenant, EnterRoster
  <2>6. /\ conns'[w] = conns[w] /\ userTenant'[w] = userTenant[w]
        /\ w \in online' <=> w \in online
    BY <1>1, <2>3, <2>5
  <2>7. Rostered(w)' <=> Rostered(w)
    BY <1>1, <2>3, <2>5 DEF Rostered
  <2>8. \A r \in Task : Removed(r)' = Removed(r)
    BY <2>4 DEF Removed
  <2> QED BY <2>4, <2>6, <2>7, <2>8, SameCleanups
<1>5. CASE AddConnection(c)
  <2>1. /\ conns' = [conns EXCEPT ![UserOf[c]] = @ \cup {c}]
        /\ online' = online \cup {UserOf[c]}
        /\ userTenant' = [userTenant EXCEPT ![UserOf[c]] = TenantOf[UserOf[c]]]
        /\ roster' = [roster EXCEPT ![TenantOf[UserOf[c]]] = @ \cup {UserOf[c]}]
        /\ Clearing(UserOf[c]) => UserOf[c] # w
        /\ UNCHANGED <<rpc, readTenant, target>>
    BY <1>5 DEF AddConnection, JoinUser, ListUser, RememberTenant, EnterRoster, recordRest
  <2>2. \A r \in Task : Removed(r)' = Removed(r)
    BY <2>1 DEF Removed
  <2>3. CASE UserOf[c] # w
    <3>1. /\ conns'[w] = conns[w] /\ userTenant'[w] = userTenant[w]
          /\ w \in online' <=> w \in online
      BY <1>1, <2>1, <2>3
    <3>2. Rostered(w)' <=> Rostered(w)
      BY <1>1, <2>1, <2>3 DEF Rostered
    <3> QED BY <2>1, <2>2, <3>1, <3>2, SameCleanups
  <2>4. CASE UserOf[c] = w
    <3>1. /\ conns'[w] # {} /\ w \in online' /\ userTenant'[w] = TenantOf[w] /\ Rostered(w)'
      BY <1>1, <2>1, <2>4 DEF Rostered
    <3>2. ASSUME NEW p \in Task PROVE ~ClearedBy(p, w, CleanupPc)'
      BY <2>1, <2>2, <2>4 DEF Clearing, ClearedBy, RemovedFor, CleanupPc
    <3>3. Listed(w)' /\ Gone(w)'
      BY <3>1 DEF Listed, Gone
    <3>4. \A p \in Task : ~ClearedBy(p, w, ClearPc)' /\ ~ClearedBy(p, w, AfterRead)'
                          /\ ~ClearedBy(p, w, {"clrTenant", "clrRoster"})'
      BY <3>2 DEF ClearedBy, CleanupPc, ClearPc, AfterRead
    <3>5. ClearsEmpty(w)' /\ Unlisted(w)'
      BY <3>4 DEF ClearsEmpty, Unlisted
    <3>6. userTenant'[w] # NoTenant
      BY <1>1, <3>1, ConstantsAssumption
    <3>7. RosterOwed(w)'
      BY <3>4, <3>6 DEF RosterOwed
    <3> QED BY <3>3, <3>5, <3>7 DEF UserIndexOK
  <2> QED BY <2>3, <2>4
<1> QED BY <1>2, <1>3, <1>4, <1>5

\* The steps of a removal.
LEMMA UserIndexRemoval ==
  ASSUME IInv, TenantInv, NEW w \in User, w \notin disturbed', UserIndexOK(w), NEW p \in Task,
         \/ RemoveConnection(p) \/ ReleaseUser(p) \/ ReleaseOwner(p) \/ CountRemaining(p)
         \/ ReadTenant(p) \/ ClearIndexes(p) \/ ReissueGlobal(p) \/ ReissueTenant(p)
         \/ ReissueRoster(p) \/ DiscardRemove(p) \/ DiscardClear(p)
  PROVE  UserIndexOK(w)'
<1>1. /\ rpc \in [Task -> RemovePc] /\ conns \in [User -> SUBSET Conn] /\ online \subseteq User
      /\ roster \in [Tenant -> SUBSET User] /\ userTenant \in [User -> Tenant \cup {NoTenant}]
      /\ TenantOf \in [User -> Tenant] /\ readTenant \in [Task -> Tenant \cup {NoTenant}]
      /\ Tenant = DOMAIN roster
  BY IndexFacts
<1>2. rpc[p] # "none"
  BY DEF RemoveConnection, ReleaseUser, ReleaseOwner, CountRemaining, ReadTenant, ClearIndexes,
         ReissueGlobal, ReissueTenant, ReissueRoster, DiscardRemove, DiscardClear
<1>3. /\ Removed(p) \in Conn /\ Leaver(p) \in User
      /\ \A u : RemovedFor(p, u) <=> u = Leaver(p)
  BY <1>2, LeaverIs
<1>4. target' = target
  BY DEF RemoveConnection, ReleaseUser, ReleaseOwner, CountRemaining, ReadTenant, ClearIndexes,
         ReissueGlobal, ReissueTenant, ReissueRoster, DiscardRemove, DiscardClear, removeRest,
         clearRest
<1>5. PICK q : rpc' = [rpc EXCEPT ![p] = q]
  BY DEF RemoveConnection, ReleaseUser, ReleaseOwner, CountRemaining, ReadTenant, ClearIndexes,
         ReissueGlobal, ReissueTenant, ReissueRoster, DiscardRemove, DiscardClear, SetRemoval
<1>6. readTenant' = readTenant \/ readTenant' = [readTenant EXCEPT ![p] = userTenant[Leaver(p)]]
  BY DEF RemoveConnection, ReleaseUser, ReleaseOwner, CountRemaining, ReadTenant, ClearIndexes,
         ReissueGlobal, ReissueTenant, ReissueRoster, DiscardRemove, DiscardClear, removeRest,
         clearRest
<1>7. /\ \A r \in Task : Removed(r)' = Removed(r) /\ (RemovedFor(r, w)' <=> RemovedFor(r, w))
      /\ \A r \in Task \ {p} : rpc'[r] = rpc[r] /\ readTenant'[r] = readTenant[r]
      /\ rpc'[p] = q
  BY <1>1, <1>4, <1>5, <1>6 DEF Removed, RemovedFor
<1>8. CASE Leaver(p) # w
  <2>1. conns' = conns \/ conns' = [conns EXCEPT ![Leaver(p)] = @ \ {Removed(p)}]
    BY DEF RemoveConnection, ReleaseUser, ReleaseOwner, CountRemaining, ReadTenant, ClearIndexes,
           ReissueGlobal, ReissueTenant, ReissueRoster, DiscardRemove, DiscardClear, redisVars,
           clearRest, LeaveUser
  <2>2. /\ online' = online \/ online' = online \ {Leaver(p)}
        /\ userTenant' = userTenant \/ userTenant' = [userTenant EXCEPT ![Leaver(p)] = NoTenant]
        /\ \/ roster' = roster
           \/ roster' = [t \in Tenant |-> IF t = readTenant[p] THEN roster[t] \ {Leaver(p)} ELSE roster[t]]
    BY DEF RemoveConnection, ReleaseUser, ReleaseOwner, CountRemaining, ReadTenant, ClearIndexes,
           ReissueGlobal, ReissueTenant, ReissueRoster, DiscardRemove, DiscardClear, redisVars,
           removeRest, UnlistUser, ForgetTenant, LeaveRoster
  <2>3. /\ conns'[w] = conns[w] /\ userTenant'[w] = userTenant[w]
        /\ w \in online' <=> w \in online
    BY <1>1, <1>8, <2>1, <2>2
  <2>4. Rostered(w)' <=> Rostered(w)
    BY <1>1, <1>8, <2>2 DEF Rostered
  <2>5. ~ClearedBy(p, w, CleanupPc) /\ ~RemovedFor(p, w)'
    BY <1>3, <1>7, <1>8 DEF ClearedBy
  <2> QED BY <1>1, <1>5, <1>7, <2>3, <2>4, <2>5, IdleRemoval
<1>9. ASSUME Leaver(p) = w, UNCHANGED <<conns, online, roster, userTenant, readTenant>>,
             rpc[p] \notin CleanupPc, q \notin CleanupPc
      PROVE  UserIndexOK(w)'
  <2>1. ~ClearedBy(p, w, CleanupPc)
    BY <1>9 DEF ClearedBy
  <2>2. Rostered(w)' <=> Rostered(w)
    BY <1>9 DEF Rostered
  <2> QED BY <1>1, <1>5, <1>7, <1>9, <2>1, <2>2, IdleRemoval
<1>10. ASSUME Leaver(p) = w PROVE UserIndexOK(w)'
  <2> USE <1>7, <1>10 DEF UserIndexOK, Listed, ClearsEmpty, Unlisted, Gone, RosterOwed, ClearedBy,
          Clearing, ClearPc, AfterRead
  <2>1. RemovedFor(p, w)
    BY <1>3
  <2>2. conns[w] \in SUBSET Conn /\ (Rostered(w) <=> w \in roster[TenantOf[w]])
        /\ (Rostered(w)' <=> w \in roster'[TenantOf[w]])
    BY <1>1 DEF Rostered
  <2>3. CASE RemoveConnection(p) \/ CountRemaining(p)
    <3>1. /\ UNCHANGED <<online, roster, userTenant, readTenant>>
          /\ rpc[p] \in {"remove", "recount"} /\ conns'[w] \subseteq conns[w]
          /\ rpc[p] = "recount" => conns' = conns
      BY <1>1, <2>3 DEF RemoveConnection, CountRemaining, removeRest, redisVars, LeaveUser
    <3>2. q = AfterRemove(p, Cardinality(conns'[w]))
      BY <1>1, <2>3, <3>1 DEF RemoveConnection, CountRemaining, SetRemoval, redisVars
    <3>3. q = IF conns'[w] # {} THEN AfterRemoval(p) ELSE "getTenant"
      BY <2>2, <3>1, <3>2, CountZero DEF AfterRemove
    <3>4. CASE conns'[w] # {}
      BY <2>1, <2>2, <3>1, <3>3, <3>4 DEF AfterRemoval
    <3>5. CASE conns'[w] = {}
      BY <2>1, <2>2, <3>1, <3>3, <3>5
    <3> QED BY <3>4, <3>5
  <2>4. CASE ReleaseUser(p)
    <3>1. /\ UNCHANGED <<online, roster, userTenant, readTenant>> /\ rpc[p] = "relUser"
          /\ q = "relOwner" /\ conns'[w] \subseteq conns[w]
      BY <1>1, <2>4 DEF ReleaseUser, removeRest, LeaveUser, SetRemoval
    <3> QED BY <2>1, <2>2, <3>1
  <2>5. CASE ReleaseOwner(p)
    <3>1. /\ UNCHANGED <<conns, online, roster, userTenant, readTenant>> /\ rpc[p] = "relOwner"
          /\ q = "recount"
      BY <1>1, <2>5 DEF ReleaseOwner, removeRest, SetRemoval
    <3> QED BY <2>1, <2>2, <3>1
  <2>6. CASE ReadTenant(p)
    <3>1. /\ UNCHANGED <<conns, online, roster, userTenant>> /\ rpc[p] = "getTenant"
          /\ q = "clear" /\ readTenant'[p] = userTenant[w]
      BY <1>1, <2>6 DEF ReadTenant, redisVars, SetRemoval
    <3> QED BY <2>1, <2>2, <3>1
  <2>7. CASE ClearIndexes(p)
    <3>1. /\ UNCHANGED <<conns, readTenant>> /\ rpc[p] = "clear" /\ q = AfterClear(p)
          /\ online' = online \ {w}
          /\ roster' = [t \in Tenant |-> IF t = readTenant[p] THEN roster[t] \ {w} ELSE roster[t]]
      BY <1>1, <2>7 DEF ClearIndexes, clearRest, SetRemoval, UnlistUser, LeaveRoster
    <3>2. q \notin CleanupPc /\ conns[w] = {} /\ w \notin online'
      BY <2>1, <3>1 DEF AfterClear, CleanupPc
    <3>3. readTenant[p] \in {TenantOf[w], NoTenant}
      BY <3>1 DEF TenantInv
    <3>4. CASE readTenant[p] = TenantOf[w]
      <4>1. ~Rostered(w)'
        BY <1>1, <2>2, <3>1, <3>4
      <4> QED BY <2>1, <3>1, <3>2, <4>1 DEF CleanupPc
    <3>5. CASE readTenant[p] = NoTenant
      <4>1. Rostered(w)' => Rostered(w)
        BY <1>1, <2>2, <3>1
      <4>2. Rostered(w) => \E r \in Task \ {p} : ClearedBy(r, w, {"clrRoster"})
        BY <2>1, <3>1, <3>5
      <4> QED BY <2>1, <3>1, <3>2, <4>1, <4>2 DEF CleanupPc
    <3> QED BY <3>3, <3>4, <3>5
  <2>8. CASE ReissueGlobal(p)
    <3>1. /\ UNCHANGED <<conns, roster, userTenant, readTenant>> /\ rpc[p] = "clrGlobal"
          /\ q = "clrTenant" /\ online' = online \ {w}
      BY <1>1, <2>8 DEF ReissueGlobal, clearRest, SetRemoval, UnlistUser
    <3> QED BY <2>1, <2>2, <3>1
  <2>9. CASE ReissueTenant(p)
    <3>1. /\ UNCHANGED <<conns, online, roster, readTenant>> /\ rpc[p] = "clrTenant"
          /\ q = IF readTenant[p] = NoTenant THEN AfterClear(p) ELSE "clrRoster"
      BY <1>1, <2>9 DEF ReissueTenant, clearRest, SetRemoval
    <3>2. conns[w] = {} /\ w \notin online
      BY <2>1, <3>1
    <3>3. CASE readTenant[p] # NoTenant
      BY <2>1, <2>2, <3>1, <3>2, <3>3
    <3>4. CASE readTenant[p] = NoTenant
      <4>1. q \notin CleanupPc
        BY <3>1, <3>4 DEF AfterClear, CleanupPc
      <4>2. Rostered(w) => \E r \in Task \ {p} : ClearedBy(r, w, {"clrRoster"})
        BY <2>1, <3>1, <3>4
      <4> QED BY <2>1, <2>2, <3>1, <3>2, <4>1, <4>2 DEF CleanupPc
    <3> QED BY <3>3, <3>4
  <2>10. CASE ReissueRoster(p)
    <3>1. /\ UNCHANGED <<conns, online, userTenant, readTenant>> /\ rpc[p] = "clrRoster"
          /\ q = AfterClear(p)
          /\ roster' = [t \in Tenant |-> IF t = readTenant[p] THEN roster[t] \ {w} ELSE roster[t]]
      BY <1>1, <2>10 DEF ReissueRoster, clearRest, SetRemoval, LeaveRoster
    <3>2. conns[w] = {} /\ w \notin online /\ readTenant[p] = TenantOf[w] /\ q \notin CleanupPc
      BY <2>1, <3>1 DEF TenantInv, AfterClear, CleanupPc
    <3>3. ~Rostered(w)'
      BY <1>1, <2>2, <3>1, <3>2
    <3> QED BY <2>1, <3>1, <3>2, <3>3 DEF CleanupPc
  <2>11. CASE DiscardRemove(p)
    <3>1. /\ UNCHANGED <<conns, online, roster, userTenant, readTenant>> /\ rpc[p] = "remove"
          /\ q = "relUser"
      BY <1>1, <2>11 DEF DiscardRemove, redisVars, SetRemoval
    <3> QED BY <1>9, <3>1 DEF CleanupPc
  <2>12. CASE DiscardClear(p)
    <3>1. /\ UNCHANGED <<conns, online, roster, userTenant, readTenant>> /\ rpc[p] = "clear"
          /\ q = "clrGlobal"
      BY <1>1, <2>12 DEF DiscardClear, redisVars, SetRemoval
    <3> QED BY <2>1, <2>2, <3>1
  <2> QED BY <2>3, <2>4, <2>5, <2>6, <2>7, <2>8, <2>9, <2>10, <2>11, <2>12
<1> QED BY <1>8, <1>10

\* A removal that is over or rejected: what it interrupts disturbs its user.
LEMMA UserIndexHookEnd ==
  ASSUME IInv, NEW w \in User, w \notin disturbed', UserIndexOK(w), NEW c \in Conn,
         AnnounceOffline(c) \/ AbortRemoval(c)
  PROVE  UserIndexOK(w)'
<1>1. rpc \in [Task -> RemovePc] /\ c \in Task
  BY IndexFacts
<1>2. /\ rpc' = [rpc EXCEPT ![c] = "done"] /\ "done" \notin CleanupPc
      /\ UNCHANGED <<target, readTenant, conns, online, roster, userTenant>>
  BY DEF AnnounceOffline, AbortRemoval, SetRemoval, redisVars, CleanupPc, ClearPc
<1>3. ~ClearedBy(c, w, CleanupPc)
  BY DEF AnnounceOffline, AbortRemoval, Interrupted, ClearedBy, CleanupPc, ClearPc
<1>4. \A r \in Task : Removed(r)' = Removed(r)
  BY <1>2 DEF Removed
<1>5. Rostered(w)' <=> Rostered(w)
  BY <1>2 DEF Rostered
<1> QED BY <1>1, <1>2, <1>3, <1>4, <1>5, IdleRemoval

\* The steps of a process.
LEMMA UserIndexInstance ==
  ASSUME IInv, NEW w \in User, w \notin disturbed', UserIndexOK(w), NEW i \in Instance,
         Crash(i) \/ Boot(i) \/ ReclaimNext(i) \/ ReclaimDone(i) \/ ReclaimFails(i)
  PROVE  UserIndexOK(w)'
<1>1. /\ rpc \in [Task -> RemovePc] /\ target \in [Instance -> Conn \cup {NoConn}]
      /\ i \in Task /\ i \notin Conn /\ Task = Conn \cup Instance
  BY IndexFacts DEF Task
<1>2. UNCHANGED <<readTenant, conns, online, roster, userTenant>>
  BY DEF Crash, Boot, ReclaimNext, ReclaimDone, ReclaimFails, redisVars
<1>3. Rostered(w)' <=> Rostered(w)
  BY <1>2 DEF Rostered
<1>4. CASE Crash(i)
  <2> DEFINE Lost(p) == p = i \/ (p \in Conn /\ InstOf[p] = i)
  <2>1. /\ rpc' = [p \in Task |-> IF Lost(p) /\ rpc[p] # "none" THEN AfterRemoval(p) ELSE rpc[p]]
        /\ target' = [target EXCEPT ![i] = NoConn]
        /\ disturbed' = disturbed \cup Interrupted({p \in Task : Lost(p)})
    BY <1>4 DEF Crash, DropReclaim
  <2>2. \A p \in Task : Lost(p) => ~ClearedBy(p, w, CleanupPc)
    BY <2>1 DEF Interrupted, ClearedBy, CleanupPc
  <2>3. ASSUME NEW p \in Task
        PROVE  \/ ~ClearedBy(p, w, CleanupPc) /\ ~ClearedBy(p, w, CleanupPc)'
               \/ rpc'[p] = rpc[p] /\ Removed(p)' = Removed(p) /\ readTenant'[p] = readTenant[p]
    <3>1. CASE Lost(p)
      <4>1. rpc'[p] \in {"none", "done"}
        BY <1>1, <2>1, <3>1 DEF AfterRemoval
      <4> QED BY <2>2, <3>1, <4>1 DEF ClearedBy, CleanupPc, ClearPc
    <3>2. CASE ~Lost(p)
      <4>1. rpc'[p] = rpc[p] /\ p # i
        BY <2>1, <3>2
      <4> QED BY <1>1, <1>2, <2>1, <4>1 DEF Removed
    <3> QED BY <3>1, <3>2
  <2> HIDE DEF Lost
  <2> QED BY <1>2, <1>3, <2>3, SameCleanups
<1>5. CASE Boot(i)
  <2>1. UNCHANGED <<rpc, target>>
    BY <1>5 DEF Boot
  <2> QED BY <1>2, <2>1, SameIndexes
<1>6. CASE ~Crash(i) /\ ~Boot(i)
  <2>1. PICK q, t : rpc' = [rpc EXCEPT ![i] = q] /\ target' = [target EXCEPT ![i] = t]
                    /\ q \in {"none", "remove"}
    BY <1>1, <1>6 DEF ReclaimNext, ReclaimDone, ReclaimFails, DropReclaim, SetRemoval
  <2>2. q \notin CleanupPc
    BY <2>1 DEF CleanupPc, ClearPc
  <2>3. ~ClearedBy(i, w, CleanupPc)
    BY <1>6 DEF ReclaimNext, ReclaimDone, ReclaimFails, Interrupted, ClearedBy, CleanupPc, ClearPc
  <2>4. \A r \in Task \ {i} : Removed(r)' = Removed(r)
    BY <1>1, <2>1 DEF Removed
  <2> QED BY <1>1, <1>2, <1>3, <2>1, <2>2, <2>3, <2>4, IdleRemoval
<1> QED BY <1>4, <1>5, <1>6

LEMMA UserIndexStep ==
  ASSUME IInv, TenantInv, NEW w \in User, w \notin disturbed', UserIndexOK(w), [Next]_vars
  PROVE  UserIndexOK(w)'
<1>1. CASE UNCHANGED vars
  <2>1. UNCHANGED <<rpc, target, readTenant, conns, online, roster, userTenant>>
    BY <1>1 DEF vars, taskVars, redisVars
  <2> QED BY <2>1, SameIndexes
<1>2. CASE Next
  BY <1>2, NextActions, UserIndexConnect, UserIndexRemoval, UserIndexHookEnd, UserIndexInstance
<1> QED BY <1>1, <1>2

LEMMA IndexInit == Init => IndexInv
<1> USE ConstantsAssumption
    DEF Init, Task, RecordPc, ClearPc, AfterRead
<1> SUFFICES ASSUME Init PROVE IndexInv
  OBVIOUS
<1>1. TenantInv
  BY DEF TenantInv
<1>2. ASSUME NEW u \in User PROVE UserIndexOK(u)
  BY DEF UserIndexOK, Listed, ClearsEmpty, Unlisted, Gone, RosterOwed, Rostered, ClearedBy
<1> QED BY <1>1, <1>2 DEF IndexInv

\* A disturbance is remembered for good.
LEMMA DisturbedGrows ==
  ASSUME Next
  PROVE  disturbed \subseteq disturbed'
<1>1. ASSUME NEW c \in Conn,
             \/ Register(c) \/ RegisterEvicting(c) \/ FireConnect(c) \/ Close(c)
             \/ AddConnection(c) \/ RecordUser(c) \/ RecordGlobal(c) \/ RecordOwner(c)
             \/ RecordTenant(c) \/ RecordRoster(c) \/ CountAdded(c)
             \/ AnnounceOnline(c) \/ DiscardAdd(c) \/ AbortConnect(c)
             \/ AnnounceOffline(c) \/ AbortRemoval(c)
      PROVE  disturbed \subseteq disturbed'
  BY <1>1 DEF Register, RegisterEvicting, FireConnect, Close, AddConnection, RecordUser, RecordGlobal,
         RecordOwner, RecordTenant, RecordRoster, CountAdded, AnnounceOnline, DiscardAdd,
         AbortConnect, AnnounceOffline, AbortRemoval, JoinUser, historyVars
<1>2. ASSUME NEW p \in Task,
             \/ RemoveConnection(p) \/ ReleaseUser(p) \/ ReleaseOwner(p) \/ CountRemaining(p)
             \/ ReadTenant(p) \/ ClearIndexes(p) \/ ReissueGlobal(p) \/ ReissueTenant(p)
             \/ ReissueRoster(p) \/ DiscardRemove(p) \/ DiscardClear(p)
      PROVE  disturbed \subseteq disturbed'
  BY <1>2 DEF RemoveConnection, ReleaseUser, ReleaseOwner, CountRemaining, ReadTenant, ClearIndexes,
         ReissueGlobal, ReissueTenant, ReissueRoster, DiscardRemove, DiscardClear, removeRest,
         clearRest, historyVars
<1>3. ASSUME NEW i \in Instance,
             Crash(i) \/ Boot(i) \/ ReclaimNext(i) \/ ReclaimDone(i) \/ ReclaimFails(i)
      PROVE  disturbed \subseteq disturbed'
  BY <1>3 DEF Crash, Boot, ReclaimNext, ReclaimDone, ReclaimFails, historyVars
<1> QED BY <1>1, <1>2, <1>3, NextActions

LEMMA IndexStep ==
  ASSUME IInv, IndexInv, [Next]_vars
  PROVE  IndexInv'
<1>1. disturbed \subseteq disturbed'
  BY DisturbedGrows DEF vars, historyVars
<1>2. ASSUME NEW u \in User, u \notin disturbed' PROVE UserIndexOK(u)'
  <2>1. UserIndexOK(u)
    BY <1>1, <1>2 DEF IndexInv
  <2> QED BY <1>2, <2>1, UserIndexStep DEF IndexInv
<1>3. TenantInv'
  BY TenantStep DEF IndexInv
<1> QED BY <1>2, <1>3 DEF IndexInv

\* redis-presence-storage.ts:118-145, 255-312: the global set and the tenant
\* roster agree with the connection sets for every user none of whose index
\* writes was raced, lost or torn, however many removals clean up at once.
THEOREM IndexesStayExact == Spec => []IndexesExact
<1>1. IndexInv => IndexesExact
  BY ConstantsAssumption
     DEF IndexInv, TenantInv, UserIndexOK, Listed, Gone, Rostered, IndexesExact, isOnline,
         listOnlineByTenant
<1> QED BY <1>1, IndexInit, IndexStep, Invariance, PTL DEF Spec

-----------------------------------------------------------------------------
(* The refinement of the ledger.                                           *)

\* With no bound on the other failures, but no transaction discarded: an
\* announced arrival is the end of its hook.
ToldInv == discards = 0 /\ \A c \in saidOnline : cpc[c] = "done"

LEMMA ToldStep ==
  ASSUME MaxDiscards = 0, IInv, ToldInv, [Next]_vars
  PROVE  ToldInv'
<1> USE ConstantsAssumption
    DEF procVars, taskVars, redisVars, historyVars, vars, recordRest, removeRest, clearRest,
        SetConnect, SetRemoval, IInv, TypeOK, StageInv, ConnectPc, RecordPc, ToldInv
<1>1. ASSUME NEW c \in Conn, Register(c) PROVE ToldInv'
  BY <1>1 DEF Register, Registering
<1>2. ASSUME NEW c \in Conn, RegisterEvicting(c) PROVE ToldInv'
  BY <1>2 DEF RegisterEvicting, Registering, Oldest, Peers
<1>3. ASSUME NEW c \in Conn, FireConnect(c) PROVE ToldInv'
  BY <1>3 DEF FireConnect
<1>4. ASSUME NEW c \in Conn, Close(c) PROVE ToldInv'
  BY <1>4 DEF Close
<1>5. ASSUME NEW c \in Conn, AddConnection(c) PROVE ToldInv'
  BY <1>5
     DEF AddConnection, JoinUser, ListUser, ClaimConn, RememberTenant, EnterRoster,
         AfterAdd
<1>6. ASSUME NEW c \in Conn, RecordUser(c) PROVE ToldInv'
  BY <1>6 DEF RecordUser, JoinUser
<1>7. ASSUME NEW c \in Conn, RecordGlobal(c) PROVE ToldInv'
  BY <1>7 DEF RecordGlobal, ListUser
<1>8. ASSUME NEW c \in Conn, RecordOwner(c) PROVE ToldInv'
  BY <1>8 DEF RecordOwner, ClaimConn
<1>9. ASSUME NEW c \in Conn, RecordTenant(c) PROVE ToldInv'
  BY <1>9 DEF RecordTenant, RememberTenant
<1>10. ASSUME NEW c \in Conn, RecordRoster(c) PROVE ToldInv'
  BY <1>10 DEF RecordRoster, EnterRoster
<1>11. ASSUME NEW c \in Conn, CountAdded(c) PROVE ToldInv'
  BY <1>11 DEF CountAdded, AfterAdd
<1>12. ASSUME NEW c \in Conn, AnnounceOnline(c) PROVE ToldInv'
  BY <1>12 DEF AnnounceOnline
<1>13. ASSUME NEW c \in Conn, DiscardAdd(c) PROVE ToldInv'
  BY <1>13 DEF DiscardAdd
<1>14. ASSUME NEW c \in Conn, AbortConnect(c) PROVE ToldInv'
  BY <1>14 DEF AbortConnect
<1>15. ASSUME NEW c \in Conn, AnnounceOffline(c) PROVE ToldInv'
  BY <1>15 DEF AnnounceOffline
<1>16. ASSUME NEW c \in Conn, AbortRemoval(c) PROVE ToldInv'
  BY <1>16 DEF AbortRemoval
<1>17. ASSUME NEW p \in Task, RemoveConnection(p) PROVE ToldInv'
  BY <1>17 DEF RemoveConnection, LeaveUser, DisclaimConn, AfterRemove
<1>18. ASSUME NEW p \in Task, ReleaseUser(p) PROVE ToldInv'
  BY <1>18 DEF ReleaseUser, LeaveUser
<1>19. ASSUME NEW p \in Task, ReleaseOwner(p) PROVE ToldInv'
  BY <1>19 DEF ReleaseOwner, DisclaimConn
<1>20. ASSUME NEW p \in Task, CountRemaining(p) PROVE ToldInv'
  BY <1>20 DEF CountRemaining, AfterRemove
<1>21. ASSUME NEW p \in Task, ReadTenant(p) PROVE ToldInv'
  BY <1>21 DEF ReadTenant
<1>22. ASSUME NEW p \in Task, ClearIndexes(p) PROVE ToldInv'
  BY <1>22 DEF ClearIndexes, UnlistUser, ForgetTenant, LeaveRoster, AfterClear
<1>23. ASSUME NEW p \in Task, ReissueGlobal(p) PROVE ToldInv'
  BY <1>23 DEF ReissueGlobal, UnlistUser
<1>24. ASSUME NEW p \in Task, ReissueTenant(p) PROVE ToldInv'
  BY <1>24 DEF ReissueTenant, ForgetTenant, AfterClear
<1>25. ASSUME NEW p \in Task, ReissueRoster(p) PROVE ToldInv'
  BY <1>25 DEF ReissueRoster, LeaveRoster, AfterClear
<1>26. ASSUME NEW p \in Task, DiscardRemove(p) PROVE ToldInv'
  BY <1>26 DEF DiscardRemove
<1>27. ASSUME NEW p \in Task, DiscardClear(p) PROVE ToldInv'
  BY <1>27 DEF DiscardClear
<1>28. ASSUME NEW i \in Instance, Crash(i) PROVE ToldInv'
  BY <1>28 DEF Crash, DropReclaim, Interrupted
<1>29. ASSUME NEW i \in Instance, Boot(i) PROVE ToldInv'
  BY <1>29 DEF Boot
<1>30. ASSUME NEW i \in Instance, ReclaimNext(i) PROVE ToldInv'
  BY <1>30 DEF ReclaimNext
<1>31. ASSUME NEW i \in Instance, ReclaimDone(i) PROVE ToldInv'
  BY <1>31 DEF ReclaimDone, DropReclaim
<1>32. ASSUME NEW i \in Instance, ReclaimFails(i) PROVE ToldInv'
  BY <1>32 DEF ReclaimFails, DropReclaim, Interrupted
<1>33. CASE UNCHANGED vars BY <1>33
<1> HIDE DEF IInv, ToldInv
<1> QED BY <1>1, <1>2, <1>3, <1>4, <1>5, <1>6, <1>7, <1>8, <1>9, <1>10, <1>11, <1>12,
      <1>13, <1>14, <1>15, <1>16, <1>17, <1>18, <1>19, <1>20, <1>21, <1>22, <1>23,
      <1>24, <1>25, <1>26, <1>27, <1>28, <1>29, <1>30, <1>31, <1>32, <1>33,
      NextActions

Members == {c \in Conn : isConnectionOwnedByUser(UserOf[c], c)}
Owed == {c \in Conn : cpc[c] = "announce"}

\* The ledger's steps, spelled out over this module's state.
LEMMA LedgerSteps ==
  ASSUME \/ \E c \in Conn :
              \/ /\ c \notin Members \cup Owed \cup saidOnline
                 /\ Members' = Members \cup {c}
                 /\ Owed' = IF {d \in Members : UserOf[d] = UserOf[c]} = {}
                            THEN Owed \cup {c} ELSE Owed
                 /\ UNCHANGED saidOnline
              \/ /\ c \in Owed /\ Owed' = Owed \ {c}
                 /\ saidOnline' = saidOnline \cup {c} /\ UNCHANGED Members
              \/ /\ c \in Members /\ Members' = Members \ {c}
                 /\ UNCHANGED <<Owed, saidOnline>>
         \/ \E lost \in SUBSET Conn :
              /\ lost # {} /\ lost \subseteq Owed
              /\ Owed' = Owed \ lost /\ UNCHANGED <<Members, saidOnline>>
         \/ UNCHANGED <<Members, Owed, saidOnline>>
  PROVE  [Ledger!LedgerNext]_(Ledger!ledgerVars)
BY DEF Ledger!LedgerNext, Ledger!Arrive, Ledger!Tell, Ledger!Leave, Ledger!Silence,
       Ledger!Companions, Ledger!ledgerVars, Members, Owed
\* Every step of the tasks is one step of the ledger, or none.
LEMMA LedgerStep ==
  ASSUME MaxDiscards = 0, IInv, ToldInv, ArrivalInv, [Next]_vars
  PROVE  [Ledger!LedgerNext]_(Ledger!ledgerVars)
<1> USE ConstantsAssumption
    DEF procVars, taskVars, redisVars, historyVars, vars, recordRest, removeRest, clearRest,
        SetConnect, SetRemoval, IInv, TypeOK, ToldInv, ConnectPc, RecordPc,
        isConnectionOwnedByUser, Members, Owed
<1>1. ASSUME NEW c \in Conn, Register(c) PROVE [Ledger!LedgerNext]_(Ledger!ledgerVars)
  <2>1. cpc[c] = "none" /\ cpc' = [cpc EXCEPT ![c] = "add"] /\ UNCHANGED <<conns, saidOnline>>
    BY <1>1 DEF Register, Registering, StageInv
  <2> QED BY <2>1, LedgerSteps
<1>2. ASSUME NEW c \in Conn, RegisterEvicting(c)
      PROVE [Ledger!LedgerNext]_(Ledger!ledgerVars)
  <2>1. cpc' = cpc \/ cpc' = [cpc EXCEPT ![c] = "add"]
    BY <1>2 DEF RegisterEvicting
  <2>2. cpc[c] = "none" /\ UNCHANGED <<conns, saidOnline>>
    BY <1>2 DEF RegisterEvicting, Registering, StageInv
  <2> QED BY <2>1, <2>2, LedgerSteps
<1>3. ASSUME NEW c \in Conn, FireConnect(c) PROVE [Ledger!LedgerNext]_(Ledger!ledgerVars)
  <2>1. cpc[c] = "none" /\ cpc' = [cpc EXCEPT ![c] = "add"] /\ UNCHANGED <<conns, saidOnline>>
    BY <1>3 DEF FireConnect, StageInv
  <2> QED BY <2>1, LedgerSteps
<1>4. ASSUME NEW c \in Conn, Close(c) PROVE [Ledger!LedgerNext]_(Ledger!ledgerVars)
  BY <1>4, LedgerSteps DEF Close
<1>5. ASSUME NEW c \in Conn, AddConnection(c) PROVE [Ledger!LedgerNext]_(Ledger!ledgerVars)
  <2>1. /\ conns' = [conns EXCEPT ![UserOf[c]] = @ \cup {c}]
        /\ cpc' = [cpc EXCEPT ![c] = IF conns[UserOf[c]] = {} THEN "announce" ELSE "done"]
        /\ cpc[c] = "add" /\ UNCHANGED saidOnline
    BY <1>5, AddEffect DEF AddConnection
  <2>2. c \notin Members \cup Owed \cup saidOnline
    BY <2>1 DEF ArrivalInv, Written
  <2>3. Members' = Members \cup {c}
    BY <2>1
  <2>4. {d \in Members : UserOf[d] = UserOf[c]} = conns[UserOf[c]]
    BY DEF OwnUserInv
  <2>5. Owed' = IF conns[UserOf[c]] = {} THEN Owed \cup {c} ELSE Owed
    BY <2>1
  <2> QED BY <2>1, <2>2, <2>3, <2>4, <2>5, LedgerSteps
<1>6. ASSUME NEW c \in Conn, RecordUser(c) PROVE [Ledger!LedgerNext]_(Ledger!ledgerVars)
  BY <1>6 DEF RecordUser, MirrorInv
<1>7. ASSUME NEW c \in Conn, RecordGlobal(c) PROVE [Ledger!LedgerNext]_(Ledger!ledgerVars)
  BY <1>7 DEF RecordGlobal, MirrorInv
<1>8. ASSUME NEW c \in Conn, RecordOwner(c) PROVE [Ledger!LedgerNext]_(Ledger!ledgerVars)
  BY <1>8 DEF RecordOwner, MirrorInv
<1>9. ASSUME NEW c \in Conn, RecordTenant(c) PROVE [Ledger!LedgerNext]_(Ledger!ledgerVars)
  BY <1>9 DEF RecordTenant, MirrorInv
<1>10. ASSUME NEW c \in Conn, RecordRoster(c) PROVE [Ledger!LedgerNext]_(Ledger!ledgerVars)
  BY <1>10 DEF RecordRoster, MirrorInv
<1>11. ASSUME NEW c \in Conn, CountAdded(c) PROVE [Ledger!LedgerNext]_(Ledger!ledgerVars)
  BY <1>11 DEF CountAdded, MirrorInv
<1>12. ASSUME NEW c \in Conn, AnnounceOnline(c)
      PROVE [Ledger!LedgerNext]_(Ledger!ledgerVars)
  <2>1. c \in Owed /\ Owed' = Owed \ {c} /\ saidOnline' = saidOnline \cup {c}
    BY <1>12 DEF AnnounceOnline
  <2>2. UNCHANGED Members
    BY <1>12 DEF AnnounceOnline
  <2> QED BY <2>1, <2>2, LedgerSteps
<1>13. ASSUME NEW c \in Conn, DiscardAdd(c) PROVE [Ledger!LedgerNext]_(Ledger!ledgerVars)
  BY <1>13 DEF DiscardAdd
<1>14. ASSUME NEW c \in Conn, AbortConnect(c) PROVE [Ledger!LedgerNext]_(Ledger!ledgerVars)
  <2>1. Owed' = Owed \ {c} /\ UNCHANGED <<Members, saidOnline>>
    BY <1>14 DEF AbortConnect
  <2>2. CASE c \in Owed
    <3>1. {c} \in SUBSET Conn /\ {c} # {} /\ {c} \subseteq Owed
      BY <2>2
    <3> QED BY <2>1, <3>1, LedgerSteps
  <2>3. CASE c \notin Owed
    BY <2>1, <2>3, LedgerSteps
  <2> QED BY <2>2, <2>3
<1>15. ASSUME NEW c \in Conn, AnnounceOffline(c)
      PROVE [Ledger!LedgerNext]_(Ledger!ledgerVars)
  BY <1>15, LedgerSteps DEF AnnounceOffline
<1>16. ASSUME NEW c \in Conn, AbortRemoval(c) PROVE [Ledger!LedgerNext]_(Ledger!ledgerVars)
  BY <1>16, LedgerSteps DEF AbortRemoval
<1>17. ASSUME NEW p \in Task, RemoveConnection(p)
      PROVE [Ledger!LedgerNext]_(Ledger!ledgerVars)
  <2>1. /\ Removed(p) \in Conn
        /\ conns' = [conns EXCEPT ![UserOf[Removed(p)]] = @ \ {Removed(p)}]
        /\ UNCHANGED <<cpc, saidOnline>>
    BY <1>17 DEF RemoveConnection, LeaveUser, Leaver, Removed, TargetInv, Task
  <2>2. Members' = Members \ {Removed(p)} /\ UNCHANGED <<Owed, saidOnline>>
    BY <2>1
  <2>3. CASE Removed(p) \in Members BY <2>1, <2>2, <2>3, LedgerSteps
  <2>4. CASE Removed(p) \notin Members BY <2>2, <2>4, LedgerSteps
  <2> QED BY <2>3, <2>4
<1>18. ASSUME NEW p \in Task, ReleaseUser(p) PROVE [Ledger!LedgerNext]_(Ledger!ledgerVars)
  BY <1>18 DEF ReleaseUser, MirrorInv
<1>19. ASSUME NEW p \in Task, ReleaseOwner(p) PROVE [Ledger!LedgerNext]_(Ledger!ledgerVars)
  BY <1>19 DEF ReleaseOwner, MirrorInv
<1>20. ASSUME NEW p \in Task, CountRemaining(p)
      PROVE [Ledger!LedgerNext]_(Ledger!ledgerVars)
  BY <1>20 DEF CountRemaining, MirrorInv
<1>21. ASSUME NEW p \in Task, ReadTenant(p) PROVE [Ledger!LedgerNext]_(Ledger!ledgerVars)
  BY <1>21, LedgerSteps DEF ReadTenant
<1>22. ASSUME NEW p \in Task, ClearIndexes(p) PROVE [Ledger!LedgerNext]_(Ledger!ledgerVars)
  BY <1>22, LedgerSteps DEF ClearIndexes, UnlistUser, ForgetTenant, LeaveRoster, AfterClear
<1>23. ASSUME NEW p \in Task, ReissueGlobal(p) PROVE [Ledger!LedgerNext]_(Ledger!ledgerVars)
  BY <1>23, LedgerSteps DEF ReissueGlobal, UnlistUser
<1>24. ASSUME NEW p \in Task, ReissueTenant(p) PROVE [Ledger!LedgerNext]_(Ledger!ledgerVars)
  BY <1>24, LedgerSteps DEF ReissueTenant, ForgetTenant, AfterClear
<1>25. ASSUME NEW p \in Task, ReissueRoster(p) PROVE [Ledger!LedgerNext]_(Ledger!ledgerVars)
  BY <1>25, LedgerSteps DEF ReissueRoster, LeaveRoster, AfterClear
<1>26. ASSUME NEW p \in Task, DiscardRemove(p) PROVE [Ledger!LedgerNext]_(Ledger!ledgerVars)
  BY <1>26 DEF DiscardRemove
<1>27. ASSUME NEW p \in Task, DiscardClear(p) PROVE [Ledger!LedgerNext]_(Ledger!ledgerVars)
  BY <1>27 DEF DiscardClear
<1>28. ASSUME NEW i \in Instance, Crash(i) PROVE [Ledger!LedgerNext]_(Ledger!ledgerVars)
  <2> DEFINE lost == {c \in Owed : c = i \/ InstOf[c] = i}
  <2>1. Owed' = Owed \ lost /\ UNCHANGED <<Members, saidOnline>>
    BY <1>28 DEF Crash
  <2>2. lost \in SUBSET Conn /\ lost \subseteq Owed
    OBVIOUS
  <2> HIDE DEF lost
  <2>3. CASE lost # {} BY <2>1, <2>2, <2>3, LedgerSteps
  <2>4. CASE lost = {}
    <3>1. UNCHANGED <<Members, Owed, saidOnline>>
      BY <2>1, <2>4
    <3> QED BY <3>1, LedgerSteps
  <2> QED BY <2>3, <2>4
<1>29. ASSUME NEW i \in Instance, Boot(i) PROVE [Ledger!LedgerNext]_(Ledger!ledgerVars)
  BY <1>29, LedgerSteps DEF Boot
<1>30. ASSUME NEW i \in Instance, ReclaimNext(i)
      PROVE [Ledger!LedgerNext]_(Ledger!ledgerVars)
  BY <1>30, LedgerSteps DEF ReclaimNext
<1>31. ASSUME NEW i \in Instance, ReclaimDone(i)
      PROVE [Ledger!LedgerNext]_(Ledger!ledgerVars)
  BY <1>31, LedgerSteps DEF ReclaimDone, DropReclaim
<1>32. ASSUME NEW i \in Instance, ReclaimFails(i)
      PROVE [Ledger!LedgerNext]_(Ledger!ledgerVars)
  BY <1>32, LedgerSteps DEF ReclaimFails, DropReclaim, Interrupted
<1>33. CASE UNCHANGED vars BY <1>33, LedgerSteps
<1> HIDE DEF IInv
<1> QED BY <1>1, <1>2, <1>3, <1>4, <1>5, <1>6, <1>7, <1>8, <1>9, <1>10, <1>11, <1>12,
      <1>13, <1>14, <1>15, <1>16, <1>17, <1>18, <1>19, <1>20, <1>21, <1>22, <1>23,
      <1>24, <1>25, <1>26, <1>27, <1>28, <1>29, <1>30, <1>31, <1>32, <1>33,
      NextActions

\* presence.tracker.ts:78-97, redis-presence-storage.ts:118-170: without a
\* discarded transaction the tasks implement the ledger.  The step that fills
\* a user's set settles who owes the arrival, and no other step of any task,
\* instance or boot adds a member or a debt.
THEOREM LedgerImplemented ==
  ASSUME MaxDiscards = 0
  PROVE  Spec => ImplementsLedger
<1>1. Init => Ledger!LedgerInit
  BY ConstantsAssumption DEF Init, Ledger!LedgerInit, isConnectionOwnedByUser
<1>2. Init => ToldInv /\ ArrivalInv
  BY ConstantsAssumption DEF Init, ToldInv, ArrivalInv
<1>3. IInv /\ ToldInv /\ ArrivalInv /\ [Next]_vars => ToldInv' /\ ArrivalInv'
  BY ToldStep, ArrivalStep
<1>4. IInv /\ ToldInv /\ ArrivalInv /\ [Next]_vars
        => [Ledger!LedgerNext]_(Ledger!ledgerVars)
  BY LedgerStep
<1> QED BY <1>1, <1>2, <1>3, <1>4, Invariance, PTL DEF Spec, ImplementsLedger,
      Ledger!LedgerSpec

=============================================================================
