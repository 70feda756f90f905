------------------------------ MODULE BootProofs ------------------------------
(***************************************************************************)
(* Proofs about Boot for every setting an operator may give and any number *)
(* of deployments.                                                         *)
(***************************************************************************)
EXTENDS Boot, TLAPS

\* Where a start stands decides what it holds, all of it from env.
Loaded ==
  stage \in {"loaded", "resolved", "listening"} =>
    issues(env) = {} /\ config = mapEnv(env) /\ infra = RealtimeInfraModule(config)

Resolved ==
  stage \in {"resolved", "listening"} => options = buildRealtimeOptions(config, infra)

Listening ==
  stage = "listening" => adapter = (config["REALTIME_TRANSPORT"] # "sse")

Failed == stage = "failed" => reported = issues(env) /\ reported # {}

IInv ==
  /\ stage \in {"down", "defined", "loaded", "resolved", "listening", "failed"}
  /\ stage # "down" => hint = resolveBootTransport(env)
  /\ Loaded /\ Resolved /\ Listening /\ Failed
  /\ repaired => issues(env) = {}

-----------------------------------------------------------------------------
\* The variables are the ones named, and no other.
LEMMA Variables ==
  {"REALTIME_TRANSPORT", "REALTIME_HEARTBEAT_MS", "REALTIME_REPLAY_BUFFER_SIZE",
   "REALTIME_MAX_CONNECTIONS_PER_USER", "PUBSUB_DRIVER", "INSTANCE_NAME"} \subseteq Var
BY DEF Var, Default

\* What the schema let through lies within the library's own limits.
LEMMA WithinLimits ==
  ASSUME NEW e, issues(e) = {}
  PROVE  /\ Parsed(e, "REALTIME_TRANSPORT") \in {"sse", "websocket", "both"}
         /\ Parsed(e, "REALTIME_HEARTBEAT_MS") \in Nat \ {0}
         /\ Parsed(e, "REALTIME_REPLAY_BUFFER_SIZE") \in Nat
         /\ Parsed(e, "REALTIME_MAX_CONNECTIONS_PER_USER") \in Nat
<1>1. \A v \in Var : Parsed(e, v) = Default[v] \/ Accepted(v, Parsed(e, v))
  BY DEF issues, Parsed
<1>2. /\ Default["REALTIME_TRANSPORT"] = "sse"
      /\ Default["REALTIME_HEARTBEAT_MS"] = 10000
      /\ Default["REALTIME_REPLAY_BUFFER_SIZE"] = 10
      /\ Default["REALTIME_MAX_CONNECTIONS_PER_USER"] = 5
  BY SMT DEF Default
<1>3. /\ "REALTIME_TRANSPORT" \notin DOMAIN Bounds
      /\ {"REALTIME_HEARTBEAT_MS", "REALTIME_REPLAY_BUFFER_SIZE",
          "REALTIME_MAX_CONNECTIONS_PER_USER"} \subseteq DOMAIN Bounds
      /\ Bounds["REALTIME_HEARTBEAT_MS"][1] = 1000
      /\ Bounds["REALTIME_REPLAY_BUFFER_SIZE"][1] = 1
      /\ Bounds["REALTIME_MAX_CONNECTIONS_PER_USER"][1] = 1
  BY SMT DEF Bounds
<1>4. /\ "REALTIME_TRANSPORT" \in DOMAIN Literals
      /\ Literals["REALTIME_TRANSPORT"] = {"sse", "websocket", "both"}
  BY SMT DEF Literals
<1>5. \A x : Accepted("REALTIME_TRANSPORT", x) => x \in {"sse", "websocket", "both"}
  BY <1>3, <1>4 DEF Accepted
<1>6. \A v \in DOMAIN Bounds : \A x : Accepted(v, x) => x \in Int /\ Bounds[v][1] <= x
  BY DEF Accepted
<1>7. Parsed(e, "REALTIME_TRANSPORT") \in {"sse", "websocket", "both"}
  BY <1>1, <1>2, <1>5, Variables
<1>8. Parsed(e, "REALTIME_HEARTBEAT_MS") \in Nat \ {0}
  BY <1>1, <1>2, <1>3, <1>6, Variables, SMT
<1>9. Parsed(e, "REALTIME_REPLAY_BUFFER_SIZE") \in Nat
  BY <1>1, <1>2, <1>3, <1>6, Variables, SMT
<1>10. Parsed(e, "REALTIME_MAX_CONNECTIONS_PER_USER") \in Nat
  BY <1>1, <1>2, <1>3, <1>6, Variables, SMT
<1> QED
  BY <1>7, <1>8, <1>9, <1>10

\* Once loaded, the hint is the transport of the configuration.
LEMMA HintIsConfig ==
  ASSUME IInv, stage \in {"loaded", "resolved", "listening"}
  PROVE  /\ hint = config["REALTIME_TRANSPORT"]
         /\ hint \in {"sse", "websocket", "both"}
<1>1. /\ issues(env) = {} /\ config = mapEnv(env) /\ hint = resolveBootTransport(env)
  BY DEF IInv, Loaded
<1>2. hint = Parsed(env, "REALTIME_TRANSPORT")
  BY <1>1 DEF resolveBootTransport
<1>3. config["REALTIME_TRANSPORT"] = Parsed(env, "REALTIME_TRANSPORT")
  BY <1>1, Variables DEF mapEnv
<1> QED
  BY <1>1, <1>2, <1>3, WithinLimits, SMT

\* So the library never refuses the options of a process that has loaded.
LEMMA NeverRefused ==
  ASSUME IInv, stage = "loaded"
  PROVE  resolveAsyncOptions(buildRealtimeOptions(config, infra))
<1> DEFINE o == buildRealtimeOptions(config, infra)
<1>1. /\ issues(env) = {} /\ config = mapEnv(env)
  BY DEF IInv, Loaded
<1>2. /\ config["REALTIME_HEARTBEAT_MS"] = Parsed(env, "REALTIME_HEARTBEAT_MS")
      /\ config["REALTIME_REPLAY_BUFFER_SIZE"] = Parsed(env, "REALTIME_REPLAY_BUFFER_SIZE")
      /\ config["REALTIME_MAX_CONNECTIONS_PER_USER"]
           = Parsed(env, "REALTIME_MAX_CONNECTIONS_PER_USER")
  BY <1>1, Variables DEF mapEnv
<1>3. /\ o.transport = config["REALTIME_TRANSPORT"]
      /\ o.sse.heartbeatMs = config["REALTIME_HEARTBEAT_MS"]
      /\ o.sse.replayBufferSize = config["REALTIME_REPLAY_BUFFER_SIZE"]
      /\ o.sse.maxConnectionsPerUser = config["REALTIME_MAX_CONNECTIONS_PER_USER"]
  BY DEF buildRealtimeOptions
<1>4. /\ o.sse.heartbeatMs \in Nat \ {0} /\ o.sse.replayBufferSize \in Nat
      /\ o.sse.maxConnectionsPerUser \in Nat
  BY <1>1, <1>2, <1>3, WithinLimits, SMT
<1>5. /\ o.transport = hint /\ hint \in {"sse", "websocket", "both"}
  BY <1>3, HintIsConfig
<1> HIDE DEF o
<1>6. resolveAsyncOptions(o)
  BY <1>4, <1>5, SMT DEF resolveAsyncOptions, validateOptions
<1> QED
  BY <1>6 DEF o

-----------------------------------------------------------------------------
LEMMA InitIInv == Init => IInv
BY DEF Init, IInv, Loaded, Resolved, Listening, Failed, issues

\* One case per step of a start, and one per way of starting over.
LEMMA StepIInv == IInv /\ [Next]_vars => IInv'
<1> SUFFICES ASSUME IInv, [Next]_vars PROVE IInv'
  OBVIOUS
<1> USE DEF Loaded, Resolved, Listening, Failed
<1>1. CASE Define
  BY <1>1 DEF IInv, Define
<1>2. CASE loadEnv
  BY <1>2 DEF IInv, loadEnv
<1>3. CASE useFactory
  BY <1>3, NeverRefused DEF IInv, useFactory
<1>4. CASE bootstrap
  BY <1>4 DEF IInv, bootstrap
<1>5. ASSUME NEW path, Handshake(path)
      PROVE  IInv'
  <2>1. UNCHANGED <<env, stage, hint, config, infra, options, adapter, reported, repaired>>
    BY <1>5 DEF Handshake
  <2> QED
    BY <2>1 DEF IInv
<1>6. CASE Repair
  <2>1. env' = [v \in Var |-> IF v \in issues(env) THEN {} ELSE env[v]]
    BY <1>6 DEF IInv, Repair
  <2>2. issues(env') = {}
    BY <2>1 DEF issues, Parsed
  <2> QED
    BY <1>6, <2>2 DEF IInv, Repair, Restart
<1>7. ASSUME NEW v \in Var, NEW setting, Deploy(v, setting)
      PROVE  IInv'
  BY <1>7 DEF IInv, Deploy, Restart
<1>8. CASE UNCHANGED vars
  BY <1>8 DEF IInv, vars
<1> QED
  BY <1>1, <1>2, <1>3, <1>4, <1>5, <1>6, <1>7, <1>8 DEF Next

\* A failed start names what to repair, and repairing it is enough.
LEMMA IInvSpeaks == IInv => FailsSpeaking
BY DEF IInv, Failed, FailsSpeaking

\* The four places the drivers are chosen in agree.
LEMMA IInvOneCluster == IInv => OneCluster
<1> SUFFICES ASSUME IInv, stage = "listening" PROVE OneCluster
  BY DEF OneCluster
<1> DEFINE redis == config["PUBSUB_DRIVER"] = "redis"
<1>1. /\ hint = config["REALTIME_TRANSPORT"]
      /\ hint \in {"sse", "websocket", "both"}
  BY HintIsConfig
<1>2. /\ infra = RealtimeInfraModule(config) /\ options = buildRealtimeOptions(config, infra)
      /\ adapter = (hint # "sse")
  BY <1>1 DEF IInv, Loaded, Resolved, Listening
<1>3. /\ infra.pubsub = IF redis THEN {"RedisRealtimePubSub"} ELSE {}
      /\ infra.bus = IF redis THEN {"CountingRealtimePubSub"} ELSE {}
  BY <1>2 DEF RealtimeInfraModule, createRealtimePubSub, createCountingBus
<1>4. /\ options.transport = hint
      /\ options.pubsub = infra.bus
      /\ options.websocket = buildWebsocketOptions(config)
  BY <1>1, <1>2 DEF buildRealtimeOptions
<1>5. hint # "sse" => ((\E w \in options.websocket : w.redisAdapter) <=> redis)
  <2>1. SUFFICES ASSUME hint # "sse" PROVE (\E w \in options.websocket : w.redisAdapter) <=> redis
    OBVIOUS
  <2> DEFINE w == [namespace |-> config["REALTIME_WS_NAMESPACE"],
                   origin |-> config["WEB_ORIGIN"],
                   maxConnectionsPerUser |-> config["REALTIME_MAX_CONNECTIONS_PER_USER"],
                   redisAdapter |-> redis]
  <2>2. options.websocket = {w}
    BY <2>1, <1>1, <1>4, Zenon DEF buildWebsocketOptions
  <2>3. w.redisAdapter = redis
    BY Zenon
  <2> QED
    BY <2>2, <2>3, Zenon
<1>6. /\ "sse" \in Registered <=> hint # "websocket"
      /\ "websocket" \in Registered <=> hint # "sse"
      /\ Registered \subseteq {"sse", "websocket"}
  BY <1>1 DEF Registered
<1>7. \A t \in Registered : HeardFromPeers(t) <=> redis
  BY <1>2, <1>3, <1>4, <1>5, <1>6 DEF HeardFromPeers
<1>8. (check.driver # {}) <=> redis
  BY <1>3 DEF check
<1>9. /\ snapshot.transport = hint
      /\ snapshot.pubsub = IF redis THEN {"CountingRealtimePubSub"} ELSE {"InMemoryPubSub"}
      /\ WiringSnapshot.serving = IF hint = "both" THEN "composite" ELSE hint
      /\ WiringSnapshot.pubsub = snapshot.pubsub
  BY <1>3, <1>4 DEF snapshot, WiringSnapshot
<1>10. check.transport = hint
  BY <1>1 DEF check
<1> QED
  BY <1>1, <1>2, <1>6, <1>7, <1>8, <1>9, <1>10 DEF OneCluster

-----------------------------------------------------------------------------
\* Whatever an operator sets, a start that fails names all there is to repair,
\* and nothing the schema accepts is refused later (env.loader.ts:71-145).
THEOREM StartsSpeaking == Spec => []FailsSpeaking
BY InitIInv, StepIInv, IInvSpeaks, PTL DEF Spec

\* Whatever an operator sets, a listening process has all of its transports in
\* the cluster or none, and says so (wiring.module.ts:54-91,
\* options.factory.ts:51-124).
THEOREM WiredOnce == Spec => []OneCluster
BY InitIInv, StepIInv, IInvOneCluster, PTL DEF Spec
=============================================================================
