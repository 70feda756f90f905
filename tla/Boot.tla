--------------------------------- MODULE Boot ---------------------------------
(***************************************************************************)
(* One API process from its environment to the streams it serves: the      *)
(* synchronous transport hint and the module definition it decides, the    *)
(* schema, the configuration, the drivers, the library's options and its   *)
(* own checks of them, the HTTP application, and what the process then     *)
(* says about itself.  An operator unsets what a failed start names, or    *)
(* deploys with one setting changed.                                       *)
(*                                                                         *)
(* A setting is the set of its value, empty when the variable is unset;    *)
(* what a factory may leave undefined is the set of it, too.               *)
(* Coercion has happened: a number is itself, the empty text is 0, and     *)
(* text that is no number is -1, which no variable accepts.  A text that   *)
(* must fit a pattern is itself when it fits and "bad" when it does not; a *)
(* secret is its length.  The grouped configuration keeps the names of the *)
(* variables.                                                              *)
(***************************************************************************)
EXTENDS Integers

CONSTANTS
  Raw,           \* the settings an operator may give each variable
  None,          \* nothing yet
  MaxDeploys     \* bound: changes of the environment

VARIABLES
  env,           \* process.env of the current or next start
  stage,         \* down, defined, loaded, resolved, listening or failed
  hint,          \* BOOT_TRANSPORT
  config,        \* APP_CONFIG
  infra,         \* what the infrastructure module provides
  options,       \* what the library resolved
  adapter,       \* RealtimeIoAdapter is in use
  reported,      \* the variables the failed start named
  stream,        \* how the last SSE handshake ended
  deploys,
  repaired       \* history: env is that of a failed start less what it named

vars == <<env, stage, hint, config, infra, options, adapter, reported, stream, deploys, repaired>>

-----------------------------------------------------------------------------
(* The schema *)

Bounds ==
  [PORT                              |-> <<1, 65535>>,
   REALTIME_HEARTBEAT_MS             |-> <<1000, 600000>>,
   REALTIME_REPLAY_BUFFER_SIZE       |-> <<1, 10000>>,
   REALTIME_MAX_CONNECTIONS_PER_USER |-> <<1, 1000>>,
   REALTIME_WS_MAX_BUFFER_BYTES      |-> <<1024, 10485760>>,
   REALTIME_WS_PING_INTERVAL_MS      |-> <<1000, 300000>>,
   REALTIME_WS_PING_TIMEOUT_MS       |-> <<1000, 300000>>,
   REAUTH_INTERVAL_SECONDS           |-> <<1, 86400>>,
   REAUTH_CACHE_TTL_MS               |-> <<0, 3600000>>,
   OFFLINE_QUEUE_TTL_SECONDS         |-> <<1, 604800>>,
   OFFLINE_QUEUE_MAX_PER_USER        |-> <<1, 100000>>]

Literals ==
  [REALTIME_TRANSPORT             |-> {"sse", "websocket", "both"},
   REALTIME_EMIT_CONNECTION_EVENT |-> {"true", "false"},
   REAUTH_ON_FAILURE              |-> {"disconnect", "event"},
   PUBSUB_DRIVER                  |-> {"memory", "redis"},
   OFFLINE_QUEUE_ENABLED          |-> {"true", "false"}]

Default ==
  [PORT |-> 3001, INSTANCE_NAME |-> "app-a", REALTIME_TRANSPORT |-> "sse",
   REALTIME_SSE_ENDPOINT |-> "/api/events", REALTIME_HEARTBEAT_MS |-> 10000,
   REALTIME_REPLAY_BUFFER_SIZE |-> 10, REALTIME_MAX_CONNECTIONS_PER_USER |-> 5,
   REALTIME_EMIT_CONNECTION_EVENT |-> "true", REALTIME_WS_NAMESPACE |-> "/live",
   REALTIME_WS_MAX_BUFFER_BYTES |-> 16384, REALTIME_WS_PING_INTERVAL_MS |-> 25000,
   REALTIME_WS_PING_TIMEOUT_MS |-> 20000, REAUTH_INTERVAL_SECONDS |-> 15,
   REAUTH_ON_FAILURE |-> "disconnect", REAUTH_CACHE_TTL_MS |-> 10000,
   REDIS_URL |-> "redis://localhost:6379", PUBSUB_DRIVER |-> "memory",
   OFFLINE_QUEUE_ENABLED |-> "false", OFFLINE_QUEUE_TTL_SECONDS |-> 3600,
   OFFLINE_QUEUE_MAX_PER_USER |-> 500, SESSION_SECRET |-> 37,
   WEB_ORIGIN |-> "http://localhost:3000"]

Var == DOMAIN Default

ASSUME BootAssumption ==
  /\ \A v \in Var : \A setting \in Raw[v] : \A x, y \in setting : x = y
  /\ MaxDeploys \in Nat

MIN_SESSION_SECRET_LENGTH == 16

Accepted(v, x) ==
  /\ v \in DOMAIN Bounds => x \in Int /\ Bounds[v][1] <= x /\ x <= Bounds[v][2]
  /\ v \in DOMAIN Literals => x \in Literals[v]
  /\ v = "SESSION_SECRET" => x >= MIN_SESSION_SECRET_LENGTH
  /\ v \notin DOMAIN Bounds \cup {"SESSION_SECRET"} => x # "bad"

\* an unset variable takes its default; one that is set, if only to the empty
\* text, does not
Parsed(e, v) == IF e[v] = {} THEN Default[v] ELSE CHOOSE x \in e[v] : TRUE

\* every violation at once
issues(e) == {v \in Var : e[v] # {} /\ ~Accepted(v, Parsed(e, v))}

mapEnv(e) == [v \in Var |-> Parsed(e, v)]

-----------------------------------------------------------------------------
(* The module definition, the drivers and the options *)

\* Mutated: the default is taken for the environment's own choice.
resolveBootTransportDefault(e) == "sse"

\* reads REALTIME_TRANSPORT alone; what it cannot read is loadEnv's to report
resolveBootTransport(e) ==
  IF "REALTIME_TRANSPORT" \in issues(e) THEN "sse" ELSE Parsed(e, "REALTIME_TRANSPORT")

createRealtimePubSub(c) == 
  IF c["PUBSUB_DRIVER"] = "redis" THEN {"RedisRealtimePubSub"} ELSE {}

createCountingBus(base) == {"CountingRealtimePubSub" : driver \in base}

createPresenceStorage(c) == {[instanceId |-> c["INSTANCE_NAME"]]}

createOfflineQueue(c) ==
  IF c["OFFLINE_QUEUE_ENABLED"] = "true"
  THEN {[ttlSeconds |-> c["OFFLINE_QUEUE_TTL_SECONDS"],
         maxPerUser |-> c["OFFLINE_QUEUE_MAX_PER_USER"]]}
  ELSE {}

RealtimeInfraModule(c) ==
  [pubsub   |-> createRealtimePubSub(c),
   bus      |-> createCountingBus(createRealtimePubSub(c)),
   presence |-> createPresenceStorage(c)]

\* Mutated: sockets are left on the adapter of their own process.
buildWebsocketOptionsLocal(c) ==
  IF c["REALTIME_TRANSPORT"] = "sse" THEN {}
  ELSE {[namespace |-> c["REALTIME_WS_NAMESPACE"],
         origin |-> c["WEB_ORIGIN"],
         maxConnectionsPerUser |-> c["REALTIME_MAX_CONNECTIONS_PER_USER"],
         redisAdapter |-> FALSE]}

buildWebsocketOptions(c) ==
  IF c["REALTIME_TRANSPORT"] = "sse" THEN {}
  ELSE {[namespace |-> c["REALTIME_WS_NAMESPACE"],
         origin |-> c["WEB_ORIGIN"],
         maxConnectionsPerUser |-> c["REALTIME_MAX_CONNECTIONS_PER_USER"],
         redisAdapter |-> c["PUBSUB_DRIVER"] = "redis"]}

\* the SSE block is there whatever the transport
buildRealtimeOptions(c, i) ==
  [transport |-> c["REALTIME_TRANSPORT"],
   sse       |-> [endpoint              |-> c["REALTIME_SSE_ENDPOINT"],
                  heartbeatMs           |-> c["REALTIME_HEARTBEAT_MS"],
                  replayBufferSize      |-> c["REALTIME_REPLAY_BUFFER_SIZE"],
                  maxConnectionsPerUser |-> c["REALTIME_MAX_CONNECTIONS_PER_USER"]],
   websocket |-> buildWebsocketOptions(c),
   queue     |-> createOfflineQueue(c),
   pubsub    |-> i.bus,
   presence  |-> i.presence]

\* the library's own checks, and that the hint told the truth
validateOptions(o) ==
  /\ o.transport \in {"sse", "websocket", "both"}
  /\ o.sse.heartbeatMs > 0
  /\ o.sse.replayBufferSize >= 0 /\ o.sse.maxConnectionsPerUser >= 0

resolveAsyncOptions(o) == validateOptions(o) /\ o.transport = hint

\* what the hint registered, before any option was known
Registered ==
  CASE hint = "both" -> {"sse", "websocket"}
    [] OTHER         -> {hint}

-----------------------------------------------------------------------------
Init ==
  /\ env = [v \in Var |-> {}]
  /\ stage = "down" /\ hint = None /\ config = None /\ infra = None /\ options = None
  /\ adapter = FALSE /\ reported = {} /\ stream = "none" /\ deploys = 0 /\ repaired = FALSE

\* the wiring module is loaded, before anything is injected
Define ==
  /\ stage = "down"
  /\ stage' = "defined"
  /\ hint' = resolveBootTransport(env)
  /\ UNCHANGED <<env, config, infra, options, adapter, reported, stream, deploys, repaired>>

loadEnv ==
  /\ stage = "defined"
  /\ IF issues(env) = {}
     THEN /\ stage' = "loaded"
          /\ config' = mapEnv(env) /\ infra' = RealtimeInfraModule(mapEnv(env))
          /\ UNCHANGED reported
     ELSE /\ stage' = "failed"
          /\ reported' = issues(env)
          /\ UNCHANGED <<config, infra>>
  /\ UNCHANGED <<env, hint, options, adapter, stream, deploys, repaired>>

useFactory ==
  /\ stage = "loaded"
  /\ LET o == buildRealtimeOptions(config, infra)
     IN IF resolveAsyncOptions(o)
        THEN stage' = "resolved" /\ options' = o
        ELSE stage' = "failed" /\ UNCHANGED options
  /\ UNCHANGED <<env, hint, config, infra, adapter, reported, stream, deploys, repaired>>

\* createApp, then listen
bootstrap ==
  /\ stage = "resolved"
  /\ stage' = "listening"
  /\ adapter' = (config["REALTIME_TRANSPORT"] # "sse")
  /\ UNCHANGED <<env, hint, config, infra, options, reported, stream, deploys, repaired>>

\* the library's route under the application's prefix
SseRoute == "/api/events"

\* the library's own limits on a heartbeat
HeartbeatLimits == 5000..90000

\* the heartbeat is started last
Handshake(path) ==
  /\ stage = "listening"
  /\ stream' = IF "sse" \notin Registered \/ path # SseRoute THEN "missing"
               ELSE IF options.sse.heartbeatMs \notin HeartbeatLimits THEN "refused" ELSE "open"
  /\ UNCHANGED <<env, stage, hint, config, infra, options, adapter, reported, deploys, repaired>>

\* a new process: nothing of the old one is left
Restart ==
  /\ stage' = "down" /\ hint' = None /\ config' = None /\ infra' = None /\ options' = None
  /\ adapter' = FALSE /\ reported' = {} /\ stream' = "none"

Repair ==
  /\ stage = "failed"
  /\ env' = [v \in Var |-> IF v \in reported THEN {} ELSE env[v]]
  /\ repaired' = TRUE
  /\ Restart
  /\ UNCHANGED deploys

Deploy(v, setting) ==
  /\ stage \in {"listening", "failed"} /\ deploys < MaxDeploys
  /\ env' = [env EXCEPT ![v] = setting] /\ deploys' = deploys + 1 /\ repaired' = FALSE
  /\ Restart

Next ==
  \/ Define \/ loadEnv \/ useFactory \/ bootstrap \/ Repair
  \/ stage = "listening" /\ \E path \in {SseRoute, config["REALTIME_SSE_ENDPOINT"]} : Handshake(path)
  \/ \E v \in Var : \E setting \in Raw[v] : Deploy(v, setting)

Spec == Init /\ [][Next]_vars

-----------------------------------------------------------------------------
(* What a listening process says of itself *)

\* the probe's driver; without one it always says ok
check == [transport |-> config["REALTIME_TRANSPORT"], driver |-> infra.pubsub]

snapshot ==
  [transport     |-> options.transport,
   transportKind |-> IF hint = "both" THEN "composite" ELSE hint,
   sse           |-> options.sse,
   pubsub        |-> IF options.pubsub = {} THEN {"InMemoryPubSub"} ELSE options.pubsub,
   presence      |-> {"RedisPresenceStorage" : storage \in options.presence}]

\* the rows of the page: a provider that is missing is "none"
WiringSnapshot ==
  [serving  |-> snapshot.transportKind, pubsub |-> snapshot.pubsub,
   presence |-> IF snapshot.presence = {} THEN {"none"} ELSE snapshot.presence]

\* an emission of a peer reaches the streams of this transport
HeardFromPeers(t) ==
  IF t = "sse" THEN options.pubsub # {}
  ELSE adapter /\ \E w \in options.websocket : w.redisAdapter

-----------------------------------------------------------------------------
(* Properties *)

\* A start that fails names what to repair, and once all it named is unset the
\* next start does not fail: no variable hides another, and nothing the schema
\* accepts is refused later, by the library's checks or because the hint and the
\* configuration read the transport differently (env.loader.ts:71-145).
FailsSpeaking == stage = "failed" => reported # {} /\ ~repaired

\* A listening process is in the cluster with all of its transports or with none,
\* as PUBSUB_DRIVER says, and the probe, the snapshot and the page say the same;
\* the transports registered before any option was known are the ones the
\* configuration names (wiring.module.ts:54-91, options.factory.ts:51-124,
\* realtime-infra.module.ts:38-72).
OneCluster ==
  stage = "listening" =>
    LET redis == config["PUBSUB_DRIVER"] = "redis" IN
    /\ \A t \in Registered : HeardFromPeers(t) <=> redis
    /\ (check.driver # {}) <=> redis
    /\ (WiringSnapshot.pubsub # {"InMemoryPubSub"}) <=> redis
    /\ check.transport = snapshot.transport
    /\ snapshot.transport = IF WiringSnapshot.serving = "composite" THEN "both"
                                                                    ELSE WiringSnapshot.serving
    /\ adapter <=> "websocket" \in Registered
=============================================================================
