-------------------------------- MODULE MCBoot --------------------------------
(* Each variable unset, empty, at or past its limits, or one of its values.  *)
EXTENDS Boot

MCRaw ==
  [v \in Var |->
     CASE v = "REALTIME_HEARTBEAT_MS" -> {{999}, {1000}, {5000}, {600000}}
       [] v = "REAUTH_CACHE_TTL_MS"   -> {{-1}, {0}, {3600001}}
       [] v \in DOMAIN Bounds         -> {{0}, {1024}, {100001}}
       [] v \in DOMAIN Literals       -> {{x} : x \in Literals[v]} \cup {{""}}
       [] v = "SESSION_SECRET"        -> {{15}, {16}}
       [] v = "REALTIME_SSE_ENDPOINT" -> {{"bad"}, {"/stream"}}
       [] OTHER                       -> {{"bad"}}]
=============================================================================
