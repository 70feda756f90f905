-------------------------------- MODULE MCWeb --------------------------------
(* A member of one tenant and an admin of another, on every page in turn.   *)
EXTENDS WebPages

CONSTANTS bob, gil

MCTenantOf == (bob :> "acme") @@ (gil :> "globex")

Heard ==
  CASE page.at \in {"home", "login", "presence"} -> {None, "established", "presence", "other"}
    [] page.at \in {"audit", "connections"}      -> {None, "established"}
    [] OTHER                                     -> {None}

\* bound: a page is followed while the feed says only what the page listens to,
\* four fetches at most are in flight, and the chat's room calls do not overlap
Followed ==
  /\ lastEvent \in Heard
  /\ BagCardinality(calls) <= 4
  /\ page.at = "chat" => ~page.doubt
=============================================================================
