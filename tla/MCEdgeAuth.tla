----------------------------- MODULE MCEdgeAuth -----------------------------
(* EdgeAuth on a small instance: one request per way of being decided. *)
EXTENDS EdgeAuth

CONSTANTS loop, p1, k1, k2, ann, bob

Token(k, o, sound) == [kid |-> k, owner |-> o, sound |-> sound, readable |-> TRUE]
Garbled == [kid |-> None, owner |-> None, sound |-> FALSE, readable |-> FALSE]

Request(path, token, method, origin) ==
  [path |-> path, token |-> token, method |-> method, origin |-> origin,
   client |-> "proxy", host |-> TRUE, cookie |-> FALSE]

MCRequests == {
  Request("api", Token(k1, ann, TRUE), "write", "ours"),
  Request("gate", Token(k2, ann, TRUE), "read", "none"),
  Request("gate", Token(k1, ann, TRUE), "read", "none"),
  Request("legacy", Token(k2, bob, TRUE), "write", "foreign"),
  Request("internal", None, "read", "none"),
  [Request("internal", None, "read", "none") EXCEPT !.client = "loopback"],
  [Request("api", Garbled, "write", "none") EXCEPT !.cookie = TRUE],
  Request("api", None, "write", "none"),
  Request("socket", Token(k2, ann, FALSE), "upgrade", "ours"),
  Request("socket", Token(k2, ann, TRUE), "upgrade", "foreign"),
  [Request("api", Token(k2, ann, TRUE), "read", "ours") EXCEPT !.host = FALSE]}

MCInsistent == {Request("gate", Token(k2, ann, TRUE), "read", "none")}

Environment(flag, service, audience, allowed) ==
  [flag |-> flag, service |-> service, audience |-> audience, team |-> TRUE,
   wildcard |-> FALSE, allowed |-> allowed]

MCEnvironments == {
  Environment("unset", TRUE, TRUE, {ann}),
  Environment("unset", TRUE, FALSE, {}),
  Environment("on", TRUE, TRUE, {}),
  Environment("off", FALSE, FALSE, {ann})}
=============================================================================
