----------------------------- MODULE MCPipeline -----------------------------
(* Pipeline with two requests and two keys, of tokens sound and flawed. *)
EXTENDS Pipeline, TLC

CONSTANTS k1, k2, r1, r2

Token(kid, exp, roles, flaws) ==
    [kid |-> kid, exp |-> exp, roles |-> roles, flaws |-> flaws]

Writer == Token(k1, 2, {"Todos.Write"}, {})      \* expires while it is in use
Reader == Token(k2, 9, {"Todos.Read"}, {})
Forged == Token(k2, 9, {"Todos.Write"}, {"signature"})
Malformed == Token(k1, 9, {}, {"malformed"})
MCTokens == {Writer, Reader, Forged, Malformed}

Ask(needs, token, body, id) ==
    [needs |-> needs, token |-> token, body |-> body, id |-> id]

\* One client behaves, and fills the cache for the other or finds it filled.
MCAsks ==
    r1 :> {Ask("Todos.Read", Writer, "valid", TRUE)} @@
    r2 :> {Ask("Todos.Read", Reader, "valid", FALSE),
           Ask("Todos.Write", Reader, "invalid", FALSE),
           Ask("Todos.Write", Forged, "valid", TRUE),
           Ask("Todos.Read", Malformed, "valid", FALSE),
           Ask("Todos.Write", NoToken, "invalid", TRUE),
           Ask("Todos.Write", NoToken, "not_json", FALSE)}

\* Clients that behave and send an id.
GoodAsks ==
    r1 :> {Ask("Todos.Read", Writer, "valid", TRUE)} @@
    r2 :> {Ask("Todos.Read", Reader, "valid", TRUE)}

Replica(auth, exporter, debug) ==
    [auth |-> auth, exporter |-> exporter, debug |-> debug]

MCSettings == {Replica("on", TRUE, FALSE), Replica("off", FALSE, FALSE),
               Replica("incomplete", FALSE, FALSE)}
Deployed == {Replica("on", TRUE, TRUE)}
=============================================================================
