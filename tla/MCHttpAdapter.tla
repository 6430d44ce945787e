--------------------------- MODULE MCHttpAdapter ---------------------------
(***************************************************************************)
(* Two connections.  Tokens of three identities, one of them also under    *)
(* another subject, reach a tracker that keeps two; tokens are unsigned, of*)
(* an unknown issuer, or out of their time; bodies in two parts arrive     *)
(* while the clock moves, are too large, are not JSON, or name a tenant.   *)
(***************************************************************************)
EXTENDS HttpAdapter, TLC

MCRegistry ==
    "idp" :> [organization |-> "acme", audiences |-> {"trust"},
              algorithms |-> {"EdDSA", "ES256"}, tenant_value |-> "t1",
              skew |-> 0, lifetime |-> 60,
              keys |-> "k1" :> "EdDSA" @@ "k2" :> "ES256"]

TokenOf(jti, sub) ==
    [decodes |-> TRUE, iss |-> "idp", claims |-> TRUE, alg |-> "EdDSA",
     kid |-> "k1", signed |-> TRUE, aud |-> {"trust"}, named |-> TRUE, sub |-> sub,
     jti |-> jti, tenant |-> "t1", iat |-> 0, nbf |-> 0, exp |-> 60]

Good == {TokenOf("j1", "alice"), TokenOf("j1", "mallory"), TokenOf("j2", "bob"),
         TokenOf("j3", "carol")}

Alice == TokenOf("j1", "alice")

\* Good at instant 0 only; good from instant 1 on.
Timed == {[Alice EXCEPT !.exp = 1], [Alice EXCEPT !.nbf = 1]}

Bad == {[Alice EXCEPT !.signed = FALSE], [Alice EXCEPT !.iss = "other"]}

MCTokens == Good \cup Timed \cup Bad

Post(route, token, body, parts) ==
    [route |-> route, json |-> TRUE, token |-> token, body |-> body, parts |-> parts]

Get(route, token) ==
    [route |-> route, json |-> FALSE, token |-> token, body |-> "good", parts |-> <<>>]

\* What every adapter meets: health, no such route, no token, no content type.
Plain(route) ==
    {Get("live", None), Get("ready", None), Get("unknown", None),
     Post(route, None, "good", <<1>>),
     [Post(route, Alice, "good", <<1>>) EXCEPT !.json = FALSE]}

Bodies(route) ==
    {Post(route, Alice, "good", <<1, 1>>), Post(route, Alice, "good", <<1, 2>>),
     Post(route, Alice, "not_json", <<1>>), Post(route, Alice, "fields", <<1>>),
     Post(route, Alice, "tenant", <<1>>)}

\* The identities meet in one application; the adapters differ before that.
MCHttpRequests ==
    [policy |-> Plain("decide") \cup Bodies("decide"),
     guardrails |-> {Post("create", Alice, "good", <<1, 1>>),
                     Post("push", Alice, "fields", <<1>>),
                     Post("push", Alice, "tenant", <<1>>), Post("push", None, "good", <<1>>)}
                      \cup {Post("push", token, "good", <<1>>) : token \in Timed},
     usage |-> {Get("ready", None),
                [Post("reserve", None, "good", <<1>>) EXCEPT !.json = FALSE]}
                 \cup {Get("budgets", token) : token \in Good \cup Bad}]

MCOperationOutcomes ==
    [policy |-> {"DONE", "AUDIT_COMMIT_FAILED", "RAISED"},
     guardrails |-> {"DONE", "AUDIT_COMMIT_FAILED", "STREAM_NOT_FOUND", "RAISED"},
     usage |-> {"DONE"}]
=============================================================================
