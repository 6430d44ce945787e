---------------------------- MODULE MCTelemetry ----------------------------
(***************************************************************************)
(* Two threads and two tenants that share an attribute key with room for   *)
(* one value; a buffer of two records and five bytes.  The operations have *)
(* every priority, one needs several evictions, one can never fit, and two *)
(* are refused.                                                            *)
(***************************************************************************)
EXTENDS Telemetry

Op(id, org, attributes, priority, width, at) ==
    [id |-> id, org |-> org, attributes |-> attributes, priority |-> priority,
     audit_required |-> priority = "AUDIT", width |-> width, at |-> at]

Model(v) == <<"model", v>>

MCOperations ==
    {Op("low", "acme", <<Model("small")>>, "LOW", 1, 0),
     Op("normal", "acme", <<Model("large")>>, "NORMAL", 1, 1),
     Op("audit", "globex", <<Model("large")>>, "AUDIT", 1, 0),
     Op("auditWide", "acme", <<Model("medium")>>, "AUDIT", 3, 2),
     Op("auditHuge", "globex", <<>>, "AUDIT", 6, 1),
     Op("nobody", None, <<>>, "LOW", 1, 0),
     [Op("unclear", "acme", <<>>, "AUDIT", 1, 0) EXCEPT !.audit_required = FALSE]}

MCRecords == {RecordOf(op, n) : op \in {o \in MCOperations : Refusal(o) = "NONE"}, n \in 0..1}
=============================================================================
