----------------------------- MODULE MCDeployment -----------------------------
(***************************************************************************)
(* Configurations for the run of Deployment: one that validates through a  *)
(* default and a variable, and some with one mistake each.                 *)
(***************************************************************************)
EXTENDS Deployment

Text(v, t) == [value |-> v, text |-> t]

Sound ==
    [deployment |-> TRUE, database_uri |-> TRUE, debug |-> FALSE,
     app_prefix |-> Text("/fact_inventory", "${PREFIX}"),
     log_level |-> Text("", "INFO"),
     numbers |-> [f \in DOMAIN Minimum |->
                    CASE f = "max_request_body_mb" -> 5
                      [] f = "db_pool_recycle_seconds" -> 3600
                      [] OTHER -> 1]]

MCConfig ==
    {Sound, [Sound EXCEPT !.debug = TRUE, !.log_level = Text("verbose", "INFO")],
     [Sound EXCEPT !.app_prefix = Text("", "${PREFIX}")],
     [Sound EXCEPT !.numbers.max_request_body_mb = 4]}
=============================================================================
