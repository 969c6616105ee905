---------------------------- MODULE MC_Endpoint ----------------------------
(* Request kinds and invalid requests for the endpoint model.  Every key   *)
(* is a distinct fingerprint; "badwin", "baddir" and "badbody" are         *)
(* attributes requests with an out-of-range window, an unknown             *)
(* interpolation and an unparsable body.  All entries take 2 bytes.        *)
EXTENDS Endpoint

MCKind(k) == CASE k = "slice" -> "slice" [] k = "fence" -> "fence"
             [] k = "meta" -> "metadata" [] k = "sched" -> "scheduled_fence"
             [] OTHER -> "attributes"
MCInvalid(k) == CASE k = "badwin" -> "window" [] k = "baddir" -> "parse"
                [] k = "badbody" -> "body" [] OTHER -> "none"
MCSize(k) == 2
=============================================================================
