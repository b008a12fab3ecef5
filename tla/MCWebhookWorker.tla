--------------------------- MODULE MCWebhookWorker ---------------------------
(* Two deliveries in one batch, two loops that may overlap on them, two    *)
(* attempts and one failing query: a copy can wait behind another while    *)
(* its row changes, and a row can be written by both loops.                *)
EXTENDS WebhookWorker

CONSTANTS l1, l2

MCLoops == {l1, l2}
==============================================================================
