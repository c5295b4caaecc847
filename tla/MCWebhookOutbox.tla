-------------------------- MODULE MCWebhookOutbox ---------------------------
(***************************************************************************)
(* Small instances of WebhookOutbox: two workers, two notifications.       *)
(***************************************************************************)
EXTENDS WebhookOutbox

CONSTANTS w1, w2, n1, n2

MCWorkers == {w1, w2}
MCItems == {n1, n2}
OneItem == {n1}
=============================================================================
