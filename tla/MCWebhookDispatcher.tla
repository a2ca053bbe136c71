------------------------ MODULE MCWebhookDispatcher ------------------------
(***************************************************************************)
(* WebhookDispatcher on a small instance: more events than a batch holds,  *)
(* so that one waits while others fail and while the batch goes stale.     *)
(***************************************************************************)
EXTENDS WebhookDispatcher
=============================================================================
