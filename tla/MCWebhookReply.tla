--------------------------- MODULE MCWebhookReply ---------------------------
(* An instance of WebhookReply for TLC. *)
EXTENDS WebhookReply, TLC

MCTexts == <<"a", "b", "c">>
=============================================================================
