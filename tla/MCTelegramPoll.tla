---------------------------- MODULE MCTelegramPoll ----------------------------
(* The service's poller and a manual one.  A whole batch without messages  *)
(* comes before the first message, and a manual poll may go back into it.  *)
EXTENDS TelegramPoll

CONSTANTS service, manual

MCPollers == {service, manual}
MCKind == <<"ignored", "ignored", "text", "unauthorized", "malformed">>
Back == {2}
=============================================================================
