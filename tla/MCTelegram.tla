------------------------------ MODULE MCTelegram ------------------------------
(***************************************************************************)
(* The Telegram channel: the outbox that sends and the command center that *)
(* listens, each explored with the other at rest; "service" names the one  *)
(* that runs.                                                              *)
(***************************************************************************)
EXTENDS TelegramOutbox, TelegramCommands

VARIABLE service

telegramVars == <<service, outboxVars, commandVars>>

\* The outbox at rest stays in one of its initial states.
TelegramInit ==
  /\ service \in {"outbox", "commands"} /\ OutboxInit /\ CommandsInit
  /\ service = "commands" => enabled

TelegramNext ==
  \/ service = "outbox" /\ OutboxNext /\ UNCHANGED <<service, commandVars>>
  \/ service = "commands" /\ CommandsNext /\ UNCHANGED <<service, outboxVars>>

\* OutboxFairness and CommandsFairness, of the one that runs.
TelegramFairness ==
  /\ WF_outboxVars(service = "outbox" /\ (Disable \/ Send \/ Record))
  /\ \A f \in Flushers : WF_outboxVars(service = "outbox" /\ FlushStep(f))
  /\ \A k \in Keys : WF_outboxVars(service = "outbox" /\ RetryTime(k))
  /\ WF_commandVars(service = "commands" /\ PollStep)

TelegramSpec == TelegramInit /\ [][TelegramNext]_telegramVars /\ TelegramFairness
=============================================================================
