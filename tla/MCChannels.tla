----------------------------- MODULE MCChannels -----------------------------
(***************************************************************************)
(* Instances of Telegram, Triggers and SSHCredentials for TLC, explored    *)
(* one at a time.                                                          *)
(***************************************************************************)
EXTENDS Telegram, Triggers, SSHCredentials

CONSTANT Parts   \* the components that are explored

VARIABLE part

\* the components that are not explored keep one of their initial states
MCInit == /\ part \in Parts
          /\ TelegramInit /\ TriggersInit /\ CredInit
          /\ part # "telegram" => mode = "webhook"
          /\ part # "triggers" => store = "db"
          /\ kinds = [c \in ChannelIds |-> IF c = "ops" THEN "telegram" ELSE "missing"]

MCNext == /\ part' = part
          /\ \/ part = "telegram" /\ TelegramNext /\ UNCHANGED <<trgVars, credVars>>
             \/ part = "triggers" /\ TriggersNext /\ UNCHANGED <<tgVars, credVars>>
             \/ part = "credentials" /\ CredNext /\ UNCHANGED <<tgVars, trgVars>>

\* Telegram's fairness, for the behaviours that explore it
MCSpec == /\ MCInit /\ [][MCNext]_<<part, tgVars, trgVars, credVars>>
          /\ WF_tgVars(part = "telegram" /\ GetUpdates) /\ WF_tgVars(part = "telegram" /\ TakeNext)
          /\ WF_tgVars(part = "telegram" /\ TgRestart)
          /\ \A h \in Handlers : WF_tgVars(part = "telegram" /\ Process(h))
=============================================================================
