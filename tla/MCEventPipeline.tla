-------------------------- MODULE MCEventPipeline --------------------------
\* Instances of EventPipeline for TLC.
EXTENDS EventPipeline

CONSTANTS text, group, chat, all, newOnly

\* One webhook as a bare URL ("*"), one with its list of events.
MCFilter == [t \in Targets |-> IF t = newOnly THEN {"new"} ELSE {"new", "updated", "group", "chat"}]
=============================================================================
