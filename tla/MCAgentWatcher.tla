--------------------------- MODULE MCAgentWatcher ---------------------------
(* Two rungs for three attempts: the last wait is used twice.               *)
EXTENDS AgentWatcher

MCBackoff == <<1, 3>>
=============================================================================
