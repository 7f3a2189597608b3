---------------------------- MODULE MCAgentReply ----------------------------
(* Small instances of AgentReply for TLC: connections are numbers in the    *)
(* order of their opening, replies are model values.                        *)
EXTENDS AgentReply
=============================================================================
