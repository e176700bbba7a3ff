------------------------------- MODULE MCGateway -------------------------------
(* Two commands at a time, one process identifier more than one start needs, *)
(* and starts of both services or of telegram alone.                         *)
EXTENDS Gateway
MCCommands == 1..2
MCPids == 1..3
MCWishes == {{"backend", "telegram"}, {"telegram"}}
=============================================================================
