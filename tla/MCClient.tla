------------------------------ MODULE MCClient ------------------------------
(* Two commands of the same or of different versions, with or without a    *)
(* server, of any version, that is already running.                        *)
EXTENDS Client

CONSTANTS c1, c2

TwoClients == {c1, c2}
AllCommands == {"start-server", "kill-server", "devices", "shell"}

=============================================================================
