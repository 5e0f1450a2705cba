------------------------------ MODULE MCFirmware ------------------------------
(* Handler tasks for TLC: the server's NUMBER_OF_CLIENTS is 2.            *)
EXTENDS Firmware

CONSTANTS c1, c2

MCOneClient == {c1}
MCTwoClients == {c1, c2}
=============================================================================
