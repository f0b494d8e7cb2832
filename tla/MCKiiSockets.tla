---------------------------- MODULE MCKiiSockets ----------------------------
(* A small instance of KiiSockets for TLC: fewer descriptors than failures *)
(* can lose, so that a device runs out of them.                            *)
EXTENDS KiiSockets

MCFds == 0..3
MCPorts == {"linux", "ti", "gt202"}
=============================================================================
