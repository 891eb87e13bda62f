---------------------------- MODULE MCVMManager ----------------------------
(* A small instance of VMManager for TLC.                                  *)
EXTENDS VMManager

\* Two request sizes, so that either resource can be the one that runs out.
MCDemands == {[memoryMB |-> 2, cpus |-> 1], [memoryMB |-> 1, cpus |-> 2]}
=============================================================================
