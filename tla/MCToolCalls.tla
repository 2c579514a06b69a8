---------------------------- MODULE MCToolCalls ----------------------------
(* Instances of ToolCalls for TLC: a turn with a fetch and a command, and  *)
(* other turns whose fetch goes to the same host.                          *)
EXTENDS ToolCalls, TLC

CONSTANTS fetch1, fetch2, command, root, mate, host

Fetch ==
  [needsApproval |-> TRUE, network |-> TRUE, mutates |-> FALSE, parallel |-> TRUE,
   handlerMutates |-> FALSE, command |-> "none", escalated |-> FALSE]
Shell ==
  [needsApproval |-> TRUE, network |-> FALSE, mutates |-> TRUE, parallel |-> FALSE,
   handlerMutates |-> TRUE, command |-> "other", escalated |-> FALSE]

MCCall == {fetch1, fetch2, command}
MCTurnOf == [c \in MCCall |-> IF c = fetch2 THEN mate ELSE root]
MCToolOf == [c \in MCCall |-> IF c = command THEN Shell ELSE Fetch]
MCKeyOf == [c \in MCCall |-> IF c = command THEN "sh" ELSE "fetch"]
MCHostOf == [c \in MCCall |-> host]
=============================================================================
