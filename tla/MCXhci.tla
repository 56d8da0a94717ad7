------------------------------- MODULE MCXhci -------------------------------
(* The two commands of init_xhci_controller and two ports that change.     *)
EXTENDS Xhci

MCCommands == <<"no_op", "enable_slot">>
MCPorts == {-1, -2}
=============================================================================
