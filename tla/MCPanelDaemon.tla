-------------------------- MODULE MCPanelDaemon --------------------------
(* TLC instance of PanelDaemon; the cfg files name its constants. *)
EXTENDS PanelDaemon
===========================================================================
