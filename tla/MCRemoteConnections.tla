-------------------------- MODULE MCRemoteConnections --------------------------
(* Connections for the model checker: m a management connection, x an        *)
(* extension host connection.                                                *)
EXTENDS RemoteConnections

CONSTANTS m, x
=================================================================================
