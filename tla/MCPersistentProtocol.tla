------------------------- MODULE MCPersistentProtocol -------------------------
(* Bounds for the model checker.                                            *)
EXTENDS PersistentProtocol, TLC

CONSTANTS FromClient, FromServer
MCMaxSend == [p \in Endpoint |-> IF p = "client" THEN FromClient ELSE FromServer]

\* The protocol looks at no message's data.
AnyData == Permutations(Data)
=============================================================================
