--------------------------- MODULE MCPersistStore ---------------------------
(* Instances of PersistStore for TLC.                                      *)
EXTENDS PersistStore, TLC

CONSTANTS h1, h2

TwoHandlers == {h1, h2}
=============================================================================
