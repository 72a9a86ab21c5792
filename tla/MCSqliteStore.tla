--------------------------- MODULE MCSqliteStore ----------------------------
(* SqliteStore for TLC: one network, one node, two clients. *)
EXTENDS SqliteStore, TLC

=============================================================================
