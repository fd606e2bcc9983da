--------------------------- MODULE MCCacheHistory ---------------------------
(* Small instances of the controller with its history for TLC.             *)
EXTENDS MCNamespaceController, CacheHistory
=============================================================================
