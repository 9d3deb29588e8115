--------------------------- MODULE MCZonesManager ---------------------------
(* ZonesManager with a few zones.                                          *)
EXTENDS ZonesManager
=============================================================================
