------------------------- MODULE MCRtkSourceManager -------------------------
(* RtkSourceManager over a few sources.                                    *)
EXTENDS RtkSourceManager
=============================================================================
