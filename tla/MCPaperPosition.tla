-------------------------- MODULE MCPaperPosition --------------------------
(* A market of a few prices around a position with room for a stop, the    *)
(* break-even and the trailing stop.                                       *)
EXTENDS PaperPosition

MCBids == 12..34
=============================================================================
