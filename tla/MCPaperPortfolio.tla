--------------------------- MODULE MCPaperPortfolio ---------------------------
(* A spot and a futures symbol; one loss can exceed the initial capital.   *)
EXTENDS PaperPortfolio, TLC

CONSTANTS spot, perp

MCSymbols == {spot, perp}
MCFutures == {perp}
MCResults == {-2, 1}
=============================================================================
