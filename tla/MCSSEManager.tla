---------------------------- MODULE MCSSEManager ----------------------------
(* Values of SSEManager's constants for TLC. *)
EXTENDS SSEManager

CONSTANTS c1, candleTable, lineTable

MCTables == {candleTable, lineTable}

\* The trendlines of a candle table are in a table of their own, whose name is
\* made from that of the candle table.
MCContains == {<<candleTable, candleTable>>, <<lineTable, lineTable>>, <<lineTable, candleTable>>}
=============================================================================
