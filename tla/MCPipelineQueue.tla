--------------------------- MODULE MCPipelineQueue ---------------------------
(* Instance of PipelineQueue for TLC: two ingesters that overtake each     *)
(* other between commit and publish.                                       *)
EXTENDS PipelineQueue

MCIngester == {"intraday", "websocket"}
=============================================================================
