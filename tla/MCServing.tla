------------------------------ MODULE MCServing ------------------------------
(* Serving on two requests.                                                *)
EXTENDS Serving

CONSTANTS r1, r2

MCReq       == {r1, r2}
\* one prompt ends at a block boundary, one inside a block
MCPromptLen == [r \in MCReq |-> IF r = r1 THEN 4 ELSE 3]
\* one request decodes, one is done with its first token
MCMaxTokens == [r \in MCReq |-> IF r = r1 THEN 4 ELSE 1]
MCPrefixHits == {0, 2}
MCLatencies == {1}
MCBothRoles == {"kv_both"}
MCRoles     == {"none", "kv_producer", "kv_consumer", "kv_both"}
=============================================================================
