--------------------------- MODULE MCBookTranslation ---------------------------
(* The engines' policies for the runs, in small numbers: one text to a request; a batch told apart *)
(* by separators; an array.                                                                        *)
EXTENDS BookTranslation

Policy(batching) ==
    [batching |-> batching, target |-> 5, merged |-> 6, attempts |-> 2, rateLimits |-> 2]
SmallEngines == {Policy("none"), Policy("separator"), Policy("array")}
=============================================================================
