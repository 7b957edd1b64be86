---------------------------- MODULE MCPluginEvents ----------------------------
(***************************************************************************)
(* Two plugins: the first subscribes to every event, the second to one.    *)
(***************************************************************************)
EXTENDS PluginEvents

MCSubscribed == [p \in 1..Plugins |-> IF p = 1 THEN 1..Events ELSE {Events}]
=============================================================================
