-------------------------- MODULE MCPluginManager --------------------------
(***************************************************************************)
(* Instances of PluginManager.  Plug-in "top" requires "base", as          *)
(* lexlookup.spi requires lexicon.spi.                                     *)
(***************************************************************************)
EXTENDS PluginManager

Chain == [p \in Paths |-> IF p = "top" THEN <<"base">> ELSE <<>>]
\* Two plug-ins whose register functions load each other.
Cycle == [p \in Paths |-> IF p = "top" THEN <<"base">> ELSE <<"top">>]
\* "top" can be loaded, "fork" cannot: the second plug-in it requires is bad;
\* "odd" fails when it registers its classes, "lost" when its path is built.
Mixed ==
  [p \in Paths |-> CASE p \in {"top", "odd"} -> <<"base">>
                     [] p = "fork" -> <<"base", "bad">>
                     [] OTHER -> <<>>]
MixedFaults ==
  [p \in Paths |-> CASE p = "bad" -> "open"
                     [] p = "odd" -> "register"
                     [] p = "lost" -> "resolve"
                     [] OTHER -> "none"]

NoFault == [p \in Paths |-> "none"]
BaseFails == [p \in Paths |-> IF p = "base" THEN "open" ELSE "none"]

=============================================================================
