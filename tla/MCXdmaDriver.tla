---------------------------- MODULE MCXdmaDriver ----------------------------
(***************************************************************************)
(* The boards that the rules for the BARs allow: the configuration BAR,    *)
(* with or without the user's before it and the bypass behind it, with     *)
(* gaps where a 64-bit BAR takes two numbers; and a board without a        *)
(* configuration BAR.                                                      *)
(***************************************************************************)
EXTENDS XdmaDriver

BoardLayouts ==
  {l \in [Bar -> Kinds] : OrderedBars(l) /\ ((\E i \in Bar : l[i] = "config") \/ l[0] = "user")}

TwoChannels == {{}, {0}, {1}, {0, 1}}
=============================================================================
