------------------------------ MODULE MCTools ------------------------------
(***************************************************************************)
(* Constant values for model-checking Tools.                               *)
(***************************************************************************)
EXTENDS Tools

\* Two pods in the two orders kubectl may show them, or the first one alone.
MCListings == {<<"za1", "zb1">>, <<"zb1", "za1">>, <<"za1">>}

\* As many locpicks as there are zones, fewer and more.
MCResolutions ==
  {<<"l1", "l2">>, <<"l2", "l1">>, <<"l2", "l3">>, <<"l1">>, <<"l1", "l2", "l3">>}

\* The third locpick is configured without zb.
MCZonesOf == [l \in Locpicks |-> IF l = "l3" THEN {"za"} ELSE {"za", "zb"}]

MCInvocations ==
  {{}, {"server", "info"}, {"locpick", "info", "tls"}, {"beacon", "ping"}, {"beacon", "info"}}

MCUncommented == {{}, {"server"}, {"client", "both"}}
=============================================================================
