------------------------------ MODULE MCBeacon ------------------------------
(***************************************************************************)
(* Constant values for model-checking Beacon and, with it, Locpick: the    *)
(* environment of src/src/obus/test/test-beacon.sh, and faults in it.      *)
(***************************************************************************)
EXTENDS Beacon

MCLocs == [z \in Zones |->
  CASE z = "zdevshell" -> <<"devshell1", "devshell_last">>
    [] z = "nozone"    -> <<"noloc">>]

MCPlaces == UNION {{MCLocs[z][i] : i \in DOMAIN MCLocs[z]} : z \in Zones}

MCGood == [httpHost |-> "localhost", httpPort |-> 58080, grpcHost |-> "localhost",
           grpcPort |-> 58085, tlsPort |-> 58090, zone |-> "zdevshell",
           grpc |-> TRUE, tls |-> TRUE, keys |-> TRUE]

MCEnvironment ==
  {MCGood, [MCGood EXCEPT !.zone = Unset], [MCGood EXCEPT !.zone = "zc"],
   [MCGood EXCEPT !.tls = FALSE], [MCGood EXCEPT !.grpcHost = Unset],
   [MCGood EXCEPT !.keys = FALSE], [MCGood EXCEPT !.tlsPort = Unset]}

\* One well-configured beacon, and one of any kind.
MCSettings == {[b1 |-> MCGood, b2 |-> e] : e \in MCEnvironment}
=============================================================================
