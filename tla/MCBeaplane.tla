----------------------------- MODULE MCBeaplane -----------------------------
(***************************************************************************)
(* Constant values for model-checking Beaplane.                            *)
(***************************************************************************)
EXTENDS Beaplane

MCCallers    == Streams \X Types
MCNonces     == 0 .. MaxNonce
\* The Envoy of the stream "anon" does not say which node it is.
MCNodeOf     == [s \in Streams |-> IF s = "anon" THEN Nil ELSE "n"]
MCStreamType == [s \in Streams |-> RouteType]
MCContents   == {[t \in Types |-> {}]}
MCWantAll    == {{}}

\* A bucket of one cluster and, perhaps, one direct route.
MCBucket(nodes, version, routes) ==
  [nodes     |-> nodes,
   endpoints |-> [version |-> version, items |-> {[name |-> "x", hosts |-> 1]}],
   routes    |-> [version |-> version, items |-> routes]]

MCRoute   == {[name |-> "x", first |-> "direct"]}
MCNoHosts == {[name |-> "x", first |-> "empty"]}

MCEmptyBucket ==
  {[nodes     |-> <<>>,
    endpoints |-> [version |-> "", items |-> {}],
    routes    |-> [version |-> "", items |-> {}]]}

MCOneNode  == {MCBucket(<<"n">>, "v1", MCRoute), MCBucket(<<"n">>, "v2", MCRoute)}
MCOneLoad  == {MCBucket(<<"n">>, "v1", MCRoute)}
MCTwoNodes == {MCBucket(<<"n", "m">>, "v1", {}), MCBucket(<<"m", "n">>, "v2", MCRoute),
               MCBucket(<<"m", "n">>, "v1", MCNoHosts)}
MCStartTwo == {MCBucket(<<"n", "m">>, "v0", MCRoute),
               MCBucket(<<"n">>, "v0", MCNoHosts)}
=============================================================================
