----------------------------- MODULE MCMontrer -----------------------------
(***************************************************************************)
(* Constant values for model-checking Stage1 and Montrer.                  *)
(***************************************************************************)
EXTENDS Montrer

MCBody(complete, path, id, name, lonlat) ==
  [complete |-> complete, path |-> path, beaconzone |-> "za", beaconid |-> id,
   loc |-> [name |-> name, lonlat |-> lonlat]]

\* A signal of a beacon with a place, one of a beacon left without a place,
\* and one sent to another zone's URL.
MCBodies ==
  [p1 |-> MCBody(TRUE, "za", "b1", "brussels", "50,4"),
   p2 |-> MCBody(TRUE, "za", "b2", "noloc", NoLonlat),
   p3 |-> MCBody(TRUE, "zb", "b2", "noloc", NoLonlat)]

MCBodyOf == [p \in Signals |-> MCBodies[p]]
=============================================================================
