------------------------------ MODULE Locpick ------------------------------
(***************************************************************************)
(* locpick, the service that hands locations out, one node process with    *)
(* one handler running at a time.  The configured locations of a zone are  *)
(* given in their order and the last one is given again for ever.  There   *)
(* are two counters: locLast for PUT /locs, over the current zone, and     *)
(* loclast[zone] for PUT /:zone/locs and the gRPC call loc.                *)
(*                                                                         *)
(* A beacon asks for a location and keeps what it is told; replies may be  *)
(* lost and either side may restart.                                       *)
(***************************************************************************)
EXTENDS Integers, Sequences

CONSTANTS Zones,        \* the zones in gl.config.list
          Places,       \* the names of locations
          Locs,         \* the locations of each zone, in list order
          StartZone,    \* gl.config.current.zone of a fresh process
          Beacons,      \* clients
          Nil,          \* no reply, no location
          MaxGiven,     \* bound on locations handed out since init()
          MaxInits      \* bound on calls of init()

ASSUME LocpickAssumption ==
  /\ Locs \in [Zones -> Seq(Places)]
  /\ \A z \in Zones : Locs[z] # <<>>
  /\ StartZone \in Zones
  /\ MaxGiven \in Nat /\ MaxInits \in Nat

Routes == {"default", "zone"}

\* A location handed out: which, by which route, under which sid.  The
\* random sid is new in every init(): the number of the call stands for it.
Given == [zone : Zones, index : Nat \ {0}, route : Routes, sid : Nat]

ASSUME NilAssumption == Nil \notin Given

VARIABLES zone,     \* gl.config.current.zone, the zone of gl.locs
          sid,      \* gl.sid
          locLast,  \* gl.locLast, -1 before the first
          loclast,  \* gl.loclast of each zone, -1 before the first
          newlocs,  \* gl.newlocs
          reply,    \* the reply on its way to each beacon, or Nil
          held      \* the location each beacon was told last, or Nil: a
                    \* history variable, the beacon only logs it

serverVars == <<zone, sid, locLast, loclast, newlocs>>
vars       == <<serverVars, reply, held>>

\* gl.locMax and gl.locmax[zone]: the first is an index, the second a count.
locMax    == Len(Locs[zone]) - 1
locmax(z) == Len(Locs[z])

TypeOK ==
  /\ zone \in Zones
  /\ sid \in Nat
  /\ locLast \in -1 .. locMax
  /\ loclast \in [Zones -> Int]
  /\ \A z \in Zones : loclast[z] \in -1 .. locmax(z) - 1
  /\ newlocs \in Seq(Given)
  /\ reply \in [Beacons -> Given \cup {Nil}]
  /\ held \in [Beacons -> Given \cup {Nil}]

Init ==
  /\ zone = StartZone
  /\ sid = 1
  /\ locLast = -1
  /\ loclast = [z \in Zones |-> -1]
  /\ newlocs = <<>>
  /\ reply = [b \in Beacons |-> Nil]
  /\ held = [b \in Beacons |-> Nil]

----------------------------------------------------------------------------
\* Variant with a fault: init() keeps the sid.
NextSidKept == sid

\* A sid no init() has used.
NextSid == sid + 1

\* init() for the zone z.
ReInit(z) ==
  /\ sid < MaxInits
  /\ sid' = NextSid
  /\ zone' = z
  /\ locLast' = -1
  /\ loclast' = [y \in Zones |-> -1]
  /\ newlocs' = <<>>

\* The element of zone z at the zero-based index i is recorded and replied.
Reply(b, z, i, route) ==
  LET l == [zone |-> z, index |-> i + 1, route |-> route, sid |-> sid]
  IN  /\ Len(newlocs) < MaxGiven
      /\ newlocs' = Append(newlocs, l)
      /\ reply' = [reply EXCEPT ![b] = l]

\* Variant with a fault: an index is counted up to the number of locations.
NextLocPast == IF locLast <= locMax THEN locLast + 1 ELSE locLast

NextLoc == IF locLast < locMax THEN locLast + 1 ELSE locLast

\* PUT /locs
PutLocs(b) ==
  /\ reply[b] = Nil
  /\ locLast' = NextLoc
  /\ Reply(b, zone, locLast', "default")
  /\ UNCHANGED <<zone, sid, loclast, held>>

\* Variants with a fault: the counter is incremented in the test and again;
\* the counter starts again at the end of the list.
NextLocOfTwice(z) ==
  IF loclast[z] + 2 < locmax(z) THEN loclast[z] + 2 ELSE loclast[z] + 1

NextLocOfWraps(z) ==
  IF loclast[z] + 1 < locmax(z) THEN loclast[z] + 1 ELSE 0

NextLocOf(z) ==
  IF loclast[z] + 1 < locmax(z) THEN loclast[z] + 1 ELSE loclast[z]

\* The two calls that count in loclast[z], each in a copy of the same code.
\* The zone is configured: for another one PUT /:zone/locs answers 400 and
\* changes nothing, and loc ends the process (Restart).
TakeLocOf(b, z) ==
  /\ reply[b] = Nil
  /\ loclast' = [loclast EXCEPT ![z] = NextLocOf(z)]
  /\ Reply(b, z, loclast'[z], "zone")
  /\ UNCHANGED <<zone, sid, locLast, held>>

\* PUT /:zone/locs
PutZoneLocs(b, z) == TakeLocOf(b, z)

\* loc, over gRPC
GetLoc(b, z) == TakeLocOf(b, z)

\* GET /reset, with a configured zone or without one.
Reset(z) == ReInit(z) /\ UNCHANGED <<reply, held>>

\* The process dies, with the replies it has not sent, and is started
\* again.  A gRPC call for a zone that is not configured also comes to this:
\* locs[undefined].name throws and nothing catches it.
Restart ==
  /\ ReInit(StartZone)
  /\ \E kept \in SUBSET Beacons :
        reply' = [b \in Beacons |-> IF b \in kept THEN reply[b] ELSE Nil]
  /\ UNCHANGED held

\* The beacon takes the location it is told.
Deliver(b) ==
  /\ reply[b] # Nil
  /\ held' = [held EXCEPT ![b] = reply[b]]
  /\ reply' = [reply EXCEPT ![b] = Nil]
  /\ UNCHANGED serverVars

\* The reply is lost; a beacon restarts and forgets its location.
Lose(b) ==
  /\ reply[b] # Nil
  /\ reply' = [reply EXCEPT ![b] = Nil]
  /\ UNCHANGED <<serverVars, held>>

BeaconRestarts(b) ==
  /\ held[b] # Nil
  /\ held' = [held EXCEPT ![b] = Nil]
  /\ UNCHANGED <<serverVars, reply>>

Next ==
  \/ \E b \in Beacons : PutLocs(b) \/ Deliver(b) \/ Lose(b) \/ BeaconRestarts(b)
  \/ \E b \in Beacons, z \in Zones : PutZoneLocs(b, z) \/ GetLoc(b, z)
  \/ \E z \in Zones : Reset(z)
  \/ Restart

Spec == Init /\ [][Next]_vars

----------------------------------------------------------------------------
IsLast(g) == g.index = Len(Locs[g.zone])

\* g and h come from the same counter.
SameCounter(g, h) ==
  g.zone = h.zone /\ g.route = h.route /\ g.sid = h.sid

(***************************************************************************)
(* Each counter hands locations out in order and never twice, until it has *)
(* reached the last one of its zone.                                       *)
(***************************************************************************)
HandedOutInOrder ==
  \A i, j \in DOMAIN newlocs :
     (i < j /\ SameCounter(newlocs[i], newlocs[j])) =>
        \/ newlocs[i].index < newlocs[j].index
        \/ newlocs[i].index = newlocs[j].index /\ IsLast(newlocs[j])

(***************************************************************************)
(* No location is left out: before a counter gives a location it has given *)
(* all the earlier ones of the zone, so the sentinel at the end comes only *)
(* when every location is taken.                                           *)
(***************************************************************************)
NoneSkipped ==
  \A j \in DOMAIN newlocs : \A k \in 1 .. newlocs[j].index - 1 :
     \E i \in 1 .. j - 1 :
        SameCounter(newlocs[i], newlocs[j]) /\ newlocs[i].index = k

(***************************************************************************)
(* Two beacons whose locations come from the same counter of the same sid  *)
(* are at different places, unless both are at the end of the list;        *)
(* whatever replies were lost and whoever restarted in between.            *)
(***************************************************************************)
HoldersDistinct ==
  \A b, c \in Beacons :
     (b # c /\ held[b] # Nil /\ held[c] # Nil /\ SameCounter(held[b], held[c])) =>
        held[b].index # held[c].index \/ IsLast(held[b])
=============================================================================
