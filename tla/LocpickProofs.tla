--------------------------- MODULE LocpickProofs ---------------------------
(***************************************************************************)
(* Proofs about Locpick, for any zones, locations, beacons and bounds.     *)
(* The inductive invariant relates every location that was handed out, is  *)
(* on its way, or is held, to the counter it came from: with the current   *)
(* sid it is not beyond the counter, and a counter has given everything    *)
(* before it.                                                              *)
(***************************************************************************)
EXTENDS Locpick, TLAPS

\* The counter behind a route and a zone, -1 before its first location.
Counter(route, z) ==
  IF route = "zone" THEN loclast[z] ELSE IF z = zone THEN locLast ELSE -1

Location(z, index, route) ==
  [zone |-> z, index |-> index, route |-> route, sid |-> sid]

Within(g) == g.index <= Counter(g.route, g.zone) + 1

Recorded ==
  \A j \in DOMAIN newlocs : newlocs[j].sid = sid /\ Within(newlocs[j])

Complete ==
  \A route \in Routes, z \in Zones : \A k \in 1 .. Counter(route, z) + 1 :
     \E i \in DOMAIN newlocs : newlocs[i] = Location(z, k, route)

\* What a beacon holds or will be told.
InHands(b) == {held[b], reply[b]} \ {Nil}

Dated ==
  \A b \in Beacons : \A g \in InHands(b) :
     g.sid <= sid /\ (g.sid = sid => Within(g))

Apart ==
  \A b, c \in Beacons : b # c =>
     \A g \in InHands(b), h \in InHands(c) :
        SameCounter(g, h) => g.index # h.index \/ IsLast(g)

LocpickInv ==
  /\ TypeOK
  /\ Recorded /\ Complete /\ HandedOutInOrder /\ NoneSkipped
  /\ Dated /\ Apart

----------------------------------------------------------------------------
\* What beacons hold, and replies carry, are entries of the log.
LEMMA InHandsType ==
  ASSUME TypeOK, NEW b \in Beacons, NEW g \in InHands(b)
  PROVE  g \in Given
  BY DEF TypeOK, InHands

\* Every zone has a location.
LEMMA LenType ==
  ASSUME NEW z \in Zones
  PROVE  Len(Locs[z]) \in Nat /\ Len(Locs[z]) > 0
<1>1. Locs[z] \in Seq(Places) /\ Locs[z] # <<>>
  BY LocpickAssumption
<1>2. QED BY <1>1

\* A counter stays on the list of its zone.
LEMMA CounterType ==
  ASSUME TypeOK, NEW route \in Routes, NEW z \in Zones
  PROVE  /\ Counter(route, z) \in Int
         /\ Counter(route, z) >= -1 /\ Counter(route, z) <= Len(Locs[z]) - 1
<1>1. loclast[z] \in Int /\ loclast[z] >= -1 /\ loclast[z] <= Len(Locs[z]) - 1
  BY LenType DEF TypeOK, locmax
<1>2. locLast \in Int /\ locLast >= -1 /\ locLast <= Len(Locs[zone]) - 1
  BY LenType DEF TypeOK, locMax
<1>3. QED BY <1>1, <1>2, LenType DEF Counter

\* The entry that a counter makes is an entry.
LEMMA LocationType ==
  ASSUME sid \in Nat, NEW z \in Zones, NEW route \in Routes,
         NEW k \in Int, k > 0
  PROVE  Location(z, k, route) \in Given
  BY DEF Location, Given

\* The first state, and the state that init() leaves.
LEMMA FreshInv ==
  ASSUME zone \in Zones, sid \in Nat, locLast = -1,
         loclast = [z \in Zones |-> -1], newlocs = <<>>,
         reply \in [Beacons -> Given \cup {Nil}],
         held \in [Beacons -> Given \cup {Nil}],
         \A b \in Beacons : \A g \in InHands(b) : g.sid < sid,
         Apart
  PROVE  LocpickInv
<1>1. /\ locLast \in -1 .. locMax
      /\ \A z \in Zones : loclast[z] \in -1 .. locmax(z) - 1
  BY LenType DEF locMax, locmax
<1>2. TypeOK
  <2>1. newlocs \in Seq(Given)
    OBVIOUS
  <2>2. loclast \in [Zones -> Int]
    OBVIOUS
  <2>3. QED BY <1>1, <2>1, <2>2 DEF TypeOK
<1>3. DOMAIN newlocs = {}
  OBVIOUS
<1>4. Recorded /\ HandedOutInOrder /\ NoneSkipped
  BY <1>3 DEF Recorded, HandedOutInOrder, NoneSkipped
<1>5. Complete
  BY DEF Complete, Counter
<1>6. Dated
  BY <1>2, InHandsType DEF Dated, Given
<1>7. QED BY <1>2, <1>4, <1>5, <1>6 DEF LocpickInv

\* The first state.
LEMMA InitInv == Init => LocpickInv
<1> SUFFICES ASSUME Init PROVE LocpickInv
  OBVIOUS
<1>1. \A b \in Beacons : InHands(b) = {}
  BY DEF Init, InHands
<1>2. Apart
  BY <1>1 DEF Apart
<1>3. QED BY <1>1, <1>2, FreshInv, LocpickAssumption DEF Init

----------------------------------------------------------------------------
\* HandedOutInOrder in the next state, of any two entries.
LEMMA InOrderNext ==
  ASSUME ASSUME NEW i \in DOMAIN newlocs', NEW j \in DOMAIN newlocs',
                i < j, SameCounter(newlocs'[i], newlocs'[j])
         PROVE  \/ newlocs'[i].index < newlocs'[j].index
                \/ /\ newlocs'[i].index = newlocs'[j].index
                   /\ IsLast(newlocs'[j])
  PROVE  HandedOutInOrder'
  BY DEF HandedOutInOrder, SameCounter, IsLast

\* The counter of a route and a zone goes to next, and no other one moves.
Moves(route, z, next) ==
  \A r \in Routes, y \in Zones :
     Counter(r, y)' = IF r = route /\ y = z THEN next ELSE Counter(r, y)

\* One location is handed out to b: the next of its counter, or the last
\* one again.
LEMMA IssueInv ==
  ASSUME LocpickInv, NEW b \in Beacons, NEW route \in Routes, NEW z \in Zones,
         NEW next \in Int, reply[b] = Nil,
         next = (IF Counter(route, z) + 1 < Len(Locs[z])
                 THEN Counter(route, z) + 1 ELSE Counter(route, z)),
         newlocs' = Append(newlocs, Location(z, next + 1, route)),
         reply' = [reply EXCEPT ![b] = Location(z, next + 1, route)],
         sid' = sid, held' = held, TypeOK', Moves(route, z, next)
  PROVE  LocpickInv'
<1> DEFINE l == Location(z, next + 1, route)
           last == Counter(route, z)
<1> USE DEF LocpickInv
<1>1. last \in Int /\ last >= -1 /\ last <= Len(Locs[z]) - 1 /\ Len(Locs[z]) \in Nat
      /\ Len(Locs[z]) > 0
  BY CounterType, LenType
<1>2. next >= 0 /\ next >= last /\ (next > last \/ next + 1 = Len(Locs[z]))
      /\ next <= last + 1
  BY <1>1
<1>3. l \in Given /\ l.zone = z /\ l.route = route /\ l.sid = sid
      /\ l.index = next + 1
  BY <1>2 DEF Location, Given, TypeOK
<1>4. newlocs \in Seq(Given) /\ DOMAIN newlocs = 1 .. Len(newlocs)
      /\ Len(newlocs) \in Nat
      /\ DOMAIN newlocs' = 1 .. Len(newlocs) + 1
      /\ newlocs'[Len(newlocs) + 1] = l
      /\ \A i \in DOMAIN newlocs : newlocs'[i] = newlocs[i]
  BY SMTT(20), <1>3 DEF TypeOK
<1>5. ASSUME NEW g \in Given, Within(g) PROVE Within(g)'
  <2>1. Counter(g.route, g.zone)' >= Counter(g.route, g.zone)
        /\ Counter(g.route, g.zone)' \in Int
        /\ Counter(g.route, g.zone) \in Int
    BY SMTT(20), <1>1, <1>2, CounterType DEF Given, Counter, Moves
  <2>2. QED BY <1>5, <2>1 DEF Within, Given, Counter
<1>6. ASSUME NEW g, g = l PROVE Within(g)'
  BY <1>2, <1>3, <1>6 DEF Within, Counter, Moves
\* What the counter gave before is before l, or l is the end of the list.
<1>7. ASSUME NEW g \in Given, Within(g), SameCounter(g, l)
      PROVE  g.index < l.index \/ (g.index = l.index /\ IsLast(l))
  <2>1. g.index \in Nat /\ g.index <= last + 1
    BY <1>3, <1>7 DEF Given, Within, SameCounter
  <2>2. QED BY <1>1, <1>2, <1>3, <2>1 DEF IsLast
<1>8. Recorded'
  <2> SUFFICES ASSUME NEW j \in DOMAIN newlocs', NEW g, g = newlocs'[j]
               PROVE  g.sid = sid /\ Within(g)'
    BY DEF Recorded, Within, Counter
  <2>1. CASE j \in DOMAIN newlocs
    <3>1. g \in Given /\ g.sid = sid /\ Within(g)
      BY <2>1, <1>4 DEF Recorded
    <3>2. QED BY <3>1, <1>5
  <2>2. CASE j = Len(newlocs) + 1
    BY <2>2, <1>3, <1>4, <1>6
  <2>3. QED BY <2>1, <2>2, <1>4
<1>9. Complete'
  <2> SUFFICES ASSUME NEW r \in Routes, NEW y \in Zones,
                      NEW k \in 1 .. Counter(r, y)' + 1
               PROVE  \E i \in DOMAIN newlocs' : newlocs'[i] = Location(y, k, r)
    BY DEF Complete, Location
  <2>1. CASE k \in 1 .. Counter(r, y) + 1
    BY <2>1, <1>4 DEF Complete
  <2>2. CASE k \notin 1 .. Counter(r, y) + 1
    <3>1. r = route /\ y = z /\ k = next + 1
      BY SMTT(20), <2>2, <1>1, <1>2, CounterType DEF Moves
    <3>2. QED BY <3>1, <1>4
  <2>3. QED BY <2>1, <2>2
<1>10. HandedOutInOrder'
  <2> SUFFICES ASSUME NEW i \in DOMAIN newlocs', NEW j \in DOMAIN newlocs',
                      i < j, SameCounter(newlocs'[i], newlocs'[j])
               PROVE  \/ newlocs'[i].index < newlocs'[j].index
                      \/ /\ newlocs'[i].index = newlocs'[j].index
                         /\ IsLast(newlocs'[j])
    BY InOrderNext
  <2>1. CASE j \in DOMAIN newlocs
    <3>1. i \in DOMAIN newlocs
      BY <2>1, <1>4
    <3>2. newlocs'[i] = newlocs[i] /\ newlocs'[j] = newlocs[j]
      BY <2>1, <3>1, <1>4
    <3>3. QED BY <2>1, <3>1, <3>2 DEF HandedOutInOrder
  <2>2. CASE j = Len(newlocs) + 1
    <3>1. i \in DOMAIN newlocs /\ newlocs[i] \in Given
      BY <2>2, <1>4
    <3>2. QED BY <2>2, <3>1, <1>4, <1>7 DEF Recorded
  <2>3. QED BY <2>1, <2>2, <1>4
<1>11. NoneSkipped'
  <2> SUFFICES ASSUME NEW j \in DOMAIN newlocs',
                      NEW k \in 1 .. newlocs'[j].index - 1
               PROVE  \E i \in 1 .. j - 1 :
                         SameCounter(newlocs'[i], newlocs'[j])
                         /\ newlocs'[i].index = k
    BY DEF NoneSkipped, SameCounter
  <2>1. CASE j \in DOMAIN newlocs
    <3>1. PICK i \in 1 .. j - 1 : SameCounter(newlocs[i], newlocs[j])
                                  /\ newlocs[i].index = k
      BY <2>1, <1>4 DEF NoneSkipped
    <3>2. i \in DOMAIN newlocs
      BY <2>1, <1>4
    <3>3. QED BY <2>1, <3>1, <3>2, <1>4
  <2>2. CASE j = Len(newlocs) + 1
    <3>1. k \in 1 .. last + 1
      BY <2>2, <1>1, <1>2, <1>3, <1>4
    <3>2. PICK i \in DOMAIN newlocs : newlocs[i] = Location(z, k, route)
      BY <3>1 DEF Complete
    <3>3. QED BY SMTT(20), <2>2, <3>2, <1>3, <1>4 DEF SameCounter, Location
  <2>3. QED BY <2>1, <2>2, <1>4
<1>12. ASSUME NEW c \in Beacons
       PROVE  /\ c # b => InHands(c)' = InHands(c)
              /\ c = b => InHands(c)' \subseteq InHands(c) \cup {l}
  BY DEF InHands, TypeOK
<1>13. Dated'
  <2> SUFFICES ASSUME NEW c \in Beacons, NEW g \in InHands(c)'
               PROVE  g.sid <= sid /\ (g.sid = sid => Within(g)')
    BY DEF Dated, Within, Counter
  <2>1. CASE g \in InHands(c)
    BY <2>1, <1>5, InHandsType DEF Dated
  <2>2. CASE g = l
    BY <2>2, <1>3, <1>6 DEF TypeOK
  <2>3. QED BY <2>1, <2>2, <1>12
<1>14. Apart'
  <2> SUFFICES ASSUME NEW c \in Beacons, NEW d \in Beacons, c # d,
                      NEW g \in InHands(c)', NEW h \in InHands(d)',
                      SameCounter(g, h)
               PROVE  g.index # h.index \/ IsLast(g)
    BY DEF Apart, SameCounter, IsLast
  <2>1. CASE g \in InHands(c) /\ h \in InHands(d)
    BY <2>1 DEF Apart
  <2>2. ASSUME NEW e \in Beacons, NEW f \in InHands(e), SameCounter(f, l)
        PROVE  f.index # l.index \/ IsLast(l)
    <3>1. f \in Given /\ f.sid = sid /\ Within(f)
      BY <2>2, <1>3, InHandsType DEF SameCounter, Dated
    <3>2. QED BY <2>2, <3>1, <1>3, <1>7 DEF Given
  <2>3. CASE g = l /\ h \in InHands(d)
    BY <2>2, <2>3 DEF SameCounter
  <2>4. CASE g \in InHands(c) /\ h = l
    BY <2>2, <2>4 DEF SameCounter, IsLast
  <2>5. QED BY <2>1, <2>3, <2>4, <1>12
<1>15. QED BY <1>8, <1>9, <1>10, <1>11, <1>13, <1>14

\* PUT /locs.
LEMMA PutLocsInv ==
  ASSUME LocpickInv, NEW b \in Beacons, PutLocs(b)
  PROVE  LocpickInv'
<1>0. TypeOK /\ sid \in Nat
  BY DEF LocpickInv, TypeOK
<1>1. zone \in Zones /\ "default" \in Routes /\ Counter("default", zone) = locLast
  BY <1>0 DEF TypeOK, Routes, Counter
<1>2. locLast \in Int /\ locLast >= -1 /\ locLast <= Len(Locs[zone]) - 1
      /\ Len(Locs[zone]) \in Nat /\ Len(Locs[zone]) > 0
  BY <1>0, <1>1, CounterType, LenType
<1>3. locLast' = (IF locLast + 1 < Len(Locs[zone]) THEN locLast + 1 ELSE locLast)
  BY <1>2 DEF PutLocs, NextLoc, locMax
<1>4. locLast' \in Int /\ locLast' >= 0 /\ locLast' <= Len(Locs[zone]) - 1
  BY <1>2, <1>3
<1>5. /\ newlocs' = Append(newlocs, Location(zone, locLast' + 1, "default"))
      /\ reply' = [reply EXCEPT ![b] = Location(zone, locLast' + 1, "default")]
      /\ reply[b] = Nil
      /\ UNCHANGED <<zone, sid, loclast, held>>
  BY DEF PutLocs, Reply, Location
<1>6. Location(zone, locLast' + 1, "default") \in Given
  BY <1>0, <1>1, <1>4, LocationType
<1>7. TypeOK'
  <2>1. newlocs' \in Seq(Given) /\ reply' \in [Beacons -> Given \cup {Nil}]
    BY <1>0, <1>5, <1>6 DEF TypeOK
  <2>2. locLast' \in -1 .. locMax
    BY <1>2, <1>4 DEF locMax
  <2>3. QED BY <1>0, <1>5, <2>1, <2>2 DEF TypeOK, locMax, locmax
<1>8. Moves("default", zone, locLast')
  BY <1>5 DEF Counter, Routes, Moves
<1>9. locLast' = (IF Counter("default", zone) + 1 < Len(Locs[zone])
                   THEN Counter("default", zone) + 1
                   ELSE Counter("default", zone))
  BY <1>1, <1>3
<1>10. QED BY <1>1, <1>4, <1>5, <1>7, <1>8, <1>9, IssueInv

\* PUT /:zone/locs and the gRPC call loc.
LEMMA TakeLocOfInv ==
  ASSUME LocpickInv, NEW b \in Beacons, NEW z \in Zones, TakeLocOf(b, z)
  PROVE  LocpickInv'
<1>0. TypeOK /\ sid \in Nat
  BY DEF LocpickInv, TypeOK
<1>1. "zone" \in Routes /\ Counter("zone", z) = loclast[z]
  BY DEF Routes, Counter
<1>2. loclast[z] \in Int /\ loclast[z] >= -1 /\ loclast[z] <= Len(Locs[z]) - 1
      /\ Len(Locs[z]) \in Nat /\ Len(Locs[z]) > 0
  BY <1>0, <1>1, CounterType, LenType
<1>3. loclast' = [loclast EXCEPT ![z] = loclast'[z]] /\ loclast'[z] = NextLocOf(z)
  BY <1>0 DEF TakeLocOf, TypeOK
<1>4. loclast'[z] = (IF loclast[z] + 1 < Len(Locs[z])
                    THEN loclast[z] + 1 ELSE loclast[z])
  BY <1>2, <1>3 DEF NextLocOf, locmax
<1>5. loclast'[z] \in Int /\ loclast'[z] >= 0 /\ loclast'[z] <= Len(Locs[z]) - 1
  BY <1>2, <1>4
<1>6. /\ newlocs' = Append(newlocs, Location(z, loclast'[z] + 1, "zone"))
      /\ reply' = [reply EXCEPT ![b] = Location(z, loclast'[z] + 1, "zone")]
      /\ reply[b] = Nil
      /\ UNCHANGED <<zone, sid, locLast, held>>
  BY DEF TakeLocOf, Reply, Location
<1>7. Location(z, loclast'[z] + 1, "zone") \in Given
  BY <1>0, <1>1, <1>5, LocationType
<1>8. TypeOK'
  <2>1. newlocs' \in Seq(Given) /\ reply' \in [Beacons -> Given \cup {Nil}]
    BY <1>0, <1>6, <1>7 DEF TypeOK
  <2>2. loclast' \in [Zones -> Int]
        /\ \A y \in Zones : loclast'[y] \in -1 .. locmax(y) - 1
    BY SMTT(20), <1>0, <1>2, <1>3, <1>5 DEF TypeOK, locmax
  <2>3. QED BY <1>0, <1>6, <2>1, <2>2 DEF TypeOK, locMax, locmax
<1>9. Moves("zone", z, loclast'[z])
  <2>1. loclast \in [Zones -> Int]
    BY <1>0 DEF TypeOK
  <2>2. \A y \in Zones : loclast'[y] = IF y = z THEN loclast'[z] ELSE loclast[y]
    BY <1>3, <2>1
  <2>3. QED BY <1>6, <2>2 DEF Counter, Routes, Moves
<1>10. loclast'[z] = (IF Counter("zone", z) + 1 < Len(Locs[z])
                     THEN Counter("zone", z) + 1 ELSE Counter("zone", z))
  BY <1>1, <1>4
<1>11. sid' = sid /\ held' = held
  BY <1>6
<1>12. QED BY <1>1, <1>5, <1>6, <1>8, <1>9, <1>10, <1>11, IssueInv

----------------------------------------------------------------------------
\* A restart of the counters, under a new sid; replies may get lost.
LEMMA ReInitInv ==
  ASSUME LocpickInv, NEW z \in Zones, ReInit(z), held' = held,
         reply' \in [Beacons -> Given \cup {Nil}],
         \A b \in Beacons : reply'[b] \in {reply[b], Nil}
  PROVE  LocpickInv'
<1> USE DEF LocpickInv
<1>1. zone' = z /\ sid' = sid + 1 /\ locLast' = -1 /\ newlocs' = <<>>
      /\ loclast' = [y \in Zones |-> -1]
  BY DEF ReInit, NextSid
<1>2. \A b \in Beacons : InHands(b)' \subseteq InHands(b)
  BY DEF InHands
<1>3. \A b \in Beacons : \A g \in InHands(b)' : g.sid < sid'
  BY SMTT(20), <1>1, <1>2, InHandsType DEF Dated, Given, TypeOK
<1>4. Apart'
  BY <1>2 DEF Apart, SameCounter, IsLast
<1>5. sid' \in Nat /\ held' \in [Beacons -> Given \cup {Nil}]
  BY <1>1 DEF TypeOK
<1>6. QED
  <2>1. \A y \in Zones : Len(Locs[y]) \in Nat /\ Len(Locs[y]) > 0
    BY LenType
  <2>2. TypeOK'
    <3>1. newlocs' \in Seq(Given)
      BY <1>1
    <3>2. loclast' \in [Zones -> Int]
      BY <1>1
    <3>3. \A y \in Zones : loclast'[y] \in -1 .. locmax(y) - 1
      <4>1. \A y \in Zones : loclast'[y] = -1 /\ 0 <= Len(Locs[y]) - 1
        BY <1>1, <2>1
      <4>2. QED BY <2>1, <4>1 DEF locmax
    <3>4. (locLast \in -1 .. locMax)'
      BY <1>1, <2>1 DEF locMax
    <3>5. QED BY <1>1, <1>5, <3>1, <3>2, <3>3, <3>4 DEF TypeOK, locmax
  <2>3. DOMAIN newlocs' = {}
    BY <1>1
  <2>4. Recorded' /\ HandedOutInOrder' /\ NoneSkipped'
    BY <2>3 DEF Recorded, HandedOutInOrder, NoneSkipped
  <2>5. Complete'
    BY <1>1 DEF Complete, Counter
  <2>6. Dated'
    <3> SUFFICES ASSUME NEW b \in Beacons, NEW g \in InHands(b)'
                 PROVE  g.sid < sid'
      <4>1. ASSUME NEW b \in Beacons, NEW g \in InHands(b)'
            PROVE  g.sid \in Nat
        BY <1>2, InHandsType DEF Given
      <4>2. QED BY <4>1, <1>3, <1>5 DEF Dated
    <3>1. QED BY <1>3
  <2>7. QED BY <1>4, <2>2, <2>4, <2>5, <2>6

\* A step of the beacons and the network only, which may drop locations or
\* pass them from a reply to its receiver.
LEMMA HandsInv ==
  ASSUME LocpickInv, UNCHANGED serverVars,
         reply' \in [Beacons -> Given \cup {Nil}],
         held' \in [Beacons -> Given \cup {Nil}],
         \A b \in Beacons : InHands(b)' \subseteq InHands(b)
  PROVE  LocpickInv'
<1> USE DEF LocpickInv, serverVars
<1>1. TypeOK'
  BY DEF TypeOK, locMax, locmax
<1>2. Recorded' /\ Complete'
  BY DEF Recorded, Complete, Within, Counter, Location
<1>3. HandedOutInOrder' /\ NoneSkipped'
  BY DEF HandedOutInOrder, NoneSkipped, SameCounter, IsLast
<1>4. Dated'
  BY DEF Dated, Within, Counter
<1>5. Apart'
  BY DEF Apart, SameCounter, IsLast
<1>6. QED BY <1>1, <1>2, <1>3, <1>4, <1>5

\* Every step keeps the invariant.
LEMMA NextInv == LocpickInv /\ [Next]_vars => LocpickInv'
<1> SUFFICES ASSUME LocpickInv, [Next]_vars PROVE LocpickInv'
  OBVIOUS
<1> USE DEF LocpickInv
<1>1. ASSUME NEW b \in Beacons, PutLocs(b) PROVE LocpickInv'
  BY <1>1, PutLocsInv
<1>2. ASSUME NEW b \in Beacons, NEW z \in Zones,
             PutZoneLocs(b, z) \/ GetLoc(b, z)
      PROVE  LocpickInv'
  BY <1>2, TakeLocOfInv DEF PutZoneLocs, GetLoc
<1>3. ASSUME NEW b \in Beacons, Deliver(b) PROVE LocpickInv'
  <2>1. reply' \in [Beacons -> Given \cup {Nil}]
        /\ held' \in [Beacons -> Given \cup {Nil}]
    BY <1>3 DEF Deliver, TypeOK
  <2>2. \A c \in Beacons : InHands(c)' \subseteq InHands(c)
    BY <1>3 DEF Deliver, InHands, TypeOK
  <2>3. QED BY <1>3, <2>1, <2>2, HandsInv DEF Deliver
<1>4. ASSUME NEW b \in Beacons, Lose(b) \/ BeaconRestarts(b)
      PROVE  LocpickInv'
  <2>1. reply' \in [Beacons -> Given \cup {Nil}]
        /\ held' \in [Beacons -> Given \cup {Nil}]
    BY <1>4 DEF Lose, BeaconRestarts, TypeOK
  <2>2. \A c \in Beacons : InHands(c)' \subseteq InHands(c)
    BY <1>4 DEF Lose, BeaconRestarts, InHands, TypeOK
  <2>3. QED BY <1>4, <2>1, <2>2, HandsInv DEF Lose, BeaconRestarts
<1>5. ASSUME NEW z \in Zones, Reset(z) PROVE LocpickInv'
  BY <1>5, ReInitInv DEF Reset, TypeOK
<1>6. CASE Restart
  <2>1. ReInit(StartZone) /\ held' = held /\ StartZone \in Zones
    BY <1>6, LocpickAssumption DEF Restart
  <2>2. reply' \in [Beacons -> Given \cup {Nil}]
        /\ \A b \in Beacons : reply'[b] \in {reply[b], Nil}
    BY <1>6 DEF Restart, TypeOK
  <2>3. QED BY <2>1, <2>2, ReInitInv
<1>7. CASE UNCHANGED vars
  BY <1>7, HandsInv DEF vars, InHands, TypeOK
<1>8. QED BY <1>1, <1>2, <1>3, <1>4, <1>5, <1>6, <1>7 DEF Next

(***************************************************************************)
(* The inductive invariant: besides the types and the two invariants of the*)
(* log, each counter is at the last entry it made, what is held or on its way*)
(* is an entry of the log, and no two holders have the same entry.         *)
(***************************************************************************)
THEOREM LocpickInvariant == Spec => []LocpickInv
<1>1. QED BY InitInv, NextInv, PTL DEF Spec

----------------------------------------------------------------------------
(***************************************************************************)
(* The two counters stay on the list of their zone.                        *)
(***************************************************************************)
THEOREM LocpickTypeCorrect == Spec => []TypeOK
<1>1. LocpickInv => TypeOK
  BY DEF LocpickInv
<1>2. QED BY <1>1, LocpickInvariant, PTL

(***************************************************************************)
(* A counter gives locations in order, and only its last one repeatedly.   *)
(***************************************************************************)
THEOREM HandedOutInOrderHolds == Spec => []HandedOutInOrder
<1>1. LocpickInv => HandedOutInOrder
  BY DEF LocpickInv
<1>2. QED BY <1>1, LocpickInvariant, PTL

(***************************************************************************)
(* A counter gives every location of its zone before a later one.          *)
(***************************************************************************)
THEOREM NoneSkippedHolds == Spec => []NoneSkipped
<1>1. LocpickInv => NoneSkipped
  BY DEF LocpickInv
<1>2. QED BY <1>1, LocpickInvariant, PTL

(***************************************************************************)
(* Beacons served by one counter under one sid are at different places, or *)
(* at the end of the list.                                                 *)
(***************************************************************************)
THEOREM HoldersDistinctHolds == Spec => []HoldersDistinct
<1>1. LocpickInv => HoldersDistinct
  BY DEF LocpickInv, HoldersDistinct, Apart, InHands
<1>2. QED BY <1>1, LocpickInvariant, PTL
=============================================================================
