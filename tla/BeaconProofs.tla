---------------------------- MODULE BeaconProofs ----------------------------
(***************************************************************************)
(* Proofs about Beacon, for any pods, environments, zones and bounds.      *)
(* Every step of the beacons and of locpick is a step of Locpick or leaves *)
(* it alone, so that what LocpickProofs shows of a locpick with arbitrary  *)
(* clients holds of these ones.  One step needs an invariant for it: a pod *)
(* that ends drops its reply and its location at once, and Locpick has no  *)
(* such step; but no pod ever has both.                                    *)
(***************************************************************************)
EXTENDS Beacon, LocpickProofs

\* What a pod has been told goes with where its init() is.
PodInv(b) ==
  /\ reply[b] # Nil => stage[b] = "loc" /\ reply[b].zone = ZoneOf(b)
  /\ held[b] # Nil => stage[b] = "ready" /\ held[b].zone = ZoneOf(b)
  /\ beaconSid[b] # 0 => stage[b] = "ready"
  /\ stage[b] = "ready" => beaconSid[b] # 0
  /\ stage[b] \in {"loc", "ready"} => serves[b]
  /\ stage[b] = "ready" /\ AsksLocpick(b) => held[b] # Nil

\* locpick lists every location of its sid that somebody has been told.
Listed ==
  \A b \in Beacons : \A g \in InHands(b) :
     g.sid = sid => \E i \in DOMAIN newlocs : newlocs[i] = g

BeaconInv ==
  /\ BeaconTypeOK
  /\ LocpickInv
  /\ Listed
  /\ \A b \in Pods : PodInv(b)

----------------------------------------------------------------------------
\* Every step is one of Locpick's.
LEMMA StepImplements ==
  ASSUME BeaconInv, BeaconNext
  PROVE  [Next]_vars
<1> USE BeaconAssumption
<1>1. ASSUME NEW b \in Pods, Start(b) \/ HttpInfo(b) \/ GrpcInfo(b) \/ TlsInfo(b)
      PROVE  UNCHANGED vars
  BY <1>1 DEF Start, HttpInfo, GrpcInfo, TlsInfo
<1>2. ASSUME NEW b \in Pods, ServeLoc(b)
      PROVE  Next
  BY <1>2 DEF ServeLoc, PutZoneLocs, GetLoc, Next
<1>3. ASSUME NEW b \in Pods, GotLoc(b)
      PROVE  Next
  BY <1>3 DEF GotLoc, Next
<1>4. ASSUME NEW b \in Pods, Exit(b)
      PROVE  [Next]_vars
  <2>1. PodInv(b) /\ b \in Beacons
    BY DEF BeaconInv
  <2>2. reply \in [Beacons -> Given \cup {Nil}] /\ held \in [Beacons -> Given \cup {Nil}]
    BY DEF BeaconInv, LocpickInv, TypeOK
  <2>3. /\ reply' = [reply EXCEPT ![b] = Nil] /\ held' = [held EXCEPT ![b] = Nil]
        /\ UNCHANGED serverVars
    BY <1>4 DEF Exit
  <2>4. CASE reply[b] # Nil
    <3>1. held[b] = Nil
      BY <2>1, <2>4 DEF PodInv
    <3>2. held' = held
      BY <2>2, <2>3, <3>1
    <3>3. Lose(b)
      BY <2>3, <2>4, <3>2 DEF Lose
    <3>4. QED BY <2>1, <3>3 DEF Next
  <2>5. CASE reply[b] = Nil /\ held[b] # Nil
    <3>1. reply' = reply
      BY <2>2, <2>3, <2>5
    <3>2. BeaconRestarts(b)
      BY <2>3, <2>5, <3>1 DEF BeaconRestarts
    <3>3. QED BY <2>1, <3>2 DEF Next
  <2>6. CASE reply[b] = Nil /\ held[b] = Nil
    <3>1. reply' = reply /\ held' = held
      BY <2>2, <2>3, <2>6
    <3>2. QED BY <2>3, <3>1 DEF vars
  <2>7. QED BY <2>4, <2>5, <2>6
<1>5. ASSUME NEW c \in Beacons \ Pods, UseHttp(c)
      PROVE  Next
  BY <1>5 DEF UseHttp, Next
<1>6. ASSUME NEW z \in Zones, ResetLocpick(z)
      PROVE  Next
  BY <1>6 DEF ResetLocpick, Next
<1>7. ASSUME LocpickRestarts \/ \E b \in Pods : KillLocpick(b)
      PROVE  Next
  BY <1>7 DEF KillLocpick, LocpickRestarts, Next
<1>8. QED
  BY <1>1, <1>2, <1>3, <1>4, <1>5, <1>6, <1>7 DEF BeaconNext, Answered

----------------------------------------------------------------------------
\* A location of the current sid stays on locpick's list.
LEMMA ListedNext ==
  ASSUME LocpickInv, Listed, [Next]_vars
  PROVE  Listed'
<1> SUFFICES ASSUME NEW c \in Beacons, NEW g \in InHands(c)', g.sid = sid'
             PROVE  \E i \in DOMAIN newlocs' : newlocs'[i] = g
  BY DEF Listed
<1> USE DEF InHands
<1>0. TypeOK
  BY DEF LocpickInv
<1>1. CASE UNCHANGED vars
  BY <1>1 DEF vars, serverVars, Listed
<1>2. ASSUME NEW b \in Beacons, NEW z, NEW i, NEW route, Reply(b, z, i, route),
             sid' = sid, held' = held
      PROVE  \E k \in DOMAIN newlocs' : newlocs'[k] = g
  <2> DEFINE l == [zone |-> z, index |-> i + 1, route |-> route, sid |-> sid]
  <2>1. newlocs' = Append(newlocs, l) /\ reply' = [reply EXCEPT ![b] = l]
    BY <1>2 DEF Reply
  <2>2. newlocs \in Seq(Given) /\ reply \in [Beacons -> Given \cup {Nil}]
    BY <1>0 DEF TypeOK
  <2>3. /\ Len(newlocs) + 1 \in DOMAIN newlocs' /\ newlocs'[Len(newlocs) + 1] = l
        /\ \A k \in DOMAIN newlocs : k \in DOMAIN newlocs' /\ newlocs'[k] = newlocs[k]
    BY <2>1, <2>2
  <2>4. g = l \/ g \in InHands(c)
    BY <1>2, <2>1, <2>2
  <2>5. QED BY <1>2, <2>3, <2>4 DEF Listed
<1>3. ASSUME NEW z, ReInit(z), \A b \in Beacons : InHands(b)' \subseteq InHands(b)
      PROVE  FALSE
  <2>1. g \in InHands(c) /\ sid' = sid + 1
    BY <1>3 DEF ReInit, NextSid
  <2>2. g.sid <= sid /\ g.sid \in Nat /\ sid \in Nat
    BY <1>0, <2>1, InHandsType DEF LocpickInv, Dated, TypeOK, Given
  <2>3. QED BY <2>1, <2>2
<1>4. ASSUME UNCHANGED serverVars, InHands(c)' \subseteq InHands(c)
      PROVE  \E k \in DOMAIN newlocs' : newlocs'[k] = g
  BY <1>4 DEF serverVars, Listed
<1>5. ASSUME NEW b \in Beacons, PutLocs(b)
      PROVE  \E k \in DOMAIN newlocs' : newlocs'[k] = g
  BY <1>2, <1>5 DEF PutLocs
<1>6. ASSUME NEW b \in Beacons, NEW z \in Zones, PutZoneLocs(b, z) \/ GetLoc(b, z)
      PROVE  \E k \in DOMAIN newlocs' : newlocs'[k] = g
  BY <1>2, <1>6 DEF PutZoneLocs, GetLoc, TakeLocOf
<1>7. ASSUME NEW b \in Beacons, Deliver(b) \/ Lose(b) \/ BeaconRestarts(b)
      PROVE  \E k \in DOMAIN newlocs' : newlocs'[k] = g
  <2>1. reply \in [Beacons -> Given \cup {Nil}] /\ held \in [Beacons -> Given \cup {Nil}]
    BY <1>0 DEF TypeOK
  <2>2. InHands(c)' \subseteq InHands(c)
    BY <1>7, <2>1 DEF Deliver, Lose, BeaconRestarts
  <2>3. QED BY <1>4, <1>7, <2>2 DEF Deliver, Lose, BeaconRestarts
<1>8. ASSUME NEW z \in Zones, Reset(z)
      PROVE  FALSE
  BY <1>3, <1>8 DEF Reset
<1>9. ASSUME Restart
      PROVE  FALSE
  <2>1. \A b \in Beacons : InHands(b)' \subseteq InHands(b)
    BY <1>9 DEF Restart
  <2>2. QED BY <1>3, <1>9, <2>1 DEF Restart
<1>10. QED BY <1>1, <1>5, <1>6, <1>7, <1>8, <1>9 DEF Next

----------------------------------------------------------------------------
\* A pod the step leaves alone.
LEMMA PodSame ==
  ASSUME NEW b \in Pods, PodInv(b), env' = env,
         stage'[b] = stage[b], beaconSid'[b] = beaconSid[b],
         serves'[b] = serves[b], reply'[b] = reply[b], held'[b] = held[b]
  PROVE  PodInv(b)'
BY DEF PodInv, ZoneOf, AsksLocpick, Or

\* The pods in the first state.
LEMMA PodsInit ==
  ASSUME BeaconInit
  PROVE  BeaconInv
<1>1. LocpickInv
  BY InitInv DEF BeaconInit
<1>2. BeaconTypeOK
  BY <1>1, BeaconAssumption
  DEF BeaconInit, BeaconTypeOK, LocpickInv, LocpickServers, Servers, Stages
<1>3. Listed
  BY DEF BeaconInit, Init, Listed, InHands
<1>4. \A b \in Pods : PodInv(b)
  BY BeaconAssumption DEF BeaconInit, Init, PodInv
<1>5. QED BY <1>1, <1>2, <1>3, <1>4 DEF BeaconInv

\* Every variable of Beacon keeps its type.
LEMMA BeaconTypeNext ==
  ASSUME BeaconTypeOK, TypeOK', [BeaconNext]_beaconVars
  PROVE  BeaconTypeOK'
<1> USE DEF BeaconTypeOK
<1>1. CASE UNCHANGED beaconVars
  BY <1>1 DEF beaconVars, podVars
<1>2. ASSUME NEW b \in Pods, Start(b) \/ HttpInfo(b) \/ GrpcInfo(b) \/ TlsInfo(b) \/ GotLoc(b)
      PROVE  BeaconTypeOK'
  <2>1. stage' \in [Pods -> Stages]
    BY <1>2 DEF Start, HttpInfo, GrpcInfo, TlsInfo, GotLoc, Serve, At, Stages, Servers
  <2>2. beaconSid' \in [Pods -> Nat]
    BY <1>2 DEF Start, HttpInfo, GrpcInfo, TlsInfo, GotLoc, DrawSid
  <2>3. serves' \in [Pods -> BOOLEAN]
    BY <1>2 DEF Start, HttpInfo, GrpcInfo, TlsInfo, GotLoc, Serve
  <2>4. UNCHANGED <<env, exits, listens>>
    BY <1>2 DEF Start, HttpInfo, GrpcInfo, TlsInfo, GotLoc
  <2>5. QED BY <2>1, <2>2, <2>3, <2>4
<1>3. ASSUME NEW b \in Pods, Exit(b)
      PROVE  BeaconTypeOK'
  BY <1>3 DEF Exit, At, Stages
<1>4. ASSUME UNCHANGED <<podVars, listens>>
      PROVE  BeaconTypeOK'
  BY <1>4 DEF podVars
<1>5. ASSUME LocpickRestarts
      PROVE  BeaconTypeOK'
  <2>1. stage' \in [Pods -> Stages]
    BY <1>5 DEF LocpickRestarts, Stages
  <2>2. listens' \subseteq Servers
    BY <1>5 DEF LocpickRestarts, LocpickServers, Servers
  <2>3. QED BY <1>5, <2>1, <2>2 DEF LocpickRestarts
<1>6. QED
  BY <1>1, <1>2, <1>3, <1>4, <1>5
  DEF BeaconNext, Answered, ServeLoc, KillLocpick, UseHttp, ResetLocpick

\* What pods are told goes on going with where they are.
LEMMA PodsNext ==
  ASSUME BeaconInv, [BeaconNext]_beaconVars, NEW b \in Pods
  PROVE  PodInv(b)'
<1> USE BeaconAssumption DEF BeaconInv, BeaconTypeOK
<1>0. /\ PodInv(b) /\ b \in Beacons /\ stage[b] \in Stages /\ exits[b] \in Nat
      /\ reply \in [Beacons -> Given \cup {Nil}] /\ held \in [Beacons -> Given \cup {Nil}]
  BY DEF LocpickInv, TypeOK
<1>1. CASE UNCHANGED beaconVars
  BY <1>0, <1>1, PodSame DEF beaconVars, podVars, vars
\* A step of another pod, or of this one.
<1>2. ASSUME NEW c \in Pods \ {b},
             Start(c) \/ HttpInfo(c) \/ GrpcInfo(c) \/ TlsInfo(c) \/ ServeLoc(c)
               \/ GotLoc(c) \/ Exit(c)
      PROVE  PodInv(b)'
  <2>1. env' = env /\ stage'[b] = stage[b]
    BY <1>2 DEF Start, HttpInfo, GrpcInfo, TlsInfo, ServeLoc, GotLoc, Exit, Serve, At, podVars
  <2>2. beaconSid'[b] = beaconSid[b]
    BY <1>2 DEF Start, HttpInfo, GrpcInfo, TlsInfo, ServeLoc, GotLoc, Exit, DrawSid, podVars
  <2>3. serves'[b] = serves[b]
    BY <1>2 DEF Start, HttpInfo, GrpcInfo, TlsInfo, ServeLoc, GotLoc, Exit, Serve, podVars
  <2>4. reply'[b] = reply[b] /\ held'[b] = held[b]
    BY <1>0, <1>2 DEF Start, HttpInfo, GrpcInfo, TlsInfo, ServeLoc, GetLoc, TakeLocOf, Reply,
                      GotLoc, Deliver, Exit, vars
  <2>5. QED BY <1>0, <2>1, <2>2, <2>3, <2>4, PodSame
<1>3. CASE Start(b) \/ HttpInfo(b)
  <2>1. /\ stage[b] \in {"down", "http"} /\ stage'[b] \in {"failed", "http", "grpc"}
        /\ UNCHANGED <<reply, held, env, beaconSid, serves>>
    BY <1>3 DEF Start, HttpInfo, At, vars
  <2>2. QED BY <1>0, <2>1 DEF PodInv
<1>4. CASE GrpcInfo(b) \/ TlsInfo(b)
  <2>1. /\ stage[b] \in {"grpc", "tls"} /\ DrawSid(b)
        /\ UNCHANGED <<reply, held, env>>
    BY <1>4 DEF GrpcInfo, TlsInfo, vars
  <2>2. reply[b] = Nil /\ held[b] = Nil /\ beaconSid[b] = 0
    BY <1>0, <2>1 DEF PodInv
  <2>3. CASE stage'[b] = "tls"
    BY <2>1, <2>2, <2>3 DEF PodInv, DrawSid
  <2>4. CASE Serve(b)
    <3>1. serves'[b] = TRUE /\ stage'[b] = IF AsksLocpick(b) THEN "loc" ELSE "ready"
      BY <2>4 DEF Serve, At
    <3>2. stage'[b] = "ready" => beaconSid'[b] # 0
      BY <1>0, <2>1 DEF DrawSid
    <3>3. stage'[b] # "ready" => beaconSid'[b] = 0
      BY <2>1, <2>2 DEF DrawSid
    <3>4. AsksLocpick(b)' = AsksLocpick(b)
      BY <2>1 DEF AsksLocpick
    <3>5. QED BY <2>1, <2>2, <3>1, <3>2, <3>3, <3>4 DEF PodInv
  <2>5. QED BY <1>4, <2>3, <2>4 DEF GrpcInfo, TlsInfo, At
<1>5. CASE ServeLoc(b)
  <2> DEFINE z == ZoneOf(b)
             l == [zone |-> z, index |-> loclast'[z] + 1, route |-> "zone", sid |-> sid]
  <2>1. reply' = [reply EXCEPT ![b] = l] /\ l.zone = ZoneOf(b)
    BY <1>5 DEF ServeLoc, GetLoc, TakeLocOf, Reply
  <2>2. stage[b] = "loc" /\ held' = held /\ UNCHANGED podVars
    BY <1>5 DEF ServeLoc, GetLoc, TakeLocOf
  <2>3. reply'[b].zone = ZoneOf(b)
    BY <1>0, <2>1
  <2>4. QED BY <1>0, <2>2, <2>3 DEF PodInv, podVars, ZoneOf, AsksLocpick, Or
<1>6. CASE GotLoc(b)
  <2>1. /\ stage[b] = "loc" /\ stage'[b] = "ready" /\ reply[b] # Nil
        /\ reply'[b] = Nil /\ held'[b] = reply[b] /\ UNCHANGED <<env, serves>>
    BY <1>0, <1>6 DEF GotLoc, Deliver, At
  <2>2. beaconSid'[b] # 0
    BY <1>0, <1>6, <2>1 DEF GotLoc, DrawSid
  <2>3. QED BY <1>0, <2>1, <2>2 DEF PodInv, ZoneOf, AsksLocpick, Or
<1>7. CASE Exit(b)
  <2>1. stage'[b] = "down" /\ beaconSid'[b] = 0 /\ reply'[b] = Nil /\ held'[b] = Nil
    BY <1>0, <1>7 DEF Exit, At
  <2>2. QED BY <2>1 DEF PodInv
<1>8. CASE LocpickRestarts
  <2>1. /\ UNCHANGED <<env, beaconSid, serves, held>> /\ reply'[b] \in {reply[b], Nil}
        /\ stage'[b] = IF stage[b] = "loc" /\ reply'[b] = Nil THEN "failed" ELSE stage[b]
    BY <1>0, <1>8 DEF LocpickRestarts, Restart
  <2>2. QED BY <1>0, <2>1 DEF PodInv, ZoneOf, AsksLocpick, Or
<1>9. ASSUME NEW c \in Beacons \ Pods, UseHttp(c)
      PROVE  PodInv(b)'
  <2>1. reply'[b] = reply[b] /\ held' = held /\ UNCHANGED podVars
    BY <1>0, <1>9 DEF UseHttp, PutLocs, PutZoneLocs, TakeLocOf, Reply, Lose
  <2>2. QED BY <1>0, <2>1, PodSame DEF podVars
<1>10. ASSUME NEW z \in Zones, ResetLocpick(z)
       PROVE  PodInv(b)'
  <2>1. UNCHANGED <<reply, held, podVars>>
    BY <1>10 DEF ResetLocpick, Reset
  <2>2. QED BY <1>0, <2>1, PodSame DEF podVars
<1>11. QED
  BY <1>1, <1>2, <1>3, <1>4, <1>5, <1>6, <1>7, <1>8, <1>9, <1>10
  DEF BeaconNext, Answered, KillLocpick

\* Every step of Beacon is one of Locpick or leaves it alone.
LEMMA StepOfLocpick ==
  ASSUME BeaconInv, [BeaconNext]_beaconVars
  PROVE  [Next]_vars
<1>1. UNCHANGED beaconVars => UNCHANGED vars
  BY DEF beaconVars
<1>2. QED BY <1>1, StepImplements

(***************************************************************************)
(* The inductive invariant of beacons and locpick together.                *)
(***************************************************************************)
THEOREM BeaconInvariant == BeaconSpec => []BeaconInv
<1>1. BeaconInit => BeaconInv
  BY PodsInit
<1>2. ASSUME BeaconInv, [BeaconNext]_beaconVars
      PROVE  BeaconInv'
  <2>1. LocpickInv /\ Listed /\ BeaconTypeOK /\ [Next]_vars
    BY <1>2, StepOfLocpick DEF BeaconInv
  <2>2. LocpickInv' /\ Listed'
    BY <2>1, NextInv, ListedNext
  <2>3. BeaconTypeOK'
    BY <1>2, <2>1, <2>2, BeaconTypeNext DEF LocpickInv
  <2>4. \A b \in Pods : PodInv(b)'
    BY <1>2, PodsNext
  <2>5. QED BY <2>2, <2>3, <2>4 DEF BeaconInv
<1>3. QED BY <1>1, <1>2, PTL DEF BeaconSpec

(***************************************************************************)
(* Every variable of the composition has values of its kind, whatever      *)
(* environments the beacons are given.                                     *)
(***************************************************************************)
THEOREM BeaconTypeCorrect == BeaconSpec => []BeaconTypeOK
<1>1. BeaconInv => BeaconTypeOK
  BY DEF BeaconInv
<1>2. QED BY <1>1, BeaconInvariant, PTL

(***************************************************************************)
(* Refinement: the beacons of beacon.js and the users of the HTTP API are  *)
(* clients as Locpick has them, also when they end in the middle of a call *)
(* or kill locpick with theirs.                                            *)
(***************************************************************************)
THEOREM BeaconImplementsLocpick == BeaconSpec => Spec
<1>1. BeaconInit => Init
  BY DEF BeaconInit
<1>2. BeaconInv /\ [BeaconNext]_beaconVars => [Next]_vars
  BY StepOfLocpick
<1>3. QED BY <1>1, <1>2, BeaconInvariant, PTL DEF BeaconSpec, Spec

(***************************************************************************)
(* No two beacons are told the same location by one counter of one sid     *)
(* (locpick.js:346-353, 411-420), now for the beacons as they are.         *)
(***************************************************************************)
THEOREM BeaconsApart == BeaconSpec => []HoldersDistinct
BY BeaconImplementsLocpick, HoldersDistinctHolds, PTL

(***************************************************************************)
(* A sid is shown only with a location of the beacon's zone that locpick   *)
(* lists (beacon.js: init() draws it last).                                *)
(***************************************************************************)
THEOREM SidMeansLocatedHolds == BeaconSpec => []SidMeansLocated
<1>1. ASSUME BeaconInv
      PROVE  SidMeansLocated
  <2> SUFFICES ASSUME NEW b \in Pods
               PROVE  /\ stage[b] = "ready" => beaconSid[b] # 0
                      /\ beaconSid[b] # 0 =>
                           /\ serves[b]
                           /\ AsksLocpick(b) =>
                                /\ held[b] # Nil
                                /\ held[b].zone = ZoneOf(b)
                                /\ held[b].sid = sid =>
                                     \E i \in DOMAIN newlocs : newlocs[i] = held[b]
    BY DEF SidMeansLocated
  <2>1. PodInv(b) /\ b \in Beacons
    BY <1>1, BeaconAssumption DEF BeaconInv
  <2>2. held[b] # Nil => held[b] \in InHands(b)
    BY DEF InHands
  <2>3. QED BY <1>1, <2>1, <2>2 DEF BeaconInv, PodInv, Listed
<1>2. QED BY <1>1, BeaconInvariant, PTL
=============================================================================
