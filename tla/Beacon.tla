------------------------------- MODULE Beacon -------------------------------
(***************************************************************************)
(* The beacons' start (beacon.js) against locpick.                         *)
(*                                                                         *)
(* init() reads the environment, asks locpick for its info over HTTP, over *)
(* gRPC and, with --tls, over gRPC with TLS, starts its own servers, asks  *)
(* for a location and only then draws its sid.  Any error ends the process *)
(* with exit(1), and the container is started again.                       *)
(*                                                                         *)
(* locpick starts its HTTP server before it reads the keys of the other    *)
(* two: without them it goes on with HTTP alone.  A request for a zone     *)
(* that is not configured kills it.                                        *)
(***************************************************************************)
EXTENDS Locpick

CONSTANTS Pods,        \* the beacons; the other members of Beacons are users
                       \* of the HTTP API
          Environment, \* environments and options
          Settings,    \* the environments pods may be given together
          Unset,       \* a variable that is not set
          LocpickEnv,  \* the environment of locpick
          MaxUses,     \* users take locations only from the first of newlocs
          MaxExits     \* bound on the deaths of each pod

ASSUME BeaconAssumption ==
  /\ Pods \subseteq Beacons
  /\ Settings \subseteq [Pods -> Environment]
  /\ MaxUses \in Nat /\ MaxExits \in Nat
  /\ \A e \in Environment : e.grpc \in BOOLEAN /\ e.tls \in BOOLEAN

VARIABLES env,       \* the environment and options of each pod
          stage,     \* the call each pod's init() waits for
          beaconSid, \* gl.sid of each pod, 0 while it is undefined
          serves,    \* whether a pod's own servers are up
          exits,     \* the times each pod has ended
          listens    \* the servers of locpick that are up

podVars    == <<env, stage, beaconSid, serves, exits>>
beaconVars == <<vars, podVars, listens>>

Servers == {"http", "grpc", "tls"}
Stages  == Servers \cup {"down", "loc", "failed", "ready"}

BeaconTypeOK ==
  /\ TypeOK
  /\ env \in [Pods -> Environment]
  /\ stage \in [Pods -> Stages]
  /\ beaconSid \in [Pods -> Nat]
  /\ serves \in [Pods -> BOOLEAN]
  /\ exits \in [Pods -> Nat]
  /\ listens \subseteq Servers

----------------------------------------------------------------------------
(***************************************************************************)
(* Environments.  Both programs put an endpoint together in the same way.  *)
(***************************************************************************)
Or(value, default) == IF value = Unset THEN default ELSE value

EndpointOf(e, server) ==
  CASE server = "http" -> <<Or(e.httpHost, "localhost"), Or(e.httpPort, 8080)>>
    [] server = "grpc" -> <<Or(e.grpcHost, "localhost"), Or(e.grpcPort, 8085)>>
    [] server = "tls"  -> <<Or(e.grpcHost, "localhost"), Or(e.tlsPort, 8090)>>

\* gl.zone
ZoneOf(b) == Or(env[b].zone, "nozone")

\* The line that would report the default of LOCPICK_GRPC_HOST reads
\* gl.gl.locpickGrpcHost, and with --tls the keys are read at once.
InitThrows(b) == env[b].grpcHost = Unset \/ (env[b].tls /\ ~env[b].keys)

\* locpick listens where its own environment says.
Listener(server) == EndpointOf(LocpickEnv, server)

Answers(b, server) ==
  server \in listens /\ EndpointOf(env[b], server) = Listener(server)

\* Without both options getLoc() resolves to a fixed location at once.
AsksLocpick(b) == env[b].grpc /\ env[b].tls

\* initServers() of locpick: the keys are read before the gRPC server starts,
\* and main() only logs that they cannot be.
LocpickServers(keys) == IF keys THEN Servers ELSE {"http"}

BeaconInit ==
  /\ Init
  /\ env \in Settings
  /\ stage = [b \in Pods |-> "down"]
  /\ beaconSid = [b \in Pods |-> 0]
  /\ serves = [b \in Pods |-> FALSE]
  /\ exits = [b \in Pods |-> 0]
  /\ \E keys \in BOOLEAN : listens = LocpickServers(keys)

----------------------------------------------------------------------------
(***************************************************************************)
(* A beacon.                                                               *)
(***************************************************************************)
At(b, s) == stage' = [stage EXCEPT ![b] = s]

\* initEnv(), initOps(), initLocpick() and the first call.
Start(b) ==
  /\ stage[b] = "down"
  /\ At(b, IF InitThrows(b) THEN "failed" ELSE "http")
  /\ UNCHANGED <<vars, env, beaconSid, serves, exits, listens>>

\* Variant with a fault: the sid is drawn before the location is there.
SidTooEarly(b) == beaconSid' = [beaconSid EXCEPT ![b] = exits[b] + 1]

\* gl.sid is drawn at the end of init(): it is random, and the number of
\* the run stands for it.
DrawSid(b) ==
  IF stage'[b] = "ready" THEN beaconSid' = [beaconSid EXCEPT ![b] = exits[b] + 1]
  ELSE UNCHANGED beaconSid

\* The last info is answered: the servers start, and the location is asked
\* for in the same turn of the event loop.
Serve(b) ==
  /\ serves' = [serves EXCEPT ![b] = TRUE]
  /\ At(b, IF AsksLocpick(b) THEN "loc" ELSE "ready")

HttpInfo(b) ==
  /\ stage[b] = "http" /\ Answers(b, "http")
  /\ At(b, "grpc")
  /\ UNCHANGED <<vars, env, beaconSid, serves, exits, listens>>

GrpcInfo(b) ==
  /\ stage[b] = "grpc" /\ Answers(b, "grpc")
  /\ IF env[b].tls THEN At(b, "tls") /\ UNCHANGED serves ELSE Serve(b)
  /\ DrawSid(b)
  /\ UNCHANGED <<vars, env, exits, listens>>

TlsInfo(b) ==
  /\ stage[b] = "tls" /\ Answers(b, "tls")
  /\ Serve(b)
  /\ DrawSid(b)
  /\ UNCHANGED <<vars, env, exits, listens>>

\* The location is there, and init() ends: the beacon shows its sid from now
\* on.  It only logs the location, and signals gl.signal.loc, which it takes
\* from the info of the last call: held, what it was told, is a history
\* variable of this model.
GotLoc(b) ==
  /\ stage[b] = "loc"
  /\ Deliver(b)
  /\ At(b, "ready")
  /\ DrawSid(b)
  /\ UNCHANGED <<env, serves, exits, listens>>

\* Variant with a fault: main() catches the error and does not exit.
NeverExits(b) == FALSE

\* An error in init() exits.  (The deaths of a beacon whose init() always
\* throws are bounded like those that just happen.)
MustExit(b) == stage[b] = "failed" /\ ~InitThrows(b)

\* process.exit(1) after a failed call, or the end of the pod at any time;
\* the reply to its call is lost.  A call that cannot be answered fails.
Exit(b) ==
  /\ stage[b] # "down"
  /\ exits[b] < MaxExits \/ MustExit(b)
  /\ At(b, "down")
  /\ exits' = [exits EXCEPT ![b] = @ + 1]
  /\ beaconSid' = [beaconSid EXCEPT ![b] = 0]
  /\ serves' = [serves EXCEPT ![b] = FALSE]
  /\ reply' = [reply EXCEPT ![b] = Nil]
  /\ held' = [held EXCEPT ![b] = Nil]
  /\ UNCHANGED <<serverVars, env, listens>>

----------------------------------------------------------------------------
(***************************************************************************)
(* locpick.                                                                *)
(***************************************************************************)

\* grpcLoc, on the TLS server only.
ServeLoc(b) ==
  /\ stage[b] = "loc"
  /\ ZoneOf(b) \in Zones /\ Answers(b, "tls")
  /\ GetLoc(b, ZoneOf(b))
  /\ UNCHANGED <<podVars, listens>>

\* locpick ends and is started again: the calls that had no reply fail.
LocpickRestarts ==
  /\ Restart
  /\ stage' = [b \in Pods |->
                 IF stage[b] = "loc" /\ reply'[b] = Nil THEN "failed" ELSE stage[b]]
  /\ \E keys \in BOOLEAN : listens' = LocpickServers(keys)
  /\ UNCHANGED <<env, beaconSid, serves, exits>>

\* A zone that is not in the list: locs[undefined].name throws in getLoc()
\* and nothing catches it.
KillLocpick(b) ==
  /\ stage[b] = "loc"
  /\ ZoneOf(b) \notin Zones /\ Answers(b, "tls")
  /\ LocpickRestarts

\* Users of the HTTP API, who do not keep what they are told.
UseHttp(c) ==
  /\ \/ /\ Len(newlocs) < MaxUses
        /\ PutLocs(c) \/ \E z \in Zones : PutZoneLocs(c, z)
     \/ Lose(c)
  /\ UNCHANGED <<podVars, listens>>

ResetLocpick(z) == Reset(z) /\ UNCHANGED <<podVars, listens>>

----------------------------------------------------------------------------
Answered(b) == HttpInfo(b) \/ GrpcInfo(b) \/ TlsInfo(b) \/ ServeLoc(b) \/ GotLoc(b)

BeaconNext ==
  \/ \E b \in Pods : Start(b) \/ Answered(b) \/ Exit(b) \/ KillLocpick(b)
  \/ \E c \in Beacons \ Pods : UseHttp(c)
  \/ \E z \in Zones : ResetLocpick(z)
  \/ LocpickRestarts

BeaconSpec == BeaconInit /\ [][BeaconNext]_beaconVars

\* Containers are started again, a failed init() exits, and calls to a server
\* that listens are answered in the end.
BeaconFairness ==
  \A b \in Pods : /\ WF_beaconVars(Start(b))
                  /\ SF_beaconVars(Answered(b))
                  /\ WF_beaconVars(stage[b] = "failed" /\ Exit(b))

BeaconFairSpec == BeaconSpec /\ BeaconFairness

----------------------------------------------------------------------------
(***************************************************************************)
(* A beacon whose info shows a sid has its servers up and, if it asks      *)
(* locpick at all, has been told a location of its own zone by this run's  *)
(* call; locpick still lists it unless it was initialized since.           *)
(***************************************************************************)
SidMeansLocated ==
  \A b \in Pods :
     /\ stage[b] = "ready" => beaconSid[b] # 0
     /\ beaconSid[b] # 0 =>
          /\ serves[b]
          /\ AsksLocpick(b) =>
               /\ held[b] # Nil
               /\ held[b].zone = ZoneOf(b)
               /\ held[b].sid = sid => \E i \in DOMAIN newlocs : newlocs[i] = held[b]

WellConfigured(b) ==
  /\ ~InitThrows(b)
  /\ \A s \in Servers : EndpointOf(env[b], s) = Listener(s)
  /\ AsksLocpick(b) => ZoneOf(b) \in Zones

(***************************************************************************)
(* However often locpick and the pods die, also because another beacon     *)
(* asks for a zone that is not configured: once they stop dying and        *)
(* locpick has its keys, every well-configured beacon is ready for good.   *)
(***************************************************************************)
BecomesReady ==
  (<>[](listens = Servers)) =>
     \A b \in Pods : <>[](WellConfigured(b) => stage[b] = "ready")
=============================================================================
