--------------------------- MODULE ResetLocpicks ---------------------------
(***************************************************************************)
(* scripts/reset-locpicks.js: every locpick that DNS knows is reset, the   *)
(* first one to zone za and the second one to zb, one after another.       *)
(*                                                                         *)
(* The list of zones is not started again after its last one, so that a    *)
(* third locpick ends the loop with a TypeError.  An HTTP error is logged  *)
(* and the loop goes on; when there is no answer the handler itself throws *)
(* on error.response, the promise is never settled, and the process ends   *)
(* because nothing is left to wait for.                                    *)
(***************************************************************************)
EXTENDS Integers, Sequences

CONSTANTS Locpicks,     \* the locpick processes, each at an address
          Resolutions,     \* what resolve4 may return, in order
          ZonesOf,      \* the zones in each locpick's gl.config.list
          MaxResets,    \* bound on runs of the script
          MaxDowns      \* bound on locpicks that end, and on lost answers

glZones == <<"za", "zb">>
NoZone  == "nozone"  \* gl.config.current.zone of a fresh process

ASSUME ResetAssumption ==
  /\ Resolutions \subseteq Seq(Locpicks)
  /\ ZonesOf \in [Locpicks -> SUBSET {glZones[i] : i \in DOMAIN glZones}]
  /\ MaxResets \in Nat /\ MaxDowns \in Nat

VARIABLES resets,    \* the number of runs
          logLevel,  \* is LOG_LEVEL set?
          script,    \* where the script is, or how it ended
          ips,       \* locpickIPs
          zoneIndex, \* zones used, and addresses tried
          request,   \* "none", "sent", 200 or 400: the request of the loop
          current,   \* gl.config.current.zone of each locpick, by its process
          accepted,  \* the addresses of this run that answered 200
          fresh,     \* the locpicks restarted since this run began
          downs      \* faults so far

resetVars == <<resets, logLevel, script, ips, zoneIndex, request, current,
               accepted, fresh, downs>>

Status == {"none", "sent", "200", "400"}

ResetTypeOK ==
  /\ script \in {"idle", "dns", "loop", "finish", "throw", "silent"}
  /\ ips \in Resolutions \cup {<<>>}
  /\ zoneIndex \in 0 .. Len(glZones)
  /\ request \in Status
  /\ \A l \in Locpicks : current[l] \in ZonesOf[l] \cup {NoZone}
  /\ accepted \cup fresh \subseteq Locpicks

ResetInit ==
  /\ resets = 0 /\ logLevel \in BOOLEAN /\ script = "idle"
  /\ ips = <<>> /\ zoneIndex = 0 /\ request = "none"
  /\ current = [l \in Locpicks |-> NoZone]
  /\ accepted = {} /\ fresh = {} /\ downs = 0

----------------------------------------------------------------------------
Runs == script \in {"dns", "loop"}

\* Without LOG_LEVEL the script throws: a string has no toUpperString().
StartReset ==
  /\ ~Runs /\ resets < MaxResets
  /\ resets' = resets + 1
  /\ script' = IF logLevel THEN "dns" ELSE "throw"
  /\ ips' = <<>> /\ zoneIndex' = 0 /\ request' = "none"
  /\ accepted' = {} /\ fresh' = {}
  /\ logLevel' \in BOOLEAN
  /\ UNCHANGED <<current, downs>>

\* getDnsIP and getLocpickIPs; whatever they reject is logged, and the loop
\* runs over "".
Resolve ==
  /\ script = "dns"
  /\ script' = "loop"
  /\ ips' \in Resolutions \cup {<<>>}
  /\ UNCHANGED <<resets, logLevel, zoneIndex, request, current, accepted, fresh, downs>>

NextZone == zoneIndex + 1

\* Variant with a fault: every request is for the first zone.
FirstZone == glZones[1]

Zone == glZones[zoneIndex]

\* Variant with a fault: the last address is left out.
IsDoneEarly == zoneIndex + 1 >= Len(ips)

IsDone == zoneIndex = Len(ips)

\* The loop: the next request, the end, or the TypeError of zone.lengh.
Loop ==
  /\ script = "loop" /\ request = "none"
  /\ IF IsDone
     THEN script' = "finish" /\ UNCHANGED <<zoneIndex, request>>
     ELSE IF NextZone > Len(glZones)
          THEN script' = "throw" /\ UNCHANGED <<zoneIndex, request>>
          ELSE zoneIndex' = NextZone /\ request' = "sent" /\ UNCHANGED script
  /\ UNCHANGED <<resets, logLevel, ips, current, accepted, fresh, downs>>

\* Variant with a fault: the zone is not looked up.
LocpickResetsAny(l) == current' = [current EXCEPT ![l] = Zone] /\ request' = "200"

\* GET /reset?zone= in locpick: 400 for a zone it does not have.
LocpickResets(l) ==
  IF Zone \in ZonesOf[l]
  THEN current' = [current EXCEPT ![l] = Zone] /\ request' = "200"
  ELSE request' = "400" /\ UNCHANGED current

Serve ==
  /\ request = "sent"
  /\ LocpickResets(ips[zoneIndex])
  /\ UNCHANGED <<resets, logLevel, script, ips, zoneIndex, accepted, fresh, downs>>

\* then and catch of axhttp.get: the loop goes on in both.
ResetAnswered ==
  /\ request \in {"200", "400"}
  /\ accepted' = IF request = "200" THEN accepted \cup {ips[zoneIndex]} ELSE accepted
  /\ request' = "none"
  /\ UNCHANGED <<resets, logLevel, script, ips, zoneIndex, current, fresh, downs>>

\* No connection, or the answer is lost: error.response is undefined.
Unanswered ==
  /\ request # "none" /\ downs < MaxDowns
  /\ downs' = downs + 1
  /\ script' = "silent" /\ request' = "none"
  /\ UNCHANGED <<resets, logLevel, ips, zoneIndex, current, accepted, fresh>>

\* A locpick is restarted, at the same address.
LocpickAnew(l) ==
  /\ downs < MaxDowns /\ downs' = downs + 1
  /\ current' = [current EXCEPT ![l] = NoZone]
  /\ fresh' = fresh \cup {l}
  /\ UNCHANGED <<resets, logLevel, script, ips, zoneIndex, request, accepted>>

ResetStep == Resolve \/ Loop \/ Serve \/ ResetAnswered \/ Unanswered

ResetNext == StartReset \/ ResetStep \/ \E l \in Locpicks : LocpickAnew(l)

ResetSpec == ResetInit /\ [][ResetNext]_resetVars

----------------------------------------------------------------------------
(***************************************************************************)
(* Locpicks that one run has reset give out different zones, so that no    *)
(* two beacons are told the same place, unless one of them was restarted.  *)
(***************************************************************************)
ZonesApart ==
  \A k, l \in accepted \ fresh : k # l => current[k] # current[l]

(***************************************************************************)
(* A run that comes to its end has reset every locpick that DNS named to   *)
(* which the zone it wants is known: it does not end so when there are     *)
(* more locpicks than zones, or after one that did not answer.             *)
(***************************************************************************)
NoneForgotten ==
  script = "finish" =>
     \A i \in DOMAIN ips : ips[i] \in accepted \/ glZones[i] \notin ZonesOf[ips[i]]
=============================================================================
