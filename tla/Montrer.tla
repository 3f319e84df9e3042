------------------------------ MODULE Montrer ------------------------------
(***************************************************************************)
(* montrer: the server that queries the signals of the last 60 seconds     *)
(* (routes/signals.js), and the page that shows them (App.js, SignalMap,   *)
(* SignalTable), over the table stage1 writes.                             *)
(*                                                                         *)
(* The page asks every second, whether it was answered or not, and shows   *)
(* each answer when it comes.  The server connects to PostgreSQL once; a   *)
(* query that fails is an unhandled rejection, and its request is never    *)
(* answered.                                                               *)
(***************************************************************************)
EXTENDS Stage1

CONSTANTS Fetches,    \* the requests a browser keeps open to one server
          TimeWindow  \* 60 s, in units of the clock

ASSUME TimeWindow \in Nat \ {0}

VARIABLES server,  \* the montrer server: "down", "connected" or "unconnected"
          fetch,   \* what became of each open request
          signals, \* App's state.signals
          page     \* "mounted", or "blank" after an error in render()

pageVars    == <<server, fetch, signals, page>>
montrerVars == <<stage1Vars, pageVars>>

\* What GROUP BY keeps apart; cluster and zones follow from these.
GroupOf(r) ==
  [loc       |-> Body[r.signal].loc,
   beacon_id |-> Body[r.signal].beaconid,
   stage1_id |-> r.stage1]

SignalWindow == {r \in rows : r.time > now - TimeWindow}

\* ROUND(n * 10.0 / total * 10.0), which rounds halves up.
Share(n) ==
  LET total == Cardinality(SignalWindow)
  IN  (200 * n + total) \div (2 * total)

\* One row of the answer for each group.
Answer ==
  {[group |-> g, sp |-> Share(Cardinality({r \in SignalWindow : GroupOf(r) = g}))] :
     g \in {GroupOf(r) : r \in SignalWindow}}

None == [answer |-> "none", signals |-> {}]
Sent == [answer |-> "sent", signals |-> {}]
Hung == [answer |-> "never", signals |-> {}]

MontrerTypeOK ==
  /\ Stage1TypeOK
  /\ server \in {"down", "connected", "unconnected"}
  /\ \A f \in Fetches :
        fetch[f] \in {None, Sent, Hung} \/ fetch[f].answer = "data"
  /\ page \in {"mounted", "blank"}

MontrerInit ==
  /\ Stage1Init
  /\ server = "down"
  /\ fetch = [f \in Fetches |-> None]
  /\ signals = {}
  /\ page = "mounted"

----------------------------------------------------------------------------
\* montrer-server.js listens, or exits when it cannot and is started again;
\* init() of routes/signals.js connects, or logs that it cannot.
StartServer ==
  /\ server = "down"
  /\ \/ server' = "connected" /\ UNCHANGED faults
     \/ /\ faults < MaxFaults /\ faults' = faults + 1
        /\ server' = "unconnected"
  /\ UNCHANGED <<up, pg, run, signalVars, now, fetch, signals, page>>

\* The connection is lost, and nothing opens it again.
ServerLosesConnection ==
  /\ server = "connected" /\ faults < MaxFaults
  /\ faults' = faults + 1
  /\ server' = "unconnected"
  /\ UNCHANGED <<up, pg, run, signalVars, now, fetch, signals, page>>

\* The process ends: requests it has not answered are rejected in the page,
\* where nothing handles that.
EndServer ==
  /\ server # "down" /\ faults < MaxFaults
  /\ faults' = faults + 1
  /\ server' = "down"
  /\ fetch' = [f \in Fetches |-> IF fetch[f].answer = "data" THEN fetch[f] ELSE None]
  /\ UNCHANGED <<up, pg, run, signalVars, now, signals, page>>

\* Variant with a fault: the timer is stopped once there is something to show.
TicksUntilShown(f) == fetch[f] = None /\ signals = {}

Ticks(f) == fetch[f] = None

\* tick(): setInterval calls it, and no clearInterval ever stops it.
Tick(f) ==
  /\ Ticks(f)
  /\ fetch' = [fetch EXCEPT ![f] = Sent]
  /\ UNCHANGED <<stage1Vars, server, signals, page>>

\* GET /api/v1/signals: one statement reads the table.
GetSignals(f) ==
  /\ fetch[f] = Sent
  /\ fetch' = [fetch EXCEPT ![f] =
       CASE server = "connected"   -> [answer |-> "data", signals |-> Answer]
         [] server = "unconnected" -> Hung
         [] server = "down"        -> None]
  /\ UNCHANGED <<stage1Vars, server, signals, page>>

\* SignalMap calls split() on the lonlat of every signal.
RenderFails(answer) == \E s \in answer : s.group.loc.lonlat = NoLonlat

\* setState and render().  After an error in render() React takes the page
\* down; componentWillUnmount throws, so ticks go on, and change nothing.
SetState(f) ==
  /\ fetch[f].answer = "data"
  /\ fetch' = [fetch EXCEPT ![f] = None]
  /\ IF page = "blank" THEN UNCHANGED <<signals, page>>
     ELSE /\ signals' = fetch[f].signals
          /\ page' = IF RenderFails(signals') THEN "blank" ELSE "mounted"
  /\ UNCHANGED <<stage1Vars, server>>

\* The user loads the page again.
Reload ==
  /\ page = "blank" /\ faults < MaxFaults
  /\ faults' = faults + 1
  /\ page' = "mounted" /\ signals' = {}
  /\ fetch' = [f \in Fetches |-> None]
  /\ UNCHANGED <<up, pg, run, signalVars, now, server>>

----------------------------------------------------------------------------
Fetch(f) == Tick(f) \/ GetSignals(f) \/ SetState(f)

MontrerNext ==
  \/ Stage1Step /\ UNCHANGED pageVars
  \/ StartServer \/ ServerLosesConnection \/ EndServer \/ Reload
  \/ \E f \in Fetches : Fetch(f)

MontrerSpec == MontrerInit /\ [][MontrerNext]_montrerVars

\* The timer of the page ticks and the queries of a connection come back; no
\* beacon has to send and no process has to start.
MontrerFairness == \A f \in Fetches : WF_montrerVars(Fetch(f))

MontrerFairSpec == MontrerSpec /\ MontrerFairness

----------------------------------------------------------------------------
(***************************************************************************)
(* Answers come in any order, and stale ones replace newer ones; but once  *)
(* the window no longer changes, a page whose server keeps its connection  *)
(* comes to show it and goes on showing it.                                *)
(***************************************************************************)
PageCatchesUp ==
  <>[](server = "connected" /\ page = "mounted" /\ \A f \in Fetches : fetch[f] # Hung)
     => <>[](signals = Answer)
=============================================================================
