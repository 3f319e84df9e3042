------------------------------- MODULE Stage1 -------------------------------
(***************************************************************************)
(* stage1 (server.js), its one connection to PostgreSQL, and the table     *)
(* stage1_signal.                                                          *)
(*                                                                         *)
(* init() connects once and writes a record; whatever fails there is only  *)
(* logged, and the HTTP server starts.  A PUT of a signal is checked, then *)
(* inserted; the handler awaits the database and answers 200 or 500.  A    *)
(* lost connection is never opened again by the same process.              *)
(***************************************************************************)
EXTENDS Integers, FiniteSets

CONSTANTS Stage1s,   \* the instances of stage1
          Signals,   \* the PUTs of beacons, each sent once
          Body,      \* what each of them carries
          NoLonlat,  \* the lonlat of a location that has none
          Nil,
          MaxFaults, \* bound on lost connections and on ends of processes
          MaxTime    \* bound on the clock

\* A body is complete when it has every field that is tested for undefined;
\* path is the zone in the URL.
ASSUME Stage1Assumption ==
  /\ \A p \in Signals :
        /\ Body[p].complete \in BOOLEAN
        /\ DOMAIN Body[p] = {"complete", "path", "beaconzone", "beaconid", "loc"}
        /\ DOMAIN Body[p].loc = {"name", "lonlat"}
  /\ MaxFaults \in Nat /\ MaxTime \in Nat

VARIABLES up,       \* the instances that listen
          pg,       \* the state of each one's gl.pg
          run,      \* the sid of each instance: its runs are numbered
          phase,    \* where each PUT is
          code,     \* the HTTP status of each PUT, 0 before it is set
          handler,  \* the run of stage1 that handles each PUT
          stamp,    \* stage1_timestamp of each PUT, 0 when it has ended
          rows,     \* stage1_signal
          now,      \* the clock
          faults    \* faults so far

signalVars == <<phase, code, handler, stamp, rows>>
stage1Vars == <<up, pg, run, signalVars, now, faults>>

\* "unsent": the query of a connection that is not there.
Phases == {"new", "insert", "unsent", "inserted", "end", "dropped"}

Row == [signal : Signals, stage1 : Stage1s \X Nat, time : Nat]

Stage1TypeOK ==
  /\ up \subseteq Stage1s
  /\ pg \in [Stage1s -> {"none", "connected", "failed", "lost"}]
  /\ run \in [Stage1s -> Nat]
  /\ phase \in [Signals -> Phases]
  /\ code \in [Signals -> {0, 200, 400, 500}]
  /\ handler \in [Signals -> (Stage1s \X Nat) \cup {Nil}]
  /\ stamp \in [Signals -> 0 .. MaxTime]
  /\ rows \subseteq Row
  /\ now \in 0 .. MaxTime
  /\ faults \in 0 .. MaxFaults

Stage1Init ==
  /\ up = {}
  /\ pg = [s \in Stage1s |-> "none"]
  /\ run = [s \in Stage1s |-> 0]
  /\ phase = [p \in Signals |-> "new"]
  /\ code = [p \in Signals |-> 0]
  /\ handler = [p \in Signals |-> Nil]
  /\ stamp = [p \in Signals |-> 0]
  /\ rows = {}
  /\ now = 0
  /\ faults = 0

----------------------------------------------------------------------------
\* init() and main(): the server listens whether the connection is there or
\* not.
StartStage1(s) ==
  /\ s \notin up
  /\ up' = up \cup {s}
  /\ run' = [run EXCEPT ![s] = @ + 1]
  /\ \/ pg' = [pg EXCEPT ![s] = "connected"] /\ UNCHANGED faults
     \/ /\ faults < MaxFaults /\ faults' = faults + 1
        /\ pg' = [pg EXCEPT ![s] = "failed"]
  /\ UNCHANGED <<signalVars, now>>

Enters(p, s, ph) ==
  /\ phase' = [phase EXCEPT ![p] = ph]
  /\ handler' = [handler EXCEPT ![p] = <<s, run[s]>>]
  /\ stamp' = [stamp EXCEPT ![p] = now]

\* Variant with a fault: no return after the answer 400.
RefuseAndGoOn(p, s) ==
  code' = [code EXCEPT ![p] = 400] /\ Enters(p, s, "insert")

Refuse(p, s) ==
  /\ code' = [code EXCEPT ![p] = 400]
  /\ phase' = [phase EXCEPT ![p] = "end"]
  /\ UNCHANGED <<handler, stamp>>

WellFormed(body) == body.complete /\ body.path = body.beaconzone

\* PUT /:beaconZONE/signal/ up to the await; an envoy gives it to an instance.
PutSignal(p, s) ==
  /\ phase[p] = "new" /\ s \in up
  /\ IF WellFormed(Body[p])
     THEN /\ Enters(p, s, IF pg[s] = "connected" THEN "insert" ELSE "unsent")
          /\ UNCHANGED code
     ELSE Refuse(p, s)
  /\ UNCHANGED <<up, pg, run, rows, now, faults>>

Stage1Of(p) == handler[p][1]

\* PostgreSQL executes the INSERT, also of a connection lost in between.
Insert(p) ==
  /\ phase[p] = "insert"
  /\ phase' = [phase EXCEPT ![p] = "inserted"]
  /\ rows' = rows \cup {[signal |-> p, stage1 |-> handler[p], time |-> stamp[p]]}
  /\ UNCHANGED <<up, pg, run, code, handler, stamp, now, faults>>

\* Variants with a fault: the status of a PUT does not depend on the write;
\* it is another one.
StatusAlways(ok) == 200

StatusCreated(ok) == IF ok THEN 201 ELSE 500

Status(ok) == IF ok THEN 200 ELSE 500

\* The result comes back; or the query fails, because of the table or of the
\* connection.
AnswerPut(p) ==
  /\ phase[p] \in {"insert", "inserted", "unsent"}
  /\ code' = [code EXCEPT ![p] =
                Status(phase[p] = "inserted" /\ pg[Stage1Of(p)] = "connected")]
  /\ phase' = [phase EXCEPT ![p] = "end"]
  /\ stamp' = [stamp EXCEPT ![p] = 0]
  /\ UNCHANGED <<up, pg, run, handler, rows, now, faults>>

LoseConnection(s) ==
  /\ pg[s] = "connected" /\ faults < MaxFaults
  /\ pg' = [pg EXCEPT ![s] = "lost"]
  /\ faults' = faults + 1
  /\ UNCHANGED <<up, run, signalVars, now>>

\* The process ends, and with it the PUTs it has not answered; an INSERT that
\* was sent may have been executed.
EndStage1(s) ==
  /\ s \in up /\ faults < MaxFaults
  /\ faults' = faults + 1
  /\ up' = up \ {s}
  /\ pg' = [pg EXCEPT ![s] = "none"]
  /\ phase' = [p \in Signals |->
                 IF phase[p] \in {"insert", "unsent", "inserted"} /\ Stage1Of(p) = s
                 THEN "dropped" ELSE phase[p]]
  /\ UNCHANGED <<run, code, handler, stamp, rows, now>>

Clock ==
  /\ now < MaxTime /\ now' = now + 1
  /\ UNCHANGED <<up, pg, run, signalVars, faults>>

----------------------------------------------------------------------------
Stage1Step ==
  \/ \E s \in Stage1s : StartStage1(s) \/ LoseConnection(s) \/ EndStage1(s)
  \/ \E p \in Signals, s \in Stage1s : PutSignal(p, s)
  \/ \E p \in Signals : Insert(p) \/ AnswerPut(p)
  \/ Clock

----------------------------------------------------------------------------
RowsOf(p) == {r \in rows : r.signal = p}

(***************************************************************************)
(* What a beacon is answered is what happened to its signal: 200 when it   *)
(* is in the table under the run that answered, 400 when it is not and     *)
(* never will be, and a signal the checks do not pass is not stored.       *)
(***************************************************************************)
AnswerIsTrue ==
  \A p \in Signals :
     /\ code[p] = 200 => \E r \in RowsOf(p) : r.stage1 = handler[p]
     /\ code[p] = 400 => RowsOf(p) = {} /\ phase[p] = "end"
     /\ RowsOf(p) # {} => WellFormed(Body[p])
=============================================================================
