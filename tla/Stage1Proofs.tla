---------------------------- MODULE Stage1Proofs ----------------------------
(***************************************************************************)
(* Proofs about Stage1 and Montrer, for any instances, signals, bodies and *)
(* bounds.  What a beacon is answered is true because the row of a PUT is  *)
(* there exactly from its INSERT on, under the run that handles it, and a  *)
(* PUT that was refused never comes to one.                                *)
(***************************************************************************)
EXTENDS Montrer, TLAPS

\* PUTs that wait for the database.
Pending == {"insert", "unsent", "inserted"}

\* The row of p that its handler wrote.
Stored(p) == \E r \in rows : r.signal = p /\ r.stage1 = handler[p]

PutInv(p) ==
  /\ phase[p] \in Pending => WellFormed(Body[p])
  /\ code[p] # 0 => phase[p] = "end"
  /\ RowsOf(p) # {} => WellFormed(Body[p]) /\ phase[p] \notin {"new", "insert", "unsent"}
  /\ phase[p] = "inserted" \/ code[p] = 200 => Stored(p)
  /\ code[p] = 400 => RowsOf(p) = {}

Stage1Inv ==
  /\ phase \in [Signals -> Phases]
  /\ code \in [Signals -> {0, 200, 400, 500}]
  /\ handler \in [Signals -> (Stage1s \X Nat) \cup {Nil}]
  /\ run \in [Stage1s -> Nat]
  /\ \A p \in Signals : PutInv(p)

----------------------------------------------------------------------------
\* A PUT whose variables, and whose rows, stay as they are.
LEMMA PutSame ==
  ASSUME NEW p \in Signals, PutInv(p), RowsOf(p)' = RowsOf(p),
         phase'[p] = phase[p], code'[p] = code[p], handler'[p] = handler[p]
  PROVE  PutInv(p)'
<1>1. Stored(p)' = Stored(p)
  BY DEF Stored, RowsOf
<1>2. QED BY <1>1 DEF PutInv

LEMMA PutSignalInv ==
  ASSUME Stage1Inv, NEW p \in Signals, NEW s \in Stage1s, PutSignal(p, s)
  PROVE  Stage1Inv'
<1> USE DEF Stage1Inv
<1>1. phase[p] = "new" /\ rows' = rows /\ run' = run /\ PutInv(p)
  BY DEF PutSignal
<1>2. RowsOf(p) = {} /\ code[p] = 0 /\ RowsOf(p)' = {}
  BY <1>1 DEF PutInv, RowsOf
<1>3. ASSUME NEW q \in Signals, q # p
      PROVE  PutInv(q)'
  <2>1. phase'[q] = phase[q] /\ code'[q] = code[q] /\ handler'[q] = handler[q]
    BY <1>3 DEF PutSignal, Enters, Refuse
  <2>2. QED BY <1>1, <2>1, PutSame DEF RowsOf
<1>4. CASE WellFormed(Body[p])
  <2>1. PICK ph \in {"insert", "unsent"} : Enters(p, s, ph) /\ code' = code
    BY <1>4 DEF PutSignal
  <2>2. PutInv(p)'
    BY <1>2, <1>4, <2>1 DEF Enters, PutInv
  <2>3. /\ phase' \in [Signals -> Phases]
        /\ handler' \in [Signals -> (Stage1s \X Nat) \cup {Nil}]
    BY <2>1 DEF Enters, Phases
  <2>4. QED BY <1>1, <1>3, <2>1, <2>2, <2>3
<1>5. CASE ~WellFormed(Body[p])
  <2>1. Refuse(p, s)
    BY <1>5 DEF PutSignal
  <2>2. PutInv(p)'
    BY <1>2, <2>1 DEF Refuse, PutInv, Pending
  <2>3. /\ phase' \in [Signals -> Phases]
        /\ code' \in [Signals -> {0, 200, 400, 500}]
        /\ handler' = handler
    BY <2>1 DEF Refuse, Phases
  <2>4. QED BY <1>1, <1>3, <2>2, <2>3
<1>6. QED BY <1>4, <1>5

LEMMA InsertInv ==
  ASSUME Stage1Inv, NEW p \in Signals, Insert(p)
  PROVE  Stage1Inv'
<1> USE DEF Stage1Inv
<1> DEFINE row == [signal |-> p, stage1 |-> handler[p], time |-> stamp[p]]
<1>1. /\ phase[p] = "insert" /\ phase' = [phase EXCEPT ![p] = "inserted"]
      /\ rows' = rows \cup {row} /\ UNCHANGED <<run, code, handler>> /\ PutInv(p)
  BY DEF Insert
<1>2. ASSUME NEW q \in Signals, q # p
      PROVE  PutInv(q)'
  <2>1. RowsOf(q)' = RowsOf(q)
    BY <1>1, <1>2 DEF RowsOf
  <2>2. QED BY <1>1, <1>2, <2>1, PutSame
<1>3. PutInv(p)'
  <2>1. Stored(p)'
    <3>1. row \in rows' /\ row.signal = p /\ row.stage1 = handler'[p]
      BY <1>1
    <3>2. QED BY <3>1 DEF Stored
  <2>2. WellFormed(Body[p]) /\ code[p] = 0
    BY <1>1 DEF PutInv, Pending
  <2>3. QED BY <1>1, <2>1, <2>2 DEF PutInv
<1>4. phase' \in [Signals -> Phases]
  BY <1>1 DEF Phases
<1>5. QED BY <1>1, <1>2, <1>3, <1>4

LEMMA AnswerPutInv ==
  ASSUME Stage1Inv, NEW p \in Signals, AnswerPut(p)
  PROVE  Stage1Inv'
<1> USE DEF Stage1Inv
<1>1. /\ phase[p] \in Pending /\ phase' = [phase EXCEPT ![p] = "end"]
      /\ UNCHANGED <<run, rows, handler>> /\ PutInv(p)
  BY DEF AnswerPut, Pending
<1> DEFINE c == Status(phase[p] = "inserted" /\ pg[Stage1Of(p)] = "connected")
<1>2. /\ code' = [code EXCEPT ![p] = c] /\ c \in {200, 500}
      /\ c = 200 => phase[p] = "inserted"
  BY DEF AnswerPut, Status
<1> HIDE DEF c
<1>3. ASSUME NEW q \in Signals, q # p
      PROVE  PutInv(q)'
  BY <1>1, <1>2, <1>3, PutSame DEF RowsOf
<1>4. PutInv(p)'
  <2>1. Stored(p)' = Stored(p) /\ RowsOf(p)' = RowsOf(p)
    BY <1>1 DEF Stored, RowsOf
  <2>2. QED BY <1>1, <1>2, <2>1 DEF PutInv, Pending
<1>5. phase' \in [Signals -> Phases] /\ code' \in [Signals -> {0, 200, 400, 500}]
  BY <1>1, <1>2 DEF Phases
<1>6. QED BY <1>1, <1>3, <1>4, <1>5

LEMMA EndStage1Inv ==
  ASSUME Stage1Inv, NEW s \in Stage1s, EndStage1(s)
  PROVE  Stage1Inv'
<1> USE DEF Stage1Inv
<1>1. UNCHANGED <<run, code, handler, rows>>
  BY DEF EndStage1
<1>2. ASSUME NEW p \in Signals
      PROVE  phase'[p] = phase[p] \/ (phase[p] \in Pending /\ phase'[p] = "dropped")
  BY DEF EndStage1, Pending
<1>3. phase' \in [Signals -> Phases]
  BY DEF EndStage1, Phases
<1>4. ASSUME NEW p \in Signals
      PROVE  PutInv(p)'
  <2>1. Stored(p)' = Stored(p) /\ RowsOf(p)' = RowsOf(p) /\ PutInv(p)
    BY <1>1 DEF Stored, RowsOf
  <2>2. QED BY <1>1, <1>2, <2>1 DEF PutInv, Pending
<1>5. QED BY <1>1, <1>3, <1>4

\* Steps that touch no PUT; stage1 may start a new run.
LEMMA QuietInv ==
  ASSUME Stage1Inv, UNCHANGED signalVars, run' \in [Stage1s -> Nat]
  PROVE  Stage1Inv'
<1>1. ASSUME NEW p \in Signals
      PROVE  PutInv(p)'
  BY PutSame DEF Stage1Inv, signalVars, RowsOf
<1>2. QED BY <1>1 DEF Stage1Inv, signalVars

LEMMA Stage1NextInv ==
  ASSUME Stage1Inv, [MontrerNext]_montrerVars
  PROVE  Stage1Inv'
<1>0. run \in [Stage1s -> Nat]
  BY DEF Stage1Inv
<1>1. ASSUME NEW s \in Stage1s, StartStage1(s) \/ LoseConnection(s)
      PROVE  Stage1Inv'
  <2>1. UNCHANGED signalVars /\ run' \in [Stage1s -> Nat]
    BY <1>0, <1>1 DEF StartStage1, LoseConnection
  <2>2. QED BY <2>1, QuietInv
<1>2. ASSUME Clock \/ UNCHANGED montrerVars
      PROVE  Stage1Inv'
  BY <1>0, <1>2, QuietInv DEF Clock, montrerVars, stage1Vars
<1>3. ASSUME StartServer \/ ServerLosesConnection \/ EndServer \/ Reload
      PROVE  Stage1Inv'
  BY <1>0, <1>3, QuietInv DEF StartServer, ServerLosesConnection, EndServer, Reload
<1>4. ASSUME NEW f \in Fetches, Fetch(f)
      PROVE  Stage1Inv'
  BY <1>0, <1>4, QuietInv DEF Fetch, Tick, GetSignals, SetState, stage1Vars
<1>5. QED
  BY <1>1, <1>2, <1>3, <1>4, PutSignalInv, InsertInv, AnswerPutInv, EndStage1Inv
  DEF MontrerNext, Stage1Step

(***************************************************************************)
(* Where a PUT is, what it was answered and the rows of the table fit      *)
(* together (server.js:187-313), whoever ends and whatever is lost.        *)
(***************************************************************************)
THEOREM Stage1Invariant == MontrerSpec => []Stage1Inv
<1>1. MontrerInit => Stage1Inv
  BY DEF MontrerInit, Stage1Init, Stage1Inv, PutInv, RowsOf, Phases, Pending
<1>2. QED BY <1>1, Stage1NextInv, PTL DEF MontrerSpec

(***************************************************************************)
(* A beacon that is answered 200 has its signal in the table, and one that *)
(* is answered 400 has not, for any signals and any faults.                *)
(***************************************************************************)
THEOREM AnswerIsTrueHolds == MontrerSpec => []AnswerIsTrue
<1>1. Stage1Inv => AnswerIsTrue
  BY DEF Stage1Inv, PutInv, Stored, RowsOf, AnswerIsTrue
<1>2. QED BY <1>1, Stage1Invariant, PTL

----------------------------------------------------------------------------
\* A PUT that waits for the database has a handler, which its row names.
Handled == \A p \in Signals : phase[p] \in Pending => handler[p] \in Stage1s \X Nat

MontrerInv ==
  /\ MontrerTypeOK /\ Stage1Inv /\ Handled
  /\ fetch = [f \in Fetches |-> fetch[f]]

LEMMA PutTypes ==
  ASSUME MontrerInv, NEW p \in Signals,
         (\E s \in Stage1s : PutSignal(p, s)) \/ Insert(p) \/ AnswerPut(p)
  PROVE  Stage1TypeOK' /\ Handled'
<1> USE Stage1Assumption DEF MontrerInv, MontrerTypeOK, Stage1TypeOK, Handled
<1>1. ASSUME NEW s \in Stage1s, PutSignal(p, s)
      PROVE  Stage1TypeOK' /\ Handled'
  <2>1. UNCHANGED <<up, pg, run, rows, now, faults>>
    BY <1>1 DEF PutSignal
  <2>2. CASE \E ph \in {"insert", "unsent"} : Enters(p, s, ph) /\ code' = code
    BY <2>1, <2>2 DEF Enters, Phases
  <2>3. CASE Refuse(p, s)
    BY <2>1, <2>3 DEF Refuse, Phases, Pending
  <2>4. QED BY <1>1, <2>2, <2>3 DEF PutSignal
<1>2. CASE Insert(p)
  <2>1. PICK row : row = [signal |-> p, stage1 |-> handler[p], time |-> stamp[p]]
    OBVIOUS
  <2>2. handler[p] \in Stage1s \X Nat /\ stamp[p] \in Nat
    BY <1>2 DEF Insert, Pending
  <2>3. row \in Row
    BY <2>1, <2>2 DEF Row
  <2>4. /\ rows' = rows \cup {row} /\ phase' = [phase EXCEPT ![p] = "inserted"]
        /\ phase[p] = "insert" /\ UNCHANGED <<up, pg, run, code, handler, stamp, now, faults>>
    BY <1>2, <2>1 DEF Insert
  <2>5. QED BY <2>2, <2>3, <2>4 DEF Phases
<1>3. CASE AnswerPut(p)
  <2>1. /\ phase' = [phase EXCEPT ![p] = "end"] /\ stamp' = [stamp EXCEPT ![p] = 0]
        /\ UNCHANGED <<up, pg, run, handler, rows, now, faults>>
    BY <1>3 DEF AnswerPut
  <2>2. code' \in [Signals -> {0, 200, 400, 500}]
    BY <1>3 DEF AnswerPut, Status
  <2>3. stamp' \in [Signals -> 0 .. MaxTime] /\ phase' \in [Signals -> Phases]
    BY <2>1 DEF Phases
  <2>4. Handled'
    BY <2>1 DEF Pending
  <2>5. QED BY <2>1, <2>2, <2>3, <2>4
<1>4. QED BY <1>1, <1>2, <1>3

LEMMA Stage1Types ==
  ASSUME MontrerInv, Stage1Step
  PROVE  Stage1TypeOK' /\ Handled'
<1> USE Stage1Assumption DEF MontrerInv, MontrerTypeOK, Stage1TypeOK, Handled
<1>1. ASSUME NEW s \in Stage1s, StartStage1(s) \/ LoseConnection(s) \/ EndStage1(s)
      PROVE  Stage1TypeOK' /\ Handled'
  <2>1. up' \subseteq Stage1s /\ UNCHANGED <<now, stamp, code, handler, rows>>
    BY <1>1 DEF StartStage1, LoseConnection, EndStage1, signalVars
  <2>2. pg' \in [Stage1s -> {"none", "connected", "failed", "lost"}]
    BY <1>1 DEF StartStage1, LoseConnection, EndStage1
  <2>3. run' \in [Stage1s -> Nat] /\ faults' \in 0 .. MaxFaults
    BY <1>1 DEF StartStage1, LoseConnection, EndStage1
  <2>4. /\ phase' \in [Signals -> Phases]
        /\ \A p \in Signals : phase'[p] \in Pending => phase[p] \in Pending
    BY <1>1 DEF StartStage1, LoseConnection, EndStage1, signalVars, Phases, Pending
  <2>5. QED BY <2>1, <2>2, <2>3, <2>4
<1>2. ASSUME Clock
      PROVE  Stage1TypeOK' /\ Handled'
  BY <1>2 DEF Clock, signalVars
<1>3. QED BY <1>1, <1>2, PutTypes DEF Stage1Step

\* The state of the server and of the page's requests.
PageOK ==
  /\ server \in {"down", "connected", "unconnected"}
  /\ fetch = [f \in Fetches |-> fetch[f]]
  /\ \A f \in Fetches : fetch[f] \in {None, Sent, Hung} \/ fetch[f].answer = "data"
  /\ page \in {"mounted", "blank"}

LEMMA FetchTypes ==
  ASSUME PageOK, NEW f \in Fetches, Fetch(f)
  PROVE  PageOK'
<1> USE DEF PageOK
<1>1. server' = server /\ page' \in {"mounted", "blank"}
  BY DEF Fetch, Tick, GetSignals, SetState
<1>2. PICK x : /\ fetch' = [fetch EXCEPT ![f] = x]
               /\ x \in {None, Sent, Hung} \/ x.answer = "data"
  <2>1. CASE Tick(f)
    BY <2>1 DEF Tick
  <2>2. CASE SetState(f)
    BY <2>2 DEF SetState
  <2>3. CASE GetSignals(f)
    <3>1. PICK x : x = CASE server = "connected"   -> [answer |-> "data", signals |-> Answer]
                         [] server = "unconnected" -> Hung
                         [] server = "down"        -> None
      OBVIOUS
    <3>2. x \in {None, Sent, Hung} \/ x.answer = "data"
      BY <3>1
    <3>3. fetch' = [fetch EXCEPT ![f] = x]
      BY <2>3, <3>1 DEF GetSignals
    <3>4. QED BY <3>2, <3>3
  <2>4. QED BY <2>1, <2>2, <2>3 DEF Fetch
<1>3. fetch' = [g \in Fetches |-> IF g = f THEN x ELSE fetch[g]]
  BY <1>2
<1>4. QED BY <1>1, <1>2, <1>3

LEMMA MontrerNextInv ==
  ASSUME MontrerInv, [MontrerNext]_montrerVars
  PROVE  MontrerInv'
<1>1. Stage1Inv'
  BY Stage1NextInv DEF MontrerInv
<1>2. Stage1TypeOK' /\ Handled'
  <2> USE DEF MontrerInv, MontrerTypeOK
  <2>1. ASSUME UNCHANGED <<up, pg, run, signalVars, now>>, faults' \in 0 .. MaxFaults
        PROVE  Stage1TypeOK' /\ Handled'
    BY <2>1 DEF signalVars, Stage1TypeOK, Handled
  <2>2. faults \in 0 .. MaxFaults /\ MaxFaults \in Nat
    BY Stage1Assumption DEF Stage1TypeOK
  <2>3. CASE StartServer \/ ServerLosesConnection \/ EndServer \/ Reload
    BY <2>1, <2>2, <2>3 DEF StartServer, ServerLosesConnection, EndServer, Reload
  <2>4. ASSUME NEW f \in Fetches, Fetch(f)
        PROVE  Stage1TypeOK' /\ Handled'
    BY <2>1, <2>2, <2>4 DEF Fetch, Tick, GetSignals, SetState, stage1Vars
  <2>5. CASE UNCHANGED montrerVars
    BY <2>1, <2>2, <2>5 DEF montrerVars, stage1Vars
  <2>6. QED BY <2>3, <2>4, <2>5, Stage1Types DEF MontrerNext
<1>3. PageOK'
  <2>0. PageOK
    BY DEF MontrerInv, MontrerTypeOK, PageOK
  <2>1. CASE UNCHANGED pageVars
    BY <2>0, <2>1 DEF PageOK, pageVars
  <2>2. CASE StartServer \/ ServerLosesConnection
    BY <2>0, <2>2 DEF PageOK, StartServer, ServerLosesConnection
  <2>3. CASE EndServer
    BY <2>0, <2>3 DEF PageOK, EndServer
  <2>4. CASE Reload
    BY <2>0, <2>4 DEF PageOK, Reload
  <2>5. QED BY <2>0, <2>1, <2>2, <2>3, <2>4, FetchTypes DEF MontrerNext, montrerVars
<1>4. QED BY <1>1, <1>2, <1>3 DEF MontrerInv, MontrerTypeOK, PageOK, Handled

(***************************************************************************)
(* The state of stage1, of its table, of montrer and of the page keeps its *)
(* type: each row names a run of stage1 that wrote it (server.js:265-283). *)
(***************************************************************************)
THEOREM MontrerTypeCorrect == MontrerSpec => []MontrerTypeOK
<1>1. MontrerInit => MontrerInv
  <2>1. MontrerInit => Stage1Inv
    BY DEF MontrerInit, Stage1Init, Stage1Inv, PutInv, RowsOf, Phases, Pending
  <2>2. MontrerInit => Stage1TypeOK /\ Handled
    BY Stage1Assumption
    DEF MontrerInit, Stage1Init, Stage1TypeOK, Phases, Handled, Pending
  <2>3. QED BY <2>1, <2>2 DEF MontrerInit, MontrerInv, MontrerTypeOK, Handled
<1>2. MontrerInv => MontrerTypeOK
  BY DEF MontrerInv
<1>3. QED BY <1>1, <1>2, MontrerNextInv, PTL DEF MontrerSpec
=============================================================================
