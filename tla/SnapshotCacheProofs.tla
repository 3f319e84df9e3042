------------------------ MODULE SnapshotCacheProofs ------------------------
(***************************************************************************)
(* Proofs about SnapshotCache, for any number of nodes, callers, readers   *)
(* and calls.  The inductive invariant CacheInv adds to the properties     *)
(* that watch identifiers and channels are numbered in the order they are  *)
(* made, that an open watch is filed under the node of its request, and    *)
(* that no two open watches share an identifier or a channel.              *)
(***************************************************************************)
EXTENDS SnapshotCache, TLAPS

Unused == [buf |-> Nil, sent |-> 0]

Numbered ==
  /\ watchCount <= calls
  /\ \A i \in ChanId : i > calls => chan[i] = Unused
  /\ \A n \in Nodes : snapshots[n] # Nil => snapshots[n].seq <= setCount
  /\ \A c \in Callers : cancel[c] # Nil => cancel[c].id <= watchCount

Filed ==
  \A n \in Nodes : \A w \in watches[n] :
     /\ w.request.node = n
     /\ w.id <= watchCount
     /\ w.chan <= calls
     /\ chan[w.chan] = Unused

Distinct ==
  \A m, n \in Nodes : \A v \in watches[m], w \in watches[n] :
     v.id = w.id \/ v.chan = w.chan => v = w

CacheInv ==
  /\ TypeOK /\ Numbered /\ Filed /\ Distinct
  /\ NoOutdatedWatch /\ CancelIsOwn

----------------------------------------------------------------------------
\* A response made of a request and a snapshot is a response.
LEMMA CreateResponseType ==
  ASSUME NEW request \in Request, NEW snapshot \in Snapshot
  PROVE  CreateResponse(request, snapshot) \in Response
  BY DEF CreateResponse, GetResources, GetVersion, Response, Request, Snapshot

\* What a send leaves in a channel.
LEMMA SendType ==
  ASSUME NEW channel \in Channel, NEW response \in Response
  PROVE  /\ Send(channel, response) \in Channel
         /\ Send(channel, response).buf = response
         /\ Send(channel, response).sent = channel.sent + 1
  BY DEF Send, Channel

\* A channel after SetSnapshot(n, version, names): as it was, or sent the
\* response for some outdated watch of n that feeds it.
LEMMA SetSnapshotChannels ==
  ASSUME TypeOK, NEW n \in Nodes, NEW version \in Versions,
         NEW names \in [Types -> SUBSET Names], SetSnapshot(n, version, names),
         NEW i \in ChanId,
         NEW snapshot, snapshot = NewSnapshot(version, names, setCount + 1)
  PROVE  /\ snapshot \in Snapshot
         /\ AnsweredOn(i, n, snapshot) = {} => chan'[i] = chan[i]
         /\ AnsweredOn(i, n, snapshot) # {} =>
              \E w \in AnsweredOn(i, n, snapshot) :
                 chan'[i] = Send(chan[i], CreateResponse(w.request, snapshot))
<1>1. snapshot \in Snapshot
  BY CacheAssumption DEF SetSnapshot, NewSnapshot, Snapshot, TypeOK
<1>2. chan'[i] = IF AnsweredOn(i, n, snapshot) = {} THEN chan[i]
                 ELSE LET w == CHOOSE w \in AnsweredOn(i, n, snapshot) : TRUE
                      IN  Send(chan[i], CreateResponse(w.request, snapshot))
  BY DEF SetSnapshot
<1>3. QED BY <1>1, <1>2

\* What an open watch is made of.
LEMMA WatchType ==
  ASSUME TypeOK, NEW n \in Nodes, NEW w \in watches[n]
  PROVE  w \in Watch /\ w.request \in Request /\ w.chan \in ChanId
         /\ w.id \in ChanId /\ w.owner \in Callers
  BY DEF TypeOK, Watch

\* The first state.
LEMMA InitInv == Init => CacheInv
<1> SUFFICES ASSUME Init PROVE CacheInv
  OBVIOUS
<1>1. TypeOK
  <2>1. chan \in [ChanId -> Channel]
    BY DEF Init, Channel
  <2>2. setCount \in 0 .. MaxSets /\ calls \in 0 .. MaxCalls
    BY CacheAssumption DEF Init
  <2>3. value \in [Callers -> 0 .. MaxCalls]
    BY CacheAssumption DEF Init
  <2>4. QED BY <2>1, <2>2, <2>3 DEF Init, TypeOK
<1>2. Numbered
  BY DEF Init, Numbered, Unused
<1>3. Filed /\ Distinct /\ NoOutdatedWatch /\ CancelIsOwn
  BY DEF Init, Filed, Distinct, NoOutdatedWatch, CancelIsOwn
<1>4. QED BY <1>1, <1>2, <1>3 DEF CacheInv

\* A new snapshot.
LEMMA SetSnapshotInv ==
  ASSUME CacheInv, NEW n \in Nodes, NEW version \in Versions,
         NEW names \in [Types -> SUBSET Names], SetSnapshot(n, version, names)
  PROVE  CacheInv'
<1> DEFINE snapshot == NewSnapshot(version, names, setCount + 1)
<1> USE DEF CacheInv
<1>1. snapshot \in Snapshot /\ snapshot.seq = setCount + 1
  BY CacheAssumption DEF SetSnapshot, NewSnapshot, Snapshot, TypeOK
<1>2. /\ snapshots' = [snapshots EXCEPT ![n] = snapshot]
      /\ watches' = [watches EXCEPT ![n] = @ \ Outdated(n, snapshot)]
      /\ setCount' = setCount + 1 /\ setCount' \in 0 .. MaxSets
      /\ UNCHANGED <<tracked, watchCount, calls, value, cancel, reading>>
      /\ down' \in BOOLEAN
  <2>1. setCount + 1 \in 0 .. MaxSets
    BY CacheAssumption DEF SetSnapshot, TypeOK
  <2>2. down' \in BOOLEAN
    BY DEF SetSnapshot, WriteSnapshots
  <2>3. watches' = [watches EXCEPT ![n] = @ \ Outdated(n, snapshot)]
    BY DEF SetSnapshot, Remaining, TypeOK
  <2>4. QED BY <2>1, <2>2, <2>3 DEF SetSnapshot
<1>3. \A m \in Nodes : watches'[m] \subseteq watches[m]
  BY <1>2 DEF TypeOK
<1>4. ASSUME NEW i \in ChanId
      PROVE  /\ AnsweredOn(i, n, snapshot) = {} => chan'[i] = chan[i]
             /\ AnsweredOn(i, n, snapshot) # {} =>
                  \E w \in AnsweredOn(i, n, snapshot) :
                     chan'[i] = Send(chan[i], CreateResponse(w.request, snapshot))
  BY SetSnapshotChannels
<1>5. TypeOK'
  <2>1. ASSUME NEW i \in ChanId PROVE chan'[i] \in Channel
    <3>1. CASE AnsweredOn(i, n, snapshot) = {}
      BY <3>1, <1>4 DEF TypeOK
    <3>2. CASE AnsweredOn(i, n, snapshot) # {}
      <4>1. PICK w \in AnsweredOn(i, n, snapshot) :
               chan'[i] = Send(chan[i], CreateResponse(w.request, snapshot))
        BY <3>2, <1>4
      <4>2. w.request \in Request
        BY WatchType DEF AnsweredOn, Outdated
      <4>3. QED BY <4>1, <4>2, <1>1, CreateResponseType, SendType DEF TypeOK
    <3>3. QED BY <3>1, <3>2
  <2>2. chan' \in [ChanId -> Channel]
    <3>1. chan' = [i \in ChanId |-> chan'[i]]
      BY DEF SetSnapshot
    <3>2. QED BY <2>1, <3>1
  <2>3. snapshots' \in [Nodes -> Snapshot \cup {Nil}]
    BY <1>1, <1>2 DEF TypeOK
  <2>4. watches' \in [Nodes -> SUBSET Watch]
    BY <1>2 DEF TypeOK
  <2>5. QED BY <1>2, <2>2, <2>3, <2>4 DEF TypeOK
\* A channel that feeds no open watch of n is left alone.
<1>6. ASSUME NEW i \in ChanId, \A w \in watches[n] : w.chan = i => w \notin Outdated(n, snapshot)
      PROVE  chan'[i] = chan[i]
  BY <1>4, <1>6 DEF AnsweredOn, Outdated
<1>7. Numbered'
  <2>1. ASSUME NEW i \in ChanId, i > calls PROVE chan'[i] = Unused
    <3>1. \A w \in watches[n] : w.chan # i
      BY <2>1, WatchType DEF Filed, TypeOK, ChanId
    <3>2. QED BY <2>1, <3>1, <1>6 DEF Numbered
  <2>2. ASSUME NEW m \in Nodes, snapshots'[m] # Nil
        PROVE  snapshots'[m].seq <= setCount'
    <3>1. CASE m = n
      BY <3>1, <1>1, <1>2 DEF TypeOK
    <3>2. CASE m # n
      <4>1. snapshots'[m] = snapshots[m] /\ snapshots[m] \in Snapshot
        BY <3>2, <2>2, <1>2 DEF TypeOK
      <4>2. snapshots[m].seq \in Nat /\ snapshots[m].seq <= setCount
        BY <4>1, <2>2, CacheAssumption DEF Numbered, Snapshot
      <4>3. QED BY <4>1, <4>2, <1>2 DEF TypeOK
    <3>3. QED BY <3>1, <3>2
  <2>3. QED BY <2>1, <2>2, <1>2 DEF Numbered, Unused
<1>8. Filed'
  <2> SUFFICES ASSUME NEW m \in Nodes, NEW w \in watches'[m]
               PROVE  /\ w.request.node = m /\ w.id <= watchCount
                      /\ w.chan <= calls /\ chan'[w.chan] = Unused
    BY <1>2 DEF Filed, Unused
  <2>1. w \in watches[m] /\ w.chan \in ChanId
    BY <1>3, WatchType
  <2>2. \A v \in watches[n] : v.chan = w.chan => v = w /\ m = n
    BY <2>1 DEF Distinct, Filed
  <2>3. m = n => w \notin Outdated(n, snapshot)
    BY <1>2 DEF TypeOK
  <2>4. chan'[w.chan] = chan[w.chan]
    BY <2>1, <2>2, <2>3, <1>6
  <2>5. QED BY <2>1, <2>4 DEF Filed
<1>9. Distinct'
  BY <1>3 DEF Distinct
<1>10. NoOutdatedWatch'
  BY <1>2, <1>3 DEF NoOutdatedWatch, Outdated, TypeOK, UpToDate
<1>11. CancelIsOwn'
  BY <1>2, <1>3 DEF CancelIsOwn
<1>12. QED BY <1>5, <1>7, <1>8, <1>9, <1>10, <1>11

\* A cleared node.
LEMMA ClearSnapshotInv ==
  ASSUME CacheInv, NEW n \in Nodes, ClearSnapshot(n)
  PROVE  CacheInv'
<1> USE DEF CacheInv
<1>1. /\ snapshots' = [snapshots EXCEPT ![n] = Nil]
      /\ watches' = [watches EXCEPT ![n] = {}]
      /\ tracked' = tracked \ {n} /\ down' \in BOOLEAN
      /\ UNCHANGED <<watchCount, setCount, calls, chan, value, cancel, reading>>
  BY DEF ClearSnapshot, WriteSnapshots
<1>2. \A m \in Nodes : watches'[m] \subseteq watches[m]
  BY <1>1 DEF TypeOK
<1>3. TypeOK'
  BY <1>1 DEF TypeOK
<1>4. Numbered'
  BY <1>1 DEF Numbered, TypeOK, Unused
<1>5. Filed' /\ Distinct'
  BY <1>1, <1>2 DEF Filed, Distinct, Unused
<1>6. NoOutdatedWatch'
  BY <1>1, <1>2 DEF NoOutdatedWatch, TypeOK, UpToDate, GetVersion
<1>7. CancelIsOwn'
  BY <1>1, <1>2 DEF CancelIsOwn
<1>8. QED BY <1>3, <1>4, <1>5, <1>6, <1>7

\* A watch that stays open.
LEMMA OpenWatchInv ==
  ASSUME CacheInv, NEW c \in Callers, NEW request \in Request,
         OpenWatch(c, request)
  PROVE  CacheInv'
<1> DEFINE n == request.node
           new == [id |-> watchCount + 1, request |-> request,
                   chan |-> calls + 1, owner |-> c]
<1> USE DEF CacheInv
<1>1. /\ snapshots[n] # Nil => UpToDate(request, snapshots[n])
      /\ watchCount' = watchCount + 1 /\ calls' = calls + 1
      /\ calls < MaxCalls
      /\ value' = [value EXCEPT ![c] = calls + 1]
      /\ tracked' = tracked \cup {n}
      /\ watches' = [watches EXCEPT ![n] = @ \cup {new}]
      /\ cancel' = [cancel EXCEPT ![c] = [node |-> n, id |-> watchCount + 1]]
      /\ UNCHANGED <<snapshots, setCount, chan, reading, down>>
  BY DEF OpenWatch, NewChannel, NextWatchID
<1>2. /\ n \in Nodes
      /\ watchCount \in Nat /\ calls \in Nat
      /\ watchCount <= calls
      /\ watchCount + 1 \in ChanId /\ calls + 1 \in ChanId
      /\ calls' \in 0 .. MaxCalls
  BY <1>1, CacheAssumption DEF TypeOK, Request, ChanId, Numbered
<1>3. new \in Watch
  BY <1>2 DEF Watch
<1>4. ASSUME NEW m \in Nodes, NEW w \in watches'[m]
      PROVE  \/ w \in watches[m]
             \/ w = new /\ m = n
  BY <1>1, <1>4 DEF TypeOK
<1>5. ASSUME NEW m \in Nodes, NEW w \in watches[m]
      PROVE  /\ w.id < new.id /\ w.chan < new.chan
             /\ w.id \in Nat /\ w.chan \in Nat
  BY <1>2, WatchType DEF Filed, ChanId
<1>6. TypeOK'
  <2>1. watches' \in [Nodes -> SUBSET Watch]
    BY <1>1, <1>2, <1>3 DEF TypeOK
  <2>2. cancel' \in [Callers -> Cancel \cup {Nil}]
    BY <1>1, <1>2 DEF TypeOK, Cancel
  <2>3. value' \in [Callers -> 0 .. MaxCalls]
    BY <1>1, <1>2 DEF TypeOK
  <2>4. watchCount' \in Nat /\ tracked' \subseteq Nodes
    BY <1>1, <1>2 DEF TypeOK
  <2>5. QED BY <1>1, <1>2, <2>1, <2>2, <2>3, <2>4 DEF TypeOK
<1>7. Numbered'
  <2>1. ASSUME NEW i \in ChanId, i > calls' PROVE chan'[i] = Unused
    BY <1>1, <1>2, <2>1 DEF Numbered, ChanId
  <2>2. ASSUME NEW d \in Callers, cancel'[d] # Nil
        PROVE  cancel'[d].id <= watchCount'
    <3>1. CASE d = c
      BY <3>1, <1>1, <1>2 DEF TypeOK
    <3>2. CASE d # c
      <4>1. cancel'[d] = cancel[d] /\ cancel[d] \in Cancel
        BY <3>2, <2>2, <1>1 DEF TypeOK
      <4>2. cancel[d].id <= watchCount /\ cancel[d].id \in Nat
        BY <4>1, <2>2 DEF Numbered, Cancel, ChanId
      <4>3. QED BY <4>1, <4>2, <1>1, <1>2
    <3>3. QED BY <3>1, <3>2
  <2>3. QED BY <2>1, <2>2, <1>1, <1>2 DEF Numbered, Unused
<1>8. Filed'
  <2> SUFFICES ASSUME NEW m \in Nodes, NEW w \in watches'[m]
               PROVE  /\ w.request.node = m /\ w.id <= watchCount + 1
                      /\ w.chan <= calls + 1 /\ chan[w.chan] = Unused
    BY <1>1 DEF Filed, Unused
  <2>1. CASE w \in watches[m]
    BY <2>1, <1>2, <1>5 DEF Filed
  <2>2. CASE w = new /\ m = n
    BY <2>2, <1>2 DEF Numbered
  <2>3. QED BY <2>1, <2>2, <1>4
<1>9. Distinct'
  <2> SUFFICES ASSUME NEW l \in Nodes, NEW m \in Nodes,
                      NEW v \in watches'[l], NEW w \in watches'[m],
                      v.id = w.id \/ v.chan = w.chan
               PROVE  v = w
    BY DEF Distinct
  <2>1. CASE v \in watches[l] /\ w \in watches[m]
    BY <2>1 DEF Distinct
  <2>2. CASE v \in watches[l] /\ w = new
    <3>1. /\ v.id < new.id /\ v.chan < new.chan
          /\ v.id \in Nat /\ v.chan \in Nat
      BY <2>2, <1>5
    <3>2. QED BY <2>2, <3>1, <1>2
  <2>3. CASE v = new /\ w \in watches[m]
    <3>1. /\ w.id < new.id /\ w.chan < new.chan
          /\ w.id \in Nat /\ w.chan \in Nat
      BY <2>3, <1>5
    <3>2. QED BY <2>3, <3>1, <1>2
  <2>4. QED BY <2>1, <2>2, <2>3, <1>4
<1>10. NoOutdatedWatch'
  <2> SUFFICES ASSUME NEW m \in Nodes, snapshots[m] # Nil,
                      NEW w \in watches'[m]
               PROVE  UpToDate(w.request, snapshots[m])
    BY <1>1 DEF NoOutdatedWatch, UpToDate, GetVersion
  <2>1. QED BY <1>1, <1>4 DEF NoOutdatedWatch
<1>11. CancelIsOwn'
  <2> SUFFICES ASSUME NEW d \in Callers, cancel'[d] # Nil,
                      NEW m \in Nodes, NEW w \in watches'[m],
                      w.id = cancel'[d].id
               PROVE  m = cancel'[d].node /\ w.owner = d /\ w.chan = value'[d]
    BY DEF CancelIsOwn
  <2>1. CASE d = c
    <3>1. cancel'[d] = [node |-> n, id |-> watchCount + 1]
          /\ value'[d] = calls + 1
      BY <2>1, <1>1 DEF TypeOK
    <3>2. w \notin watches[m]
      BY <3>1, <1>2, <1>5
    <3>3. QED BY <2>1, <3>1, <3>2, <1>4
  <2>2. CASE d # c
    <3>1. cancel'[d] = cancel[d] /\ value'[d] = value[d]
      BY <2>2, <1>1 DEF TypeOK
    <3>2. cancel[d].id <= watchCount /\ cancel[d].id \in Nat
      BY <3>1 DEF Numbered, TypeOK, Cancel, ChanId
    <3>3. w # new
      BY <3>1, <3>2, <1>2
    <3>4. QED BY <3>1, <3>3, <1>4 DEF CancelIsOwn
  <2>3. QED BY <2>1, <2>2
<1>12. QED BY <1>6, <1>7, <1>8, <1>9, <1>10, <1>11

\* A watch that is answered at once.
LEMMA RespondNowInv ==
  ASSUME CacheInv, NEW c \in Callers, NEW request \in Request,
         RespondNow(c, request)
  PROVE  CacheInv'
<1> DEFINE snapshot == snapshots[request.node]
           new == calls + 1
<1> USE DEF CacheInv
<1>1. /\ calls' = new /\ calls < MaxCalls
      /\ value' = [value EXCEPT ![c] = new]
      /\ tracked' = tracked \cup {request.node}
      /\ chan' = IF Responds(request, snapshot)
                 THEN [chan EXCEPT ![new] =
                         Send(@, CreateResponse(request, snapshot))]
                 ELSE chan
      /\ cancel' = [cancel EXCEPT ![c] = Nil]
      /\ UNCHANGED <<snapshots, watches, watchCount, setCount, reading, down>>
  BY DEF RespondNow, NewChannel
<1>2. /\ request.node \in Nodes
      /\ snapshot \in Snapshot
      /\ calls \in Nat /\ new \in ChanId /\ calls' \in 0 .. MaxCalls
  BY <1>1, CacheAssumption DEF TypeOK, Request, ChanId, RespondNow
<1>3. Send(chan[new], CreateResponse(request, snapshot)) \in Channel
  BY <1>2, CreateResponseType, SendType DEF TypeOK
<1>4. \A i \in ChanId : i # new => chan'[i] = chan[i]
  BY <1>1 DEF TypeOK
<1>5. TypeOK'
  BY <1>1, <1>2, <1>3 DEF TypeOK
<1>6. Numbered'
  <2>1. watchCount' <= calls'
    BY <1>1, <1>2 DEF Numbered, TypeOK
  <2>2. ASSUME NEW i \in ChanId, i > calls' PROVE chan'[i] = Unused
    BY <1>1, <1>2, <1>4, <2>2 DEF Numbered, ChanId
  <2>3. \A d \in Callers : cancel'[d] # Nil => cancel'[d] = cancel[d]
    BY <1>1 DEF TypeOK
  <2>4. QED BY <1>1, <2>1, <2>2, <2>3 DEF Numbered, Unused
<1>7. Filed'
  <2> SUFFICES ASSUME NEW m \in Nodes, NEW w \in watches[m]
               PROVE  /\ w.request.node = m /\ w.id <= watchCount
                      /\ w.chan <= calls' /\ chan'[w.chan] = Unused
    BY <1>1 DEF Filed, Unused
  <2>1. w.chan \in ChanId /\ w.chan <= calls /\ w.chan # new
    BY <1>2, WatchType DEF Filed, ChanId
  <2>2. QED BY <1>1, <1>2, <1>4, <2>1 DEF Filed, ChanId
<1>8. Distinct' /\ NoOutdatedWatch'
  BY <1>1 DEF Distinct, NoOutdatedWatch, UpToDate, GetVersion
<1>9. CancelIsOwn'
  BY <1>1 DEF CancelIsOwn, TypeOK
<1>10. QED BY <1>5, <1>6, <1>7, <1>8, <1>9

\* A cancel function that is called.
LEMMA CancelWatchInv ==
  ASSUME CacheInv, NEW c \in Callers, CancelWatch(c)
  PROVE  CacheInv'
<1> USE DEF CacheInv
<1>1. /\ watches' = [watches EXCEPT ![cancel[c].node] =
                       {w \in @ : w.id # cancel[c].id}]
      /\ UNCHANGED <<snapshots, tracked, watchCount, setCount, calls, chan,
                     value, cancel, reading, down>>
  BY DEF CancelWatch
<1>2. \A m \in Nodes : watches'[m] \subseteq watches[m]
  BY <1>1 DEF TypeOK
<1>3. TypeOK'
  BY <1>1 DEF TypeOK
<1>4. Numbered' /\ Filed' /\ Distinct'
  BY <1>1, <1>2 DEF Numbered, Filed, Distinct, Unused
<1>5. NoOutdatedWatch' /\ CancelIsOwn'
  BY <1>1, <1>2 DEF NoOutdatedWatch, CancelIsOwn, UpToDate, GetVersion
<1>6. QED BY <1>3, <1>4, <1>5

\* A response that is taken out of a channel.
LEMMA ReceiveInv ==
  ASSUME CacheInv, NEW c \in Callers, Receive(c)
  PROVE  CacheInv'
<1> DEFINE i == value[c]
<1> USE DEF CacheInv
<1>1. /\ i # 0 /\ chan[i].buf # Nil
      /\ chan' = [chan EXCEPT ![i].buf = Nil]
      /\ UNCHANGED <<snapshots, tracked, watches, watchCount, setCount, calls,
                     value, cancel, reading, down>>
  BY DEF Receive
<1>2. i \in ChanId
  BY <1>1, CacheAssumption DEF TypeOK, ChanId
<1>3. \A j \in ChanId : chan[j] = Unused => chan'[j] = Unused
  BY <1>1, <1>2 DEF TypeOK, Unused
<1>4. TypeOK'
  <2>1. chan' \in [ChanId -> Channel]
    BY <1>1, <1>2 DEF TypeOK, Channel
  <2>2. QED BY <1>1, <2>1 DEF TypeOK
<1>5. Numbered' /\ Distinct'
  BY <1>1, <1>3 DEF Numbered, Distinct, Unused
<1>6. Filed'
  BY <1>1, <1>3, WatchType DEF Filed, Unused
<1>7. NoOutdatedWatch' /\ CancelIsOwn'
  BY <1>1 DEF NoOutdatedWatch, CancelIsOwn, UpToDate, GetVersion
<1>8. QED BY <1>4, <1>5, <1>6, <1>7

\* A step that leaves alone everything but the readers.
LEMMA ReadInv ==
  ASSUME CacheInv, reading' \subseteq Readers,
         UNCHANGED <<snapshots, tracked, watches, watchCount, setCount, calls,
                     chan, value, cancel, down>>
  PROVE  CacheInv'
  BY DEF CacheInv, TypeOK, Numbered, Filed, Distinct, Unused,
     NoOutdatedWatch, CancelIsOwn, UpToDate, GetVersion

\* Every operation of the cache keeps the invariant.
LEMMA NextInv == CacheInv /\ [Next]_cacheVars => CacheInv'
<1> SUFFICES ASSUME CacheInv, [Next]_cacheVars PROVE CacheInv'
  OBVIOUS
<1>1. ASSUME NEW n \in Nodes, NEW v \in Versions, NEW names \in Contents,
             SetSnapshot(n, v, names)
      PROVE  CacheInv'
  BY <1>1, SetSnapshotInv, CacheAssumption
<1>2. ASSUME NEW n \in Nodes, ClearSnapshot(n) PROVE CacheInv'
  BY <1>2, ClearSnapshotInv
<1>3. ASSUME NEW c \in Callers, NEW request \in Request,
             CreateWatch(c, request)
      PROVE  CacheInv'
  BY <1>3, OpenWatchInv, RespondNowInv DEF CreateWatch
<1>4. ASSUME NEW c \in Callers, CancelWatch(c) PROVE CacheInv'
  BY <1>4, CancelWatchInv
<1>5. ASSUME NEW c \in Callers, Receive(c) PROVE CacheInv'
  BY <1>5, ReceiveInv
<1>6. ASSUME NEW r \in Readers, BeginRead(r) \/ EndRead(r) PROVE CacheInv'
  BY <1>6, ReadInv DEF BeginRead, EndRead, CacheInv, TypeOK
<1>7. CASE UNCHANGED cacheVars
  BY <1>7, ReadInv DEF cacheVars, CacheInv, TypeOK
<1>8. QED BY <1>1, <1>2, <1>3, <1>4, <1>5, <1>6, <1>7 DEF Next

(***************************************************************************)
(* The inductive invariant: besides the types and the two invariants of the*)
(* cache, watches have the identifiers and channels of their calls, are filed*)
(* under the node of their request, and do not share either.               *)
(***************************************************************************)
THEOREM CacheInvariant == Spec => []CacheInv
<1>1. QED BY InitInv, NextInv, PTL DEF Spec

----------------------------------------------------------------------------
(***************************************************************************)
(* The cache never leaves the states its types allow.                      *)
(***************************************************************************)
THEOREM CacheTypeCorrect == Spec => []TypeOK
<1>1. CacheInv => TypeOK
  BY DEF CacheInv
<1>2. QED BY <1>1, CacheInvariant, PTL

(***************************************************************************)
(* No open watch of a node with a snapshot waits for another version.      *)
(***************************************************************************)
THEOREM NoOutdatedWatchHolds == Spec => []NoOutdatedWatch
<1>1. CacheInv => NoOutdatedWatch
  BY DEF CacheInv
<1>2. QED BY <1>1, CacheInvariant, PTL

(***************************************************************************)
(* respond never blocks with cache.mu held: every open watch has a channel *)
(* of its own that nothing was sent to.                                    *)
(***************************************************************************)
THEOREM RespondNeverBlocksHolds == Spec => []RespondNeverBlocks
<1>1. CacheInv => RespondNeverBlocks
  BY DEF CacheInv, RespondNeverBlocks, OpenWatches, Filed, Distinct, Unused
<1>2. QED BY <1>1, CacheInvariant, PTL

(***************************************************************************)
(* A cancel function reaches only the watch it was returned with.          *)
(***************************************************************************)
THEOREM CancelIsOwnHolds == Spec => []CancelIsOwn
<1>1. CacheInv => CancelIsOwn
  BY DEF CacheInv
<1>2. QED BY <1>1, CacheInvariant, PTL

----------------------------------------------------------------------------
\* Closed watches after SetSnapshot.
LEMMA SetSnapshotCloses ==
  ASSUME CacheInv, NEW n \in Nodes, NEW version \in Versions,
         NEW names \in [Types -> SUBSET Names], SetSnapshot(n, version, names),
         NEW m \in Nodes, NEW w \in watches[m] \ watches'[m]
  PROVE  ClosedForCause(m, w)
<1> DEFINE snapshot == NewSnapshot(version, names, setCount + 1)
<1> USE DEF CacheInv
<1>1. /\ snapshots' = [snapshots EXCEPT ![n] = snapshot]
      /\ watches' = [watches EXCEPT ![n] = @ \ Outdated(n, snapshot)]
  BY DEF SetSnapshot, Remaining, TypeOK
<1>2. m = n /\ w \in Outdated(n, snapshot) /\ w.chan \in ChanId
  BY <1>1, WatchType DEF TypeOK
<1>3. snapshot.seq = setCount + 1 /\ snapshot.names = names
  BY DEF NewSnapshot
<1>4. CASE Responds(w.request, snapshot)
  <2>1. w \in AnsweredOn(w.chan, n, snapshot)
    BY <1>2, <1>4 DEF AnsweredOn
  <2>2. PICK v \in AnsweredOn(w.chan, n, snapshot) :
           chan'[w.chan] = Send(chan[w.chan], CreateResponse(v.request, snapshot))
    BY <1>2, <2>1, SetSnapshotChannels
  <2>3. chan'[w.chan].sent = chan[w.chan].sent + 1
    BY <2>2 DEF Send
  <2>4. QED BY <2>3 DEF ClosedForCause
<1>5. CASE ~Responds(w.request, snapshot)
  <2>1. Ads /\ ~(snapshot.names[w.request.type] \subseteq w.request.names)
    BY <1>5 DEF Responds, GetResources
  <2>2. snapshots'[m] = snapshot
    BY <1>1, <1>2 DEF TypeOK
  <2>3. snapshots[m] # snapshot
    <3>1. snapshots[m] # Nil => snapshots[m].seq <= setCount
      BY DEF Numbered
    <3>2. snapshot # Nil
      BY SetSnapshotChannels, CacheAssumption DEF ChanId, Snapshot, NewSnapshot, SetSnapshot, TypeOK
    <3>3. QED BY <3>1, <3>2, <1>3 DEF TypeOK
  <2>4. QED BY <2>1, <2>2, <2>3 DEF ClosedForCause
<1>6. QED BY <1>4, <1>5

\* Closed watches after a call of a cancel function.
LEMMA CancelWatchCloses ==
  ASSUME CacheInv, NEW c \in Callers, CancelWatch(c),
         NEW m \in Nodes, NEW w \in watches[m] \ watches'[m]
  PROVE  ClosedForCause(m, w)
<1> USE DEF CacheInv
<1>1. /\ cancel[c] # Nil
      /\ watches' = [watches EXCEPT ![cancel[c].node] =
                       {v \in @ : v.id # cancel[c].id}]
      /\ UNCHANGED <<snapshots, chan>>
  BY DEF CancelWatch
<1>2. m = cancel[c].node /\ w.id = cancel[c].id
  BY <1>1 DEF TypeOK
<1>3. w.owner = c
  BY <1>1, <1>2 DEF CancelIsOwn
<1>4. {v \in watches[m] : v.id # cancel[c].id} = watches[m] \ {w}
  BY <1>2 DEF Distinct
<1>5. watches' = [watches EXCEPT ![m] = @ \ {w}]
  BY <1>1, <1>2, <1>4 DEF TypeOK
<1>6. QED BY <1>1, <1>2, <1>3, <1>5 DEF ClosedForCause

\* Closed watches after any operation.
LEMMA NextCloses ==
  ASSUME CacheInv, [Next]_cacheVars,
         NEW m \in Nodes, NEW w \in watches[m] \ watches'[m]
  PROVE  ClosedForCause(m, w)
<1>1. ASSUME NEW n \in Nodes, NEW v \in Versions, NEW names \in Contents,
             SetSnapshot(n, v, names)
      PROVE  ClosedForCause(m, w)
  BY <1>1, SetSnapshotCloses, CacheAssumption
<1>2. ASSUME NEW n \in Nodes, ClearSnapshot(n) PROVE ClosedForCause(m, w)
  BY <1>2 DEF ClearSnapshot, ClosedForCause, CacheInv, TypeOK
<1>3. ASSUME NEW c \in Callers, NEW request \in Request,
             CreateWatch(c, request)
      PROVE  FALSE
  BY <1>3 DEF CreateWatch, OpenWatch, RespondNow, CacheInv, TypeOK, Request
<1>4. ASSUME NEW c \in Callers, CancelWatch(c) PROVE ClosedForCause(m, w)
  BY <1>4, CancelWatchCloses
<1>5. ASSUME NEW c \in Callers, Receive(c) PROVE FALSE
  BY <1>5 DEF Receive
<1>6. ASSUME NEW r \in Readers, BeginRead(r) \/ EndRead(r) PROVE FALSE
  BY <1>6 DEF BeginRead, EndRead
<1>7. CASE UNCHANGED cacheVars
  BY <1>7 DEF cacheVars
<1>8. QED BY <1>1, <1>2, <1>3, <1>4, <1>5, <1>6, <1>7 DEF Next

(***************************************************************************)
(* No waiter is dropped: an open watch leaves the table answered, by its   *)
(* own cancel function, with its node, or as an incomplete ADS request.    *)
(***************************************************************************)
THEOREM WatchClosedForCauseHolds == Spec => WatchClosedForCause
<1> DEFINE Closes == \A n \in Nodes : \A w \in watches[n] \ watches'[n] :
                        ClosedForCause(n, w)
<1>1. CacheInv /\ [Next]_cacheVars => Closes
  BY NextCloses
<1>2. Spec => [][Closes]_cacheVars
  BY <1>1, CacheInvariant, PTL DEF Spec
<1>3. QED BY <1>2 DEF WatchClosedForCause

----------------------------------------------------------------------------
\* What ResponseIsCurrent asks of channel i in one step.
CurrentOn(i) ==
  chan'[i].sent # chan[i].sent =>
     LET response == chan'[i].buf
         request  == response.request
         snapshot == snapshots'[request.node]
     IN  /\ response.seq = snapshot.seq
         /\ response.version = snapshot.version
         /\ response.version # request.version
         /\ request.names # {} => response.names \subseteq request.names
         /\ Ads \/ request.names = {} =>
               response.names = snapshot.names[request.type]

\* A response to a request that a snapshot of another version answers.
LEMMA ResponseContents ==
  ASSUME NEW request \in Request, NEW snapshot \in Snapshot,
         ~UpToDate(request, snapshot), Responds(request, snapshot),
         NEW response, response = CreateResponse(request, snapshot)
  PROVE  /\ response.request = request
         /\ response.seq = snapshot.seq
         /\ response.version = snapshot.version
         /\ response.version # request.version
         /\ request.names # {} => response.names \subseteq request.names
         /\ Ads \/ request.names = {} =>
               response.names = snapshot.names[request.type]
<1>1. response = [request |-> request, version |-> snapshot.version,
                  names |-> IF request.names = {}
                            THEN snapshot.names[request.type]
                            ELSE snapshot.names[request.type] \cap request.names,
                  seq |-> snapshot.seq]
  BY DEF CreateResponse, GetVersion, GetResources
<1>2. snapshot.version # request.version
  BY DEF UpToDate, GetVersion
<1>3. Ads /\ request.names # {} =>
         snapshot.names[request.type] \subseteq request.names
  BY DEF Responds, GetResources
<1>4. QED BY SMTT(20), <1>1, <1>2, <1>3

\* What SetSnapshot puts into channels.
LEMMA SetSnapshotSends ==
  ASSUME CacheInv, NEW n \in Nodes, NEW version \in Versions,
         NEW names \in [Types -> SUBSET Names], SetSnapshot(n, version, names),
         NEW i \in ChanId
  PROVE  CurrentOn(i)
<1> DEFINE snapshot == NewSnapshot(version, names, setCount + 1)
<1> SUFFICES ASSUME chan'[i].sent # chan[i].sent PROVE CurrentOn(i)
  BY DEF CurrentOn
<1> USE DEF CacheInv
<1>1. PICK w \in AnsweredOn(i, n, snapshot) :
         chan'[i] = Send(chan[i], CreateResponse(w.request, snapshot))
  BY SetSnapshotChannels
<1>2. /\ w.request \in Request /\ w.request.node = n
      /\ ~UpToDate(w.request, snapshot) /\ Responds(w.request, snapshot)
  BY WatchType DEF AnsweredOn, Outdated, Filed
<1>3. snapshot \in Snapshot /\ snapshots'[n] = snapshot
  BY SetSnapshotChannels DEF SetSnapshot, TypeOK
<1>4. chan'[i].buf = CreateResponse(w.request, snapshot)
  BY <1>1 DEF Send
<1>5. QED BY <1>2, <1>3, <1>4, ResponseContents DEF CurrentOn

\* What CreateWatch puts into its new channel.
LEMMA RespondNowSends ==
  ASSUME CacheInv, NEW c \in Callers, NEW request \in Request,
         RespondNow(c, request), NEW i \in ChanId
  PROVE  CurrentOn(i)
<1> DEFINE snapshot == snapshots[request.node]
<1> SUFFICES ASSUME chan'[i].sent # chan[i].sent PROVE CurrentOn(i)
  BY DEF CurrentOn
<1> USE DEF CacheInv
<1>1. /\ chan'[i] = Send(chan[i], CreateResponse(request, snapshot))
      /\ Responds(request, snapshot)
      /\ ~UpToDate(request, snapshot)
      /\ snapshots' = snapshots /\ snapshot # Nil
  BY DEF RespondNow, NewChannel, TypeOK
<1>2. snapshot \in Snapshot
  BY <1>1 DEF TypeOK, Request
<1>3. chan'[i].buf = CreateResponse(request, snapshot)
  BY <1>1 DEF Send
<1>4. QED BY SMTT(20), <1>1, <1>2, <1>3, ResponseContents DEF CurrentOn

\* What any operation puts into a channel.
LEMMA NextSends ==
  ASSUME CacheInv, [Next]_cacheVars, NEW i \in ChanId
  PROVE  CurrentOn(i)
<1>1. ASSUME NEW n \in Nodes, NEW v \in Versions, NEW names \in Contents,
             SetSnapshot(n, v, names)
      PROVE  CurrentOn(i)
  BY <1>1, SetSnapshotSends, CacheAssumption
<1>2. ASSUME NEW n \in Nodes, ClearSnapshot(n) PROVE CurrentOn(i)
  BY <1>2 DEF ClearSnapshot, CurrentOn
<1>3. ASSUME NEW c \in Callers, NEW request \in Request,
             OpenWatch(c, request)
      PROVE  CurrentOn(i)
  BY <1>3 DEF OpenWatch, CurrentOn
<1>4. ASSUME NEW c \in Callers, NEW request \in Request,
             RespondNow(c, request)
      PROVE  CurrentOn(i)
  BY <1>4, RespondNowSends
<1>5. ASSUME NEW c \in Callers, CancelWatch(c) PROVE CurrentOn(i)
  BY <1>5 DEF CancelWatch, CurrentOn
<1>6. ASSUME NEW c \in Callers, Receive(c) PROVE CurrentOn(i)
  <2>1. chan'[i].sent = chan[i].sent
    BY <1>6 DEF Receive, CacheInv, TypeOK, Channel
  <2>2. QED BY <2>1 DEF CurrentOn
<1>7. ASSUME NEW r \in Readers, BeginRead(r) \/ EndRead(r)
      PROVE  CurrentOn(i)
  BY <1>7 DEF BeginRead, EndRead, CurrentOn
<1>8. CASE UNCHANGED cacheVars
  BY <1>8 DEF cacheVars, CurrentOn
<1>9. QED
  BY <1>1, <1>2, <1>3, <1>4, <1>5, <1>6, <1>7, <1>8 DEF Next, CreateWatch

(***************************************************************************)
(* What is sent is the node's snapshot of that moment, of a version the    *)
(* requester does not have, of names it asked for, and complete with ADS.  *)
(***************************************************************************)
THEOREM ResponseIsCurrentHolds == Spec => ResponseIsCurrent
<1> DEFINE Sends == \A i \in ChanId : CurrentOn(i)
<1>1. CacheInv /\ [Next]_cacheVars => Sends
  BY NextSends
<1>2. Spec => [][Sends]_cacheVars
  BY <1>1, CacheInvariant, PTL DEF Spec
<1>3. QED BY <1>2 DEF ResponseIsCurrent, CurrentOn
=============================================================================
